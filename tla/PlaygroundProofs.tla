-------------------------- MODULE PlaygroundProofs --------------------------
(* What playgrounds guarantee, for any number of processes, users, files,  *)
(* requests and restarts: a commit request is answered at most once and a  *)
(* playground that waits for a scan is being scanned, a file is committed  *)
(* only for root or for an owner of its playground, a new playground does  *)
(* not get the record or the directory of an old one, and the counters of  *)
(* a playground are exact.                                                 *)
(*                                                                         *)
(* The first three are invariants of the playgrounds alone: whatever a     *)
(* step of Processes does, it does one of the things of PgStep to them.    *)
(* The counters need the tracker too, through what ContextProofs calls     *)
(* Tracking.                                                               *)
EXTENDS ContextProofs, FiniteSetTheorems

-----------------------------------------------------------------------------
(* Definitions                                                              *)

\* struct playground, its directory, and a commit request on its way.
PgRecs == [founder : Cookies \cup {NoProc}, uid : Users \cup {NoUid},
           nrprocs : Int, nrfiles : Int, didExec : BOOLEAN,
           scan : Files \cup {NoFile}, scantok : Requests \cup {0}]
DirRecs == [files : SUBSET Files, named : SUBSET Files, uid : Users \cup {NoUid},
            torn : BOOLEAN]
CommitMsgs == [token : Requests, uid : Users, skip : BOOLEAN, path : Files, file : Files]
ScannerRecs == [token : Requests, uid : Users, skip : BOOLEAN, file : Files]
Labels == PgIds \cup {NoPg, Deleted, Committed}

PgTypeOK ==
    /\ DOMAIN pgs \subseteq PgIds /\ pgs \in [DOMAIN pgs -> PgRecs]
    /\ DOMAIN dirs \subseteq PgIds /\ dirs \in [DOMAIN dirs -> DirRecs]
    /\ \A g \in DOMAIN dirs : IsFiniteSet(dirs[g].files)
    /\ lastId \in 0 .. MaxPg /\ kpg \in 0 .. MaxPg /\ restarts \in Nat
    /\ owners \in [PgIds -> SUBSET Users]
    /\ label \in [Files -> Labels]
    /\ pgp2m \in Seq(CommitMsgs) /\ scanners \subseteq ScannerRecs
    /\ pgm2p \in Seq(Requests) /\ answers \in [Requests -> Nat]

\* The user of a record or a directory has founded the playground.
FoundersOwn ==
    /\ \A g \in DOMAIN pgs : pgs[g].uid \in owners[g] \cup {NoUid}
    /\ \A g \in DOMAIN dirs : dirs[g].uid \in owners[g] \cup {NoUid}

\* The file that a playground wants to commit was its own when the scan was
\* requested, so it is not anybody else's since.
ScansOwnFile ==
    \A g \in DOMAIN pgs : pgs[g].scan # NoFile =>
        label[pgs[g].scan] \in {g, Deleted, Committed}

\* uid may commit f, unless f has left its playground anyway.
MayCommit(uid, f) ==
    /\ label[f] # NoPg
    /\ label[f] \in PgIds => uid = 0 \/ uid \in owners[label[f]]

RequestsAllowed ==
    /\ \A i \in DOMAIN pgp2m : MayCommit(pgp2m[i].uid, pgp2m[i].file)
    /\ \A s \in scanners : MayCommit(s.uid, s.file)

\* The three places where a request can be, and at most one at a time.
Queued == {pgp2m[i].token : i \in DOMAIN pgp2m}
Scanned == {s.token : s \in scanners}
Returning == {pgm2p[i] : i \in DOMAIN pgm2p}

QueuedOnce == \A i, j \in DOMAIN pgp2m : pgp2m[i].token = pgp2m[j].token => i = j
ScannedOnce == \A s, t \in scanners : s.token = t.token => s = t
ReturningOnce == \A i, j \in DOMAIN pgm2p : pgm2p[i] = pgm2p[j] => i = j
InOnePlace ==
    /\ QueuedOnce /\ ScannedOnce /\ ReturningOnce
    /\ Queued \cap Scanned = {} /\ Queued \cap Returning = {}
    /\ Scanned \cap Returning = {}

\* A request under way has not been answered, and the others at most once.
Unanswered ==
    /\ \A t \in Queued \cup Scanned \cup Returning : answers[t] = 0
    /\ \A t \in Requests : answers[t] <= 1

\* A playground that waits does so for a request under way.
Awaited ==
    \A g \in DOMAIN pgs : pgs[g].scantok # 0 =>
        pgs[g].scantok \in Queued \cup Scanned \cup Returning

PInv == /\ PgTypeOK /\ FoundersOwn /\ ScansOwnFile /\ RequestsAllowed
        /\ InOnePlace /\ Unanswered /\ Awaited

\* A process is in a playground whose id the kernel has handed out.
HandedOut == kpg \in Int /\ \A c \in Cookies : proc[c] # NoProc => proc[c].pgid <= kpg

\* The playground in which a process counts.
CountsIn(p) == IF p = NoProc \/ p.threads = 0 THEN NoPg ELSE p.pgid
Counted(g) == {c \in Cookies : CountsIn(proc[c]) = g}

\* The counters of g are exact if S are the processes that count in it; it has
\* processes or a directory only if it has a record.
ExactAt(g, p, d, S) ==
    /\ IsFiniteSet(S)
    /\ IF g \in DOMAIN p THEN p[g].nrprocs = Cardinality(S) ELSE S = {}
    /\ IF g \in DOMAIN d
         THEN /\ g \in DOMAIN p /\ IsFiniteSet(d[g].files)
              /\ ~d[g].torn => /\ d[g].named = d[g].files
                               /\ p[g].nrfiles = Cardinality(d[g].files)
         ELSE g \in DOMAIN p => p[g].nrfiles = 0

Exact == \A g \in PgIds : ExactAt(g, pgs, dirs, Counted(g))

-----------------------------------------------------------------------------
(* Maps, queues and maxima                                                  *)

LEMMA WithoutIs ==
    ASSUME NEW m, NEW g, NEW S, m \in [DOMAIN m -> S]
    PROVE  /\ DOMAIN Without(m, g) = DOMAIN m \ {g}
           /\ Without(m, g) \in [DOMAIN Without(m, g) -> S]
           /\ \A h \in DOMAIN m \ {g} : Without(m, g)[h] = m[h]
BY DEF Without

LEMMA AppendIs ==
    ASSUME NEW S, NEW q \in Seq(S), NEW x \in S
    PROVE  /\ Append(q, x) \in Seq(S)
           /\ Len(q) + 1 \notin DOMAIN q /\ Len(q) + 1 \in DOMAIN Append(q, x)
           /\ DOMAIN Append(q, x) = DOMAIN q \cup {Len(q) + 1}
           /\ Append(q, x)[Len(q) + 1] = x
           /\ \A i \in DOMAIN q : Append(q, x)[i] = q[i]
<1>1. /\ Append(q, x) \in Seq(S) /\ Len(Append(q, x)) = Len(q) + 1
      /\ Append(q, x)[Len(q) + 1] = x
      /\ \A i \in 1 .. Len(q) : Append(q, x)[i] = q[i]
      /\ DOMAIN q = 1 .. Len(q) /\ DOMAIN Append(q, x) = 1 .. (Len(q) + 1)
      /\ Len(q) \in Nat
  OBVIOUS
<1> QED
  BY <1>1

LEMMA TailIs ==
    ASSUME NEW S, NEW q \in Seq(S), q # <<>>
    PROVE  /\ Tail(q) \in Seq(S) /\ Head(q) \in S /\ 1 \in DOMAIN q /\ Head(q) = q[1]
           /\ \A i \in DOMAIN q : i \in Int
           /\ \A i \in DOMAIN Tail(q) : /\ i \in Nat \ {0} /\ i + 1 \in DOMAIN q
                                        /\ Tail(q)[i] = q[i + 1]
           /\ \A i \in DOMAIN q \ {1} : i - 1 \in DOMAIN Tail(q) /\ Tail(q)[i - 1] = q[i]
<1>1. /\ Tail(q) \in Seq(S) /\ Head(q) \in S /\ Len(q) \in Nat /\ Len(q) > 0
      /\ Head(q) = q[1] /\ Len(Tail(q)) = Len(q) - 1
      /\ DOMAIN q = 1 .. Len(q) /\ DOMAIN Tail(q) = 1 .. (Len(q) - 1)
      /\ \A i \in 1 .. (Len(q) - 1) : Tail(q)[i] = q[i + 1]
  OBVIOUS
<1>2. \A i \in DOMAIN q \ {1} : i - 1 \in DOMAIN Tail(q) /\ Tail(q)[i - 1] = q[i]
  <2> SUFFICES ASSUME NEW i \in DOMAIN q, i # 1
               PROVE  i - 1 \in DOMAIN Tail(q) /\ Tail(q)[i - 1] = q[i]
    OBVIOUS
  <2>1. i - 1 \in 1 .. (Len(q) - 1) /\ (i - 1) + 1 = i
    BY <1>1
  <2> QED
    BY <1>1, <2>1
<1> QED
  BY <1>1, <1>2

\* pe_playground_initpgid: a bounded set of numbers has a greatest one.
LEMMA MaxIs ==
    ASSUME NEW n \in Nat, NEW T \in SUBSET (0 .. n), T # {}
    PROVE  MaxOf(T) \in T /\ \A y \in T : y <= MaxOf(T)
<1> DEFINE D == {n - x : x \in T}
<1>1. D \in SUBSET Nat /\ D # {}
  <2>1. \A x \in T : n - x \in Nat
    OBVIOUS
  <2> QED
    BY <2>1
<1>2. PICK d \in D : \A e \in D : d <= e
  BY <1>1, LeastNat
<1>3. PICK x \in T : d = n - x
  OBVIOUS
<1>4. \A y \in T : y <= x
  <2> SUFFICES ASSUME NEW y \in T PROVE y <= x
    OBVIOUS
  <2>1. n - x <= n - y
    BY <1>2, <1>3
  <2> QED
    BY <2>1
<1> QED
  BY <1>4 DEF MaxOf

-----------------------------------------------------------------------------
(* Ids                                                                      *)

\* One process changes, and is in a playground that exists.
LEMMA OneHandedOut ==
    ASSUME Tracking, HandedOut, NEW c \in Cookies, NEW q, proc' = [proc EXCEPT ![c] = q],
           kpg' \in Int, kpg <= kpg', q # NoProc => q.pgid <= kpg'
    PROVE  HandedOut'
<1>0. proc \in [Cookies -> ProcRecs \cup {NoProc}]
  BY DEF Tracking, TypeOK
<1> SUFFICES ASSUME NEW d \in Cookies, proc'[d] # NoProc PROVE proc'[d].pgid <= kpg'
  BY DEF HandedOut
<1>1. CASE d = c
  BY <1>0, <1>1
<1>2. CASE d # c
  <2>1. proc'[d] = proc[d]
    BY <1>0, <1>2
  <2>2. proc[d].pgid \in Int
    BY <1>0, <2>1, ProcFields, PgAssumption DEF PgIds, NoPg
  <2> QED
    BY <2>1, <2>2 DEF HandedOut
<1> QED
  BY <1>1, <1>2

\* All processes stay where they are.
LEMMA AllHandedOut ==
    ASSUME HandedOut, kpg' = kpg,
           \A d \in Cookies : proc'[d] # NoProc => proc[d] # NoProc /\ proc'[d].pgid = proc[d].pgid
    PROVE  HandedOut'
BY DEF HandedOut

LEMMA LoseHandedOut ==
    ASSUME HandedOut, NEW procs \in [Cookies -> ProcRecs \cup {NoProc}], NEW c \in Cookies,
           procs[c] \in ProcRecs, LoseInstance(procs, c),
           \A d \in Cookies : procs[d] # NoProc => proc[d] # NoProc /\ procs[d].pgid = proc[d].pgid
    PROVE  HandedOut'
<1>0. kpg' = kpg
  BY DEF LoseInstance, pgVars, DeleteProc
<1>1. CASE procs[c].instances > 1
  <2> DEFINE q == [procs[c] EXCEPT !.instances = procs[c].instances - 1]
  <2>1. proc' = [procs EXCEPT ![c] = q]
    BY <1>1 DEF LoseInstance
  <2>2. q.pgid = procs[c].pgid /\ procs[c] # NoProc
    BY ProcAssumption DEF ProcRecs
  <2> HIDE DEF q
  <2>3. \A d \in Cookies : proc'[d] # NoProc => procs[d] # NoProc /\ proc'[d].pgid = procs[d].pgid
    BY <2>1, <2>2
  <2> QED
    BY <1>0, <2>3, AllHandedOut
<1>2. CASE ~(procs[c].instances > 1)
  <2>1. proc' = [procs EXCEPT ![c] = NoProc]
    BY <1>2 DEF LoseInstance
  <2>2. \A d \in Cookies : proc'[d] # NoProc => proc'[d] = procs[d]
    BY <2>1
  <2> QED
    BY <1>0, <2>2, AllHandedOut
<1> QED
  BY <1>1, <1>2

LEMMA EventHandedOut ==
    ASSUME Tracking, HandedOut, NEW c \in Cookies, ProcEvent(c)
    PROVE  HandedOut'
<1>0. /\ pdb \in Dbs /\ proc \in [Cookies -> ProcRecs \cup {NoProc}] /\ NoProc \notin ProcRecs
      /\ kpg \in Int /\ kpg <= kpg
  BY ProcAssumption DEF Tracking, TypeOK, HandedOut
<1>1. \A d \in Cookies : proc[d] # NoProc => proc[d] \in ProcRecs /\ proc[d].pgid <= kpg
  BY <1>0 DEF HandedOut
<1>2. ASSUME NEW u \in Users, NEW pg \in PgIds \cup {NoPg}, NEW parent \in Cookies,
             Fork(u, c, parent, pg)
      PROVE  HandedOut'
  <2> DEFINE par == proc[parent]
             ident == IF par = NoProc THEN NoIdent ELSE par.ident
             q == ForkCtx(NewProc(u, ident, pg), par)
  <2>1. proc' = [proc EXCEPT ![c] = q] /\ kpg' = kpg /\ pg <= kpg
    BY <1>2 DEF Fork, pgVars
  <2>2. q.pgid = pg
    <3> HIDE DEF par, ident
    <3> QED
      BY DEF ForkCtx, NewProc
  <2> HIDE DEF q
  <2> QED
    BY <1>0, <2>1, <2>2, OneHandedOut
<1>3. ASSUME NEW u \in Users, NEW pg \in PgIds \cup {NoPg}, NEW id \in Idents,
             Exec(c, u, id, pg)
      PROVE  HandedOut'
  <2> DEFINE old == IF proc[c] = NoProc THEN NewProc(u, NoIdent, pg) ELSE proc[c]
             p == [old EXCEPT !.ident = id]
             q == ExecCtx(p, u, id)
  <2>1. proc' = [proc EXCEPT ![c] = q] /\ kpg' = kpg /\ pg <= kpg
    BY <1>3 DEF Exec, pgVars, PostExec
  <2>2. old \in ProcRecs /\ old.pgid <= kpg
    BY <1>1, <2>1, NewProcIs
  <2> HIDE DEF old
  <2>3. q.pgid = old.pgid
    BY <2>2 DEF ExecCtx, ProcRecs
  <2> HIDE DEF q
  <2> QED
    BY <1>0, <2>1, <2>2, <2>3, OneHandedOut
<1>4. CASE Exit(c)
  BY <1>0, <1>4, LoseHandedOut DEF Exit
<1>5. ASSUME NEW v \in Cookies, Replace(c, v) PROVE HandedOut'
  <2> DEFINE q == [proc[c] EXCEPT !.instances = proc[c].instances + 1]
             procs == [proc EXCEPT ![c] = q]
  <2>1. LoseInstance(procs, v) /\ c # v /\ proc[v] \in ProcRecs /\ proc[c] \in ProcRecs
    BY <1>0, <1>5 DEF Replace
  <2>2. q \in ProcRecs /\ q.pgid = proc[c].pgid
    <3>1. proc[c].instances + 1 \in Nat
      BY <2>1, ProcFields
    <3> QED
      BY <2>1, <3>1 DEF ProcRecs
  <2> HIDE DEF q
  <2>3. /\ procs \in [Cookies -> ProcRecs \cup {NoProc}] /\ procs[v] \in ProcRecs
        /\ \A d \in Cookies : procs[d] # NoProc =>
              proc[d] # NoProc /\ procs[d].pgid = proc[d].pgid
    BY <1>0, <2>1, <2>2
  <2> HIDE DEF procs
  <2> QED
    BY <2>1, <2>3, LoseHandedOut
<1>6. CASE AddThread(c) \/ RemoveThread(c)
  <2>1. proc[c] \in ProcRecs /\ kpg' = kpg
    BY <1>1, <1>6 DEF AddThread, RemoveThread, AddProc, DeleteProc, pgVars
  <2>2. PICK n : proc' = [proc EXCEPT ![c] = [proc[c] EXCEPT !.threads = n]]
    BY <1>6 DEF AddThread, RemoveThread
  <2> DEFINE q == [proc[c] EXCEPT !.threads = n]
  <2>3. q.pgid = proc[c].pgid /\ proc[c] # NoProc
    BY <1>0, <2>1 DEF ProcRecs
  <2>4. proc' = [proc EXCEPT ![c] = q]
    BY <2>2
  <2> HIDE DEF q
  <2> QED
    BY <1>0, <1>1, <2>1, <2>3, <2>4, OneHandedOut
<1>7. ASSUME NEW pg \in PgIds, PlaygroundProc(c, pg) PROVE HandedOut'
  <2> DEFINE p == [proc[c] EXCEPT !.pgid = pg]
             q == RefreshAll(pdb, p)
  <2>1. proc[c] \in ProcRecs /\ proc' = [proc EXCEPT ![c] = q]
    BY <1>1, <1>7 DEF PlaygroundProc
  <2>2. p \in ProcRecs /\ p.pgid = pg
    BY <2>1 DEF ProcRecs
  <2> HIDE DEF p
  <2>3. q.pgid = pg
    BY <1>0, <2>2, RefreshedAll
  <2>4. (kpg' = kpg /\ pg = proc[c].pgid) \/ (kpg' = pg /\ pg = kpg + 1)
    BY <1>7 DEF PlaygroundProc, MayEnter, Rename, EnterNew, UseId
  <2>5. kpg' \in Int /\ kpg <= kpg' /\ pg <= kpg'
    BY <1>0, <1>1, <1>7, <2>4 DEF PlaygroundProc
  <2> HIDE DEF q
  <2> QED
    BY <2>1, <2>3, <2>5, OneHandedOut
<1>8. ASSUME NEW u \in Users, NEW id \in Idents, Open(c, id, u) PROVE HandedOut'
  <2>1. proc[c] \in ProcRecs /\ proc[c] # NoProc /\ kpg' = kpg
    BY <1>1, <1>8 DEF Open, pgVars
  <2>2. PICK cs : proc' = [proc EXCEPT ![c] = [proc[c] EXCEPT !.ctx = cs]]
    BY <1>8 DEF Open
  <2> DEFINE q == [proc[c] EXCEPT !.ctx = cs]
  <2>3. q.pgid = proc[c].pgid
    BY <2>1 DEF ProcRecs
  <2>4. proc' = [proc EXCEPT ![c] = q]
    BY <2>2
  <2> HIDE DEF q
  <2> QED
    BY <1>0, <1>1, <2>1, <2>3, <2>4, OneHandedOut
<1>9. ASSUME NEW k \in Conns, Destroy(k, c) PROVE HandedOut'
  <2> DEFINE p == proc[c]
             q == RestoreCtx(p, k)
  <2>1. c \in Tracked
    BY <1>9 DEF Destroy, Tracking, Alive
  <2>2. proc' = [proc EXCEPT ![c] = q] /\ p # NoProc /\ p \in ProcRecs /\ kpg' = kpg
    BY <1>0, <1>9, <2>1 DEF Destroy, Tracked, pgVars
  <2>3. p.pgid <= kpg
    BY <1>1, <2>2
  <2> HIDE DEF p
  <2>4. q.pgid = p.pgid
    BY <2>2, RestoredIs
  <2> HIDE DEF q
  <2> QED
    BY <1>0, <2>2, <2>3, <2>4, OneHandedOut
<1>10. ASSUME NEW k \in Conns, NEW d \in Cookies, Connect(k, c, d) PROVE HandedOut'
  <2> DEFINE s == proc[c]
             p == proc[d]
             q == BorrowCtx(s, p, k)
  <2>1. proc' = [proc EXCEPT ![d] = q] /\ p # NoProc /\ p \in ProcRecs /\ kpg' = kpg
    BY <1>0, <1>10 DEF Connect, pgVars
  <2>2. p.pgid <= kpg
    BY <1>1, <2>1
  <2> HIDE DEF p, s
  <2>3. q.pgid = p.pgid
    BY <2>1 DEF BorrowCtx, ProcRecs
  <2> HIDE DEF q
  <2> QED
    BY <1>0, <2>1, <2>2, <2>3, OneHandedOut
<1> QED
  BY <1>2, <1>3, <1>4, <1>5, <1>6, <1>7, <1>8, <1>9, <1>10 DEF ProcEvent

LEMMA PolicyHandedOut ==
    ASSUME Tracking, HandedOut, NEW u \in Users \cup {Default}, PolicyChange(u)
    PROVE  HandedOut'
<1>0. proc \in [Cookies -> ProcRecs \cup {NoProc}] /\ NoProc \notin ProcRecs
  BY ProcAssumption DEF Tracking, TypeOK
<1>1. kpg' = kpg
  BY DEF PolicyChange, SetPolicy, Reconfigure, pgVars
<1>2. ASSUME NEW i \in Prios, NEW ch \in Chains, SetPolicy(u, i, ch), NEW c \in Cookies,
             proc'[c] # NoProc
      PROVE  proc[c] # NoProc /\ proc'[c].pgid = proc[c].pgid
  <2> DEFINE hit == Affected(pdb[u][i], i, u)
  <2>1. proc'[c] = IF c \in hit THEN Refresh(pdb', proc[c], i) ELSE proc[c]
    BY <1>2 DEF SetPolicy
  <2>2. c \in hit => proc[c] # NoProc /\ proc[c] \in ProcRecs
    BY <1>0 DEF Affected, Tracked
  <2>3. proc[c] \in ProcRecs => Refresh(pdb', proc[c], i).pgid = proc[c].pgid
    BY DEF Refresh, ProcRecs
  <2> HIDE DEF hit
  <2> QED
    BY <1>2, <2>1, <2>2, <2>3
<1>3. ASSUME NEW lost, Reconfigure(lost), NEW c \in Cookies, proc'[c] # NoProc
      PROVE  proc[c] # NoProc /\ proc'[c].pgid = proc[c].pgid
  <2>1. proc[c] # NoProc /\ proc'[c] = RefreshAll(pdb', proc[c])
    BY <1>3 DEF Reconfigure
  <2>2. RefreshAll(pdb', proc[c]).pgid = proc[c].pgid
    BY <1>0, <2>1 DEF RefreshAll, ProcRecs
  <2> QED
    BY <2>1, <2>2
<1> QED
  BY <1>1, <1>2, <1>3, AllHandedOut DEF PolicyChange

-----------------------------------------------------------------------------
(* What a step does to the playgrounds                                      *)

PgStep ==
    \/ UNCHANGED pgVars
    \/ \E g \in PgIds :
          \/ DeleteProc(g) \/ Rename(g) \/ (UseId(g) /\ g = kpg + 1)
          \/ \E c \in Cookies, u \in Users :
                \/ (AddProc(g, c, u) \/ PostExec(g, c, u)) /\ g <= kpg
                \/ EnterNew(g, c, u) /\ g = kpg + 1
    \/ PgNext
    \/ StartPg(kpg) \/ StartPg(0)

LEMMA LoseInstancePg ==
    ASSUME NEW procs, NEW c \in Cookies, procs[c] \in ProcRecs, LoseInstance(procs, c)
    PROVE  PgStep
<1>1. procs[c].pgid \in PgIds \cup {NoPg}
  BY ProcFields
<1>2. UNCHANGED pgVars \/ (procs[c].pgid # NoPg /\ DeleteProc(procs[c].pgid))
  BY DEF LoseInstance
<1> QED
  BY <1>1, <1>2 DEF PgStep

LEMMA EventPg ==
    ASSUME Tracking, HandedOut, NEW c \in Cookies, ProcEvent(c)
    PROVE  PgStep
<1>0. proc \in [Cookies -> ProcRecs \cup {NoProc}]
  BY DEF Tracking, TypeOK
<1>1. \A d \in Cookies : proc[d] # NoProc =>
          /\ proc[d] \in ProcRecs /\ proc[d].uid \in Users
          /\ proc[d].pgid \in PgIds \cup {NoPg} /\ proc[d].pgid <= kpg
  BY <1>0, ProcFields DEF HandedOut
<1>2. ASSUME NEW u \in Users, NEW pg \in PgIds \cup {NoPg}, NEW id \in Idents,
             Exec(c, u, id, pg)
      PROVE  PgStep
  <2> DEFINE old == IF proc[c] = NoProc THEN NewProc(u, NoIdent, pg) ELSE proc[c]
             p == [old EXCEPT !.ident = id]
  <2>1. UNCHANGED pgVars \/ (p.pgid # NoPg /\ PostExec(p.pgid, c, p.uid))
    BY <1>2 DEF Exec
  <2>2. old \in ProcRecs /\ old.pgid <= kpg
    BY <1>1, <1>2, NewProcIs DEF Exec
  <2> HIDE DEF old
  <2>3. p.pgid \in PgIds \cup {NoPg} /\ p.uid \in Users /\ p.pgid <= kpg
    BY <2>2 DEF ProcRecs
  <2> HIDE DEF p
  <2> QED
    BY <2>1, <2>3 DEF PgStep
<1>3. CASE Exit(c)
  BY <1>1, <1>3, LoseInstancePg DEF Exit
<1>4. ASSUME NEW v \in Cookies, Replace(c, v) PROVE PgStep
  <2> DEFINE procs == [proc EXCEPT ![c] = [proc[c] EXCEPT !.instances = proc[c].instances + 1]]
  <2>1. LoseInstance(procs, v) /\ c # v /\ proc[v] # NoProc
    BY <1>4 DEF Replace
  <2>2. procs[v] = proc[v]
    BY <1>0, <2>1
  <2> HIDE DEF procs
  <2> QED
    BY <1>1, <2>1, <2>2, LoseInstancePg
<1>5. CASE AddThread(c)
  <2>1. UNCHANGED pgVars \/ (proc[c].pgid # NoPg /\ AddProc(proc[c].pgid, c, proc[c].uid))
    BY <1>5 DEF AddThread
  <2>2. proc[c] # NoProc
    BY <1>5 DEF AddThread
  <2> QED
    BY <1>1, <2>1, <2>2 DEF PgStep
<1>6. CASE RemoveThread(c)
  <2>1. UNCHANGED pgVars \/ (proc[c].pgid # NoPg /\ DeleteProc(proc[c].pgid))
    BY <1>6 DEF RemoveThread
  <2>2. proc[c] # NoProc
    BY <1>6 DEF RemoveThread
  <2> QED
    BY <1>1, <2>1, <2>2 DEF PgStep
<1>7. ASSUME NEW pg \in PgIds, PlaygroundProc(c, pg) PROVE PgStep
  <2>1. /\ proc[c] # NoProc
        /\ Rename(pg) \/ (pg = kpg + 1 /\ (UseId(pg) \/ EnterNew(pg, c, proc[c].uid)))
    BY <1>7 DEF PlaygroundProc, MayEnter
  <2> QED
    BY <1>1, <2>1 DEF PgStep
<1>8. CASE UNCHANGED pgVars
  BY <1>8 DEF PgStep
<1>9. /\ \A u, p, pg : Fork(u, c, p, pg) => UNCHANGED pgVars
      /\ \A id, u : Open(c, id, u) => UNCHANGED pgVars
      /\ \A k, d : Destroy(k, c) \/ Connect(k, c, d) => UNCHANGED pgVars
  BY DEF Fork, Open, Destroy, Connect
<1> QED
  BY <1>2, <1>3, <1>4, <1>5, <1>6, <1>7, <1>8, <1>9 DEF ProcEvent

LEMMA PgStepIs ==
    ASSUME Tracking, HandedOut, [Next]_vars
    PROVE  PgStep
<1>1. CASE UNCHANGED pgVars
  BY <1>1 DEF PgStep
<1>2. CASE \E c \in Cookies : ProcEvent(c)
  BY <1>2, EventPg
<1>3. CASE \E u \in Users \cup {Default} : PolicyChange(u)
  BY <1>1, <1>3 DEF PolicyChange, SetPolicy, Reconfigure
<1>4. CASE PgNext
  BY <1>4 DEF PgStep
<1>5. CASE Restart(kpg, Tracked) \/ Restart(0, {})
  BY <1>5 DEF PgStep, Restart
<1> QED
  BY <1>1, <1>2, <1>3, <1>4, <1>5 DEF Next, vars

-----------------------------------------------------------------------------
(* Records and directories                                                  *)

\* A record and its directory after a step that starts and ends no scan.
GoodRec(g, r) ==
    /\ g \in PgIds /\ r \in PgRecs /\ r.uid \in owners'[g] \cup {NoUid}
    /\ r.scan = NoFile \/ label'[r.scan] = g \/ (Known(g) /\ r.scan = pgs[g].scan)
    /\ r.scantok = 0 \/ (Known(g) /\ r.scantok = pgs[g].scantok)
GoodDir(g, d) == /\ g \in PgIds /\ d \in DirRecs /\ IsFiniteSet(d.files)
                 /\ d.uid \in owners'[g] \cup {NoUid}

GoodPgs == pgs' \in [DOMAIN pgs' -> PgRecs] /\ \A g \in DOMAIN pgs' : GoodRec(g, pgs'[g])
GoodDirs == dirs' \in [DOMAIN dirs' -> DirRecs] /\ \A g \in DOMAIN dirs' : GoodDir(g, dirs'[g])
OwnersGrow == /\ owners' \in [PgIds -> SUBSET Users]
              /\ \A g \in PgIds : owners[g] \subseteq owners'[g]
IdsTyped == lastId' \in 0 .. MaxPg /\ kpg' \in 0 .. MaxPg /\ restarts' \in Nat

\* A file that is in a playground does not get into another one.
LabelsMove ==
    /\ label' \in [Files -> Labels]
    /\ \A f \in Files : label[f] # NoPg => label'[f] \in {label[f], Deleted, Committed}

\* A step that starts and ends no scan.
LEMMA NoScanKeeps ==
    ASSUME PInv, UNCHANGED <<pgp2m, scanners, pgm2p, answers>>, LabelsMove,
           GoodPgs, GoodDirs, OwnersGrow, IdsTyped
    PROVE  PInv'
<1>0. /\ pgp2m' = pgp2m /\ scanners' = scanners /\ pgm2p' = pgm2p /\ answers' = answers
  OBVIOUS
<1>1. PgTypeOK'
  BY <1>0 DEF PInv, PgTypeOK, GoodPgs, GoodDirs, GoodRec, GoodDir, OwnersGrow, IdsTyped,
              LabelsMove
<1>2. FoundersOwn'
  BY DEF FoundersOwn, GoodPgs, GoodDirs, GoodRec, GoodDir
<1>3. ScansOwnFile'
  <2> SUFFICES ASSUME NEW g \in DOMAIN pgs', pgs'[g].scan # NoFile
               PROVE  label'[pgs'[g].scan] \in {g, Deleted, Committed}
    BY DEF ScansOwnFile
  <2> DEFINE f == pgs'[g].scan
  <2>1. label'[f] = g \/ (Known(g) /\ f = pgs[g].scan)
    BY DEF GoodPgs, GoodRec
  <2>2. CASE Known(g) /\ f = pgs[g].scan
    <3>1. pgs[g] \in PgRecs /\ g \in PgIds
      BY <2>2 DEF PInv, PgTypeOK, Known
    <3>2. f \in Files /\ label[f] \in {g, Deleted, Committed}
      BY <2>2, <3>1 DEF PInv, ScansOwnFile, Known, PgRecs
    <3>3. label[f] # NoPg
      BY <3>1, <3>2, PgAssumption DEF NoPg, Deleted, Committed, PgIds
    <3> QED
      BY <3>2, <3>3 DEF LabelsMove
  <2> QED
    BY <2>1, <2>2
<1>4. ASSUME NEW u, NEW f \in Files, MayCommit(u, f) PROVE MayCommit(u, f)'
  <2>1. label'[f] \in {label[f], Deleted, Committed} /\ label[f] # NoPg
    BY <1>4 DEF MayCommit, LabelsMove
  <2>2. Deleted # NoPg /\ Committed # NoPg /\ Deleted \notin PgIds /\ Committed \notin PgIds
    BY PgAssumption DEF NoPg, Deleted, Committed, PgIds
  <2> QED
    BY <1>4, <2>1, <2>2 DEF MayCommit, OwnersGrow
<1>5. RequestsAllowed'
  <2>1. \A i \in DOMAIN pgp2m : pgp2m[i].file \in Files
    <3>1. pgp2m \in Seq(CommitMsgs)
      BY DEF PInv, PgTypeOK
    <3>2. \A i \in DOMAIN pgp2m : pgp2m[i] \in CommitMsgs
      BY <3>1
    <3> QED
      BY <3>2 DEF CommitMsgs
  <2>2. \A s \in scanners : s.file \in Files
    BY DEF PInv, PgTypeOK, ScannerRecs
  <2> HIDE DEF MayCommit
  <2>3. \A i \in DOMAIN pgp2m : MayCommit(pgp2m[i].uid, pgp2m[i].file)'
    BY <1>0, <1>4, <2>1 DEF PInv, RequestsAllowed
  <2>4. \A s \in scanners : MayCommit(s.uid, s.file)'
    BY <1>0, <1>4, <2>2 DEF PInv, RequestsAllowed
  <2> QED
    BY <1>0, <2>3, <2>4 DEF RequestsAllowed
<1>6. InOnePlace' /\ Unanswered'
  BY <1>0 DEF PInv, InOnePlace, QueuedOnce, ScannedOnce, ReturningOnce, Unanswered,
              Queued, Scanned, Returning
<1>7. Awaited'
  BY <1>0 DEF PInv, Awaited, Queued, Scanned, Returning, GoodPgs, GoodRec, Known
<1> QED
  BY <1>1, <1>2, <1>3, <1>5, <1>6, <1>7 DEF PInv

LEMMA ScansUntouched ==
    ASSUME PInv, UNCHANGED scanVars, GoodPgs, GoodDirs, OwnersGrow, IdsTyped
    PROVE  PInv'
<1>1. /\ UNCHANGED <<pgp2m, scanners, pgm2p, answers>> /\ label' = label
  BY DEF scanVars
<1>2. LabelsMove
  BY <1>1 DEF LabelsMove, PInv, PgTypeOK
<1> QED
  BY <1>1, <1>2, NoScanKeeps

\* The records and directories that a step leaves alone are good.
LEMMA OldOnesGood ==
    ASSUME PInv, OwnersGrow
    PROVE  /\ \A g \in DOMAIN pgs : GoodRec(g, pgs[g])
           /\ \A g \in DOMAIN dirs : GoodDir(g, dirs[g])
BY DEF PInv, PgTypeOK, FoundersOwn, GoodRec, GoodDir, OwnersGrow, Known

LEMMA NewOnesGood ==
    ASSUME PInv, OwnersGrow, NEW g \in PgIds
    PROVE  /\ Created(g) \in PgRecs /\ GoodRec(g, Created(g))
           /\ CreatedDir(g) \in DirRecs /\ GoodDir(g, CreatedDir(g))
<1>1. EmptyPg \in PgRecs /\ GoodRec(g, EmptyPg)
  BY DEF EmptyPg, PgRecs, GoodRec
<1>2. EmptyDir \in DirRecs /\ GoodDir(g, EmptyDir)
  BY FS_EmptySet DEF EmptyDir, DirRecs, GoodDir
<1>3. g \in DOMAIN pgs => pgs[g] \in PgRecs /\ GoodRec(g, pgs[g])
  BY OldOnesGood DEF PInv, PgTypeOK
<1>4. g \in DOMAIN dirs => dirs[g] \in DirRecs /\ GoodDir(g, dirs[g])
  BY OldOnesGood DEF PInv, PgTypeOK
<1> QED
  BY <1>1, <1>2, <1>3, <1>4 DEF Created, CreatedDir, Known

LEMMA PgsWith ==
    ASSUME PInv, OwnersGrow, NEW g, NEW r, GoodRec(g, r), pgs' = With(pgs, g, r)
    PROVE  GoodPgs
<1>1. pgs \in [DOMAIN pgs -> PgRecs] /\ r \in PgRecs
  BY DEF PInv, PgTypeOK, GoodRec
<1> DEFINE m == With(pgs, g, r)
<1>2. /\ m \in [DOMAIN m -> PgRecs] /\ DOMAIN m = DOMAIN pgs \cup {g}
      /\ m[g] = r /\ \A h \in DOMAIN pgs \ {g} : m[h] = pgs[h]
  BY <1>1 DEF With
<1> HIDE DEF m
<1>3. \A h \in DOMAIN pgs : GoodRec(h, pgs[h])
  BY OldOnesGood
<1>4. pgs' = m
  BY DEF m
<1> QED
  BY <1>2, <1>3, <1>4 DEF GoodPgs

LEMMA DirsWithGood ==
    ASSUME PInv, OwnersGrow, NEW g, NEW d, GoodDir(g, d), dirs' = DirsWith(g, d)
    PROVE  GoodDirs
<1>1. dirs \in [DOMAIN dirs -> DirRecs] /\ d \in DirRecs
  BY DEF PInv, PgTypeOK, GoodDir
<1>2. \A h \in DOMAIN dirs : GoodDir(h, dirs[h])
  BY OldOnesGood
<1>3. CASE dirs' = dirs
  BY <1>1, <1>2, <1>3 DEF GoodDirs
<1>4. CASE dirs' = With(dirs, g, d)
  <2> DEFINE m == With(dirs, g, d)
  <2>1. /\ m \in [DOMAIN m -> DirRecs] /\ DOMAIN m = DOMAIN dirs \cup {g}
        /\ m[g] = d /\ \A h \in DOMAIN dirs \ {g} : m[h] = dirs[h]
    BY <1>1 DEF With
  <2>2. dirs' = m
    BY <1>4
  <2> HIDE DEF m
  <2> QED
    BY <1>2, <2>1, <2>2 DEF GoodDirs
<1> QED
  BY <1>3, <1>4 DEF DirsWith

LEMMA PutGood ==
    ASSUME PInv, OwnersGrow, NEW g, NEW r, NEW d, GoodRec(g, r), GoodDir(g, d), Put(g, r, d)
    PROVE  GoodPgs /\ GoodDirs
<1>1. CASE Dead(g, r)
  <2>1. pgs' = Without(pgs, g) /\ dirs' = Without(dirs, g)
    BY <1>1 DEF Put
  <2>2. pgs \in [DOMAIN pgs -> PgRecs] /\ dirs \in [DOMAIN dirs -> DirRecs]
    BY DEF PInv, PgTypeOK
  <2>3. /\ pgs' \in [DOMAIN pgs' -> PgRecs] /\ DOMAIN pgs' = DOMAIN pgs \ {g}
        /\ \A h \in DOMAIN pgs \ {g} : pgs'[h] = pgs[h]
    BY <2>1, <2>2, WithoutIs
  <2>4. /\ dirs' \in [DOMAIN dirs' -> DirRecs] /\ DOMAIN dirs' = DOMAIN dirs \ {g}
        /\ \A h \in DOMAIN dirs \ {g} : dirs'[h] = dirs[h]
    BY <2>1, <2>2, WithoutIs
  <2> QED
    BY <2>3, <2>4, OldOnesGood DEF GoodPgs, GoodDirs
<1>2. CASE ~Dead(g, r)
  <2>1. pgs' = With(pgs, g, r) /\ dirs' = DirsWith(g, d)
    BY <1>2 DEF Put
  <2> QED
    BY <2>1, PgsWith, DirsWithGood
<1> QED
  BY <1>1, <1>2

LEMMA NothingPut ==
    ASSUME PInv, OwnersGrow
    PROVE  (pgs' = pgs => GoodPgs) /\ (dirs' = dirs => GoodDirs)
BY OldOnesGood DEF PInv, PgTypeOK, GoodPgs, GoodDirs

-----------------------------------------------------------------------------
(* Steps of processes                                                       *)

LEMMA InitProcIs ==
    ASSUME NEW r \in PgRecs, NEW c \in Cookies, NEW u \in Users, NEW q, q = InitProc(r, c, u)
    PROVE  /\ q \in PgRecs /\ q.scan = r.scan /\ q.scantok = r.scantok
           /\ q.nrprocs = r.nrprocs /\ q.nrfiles = r.nrfiles
           /\ q.uid = r.uid \/ (IsFounder(r, c) /\ q.uid = u)
<1>1. CASE IsFounder(r, c)
  <2>1. q = [r EXCEPT !.founder = c, !.uid = u]
    BY <1>1 DEF InitProc
  <2> QED
    BY <1>1, <2>1 DEF PgRecs
<1>2. CASE ~IsFounder(r, c)
  BY <1>2 DEF InitProc
<1> QED
  BY <1>1, <1>2

LEMMA OwnIs ==
    ASSUME PInv, NEW g \in PgIds, NEW r, NEW c \in Cookies, NEW u \in Users, Own(g, r, c, u)
    PROVE  /\ OwnersGrow /\ GoodDirs
           /\ IsFounder(r, c) => u \in owners'[g]
<1>0. owners \in [PgIds -> SUBSET Users]
  BY DEF PInv, PgTypeOK
<1>1. CASE IsFounder(r, c)
  <2> DEFINE d == [CreatedDir(g) EXCEPT !.uid = u]
  <2>1. owners' = [owners EXCEPT ![g] = owners[g] \cup {u}] /\ dirs' = DirsWith(g, d)
    BY <1>1 DEF Own
  <2>2. OwnersGrow /\ u \in owners'[g]
    BY <1>0, <2>1 DEF OwnersGrow
  <2>3. CreatedDir(g) \in DirRecs
    BY <2>2, NewOnesGood
  <2>4. GoodDir(g, d)
    <3>1. d \in DirRecs /\ d.uid = u /\ d.files = CreatedDir(g).files
      BY <2>3 DEF DirRecs
    <3>2. IsFiniteSet(CreatedDir(g).files)
      BY <2>2, NewOnesGood DEF GoodDir
    <3> QED
      BY <2>2, <3>1, <3>2 DEF GoodDir
  <2> HIDE DEF d
  <2> QED
    BY <2>1, <2>2, <2>4, DirsWithGood
<1>2. CASE ~IsFounder(r, c)
  <2>1. owners' = owners /\ dirs' = DirsWith(g, CreatedDir(g))
    BY <1>2 DEF Own
  <2>2. OwnersGrow
    BY <1>0, <2>1 DEF OwnersGrow
  <2> QED
    BY <1>2, <2>1, <2>2, NewOnesGood, DirsWithGood
<1> QED
  BY <1>1, <1>2

\* A record whose founder and counters change.
LEMMA OwnedRecord ==
    ASSUME PInv, NEW g \in PgIds, NEW r \in PgRecs, GoodRec(g, r),
           NEW c \in Cookies, NEW u \in Users, NEW q \in PgRecs,
           IsFounder(r, c) => u \in owners'[g],
           q.scan = r.scan, q.scantok = r.scantok,
           q.uid = r.uid \/ (IsFounder(r, c) /\ q.uid = u)
    PROVE  GoodRec(g, q)
BY DEF GoodRec

LEMMA AddKeeps ==
    ASSUME PInv, NEW g \in PgIds, NEW c \in Cookies, NEW u \in Users, Add(g, c, u),
           kpg' \in {kpg, g}
    PROVE  PInv'
<1> DEFINE r == Created(g)
           q == InitProc(r, c, u)
           n == [q EXCEPT !.nrprocs = q.nrprocs + 1]
<1>1. /\ pgs' = With(pgs, g, n) /\ Own(g, r, c, u)
      /\ lastId' = lastId /\ restarts' = restarts /\ UNCHANGED scanVars
  BY DEF Add
<1>2. OwnersGrow /\ GoodDirs /\ (IsFounder(r, c) => u \in owners'[g])
  BY <1>1, OwnIs
<1>3. r \in PgRecs /\ GoodRec(g, r)
  BY <1>2, NewOnesGood
<1> HIDE DEF r
<1>4. /\ q \in PgRecs /\ q.scan = r.scan /\ q.scantok = r.scantok
      /\ q.uid = r.uid \/ (IsFounder(r, c) /\ q.uid = u)
  BY <1>3, InitProcIs
<1> HIDE DEF q
<1>5. n \in PgRecs /\ n.scan = q.scan /\ n.scantok = q.scantok /\ n.uid = q.uid
  BY <1>4 DEF PgRecs
<1> HIDE DEF n
<1>6. GoodRec(g, n)
  BY <1>2, <1>3, <1>4, <1>5, OwnedRecord
<1>7. GoodPgs
  BY <1>1, <1>2, <1>6, PgsWith
<1>8. IdsTyped
  BY <1>1, PgAssumption DEF IdsTyped, PInv, PgTypeOK, PgIds
<1> QED
  BY <1>1, <1>2, <1>7, <1>8, ScansUntouched

LEMMA PostExecKeeps ==
    ASSUME PInv, NEW g \in PgIds, NEW c \in Cookies, NEW u \in Users, PostExec(g, c, u)
    PROVE  PInv'
<1>0. kpg' = kpg /\ restarts' = restarts /\ UNCHANGED scanVars
  BY DEF PostExec
<1>1. CASE ~Known(g)
  <2>1. pgs' = pgs /\ dirs' = dirs /\ owners' = owners /\ lastId' = lastId
    BY <1>1 DEF PostExec
  <2>2. OwnersGrow /\ IdsTyped
    BY <1>0, <2>1 DEF OwnersGrow, IdsTyped, PInv, PgTypeOK
  <2> QED
    BY <1>0, <2>1, <2>2, NothingPut, ScansUntouched
<1>2. CASE Known(g)
  <2> DEFINE r == pgs[g]
             q == InitProc(r, c, u)
             n == [q EXCEPT !.didExec = q.didExec \/ IsFounder(r, c)]
  <2>1. pgs' = [pgs EXCEPT ![g] = n] /\ Own(g, r, c, u) /\ lastId' \in {lastId, g, 0}
    BY <1>2 DEF PostExec, SaveLastPgid
  <2>2. OwnersGrow /\ GoodDirs /\ (IsFounder(r, c) => u \in owners'[g])
    BY <2>1, OwnIs
  <2>3. r \in PgRecs /\ GoodRec(g, r) /\ pgs \in [DOMAIN pgs -> PgRecs] /\ g \in DOMAIN pgs
    BY <1>2, <2>2, OldOnesGood DEF PInv, PgTypeOK, Known
  <2> HIDE DEF r
  <2>4. /\ q \in PgRecs /\ q.scan = r.scan /\ q.scantok = r.scantok
        /\ q.uid = r.uid \/ (IsFounder(r, c) /\ q.uid = u)
    BY <2>3, InitProcIs
  <2> HIDE DEF q
  <2>5. n \in PgRecs /\ n.scan = q.scan /\ n.scantok = q.scantok /\ n.uid = q.uid
    BY <2>4 DEF PgRecs
  <2> HIDE DEF n
  <2>6. GoodRec(g, n)
    BY <2>2, <2>3, <2>4, <2>5, OwnedRecord
  <2>7. pgs' = With(pgs, g, n)
    BY <2>1, <2>3 DEF With
  <2>8. GoodPgs
    BY <2>2, <2>6, <2>7, PgsWith
  <2>9. IdsTyped
    BY <1>0, <2>1, PgAssumption DEF IdsTyped, PInv, PgTypeOK, PgIds
  <2> QED
    BY <1>0, <2>2, <2>8, <2>9, ScansUntouched
<1> QED
  BY <1>1, <1>2

LEMMA DeleteProcKeeps ==
    ASSUME PInv, NEW g \in PgIds, DeleteProc(g)
    PROVE  PInv'
<1>1. /\ lastId' = lastId /\ kpg' = kpg /\ owners' = owners /\ restarts' = restarts
      /\ UNCHANGED scanVars
  BY DEF DeleteProc
<1>2. OwnersGrow /\ IdsTyped
  BY <1>1 DEF OwnersGrow, IdsTyped, PInv, PgTypeOK
<1>3. CASE Known(g) /\ pgs[g].nrprocs > 0
  <2> DEFINE n == [pgs[g] EXCEPT !.nrprocs = pgs[g].nrprocs - 1]
  <2>1. Put(g, n, CreatedDir(g))
    BY <1>3 DEF DeleteProc
  <2>2. pgs[g] \in PgRecs /\ GoodRec(g, pgs[g])
    BY <1>2, <1>3, OldOnesGood DEF PInv, PgTypeOK, Known
  <2>3. /\ n \in PgRecs /\ n.scan = pgs[g].scan /\ n.scantok = pgs[g].scantok
        /\ n.uid = pgs[g].uid
    BY <2>2 DEF PgRecs
  <2> HIDE DEF n
  <2>4. GoodRec(g, n) /\ GoodDir(g, CreatedDir(g))
    BY <1>2, <2>2, <2>3, NewOnesGood DEF GoodRec
  <2> QED
    BY <1>1, <1>2, <2>1, <2>4, PutGood, ScansUntouched
<1>4. CASE pgs' = pgs /\ dirs' = dirs
  BY <1>1, <1>2, <1>4, NothingPut, ScansUntouched
<1> QED
  BY <1>3, <1>4 DEF DeleteProc

LEMMA RenameKeeps ==
    ASSUME PInv, NEW g \in PgIds, Rename(g)
    PROVE  PInv'
<1>1. /\ pgs' = With(pgs, g, Created(g)) /\ dirs' = dirs
      /\ lastId' = lastId /\ kpg' = kpg /\ owners' = owners /\ restarts' = restarts
      /\ UNCHANGED scanVars
  BY DEF Rename
<1>2. OwnersGrow /\ IdsTyped
  BY <1>1 DEF OwnersGrow, IdsTyped, PInv, PgTypeOK
<1>3. GoodPgs
  BY <1>1, <1>2, NewOnesGood, PgsWith
<1> QED
  BY <1>1, <1>2, <1>3, NothingPut, ScansUntouched

LEMMA UseIdKeeps ==
    ASSUME PInv, (\E g \in PgIds : UseId(g)) \/ UNCHANGED pgVars
    PROVE  PInv'
<1>1. /\ pgs' = pgs /\ dirs' = dirs /\ lastId' = lastId /\ kpg' \in PgIds \cup {kpg}
      /\ owners' = owners /\ restarts' = restarts /\ UNCHANGED scanVars
  BY DEF UseId, pgVars
<1>2. OwnersGrow /\ IdsTyped
  BY <1>1, PgAssumption DEF OwnersGrow, IdsTyped, PInv, PgTypeOK, PgIds
<1> QED
  BY <1>1, <1>2, NothingPut, ScansUntouched

-----------------------------------------------------------------------------
(* Steps of files                                                           *)

LEMMA EnteredGood ==
    ASSUME PInv, OwnersGrow, NEW g \in PgIds, NEW f \in Files,
           NEW failed \in BOOLEAN, NEW added \in Int, NEW scan \in BOOLEAN,
           scan => label'[f] = g, Entered(g, f, failed, added, scan)
    PROVE  GoodPgs /\ GoodDirs
<1> DEFINE r == Created(g)
           v == IF scan THEN f ELSE r.scan
           n == [r EXCEPT !.nrfiles = r.nrfiles + added, !.scan = v]
           d == CreatedDir(g)
           e == [d EXCEPT !.files = d.files \cup {f},
                          !.named = IF failed THEN d.named ELSE d.named \cup {f},
                          !.torn = d.torn \/ (failed /\ f \notin d.named)]
<1>1. pgs' = With(pgs, g, n) /\ dirs' = DirsWith(g, e)
  BY DEF Entered
<1>2. r \in PgRecs /\ GoodRec(g, r) /\ d \in DirRecs /\ GoodDir(g, d)
  BY NewOnesGood
<1> HIDE DEF r, d
<1>3. /\ n \in PgRecs /\ n.uid = r.uid /\ n.scantok = r.scantok
      /\ n.scan = r.scan \/ (scan /\ n.scan = f)
  <2>1. r.scan \in Files \cup {NoFile}
    BY <1>2 DEF PgRecs
  <2>2. v \in Files \cup {NoFile} /\ (v = r.scan \/ (scan /\ v = f))
    BY <2>1
  <2>3. v \in Files \cup {NoFile}
    BY <2>2
  <2> DEFINE w == r.nrfiles + added
  <2>4. w \in Int
    BY <1>2 DEF PgRecs
  <2> HIDE DEF v, w
  <2>5. n = [r EXCEPT !.nrfiles = w, !.scan = v]
    BY DEF w
  <2> HIDE DEF n
  <2>6. n \in PgRecs /\ n.uid = r.uid /\ n.scantok = r.scantok /\ n.scan = v
    BY <1>2, <2>3, <2>4, <2>5 DEF PgRecs
  <2> QED
    BY <2>2, <2>6
<1>4. e \in DirRecs /\ e.uid = d.uid /\ e.files = d.files \cup {f}
  BY <1>2 DEF DirRecs
<1> HIDE DEF n, e
<1>5. GoodRec(g, n) /\ GoodDir(g, e)
  BY <1>2, <1>3, <1>4, FS_AddElement DEF GoodRec, GoodDir
<1> QED
  BY <1>1, <1>5, PgsWith, DirsWithGood

LEMMA InstantiateGood ==
    ASSUME PInv, OwnersGrow, NEW g \in PgIds, NEW f \in Files, NEW scan \in BOOLEAN,
           scan => label'[f] = g, Instantiate(g, f, scan)
    PROVE  GoodPgs /\ GoodDirs
<1>1. PICK failed \in {NoDir(g), NoDir(g) \/ IoErrors} :
         Entered(g, f, failed,
                 IF failed \/ f \in CreatedDir(g).named THEN 0 ELSE 1, scan)
  BY DEF Instantiate
<1> DEFINE added == IF failed \/ f \in CreatedDir(g).named THEN 0 ELSE 1
<1>2. failed \in BOOLEAN
  BY <1>1 DEF NoDir
<1>3. added \in Int
  OBVIOUS
<1>4. Entered(g, f, failed, added, scan)
  BY <1>1
<1> HIDE DEF added
<1> QED
  BY <1>2, <1>3, <1>4, EnteredGood

LEMMA FileInstantiateKeeps ==
    ASSUME PInv, NEW g \in PgIds, NEW f \in Files, FileInstantiate(g, f)
    PROVE  PInv'
<1>1. /\ lastId' = lastId /\ kpg' = kpg /\ owners' = owners /\ restarts' = restarts
      /\ UNCHANGED <<pgp2m, scanners, pgm2p, answers>>
      /\ label' = [label EXCEPT ![f] = g] /\ label[f] \in {NoPg, g}
      /\ Instantiate(g, f, FALSE)
  BY DEF FileInstantiate
<1>2. OwnersGrow /\ IdsTyped
  BY <1>1 DEF OwnersGrow, IdsTyped, PInv, PgTypeOK
<1>3. GoodPgs /\ GoodDirs
  BY <1>1, <1>2, InstantiateGood
<1>4. LabelsMove
  BY <1>1 DEF LabelsMove, PInv, PgTypeOK, Labels
<1> QED
  BY <1>1, <1>2, <1>3, <1>4, NoScanKeeps

LEMMA FileScanKeeps ==
    ASSUME PInv, NEW g \in PgIds, NEW f \in Files, NEW u \in Users, FileScan(g, f, u)
    PROVE  PInv'
<1> DEFINE scan == u \in {0, Created(g).uid} \ {NoUid}
<1>1. /\ lastId' = lastId /\ kpg' = kpg /\ owners' = owners /\ restarts' = restarts
      /\ UNCHANGED scanVars /\ label[f] = g /\ Instantiate(g, f, scan)
  BY DEF FileScan
<1>2. OwnersGrow /\ IdsTyped
  BY <1>1 DEF OwnersGrow, IdsTyped, PInv, PgTypeOK
<1>3. label'[f] = g
  BY <1>1 DEF scanVars
<1>4. scan \in BOOLEAN
  OBVIOUS
<1> HIDE DEF scan
<1>5. GoodPgs /\ GoodDirs
  BY <1>1, <1>2, <1>3, <1>4, InstantiateGood
<1> QED
  BY <1>1, <1>2, <1>5, ScansUntouched

LEMMA DeleteEntryGood ==
    ASSUME PInv, OwnersGrow, NEW g \in PgIds, NEW f \in Files, DeleteEntry(g, f)
    PROVE  GoodPgs /\ GoodDirs
<1>1. CASE Known(g) /\ f \in CreatedDir(g).files
  <2> DEFINE n == [pgs[g] EXCEPT !.nrfiles = pgs[g].nrfiles - 1]
             e == [dirs[g] EXCEPT !.files = dirs[g].files \ {f}, !.named = dirs[g].named \ {f}]
  <2>1. Put(g, n, e)
    BY <1>1 DEF DeleteEntry
  <2>2. g \in DOMAIN dirs
    BY <1>1 DEF CreatedDir, EmptyDir
  <2>3. /\ pgs[g] \in PgRecs /\ GoodRec(g, pgs[g]) /\ dirs[g] \in DirRecs /\ GoodDir(g, dirs[g])
    BY <1>1, <2>2, OldOnesGood DEF PInv, PgTypeOK, Known
  <2>4. /\ n \in PgRecs /\ n.uid = pgs[g].uid /\ n.scantok = pgs[g].scantok
        /\ n.scan = pgs[g].scan
    BY <2>3 DEF PgRecs
  <2>5. e \in DirRecs /\ e.uid = dirs[g].uid /\ e.files = dirs[g].files \ {f}
    BY <2>3 DEF DirRecs
  <2> HIDE DEF n, e
  <2>6. GoodRec(g, n) /\ GoodDir(g, e)
    BY <2>3, <2>4, <2>5, FS_RemoveElement DEF GoodRec, GoodDir
  <2> QED
    BY <2>1, <2>6, PutGood
<1>2. CASE pgs' = pgs /\ dirs' = dirs
  BY <1>2, NothingPut
<1> QED
  BY <1>1, <1>2 DEF DeleteEntry

LEMMA FileDeleteKeeps ==
    ASSUME PInv, NEW g \in PgIds, NEW f \in Files, FileDelete(g, f)
    PROVE  PInv'
<1>1. /\ lastId' = lastId /\ kpg' = kpg /\ owners' = owners /\ restarts' = restarts
      /\ UNCHANGED <<pgp2m, scanners, pgm2p, answers>>
      /\ label' = [label EXCEPT ![f] = IF label[f] = g THEN Deleted ELSE label[f]]
      /\ DeleteEntry(g, f)
  BY DEF FileDelete
<1>2. OwnersGrow /\ IdsTyped
  BY <1>1 DEF OwnersGrow, IdsTyped, PInv, PgTypeOK
<1>3. LabelsMove
  BY <1>1 DEF LabelsMove, PInv, PgTypeOK, Labels
<1> QED
  BY <1>1, <1>2, <1>3, DeleteEntryGood, NoScanKeeps

LEMMA UnlinkKeeps ==
    ASSUME PInv, NEW g \in PgIds, NEW f \in Files, NEW u \in Users, Unlink(g, f, u)
    PROVE  PInv'
<1>1. /\ lastId' = lastId /\ kpg' = kpg /\ owners' = owners /\ restarts' = restarts
      /\ UNCHANGED scanVars
  BY DEF Unlink
<1>2. OwnersGrow /\ IdsTyped
  BY <1>1 DEF OwnersGrow, IdsTyped, PInv, PgTypeOK
<1>3. DeleteEntry(g, f) \/ (pgs' = pgs /\ dirs' = dirs)
  BY DEF Unlink
<1>4. GoodPgs /\ GoodDirs
  BY <1>2, <1>3, DeleteEntryGood, NothingPut
<1> QED
  BY <1>1, <1>2, <1>4, ScansUntouched

-----------------------------------------------------------------------------
(* Where the requests are                                                   *)

LEMMA PendingIs ==
    ASSUME NEW t
    PROVE  Pending(t) <=> t \in Queued \cup Scanned \cup Returning
BY DEF Pending, Queued, Scanned, Returning

LEMMA RequestQueued ==
    ASSUME pgp2m \in Seq(CommitMsgs), QueuedOnce, NEW m \in CommitMsgs,
           m.token \notin Queued, pgp2m' = Append(pgp2m, m)
    PROVE  /\ pgp2m' \in Seq(CommitMsgs) /\ QueuedOnce' /\ Queued' = Queued \cup {m.token}
           /\ \A i \in DOMAIN pgp2m' :
                 pgp2m'[i] = m \/ \E j \in DOMAIN pgp2m : pgp2m'[i] = pgp2m[j]
<1> DEFINE n == Len(pgp2m) + 1
<1>1. /\ pgp2m' \in Seq(CommitMsgs) /\ n \notin DOMAIN pgp2m
      /\ DOMAIN pgp2m' = DOMAIN pgp2m \cup {n} /\ pgp2m'[n] = m
      /\ \A i \in DOMAIN pgp2m : pgp2m'[i] = pgp2m[i]
  BY AppendIs
<1> HIDE DEF n
<1>2. Queued' = Queued \cup {m.token}
  BY <1>1 DEF Queued
<1>3. \A i \in DOMAIN pgp2m : pgp2m[i].token # m.token
  BY DEF Queued
<1>4. QueuedOnce'
  BY <1>1, <1>3 DEF QueuedOnce
<1> QED
  BY <1>1, <1>2, <1>4

LEMMA RequestTaken ==
    ASSUME pgp2m \in Seq(CommitMsgs), QueuedOnce, pgp2m # <<>>, pgp2m' = Tail(pgp2m),
           NEW m, m = Head(pgp2m)
    PROVE  /\ pgp2m' \in Seq(CommitMsgs) /\ QueuedOnce' /\ Queued' = Queued \ {m.token}
           /\ m \in CommitMsgs /\ m.token \in Queued /\ \E j \in DOMAIN pgp2m : m = pgp2m[j]
           /\ \A i \in DOMAIN pgp2m' : \E j \in DOMAIN pgp2m : pgp2m'[i] = pgp2m[j]
<1>1. /\ pgp2m' \in Seq(CommitMsgs) /\ m \in CommitMsgs /\ 1 \in DOMAIN pgp2m /\ m = pgp2m[1]
      /\ \A i \in DOMAIN pgp2m : i \in Int
      /\ \A i \in DOMAIN pgp2m' : /\ i \in Nat \ {0} /\ i + 1 \in DOMAIN pgp2m
                                  /\ pgp2m'[i] = pgp2m[i + 1]
      /\ \A i \in DOMAIN pgp2m \ {1} : i - 1 \in DOMAIN pgp2m' /\ pgp2m'[i - 1] = pgp2m[i]
  BY TailIs
<1>2. QueuedOnce'
  <2> SUFFICES ASSUME NEW i \in DOMAIN pgp2m', NEW j \in DOMAIN pgp2m',
                      pgp2m'[i].token = pgp2m'[j].token
               PROVE  i = j
    BY DEF QueuedOnce
  <2>1. i + 1 = j + 1
    BY <1>1 DEF QueuedOnce
  <2> QED
    BY <1>1, <2>1
<1>3. \A i \in DOMAIN pgp2m' : pgp2m'[i].token # m.token
  <2> SUFFICES ASSUME NEW i \in DOMAIN pgp2m', pgp2m'[i].token = m.token PROVE FALSE
    OBVIOUS
  <2>1. i + 1 = 1
    BY <1>1 DEF QueuedOnce
  <2> QED
    BY <1>1, <2>1
<1>4. Queued' = Queued \ {m.token}
  <2>1. ASSUME NEW t \in Queued' PROVE t \in Queued \ {m.token}
    BY <1>1, <1>3, <2>1 DEF Queued
  <2>2. ASSUME NEW t \in Queued, t # m.token PROVE t \in Queued'
    <3>1. PICK i \in DOMAIN pgp2m : t = pgp2m[i].token
      BY DEF Queued
    <3>2. i - 1 \in DOMAIN pgp2m' /\ pgp2m'[i - 1] = pgp2m[i]
      BY <1>1, <2>2, <3>1
    <3> QED
      BY <3>1, <3>2 DEF Queued
  <2> QED
    BY <2>1, <2>2
<1>5. m.token \in Queued
  BY <1>1 DEF Queued
<1> QED
  BY <1>1, <1>2, <1>4, <1>5

LEMMA ReplySent ==
    ASSUME pgm2p \in Seq(Requests), ReturningOnce, NEW t \in Requests,
           t \notin Returning, pgm2p' = Append(pgm2p, t)
    PROVE  pgm2p' \in Seq(Requests) /\ ReturningOnce' /\ Returning' = Returning \cup {t}
<1> DEFINE n == Len(pgm2p) + 1
<1>1. /\ pgm2p' \in Seq(Requests) /\ n \notin DOMAIN pgm2p
      /\ DOMAIN pgm2p' = DOMAIN pgm2p \cup {n} /\ pgm2p'[n] = t
      /\ \A i \in DOMAIN pgm2p : pgm2p'[i] = pgm2p[i]
  BY AppendIs
<1> HIDE DEF n
<1>2. Returning' = Returning \cup {t}
  BY <1>1 DEF Returning
<1>3. ReturningOnce'
  BY <1>1 DEF ReturningOnce, Returning
<1> QED
  BY <1>1, <1>2, <1>3

LEMMA ReplyTaken ==
    ASSUME pgm2p \in Seq(Requests), ReturningOnce, pgm2p # <<>>, pgm2p' = Tail(pgm2p),
           NEW t, t = Head(pgm2p)
    PROVE  /\ pgm2p' \in Seq(Requests) /\ ReturningOnce' /\ Returning' = Returning \ {t}
           /\ t \in Requests /\ t \in Returning
<1>1. /\ pgm2p' \in Seq(Requests) /\ t \in Requests /\ 1 \in DOMAIN pgm2p /\ t = pgm2p[1]
      /\ \A i \in DOMAIN pgm2p : i \in Int
      /\ \A i \in DOMAIN pgm2p' : /\ i \in Nat \ {0} /\ i + 1 \in DOMAIN pgm2p
                                  /\ pgm2p'[i] = pgm2p[i + 1]
      /\ \A i \in DOMAIN pgm2p \ {1} : i - 1 \in DOMAIN pgm2p' /\ pgm2p'[i - 1] = pgm2p[i]
  BY TailIs
<1>2. ReturningOnce'
  <2> SUFFICES ASSUME NEW i \in DOMAIN pgm2p', NEW j \in DOMAIN pgm2p', pgm2p'[i] = pgm2p'[j]
               PROVE  i = j
    BY DEF ReturningOnce
  <2>1. i + 1 = j + 1
    BY <1>1 DEF ReturningOnce
  <2> QED
    BY <1>1, <2>1
<1>3. \A i \in DOMAIN pgm2p' : pgm2p'[i] # t
  <2> SUFFICES ASSUME NEW i \in DOMAIN pgm2p', pgm2p'[i] = t PROVE FALSE
    OBVIOUS
  <2>1. i + 1 = 1
    BY <1>1 DEF ReturningOnce
  <2> QED
    BY <1>1, <2>1
<1>4. Returning' = Returning \ {t}
  <2>1. ASSUME NEW x \in Returning' PROVE x \in Returning \ {t}
    BY <1>1, <1>3, <2>1 DEF Returning
  <2>2. ASSUME NEW x \in Returning, x # t PROVE x \in Returning'
    <3>1. PICK i \in DOMAIN pgm2p : x = pgm2p[i]
      BY DEF Returning
    <3>2. i - 1 \in DOMAIN pgm2p' /\ pgm2p'[i - 1] = pgm2p[i]
      BY <1>1, <2>2, <3>1
    <3> QED
      BY <3>1, <3>2 DEF Returning
  <2> QED
    BY <2>1, <2>2
<1>5. t \in Returning
  BY <1>1 DEF Returning
<1> QED
  BY <1>1, <1>2, <1>4, <1>5

-----------------------------------------------------------------------------
(* Steps of commits                                                         *)

\* pe_playground_dispatch_commit lets only root and founders pass.
LEMMA FounderMayCommit ==
    ASSUME PInv, NEW g \in PgIds, NEW u \in Users, CommitAllowed(g, u)
    PROVE  pgs[g].scan \in Files /\ MayCommit(u, pgs[g].scan)
<1>1. g \in DOMAIN pgs /\ (u = 0 \/ pgs[g].uid = u) /\ pgs[g].scan # NoFile
  BY DEF CommitAllowed, Known
<1>2. pgs[g] \in PgRecs
  BY <1>1 DEF PInv, PgTypeOK
<1>3. pgs[g].scan \in Files /\ label[pgs[g].scan] \in {g, Deleted, Committed}
  BY <1>1, <1>2 DEF PInv, ScansOwnFile, PgRecs
<1>4. u # NoUid
  BY ProcAssumption DEF NoUid
<1>5. u = 0 \/ u \in owners[g]
  BY <1>1, <1>4 DEF PInv, FoundersOwn
<1>6. Deleted # NoPg /\ Committed # NoPg /\ Deleted \notin PgIds /\ Committed \notin PgIds
      /\ NoPg \notin PgIds
  BY PgAssumption DEF NoPg, Deleted, Committed, PgIds
<1> QED
  BY <1>3, <1>5, <1>6 DEF MayCommit

LEMMA DispatchCommitKeeps ==
    ASSUME PInv, NEW t \in Requests, NEW g \in PgIds, NEW u \in Users, NEW path \in Files,
           NEW skip \in BOOLEAN, DispatchCommit(t, g, u, path, skip)
    PROVE  PInv'
<1>1. /\ dirs' = dirs /\ lastId' = lastId /\ kpg' = kpg /\ owners' = owners
      /\ restarts' = restarts /\ label' = label /\ scanners' = scanners /\ pgm2p' = pgm2p
      /\ answers[t] = 0 /\ t \notin Queued \cup Scanned \cup Returning
  BY PendingIs DEF DispatchCommit
<1>2. Scanned' = Scanned /\ Returning' = Returning
  BY <1>1 DEF Scanned, Returning
<1>3. CASE CommitAllowed(g, u)
  <2> DEFINE m == [token |-> t, uid |-> u, skip |-> skip, path |-> path, file |-> pgs[g].scan]
             n == [pgs[g] EXCEPT !.scantok = t]
  <2>1. pgs' = [pgs EXCEPT ![g] = n] /\ pgp2m' = Append(pgp2m, m) /\ answers' = answers
    BY <1>3 DEF DispatchCommit
  <2>2. pgs[g].scan \in Files /\ MayCommit(u, pgs[g].scan) /\ g \in DOMAIN pgs
    BY <1>3, FounderMayCommit DEF CommitAllowed, Known
  <2>3. m \in CommitMsgs /\ m.token = t /\ m.uid = u /\ m.file = pgs[g].scan
    BY <2>2 DEF CommitMsgs
  <2> HIDE DEF m
  <2>4. /\ pgp2m' \in Seq(CommitMsgs) /\ QueuedOnce' /\ Queued' = Queued \cup {t}
        /\ \A i \in DOMAIN pgp2m' :
              pgp2m'[i] = m \/ \E j \in DOMAIN pgp2m : pgp2m'[i] = pgp2m[j]
    BY <1>1, <2>1, <2>3, RequestQueued DEF PInv, PgTypeOK, InOnePlace
  <2>5. pgs[g] \in PgRecs /\ pgs \in [DOMAIN pgs -> PgRecs]
    BY <2>2 DEF PInv, PgTypeOK
  <2>6. n \in PgRecs /\ n.uid = pgs[g].uid /\ n.scan = pgs[g].scan /\ n.scantok = t
    BY <2>5 DEF PgRecs
  <2> HIDE DEF n
  <2>7. /\ DOMAIN pgs' = DOMAIN pgs /\ pgs' \in [DOMAIN pgs' -> PgRecs] /\ pgs'[g] = n
        /\ \A h \in DOMAIN pgs \ {g} : pgs'[h] = pgs[h]
    BY <2>1, <2>2, <2>5, <2>6
  <2>8. PgTypeOK'
    BY <1>1, <2>1, <2>4, <2>7 DEF PInv, PgTypeOK
  <2>9. FoundersOwn' /\ ScansOwnFile'
    BY <1>1, <2>6, <2>7 DEF PInv, FoundersOwn, ScansOwnFile
  <2>10. RequestsAllowed'
    BY <1>1, <2>2, <2>3, <2>4 DEF PInv, RequestsAllowed, MayCommit
  <2>11. InOnePlace' /\ Unanswered'
    <3>1. ScannedOnce' /\ ReturningOnce'
      BY <1>1 DEF PInv, InOnePlace, ScannedOnce, ReturningOnce
    <3> QED
      BY <1>1, <1>2, <2>1, <2>4, <3>1 DEF PInv, InOnePlace, Unanswered
  <2>12. Awaited'
    BY <1>2, <2>4, <2>6, <2>7 DEF PInv, Awaited
  <2> QED
    BY <2>8, <2>9, <2>10, <2>11, <2>12 DEF PInv
<1>4. CASE ~CommitAllowed(g, u)
  <2>1. /\ pgs' = pgs /\ pgp2m' = pgp2m
        /\ answers' = [answers EXCEPT ![t] = answers[t] + 1]
    BY <1>4 DEF DispatchCommit, Answer
  <2>2. /\ answers' \in [Requests -> Nat] /\ answers'[t] = 1
        /\ \A x \in Requests \ {t} : answers'[x] = answers[x]
    BY <1>1, <2>1 DEF PInv, PgTypeOK
  <2>3. Queued' = Queued
    BY <2>1 DEF Queued
  <2>4. PgTypeOK'
    BY <1>1, <2>1, <2>2 DEF PInv, PgTypeOK
  <2>5. FoundersOwn' /\ ScansOwnFile' /\ RequestsAllowed'
    BY <1>1, <2>1 DEF PInv, FoundersOwn, ScansOwnFile, RequestsAllowed, MayCommit
  <2>6. InOnePlace'
    BY <1>1, <1>2, <2>1, <2>3 DEF PInv, InOnePlace, QueuedOnce, ScannedOnce, ReturningOnce
  <2>7. Unanswered'
    <3>1. \A x \in Requests : answers'[x] <= 1
      BY <2>2 DEF PInv, Unanswered
    <3>2. Queued \cup Scanned \cup Returning \subseteq Requests
      <4>1. \A i \in DOMAIN pgp2m : pgp2m[i] \in CommitMsgs
        BY DEF PInv, PgTypeOK
      <4>2. \A i \in DOMAIN pgm2p : pgm2p[i] \in Requests
        BY DEF PInv, PgTypeOK
      <4> QED
        BY <4>1, <4>2 DEF PInv, PgTypeOK, Queued, Scanned, Returning, CommitMsgs, ScannerRecs
    <3> QED
      BY <1>1, <1>2, <2>2, <2>3, <3>1, <3>2 DEF PInv, Unanswered
  <2>8. Awaited'
    BY <1>2, <2>1, <2>3 DEF PInv, Awaited
  <2> QED
    BY <2>4, <2>5, <2>6, <2>7, <2>8 DEF PInv
<1> QED
  BY <1>3, <1>4

\* A request moves on: it was in one place and is in another one now.
LEMMA Moved ==
    ASSUME PInv, pgs' = pgs, dirs' = dirs, lastId' = lastId, kpg' = kpg, owners' = owners,
           restarts' = restarts, LabelsMove, answers' = answers,
           pgp2m' \in Seq(CommitMsgs), scanners' \subseteq ScannerRecs, pgm2p' \in Seq(Requests),
           InOnePlace', RequestsAllowed',
           Queued' \cup Scanned' \cup Returning' = Queued \cup Scanned \cup Returning
    PROVE  PInv'
<1>1. PgTypeOK' /\ FoundersOwn'
  BY DEF PInv, PgTypeOK, FoundersOwn, LabelsMove
<1>2. ScansOwnFile'
  <2> SUFFICES ASSUME NEW g \in DOMAIN pgs, pgs[g].scan # NoFile
               PROVE  label'[pgs[g].scan] \in {g, Deleted, Committed}
    BY DEF ScansOwnFile
  <2>1. pgs[g] \in PgRecs /\ g \in PgIds
    BY DEF PInv, PgTypeOK
  <2>2. pgs[g].scan \in Files /\ label[pgs[g].scan] \in {g, Deleted, Committed}
    BY <2>1 DEF PInv, ScansOwnFile, PgRecs
  <2>3. label[pgs[g].scan] # NoPg
    BY <2>1, <2>2, PgAssumption DEF NoPg, Deleted, Committed, PgIds
  <2> QED
    BY <2>2, <2>3 DEF LabelsMove
<1>3. Unanswered' /\ Awaited'
  BY DEF PInv, Unanswered, Awaited
<1> QED
  BY <1>1, <1>2, <1>3 DEF PInv

LEMMA StartScanKeeps ==
    ASSUME PInv, StartScan
    PROVE  PInv'
<1> DEFINE m == Head(pgp2m)
<1>1. /\ pgs' = pgs /\ dirs' = dirs /\ lastId' = lastId /\ kpg' = kpg /\ owners' = owners
      /\ restarts' = restarts /\ label' = label /\ answers' = answers
      /\ pgp2m # <<>> /\ pgp2m' = Tail(pgp2m)
  BY DEF StartScan
<1>2. LabelsMove
  BY <1>1 DEF LabelsMove, PInv, PgTypeOK
<1>3. /\ pgp2m' \in Seq(CommitMsgs) /\ QueuedOnce' /\ Queued' = Queued \ {m.token}
      /\ m \in CommitMsgs /\ m.token \in Queued /\ \E j \in DOMAIN pgp2m : m = pgp2m[j]
      /\ \A i \in DOMAIN pgp2m' : \E j \in DOMAIN pgp2m : pgp2m'[i] = pgp2m[j]
  BY <1>1, RequestTaken DEF PInv, PgTypeOK, InOnePlace
<1>4. m.token \notin Scanned /\ m.token \notin Returning
  BY <1>3 DEF PInv, InOnePlace
<1>5. /\ \A i \in DOMAIN pgp2m' : MayCommit(pgp2m'[i].uid, pgp2m'[i].file)
      /\ MayCommit(m.uid, m.file) /\ \A s \in scanners : MayCommit(s.uid, s.file)
  BY <1>3 DEF PInv, RequestsAllowed
<1>6. \A u, f : MayCommit(u, f)' <=> MayCommit(u, f)
  BY <1>1 DEF MayCommit
<1>7. \/ /\ m.path = m.file
         /\ scanners' = scanners \cup {[token |-> m.token, uid |-> m.uid,
                                        skip |-> m.skip, file |-> m.path]}
         /\ pgm2p' = pgm2p
      \/ pgm2p' = Append(pgm2p, m.token) /\ scanners' = scanners
  BY DEF StartScan
<1> HIDE DEF m
<1>8. CASE /\ m.path = m.file
           /\ scanners' = scanners \cup {[token |-> m.token, uid |-> m.uid,
                                          skip |-> m.skip, file |-> m.path]}
           /\ pgm2p' = pgm2p
  <2> DEFINE n == [token |-> m.token, uid |-> m.uid, skip |-> m.skip, file |-> m.path]
  <2>1. /\ n \in ScannerRecs /\ n.token = m.token /\ n.uid = m.uid /\ n.file = m.file
    BY <1>3, <1>8 DEF CommitMsgs, ScannerRecs
  <2>2. scanners' = scanners \cup {n}
    BY <1>8
  <2> HIDE DEF n
  <2>3. Scanned' = Scanned \cup {m.token} /\ Returning' = Returning
    BY <1>8, <2>1, <2>2 DEF Scanned, Returning
  <2>4. ScannedOnce' /\ ReturningOnce'
    BY <1>4, <1>8, <2>1, <2>2 DEF PInv, InOnePlace, ScannedOnce, ReturningOnce, Scanned
  <2>5. InOnePlace'
    BY <1>3, <1>4, <2>3, <2>4 DEF PInv, InOnePlace
  <2>6. Queued' \cup Scanned' \cup Returning' = Queued \cup Scanned \cup Returning
    BY <1>3, <2>3
  <2>7. RequestsAllowed'
    BY <1>5, <1>6, <2>1, <2>2 DEF RequestsAllowed
  <2>8. scanners' \subseteq ScannerRecs /\ pgm2p' \in Seq(Requests)
    BY <1>8, <2>1, <2>2 DEF PInv, PgTypeOK
  <2> QED
    BY <1>1, <1>2, <1>3, <2>5, <2>6, <2>7, <2>8, Moved
<1>9. CASE pgm2p' = Append(pgm2p, m.token) /\ scanners' = scanners
  <2>1. m.token \in Requests
    BY <1>3 DEF CommitMsgs
  <2>2. /\ pgm2p' \in Seq(Requests) /\ ReturningOnce'
        /\ Returning' = Returning \cup {m.token}
    BY <1>4, <1>9, <2>1, ReplySent DEF PInv, PgTypeOK, InOnePlace
  <2>3. Scanned' = Scanned /\ ScannedOnce'
    BY <1>9 DEF PInv, InOnePlace, Scanned, ScannedOnce
  <2>4. InOnePlace'
    BY <1>3, <1>4, <2>2, <2>3 DEF PInv, InOnePlace
  <2>5. Queued' \cup Scanned' \cup Returning' = Queued \cup Scanned \cup Returning
    BY <1>3, <2>2, <2>3
  <2>6. RequestsAllowed'
    BY <1>5, <1>6, <1>9 DEF RequestsAllowed
  <2>7. scanners' \subseteq ScannerRecs
    BY <1>9 DEF PInv, PgTypeOK
  <2> QED
    BY <1>1, <1>2, <1>3, <2>2, <2>4, <2>5, <2>6, <2>7, Moved
<1> QED
  BY <1>7, <1>8, <1>9

LEMMA ScannerExitKeeps ==
    ASSUME PInv, NEW s, NEW v, ScannerExit(s, v)
    PROVE  PInv'
<1>1. /\ pgs' = pgs /\ dirs' = dirs /\ lastId' = lastId /\ kpg' = kpg /\ owners' = owners
      /\ restarts' = restarts /\ pgp2m' = pgp2m /\ answers' = answers
      /\ s \in scanners /\ scanners' = scanners \ {s} /\ pgm2p' = Append(pgm2p, s.token)
      /\ label' = label \/ label' = [label EXCEPT ![s.file] = Committed]
  BY DEF ScannerExit
<1>2. s \in ScannerRecs /\ s.token \in Requests /\ s.file \in Files
  BY <1>1 DEF PInv, PgTypeOK, ScannerRecs
<1>3. LabelsMove
  BY <1>1, <1>2 DEF LabelsMove, PInv, PgTypeOK, Labels
<1>4. Scanned' = Scanned \ {s.token} /\ ScannedOnce' /\ s.token \in Scanned
  BY <1>1 DEF PInv, InOnePlace, Scanned, ScannedOnce
<1>5. s.token \notin Queued /\ s.token \notin Returning
  BY <1>4 DEF PInv, InOnePlace
<1>6. pgm2p' \in Seq(Requests) /\ ReturningOnce' /\ Returning' = Returning \cup {s.token}
  BY <1>1, <1>2, <1>5, ReplySent DEF PInv, PgTypeOK, InOnePlace
<1>7. Queued' = Queued /\ QueuedOnce'
  BY <1>1 DEF PInv, InOnePlace, Queued, QueuedOnce
<1>8. InOnePlace'
  BY <1>4, <1>5, <1>6, <1>7 DEF PInv, InOnePlace
<1>9. Queued' \cup Scanned' \cup Returning' = Queued \cup Scanned \cup Returning
  BY <1>4, <1>6, <1>7
<1>10. ASSUME NEW u, NEW f \in Files, MayCommit(u, f) PROVE MayCommit(u, f)'
  <2>1. label'[f] \in {label[f], Committed}
    BY <1>1, <1>2 DEF PInv, PgTypeOK
  <2>2. Committed # NoPg /\ Committed \notin PgIds
    BY PgAssumption DEF NoPg, Committed, PgIds
  <2> QED
    BY <1>1, <1>10, <2>1, <2>2 DEF MayCommit
<1>11. RequestsAllowed'
  <2>1. \A i \in DOMAIN pgp2m : pgp2m[i] \in CommitMsgs
    BY DEF PInv, PgTypeOK
  <2>2. \A i \in DOMAIN pgp2m : pgp2m[i].file \in Files
    BY <2>1 DEF CommitMsgs
  <2>3. \A x \in scanners : x.file \in Files
    BY DEF PInv, PgTypeOK, ScannerRecs
  <2>4. \A i \in DOMAIN pgp2m : MayCommit(pgp2m[i].uid, pgp2m[i].file)'
    BY <1>1, <1>10, <2>2 DEF PInv, RequestsAllowed
  <2>5. \A x \in scanners : MayCommit(x.uid, x.file)'
    BY <1>10, <2>3 DEF PInv, RequestsAllowed
  <2> QED
    BY <1>1, <2>4, <2>5 DEF RequestsAllowed
<1>12. pgp2m' \in Seq(CommitMsgs) /\ scanners' \subseteq ScannerRecs
  BY <1>1 DEF PInv, PgTypeOK
<1> QED
  BY <1>1, <1>3, <1>6, <1>8, <1>9, <1>11, <1>12, Moved

LEMMA CommitReplyKeeps ==
    ASSUME PInv, CommitReply
    PROVE  PInv'
<1> DEFINE t == Head(pgm2p)
           Cleared(g) == IF pgs[g].scantok = t
                           THEN [pgs[g] EXCEPT !.scan = NoFile, !.scantok = 0] ELSE pgs[g]
<1>1. /\ dirs' = dirs /\ lastId' = lastId /\ kpg' = kpg /\ owners' = owners
      /\ restarts' = restarts /\ label' = label /\ pgp2m' = pgp2m /\ scanners' = scanners
      /\ pgm2p # <<>> /\ pgm2p' = Tail(pgm2p)
      /\ answers' = [answers EXCEPT ![t] = answers[t] + 1]
      /\ pgs' = [g \in DOMAIN pgs |-> Cleared(g)]
  BY DEF CommitReply, Answer
<1>2. /\ pgm2p' \in Seq(Requests) /\ ReturningOnce' /\ Returning' = Returning \ {t}
      /\ t \in Requests /\ t \in Returning
  BY <1>1, ReplyTaken DEF PInv, PgTypeOK, InOnePlace
<1>3. t \notin Queued /\ t \notin Scanned /\ answers[t] = 0
  BY <1>2 DEF PInv, InOnePlace, Unanswered
<1>4. Queued' = Queued /\ QueuedOnce' /\ Scanned' = Scanned /\ ScannedOnce'
  BY <1>1 DEF PInv, InOnePlace, Queued, QueuedOnce, Scanned, ScannedOnce
<1>5. ASSUME NEW g \in DOMAIN pgs
      PROVE  /\ Cleared(g) \in PgRecs /\ Cleared(g).uid = pgs[g].uid
             /\ Cleared(g).scan \in {NoFile, pgs[g].scan}
             /\ Cleared(g).scantok = 0 \/ (Cleared(g).scantok = pgs[g].scantok
                                           /\ pgs[g].scantok # t)
  <2>1. pgs[g] \in PgRecs
    BY DEF PInv, PgTypeOK
  <2> HIDE DEF t
  <2> QED
    BY <2>1 DEF PgRecs
<1> HIDE DEF Cleared, t
<1>6. DOMAIN pgs' = DOMAIN pgs /\ \A g \in DOMAIN pgs : pgs'[g] = Cleared(g)
  BY <1>1
<1>7. pgs' \in [DOMAIN pgs' -> PgRecs]
  BY <1>1, <1>5, <1>6
<1>8. /\ answers' \in [Requests -> Nat] /\ answers'[t] = 1
      /\ \A x \in Requests \ {t} : answers'[x] = answers[x]
  BY <1>1, <1>2, <1>3 DEF PInv, PgTypeOK
<1>9. PgTypeOK'
  BY <1>1, <1>2, <1>6, <1>7, <1>8 DEF PInv, PgTypeOK
<1>10. FoundersOwn'
  BY <1>1, <1>5, <1>6 DEF PInv, FoundersOwn
<1>11. ScansOwnFile'
  BY <1>1, <1>5, <1>6 DEF PInv, ScansOwnFile
<1>12. RequestsAllowed'
  BY <1>1 DEF PInv, RequestsAllowed, MayCommit
<1>13. InOnePlace'
  BY <1>2, <1>4 DEF PInv, InOnePlace
<1>14. Unanswered'
  <2>1. Queued \cup Scanned \cup Returning \subseteq Requests
    <3>1. \A i \in DOMAIN pgp2m : pgp2m[i] \in CommitMsgs
      BY DEF PInv, PgTypeOK
    <3>2. \A i \in DOMAIN pgm2p : pgm2p[i] \in Requests
      BY DEF PInv, PgTypeOK
    <3> QED
      BY <3>1, <3>2 DEF PInv, PgTypeOK, Queued, Scanned, Returning, CommitMsgs, ScannerRecs
  <2>2. \A x \in Requests : answers'[x] <= 1
    BY <1>8 DEF PInv, Unanswered
  <2> QED
    BY <1>2, <1>3, <1>4, <1>8, <2>1, <2>2 DEF PInv, Unanswered
<1>15. Awaited'
  BY <1>2, <1>4, <1>5, <1>6 DEF PInv, Awaited
<1> QED
  BY <1>9, <1>10, <1>11, <1>12, <1>13, <1>14, <1>15 DEF PInv

-----------------------------------------------------------------------------
(* Start of the daemon                                                      *)

LEMMA StartIds ==
    ASSUME PInv, NEW k \in 0 .. MaxPg, StartPg(k)
    PROVE  kpg' \in 0 .. MaxPg /\ lastId <= kpg' /\ \A g \in DOMAIN dirs : g <= kpg'
<1>0. MaxPg \in Nat /\ lastId \in 0 .. MaxPg /\ DOMAIN dirs \subseteq 0 .. MaxPg
  BY PgAssumption DEF PInv, PgTypeOK, PgIds
<1> DEFINE T == {lastId} \cup DOMAIN dirs
<1>1. T \in SUBSET (0 .. MaxPg) /\ T # {}
  BY <1>0
<1> HIDE DEF T
<1>2. MaxOf(T) \in T /\ \A y \in T : y <= MaxOf(T)
  BY <1>0, <1>1, MaxIs
<1>3. InitPgid = MaxOf(T)
  BY DEF InitPgid, T
<1> DEFINE U == {k, InitPgid}
<1>4. U \in SUBSET (0 .. MaxPg) /\ U # {}
  BY <1>1, <1>2, <1>3
<1>5. kpg' = MaxOf(U)
  BY DEF StartPg
<1>6. InitPgid \in U
  OBVIOUS
<1> HIDE DEF U
<1>7. MaxOf(U) \in U /\ \A y \in U : y <= MaxOf(U)
  BY <1>0, <1>4, MaxIs
<1>8. kpg' \in 0 .. MaxPg /\ InitPgid <= kpg' /\ InitPgid \in 0 .. MaxPg
  BY <1>4, <1>5, <1>6, <1>7
<1>9. \A y \in T : y <= kpg'
  BY <1>0, <1>1, <1>2, <1>3, <1>8
<1> QED
  BY <1>8, <1>9 DEF T

LEMMA StartKeeps ==
    ASSUME PInv, NEW k \in 0 .. MaxPg, StartPg(k)
    PROVE  PInv'
<1> DEFINE kept == {g \in DOMAIN dirs : dirs[g].files # {}}
<1>1. /\ restarts' = restarts + 1 /\ pgp2m' = <<>> /\ scanners' = {} /\ pgm2p' = <<>>
      /\ lastId' = lastId /\ owners' = owners /\ label' = label /\ answers' = answers
      /\ pgs' = [g \in kept |-> ReadPg(g)] /\ dirs' = [g \in kept |-> dirs[g]]
  BY DEF StartPg
<1>2. kpg' \in 0 .. MaxPg
  BY StartIds
<1>3. ASSUME NEW g \in kept
      PROVE  /\ g \in DOMAIN dirs /\ dirs[g] \in DirRecs /\ g \in PgIds
             /\ ReadPg(g) \in PgRecs /\ ReadPg(g).uid = dirs[g].uid
             /\ ReadPg(g).scan = NoFile /\ ReadPg(g).scantok = 0
  <2>1. /\ g \in DOMAIN dirs /\ dirs[g] \in DirRecs /\ g \in PgIds
        /\ IsFiniteSet(dirs[g].files)
    BY DEF PInv, PgTypeOK
  <2> DEFINE n == Cardinality(dirs[g].files)
  <2>2. n \in Int
    BY <2>1, FS_CardinalityType
  <2> HIDE DEF n
  <2>3. EmptyPg \in PgRecs /\ EmptyPg.scan = NoFile /\ EmptyPg.scantok = 0
    BY DEF EmptyPg, PgRecs
  <2>4. dirs[g].uid \in Users \cup {NoUid}
    BY <2>1 DEF DirRecs
  <2>5. ReadPg(g) = [EmptyPg EXCEPT !.uid = dirs[g].uid, !.didExec = TRUE, !.nrfiles = n]
    BY DEF ReadPg, n
  <2> QED
    BY <2>1, <2>2, <2>3, <2>4, <2>5 DEF PgRecs
<1> HIDE DEF kept
<1>4. /\ DOMAIN pgs' = kept /\ \A g \in kept : pgs'[g] = ReadPg(g)
      /\ DOMAIN dirs' = kept /\ \A g \in kept : dirs'[g] = dirs[g]
  BY <1>1
<1>5. /\ pgs' \in [DOMAIN pgs' -> PgRecs] /\ dirs' \in [DOMAIN dirs' -> DirRecs]
  BY <1>1, <1>3, <1>4
<1>6. PgTypeOK'
  BY <1>1, <1>2, <1>3, <1>4, <1>5 DEF PInv, PgTypeOK
<1>7. FoundersOwn' /\ ScansOwnFile'
  BY <1>1, <1>3, <1>4 DEF PInv, FoundersOwn, ScansOwnFile
<1>8. Queued' = {} /\ Scanned' = {} /\ Returning' = {} /\ DOMAIN pgp2m' = {} /\ DOMAIN pgm2p' = {}
  BY <1>1 DEF Queued, Scanned, Returning
<1>9. RequestsAllowed' /\ InOnePlace' /\ Unanswered'
  BY <1>1, <1>8 DEF PInv, RequestsAllowed, InOnePlace, QueuedOnce, ScannedOnce, ReturningOnce,
                    Unanswered
<1>10. Awaited'
  BY <1>3, <1>4 DEF Awaited
<1> QED
  BY <1>6, <1>7, <1>9, <1>10 DEF PInv

LEMMA PInvInit ==
    ASSUME PgInit
    PROVE  PInv
<1>1. /\ DOMAIN pgs = {} /\ DOMAIN dirs = {} /\ DOMAIN pgp2m = {} /\ DOMAIN pgm2p = {}
      /\ scanners = {}
  BY DEF PgInit
<1>2. Queued = {} /\ Scanned = {} /\ Returning = {}
  BY <1>1 DEF Queued, Scanned, Returning
<1>3. PgTypeOK
  <2>1. pgs \in [DOMAIN pgs -> PgRecs] /\ dirs \in [DOMAIN dirs -> DirRecs]
    BY <1>1 DEF PgInit
  <2>2. lastId \in 0 .. MaxPg /\ kpg \in 0 .. MaxPg /\ restarts \in Nat
    BY PgAssumption DEF PgInit
  <2> QED
    BY <1>1, <2>1, <2>2 DEF PgTypeOK, PgInit, Labels
<1>4. FoundersOwn /\ ScansOwnFile /\ Awaited
  BY <1>1 DEF FoundersOwn, ScansOwnFile, Awaited
<1>5. RequestsAllowed /\ InOnePlace /\ Unanswered
  BY <1>1, <1>2 DEF PgInit, RequestsAllowed, InOnePlace, QueuedOnce, ScannedOnce,
                    ReturningOnce, Unanswered
<1> QED
  BY <1>3, <1>4, <1>5 DEF PInv

LEMMA PgStepKeeps ==
    ASSUME PInv, PgStep
    PROVE  PInv'
<1>1. CASE UNCHANGED pgVars
  BY <1>1, UseIdKeeps
<1>2. ASSUME NEW g \in PgIds,
             \/ DeleteProc(g) \/ Rename(g) \/ UseId(g)
             \/ \E c \in Cookies, u \in Users :
                   AddProc(g, c, u) \/ PostExec(g, c, u) \/ EnterNew(g, c, u)
      PROVE  PInv'
  <2>1. ASSUME NEW c \in Cookies, NEW u \in Users, AddProc(g, c, u) \/ EnterNew(g, c, u)
        PROVE  PInv'
    BY <2>1, AddKeeps DEF AddProc, EnterNew
  <2> QED
    BY <1>2, <2>1, DeleteProcKeeps, RenameKeeps, UseIdKeeps, PostExecKeeps
<1>3. CASE PgNext
  <2>1. ASSUME NEW g \in PgIds, NEW f \in Files,
               \/ FileInstantiate(g, f) \/ FileDelete(g, f)
               \/ \E u \in Users : FileScan(g, f, u) \/ Unlink(g, f, u)
               \/ \E u \in Users, t \in Requests, skip \in BOOLEAN :
                     DispatchCommit(t, g, u, f, skip)
        PROVE  PInv'
    BY <2>1, FileInstantiateKeeps, FileDeleteKeeps, FileScanKeeps, UnlinkKeeps,
       DispatchCommitKeeps
  <2> QED
    BY <1>3, <2>1, StartScanKeeps, ScannerExitKeeps, CommitReplyKeeps DEF PgNext
<1>4. CASE StartPg(kpg) \/ StartPg(0)
  <2>1. kpg \in 0 .. MaxPg /\ 0 \in 0 .. MaxPg
    BY PgAssumption DEF PInv, PgTypeOK
  <2> QED
    BY <1>4, <2>1, StartKeeps
<1> QED
  BY <1>1, <1>2, <1>3, <1>4 DEF PgStep

-----------------------------------------------------------------------------
(* Theorems about requests, files and ids                                   *)

\* PInv is an invariant whatever the processes do and whether or not the
\* management directory can be written.
THEOREM PlaygroundInvariant == Safe => [](PInv /\ HandedOut)
<1>1. Init => PInv /\ HandedOut
  <2>1. Init => kpg \in Int /\ \A c \in Cookies : proc[c] = NoProc
    BY DEF Init, PgInit
  <2> QED
    BY <2>1, PInvInit DEF Init, HandedOut
<1>2. PInv /\ Tracking /\ HandedOut /\ [Next]_vars => PInv' /\ HandedOut'
  <2> SUFFICES ASSUME PInv, Tracking, HandedOut, [Next]_vars PROVE PInv' /\ HandedOut'
    OBVIOUS
  <2>1. PInv'
    BY PgStepIs, PgStepKeeps
  <2>2. CASE UNCHANGED procVars /\ (PgNext \/ UNCHANGED pgVars)
    <3>1. kpg' = kpg /\ proc' = proc
      BY <2>2 DEF procVars, pgVars, PgNext, FileInstantiate, FileDelete, FileScan, Unlink,
                  DispatchCommit, StartScan, ScannerExit, CommitReply
    <3> QED
      BY <2>1, <3>1 DEF HandedOut
  <2>3. CASE Restart(kpg, Tracked) \/ Restart(0, {})
    BY <2>1, <2>3, PgAssumption DEF Restart, HandedOut, PInv, PgTypeOK
  <2> QED
    BY <2>1, <2>2, <2>3, EventHandedOut, PolicyHandedOut DEF Next, vars
<1> QED
  BY <1>1, <1>2, TrackingInvariant, PTL DEF Safe

\* dispatch_pgcommit, anoubisd_scanproc_exit and
\* pe_playground_dispatch_commitreply: a commit request is answered at most
\* once, and no playground waits for an answer that does not come.
THEOREM AlwaysAnsweredOnce == Safe => []AnsweredOnce
<1>1. PInv => AnsweredOnce
  <2> SUFFICES ASSUME PInv PROVE AnsweredOnce
    OBVIOUS
  <2>1. \A t \in Requests : answers[t] <= 1 /\ (answers[t] = 1 => ~Pending(t))
    BY PendingIs DEF PInv, Unanswered
  <2>2. \A g \in DOMAIN pgs : pgs[g].scantok # 0 => Pending(pgs[g].scantok)
    BY PendingIs DEF PInv, Awaited
  <2> QED
    BY <2>1, <2>2 DEF AnsweredOnce
<1> QED
  BY <1>1, PlaygroundInvariant, PTL

\* Only the end of a scan commits a file.
LEMMA OnlyScannersCommit ==
    ASSUME PInv, PgStep, NEW f \in Files, label[f] \in PgIds, label'[f] = Committed
    PROVE  \E s \in scanners, v \in Verdicts : ScannerExit(s, v)
<1>0. Committed \notin PgIds /\ Deleted # Committed /\ label \in [Files -> Labels]
  BY PgAssumption DEF PgIds, Committed, Deleted, PInv, PgTypeOK
<1>1. label' # label
  BY <1>0
<1>2. ASSUME NEW g \in PgIds, NEW h \in Files, FileInstantiate(g, h) PROVE FALSE
  <2>1. label' = [label EXCEPT ![h] = g]
    BY <1>2 DEF FileInstantiate
  <2> QED
    BY <1>0, <2>1
<1>3. ASSUME NEW g \in PgIds, NEW h \in Files, FileDelete(g, h) PROVE FALSE
  <2>1. label' = [label EXCEPT ![h] = IF label[h] = g THEN Deleted ELSE label[h]]
    BY <1>3 DEF FileDelete
  <2> QED
    BY <1>0, <2>1
<1>4. /\ \A g, u, h : ~FileScan(g, h, u) /\ ~Unlink(g, h, u)
      /\ \A t, g, u, h, skip : ~DispatchCommit(t, g, u, h, skip)
      /\ ~StartScan /\ ~CommitReply
  BY <1>1 DEF FileScan, Unlink, DispatchCommit, StartScan, CommitReply, scanVars
<1>5. /\ ~(UNCHANGED pgVars) /\ \A k : ~StartPg(k)
      /\ \A g : ~DeleteProc(g) /\ ~Rename(g) /\ ~UseId(g)
      /\ \A g, c, u : ~AddProc(g, c, u) /\ ~PostExec(g, c, u) /\ ~EnterNew(g, c, u)
  BY <1>1 DEF pgVars, StartPg, DeleteProc, Rename, UseId, AddProc, EnterNew, Add, PostExec,
              scanVars
<1> QED
  BY <1>2, <1>3, <1>4, <1>5 DEF PgStep, PgNext

\* pe_playground_dispatch_commit: a file leaves its playground only on behalf
\* of root or of somebody who founded that playground, whatever happened to
\* the file, the playground and the daemon since the request.
THEOREM CommitsAlwaysAllowed == Safe => CommitsAllowed
<1> DEFINE Step == \A f \in Files :
              label[f] \in PgIds /\ label'[f] = Committed =>
                 \E s \in scanners \ scanners' :
                     s.file = f /\ (s.uid = 0 \/ s.uid \in owners[label[f]])
<1>1. PInv /\ HandedOut /\ Tracking /\ [Next]_vars => [Step]_vars
  <2> SUFFICES ASSUME PInv, PgStep, NEW f \in Files, label[f] \in PgIds, label'[f] = Committed
               PROVE  \E s \in scanners \ scanners' :
                          s.file = f /\ (s.uid = 0 \/ s.uid \in owners[label[f]])
    BY PgStepIs
  <2>1. PICK s \in scanners, v \in Verdicts : ScannerExit(s, v)
    BY OnlyScannersCommit
  <2>2. /\ scanners' = scanners \ {s}
        /\ label' = label \/ label' = [label EXCEPT ![s.file] = Committed]
    BY <2>1 DEF ScannerExit
  <2>3. Committed \notin PgIds /\ label \in [Files -> Labels] /\ s.file \in Files
    BY PgAssumption DEF PgIds, Committed, PInv, PgTypeOK, ScannerRecs
  <2>4. s.file = f
    BY <2>2, <2>3
  <2>5. s.uid = 0 \/ s.uid \in owners[label[f]]
    BY <2>4 DEF PInv, RequestsAllowed, MayCommit
  <2> QED
    BY <2>2, <2>4, <2>5
<1> QED
  BY <1>1, PlaygroundInvariant, TrackingInvariant, PTL DEF Safe, CommitsAllowed

-----------------------------------------------------------------------------
(* Ids of new playgrounds                                                   *)

\* What somebody has founded has an id up to k.
FoundedBelow(m, k) == \A g \in DOMAIN m : m[g].uid # NoUid => g <= k
Founded == FoundedBelow(pgs, kpg) /\ FoundedBelow(dirs, kpg)
FoundedIn(k) == FoundedBelow(pgs', k) /\ FoundedBelow(dirs', k)

\* The user u is the one of g in the map m, or g may have one.
MayOwn(m, g, u, k) == u = NoUid \/ g <= k \/ (g \in DOMAIN m /\ u = m[g].uid)

LEMMA WithFounded ==
    ASSUME NEW m, NEW k, FoundedBelow(m, k), NEW g, NEW r, MayOwn(m, g, r.uid, k)
    PROVE  FoundedBelow(With(m, g, r), k)
BY DEF FoundedBelow, With, MayOwn

LEMMA WithoutFounded ==
    ASSUME NEW m, NEW k, FoundedBelow(m, k), NEW g
    PROVE  FoundedBelow(Without(m, g), k)
BY DEF FoundedBelow, Without

LEMMA DirsWithFounded ==
    ASSUME NEW k, FoundedBelow(dirs, k), NEW g, NEW d, MayOwn(dirs, g, d.uid, k)
    PROVE  FoundedBelow(DirsWith(g, d), k)
<1>1. DirsWith(g, d) = dirs \/ DirsWith(g, d) = With(dirs, g, d)
  BY DEF DirsWith
<1> QED
  BY <1>1, WithFounded

LEMMA CreatedOwn ==
    ASSUME NEW g, NEW k
    PROVE  MayOwn(pgs, g, Created(g).uid, k) /\ MayOwn(dirs, g, CreatedDir(g).uid, k)
BY DEF MayOwn, Created, CreatedDir, EmptyPg, EmptyDir, Known

LEMMA PutFounded ==
    ASSUME NEW k, FoundedBelow(pgs, k), FoundedBelow(dirs, k), NEW g, NEW r, NEW d,
           MayOwn(pgs, g, r.uid, k), MayOwn(dirs, g, d.uid, k), Put(g, r, d)
    PROVE  FoundedIn(k)
<1>1. pgs' = Without(pgs, g) \/ pgs' = With(pgs, g, r)
  BY DEF Put
<1>2. dirs' = Without(dirs, g) \/ dirs' = DirsWith(g, d)
  BY DEF Put
<1>3. FoundedBelow(pgs', k)
  BY <1>1, WithoutFounded, WithFounded
<1>4. FoundedBelow(dirs', k)
  BY <1>2, WithoutFounded, DirsWithFounded
<1> QED
  BY <1>3, <1>4 DEF FoundedIn

\* pe_playground_initproc: a playground that is founded has an id up to k.
LEMMA OwnFounded ==
    ASSUME NEW k, FoundedBelow(dirs, k), NEW g, g <= k, NEW r, NEW c, NEW u, Own(g, r, c, u)
    PROVE  FoundedBelow(dirs', k)
<1>1. \E d : dirs' = DirsWith(g, d)
  BY DEF Own
<1> QED
  BY <1>1, DirsWithFounded DEF MayOwn

LEMMA AddFounded ==
    ASSUME NEW k, FoundedBelow(pgs, k), FoundedBelow(dirs, k), NEW g, g <= k,
           NEW c, NEW u, Add(g, c, u)
    PROVE  FoundedIn(k)
<1>1. \E r : pgs' = With(pgs, g, r)
  BY DEF Add
<1>2. FoundedBelow(pgs', k)
  BY <1>1, WithFounded DEF MayOwn
<1>3. FoundedBelow(dirs', k)
  BY OwnFounded DEF Add
<1> QED
  BY <1>2, <1>3 DEF FoundedIn

LEMMA PostExecFounded ==
    ASSUME PInv, NEW k, FoundedBelow(pgs, k), FoundedBelow(dirs, k), NEW g, g <= k,
           NEW c, NEW u, PostExec(g, c, u)
    PROVE  FoundedIn(k)
<1>1. CASE ~Known(g)
  BY <1>1 DEF PostExec, FoundedIn
<1>2. CASE Known(g)
  <2>1. PICK r : pgs' = [pgs EXCEPT ![g] = r]
    BY <1>2 DEF PostExec
  <2>2. pgs' = With(pgs, g, r)
    BY <1>2, <2>1 DEF With, Known, PInv, PgTypeOK
  <2>3. FoundedBelow(pgs', k)
    BY <2>2, WithFounded DEF MayOwn
  <2>4. FoundedBelow(dirs', k)
    BY <1>2, OwnFounded DEF PostExec
  <2> QED
    BY <2>3, <2>4 DEF FoundedIn
<1> QED
  BY <1>1, <1>2

LEMMA DeleteProcFounded ==
    ASSUME PInv, Founded, NEW g \in PgIds, DeleteProc(g)
    PROVE  FoundedIn(kpg)
<1>1. CASE pgs' = pgs /\ dirs' = dirs
  BY <1>1 DEF Founded, FoundedIn
<1>2. CASE Known(g) /\ pgs[g].nrprocs > 0
  <2> DEFINE r == [pgs[g] EXCEPT !.nrprocs = pgs[g].nrprocs - 1]
  <2>1. Put(g, r, CreatedDir(g))
    BY <1>2 DEF DeleteProc
  <2>2. g \in DOMAIN pgs /\ r.uid = pgs[g].uid
    BY <1>2 DEF Known, PInv, PgTypeOK, PgRecs
  <2> HIDE DEF r
  <2>3. MayOwn(pgs, g, r.uid, kpg) /\ MayOwn(dirs, g, CreatedDir(g).uid, kpg)
    BY <2>2, CreatedOwn DEF MayOwn
  <2> QED
    BY <2>1, <2>3, PutFounded DEF Founded
<1> QED
  BY <1>1, <1>2 DEF DeleteProc

LEMMA InstantiateFounded ==
    ASSUME PInv, Founded, NEW g \in PgIds, NEW f \in Files, NEW scan \in BOOLEAN,
           Instantiate(g, f, scan)
    PROVE  FoundedIn(kpg)
<1>1. PICK failed, added : Entered(g, f, failed, added, scan)
  BY DEF Instantiate
<1> DEFINE r == Created(g)
           d == CreatedDir(g)
           n == [r EXCEPT !.nrfiles = r.nrfiles + added, !.scan = IF scan THEN f ELSE r.scan]
           e == [d EXCEPT !.files = d.files \cup {f},
                          !.named = IF failed THEN d.named ELSE d.named \cup {f},
                          !.torn = d.torn \/ (failed /\ f \notin d.named)]
<1>2. pgs' = With(pgs, g, n) /\ dirs' = DirsWith(g, e)
  BY <1>1 DEF Entered
<1>3. r \in PgRecs /\ d \in DirRecs
  <2>1. EmptyPg \in PgRecs /\ EmptyDir \in DirRecs
    BY DEF EmptyPg, EmptyDir, PgRecs, DirRecs
  <2> QED
    BY <2>1 DEF Created, CreatedDir, Known, PInv, PgTypeOK
<1>4. MayOwn(pgs, g, r.uid, kpg) /\ MayOwn(dirs, g, d.uid, kpg)
  BY CreatedOwn
<1> HIDE DEF r, d
<1>5. n.uid = r.uid /\ e.uid = d.uid
  BY <1>3 DEF PgRecs, DirRecs
<1> HIDE DEF n, e
<1>6. FoundedBelow(pgs', kpg)
  BY <1>2, <1>4, <1>5, WithFounded DEF Founded
<1>7. FoundedBelow(dirs', kpg)
  BY <1>2, <1>4, <1>5, DirsWithFounded DEF Founded
<1> QED
  BY <1>6, <1>7 DEF FoundedIn

LEMMA DeleteEntryFounded ==
    ASSUME PInv, Founded, NEW g \in PgIds, NEW f \in Files, DeleteEntry(g, f)
    PROVE  FoundedIn(kpg)
<1>1. CASE pgs' = pgs /\ dirs' = dirs
  BY <1>1 DEF Founded, FoundedIn
<1>2. CASE Known(g) /\ f \in CreatedDir(g).files
  <2> DEFINE n == [pgs[g] EXCEPT !.nrfiles = pgs[g].nrfiles - 1]
             e == [dirs[g] EXCEPT !.files = dirs[g].files \ {f}, !.named = dirs[g].named \ {f}]
  <2>1. Put(g, n, e)
    BY <1>2 DEF DeleteEntry
  <2>2. g \in DOMAIN dirs
    BY <1>2 DEF CreatedDir, EmptyDir
  <2>3. g \in DOMAIN pgs /\ n.uid = pgs[g].uid /\ e.uid = dirs[g].uid
    BY <1>2, <2>2 DEF Known, PInv, PgTypeOK, PgRecs, DirRecs
  <2> HIDE DEF n, e
  <2>4. MayOwn(pgs, g, n.uid, kpg) /\ MayOwn(dirs, g, e.uid, kpg)
    BY <2>2, <2>3 DEF MayOwn
  <2> QED
    BY <2>1, <2>4, PutFounded DEF Founded
<1> QED
  BY <1>1, <1>2 DEF DeleteEntry

\* Commits leave the users alone.
LEMMA CommitFounded ==
    ASSUME PInv, Founded, dirs' = dirs, DOMAIN pgs' = DOMAIN pgs,
           \A g \in DOMAIN pgs : pgs'[g].uid = pgs[g].uid
    PROVE  FoundedIn(kpg)
BY DEF Founded, FoundedIn, FoundedBelow

LEMMA PgNextFounded ==
    ASSUME PInv, Founded, PgNext
    PROVE  FoundedIn(kpg) /\ kpg' = kpg
<1>0. kpg' = kpg
  BY DEF PgNext, FileInstantiate, FileDelete, FileScan, Unlink, DispatchCommit, StartScan,
         ScannerExit, CommitReply
<1>1. ASSUME NEW g \in PgIds, NEW f \in Files, FileInstantiate(g, f) PROVE FoundedIn(kpg)
  BY <1>1, InstantiateFounded DEF FileInstantiate
<1>2. ASSUME NEW g \in PgIds, NEW f \in Files, NEW u \in Users, FileScan(g, f, u)
      PROVE  FoundedIn(kpg)
  <2> DEFINE scan == u \in {0, Created(g).uid} \ {NoUid}
  <2>1. Instantiate(g, f, scan) /\ scan \in BOOLEAN
    BY <1>2 DEF FileScan
  <2> HIDE DEF scan
  <2> QED
    BY <2>1, InstantiateFounded
<1>3. ASSUME NEW g \in PgIds, NEW f \in Files,
             FileDelete(g, f) \/ \E u \in Users : Unlink(g, f, u)
      PROVE  FoundedIn(kpg)
  <2>1. DeleteEntry(g, f) \/ (pgs' = pgs /\ dirs' = dirs)
    BY <1>3 DEF FileDelete, Unlink
  <2> QED
    BY <2>1, DeleteEntryFounded DEF Founded, FoundedIn
<1>4. ASSUME NEW t, NEW g \in PgIds, NEW u, NEW f, NEW skip, DispatchCommit(t, g, u, f, skip)
      PROVE  FoundedIn(kpg)
  <2>1. dirs' = dirs /\ (pgs' = pgs \/ (Known(g) /\ pgs' = [pgs EXCEPT ![g].scantok = t]))
    BY <1>4 DEF DispatchCommit, CommitAllowed
  <2>2. CASE pgs' = pgs
    BY <2>1, <2>2 DEF Founded, FoundedIn
  <2>3. CASE Known(g) /\ pgs' = [pgs EXCEPT ![g].scantok = t]
    <3> DEFINE r == [pgs[g] EXCEPT !.scantok = t]
    <3>1. r.uid = pgs[g].uid /\ pgs' = [pgs EXCEPT ![g] = r]
      BY <2>3 DEF Known, PInv, PgTypeOK, PgRecs
    <3> HIDE DEF r
    <3>2. DOMAIN pgs' = DOMAIN pgs /\ \A h \in DOMAIN pgs : pgs'[h].uid = pgs[h].uid
      BY <3>1
    <3> QED
      BY <2>1, <3>2, CommitFounded
  <2> QED
    BY <2>1, <2>2, <2>3
<1>5. CASE StartScan \/ \E s \in scanners, v \in Verdicts : ScannerExit(s, v)
  BY <1>5 DEF StartScan, ScannerExit, Founded, FoundedIn
<1>6. CASE CommitReply
  <2>1. PICK t : pgs' = [g \in DOMAIN pgs |-> IF pgs[g].scantok = t
                    THEN [pgs[g] EXCEPT !.scan = NoFile, !.scantok = 0] ELSE pgs[g]]
    BY <1>6 DEF CommitReply
  <2>2. DOMAIN pgs' = DOMAIN pgs /\ \A h \in DOMAIN pgs : pgs'[h].uid = pgs[h].uid
    BY <2>1 DEF PInv, PgTypeOK, PgRecs
  <2> QED
    BY <1>6, <2>2, CommitFounded DEF CommitReply
<1> QED
  BY <1>0, <1>1, <1>2, <1>3, <1>4, <1>5, <1>6 DEF PgNext

LEMMA StepFounded ==
    ASSUME PInv, Founded, PgStep
    PROVE  Founded'
<1>0. kpg \in Int /\ DOMAIN pgs \subseteq Int /\ DOMAIN dirs \subseteq Int
  BY PgAssumption DEF PInv, PgTypeOK, PgIds
<1>1. CASE UNCHANGED pgVars
  BY <1>1 DEF pgVars, Founded, FoundedBelow
<1>2. ASSUME FoundedIn(kpg'), TRUE PROVE Founded'
  BY <1>2 DEF FoundedIn, Founded, FoundedBelow
<1>3. ASSUME NEW g \in PgIds, DeleteProc(g) PROVE Founded'
  BY <1>2, <1>3, DeleteProcFounded DEF DeleteProc
<1>4. ASSUME NEW g \in PgIds, Rename(g) PROVE Founded'
  <2>1. pgs' = With(pgs, g, Created(g)) /\ dirs' = dirs /\ kpg' = kpg
    BY <1>4 DEF Rename
  <2>2. FoundedBelow(pgs', kpg)
    BY <2>1, CreatedOwn, WithFounded DEF Founded
  <2> QED
    BY <1>2, <2>1, <2>2 DEF Founded, FoundedIn
<1>5. ASSUME NEW g \in PgIds, kpg' = g, g = kpg + 1
      PROVE  FoundedBelow(pgs, kpg') /\ FoundedBelow(dirs, kpg') /\ g <= kpg'
  BY <1>0, <1>5 DEF Founded, FoundedBelow
<1>6. ASSUME NEW g \in PgIds, UseId(g), g = kpg + 1 PROVE Founded'
  BY <1>2, <1>5, <1>6 DEF UseId, FoundedIn
<1>7. ASSUME NEW g \in PgIds, NEW c \in Cookies, NEW u \in Users, EnterNew(g, c, u), g = kpg + 1
      PROVE  Founded'
  <2>1. FoundedBelow(pgs, kpg') /\ FoundedBelow(dirs, kpg') /\ g <= kpg' /\ Add(g, c, u)
    BY <1>5, <1>7 DEF EnterNew
  <2>2. PICK k : k = kpg'
    OBVIOUS
  <2>3. FoundedIn(k)
    BY <2>1, <2>2, AddFounded
  <2> QED
    BY <1>2, <2>2, <2>3
<1>8. ASSUME NEW g \in PgIds, NEW c \in Cookies, NEW u \in Users, AddProc(g, c, u), g <= kpg
      PROVE  Founded'
  BY <1>2, <1>8, AddFounded DEF AddProc, Founded
<1>9. ASSUME NEW g \in PgIds, NEW c \in Cookies, NEW u \in Users, PostExec(g, c, u), g <= kpg
      PROVE  Founded'
  <2>1. kpg' = kpg
    BY <1>9 DEF PostExec
  <2>2. FoundedIn(kpg)
    BY <1>9, PostExecFounded DEF Founded
  <2> QED
    BY <1>2, <2>1, <2>2
<1>10. CASE PgNext
  BY <1>2, <1>10, PgNextFounded
<1>11. ASSUME NEW k \in 0 .. MaxPg, StartPg(k) PROVE Founded'
  <2>1. \A g \in DOMAIN dirs : g <= kpg'
    BY <1>11, StartIds
  <2>2. DOMAIN pgs' \subseteq DOMAIN dirs /\ DOMAIN dirs' \subseteq DOMAIN dirs
    BY <1>11 DEF StartPg
  <2> QED
    BY <1>2, <2>1, <2>2 DEF FoundedIn, FoundedBelow
<1>12. kpg \in 0 .. MaxPg /\ 0 \in 0 .. MaxPg
  BY PgAssumption DEF PInv, PgTypeOK
<1> QED
  BY <1>1, <1>3, <1>4, <1>6, <1>7, <1>8, <1>9, <1>10, <1>11, <1>12 DEF PgStep

\* pe_playground_initpgid, pe_playground_initproc: whatever was saved, lost or
\* torn before a start, a playground with a new id begins with nobody's
\* directory, record or processes.
THEOREM NeverTakenOver == Safe => NoTakeover
<1> DEFINE Step == kpg' # kpg /\ restarts' = restarts =>
          /\ kpg' \in DOMAIN dirs => dirs[kpg'].uid = NoUid
          /\ kpg' \in DOMAIN pgs => pgs[kpg'].uid = NoUid /\ Running(kpg') = {}
<1>1. Init => Founded
  BY DEF Init, PgInit, Founded, FoundedBelow
<1>2. PInv /\ HandedOut /\ Founded /\ Tracking /\ [Next]_vars => Founded'
  BY PgStepIs, StepFounded
<1>3. PInv /\ HandedOut /\ Founded /\ Tracking /\ [Next]_vars => [Step]_vars
  <2> SUFFICES ASSUME PInv, HandedOut, Founded, Tracking, PgStep, kpg' # kpg, restarts' = restarts
               PROVE  /\ kpg' \in DOMAIN dirs => dirs[kpg'].uid = NoUid
                      /\ kpg' \in DOMAIN pgs => pgs[kpg'].uid = NoUid /\ Running(kpg') = {}
    BY PgStepIs
  <2>1. /\ ~(UNCHANGED pgVars) /\ ~PgNext
        /\ \A g : ~DeleteProc(g) /\ ~Rename(g)
        /\ \A g, c, u : ~AddProc(g, c, u) /\ ~PostExec(g, c, u)
    BY DEF pgVars, DeleteProc, Rename, AddProc, PostExec, PgNext,
           FileInstantiate, FileDelete, FileScan, Unlink, DispatchCommit, StartScan,
           ScannerExit, CommitReply
  <2>2. \A k : ~StartPg(k)
    BY DEF StartPg, PInv, PgTypeOK
  <2>3. kpg' = kpg + 1
    BY <2>1, <2>2 DEF PgStep, UseId, EnterNew
  <2>4. kpg \in Int
    BY DEF HandedOut
  <2>5. PICK k \in Int : k = kpg' /\ ~(k <= kpg)
    BY <2>3, <2>4
  <2>6. k \in DOMAIN dirs => dirs[k].uid = NoUid
    BY <2>5 DEF Founded, FoundedBelow
  <2>7. k \in DOMAIN pgs => pgs[k].uid = NoUid
    BY <2>5 DEF Founded, FoundedBelow
  <2>8. Running(k) = {}
    BY <2>5 DEF Running, Tracked, HandedOut
  <2>9. Running(kpg') = Running(k)
    BY <2>5 DEF Running
  <2> QED
    BY <2>5, <2>6, <2>7, <2>8, <2>9
<1> QED
  BY <1>1, <1>2, <1>3, PlaygroundInvariant, TrackingInvariant, PTL DEF Safe, NoTakeover

-----------------------------------------------------------------------------
(* Who counts                                                               *)

SameCounts == \A g \in PgIds : Counted(g)' = Counted(g)
Joins(g, c) == /\ c \notin Counted(g) /\ Counted(g)' = Counted(g) \cup {c}
               /\ \A h \in PgIds \ {g} : Counted(h)' = Counted(h)
Leaves(g, c) == /\ c \in Counted(g) /\ Counted(g)' = Counted(g) \ {c}
                /\ \A h \in PgIds \ {g} : Counted(h)' = Counted(h)

\* What a step does to playgrounds and to the processes that count in them.
CountStep ==
    \/ SameCounts /\ \/ pgs' = pgs /\ dirs' = dirs
                     \/ \E g \in PgIds, c \in Cookies, u \in Users : PostExec(g, c, u)
                     \/ \E g \in PgIds : Rename(g)
                     \/ PgNext
    \/ \E g \in PgIds, c \in Cookies : DeleteProc(g) /\ Leaves(g, c)
    \/ \E g \in PgIds, c \in Cookies, u \in Users : Add(g, c, u) /\ Joins(g, c)
    \/ (\E k : StartPg(k)) /\ \A g \in PgIds : Counted(g)' = {}

LEMMA CountedIsRunning ==
    ASSUME Tracking, NEW g \in PgIds
    PROVE  Counted(g) = Running(g)
<1>0. g # NoPg
  BY PgAssumption DEF PgIds, NoPg
<1>1. \A c \in Cookies : proc[c] # NoProc => proc[c].threads \in Nat
  BY ProcFields DEF Tracking, TypeOK
<1>2. \A c \in Cookies : CountsIn(proc[c]) = g <=>
          proc[c] # NoProc /\ proc[c].pgid = g /\ proc[c].threads > 0
  BY <1>0, <1>1 DEF CountsIn
<1> QED
  BY <1>2 DEF Counted, Running, Tracked

LEMMA AllCountAsBefore ==
    ASSUME \A c \in Cookies : CountsIn(proc'[c]) = CountsIn(proc[c])
    PROVE  SameCounts
BY DEF SameCounts, Counted

LEMMA OneCounts ==
    ASSUME NEW c \in Cookies, \A d \in Cookies \ {c} : CountsIn(proc'[d]) = CountsIn(proc[d])
    PROVE  /\ CountsIn(proc'[c]) = CountsIn(proc[c]) => SameCounts
           /\ \A g \in PgIds : CountsIn(proc[c]) = NoPg /\ CountsIn(proc'[c]) = g => Joins(g, c)
           /\ \A g \in PgIds : CountsIn(proc[c]) = g /\ CountsIn(proc'[c]) = NoPg => Leaves(g, c)
<1>0. NoPg \notin PgIds
  BY PgAssumption DEF PgIds, NoPg
<1>1. CountsIn(proc'[c]) = CountsIn(proc[c]) => SameCounts
  BY AllCountAsBefore
<1>2. ASSUME NEW g \in PgIds, CountsIn(proc[c]) = NoPg, CountsIn(proc'[c]) = g
      PROVE  Joins(g, c)
  BY <1>0, <1>2 DEF Joins, Counted
<1>3. ASSUME NEW g \in PgIds, CountsIn(proc[c]) = g, CountsIn(proc'[c]) = NoPg
      PROVE  Leaves(g, c)
  BY <1>0, <1>3 DEF Leaves, Counted
<1> QED
  BY <1>1, <1>2, <1>3

\* A process changes and counts where it did.
LEMMA ChangedCountsAsBefore ==
    ASSUME Tracking, NEW c \in Cookies, proc[c] # NoProc, NEW q \in ProcRecs,
           proc' = [proc EXCEPT ![c] = q], q.pgid = proc[c].pgid, q.threads = proc[c].threads
    PROVE  SameCounts
<1>1. proc \in [Cookies -> ProcRecs \cup {NoProc}] /\ NoProc \notin ProcRecs
  BY ProcAssumption DEF Tracking, TypeOK
<1>2. /\ proc'[c] = q /\ q # NoProc
      /\ \A d \in Cookies \ {c} : CountsIn(proc'[d]) = CountsIn(proc[d])
  BY <1>1
<1>3. CountsIn(q) = CountsIn(proc[c])
  BY <1>2 DEF CountsIn
<1> QED
  BY <1>2, <1>3, OneCounts

\* A process that was not tracked does not count: it has no threads.
LEMMA NewcomerCountsNot ==
    ASSUME Tracking, NEW c \in Cookies, proc[c] = NoProc, NEW q,
           proc' = [proc EXCEPT ![c] = q], q.threads = 0
    PROVE  SameCounts
<1>1. proc \in [Cookies -> ProcRecs \cup {NoProc}]
  BY DEF Tracking, TypeOK
<1>2. proc'[c] = q /\ \A d \in Cookies \ {c} : CountsIn(proc'[d]) = CountsIn(proc[d])
  BY <1>1
<1>3. CountsIn(q) = CountsIn(proc[c])
  BY DEF CountsIn
<1> QED
  BY <1>2, <1>3, OneCounts

LEMMA ForkCounts ==
    ASSUME Tracking, NEW uid \in Users, NEW child \in Cookies, NEW parent \in Cookies,
           NEW pgid \in PgIds \cup {NoPg}, Fork(uid, child, parent, pgid)
    PROVE  CountStep
<1> DEFINE par == proc[parent]
           ident == IF par = NoProc THEN NoIdent ELSE par.ident
           new == NewProc(uid, ident, pgid)
           q == ForkCtx(new, par)
<1>1. proc' = [proc EXCEPT ![child] = q] /\ pgs' = pgs /\ dirs' = dirs
  BY DEF Fork, pgVars
<1>2. proc[child] = NoProc
  BY DEF Fork, Tracking, Alive, Tracked
<1>3. q.threads = 0
  <2> HIDE DEF par, ident
  <2> QED
    BY DEF ForkCtx, NewProc
<1> HIDE DEF q
<1>4. SameCounts
  BY <1>1, <1>2, <1>3, NewcomerCountsNot
<1> QED
  BY <1>1, <1>4 DEF CountStep

LEMMA ExecCounts ==
    ASSUME Tracking, NEW c \in Cookies, NEW uid \in Users, NEW ident \in Idents,
           NEW pgid \in PgIds \cup {NoPg}, Exec(c, uid, ident, pgid)
    PROVE  CountStep
<1> DEFINE old == IF proc[c] = NoProc THEN NewProc(uid, NoIdent, pgid) ELSE proc[c]
           p == [old EXCEPT !.ident = ident]
           q == ExecCtx(p, uid, ident)
<1>0. pdb \in Dbs /\ proc \in [Cookies -> ProcRecs \cup {NoProc}]
  BY DEF Tracking, TypeOK
<1>1. /\ proc' = [proc EXCEPT ![c] = q]
      /\ UNCHANGED pgVars \/ (p.pgid # NoPg /\ PostExec(p.pgid, c, p.uid))
  BY DEF Exec
<1>2. /\ old \in ProcRecs /\ (proc[c] = NoProc => old.threads = 0)
      /\ proc[c] # NoProc => old = proc[c]
  <2>1. CASE proc[c] = NoProc
    <3>1. old = NewProc(uid, NoIdent, pgid)
      BY <2>1
    <3> HIDE DEF old
    <3> QED
      BY <2>1, <3>1, NewProcIs
  <2>2. CASE proc[c] # NoProc
    BY <1>0, <2>2
  <2> QED
    BY <2>1, <2>2
<1> HIDE DEF old
<1>3. /\ p \in ProcRecs /\ p.pgid = old.pgid /\ p.threads = old.threads
      /\ p.pgid \in PgIds \cup {NoPg} /\ p.uid \in Users
  BY <1>2 DEF ProcRecs
<1> HIDE DEF p
<1>4. q \in ProcRecs /\ q.pgid = p.pgid /\ q.threads = p.threads
  BY <1>0, <1>3, ExecIs
<1> HIDE DEF q
<1>5. SameCounts
  <2>1. CASE proc[c] = NoProc
    BY <1>1, <1>2, <1>3, <1>4, <2>1, NewcomerCountsNot
  <2>2. CASE proc[c] # NoProc
    BY <1>1, <1>2, <1>3, <1>4, <2>2, ChangedCountsAsBefore
  <2> QED
    BY <2>1, <2>2
<1>6. (pgs' = pgs /\ dirs' = dirs) \/ \E g \in PgIds, d \in Cookies, u \in Users : PostExec(g, d, u)
  BY <1>1, <1>3 DEF pgVars
<1> QED
  BY <1>5, <1>6 DEF CountStep

\* pe_proc_exit: a process that goes leaves its playground if it counted there.
LEMMA LoseCounts ==
    ASSUME Tracking, NEW procs \in [Cookies -> ProcRecs \cup {NoProc}], NEW c \in Cookies,
           procs[c] \in ProcRecs, LoseInstance(procs, c),
           \A d \in Cookies : CountsIn(procs[d]) = CountsIn(proc[d])
    PROVE  CountStep
<1>0. NoProc \notin ProcRecs
  BY ProcAssumption
<1>1. CASE procs[c].instances > 1
  <2> DEFINE q == [procs[c] EXCEPT !.instances = procs[c].instances - 1]
  <2>1. proc' = [procs EXCEPT ![c] = q] /\ pgs' = pgs /\ dirs' = dirs
    BY <1>1 DEF LoseInstance, pgVars
  <2>2. q.pgid = procs[c].pgid /\ q.threads = procs[c].threads /\ q \in ProcRecs
    <3>1. procs[c].instances - 1 \in Nat
      BY <1>1, ProcFields
    <3> QED
      BY <3>1 DEF ProcRecs
  <2> HIDE DEF q
  <2>3. CountsIn(q) = CountsIn(procs[c])
    BY <1>0, <2>2 DEF CountsIn
  <2>4. \A d \in Cookies : CountsIn(proc'[d]) = CountsIn(proc[d])
    BY <2>1, <2>3
  <2> QED
    BY <2>1, <2>4, AllCountAsBefore DEF CountStep
<1>2. CASE ~(procs[c].instances > 1)
  <2>1. proc' = [procs EXCEPT ![c] = NoProc]
    BY <1>2 DEF LoseInstance
  <2>2. /\ CountsIn(proc'[c]) = NoPg
        /\ \A d \in Cookies \ {c} : CountsIn(proc'[d]) = CountsIn(proc[d])
    BY <2>1 DEF CountsIn
  <2>3. procs[c] # NoProc /\ procs[c].threads \in Nat /\ procs[c].pgid \in PgIds \cup {NoPg}
    BY <1>0, ProcFields
  <2>4. CASE procs[c].pgid # NoPg /\ procs[c].threads > 0
    <3>1. DeleteProc(procs[c].pgid)
      BY <1>2, <2>4 DEF LoseInstance
    <3>2. CountsIn(proc[c]) = procs[c].pgid
      BY <2>3, <2>4 DEF CountsIn
    <3> QED
      BY <2>2, <2>3, <2>4, <3>1, <3>2, OneCounts DEF CountStep
  <2>5. CASE ~(procs[c].pgid # NoPg /\ procs[c].threads > 0)
    <3>1. pgs' = pgs /\ dirs' = dirs
      BY <1>2, <2>5 DEF LoseInstance, pgVars
    <3>2. CountsIn(proc[c]) = NoPg
      BY <2>3, <2>5 DEF CountsIn
    <3> QED
      BY <2>2, <3>1, <3>2, OneCounts DEF CountStep
  <2> QED
    BY <2>4, <2>5
<1> QED
  BY <1>1, <1>2

LEMMA ReplaceCounts ==
    ASSUME Tracking, NEW c \in Cookies, NEW victim \in Cookies, Replace(c, victim)
    PROVE  CountStep
<1> DEFINE q == [proc[c] EXCEPT !.instances = proc[c].instances + 1]
           procs == [proc EXCEPT ![c] = q]
<1>0. proc \in [Cookies -> ProcRecs \cup {NoProc}] /\ NoProc \notin ProcRecs
  BY ProcAssumption DEF Tracking, TypeOK
<1>1. /\ proc[c] \in ProcRecs /\ proc[victim] \in ProcRecs /\ c # victim
      /\ LoseInstance(procs, victim)
  BY <1>0 DEF Replace
<1>2. q \in ProcRecs /\ q.pgid = proc[c].pgid /\ q.threads = proc[c].threads
  <2>1. proc[c].instances + 1 \in Nat
    BY <1>1, ProcFields
  <2> QED
    BY <1>1, <2>1 DEF ProcRecs
<1> HIDE DEF q
<1>3. CountsIn(q) = CountsIn(proc[c])
  BY <1>0, <1>1, <1>2 DEF CountsIn
<1>4. /\ procs \in [Cookies -> ProcRecs \cup {NoProc}] /\ procs[victim] \in ProcRecs
      /\ \A d \in Cookies : CountsIn(procs[d]) = CountsIn(proc[d])
  BY <1>0, <1>1, <1>2, <1>3
<1> HIDE DEF procs
<1> QED
  BY <1>1, <1>4, LoseCounts

LEMMA ThreadCounts ==
    ASSUME Tracking, NEW c \in Cookies, AddThread(c) \/ RemoveThread(c)
    PROVE  CountStep
<1> DEFINE p == proc[c]
<1>0. proc \in [Cookies -> ProcRecs \cup {NoProc}] /\ NoProc \notin ProcRecs
  BY ProcAssumption DEF Tracking, TypeOK
<1>1. /\ p # NoProc /\ p \in ProcRecs /\ p.threads \in Nat /\ p.pgid \in PgIds \cup {NoPg}
      /\ p.uid \in Users
  BY <1>0, ProcFields DEF AddThread, RemoveThread
<1>2. ASSUME NEW n \in Nat, proc' = [proc EXCEPT ![c] = [p EXCEPT !.threads = n]]
      PROVE  /\ CountsIn(proc'[c]) = IF n = 0 THEN NoPg ELSE p.pgid
             /\ \A d \in Cookies \ {c} : CountsIn(proc'[d]) = CountsIn(proc[d])
  <2> DEFINE q == [p EXCEPT !.threads = n]
  <2>1. q \in ProcRecs /\ q.threads = n /\ q.pgid = p.pgid
    <3> HIDE DEF p
    <3> QED
      BY <1>1 DEF ProcRecs
  <2>2. CountsIn(q) = IF n = 0 THEN NoPg ELSE p.pgid
    <3> HIDE DEF q
    <3> QED
      BY <1>0, <2>1 DEF CountsIn
  <2> HIDE DEF q
  <2>3. proc' = [proc EXCEPT ![c] = q]
    BY <1>2 DEF q
  <2> QED
    BY <1>0, <2>2, <2>3
<1>3. CountsIn(p) = IF p.threads = 0 THEN NoPg ELSE p.pgid
  BY <1>1 DEF CountsIn
<1>4. CASE AddThread(c)
  <2>1. /\ proc' = [proc EXCEPT ![c] = [p EXCEPT !.threads = p.threads + 1]]
        /\ IF p.threads = 0 /\ p.pgid # NoPg THEN Add(p.pgid, c, p.uid) ELSE UNCHANGED pgVars
    BY <1>4 DEF AddThread, AddProc
  <2>2. p.threads + 1 \in Nat /\ p.threads + 1 # 0
    BY <1>1
  <2>3. /\ CountsIn(proc'[c]) = p.pgid
        /\ \A d \in Cookies \ {c} : CountsIn(proc'[d]) = CountsIn(proc[d])
    BY <1>2, <2>1, <2>2
  <2>4. CASE p.threads = 0 /\ p.pgid # NoPg
    <3>1. Add(p.pgid, c, p.uid)
      BY <2>1, <2>4
    <3>2. Joins(p.pgid, c)
      BY <1>1, <1>3, <2>3, <2>4, OneCounts
    <3> QED
      BY <1>1, <2>4, <3>1, <3>2 DEF CountStep
  <2>5. CASE ~(p.threads = 0 /\ p.pgid # NoPg)
    <3>1. pgs' = pgs /\ dirs' = dirs
      BY <2>1, <2>5 DEF pgVars
    <3>2. SameCounts
      BY <1>3, <2>3, <2>5, OneCounts
    <3> QED
      BY <3>1, <3>2 DEF CountStep
  <2> QED
    BY <2>4, <2>5
<1>5. CASE RemoveThread(c)
  <2>1. /\ proc' = [proc EXCEPT ![c] = [p EXCEPT !.threads = p.threads - 1]] /\ p.threads > 0
        /\ IF p.threads = 1 /\ p.pgid # NoPg THEN DeleteProc(p.pgid) ELSE UNCHANGED pgVars
    BY <1>5 DEF RemoveThread
  <2>2. p.threads - 1 \in Nat /\ p.threads # 0 /\ (p.threads - 1 = 0 <=> p.threads = 1)
    BY <1>1, <2>1
  <2>3. /\ CountsIn(proc'[c]) = IF p.threads = 1 THEN NoPg ELSE p.pgid
        /\ \A d \in Cookies \ {c} : CountsIn(proc'[d]) = CountsIn(proc[d])
    BY <1>2, <2>1, <2>2
  <2>4. CASE p.threads = 1 /\ p.pgid # NoPg
    <3>1. DeleteProc(p.pgid)
      BY <2>1, <2>4
    <3>2. Leaves(p.pgid, c)
      BY <1>1, <1>3, <2>2, <2>3, <2>4, OneCounts
    <3> QED
      BY <1>1, <2>4, <3>1, <3>2 DEF CountStep
  <2>5. CASE ~(p.threads = 1 /\ p.pgid # NoPg)
    <3>1. pgs' = pgs /\ dirs' = dirs
      BY <2>1, <2>5 DEF pgVars
    <3>2. SameCounts
      BY <1>3, <2>2, <2>3, <2>5, OneCounts
    <3> QED
      BY <3>1, <3>2 DEF CountStep
  <2> QED
    BY <2>4, <2>5
<1> QED
  BY <1>4, <1>5

LEMMA PlaygroundProcCounts ==
    ASSUME Tracking, ~Moves, NEW c \in Cookies, NEW pgid \in PgIds, PlaygroundProc(c, pgid)
    PROVE  CountStep
<1> DEFINE p == [proc[c] EXCEPT !.pgid = pgid]
           q == RefreshAll(pdb, p)
<1>0. /\ pdb \in Dbs /\ proc \in [Cookies -> ProcRecs \cup {NoProc}] /\ NoProc \notin ProcRecs
  BY ProcAssumption DEF Tracking, TypeOK
<1>1. /\ proc[c] # NoProc /\ proc[c] \in ProcRecs /\ proc[c].threads \in Nat
      /\ proc[c].uid \in Users
  BY <1>0, ProcFields DEF PlaygroundProc
<1>2. p \in ProcRecs /\ p.pgid = pgid /\ p.threads = proc[c].threads
  BY <1>1 DEF ProcRecs
<1>3. proc' = [proc EXCEPT ![c] = q] /\ MayEnter(pgid, proc[c].pgid)
  BY DEF PlaygroundProc
<1> HIDE DEF p
<1>4. q \in ProcRecs /\ q.pgid = pgid /\ q.threads = proc[c].threads
  BY <1>0, <1>2, RefreshedAll
<1> HIDE DEF q
<1>5. /\ CountsIn(proc'[c]) = IF proc[c].threads = 0 THEN NoPg ELSE pgid
      /\ \A d \in Cookies \ {c} : CountsIn(proc'[d]) = CountsIn(proc[d])
  BY <1>0, <1>3, <1>4 DEF CountsIn
<1>6. CountsIn(proc[c]) = IF proc[c].threads = 0 THEN NoPg ELSE proc[c].pgid
  BY <1>1 DEF CountsIn
<1>7. CASE proc[c].pgid = pgid
  <2>1. Rename(pgid)
    BY <1>7 DEF PlaygroundProc
  <2>2. SameCounts
    BY <1>5, <1>6, <1>7, OneCounts
  <2> QED
    BY <2>1, <2>2 DEF CountStep
<1>8. CASE proc[c].pgid # pgid
  <2>1. proc[c].pgid = NoPg
    BY <1>3, <1>8 DEF MayEnter
  <2>2. CASE proc[c].threads > 0
    <3>1. Add(pgid, c, proc[c].uid)
      BY <1>8, <2>2 DEF PlaygroundProc, EnterNew
    <3>2. Joins(pgid, c)
      BY <1>1, <1>5, <1>6, <2>1, <2>2, OneCounts
    <3> QED
      BY <1>1, <3>1, <3>2 DEF CountStep
  <2>3. CASE ~(proc[c].threads > 0)
    <3>1. pgs' = pgs /\ dirs' = dirs
      BY <1>8, <2>3 DEF PlaygroundProc, UseId
    <3>2. SameCounts
      BY <1>1, <1>5, <1>6, <2>3, OneCounts
    <3> QED
      BY <3>1, <3>2 DEF CountStep
  <2> QED
    BY <2>2, <2>3
<1> QED
  BY <1>7, <1>8

\* Opening files and sockets changes contexts only.
LEMMA ContextEventCounts ==
    ASSUME Tracking, NEW c \in Cookies,
           \/ \E u \in Users, id \in Idents : Open(c, id, u)
           \/ \E k \in Conns : Destroy(k, c) \/ \E d \in Cookies : Connect(k, c, d)
    PROVE  CountStep
<1>0. pdb \in Dbs /\ proc \in [Cookies -> ProcRecs \cup {NoProc}]
  BY DEF Tracking, TypeOK
<1>1. ASSUME NEW u \in Users, NEW id \in Idents, Open(c, id, u) PROVE SameCounts
  <2> DEFINE p == proc[c]
             q == [p EXCEPT !.ctx = [i \in Prios |->
                     IF Decide(p, "open", i, id, p.uid)
                       THEN Switched(pdb, p, i, id, u) ELSE p.ctx[i]]]
  <2>1. proc' = [proc EXCEPT ![c] = q] /\ p # NoProc /\ p \in ProcRecs
    BY <1>0, <1>1 DEF Open
  <2>2. q \in ProcRecs /\ q.pgid = p.pgid /\ q.threads = p.threads
    <3> HIDE DEF p
    <3> QED
      BY <1>0, <2>1, OpenIs
  <2> HIDE DEF q
  <2> QED
    BY <2>1, <2>2, ChangedCountsAsBefore
<1>2. ASSUME NEW k \in Conns, Destroy(k, c) PROVE SameCounts
  <2> DEFINE p == proc[c]
             q == RestoreCtx(p, k)
  <2>1. c \in Tracked
    BY <1>2 DEF Destroy, Tracking, Alive
  <2>2. proc' = [proc EXCEPT ![c] = q] /\ p # NoProc /\ p \in ProcRecs
    BY <1>0, <1>2, <2>1 DEF Destroy, Tracked
  <2>3. q \in ProcRecs /\ q.pgid = p.pgid /\ q.threads = p.threads
    <3> HIDE DEF p
    <3> QED
      BY <2>2, RestoredIs
  <2> HIDE DEF q
  <2> QED
    BY <2>2, <2>3, ChangedCountsAsBefore
<1>3. ASSUME NEW k \in Conns, NEW d \in Cookies, Connect(k, c, d) PROVE SameCounts
  <2> DEFINE s == proc[c]
             p == proc[d]
             q == BorrowCtx(s, p, k)
  <2>1. proc' = [proc EXCEPT ![d] = q] /\ p # NoProc /\ p \in ProcRecs /\ s \in ProcRecs
    BY <1>0, <1>3 DEF Connect
  <2>2. q \in ProcRecs /\ q.pgid = p.pgid /\ q.threads = p.threads
    <3>1. p \in ProcRecs /\ s \in ProcRecs
      BY <2>1
    <3> HIDE DEF p, s
    <3>2. q.pgid = p.pgid /\ q.threads = p.threads
      BY <3>1 DEF BorrowCtx, ProcRecs
    <3>3. q \in ProcRecs
      BY <1>0, <3>1, BorrowedIs
    <3> QED
      BY <3>2, <3>3
  <2> HIDE DEF q
  <2> QED
    BY <2>1, <2>2, ChangedCountsAsBefore
<1>4. pgs' = pgs /\ dirs' = dirs
  BY DEF Open, Destroy, Connect, pgVars
<1> QED
  BY <1>1, <1>2, <1>3, <1>4 DEF CountStep

\* So do policies.
LEMMA PolicyCounts ==
    ASSUME Tracking, NEW u \in Users \cup {Default}, PolicyChange(u)
    PROVE  CountStep
<1>0. /\ pdb' \in Dbs /\ proc \in [Cookies -> ProcRecs \cup {NoProc}] /\ NoProc \notin ProcRecs
  <2>1. Preserved
    BY SetPolicyStep, ReconfigureStep DEF PolicyChange
  <2> QED
    BY <2>1, ProcAssumption DEF Preserved, Tracking, TypeOK
<1>1. ASSUME NEW p \in ProcRecs, NEW q \in ProcRecs, q.pgid = p.pgid, q.threads = p.threads
      PROVE  CountsIn(q) = CountsIn(p)
  BY <1>0, <1>1 DEF CountsIn
<1>2. ASSUME NEW i \in Prios, NEW ch \in Chains, SetPolicy(u, i, ch)
      PROVE  \A c \in Cookies : CountsIn(proc'[c]) = CountsIn(proc[c])
  <2> SUFFICES ASSUME NEW c \in Cookies PROVE CountsIn(proc'[c]) = CountsIn(proc[c])
    OBVIOUS
  <2> DEFINE hit == Affected(pdb[u][i], i, u)
  <2>1. proc'[c] = IF c \in hit THEN Refresh(pdb', proc[c], i) ELSE proc[c]
    BY <1>2 DEF SetPolicy
  <2>2. CASE c \in hit
    <3>1. proc[c] \in ProcRecs
      BY <1>0, <2>2 DEF Affected, Tracked
    <3> DEFINE q == Refresh(pdb', proc[c], i)
    <3>2. q \in ProcRecs /\ q.pgid = proc[c].pgid /\ q.threads = proc[c].threads
      BY <1>0, <3>1, RefreshedOne
    <3>3. proc'[c] = q
      BY <2>1, <2>2
    <3> HIDE DEF q
    <3> QED
      BY <1>1, <3>1, <3>2, <3>3
  <2>3. CASE c \notin hit
    BY <2>1, <2>3
  <2> QED
    BY <2>2, <2>3
<1>3. ASSUME NEW lost, Reconfigure(lost)
      PROVE  \A c \in Cookies : CountsIn(proc'[c]) = CountsIn(proc[c])
  <2> SUFFICES ASSUME NEW c \in Cookies PROVE CountsIn(proc'[c]) = CountsIn(proc[c])
    OBVIOUS
  <2>1. proc'[c] = IF proc[c] = NoProc THEN NoProc ELSE RefreshAll(pdb', proc[c])
    BY <1>3 DEF Reconfigure
  <2>2. CASE proc[c] # NoProc
    <3>1. proc[c] \in ProcRecs
      BY <1>0, <2>2
    <3> DEFINE q == RefreshAll(pdb', proc[c])
    <3>2. q \in ProcRecs /\ q.pgid = proc[c].pgid /\ q.threads = proc[c].threads
      BY <1>0, <3>1, RefreshedAll
    <3>3. proc'[c] = q
      BY <2>1, <2>2
    <3> HIDE DEF q
    <3> QED
      BY <1>1, <3>1, <3>2, <3>3
  <2>3. CASE proc[c] = NoProc
    BY <2>1, <2>3
  <2> QED
    BY <2>2, <2>3
<1>4. pgs' = pgs /\ dirs' = dirs
  BY DEF PolicyChange, SetPolicy, Reconfigure, pgVars
<1>5. SameCounts
  BY <1>2, <1>3, AllCountAsBefore DEF PolicyChange
<1> QED
  BY <1>4, <1>5 DEF CountStep

LEMMA CountStepIs ==
    ASSUME Tracking, ~Moves, [Next]_vars
    PROVE  CountStep
<1>1. CASE UNCHANGED procVars /\ (PgNext \/ UNCHANGED pgVars)
  <2>1. \A c \in Cookies : CountsIn(proc'[c]) = CountsIn(proc[c])
    BY <1>1 DEF procVars
  <2> QED
    BY <1>1, <2>1, AllCountAsBefore DEF CountStep, pgVars
<1>2. ASSUME NEW c \in Cookies, ProcEvent(c) PROVE CountStep
  <2>1. CASE Exit(c)
    <3>1. proc \in [Cookies -> ProcRecs \cup {NoProc}] /\ proc[c] # NoProc /\ LoseInstance(proc, c)
      BY <2>1 DEF Exit, Tracking, TypeOK
    <3> QED
      BY <3>1, LoseCounts
  <2> QED
    BY <1>2, <2>1, ForkCounts, ExecCounts, ThreadCounts, ReplaceCounts, PlaygroundProcCounts,
       ContextEventCounts DEF ProcEvent
<1>3. ASSUME NEW u \in Users \cup {Default}, PolicyChange(u) PROVE CountStep
  BY <1>3, PolicyCounts
<1>4. CASE Restart(kpg, Tracked) \/ Restart(0, {})
  <2>1. (\E k : StartPg(k)) /\ proc' = [c \in Cookies |-> NoProc]
    BY <1>4 DEF Restart
  <2>2. \A g \in PgIds : g # NoPg
    BY PgAssumption DEF PgIds, NoPg
  <2>3. \A g \in PgIds : Counted(g)' = {}
    BY <2>1, <2>2 DEF Counted, CountsIn
  <2> QED
    BY <2>1, <2>3 DEF CountStep
<1> QED
  BY <1>1, <1>2, <1>3, <1>4 DEF Next, vars

-----------------------------------------------------------------------------
(* The counters                                                             *)


\* A step that leaves the numbers of h alone.
SameNumbers(h) ==
    /\ h \in DOMAIN pgs' <=> h \in DOMAIN pgs
    /\ h \in DOMAIN pgs => /\ pgs'[h].nrprocs = pgs[h].nrprocs
                           /\ pgs'[h].nrfiles = pgs[h].nrfiles
    /\ h \in DOMAIN dirs' <=> h \in DOMAIN dirs
    /\ h \in DOMAIN dirs => /\ dirs'[h].files = dirs[h].files
                            /\ dirs'[h].named = dirs[h].named
                            /\ dirs'[h].torn = dirs[h].torn

LEMMA SameNumbersExact ==
    ASSUME NEW h, NEW S, SameNumbers(h), ExactAt(h, pgs, dirs, S)
    PROVE  ExactAt(h, pgs', dirs', S)
BY DEF SameNumbers, ExactAt

\* A step that changes the numbers of nobody but g.
LEMMA OneExact ==
    ASSUME Exact, NEW g \in PgIds, \A h \in PgIds \ {g} : SameNumbers(h),
           \A h \in PgIds \ {g} : Counted(h)' = Counted(h),
           ExactAt(g, pgs', dirs', Counted(g)')
    PROVE  Exact'
<1>1. ASSUME NEW h \in PgIds PROVE ExactAt(h, pgs', dirs', Counted(h)')
  <2>1. CASE h = g
    BY <2>1
  <2>2. CASE h # g
    <3>1. ExactAt(h, pgs', dirs', Counted(h))
      BY <2>2, SameNumbersExact DEF Exact
    <3>2. Counted(h)' = Counted(h)
      BY <2>2
    <3> QED
      BY <3>1, <3>2
  <2> QED
    BY <2>1, <2>2
<1> QED
  BY <1>1 DEF Exact

LEMMA NobodyCounts ==
    ASSUME Exact, SameCounts, \A h \in PgIds : SameNumbers(h)
    PROVE  Exact'
<1>1. ASSUME NEW h \in PgIds PROVE ExactAt(h, pgs', dirs', Counted(h)')
  <2>1. ExactAt(h, pgs', dirs', Counted(h))
    BY SameNumbersExact DEF Exact
  <2>2. Counted(h)' = Counted(h)
    BY DEF SameCounts
  <2> QED
    BY <2>1, <2>2
<1> QED
  BY <1>1 DEF Exact

\* What the two ways to change records and directories do.
LEMMA WithDirs ==
    ASSUME NEW g \in PgIds, NEW r, NEW d, pgs' = With(pgs, g, r), dirs' = DirsWith(g, d)
    PROVE  /\ \A h \in PgIds \ {g} : SameNumbers(h)
           /\ g \in DOMAIN pgs' /\ pgs'[g] = r
           /\ g \in DOMAIN dirs' <=> ~NoDir(g)
           /\ g \in DOMAIN dirs' => dirs'[g] = d
<1>1. /\ DOMAIN pgs' = DOMAIN pgs \cup {g} /\ pgs'[g] = r
      /\ \A h \in DOMAIN pgs \ {g} : pgs'[h] = pgs[h]
  BY DEF With
<1>2. CASE NoDir(g)
  <2>1. dirs' = dirs /\ g \notin DOMAIN dirs
    BY <1>2 DEF DirsWith, NoDir
  <2> QED
    BY <1>1, <1>2, <2>1 DEF SameNumbers
<1>3. CASE ~NoDir(g)
  <2>1. dirs' = With(dirs, g, d)
    BY <1>3 DEF DirsWith
  <2>2. /\ DOMAIN dirs' = DOMAIN dirs \cup {g} /\ dirs'[g] = d
        /\ \A h \in DOMAIN dirs \ {g} : dirs'[h] = dirs[h]
    BY <2>1 DEF With
  <2> QED
    BY <1>1, <1>3, <2>2 DEF SameNumbers
<1> QED
  BY <1>2, <1>3

LEMMA PutIs ==
    ASSUME NEW g \in PgIds, NEW r, NEW d, Put(g, r, d)
    PROVE  /\ \A h \in PgIds \ {g} : SameNumbers(h)
           /\ IF Dead(g, r) THEN g \notin DOMAIN pgs' /\ g \notin DOMAIN dirs'
              ELSE /\ g \in DOMAIN pgs' /\ pgs'[g] = r
                   /\ g \in DOMAIN dirs' <=> ~NoDir(g)
                   /\ g \in DOMAIN dirs' => dirs'[g] = d
<1>1. CASE Dead(g, r)
  <2>1. pgs' = Without(pgs, g) /\ dirs' = Without(dirs, g)
    BY <1>1 DEF Put
  <2>2. /\ DOMAIN pgs' = DOMAIN pgs \ {g} /\ \A h \in DOMAIN pgs \ {g} : pgs'[h] = pgs[h]
        /\ DOMAIN dirs' = DOMAIN dirs \ {g} /\ \A h \in DOMAIN dirs \ {g} : dirs'[h] = dirs[h]
    BY <2>1 DEF Without
  <2> QED
    BY <1>1, <2>2 DEF SameNumbers
<1>2. CASE ~Dead(g, r)
  <2>1. pgs' = With(pgs, g, r) /\ dirs' = DirsWith(g, d)
    BY <1>2 DEF Put
  <2> QED
    BY <1>2, <2>1, WithDirs
<1> QED
  BY <1>1, <1>2

\* Where a playground is created, it was empty.
LEMMA CreatedIs ==
    ASSUME PInv, NEW g \in PgIds, NEW S, ExactAt(g, pgs, dirs, S)
    PROVE  /\ Created(g) \in PgRecs /\ Created(g).nrprocs = Cardinality(S) /\ IsFiniteSet(S)
           /\ CreatedDir(g) \in DirRecs /\ IsFiniteSet(CreatedDir(g).files)
           /\ NoDir(g) => Created(g).nrfiles = 0
           /\ ~NoDir(g) /\ ~CreatedDir(g).torn =>
                /\ CreatedDir(g).named = CreatedDir(g).files
                /\ Created(g).nrfiles = Cardinality(CreatedDir(g).files)
<1>1. CASE g \in DOMAIN pgs
  <2>1. Created(g) = pgs[g] /\ pgs[g] \in PgRecs
    BY <1>1 DEF Created, Known, PInv, PgTypeOK
  <2>2. CASE g \in DOMAIN dirs
    <3>1. CreatedDir(g) = dirs[g] /\ ~NoDir(g) /\ dirs[g] \in DirRecs
      BY <2>2 DEF CreatedDir, NoDir, PInv, PgTypeOK
    <3> QED
      BY <1>1, <2>1, <2>2, <3>1 DEF ExactAt
  <2>3. CASE g \notin DOMAIN dirs
    <3>1. CreatedDir(g) = EmptyDir /\ NoDir(g)
      BY <1>1, <2>3 DEF CreatedDir, NoDir, Known
    <3>2. EmptyDir \in DirRecs /\ IsFiniteSet(EmptyDir.files)
      BY FS_EmptySet DEF EmptyDir, DirRecs
    <3> QED
      BY <1>1, <2>1, <2>3, <3>1, <3>2 DEF ExactAt
  <2> QED
    BY <2>2, <2>3
<1>2. CASE g \notin DOMAIN pgs
  <2>1. /\ Created(g) = EmptyPg /\ CreatedDir(g) = EmptyDir /\ ~NoDir(g) /\ S = {}
    BY <1>2 DEF Created, CreatedDir, NoDir, Known, ExactAt
  <2>2. EmptyPg \in PgRecs /\ EmptyPg.nrprocs = 0 /\ EmptyPg.nrfiles = 0
    BY DEF EmptyPg, PgRecs
  <2>3. EmptyDir \in DirRecs /\ EmptyDir.named = {} /\ EmptyDir.files = {}
    BY DEF EmptyDir, DirRecs
  <2> QED
    BY <2>1, <2>2, <2>3, FS_EmptySet
<1> QED
  BY <1>1, <1>2

\* pe_playground_initproc does not touch the entries of the directory.
LEMMA OwnedDir ==
    ASSUME PInv, NEW g \in PgIds, NEW r, NEW c, NEW u \in Users, Own(g, r, c, u),
           CreatedDir(g) \in DirRecs
    PROVE  \E d : /\ dirs' = DirsWith(g, d) /\ d.files = CreatedDir(g).files
                  /\ d.named = CreatedDir(g).named /\ d.torn = CreatedDir(g).torn
<1> DEFINE d == [CreatedDir(g) EXCEPT !.uid = u]
<1>1. /\ d.files = CreatedDir(g).files /\ d.named = CreatedDir(g).named
      /\ d.torn = CreatedDir(g).torn
  BY DEF DirRecs
<1>2. dirs' = DirsWith(g, d) \/ dirs' = DirsWith(g, CreatedDir(g))
  BY DEF Own
<1> HIDE DEF d
<1> QED
  BY <1>1, <1>2

LEMMA AddExact ==
    ASSUME PInv, Exact, NEW g \in PgIds, NEW c \in Cookies, NEW u \in Users,
           Add(g, c, u), Joins(g, c)
    PROVE  Exact'
<1> DEFINE S == Counted(g)
           r == Created(g)
           q == InitProc(r, c, u)
           n == [q EXCEPT !.nrprocs = q.nrprocs + 1]
<1>1. ExactAt(g, pgs, dirs, S)
  BY DEF Exact
<1>2. /\ c \notin S /\ Counted(g)' = S \cup {c}
      /\ \A h \in PgIds \ {g} : Counted(h)' = Counted(h)
  BY DEF Joins
<1>3. pgs' = With(pgs, g, n) /\ Own(g, r, c, u)
  BY DEF Add
<1> HIDE DEF S
<1>4. /\ r \in PgRecs /\ r.nrprocs = Cardinality(S) /\ IsFiniteSet(S)
      /\ CreatedDir(g) \in DirRecs /\ IsFiniteSet(CreatedDir(g).files)
      /\ NoDir(g) => r.nrfiles = 0
      /\ ~NoDir(g) /\ ~CreatedDir(g).torn =>
           /\ CreatedDir(g).named = CreatedDir(g).files
           /\ r.nrfiles = Cardinality(CreatedDir(g).files)
  BY <1>1, CreatedIs
<1>5. PICK d : /\ dirs' = DirsWith(g, d) /\ d.files = CreatedDir(g).files
               /\ d.named = CreatedDir(g).named /\ d.torn = CreatedDir(g).torn
  BY <1>3, <1>4, OwnedDir
<1> HIDE DEF r
<1>6. q \in PgRecs /\ q.nrprocs = r.nrprocs /\ q.nrfiles = r.nrfiles
  BY <1>4, InitProcIs
<1> HIDE DEF q
<1>7. n.nrprocs = q.nrprocs + 1 /\ n.nrfiles = q.nrfiles
  BY <1>6 DEF PgRecs
<1> HIDE DEF n
<1>8. /\ \A h \in PgIds \ {g} : SameNumbers(h)
      /\ g \in DOMAIN pgs' /\ pgs'[g] = n
      /\ g \in DOMAIN dirs' <=> ~NoDir(g)
      /\ g \in DOMAIN dirs' => dirs'[g] = d
  BY <1>3, <1>5, WithDirs
<1>9. IsFiniteSet(S \cup {c}) /\ Cardinality(S \cup {c}) = Cardinality(S) + 1
  BY <1>2, <1>4, FS_AddElement
<1>10. ExactAt(g, pgs', dirs', S \cup {c})
  BY <1>4, <1>5, <1>6, <1>7, <1>8, <1>9 DEF ExactAt
<1> QED
  BY <1>2, <1>8, <1>10, OneExact

LEMMA DeleteProcExact ==
    ASSUME PInv, Exact, NEW g \in PgIds, NEW c, DeleteProc(g), Leaves(g, c)
    PROVE  Exact'
<1> DEFINE S == Counted(g)
           n == [pgs[g] EXCEPT !.nrprocs = pgs[g].nrprocs - 1]
<1>1. ExactAt(g, pgs, dirs, S)
  BY DEF Exact
<1>2. /\ c \in S /\ Counted(g)' = S \ {c}
      /\ \A h \in PgIds \ {g} : Counted(h)' = Counted(h)
  BY DEF Leaves
<1> HIDE DEF S
<1>3. IsFiniteSet(S) /\ Cardinality(S) \in Nat /\ Cardinality(S) # 0
  BY <1>1, <1>2, FS_CardinalityType, FS_EmptySet DEF ExactAt
<1>4. g \in DOMAIN pgs /\ pgs[g].nrprocs = Cardinality(S) /\ pgs[g].nrprocs > 0
  BY <1>1, <1>2, <1>3 DEF ExactAt
<1>5. Put(g, n, CreatedDir(g))
  BY <1>4 DEF DeleteProc, Known
<1>6. n.nrprocs = Cardinality(S) - 1 /\ n.nrfiles = pgs[g].nrfiles
  BY <1>4 DEF PInv, PgTypeOK, PgRecs
<1> HIDE DEF n
<1>7. /\ \A h \in PgIds \ {g} : SameNumbers(h)
      /\ IF Dead(g, n) THEN g \notin DOMAIN pgs' /\ g \notin DOMAIN dirs'
         ELSE /\ g \in DOMAIN pgs' /\ pgs'[g] = n
              /\ g \in DOMAIN dirs' <=> ~NoDir(g)
              /\ g \in DOMAIN dirs' => dirs'[g] = CreatedDir(g)
  BY <1>5, PutIs
<1>8. IsFiniteSet(S \ {c}) /\ Cardinality(S \ {c}) = Cardinality(S) - 1
  BY <1>2, <1>3, FS_RemoveElement
<1>9. ExactAt(g, pgs', dirs', S \ {c})
  <2>1. CASE Dead(g, n)
    <3>1. S \ {c} = {}
      BY <1>6, <1>8, <2>1, FS_EmptySet DEF Dead
    <3> QED
      BY <1>7, <1>8, <2>1, <3>1 DEF ExactAt
  <2>2. CASE ~Dead(g, n)
    <3>1. (~NoDir(g) <=> g \in DOMAIN dirs) /\ (g \in DOMAIN dirs => CreatedDir(g) = dirs[g])
      BY <1>4 DEF NoDir, Known, CreatedDir
    <3>2. /\ g \in DOMAIN pgs' /\ pgs'[g] = n /\ (g \in DOMAIN dirs' <=> g \in DOMAIN dirs)
          /\ g \in DOMAIN dirs' => dirs'[g] = dirs[g]
      BY <1>7, <2>2, <3>1
    <3> QED
      BY <1>1, <1>4, <1>6, <1>8, <3>2 DEF ExactAt
  <2> QED
    BY <2>1, <2>2
<1> QED
  BY <1>2, <1>7, <1>9, OneExact

LEMMA PostExecExact ==
    ASSUME PInv, Exact, SameCounts, NEW g \in PgIds, NEW c \in Cookies, NEW u \in Users,
           PostExec(g, c, u)
    PROVE  Exact'
<1>1. CASE ~Known(g)
  <2>1. pgs' = pgs /\ dirs' = dirs
    BY <1>1 DEF PostExec
  <2> QED
    BY <2>1, NobodyCounts DEF SameNumbers
<1>2. CASE Known(g)
  <2> DEFINE r == pgs[g]
             q == InitProc(r, c, u)
             n == [q EXCEPT !.didExec = q.didExec \/ IsFounder(r, c)]
  <2>1. pgs' = [pgs EXCEPT ![g] = n] /\ Own(g, r, c, u)
    BY <1>2 DEF PostExec
  <2>2. r \in PgRecs /\ pgs \in [DOMAIN pgs -> PgRecs] /\ g \in DOMAIN pgs
    BY <1>2 DEF PInv, PgTypeOK, Known
  <2> HIDE DEF r
  <2>3. q \in PgRecs /\ q.nrprocs = r.nrprocs /\ q.nrfiles = r.nrfiles
    BY <2>2, InitProcIs
  <2> HIDE DEF q
  <2>4. n.nrprocs = r.nrprocs /\ n.nrfiles = r.nrfiles
    BY <2>3 DEF PgRecs
  <2> HIDE DEF n
  <2>5. pgs' = With(pgs, g, n)
    BY <2>1, <2>2 DEF With
  <2>6. CreatedDir(g) \in DirRecs
    BY CreatedIs DEF Exact
  <2>7. PICK d : /\ dirs' = DirsWith(g, d) /\ d.files = CreatedDir(g).files
                 /\ d.named = CreatedDir(g).named /\ d.torn = CreatedDir(g).torn
    BY <2>1, <2>6, OwnedDir
  <2>8. /\ \A h \in PgIds \ {g} : SameNumbers(h)
        /\ g \in DOMAIN pgs' /\ pgs'[g] = n
        /\ g \in DOMAIN dirs' <=> ~NoDir(g)
        /\ g \in DOMAIN dirs' => dirs'[g] = d
    BY <2>5, <2>7, WithDirs
  <2>9. (~NoDir(g) <=> g \in DOMAIN dirs) /\ (g \in DOMAIN dirs => CreatedDir(g) = dirs[g])
    BY <1>2 DEF NoDir, CreatedDir
  <2>10. SameNumbers(g)
    BY <2>2, <2>4, <2>7, <2>8, <2>9 DEF SameNumbers, r
  <2> QED
    BY <2>8, <2>10, NobodyCounts
<1> QED
  BY <1>1, <1>2

LEMMA RenameExact ==
    ASSUME PInv, Exact, SameCounts, NEW g \in PgIds, Rename(g)
    PROVE  Exact'
<1> DEFINE S == Counted(g)
<1>1. ExactAt(g, pgs, dirs, S)
  BY DEF Exact
<1>2. Counted(g)' = S /\ \A h \in PgIds \ {g} : Counted(h)' = Counted(h)
  BY DEF SameCounts
<1> HIDE DEF S
<1>3. pgs' = With(pgs, g, Created(g)) /\ dirs' = dirs
  BY DEF Rename
<1>4. /\ DOMAIN pgs' = DOMAIN pgs \cup {g} /\ pgs'[g] = Created(g)
      /\ \A h \in DOMAIN pgs \ {g} : pgs'[h] = pgs[h]
  BY <1>3 DEF With
<1>5. \A h \in PgIds \ {g} : SameNumbers(h)
  BY <1>3, <1>4 DEF SameNumbers
<1>6. ExactAt(g, pgs', dirs', S)
  <2>1. Created(g).nrprocs = Cardinality(S)
    BY <1>1, CreatedIs
  <2>2. CASE g \in DOMAIN pgs
    <3>1. Created(g) = pgs[g]
      BY <2>2 DEF Created, Known
    <3> QED
      BY <1>1, <1>3, <1>4, <2>2, <3>1 DEF ExactAt
  <2>3. CASE g \notin DOMAIN pgs
    <3>1. Created(g).nrfiles = 0 /\ g \notin DOMAIN dirs
      BY <1>1, <2>3 DEF Created, Known, EmptyPg, ExactAt
    <3> QED
      BY <1>1, <1>3, <1>4, <2>1, <3>1 DEF ExactAt
  <2> QED
    BY <2>2, <2>3
<1> QED
  BY <1>2, <1>5, <1>6, OneExact

\* pe_playground_file_instantiate: a new entry is counted once its path is
\* written, an old one is not counted again.
LEMMA InstantiateExact ==
    ASSUME PInv, Exact, SameCounts, NEW g \in PgIds, NEW f \in Files,
           NEW scan \in BOOLEAN, Instantiate(g, f, scan)
    PROVE  Exact'
<1> DEFINE S == Counted(g)
           r == Created(g)
           v == IF scan THEN f ELSE r.scan
           d == CreatedDir(g)
<1>1. ExactAt(g, pgs, dirs, S)
  BY DEF Exact
<1>2. Counted(g)' = S /\ \A h \in PgIds \ {g} : Counted(h)' = Counted(h)
  BY DEF SameCounts
<1> HIDE DEF S
<1>3. /\ r \in PgRecs /\ r.nrprocs = Cardinality(S) /\ IsFiniteSet(S)
      /\ d \in DirRecs /\ IsFiniteSet(d.files)
      /\ NoDir(g) => r.nrfiles = 0
      /\ ~NoDir(g) /\ ~d.torn => d.named = d.files /\ r.nrfiles = Cardinality(d.files)
  BY <1>1, CreatedIs
<1>4. PICK failed \in BOOLEAN :
        /\ NoDir(g) => failed
        /\ Entered(g, f, failed, IF failed \/ f \in d.named THEN 0 ELSE 1, scan)
  <2>1. /\ NoDir(g) \in BOOLEAN /\ (NoDir(g) \/ IoErrors) \in BOOLEAN
        /\ NoDir(g) => NoDir(g) \/ IoErrors
    BY DEF NoDir
  <2> QED
    BY <2>1 DEF Instantiate
<1>5. \E n, e : /\ pgs' = With(pgs, g, n) /\ dirs' = DirsWith(g, e)
                /\ n.nrprocs = r.nrprocs /\ e.files = d.files \cup {f}
                /\ NoDir(g) => n.nrfiles = r.nrfiles
                /\ ~NoDir(g) /\ ~e.torn =>
                     /\ ~d.torn /\ e.named = d.files \cup {f}
                     /\ n.nrfiles = r.nrfiles + (IF f \in d.files THEN 0 ELSE 1)
  <2> DEFINE w == r.nrfiles + (IF failed \/ f \in d.named THEN 0 ELSE 1)
             n == [r EXCEPT !.nrfiles = w, !.scan = v]
             x == d.files \cup {f}
             y == IF failed THEN d.named ELSE d.named \cup {f}
             z == d.torn \/ (failed /\ f \notin d.named)
             e == [d EXCEPT !.files = x, !.named = y, !.torn = z]
  <2>1. pgs' = With(pgs, g, n) /\ dirs' = DirsWith(g, e)
    BY <1>4 DEF Entered
  <2>2. r.nrfiles \in Int
    BY <1>3 DEF PgRecs
  <2>3. /\ x = d.files \cup {f}
        /\ NoDir(g) => w = r.nrfiles
        /\ ~NoDir(g) /\ ~z => /\ ~d.torn /\ y = d.files \cup {f}
                              /\ w = r.nrfiles + (IF f \in d.files THEN 0 ELSE 1)
    BY <1>3, <1>4, <2>2
  <2> HIDE DEF w, v, x, y, z, r, d
  <2>4. n.nrprocs = r.nrprocs /\ n.nrfiles = w
    BY <1>3 DEF PgRecs
  <2>5. e.files = x /\ e.named = y /\ e.torn = z
    BY <1>3 DEF DirRecs
  <2> HIDE DEF n, e
  <2> QED
    BY <2>1, <2>3, <2>4, <2>5
<1> HIDE DEF r, d
<1>6. PICK n, e : /\ pgs' = With(pgs, g, n) /\ dirs' = DirsWith(g, e)
                  /\ n.nrprocs = r.nrprocs /\ e.files = d.files \cup {f}
                  /\ NoDir(g) => n.nrfiles = r.nrfiles
                  /\ ~NoDir(g) /\ ~e.torn =>
                       /\ ~d.torn /\ e.named = d.files \cup {f}
                       /\ n.nrfiles = r.nrfiles + (IF f \in d.files THEN 0 ELSE 1)
  BY <1>5
<1>7. /\ \A h \in PgIds \ {g} : SameNumbers(h)
      /\ g \in DOMAIN pgs' /\ pgs'[g] = n
      /\ g \in DOMAIN dirs' <=> ~NoDir(g)
      /\ g \in DOMAIN dirs' => dirs'[g] = e
  BY <1>6, WithDirs
<1>8. /\ IsFiniteSet(d.files \cup {f}) /\ Cardinality(d.files) \in Nat
      /\ Cardinality(d.files \cup {f}) =
           Cardinality(d.files) + (IF f \in d.files THEN 0 ELSE 1)
  BY <1>3, FS_AddElement, FS_CardinalityType
<1>9. ExactAt(g, pgs', dirs', S)
  <2>1. CASE NoDir(g)
    BY <1>3, <1>6, <1>7, <2>1 DEF ExactAt
  <2>2. CASE ~NoDir(g)
    <3>1. ~e.torn => n.nrfiles = Cardinality(d.files \cup {f})
      BY <1>3, <1>6, <1>8, <2>2
    <3> QED
      BY <1>3, <1>6, <1>7, <1>8, <2>2, <3>1 DEF ExactAt
  <2> QED
    BY <2>1, <2>2
<1> QED
  BY <1>2, <1>7, <1>9, OneExact

\* pe_playground_file_delete: only an entry that was counted is taken off.
LEMMA DeleteEntryExact ==
    ASSUME PInv, Exact, SameCounts, NEW g \in PgIds, NEW f \in Files, DeleteEntry(g, f)
    PROVE  Exact'
<1>1. CASE pgs' = pgs /\ dirs' = dirs
  BY <1>1, NobodyCounts DEF SameNumbers
<1>2. CASE Known(g) /\ f \in CreatedDir(g).files
  <2> DEFINE S == Counted(g)
             D == dirs[g].files
             n == [pgs[g] EXCEPT !.nrfiles = pgs[g].nrfiles - 1]
             e == [dirs[g] EXCEPT !.files = dirs[g].files \ {f}, !.named = dirs[g].named \ {f}]
  <2>1. ExactAt(g, pgs, dirs, S)
    BY DEF Exact
  <2>2. Counted(g)' = S /\ \A h \in PgIds \ {g} : Counted(h)' = Counted(h)
    BY DEF SameCounts
  <2> HIDE DEF S
  <2>3. Put(g, n, e)
    BY <1>2 DEF DeleteEntry
  <2>4. g \in DOMAIN dirs /\ g \in DOMAIN pgs /\ f \in D
    BY <1>2 DEF CreatedDir, EmptyDir, Known
  <2>5. pgs[g] \in PgRecs /\ dirs[g] \in DirRecs
    BY <2>4 DEF PInv, PgTypeOK
  <2>6. /\ pgs[g].nrprocs = Cardinality(S) /\ IsFiniteSet(S) /\ IsFiniteSet(D)
        /\ ~dirs[g].torn => dirs[g].named = D /\ pgs[g].nrfiles = Cardinality(D)
    BY <2>1, <2>4 DEF ExactAt
  <2>7. /\ n.nrprocs = Cardinality(S)
        /\ ~dirs[g].torn => n.nrfiles = Cardinality(D) - 1
    BY <2>5, <2>6 DEF PgRecs
  <2>8. /\ e.files = D \ {f} /\ e.torn = dirs[g].torn
        /\ ~dirs[g].torn => e.named = D \ {f}
    BY <2>5, <2>6 DEF DirRecs
  <2> HIDE DEF n, e, D
  <2>9. /\ \A h \in PgIds \ {g} : SameNumbers(h)
        /\ IF Dead(g, n) THEN g \notin DOMAIN pgs' /\ g \notin DOMAIN dirs'
           ELSE /\ g \in DOMAIN pgs' /\ pgs'[g] = n
                /\ g \in DOMAIN dirs' <=> ~NoDir(g)
                /\ g \in DOMAIN dirs' => dirs'[g] = e
    BY <2>3, PutIs
  <2>10. IsFiniteSet(D \ {f}) /\ Cardinality(D \ {f}) = Cardinality(D) - 1
    BY <2>4, <2>6, FS_RemoveElement
  <2>11. ExactAt(g, pgs', dirs', S)
    <3>1. CASE Dead(g, n)
      <4>1. S = {}
        BY <2>6, <2>7, <3>1, FS_EmptySet DEF Dead
      <4> QED
        BY <2>6, <2>9, <3>1, <4>1 DEF ExactAt
    <3>2. CASE ~Dead(g, n)
      <4>1. ~NoDir(g)
        BY <2>4 DEF NoDir
      <4> QED
        BY <2>6, <2>7, <2>8, <2>9, <2>10, <3>2, <4>1 DEF ExactAt
    <3> QED
      BY <3>1, <3>2
  <2> QED
    BY <2>2, <2>9, <2>11, OneExact
<1> QED
  BY <1>1, <1>2 DEF DeleteEntry

\* A commit request and its answer leave the counters alone.
LEMMA DispatchCommitExact ==
    ASSUME PInv, Exact, SameCounts, NEW t, NEW g \in PgIds, NEW u, NEW p, NEW s,
           DispatchCommit(t, g, u, p, s)
    PROVE  Exact'
<1>1. CASE CommitAllowed(g, u)
  <2> DEFINE n == [pgs[g] EXCEPT !.scantok = t]
  <2>1. pgs' = [pgs EXCEPT ![g] = n] /\ dirs' = dirs /\ g \in DOMAIN pgs
    BY <1>1 DEF DispatchCommit, CommitAllowed, Known
  <2>2. n.nrprocs = pgs[g].nrprocs /\ n.nrfiles = pgs[g].nrfiles
    BY <2>1 DEF PInv, PgTypeOK, PgRecs
  <2> HIDE DEF n
  <2>3. DOMAIN pgs' = DOMAIN pgs /\ \A h \in DOMAIN pgs : pgs'[h] = IF h = g THEN n ELSE pgs[h]
    BY <2>1
  <2> QED
    BY <2>1, <2>2, <2>3, NobodyCounts DEF SameNumbers
<1>2. CASE ~CommitAllowed(g, u)
  <2>1. pgs' = pgs /\ dirs' = dirs
    BY <1>2 DEF DispatchCommit
  <2> QED
    BY <2>1, NobodyCounts DEF SameNumbers
<1> QED
  BY <1>1, <1>2

LEMMA CommitReplyExact ==
    ASSUME PInv, Exact, SameCounts, CommitReply
    PROVE  Exact'
<1> DEFINE t == Head(pgm2p)
           Cleared(g) == IF pgs[g].scantok = t
                           THEN [pgs[g] EXCEPT !.scan = NoFile, !.scantok = 0] ELSE pgs[g]
<1>0. dirs' = dirs
  <2>1. UNCHANGED <<dirs, lastId, kpg, owners, restarts, label, pgp2m, scanners>>
    BY Zenon DEF CommitReply
  <2> QED
    BY <2>1
<1>1. pgs' = [g \in DOMAIN pgs |-> Cleared(g)]
  BY Zenon DEF CommitReply
<1>2. ASSUME NEW g \in DOMAIN pgs
      PROVE  Cleared(g).nrprocs = pgs[g].nrprocs /\ Cleared(g).nrfiles = pgs[g].nrfiles
  <2>1. pgs[g] \in PgRecs
    BY DEF PInv, PgTypeOK
  <2> HIDE DEF t
  <2> QED
    BY <2>1 DEF PgRecs
<1> HIDE DEF Cleared, t
<1> QED
  BY <1>0, <1>1, <1>2, NobodyCounts DEF SameNumbers

\* pe_playground_read counts the entries again; nobody runs yet.
LEMMA StartExact ==
    ASSUME PInv, Exact, NEW k, StartPg(k), \A g \in PgIds : Counted(g)' = {}
    PROVE  Exact'
<1> DEFINE kept == {g \in DOMAIN dirs : dirs[g].files # {}}
<1>1. pgs' = [g \in kept |-> ReadPg(g)] /\ dirs' = [g \in kept |-> dirs[g]]
  BY DEF StartPg
<1>2. \A g \in DOMAIN dirs : /\ ReadPg(g).nrprocs = 0
                             /\ ReadPg(g).nrfiles = Cardinality(dirs[g].files)
  BY DEF ReadPg, EmptyPg
<1>3. \A g \in PgIds \cap DOMAIN dirs :
        IsFiniteSet(dirs[g].files) /\ (~dirs[g].torn => dirs[g].named = dirs[g].files)
  BY DEF Exact, ExactAt
<1>4. kept \subseteq DOMAIN dirs
  OBVIOUS
<1> HIDE DEF kept
<1>5. ASSUME NEW g \in PgIds PROVE ExactAt(g, pgs', dirs', {})
  BY <1>1, <1>2, <1>3, <1>4, FS_EmptySet DEF ExactAt
<1> QED
  BY <1>5 DEF Exact

LEMMA ExactInit ==
    ASSUME Init
    PROVE  Exact
<1>1. pgs = <<>> /\ dirs = <<>> /\ proc = [c \in Cookies |-> NoProc]
  BY DEF Init, PgInit
<1>2. \A g \in PgIds : Counted(g) = {} /\ g \notin DOMAIN pgs /\ g \notin DOMAIN dirs
  <2>1. \A g \in PgIds : g # NoPg
    BY PgAssumption DEF PgIds, NoPg
  <2> QED
    BY <1>1, <2>1 DEF Counted, CountsIn
<1> QED
  BY <1>2, FS_EmptySet DEF Exact, ExactAt

LEMMA CountStepExact ==
    ASSUME PInv, Exact, CountStep
    PROVE  Exact'
<1>1. CASE SameCounts /\ pgs' = pgs /\ dirs' = dirs
  BY <1>1, NobodyCounts DEF SameNumbers
<1>2. CASE SameCounts /\ PgNext
  <2>1. ASSUME NEW g \in PgIds, NEW f \in Files,
               \/ FileInstantiate(g, f) \/ FileDelete(g, f)
               \/ \E u \in Users : FileScan(g, f, u) \/ Unlink(g, f, u)
        PROVE  Exact'
    <3>1. CASE FileInstantiate(g, f)
      BY <1>2, <3>1, InstantiateExact DEF FileInstantiate
    <3>2. CASE FileDelete(g, f)
      BY <1>2, <3>2, DeleteEntryExact DEF FileDelete
    <3>3. ASSUME NEW u \in Users, FileScan(g, f, u) PROVE Exact'
      <4> DEFINE scan == u \in {0, Created(g).uid} \ {NoUid}
      <4>1. Instantiate(g, f, scan) /\ scan \in BOOLEAN
        BY <3>3 DEF FileScan
      <4> HIDE DEF scan
      <4> QED
        BY <1>2, <4>1, InstantiateExact
    <3>4. ASSUME NEW u \in Users, Unlink(g, f, u) PROVE Exact'
      BY <1>1, <1>2, <3>4, DeleteEntryExact DEF Unlink
    <3> QED
      BY <2>1, <3>1, <3>2, <3>3, <3>4
  <2>2. StartScan \/ (\E s, v : ScannerExit(s, v)) => pgs' = pgs /\ dirs' = dirs
    BY DEF StartScan, ScannerExit
  <2> QED
    BY <1>1, <1>2, <2>1, <2>2, DispatchCommitExact, CommitReplyExact DEF PgNext
<1> QED
  BY <1>1, <1>2, PostExecExact, RenameExact, DeleteProcExact, AddExact, StartExact DEF CountStep

\* pe_playground_add, pe_playground_delete, pe_playground_file_instantiate,
\* pe_playground_file_delete and pe_playground_read together: for any processes,
\* files and restarts a playground counts the processes that pe_proc.c tracks in
\* it and, whether or not writes fail, the entries of its directory, unless one
\* was left there without a path.  Assumed is what the code needs and the kernel
\* decides: that no process goes from one playground into another.
THEOREM CountersAlwaysExact ==
    ASSUME ~Moves
    PROVE  Safe => []CountersExact
<1>1. Init => Exact
  BY ExactInit
<1>2. ASSUME Exact, PInv, Tracking, [Next]_vars PROVE Exact'
  <2>1. CountStep
    BY <1>2, CountStepIs
  <2> QED
    BY <1>2, <2>1, CountStepExact
<1>3. Exact /\ Tracking => CountersExact
  <2> SUFFICES ASSUME Exact, Tracking, NEW g \in PgIds
               PROVE  IF Known(g)
                        THEN /\ pgs[g].nrprocs = Cardinality(Running(g))
                             /\ NoDir(g) => pgs[g].nrfiles = 0
                             /\ g \in DOMAIN dirs /\ ~dirs[g].torn =>
                                  pgs[g].nrfiles = Cardinality(dirs[g].files)
                        ELSE Running(g) = {}
    BY DEF CountersExact
  <2>1. ExactAt(g, pgs, dirs, Running(g))
    BY CountedIsRunning DEF Exact
  <2> QED
    BY <2>1 DEF ExactAt, Known, NoDir
<1> QED
  BY <1>1, <1>2, <1>3, PlaygroundInvariant, TrackingInvariant, PTL DEF Safe
=============================================================================
