----------------------------- MODULE Processes -----------------------------
(* Process tracking and contexts of the policy engine: pe_proc.c,          *)
(* pe_context.c, pe_ipc.c, the policy database of pe_user.c and the        *)
(* handlers of pe.c that feed them.  Every action is the handling of one   *)
(* kernel event or of one policy that was loaded.                          *)
(*                                                                         *)
(* A tracked process has, for every priority, a context: the ruleset it is *)
(* confined by and the rule block of that ruleset that its program         *)
(* selected.  While it serves a connection it may borrow the context of    *)
(* its peer and keeps its own one aside (saved).  Rulesets are freed when  *)
(* they are replaced, so no process may go on using one.                   *)
EXTENDS Playground

CONSTANTS
    Prios,        \* priorities of a policy (PE_PRIO_ADMIN, PE_PRIO_USER1)
    Idents,       \* programs: records [path, csum]
    NoIdent,      \* the ident of a process that nobody saw exec
    NoCsum,       \* an ident or a file without a checksum
    Registered,   \* [path -> [uid -> checksum]], the checksum store
    Chains,       \* rule chains a policy may have
    Conns,        \* connections of unix domain sockets
    NoRuleset, NoRule, NoCtx, NoConn,
    UidChanges,   \* events before which a process may have changed its uid
    MaxLoads,     \* bound: rulesets that are ever loaded
    MaxThreads, MaxInstances

\* The user whose policies apply to everyone who has none.
Default == -1

\* struct apn_ruleset, struct pe_context and struct pe_proc.
RulesetRecs == [id : Nat, uid : Users \cup {Default}, prio : Prios, chain : Chains]
Blocks == UNION {{ch[n] : n \in DOMAIN ch} : ch \in Chains}
CtxRecs == [ruleset : RulesetRecs \cup {NoRuleset}, ident : Idents \cup {NoIdent},
            rule : Blocks \cup {NoRule}]
Ctxs == CtxRecs \cup {NoCtx}
ProcRecs == [uid : Users, ident : Idents \cup {NoIdent}, pgid : PgIds \cup {NoPg},
             threads : Nat, instances : Nat,
             ctx : [Prios -> Ctxs], saved : [Prios -> Ctxs],
             borrow : [Prios -> Conns \cup {NoConn}]]

ASSUME ProcAssumption ==
    /\ Users \subseteq Nat /\ UidChanges \subseteq {"fork", "exec", "open"}
    /\ \A ch \in Chains : Len(ch) \in Nat /\ DOMAIN ch = 1 .. Len(ch)
    /\ NoProc \notin ProcRecs /\ NoCtx \notin CtxRecs
    /\ MaxLoads \in Nat /\ MaxThreads \in Nat /\ MaxInstances \in Nat

VARIABLES
    pdb,          \* the policy database: [uid -> [prio -> ruleset]]
    loads,        \* rulesets loaded so far; gives every ruleset its identity
    proc,         \* tracker: [cookie -> tracked process or NoProc]
    born,         \* cookies the kernel has used: it never reuses one
    conns         \* kernel: [conn -> ends of the connection still open]

procVars == <<pdb, loads, proc, born, conns>>

Tracked == {c \in Cookies : proc[c] # NoProc}

\* The uid that the kernel reports with an event of c.
SameUid(event, c, uid) ==
    proc[c] # NoProc /\ event \notin UidChanges => uid = proc[c].uid

-----------------------------------------------------------------------------
(* Searching a ruleset                                                      *)

\* pe_context_app_match and pe_context_subject_match: by path, or by the
\* checksum that the owner of the rule registered for that path.
AppMatch(app, ident, uid) ==
    IF app.owner = "path"
      THEN ident # NoIdent /\ app.path = ident.path
      ELSE LET u == IF app.owner = "self" THEN uid ELSE app.owner IN
           /\ u # Default
           /\ ident # NoIdent
           /\ ident.csum # NoCsum
           /\ Registered[app.path][u] = ident.csum

\* A list of applications; the empty list is "any".
AnyMatch(apps, ident, uid) ==
    apps = {} \/ \E app \in apps : AppMatch(app, ident, uid)

\* pe_context_search_chain: the first rule block that matches.
SearchChain(chain, ident, uid, ispg) ==
    LET Hits == {i \in DOMAIN chain :
                    /\ ispg \/ ~chain[i].pgonly
                    /\ AnyMatch(chain[i].apps, ident, uid)} IN
    IF Hits = {} THEN NoRule
    ELSE chain[CHOOSE i \in Hits : \A j \in Hits : i <= j]

\* pe_context_search.  The alf, sandbox and context chains of a ruleset are
\* searched alike; the model keeps the one that decides about contexts.
Search(rs, ident, uid, ispg) ==
    [ruleset |-> rs, ident |-> ident,
     rule |-> SearchChain(rs.chain, ident, uid, ispg)]

\* pe_user_get_ruleset: the user's own policy or the default one.
GetRuleset(db, uid, prio) ==
    IF uid \in DOMAIN db /\ db[uid][prio] # NoRuleset
      THEN db[uid][prio] ELSE db[Default][prio]

\* pe_context_norules, pe_savedctx_norules: a context without any rule.
NoRules(ctx) ==
    IF ctx = NoCtx THEN NoCtx
    ELSE [ruleset |-> NoRuleset, ident |-> ctx.ident, rule |-> NoRule]

\* Mutant: any rule that names the program allows the switch.
DecideAnyType(p, type, prio, ident, uid) ==
    LET ctx == p.ctx[prio] IN
    IF ctx = NoCtx THEN type = "new"
    ELSE \/ type = "new" /\ p.uid # uid
         \/ ctx.rule # NoRule /\ \E r \in ctx.rule.switch : AnyMatch(r.apps, ident, uid)

\* pe_context_decide: do the rules of the current context allow a switch?
Decide(p, type, prio, ident, uid) ==
    LET ctx == p.ctx[prio] IN
    IF ctx = NoCtx THEN type = "new"
    ELSE \/ type = "new" /\ p.uid # uid
         \/ /\ ctx.rule # NoRule
            /\ \E r \in ctx.rule.switch :
                    r.type = type /\ AnyMatch(r.apps, ident, uid)

\* pe_context_switch: the context that replaces ctx.
Switched(db, p, prio, ident, uid) ==
    LET rs == GetRuleset(db, uid, prio) IN
    IF rs = NoRuleset THEN NoRules(p.ctx[prio])
    ELSE Search(rs, ident, uid, p.pgid # NoPg)

\* Mutant: the context that is kept aside is forgotten.
RefreshCurrent(db, p, prio) ==
    LET rs == GetRuleset(db, p.uid, prio) IN
    [p EXCEPT !.ctx[prio] = IF rs = NoRuleset THEN NoRules(@)
        ELSE Search(rs, IF @ = NoCtx THEN p.ident ELSE @.ident, p.uid, p.pgid # NoPg)]

\* pe_context_refresh for one priority.
Refresh(db, p, prio) ==
    LET rs    == GetRuleset(db, p.uid, prio)
        pg    == p.pgid # NoPg
        ctx   == p.ctx[prio]
        saved == p.saved[prio]
    IN IF rs = NoRuleset
         THEN [p EXCEPT !.ctx[prio] = NoRules(ctx), !.saved[prio] = NoRules(saved)]
         ELSE [p EXCEPT
                 !.ctx[prio] = Search(rs, IF ctx = NoCtx THEN p.ident ELSE ctx.ident,
                                      p.uid, pg),
                 !.saved[prio] = IF saved = NoCtx THEN NoCtx
                                 ELSE Search(rs, saved.ident, p.uid, pg)]

\* pe_context_refresh for every priority.
RefreshAll(db, p) ==
    LET r(i) == Refresh(db, p, i) IN
    [p EXCEPT !.ctx = [i \in Prios |-> r(i).ctx[i]],
              !.saved = [i \in Prios |-> r(i).saved[i]]]

\* pe_context_uses_rs
UsesRuleset(ctx, rs) ==
    ctx # NoCtx /\ rs # NoRuleset /\ ctx.ruleset \in {rs, NoRuleset}

-----------------------------------------------------------------------------
(* Processes                                                                *)

\* pe_proc_alloc and pe_proc_track
NewProc(uid, ident, pgid) ==
    [uid |-> uid, ident |-> ident, pgid |-> pgid, threads |-> 0, instances |-> 1,
     ctx |-> [i \in Prios |-> NoCtx], saved |-> [i \in Prios |-> NoCtx],
     borrow |-> [i \in Prios |-> NoConn]]

\* pe_context_fork: a child of the same user inherits the parent's context,
\* everyone else gets the one of his own policy.
ForkCtx(child, parent) ==
    [child EXCEPT !.ctx = [i \in Prios |->
        IF parent # NoProc /\ parent.uid = child.uid /\ parent.ctx[i] # NoCtx
          THEN parent.ctx[i]
          ELSE Switched(pdb, child, i, child.ident, child.uid)]]

\* ANOUBIS_PROCESS_OP_FORK: pe_proc_fork.  The parent may be unknown; the
\* kernel puts the child into the parent's playground.
Fork(uid, child, parent, pgid) ==
    /\ child \notin born
    /\ parent # child /\ SameUid("fork", parent, uid)
    /\ pgid <= kpg /\ (proc[parent] # NoProc => pgid = proc[parent].pgid)
    /\ LET par == proc[parent]
           new == NewProc(uid, IF par = NoProc THEN NoIdent ELSE par.ident, pgid)
       IN proc' = [proc EXCEPT ![child] = ForkCtx(new, par)]
    /\ born' = born \cup {child}
    /\ UNCHANGED <<pdb, loads, conns, pgVars>>

\* pe_context_exec for one priority.
ExecCtx(p, uid, ident) ==
    LET sw == {i \in Prios : Decide(p, "new", i, ident, uid)} IN
    [p EXCEPT
       !.ctx = [i \in Prios |-> IF i \in sw THEN Switched(pdb, p, i, ident, uid)
                                ELSE p.ctx[i]],
       !.saved = [i \in Prios |-> IF i \in sw THEN NoCtx ELSE p.saved[i]],
       !.uid = uid]

\* ANOUBIS_SOURCE_SFSEXEC: pe_proc_exec.  A process that nobody saw fork is
\* tracked from its first exec on.
Exec(c, uid, ident, pgid) ==
    /\ c \in born => proc[c] # NoProc
    /\ pgid <= kpg /\ SameUid("exec", c, uid)
    /\ LET old == IF proc[c] = NoProc THEN NewProc(uid, NoIdent, pgid) ELSE proc[c]
           p   == [old EXCEPT !.ident = ident]
       IN /\ proc[c] # NoProc => pgid = old.pgid
          /\ proc' = [proc EXCEPT ![c] = ExecCtx(p, uid, ident)]
          /\ IF p.pgid = NoPg THEN UNCHANGED pgVars
             ELSE PostExec(p.pgid, c, p.uid)
    /\ born' = born \cup {c}
    /\ UNCHANGED <<pdb, loads, conns>>

\* Mutant: an exit does not leave the playground.
LoseQuietly(procs, c) ==
    /\ proc' = [procs EXCEPT ![c] = NoProc]
    /\ UNCHANGED <<conns, pgVars>>

\* pe_proc_exit: credentials of c were freed.  With the last instance the
\* process leaves the tracker, its playground (pe_proc_put) and, in the
\* kernel, its connections.
LoseInstance(procs, c) ==
    IF procs[c].instances > 1
      THEN /\ proc' = [procs EXCEPT ![c].instances = @ - 1]
           /\ UNCHANGED <<conns, pgVars>>
      ELSE /\ proc' = [procs EXCEPT ![c] = NoProc]
           /\ conns' = [k \in Conns |-> conns[k] \ {c}]
           /\ IF procs[c].pgid # NoPg /\ procs[c].threads > 0
                THEN DeleteProc(procs[c].pgid) ELSE UNCHANGED pgVars

\* ANOUBIS_PROCESS_OP_EXIT
Exit(c) ==
    /\ proc[c] # NoProc
    /\ LoseInstance(proc, c)
    /\ UNCHANGED <<pdb, loads, born>>

\* ANOUBIS_PROCESS_OP_REPLACE: c gains an instance, victim loses one.
Replace(c, victim) ==
    /\ c # victim /\ proc[victim] # NoProc
    /\ proc[c] # NoProc /\ proc[c].instances < MaxInstances
    /\ LoseInstance([proc EXCEPT ![c].instances = @ + 1], victim)
    /\ UNCHANGED <<pdb, loads, born>>

\* ANOUBIS_PROCESS_OP_CREATE: pe_proc_add_thread.
AddThread(c) ==
    /\ proc[c] # NoProc /\ proc[c].threads < MaxThreads
    /\ proc' = [proc EXCEPT ![c].threads = @ + 1]
    /\ IF proc[c].threads = 0 /\ proc[c].pgid # NoPg
         THEN AddProc(proc[c].pgid, c, proc[c].uid) ELSE UNCHANGED pgVars
    /\ UNCHANGED <<pdb, loads, born, conns>>

\* ANOUBIS_PROCESS_OP_DESTROY: pe_proc_remove_thread.
RemoveThread(c) ==
    /\ proc[c] # NoProc /\ proc[c].threads > 0
    /\ proc' = [proc EXCEPT ![c].threads = @ - 1]
    /\ IF proc[c].threads = 1 /\ proc[c].pgid # NoPg
         THEN DeleteProc(proc[c].pgid) ELSE UNCHANGED pgVars
    /\ UNCHANGED <<pdb, loads, born, conns>>

\* pe_handle_playgroundproc, pe_proc_set_playgroundid: a process enters the
\* playground pgid, or asks for a new name if it is in there already.  The
\* playground that it may have been in before is not told.
PlaygroundProc(c, pgid) ==
    /\ proc[c] # NoProc
    /\ MayEnter(pgid, proc[c].pgid)
    /\ proc' = [proc EXCEPT ![c] = RefreshAll(pdb, [proc[c] EXCEPT !.pgid = pgid])]
    /\ IF proc[c].pgid = pgid THEN Rename(pgid)
       ELSE IF proc[c].threads > 0 THEN EnterNew(pgid, c, proc[c].uid)
       ELSE UseId(pgid)
    /\ UNCHANGED <<pdb, loads, born, conns>>

\* pe_context_open: opening a file with a checksum may switch the context.
Open(c, ident, uid) ==
    /\ proc[c] # NoProc
    /\ SameUid("open", c, uid)
    /\ LET p == proc[c] IN
       proc' = [proc EXCEPT ![c].ctx = [i \in Prios |->
            IF Decide(p, "open", i, ident, p.uid)
              THEN Switched(pdb, p, i, ident, uid) ELSE p.ctx[i]]]
    /\ UNCHANGED <<pdb, loads, born, conns, pgVars>>

\* pe_context_borrow and pe_proc_save_ctx for one priority: dest takes over
\* the context of source.  Only the first connection saves a context.
Borrows(s, d, i) ==
    /\ s.ctx[i] # NoCtx
    /\ Decide(d, "borrow", i, s.ctx[i].ident, s.uid)
    /\ s.ctx[i].ruleset = d.ctx[i].ruleset

BorrowCtx(s, d, k) ==
    LET b == {i \in Prios : Borrows(s, d, i)}
        keep == {i \in b : d.saved[i] = NoCtx}
        mid == [d EXCEPT !.ctx = [i \in Prios |-> IF i \in keep THEN NoCtx ELSE d.ctx[i]]]
    IN [mid EXCEPT
         !.saved  = [i \in Prios |-> IF i \in keep THEN d.ctx[i] ELSE d.saved[i]],
         !.borrow = [i \in Prios |-> IF i \in keep THEN k ELSE d.borrow[i]],
         !.ctx = [i \in Prios |-> IF i \in b
                    THEN Switched(pdb, mid, i, s.ctx[i].ident, d.uid) ELSE d.ctx[i]]]

\* ANOUBIS_SOCKET_OP_CONNECT: pe_ipc_connect.
Connect(k, source, dest) ==
    /\ conns[k] = {} /\ source # dest
    /\ proc[source] # NoProc /\ proc[dest] # NoProc
    /\ conns' = [conns EXCEPT ![k] = {source, dest}]
    /\ proc' = [proc EXCEPT ![dest] = BorrowCtx(proc[source], proc[dest], k)]
    /\ UNCHANGED <<pdb, loads, born, pgVars>>

\* Mutant: the saved context is dropped, not restored.
DropSavedCtx(p, k) ==
    [p EXCEPT !.saved = [i \in Prios |-> IF p.borrow[i] = k THEN NoCtx ELSE p.saved[i]]]

\* pe_proc_restore_ctx
RestoreCtx(p, k) ==
    LET r == {i \in Prios : p.saved[i] # NoCtx /\ p.borrow[i] = k} IN
    [p EXCEPT !.ctx   = [i \in Prios |-> IF i \in r THEN p.saved[i] ELSE p.ctx[i]],
              !.saved = [i \in Prios |-> IF i \in r THEN NoCtx ELSE p.saved[i]]]

\* ANOUBIS_SOCKET_OP_DESTROY: pe_ipc_destroy, for one end of a connection.
Destroy(k, c) ==
    /\ c \in conns[k]
    /\ conns' = [conns EXCEPT ![k] = @ \ {c}]
    /\ proc' = [proc EXCEPT ![c] = RestoreCtx(@, k)]
    /\ UNCHANGED <<pdb, loads, born, pgVars>>

-----------------------------------------------------------------------------
(* Policies                                                                 *)

NewRuleset(uid, prio, chain) ==
    [id |-> loads + 1, uid |-> uid, prio |-> prio, chain |-> chain]

\* Mutant: the first policy of a user reaches none of his processes.
AffectedByUse(oldrs, prio, uid) ==
    {c \in Tracked : UsesRuleset(proc[c].ctx[prio], oldrs)}

\* pe_proc_update_db_one: the processes whose context must be searched again.
Affected(oldrs, prio, uid) ==
    {c \in Tracked :
        /\ proc[c].ctx[prio] # NoCtx
        /\ \/ UsesRuleset(proc[c].ctx[prio], oldrs)
           \/ oldrs = NoRuleset /\ proc[c].uid = uid}

\* pe_user_insert_rs for the active database: a policy was set.  The old
\* ruleset is freed.
SetPolicy(uid, prio, chain) ==
    /\ loads < MaxLoads
    /\ loads' = loads + 1
    /\ pdb' = [pdb EXCEPT ![uid][prio] = NewRuleset(uid, prio, chain)]
    /\ LET hit == Affected(pdb[uid][prio], prio, uid) IN
       proc' = [c \in Cookies |->
                  IF c \in hit THEN Refresh(pdb', proc[c], prio) ELSE proc[c]]
    /\ UNCHANGED <<born, conns, pgVars>>

\* pe_user_reconfigure: everything is loaded again; the files of some users
\* may be gone or not load any more.
Reconfigure(lost) ==
    /\ loads < MaxLoads
    /\ loads' = loads + 1
    /\ pdb' = [u \in DOMAIN pdb |-> [i \in Prios |->
                 IF u \in lost \/ pdb[u][i] = NoRuleset THEN NoRuleset
                 ELSE [pdb[u][i] EXCEPT !.id = loads + 1]]]
    /\ proc' = [c \in Cookies |->
                  IF proc[c] = NoProc THEN NoProc ELSE RefreshAll(pdb', proc[c])]
    /\ UNCHANGED <<born, conns, pgVars>>

\* The daemon starts again: it knows no process until it hears of one.
Restart(kernelId, gone) ==
    /\ StartPg(kernelId)
    /\ proc' = [c \in Cookies |-> NoProc]
    /\ born' = born \ gone
    /\ conns' = [k \in Conns |-> {}]
    /\ UNCHANGED <<pdb, loads>>

-----------------------------------------------------------------------------
Init ==
    /\ PgInit
    /\ pdb = [u \in Users \cup {Default} |-> [i \in Prios |-> NoRuleset]]
    /\ loads = 0
    /\ proc = [c \in Cookies |-> NoProc]
    /\ born = {}
    /\ conns = [k \in Conns |-> {}]

ProcEvent(c) ==
    \/ \E u \in Users, pg \in PgIds \cup {NoPg} :
          \/ \E parent \in Cookies : Fork(u, c, parent, pg)
          \/ \E id \in Idents : Exec(c, u, id, pg)
    \/ Exit(c) \/ AddThread(c) \/ RemoveThread(c)
    \/ \E v \in Cookies : Replace(c, v)
    \/ \E pg \in PgIds : PlaygroundProc(c, pg)
    \/ \E u \in Users, id \in Idents : Open(c, id, u)
    \/ \E k \in Conns : Destroy(k, c) \/ \E d \in Cookies : Connect(k, c, d)

PolicyChange(u) ==
    \/ \E i \in Prios, ch \in Chains : SetPolicy(u, i, ch)
    \/ Reconfigure({u}) \/ Reconfigure({})

Next ==
    \/ \E c \in Cookies : ProcEvent(c)
    \/ \E u \in Users \cup {Default} : PolicyChange(u)
    \/ PgNext /\ UNCHANGED procVars
    \/ Restart(kpg, Tracked)          \* the daemon alone
    \/ Restart(0, {})                 \* the machine: every process is gone

vars == <<procVars, pgVars>>
Safe == Init /\ [][Next]_vars

-----------------------------------------------------------------------------
(* Properties                                                               *)

Rulesets == {pdb[u][i] : u \in DOMAIN pdb, i \in Prios} \cup {NoRuleset}

InUse(c, i) == {proc[c].ctx[i], proc[c].saved[i]} \ {NoCtx}

\* pe_proc.c:841: replacing a policy "must remove all references to the old
\* ruleset from tracked processes", which is freed next.  No process, not even
\* in the context it keeps aside, refers to a ruleset that is not in the
\* database.
NoFreedRuleset ==
    \A c \in Tracked, i \in Prios : \A x \in InUse(c, i) : x.ruleset \in Rulesets

\* A process that has rules has those that are in force for its user now,
\* whatever policies were set, lost or borrowed since it started, and the ones
\* that are meant for playgrounds only if it is in one: entering a playground
\* searches the rules again, and a context is never carried out of it.
RulesInForce ==
    \A c \in Tracked, i \in Prios : \A x \in InUse(c, i) :
        /\ x.ruleset # NoRuleset => x.ruleset = GetRuleset(pdb, proc[c].uid, i)
        /\ x.rule # NoRule /\ x.rule.pgonly => proc[c].pgid # NoPg

\* The context a process has of its own while it may use a borrowed one.
OwnCtx(p, i) == IF p.saved[i] # NoCtx THEN p.saved[i] ELSE p.ctx[i]

\* A process that borrows a context gets its own one back.  It is kept aside
\* only while the connection it was borrowed over is open; no connection that
\* opens or closes changes it, borrows nested or not; and in between it stays
\* what it was, is searched again for the same program in the rules in force,
\* or makes way for an exec that the rules of the borrowed one allow.
GivenBack ==
    [][\A c \in Cookies, i \in Prios :
         LET p == proc[c]
             q == proc'[c]
         IN /\ q # NoProc /\ q.saved[i] # NoCtx => c \in conns'[q.borrow[i]]
            /\ p # NoProc /\ q # NoProc =>
                 /\ conns' # conns => OwnCtx(q, i) = OwnCtx(p, i)
                 /\ conns' = conns /\ p.saved[i] # NoCtx =>
                      \/ q.saved[i] = NoCtx /\ Decide(p, "new", i, q.ident, q.uid)
                      \/ q.saved[i] = p.saved[i]
                      \/ /\ q.saved[i] # NoCtx /\ q.saved[i].ident = p.saved[i].ident
                         /\ q.saved[i].ruleset = GetRuleset(pdb', q.uid, i)]_vars

\* A process leaves its rule block only where that block allows it for this
\* kind of event, by giving a borrowed context back, or because user,
\* playground or policy changed.  A context is borrowed from the other end of
\* the new connection, whose program is looked up for the user it runs as.
Allows(rule, types, ident, uid) ==
    \E r \in rule.switch : r.type \in types /\ AnyMatch(r.apps, ident, uid)

Permitted(c, i) ==
    LET rule  == proc[c].ctx[i].rule
        ident == proc'[c].ctx[i].ident
    IN IF conns' # conns
         THEN \E k \in Conns : \E s \in conns'[k] \ (conns[k] \cup {c}) :
                 /\ Allows(rule, {"borrow"}, ident, proc[s].uid)
                 /\ proc[s].ctx[i].ident = ident
         ELSE Allows(rule, IF proc[c].ident # proc'[c].ident THEN {"new"}
                           ELSE {"new", "open"}, ident, proc[c].uid)

LeavesBlock(p, q, i) ==
    /\ p # NoProc /\ q # NoProc /\ p.uid = q.uid /\ p.pgid = q.pgid
    /\ p.ctx[i] # NoCtx /\ p.ctx[i].rule # NoRule
    /\ q.ctx[i].rule # p.ctx[i].rule

GivesBack(p, q, i) ==
    p.saved[i] # NoCtx /\ q.saved[i] = NoCtx /\ q.ctx[i] = p.saved[i]

Confined ==
    [][\A c \in Cookies, i \in Prios :
         pdb' = pdb /\ LeavesBlock(proc[c], proc'[c], i) =>
            GivesBack(proc[c], proc'[c], i) \/ Permitted(c, i)]_vars

\* A playground counts the processes that run in it and that the daemon has
\* heard of since its start, and the entries of its directory, so that its
\* record and its directory do not go before the last of them, over threads,
\* instances, exits and restarts; one that was forgotten has no such process.
\* The exceptions are a directory in which a path could not be written, and,
\* where the kernel lets a process change its playground, the one it left
\* (pe_proc.c:244): the count is right if Moves is FALSE.
Running(g) == {c \in Tracked : proc[c].pgid = g /\ proc[c].threads > 0}
CountersExact ==
    \A g \in PgIds :
        IF Known(g)
          THEN /\ pgs[g].nrprocs = Cardinality(Running(g))
               /\ NoDir(g) => pgs[g].nrfiles = 0
               /\ g \in DOMAIN dirs /\ ~dirs[g].torn =>
                    pgs[g].nrfiles = Cardinality(dirs[g].files)
          ELSE Running(g) = {}

\* A file leaves its playground on behalf of root or of the founder of that
\* very playground, whatever happened to playgrounds, files and the daemon
\* between the scan request, the commit request and the end of the scan.
CommitsAllowed ==
    [][\A f \in Files :
         label[f] \in PgIds /\ label'[f] = Committed =>
            \E s \in scanners \ scanners' :
                s.file = f /\ (s.uid = 0 \/ s.uid \in owners[label[f]])]_vars

\* A commit request is answered once, and a playground that waits for a scan
\* is being scanned: otherwise its user gets EBUSY for ever.
AnsweredOnce ==
    /\ \A t \in Requests : answers[t] <= 1 /\ (answers[t] = 1 => ~Pending(t))
    /\ \A g \in DOMAIN pgs : pgs[g].scantok # 0 => Pending(pgs[g].scantok)

\* An id that the kernel hands out is not the one of a playground that somebody
\* has founded and that the daemon knows or finds on disk, whatever was saved,
\* lost or torn before the daemon or the machine started again: no playground
\* begins with the owner, the directory or the processes of another one.
\* Nobody has founded one that the daemon knows only from a file with a stale
\* label.
NoTakeover ==
    [][kpg' # kpg /\ restarts' = restarts =>
          /\ kpg' \in DOMAIN dirs => dirs[kpg'].uid = NoUid
          /\ kpg' \in DOMAIN pgs => pgs[kpg'].uid = NoUid /\ Running(kpg') = {}]_vars
=============================================================================
