----------------------------- MODULE Playground -----------------------------
(* Playgrounds: pe_playground.c of the policy engine, the commit requests  *)
(* in main.c and the scanner processes of scanner.c.                       *)
(*                                                                         *)
(* A playground is a set of processes whose new and changed files carry a  *)
(* label.  The policy engine keeps one record per playground, mirrored in  *)
(* a directory that survives a restart, and forgets it when it has neither *)
(* processes nor files.  A file leaves the playground when its owner asked *)
(* for a scan and then for a commit and all required scanners accept it.   *)
(* A file stands for one inode; the kernel does not use an inode twice.    *)
EXTENDS Integers, Sequences, FiniteSets

CONSTANTS
    Users,        \* user ids; 0 is root
    Cookies,      \* task cookies
    NoProc,       \* not a cookie, not a process
    MaxPg,        \* bound: playground ids the kernel hands out
    Files,        \* inodes
    NoFile,
    Requests,     \* tokens of commit requests, positive
    IoErrors,     \* writing to the management directory may fail
    Moves,        \* a process may go from one playground into a new one
    MaxRestarts   \* bound: restarts of the daemon

NoPg == 0
Deleted == -1         \* a file that is gone
Committed == -2       \* a file that has left its playground
PgIds == 1 .. MaxPg
NoUid == -1

ASSUME PgAssumption == /\ MaxPg \in Nat /\ MaxRestarts \in Nat
                       /\ Requests \subseteq Nat \ {0}
                       /\ IoErrors \in BOOLEAN /\ Moves \in BOOLEAN

VARIABLES
    pgs,          \* policy engine: [pgid -> struct playground]
    dirs,         \* disk: [pgid -> [files, named, uid]], the management
                  \* directories; named are the entries that hold a path;
                  \* torn (history) says that one was left without
    lastId,       \* disk: the file with the last playground id
    kpg,          \* kernel: last id handed out
    owners,       \* history: [pgid -> users that have founded it]
    label,        \* kernel: [file -> playground it belongs to]
    pgp2m,        \* commit requests on their way to the master
    scanners,     \* master: running scanner processes
    pgm2p,        \* commit replies on their way to the policy engine
    answers,      \* [request -> replies sent to its session]
    restarts

scanVars == <<label, pgp2m, scanners, pgm2p, answers>>
pgVars == <<pgs, dirs, lastId, kpg, owners, restarts, scanVars>>

Known(g) == g \in DOMAIN pgs

\* Restriction and extension of the two maps.
Without(m, g) == [h \in DOMAIN m \ {g} |-> m[h]]
With(m, g, r) == [h \in DOMAIN m \cup {g} |-> IF h = g THEN r ELSE m[h]]

\* pe_playground_create makes the directory of a playground it did not know.
\* pe_playground_rename does not: such a record never gets a directory.
EmptyPg == [founder |-> NoProc, uid |-> NoUid,
            nrprocs |-> 0, nrfiles |-> 0, didExec |-> FALSE,
            scan |-> NoFile, scantok |-> 0]
EmptyDir == [files |-> {}, named |-> {}, uid |-> NoUid, torn |-> FALSE]

Created(g) == IF Known(g) THEN pgs[g] ELSE EmptyPg
CreatedDir(g) == IF g \in DOMAIN dirs THEN dirs[g] ELSE EmptyDir
NoDir(g) == Known(g) /\ g \notin DOMAIN dirs
DirsWith(g, d) == IF NoDir(g) THEN dirs ELSE With(dirs, g, d)

\* pe_playground_trykill: the record and its directory go when nothing is left.
Dead(g, r) == r.nrprocs = 0 /\ r.nrfiles = 0 /\ g \in DOMAIN dirs

Put(g, r, d) ==
    /\ pgs' = IF Dead(g, r) THEN Without(pgs, g) ELSE With(pgs, g, r)
    /\ dirs' = IF Dead(g, r) THEN Without(dirs, g) ELSE DirsWith(g, d)

\* pe_playground_initproc: the founder names the playground and owns it.
IsFounder(r, c) == ~r.didExec /\ r.founder \in {NoProc, c}
InitProc(r, c, uid) ==
    IF IsFounder(r, c) THEN [r EXCEPT !.founder = c, !.uid = uid] ELSE r

Own(g, r, c, uid) ==
    IF IsFounder(r, c)
      THEN /\ owners' = [owners EXCEPT ![g] = @ \cup {uid}]
           /\ dirs' = DirsWith(g, [CreatedDir(g) EXCEPT !.uid = uid])
      ELSE /\ UNCHANGED owners
           /\ dirs' = DirsWith(g, CreatedDir(g))

-----------------------------------------------------------------------------
(* Processes; used by the actions of Processes                             *)

\* pe_playground_add
Add(g, c, uid) ==
    /\ pgs' = With(pgs, g, [InitProc(Created(g), c, uid) EXCEPT !.nrprocs = @ + 1])
    /\ Own(g, Created(g), c, uid)
    /\ UNCHANGED <<lastId, restarts, scanVars>>

AddProc(g, c, uid) == Add(g, c, uid) /\ UNCHANGED kpg

\* pe_playground_delete
DeleteProc(g) ==
    /\ IF Known(g) /\ pgs[g].nrprocs > 0
         THEN Put(g, [pgs[g] EXCEPT !.nrprocs = @ - 1], CreatedDir(g))
         ELSE UNCHANGED <<pgs, dirs>>
    /\ UNCHANGED <<lastId, kpg, owners, restarts, scanVars>>

\* pe_playground_save_last_pgid: the file may fail to open, or be truncated and
\* not written; pe_playground_load_last_pgid takes an empty one for 0.
SaveLastPgid(g) == lastId' \in IF IoErrors THEN {g, lastId, 0} ELSE {g}

\* pe_playground_postexec
PostExec(g, c, uid) ==
    /\ IF ~Known(g) THEN UNCHANGED <<pgs, dirs, owners, lastId>>
       ELSE LET r == pgs[g] IN
            /\ pgs' = [pgs EXCEPT ![g] = [InitProc(r, c, uid) EXCEPT
                         !.didExec = @ \/ IsFounder(r, c)]]
            /\ Own(g, r, c, uid)
            /\ IF IsFounder(r, c) THEN SaveLastPgid(g) ELSE UNCHANGED lastId
    /\ UNCHANGED <<kpg, restarts, scanVars>>

\* A process enters a new playground, or names the one it is in.  The kernel
\* counts the ids; whether it lets a process out of a playground is its choice.
MayEnter(g, old) == g = old \/ (g = kpg + 1 /\ (old = NoPg \/ Moves))

\* Of a process that was in another playground the new one is asked to forget
\* it (pe_playground_delete), which does nothing: nobody is in that one yet.
EnterNew(g, c, uid) == Add(g, c, uid) /\ kpg' = g

\* The process has no thread yet and is counted when it gets one.
UseId(g) == kpg' = g /\ UNCHANGED <<pgs, dirs, lastId, owners, restarts, scanVars>>

\* pe_playground_rename; names are left out.
Rename(g) ==
    /\ pgs' = With(pgs, g, Created(g))
    /\ UNCHANGED <<dirs, lastId, kpg, owners, restarts, scanVars>>

-----------------------------------------------------------------------------
(* Files                                                                    *)

\* pe_playground_file_instantiate: the entry of the file in the management
\* directory is created or gets another path.  If the path cannot be written
\* a new entry stays behind, empty and uncounted.
Entered(g, f, failed, added, scan) ==
    LET d == CreatedDir(g) IN
    /\ pgs' = With(pgs, g, [Created(g) EXCEPT !.nrfiles = @ + added,
                                             !.scan = IF scan THEN f ELSE @])
    /\ dirs' = DirsWith(g, [d EXCEPT !.files = @ \cup {f},
                                     !.named = IF failed THEN @ ELSE @ \cup {f},
                                     !.torn = @ \/ (failed /\ f \notin d.named)])

Instantiate(g, f, scan) ==
    \E failed \in {NoDir(g), NoDir(g) \/ IoErrors} :
        Entered(g, f, failed,
                IF failed \/ f \in CreatedDir(g).named THEN 0 ELSE 1, scan)

\* ANOUBIS_PGFILE_INSTANTIATE
FileInstantiate(g, f) ==
    /\ g <= kpg
    /\ label[f] \in {NoPg, g}
    /\ label' = [label EXCEPT ![f] = g]
    /\ Instantiate(g, f, FALSE)
    /\ UNCHANGED <<lastId, kpg, owners, restarts, pgp2m, scanners, pgm2p, answers>>

\* pe_playground_file_delete
DeleteEntry(g, f) ==
    IF Known(g) /\ f \in CreatedDir(g).files
      THEN Put(g, [pgs[g] EXCEPT !.nrfiles = @ - 1],
               [dirs[g] EXCEPT !.files = @ \ {f}, !.named = @ \ {f}])
      ELSE UNCHANGED <<pgs, dirs>>

\* ANOUBIS_PGFILE_DELETE: the file is gone or was committed.
FileDelete(g, f) ==
    /\ label[f] \in {g, Committed}
    /\ label' = [label EXCEPT ![f] = IF @ = g THEN Deleted ELSE @]
    /\ DeleteEntry(g, f)
    /\ UNCHANGED <<lastId, kpg, owners, restarts, pgp2m, scanners, pgm2p, answers>>

\* ANOUBIS_PGFILE_SCAN: pe_playground_file_scanrequest.  The kernel reports a
\* scan request of a process of uid.
FileScan(g, f, uid) ==
    /\ label[f] = g /\ g # NoPg
    /\ Instantiate(g, f, uid \in {0, Created(g).uid} \ {NoUid})
    /\ UNCHANGED <<lastId, kpg, owners, restarts, scanVars>>

\* pe_playground_dispatch_unlink, on behalf of a session of uid
Unlink(g, f, uid) ==
    /\ IF Known(g) /\ (uid = 0 \/ pgs[g].uid = uid)
         THEN DeleteEntry(g, f) ELSE UNCHANGED <<pgs, dirs>>
    /\ UNCHANGED <<lastId, kpg, owners, restarts, scanVars>>

-----------------------------------------------------------------------------
(* Commits                                                                  *)

\* Mutant: anybody may commit.
CommitByAnyone(g, uid) == Known(g) /\ pgs[g].scan # NoFile /\ pgs[g].scantok = 0

\* The checks of pe_playground_dispatch_commit.
CommitAllowed(g, uid) ==
    /\ Known(g)
    /\ uid = 0 \/ pgs[g].uid = uid
    /\ pgs[g].scan # NoFile
    /\ \A h \in DOMAIN pgs : pgs[h].uid = pgs[g].uid => pgs[h].scantok = 0

Answer(t) == answers' = [answers EXCEPT ![t] = @ + 1]

Pending(t) ==
    \/ \E i \in DOMAIN pgp2m : pgp2m[i].token = t
    \/ \E s \in scanners : s.token = t
    \/ \E i \in DOMAIN pgm2p : pgm2p[i] = t

\* A session of uid asks to commit the file its path leads to; skip says that
\* scanners which are only recommended are not run.
DispatchCommit(t, g, uid, path, skip) ==
    /\ answers[t] = 0 /\ ~Pending(t)
    /\ IF CommitAllowed(g, uid)
         THEN /\ pgs' = [pgs EXCEPT ![g].scantok = t]
              /\ pgp2m' = Append(pgp2m, [token |-> t, uid |-> uid, skip |-> skip,
                                         path |-> path, file |-> pgs[g].scan])
              /\ UNCHANGED answers
         ELSE Answer(t) /\ UNCHANGED <<pgs, pgp2m>>
    /\ UNCHANGED <<dirs, lastId, kpg, owners, restarts, label, scanners, pgm2p>>

\* Mutant: a scan that cannot be started is dropped.
StartSilently ==
    /\ pgp2m # <<>>
    /\ pgp2m' = Tail(pgp2m)
    /\ UNCHANGED <<pgs, dirs, lastId, kpg, owners, restarts, label, scanners, pgm2p, answers>>

\* dispatch_pgcommit of the master: the path must lead to the inode that the
\* kernel named, and there is one scanner per user.
StartScan ==
    /\ pgp2m # <<>>
    /\ LET m == Head(pgp2m) IN
       \/ /\ m.path = m.file
          /\ \A s \in scanners : s.uid # m.uid
          /\ scanners' = scanners \cup {[token |-> m.token, uid |-> m.uid,
                                         skip |-> m.skip, file |-> m.path]}
          /\ UNCHANGED pgm2p
       \* open, fstat, the ioctl, pipe or fork failed, or a check did
       \/ pgm2p' = Append(pgm2p, m.token) /\ UNCHANGED scanners
    /\ pgp2m' = Tail(pgp2m)
    /\ UNCHANGED <<pgs, dirs, lastId, kpg, owners, restarts, label, answers>>

\* What the scanners say, and what scanner_main makes of it.
Verdicts == {"clean", "recommended", "required", "killed"}
Accepts(s, v) == v = "clean" \/ (v = "recommended" /\ s.skip)

\* anoubisd_scanproc_exit: the scanner process of a request has ended.
ScannerExit(s, v) ==
    /\ s \in scanners
    /\ scanners' = scanners \ {s}
    /\ pgm2p' = Append(pgm2p, s.token)
    /\ \/ /\ Accepts(s, v) /\ label[s.file] \in PgIds
          /\ label' = [label EXCEPT ![s.file] = Committed]
       \/ UNCHANGED label
    /\ UNCHANGED <<pgs, dirs, lastId, kpg, owners, restarts, pgp2m, answers>>

\* pe_playground_dispatch_commitreply, and the reply goes on to the session.
CommitReply ==
    /\ pgm2p # <<>>
    /\ LET t == Head(pgm2p) IN
       /\ pgs' = [g \in DOMAIN pgs |-> IF pgs[g].scantok = t
                    THEN [pgs[g] EXCEPT !.scan = NoFile, !.scantok = 0] ELSE pgs[g]]
       /\ Answer(t)
    /\ pgm2p' = Tail(pgm2p)
    /\ UNCHANGED <<dirs, lastId, kpg, owners, restarts, label, pgp2m, scanners>>

-----------------------------------------------------------------------------
(* Start of the daemon                                                      *)

\* pe_playground_read: the record of a directory found at start.
ReadPg(g) == [EmptyPg EXCEPT !.uid = dirs[g].uid, !.didExec = TRUE,
                             !.nrfiles = Cardinality(dirs[g].files)]

\* pe_playground_initpgid: the id the kernel counts on from.
MaxOf(S) == CHOOSE x \in S : \A y \in S : y <= x
\* Mutant: only the file counts.
InitFromFile == lastId

InitPgid == MaxOf({lastId} \cup DOMAIN dirs)

\* pe_playground_init; what was under way is lost with its sessions.
StartPg(kernelId) ==
    /\ restarts < MaxRestarts /\ restarts' = restarts + 1
    /\ LET kept == {g \in DOMAIN dirs : dirs[g].files # {}} IN
       /\ pgs' = [g \in kept |-> ReadPg(g)]
       /\ dirs' = [g \in kept |-> dirs[g]]
    /\ kpg' = MaxOf({kernelId, InitPgid})
    /\ pgp2m' = <<>> /\ scanners' = {} /\ pgm2p' = <<>>
    /\ UNCHANGED <<lastId, owners, label, answers>>

PgInit ==
    /\ pgs = <<>> /\ dirs = <<>>
    /\ lastId = 0 /\ kpg = 0 /\ owners = [g \in PgIds |-> {}]
    /\ label = [f \in Files |-> NoPg]
    /\ pgp2m = <<>> /\ scanners = {} /\ pgm2p = <<>>
    /\ answers = [t \in Requests |-> 0]
    /\ restarts = 0

PgNext ==
    \/ \E g \in PgIds, f \in Files :
          \/ FileInstantiate(g, f) \/ FileDelete(g, f)
          \/ \E u \in Users : FileScan(g, f, u) \/ Unlink(g, f, u)
          \/ \E u \in Users, t \in Requests, skip \in BOOLEAN :
                DispatchCommit(t, g, u, f, skip)
    \/ StartScan
    \/ \E s \in scanners, v \in Verdicts : ScannerExit(s, v)
    \/ CommitReply
=============================================================================
