# A TLA+ model of the Anoubis daemon

Anoubis is a security system for Linux: a kernel module reports what processes do,
and a user space daemon, `anoubisd`, decides according to policies of the
administrator and of every user. When a policy says *ask*, the decision is
escalated to the clients of that user, and the process that caused the event is
blocked until somebody answers or a timeout denies the request.

This directory models the parts of the daemon in which mistakes are hard to test:
the life of an event from the kernel through four processes to its single answer,
the notification library that collects the verdicts of several clients, the
shutdown and upgrade protocols, the life of client requests, the policy store, the
contexts of processes, playgrounds, and the evaluation of rules. Paths in this
text are relative to the root of the repository.

## 1. The system

### 1.1 Components

| Component | Source | State | Operations |
|---|---|---|---|
| master | `src/anoubisd/main.c` | `eventq_m2dev`, one queue per child, `terminate`, `upgraded_files` | read events from the device, relay them, write replies, relay the upgrade protocol, authenticate users, checksum requests, lead the shutdown |
| policy engine | `src/anoubisd/policy.c`, `pe.c`, `pe_*.c` | `replyq` (open escalations), `eventq_p2m_hold`, `terminate`, policies, processes, upgrade marks, `preqs` | decide, escalate, time out, hold, answer, install policies |
| session engine | `src/anoubisd/session.c` | `headq`, sessions, tables of groups and requests | connect, authenticate, forward requests, notify, cancel |
| upgrade process | `src/anoubisd/upgrade.c` | none beyond its queues | ask for chunks of file names, update their checksums, report the end |
| notify library | `libanoubis/.../server/anoubis_notify.c` | groups, registrations, pending events, heads | create, register, notify, answer, reply, destroy |
| server library | `libanoubis/.../server/anoubis_server.c` | flags, selected protocols, authentication | connect protocol, authentication, dispatching of requests |
| request table | `libanoubis/.../server/anoubis_policy.c` | open requests, `nexttoken` | add, answer, abort, destroy |
| messages and queues | `src/anoubisd/amsg.c`, `aqueue.c`, `anoubisd.h` | FIFO queues | send, receive, end of file |
| policy store | `pe_user.c` | `preqs`, temporary files, policy and signature files, policy database | set a policy in chunks, abort, reload, start |
| process tracker and contexts | `pe_proc.c`, `pe_context.c`, `pe_ipc.c` | per process: user, program, playground, threads, instances, and per priority a context and a saved one | fork, exec, exit, replace, threads, open, connect, destroy, new policy |
| playgrounds | `pe_playground.c`, `scanner.c`, `dispatch_pgcommit` of `main.c` | records and directories of playgrounds, last id, scan locks, scanner processes | enter, rename, add and delete files, request a scan, commit, scanner exit, restart |
| rules | `pe_alf.c`, `pe_sandbox.c`, `pe_sfs.c`, `pe_prefixhash.c`, parts of `pe.c` | none | decide an event, check a rename |
| trees and caches | `pe_filetree.c`, `pe_sfscache.c` | files of an upgrade, checksums | insert, look up |
| checksum store | `sfs.c`, `cert.c` | files | read, write, verify, list |
| client library | `.../client/anoubis_client.c`, `anoubis_transaction.c` | transactions | the peer of the server library |
| APN language, user interfaces, tools | `libanoubis/apn`, `xanoubis`, `anoubisctl`, `sfssig`, `playground`, key tools | - | - |

### 1.2 Interaction

```
  kernel --events--> master --m2p--> policy engine --p2s--> session engine <--> clients
  kernel <--replies-- master <-p2m-- policy engine <-s2p--- session engine
                      master --m2s/s2m-- session engine
                      master --m2u/u2m-- upgrade process
```

Each process is single threaded and runs a libevent loop; a pipe is an unbounded
queue of whole messages in front of a socket pair. So one handler of one process is
one step, and everything that can go wrong goes wrong between handlers: answers
that cross timeouts, cancels that cross answers, disconnects in the middle of a
decision, end of file from one neighbour before the other's.

### 1.3 What is hard, and what correctness means

* **Notify library.** A head is decided by verdicts, delegations, aborts and
  disconnects of any number of peers, in any order, with sends and allocations that
  fail. Correct: the head outlives every event that is linked to it, the callback
  runs once, `eventcount` is exact, every peer learns the same result, and no order
  of calls leaves a head that nobody can decide.
* **Escalation.** The timeout (`dispatch_timer`) races the answer
  (`dispatch_s2p`). Correct: the kernel gets exactly one answer per event, one the
  rules, the user or the timeout could have given, with no flag of the rule lost.
* **Shutdown.** SIGTERM starts three levels of termination, each ended by an end of
  file on a pipe. Correct: nobody waits for anybody in a cycle, and every event read
  from the kernel is answered before the master leaves.
* **Upgrade.** While checksums are updated after an upgrade, processes that want to
  start the next one are held. Correct: one round at a time, and everybody who is
  held is released.
* **Requests.** A request travels through two other processes while its session may
  end and its slot be reused. Correct: an answer never meets the wrong session,
  nothing is left behind, nobody is authenticated by an old answer, and every
  request is answered.

* **Policy store.** A policy comes in chunks, is written to two temporary files and
  renamed twice; a reload reads policies and certificates again. Correct: the rules in
  force are those on disk, up to the scoped rules, which a reload ends on purpose; a
  crash or a failure never takes away a policy that was acknowledged, and only its owner
  or root has written any part of it.
* **Contexts.** A process keeps pointers into rulesets that can be replaced at any
  time, and may borrow the context of a peer. Correct: it is confined by the rules
  that are in force for its user, leaves a block of rules only where that block says
  so, gives back what it borrowed, and never refers to a ruleset that was freed.
* **Playgrounds.** Counters of processes and files decide when the record and the
  directory of a playground go; a lock waits for the reply of a scanner in another
  process. Correct: counters are exact across threads, exits and restarts, every
  commit is answered, a file leaves a playground only for its founder or root, and a
  new playground never takes over the owner, the directory or the processes of another.
* **Rules.** Three evaluators, two priorities, a hash that preselects. Correct: the
  hash is invisible, a user weakens no denial of the administrator and silences none of
  his rules, an
  allowed rename changes no rule of the file, and the reported rule is the one that
  decided.

The `hazards` list of `PROJECT.json` gives each of these its line and the
properties that would catch it.

## 2. Modules

| Module | Models | Composed of |
|---|---|---|
| `Notify` | `anoubis_notify.c` | |
| `Messages` | the messages on the pipes, sending, end of file | |
| `Master` | event relay, device, shutdown of `main.c`; the kernel side of the device | `Messages` |
| `Policy` | `policy.c`, upgrade marks of `pe.c` and `pe_proc.c` | `Messages` |
| `Session` | escalation side of `session.c` | `Messages`, `Notify` |
| `Upgrade` | `upgrade.c` | `Messages` |
| `Daemon` | all four processes and the kernel | `Master`, `Policy`, `Session`, `Upgrade` |
| `Arbiter` | abstract specification: what the kernel may rely on | |
| `Server` | `anoubis_server.c`, `anoubis_policy.c`, and what the three processes do with requests | |
| `PolicyStore` | setting of policies, policy files, reload in `pe_user.c` | |
| `Playground` | `pe_playground.c`, `scanner.c`, commits in `main.c` | |
| `Processes` | `pe_proc.c`, `pe_context.c`, `pe_ipc.c`, policy database of `pe_user.c` | `Playground` |
| `Rules` | `pe_sfs.c`, `pe_sandbox.c`, `pe_alf.c`, `pe_prefixhash.c`, merging and renames of `pe.c` | |
| `NotifyProofs`, `DaemonProofs`, `ServerProofs`, `PolicyStoreProofs`, `RulesProofs` | theorems | `Notify`, `Daemon`, `Server`, `PolicyStore`, `Rules` |
| `ContextProofs`, `PlaygroundProofs`, `ArbiterProofs` | theorems | `Processes`; `ContextProofs`; `DaemonProofs` |
| `MCNotify`, `MCDaemon`, `MCServer`, `MCProcesses`, `MCPolicyStore`, `MCRules` | values of the constants for TLC | |

Operators that stand just before the definition they vary (`RegisterAny`,
`AfterReplyLinked`, `ResultsYouAll`, `KeepHead`, `NeverBusy`, ...)
are not used by the specifications. Each is a plausible slip in the code; with it in
place of the real definition TLC finds the named property violated (the `mutants` of
`PROJECT.json`), which is evidence that the property says something about the code.

### 2.1 Notify

`pending[g][t]` is the `struct anoubis_notify_event` that links group `g` to the
head of token `t`. Its two flags are written as one of four states: `"open"` (no
flag), `"verdict"` (`FLAG_VERDICT`), `"replied"` (`FLAG_REPLY`), `"none"` (both:
freed, or never sent). A linked event is one without `FLAG_REPLY`. Every API call is
one action, except `anoubis_notify_destroy`: its loop is `DestroyStart`, one
`DestroyEvent` per event, `DestroyEnd`, with `dying` excluding other calls in
between, as the process is single threaded. `told`, `news` and `done` record the
messages sent to peers and the calls of `head->finish`; they are what the outside
sees; a result that could not be sent is kept there as `LOST`. Failing sends are a set of
channels chosen per call, out of memory a Boolean.
A verdict is an integer: the wire carries a `u_int32_t` that
`anoubis_notify_answer` takes as an `int`, hence the value -1. The library does not
look at its bits.

Two behaviours worth knowing when reading the properties: an event that was replied
but not acknowledged stays pending (and counts against the limit) until its peer
answers or leaves; and after an allocation failure in `anoubis_notify_sendreply` the
head stays, with `reply` set, until its session engine entry is cancelled.

### 2.2 Daemon

`Master`, `Policy`, `Session` and `Upgrade` have the state and the handlers of one
process each, and share the pipes. `Daemon` joins them: a step is one handler of one
process, and `NotMaster` and its siblings say what it leaves alone. (They list the
variables, because TLC does not accept `UNCHANGED` of an instance's tuple.)

* A pipe is a sequence plus membership in `closed`. A reader sees end of file when
  the sequence is empty and the pipe closed.
* The kernel is external: `Post` queues an event, `ProcessExit` ends its process,
  `written` collects what the daemon writes for it.
* What the rules decide is a choice: any reply of `PolicyReplies`, or an escalation
  with the flags of one of them. `LockTokens` are lock events of root on the upgrade
  lock file, `ChildTokens` events of the daemon's own processes, `NoteTokens`
  notifications the kernel wants no answer to.
* Time is left out: an escalation may time out whenever the timer runs
  (`Expire`). Any finite timeout is a special case.
* `terminate` of the policy engine has its four levels, with the comment at
  `policy.c:176-186` as their documentation; `Denying` is the call of
  `dispatch_timer` inside `set_terminate(3)`, which no other handler can interrupt.
* A reply is one word: a verdict and, above it, flags for the kernel (`FlagUnit`; the
  macros are the kernel's). The model keeps the flags as the set of their bits, and
  `FlagsOf` and `Clean` take a word apart. What a client sends is any word that is not
  negative; `Callback` passes all of it on, and `Restored` adds the flags of the rule to
  it, so a client can set flags but not clear them (section 5, `daemon_flags`).
* `escalated` is a history variable: every entry that was ever in `replyq`.

`Arbiter` is what all of this amounts to for the kernel: an event is raised, is
answered at most once by the rules, by what the user decided or by a denial, and its
process may go away at any time. The mapping takes `kern`, `done` and `written` for
the abstract state, opinion and answer. Two runs check, and `DaemonIsArbiter` proves,
that every step of the daemon is a step of the arbiter or none.

### 2.3 Server

A session is a slot with a record of what `struct session` and
`struct anoubis_server` hold: effective user, flags, selected protocols,
authentication, user. `reqs` is the request table of the session engine, `preqs` the
policy engine's list of policy requests whose chunks are still coming. The actions
are the client's messages (`VerSel`, `OptReq`, `ProtoSel`, `Auth`, `AuthTransport`,
`AuthReply`, `Request`, `PolicyRequest`, `CloseReq`, `Disconnect`), the two servants
(`PolicyRecv`, `MasterRecv`) and the arrival of their answers (`FromPolicy`,
`FromMaster`). `asker`, `granted`, `applied`, and the fields `by` and `attempt` of a
session, are history: who asked for what, what the master approved, which policies
were installed, and by which answer a session was authenticated.

Quirks that the model keeps: a list or checksum request on a busy channel is dropped
without an answer (`EBUSY` is logged only); a policy request that starts on a busy
channel ends the session; a list request of unknown type is never answered; if the
result of a login cannot be sent, the channel is closed but its session stays until
the client goes away.

### 2.4 PolicyStore

A slot is a policy: a user and a priority. `reqs` is `preqs`, `files` and `tmps` the
disk, `db` the policy database with the upload a ruleset comes from. A chunk is its
length: `SigPart` computes, as the code does, how much of it goes to the signature
file (a signature that began in an earlier chunk is taken to be `siglen` long
again, so that a chunk shorter than that fails and a longer one loses part of the
policy). `Start`, `Continue` and `Abort` are the messages of `pe_dispatch_policy`,
each with its checks in the order of the code; the last one verifies, parses,
renames the policy and then its signature, and activates it (`Commit`). Failures are
the rename of the signature (`CommitHalf`), anything before it (`Refuse`), a crash
between two messages (`Crash`) and one within the last message (`CrashInEnd`).
`Load` is what a start or a SIGHUP makes of the disk: with a certificate, a policy
whose signature does not verify is skipped, and every rule with a scope is removed
(`pe_user.c:486`), while an upload puts scoped rules in force as they are. So a reload
does change rules in force; `DbIsDisk` says that it changes nothing else. SIGHUP reads
the certificates again first (`LoadCerts`): those of `Rekeyed` may appear or go at any
reload, also between the two checks of a request. A certificate that appears makes an
unsigned policy unloadable, as intended; `acked` starts anew then. `acked` and `torn` are
history, and so is `checked`, which tells that a policy was signed if it had to be when it
was stored. A policy without a signature leaves an old signature file in place, as in the
code. A certificate that root exchanges for another one is two reloads.

### 2.5 Processes and Playground

`proc[c]` is a `struct pe_proc`. A context is its ruleset, the program it was searched
for and the block that was found; the model keeps one chain per ruleset, as the three
chains are searched alike. Rulesets carry the number of the load that created them,
so that a freed one can be told from its successor. `Switched` is
`pe_context_switch`, `Decide` `pe_context_decide`, `Refresh` `pe_context_refresh`,
which also searches the context kept aside again. The kernel is external: cookies
are not reused, a child is in the playground of its parent, ids of playgrounds are
counted upwards, a file label names the playground. `UidChanges` names the events
before which a process may have changed its user (the engine hears of it with the
event only).

`pgs` is the list of `struct playground`, `dirs` the management directories, `label`
the kernel's security label of an inode. A commit passes from the policy engine
(`DispatchCommit`) through the master (`StartScan`) to a scanner process
(`ScannerExit`, which removes the label) and back (`CommitReply`). A file stands for
one inode with one entry; names are left out. `StartPg` is a start of the daemon, on a
running kernel or after a boot: directories without files are removed, the id is taken
from the directories and the saved file. `owners` is history. One behaviour to know:
`pe_playground_rename` creates a record without a directory for a playground that
was not known (`NoDir`).

Failures: with `IoErrors` the path of an entry may not be written (the entry stays, empty
and uncounted, and its directory is `torn`), and the file with the last id may not be
opened or be left empty. With `Moves` the kernel lets a process go from one playground
into a new one, a case the code has a branch for (`pe_proc.c:243`).

Behaviours worth knowing when reading the properties:

* `GivenBack` is about the context of one's own (`OwnCtx`): the one kept aside, or else the
  current one. A second borrow keeps nothing aside, so it is the *first* connection whose end
  gives the context back (section 5); what `GivenBack` says is that
  either way it is the right context, and that none is lost. A child that is
  forked while its parent borrows starts with the borrowed context and has nothing aside
  (`ForkCtx`); it never gets its parent's own one.
* After a restart of the daemon alone, processes that run on are not tracked. `CountersExact`
  counts the processes that the daemon has heard of since its start: the record and the
  directory of a playground without files go at start (`pe_playground.c:960`) even if an
  untracked process is still in it.
* A file whose label names a playground that is not known (its directory has gone, or its
  entry was unlinked by a client) creates a record and a directory when it is
  reported again. Nobody has founded that playground (`uid` is -1), and it may have an id
  that the kernel is still to hand out; `NoTakeover` is about playgrounds somebody has founded.
* `owners` collects everybody who founded a playground of that id. Where an id is used
  again (section 5), `CommitsAllowed` does not tell the founders apart.

### 2.6 Rules

The evaluation has no state, so a behaviour picks a policy, handles one event and
stops: the state space is the table of all policies of the instance against all
events. A path is the sequence of its components. `GetRules` takes the rules whose
slot in the hash is the slot of a prefix; `DecideSfs`, `DecideSandbox` and
`DecideAlf` fold the code's loop over the priorities, with its early exits, over an
accumulator that has the local variables of the function. Addresses have `AddrBits`
bits and ports two digits to base `Radix`; `Htons` is the conversion of the parser,
and ranges are compared in network byte order, as the code does (`PortMatch`). The
administrator's policy asks nothing (`NoAsk`: `APN_FLAG_NOASK`, `parse.y:1350`); an empty block for
the network and no block at all (`NoBlock`) differ, as an event that is not filtered is
allowed in the former and passed on in the latter (`pe_alf.c:354`). The log clause of
`AdminPrevails` is about raising only: the highest log level of all access modes is
reported, which is more than the header of `pe_decide_sandbox` says (section 5).

## 3. Runs

| Run | Instance | What it shows |
|---|---|---|
| `notify` | 3 groups, 1 token, sessions and events of root and a user, own and wildcard registrations, verdicts 0, 13, -1, sends and allocations fail | `TypeOK`, `LinkedHeadsLive`, `EventCountExact`, `FinishOnce`, `OnlyRefusedVerdictsWait`, `ResultsAgree`: the decision of one head, whatever the order of calls; `EventsArePrivate`, `EveryPeerToldResult`: who sees what, and learns what |
| `daemon_escalation` | 2 clients, 1 event, refused verdicts, all failures | `EscalationHonoured`, `HeadsAreAwaited`, `EscalationsEnd`, `ImplementsLiveArbiter`: answer, timeout, cancel and failure race, and clients that never answer block nobody |
| `daemon_stop` | 1 client, 1 event, SIGTERM at any time | `AllAnswered`, `ImplementsArbiter`, `StopCompletes` |
| `daemon_flags` | 1 client that answers with a word whose lowest flag bit is set, 1 event | violation of `FlagsOfRule`, see 5 |
| `daemon_news` | 3 events (decided, own child, notification), logging, root and a user | `OneOwner`: the ways around the policy engine |
| `daemon_upgrade` | 3 processes that lock for an upgrade | `OneUpgradeRound`, `EventsAnswered` |
| `server_requests` | 1 slot, 3 requests, users with and without a key | `RequestsBelong`, `NoOrphanRequest`, `AuthSound`, `AuthAlive`, `PolicyAuthorised`, `RequestsAnswered` |
| `policies` | 2 policies (a signed one of a user, an admin one), 2 tokens, 2 uploads with scoped rules or a bad signature, chunks of 1 and 3, signatures of 2, certificates that come and go, 1 crash | `DbIsDisk`, `NeverUnprotected`, `AuthorsAllowed`, `StoredIntact` |
| `contexts` | 2 processes, 2 users, 2 programs, 2 connections, 2 playgrounds between which a process may move, 2 loads of policies; the user changes before fork and exec | `NoFreedRuleset`, `RulesInForce`, `Confined`, `GivenBack` |
| `contexts_stale` | the same with 1 connection and without playground, 3 loads; the user changes before open | violation of `NoFreedRuleset`, see 5 |
| `playground` | 2 processes of root or a user with 2 threads and instances, 2 playgrounds, 1 file, failing writes, 1 restart, 1 commit | `CountersExact`, `AnsweredOnce`, `CommitsAllowed`, `NoTakeover` |
| `rules` | all pairs of blocks of up to 2 of 5 SFS rules, of 5 sandbox rules, combinations of both, ALF blocks of up to 2 of 6 rules; 4 paths of which 2 collide; 55 file and 26 network events | `HashIsInvisible`, `AdminPrevails`, `RenameKeepsRules`, `RuleReported` |

**Bounds, and why they are enough.** In `Notify`, heads do not interact except
through the limit and the loop of `anoubis_notify_destroy`; three peers are enough
for an answer, a delegation and a disconnect to meet on one head. Notifications that
want no answer touch neither heads nor counters, so that `NewsOrAsk` lets a behaviour
have those or questions. With one token no group ever has `Limit` events pending; the
limit is in the model, and the theorems of 4.1 hold for every limit and all tokens. In `Daemon`, events interact through upgrades (three
processes: one that finishes, one that is held, one that comes after), through
registrations and shutdown; each run takes the tokens its question needs. Tokens are
used once: the kernel's counter does not come back to a token in the life of an
event. In `Server`, sessions share the token counter and the pipes only; one slot
that is used again and again meets its predecessor's answers, which is the case that
matters. `MaxToken` bounds the requests of a behaviour, `MaxPipe` what waits between
the engines when a client sends one more chunk, `MaxRegs` the registrations of a
group, `MaxChunks` the messages of an upgrade. In `PolicyStore`, requests share a slot or a
token and nothing else, and two uploads are an old policy and a new one that may cross
it; chunks and signatures are sized so that a signature is whole, split and
missing. In `Processes`, a connection has two ends, two connections of one
process end in either order, and two loads replace a policy
that is in use; a playground matters to a context as one more event that opens a program,
so `PgOrConns` leaves out two connections with a playground, and has a process that
moves to a second playground alone. In `Playground`, two playgrounds of one user compete
for his only scan. `PgBound` says what is left out: after the restart, whose own question
is about ids and directories, there is one playground more and one process
(`AfterRestart`), a commit meets neither threads, instances nor torn entries, and a count
of files that torn entries have put wrong is followed for one step in either
direction. In `Rules`, a decision is reached by at most one rule per
block and access mode, so two rules show their order. `MaxPg`, `MaxThreads`,
`MaxInstances`, `MaxLoads`, `MaxRestarts`, `MaxUploads` and `MaxCrashes` are bounds;
`MaxSize` is the configured limit. Groups, processes and connections are permuted
(symmetry) in runs that check invariants and action properties only.

`CHECK_DEADLOCK FALSE` is set where the system really stops: after SIGTERM
(`daemon_stop`), when all processes of the instance have gone or all bounds are used
up (`daemon_upgrade`, `contexts`, `playground`, `policies`), and in `rules`, where a
behaviour is one event. In all other passing runs TLC also shows the absence of deadlock.

**Fairness.** Each process serves its pipes and signals: weak fairness of the
handlers of the master, the policy engine and the upgrade process, and of the
timer for each token (it runs every five seconds and every escalation has a finite
timeout). The session engine also serves clients, and its handlers wait while a
session is being destroyed, so a stream of clients disables them again and again;
libevent runs the callbacks of all descriptors that are ready before it polls anew,
which is strong fairness of `FromPolicy`, `FromMaster` and `SessionTerm`. The
destruction of a session runs inside one handler: weak fairness. Nothing is assumed
of clients, of the kernel's processes, or of whoever sends SIGTERM. In `Server` the
four handlers of the pipes are weakly fair.

## 4. Proofs

All theorems hold for every value of the constants that the assumptions allow; the
assumptions are evaluated by TLC on every run. Safety invariants, the action properties
and the lemmas they need are proved. A theorem about a specification with fairness
(`Spec`) uses its safety part only; `Safe` is that part.

### 4.1 `NotifyProofs`

For any finite set of groups, any set of tokens, and any users, registrations, events,
verdicts and failures (`NotifyAssumption`):

| Theorem | Statement |
|---|---|
| `Invariance` | `Spec => []IInv` |
| `TypeCorrect` | `Spec => []TypeOK`; in particular `eventcount` is never negative |
| `NoDanglingHead` | `Spec => []LinkedHeadsLive` |
| `CountIsExact` | `Spec => []EventCountExact` |
| `FinishedOnce` | `Spec => []FinishOnce` |
| `OnlyRefusedWait` | `Spec => []OnlyRefusedVerdictsWait` |
| `ToldInvariance` | `Spec => []JInv` |
| `ResultsAlwaysAgree` | `Spec => []ResultsAgree` |
| `PeersAlwaysTold` | `Spec => []EveryPeerToldResult` |
| `EventsAlwaysPrivate` | `Spec => []EventsArePrivate` |

None of the first five is inductive alone. That the callback runs once needs the head to be
gone after the first call; that the head may go needs its events to be unlinked; that
a disconnect decides a head needs `eventcount` to be exact; and that `eventcount`
stays a natural number needs an open event to have a live head. `HeadOK` ties the
four together for one token, and `IInv` is `TypeOK` with `HeadOK` of every token.
The argument has one lemma per action. The ones that matter are about the operators
two actions share: `OpenDrop` (an open event that changes state lowers the count by
one), `AfterReplyUnlinks` (after a reply no event is linked to the head),
`SendReplyHeads` (a reply re-establishes `HeadOK` on each of its paths, refused and
out of memory included) and `HeadFrame` (steps elsewhere do not matter).

The second invariant, `JInv`, is about what the peers were told. `ToldOK` relates the
state of each event to the messages of its peer: a linked event has had its question and
no result, an event that was replied has both, and a connected peer that has had its
question only is still linked (so nobody is passed over when the result is sent). `OneYou` says that one peer at most was
told that its answer was used, `SlotsOK` that a group that is not connected has nothing
left over, `RegsOK` that a group is registered only for what `RegisterOk` admits (its
user cannot change afterwards, so what was checked at registration holds when an event
comes). `STAT` notifications go to everybody who registered; `NotifyAssumption` says that no
escalation is one, and `EventsArePrivate` exempts them.

### 4.2 `ServerProofs`

For any sessions, users, keys, kinds of requests and bounds (`ServerAssumption`):

| Theorem | Statement |
|---|---|
| `Inductive` | `Safe => []IInv` |
| `RequestsAlwaysBelong` | `Spec => []RequestsBelong` |
| `RequestsNeverOrphaned` | `Spec => []NoOrphanRequest` |
| `AuthAlwaysSound` | `Spec => []AuthSound` |
| `AuthNeverHangs` | `Spec => []AuthAlive` |
| `PoliciesAuthorised` | `Spec => []PolicyAuthorised` |

The properties are about three tables in three processes; what connects them is in
transit. The invariant therefore says what may be on the pipes: tokens are ones that were
handed out (`TokensOld`); an open request fits every message with its token (`KindsOK`), so
that an answer finds a request of its own kind; the first message of a request is ahead of
all others with its token (`FirstOK`), and a first chunk whose session has gone is followed
by its abort (`AbortFollows`), which is what keeps the policy engine free of orphans; the
policy engine has nothing of a request that it has answered for good (`EngineOK`); and what
the master granted is what it was asked, for the user who asked (`GrantsOK`).

### 4.3 `PolicyStoreProofs`

For any users, certificates, tokens, chunks and any number of uploads and crashes
(`StoreAssumption`):

| Theorem | Statement |
|---|---|
| `StoreInvariance` | `Spec => []IInv` |
| `DatabaseIsDisk` | `Spec => []DbIsDisk` |
| `PolicyNeverLost` | `Spec => []NeverUnprotected` |
| `OnlyAuthors` | `Spec => []AuthorsAllowed` |
| `AlwaysStoredIntact` | `Spec => []StoredIntact` |
| `NoStrayFiles` | `Spec => []TmpFilesOwned` |

The invariant adds to the properties that every request under way has passed the
checks of its first message (`Checked`: above all, that its author was allowed to, and
that what was written so far is whole unless a signature was
split), that outside `torn`, where there is a certificate, the signature on disk of an acknowledged
policy is its own if the policy was signed when it was stored (`SigCurrent`), and that an
acknowledged policy is followed by others (`Kept`). Certificates come and go in all of this. `Checked` is needed because those checks are made once, with the first
chunk, and used with the last; `SigCurrent` because `DbIsDisk` alone does not say that
a signed policy loads at all. `WrittenWhole` is the arithmetic of `SigPart`: a chunk that
does not split the signature adds to the two files together exactly what was sent.
`ChunkKeeps` is shared by first and further messages, `LoadingAgrees` by reload and the two
kinds of crash.

### 4.4 `ContextProofs`

For any processes, users, priorities, connections, programs and rule chains
(`ProcAssumption`):

| Theorem | Statement |
|---|---|
| `TrackingInvariant` | `Safe => []Tracking` |
| `BorrowedIsGivenBack` | `Safe => GivenBack` |
| `Inductive` | if `"open" \notin UidChanges`: `Safe => []IInv` |
| `RulesAlwaysInForce` | under the same condition: `Safe => []RulesInForce` |
| `NeverFreedRuleset` | under the same condition: `Safe => []NoFreedRuleset` |
| `AlwaysConfined` | under the same condition: `Safe => Confined` |

The condition is the one the run `contexts_stale` is about: without it `NoFreedRuleset` is
false (section 5), so it cannot be dropped; the run `contexts` satisfies it. `Tracking`
(types; connections join living processes; a context is kept aside only while its connection
lasts) needs no condition, and neither does `BorrowedIsGivenBack`: whatever happens to
connections, forks and new policies, the context of one's own (`OwnCtx`) is changed by what the process
itself does or by a policy that replaces it, never by the beginning or the end of a connection. `IInv` adds `ContextsProper`: every context, the one kept aside
included, is without rules or is exactly what a search of the ruleset *in force* finds for
the program of the context. It is this form that is inductive: `RulesInForce` alone does not
say that `Refresh`, which searches again for the program of the old context, or a switch
that copies the ruleset, ends up in the right block. `AlwaysConfined` follows action by
action from it.

The first attempt at `AlwaysConfined` failed for a good reason: as it stood, the property
looked up the program of the peer of a connection for the user of the borrower. The code
(`pe_context_borrow`) searches for the user of the peer; the property now says so.

### 4.5 `PlaygroundProofs`

For any processes, users, files, requests and restarts:

| Theorem | Statement |
|---|---|
| `PlaygroundInvariant` | `Safe => [](PInv /\ HandedOut)` |
| `AlwaysAnsweredOnce` | `Safe => []AnsweredOnce` |
| `CommitsAlwaysAllowed` | `Safe => CommitsAllowed` |
| `NeverTakenOver` | `Safe => NoTakeover` |
| `CountersAlwaysExact` | if `~Moves`: `Safe => []CountersExact` |

Most actions of `Processes` do one of few things to playgrounds; `PgStep` lists them, and
every action of `Next` is shown to be one of them. `PInv` is then proved for each: a
commit is in exactly one of four places (queued, with a scanner, on the way back, answered:
`InOnePlace`, `Unanswered`, `Awaited`), and whoever is allowed to commit a file when he asks is
still an owner of its playground when the scanner ends (`RequestsAllowed`), because owners are never
taken away and a label moves out of a playground only. `CountStep` does the same for the
processes that are counted: a step lets one process join or leave one playground, or changes
no counter. Writes may fail: an entry whose path could not be written stays and is not counted
(`pe_playground.c:641`), so `CountersExact` says of the files of a `torn` directory nothing, and
of its processes and of all other directories everything. `~Moves` cannot be dropped: a process that moves
is taken off the playground it goes to (`pe_proc.c:244`, section 5).

`NeverTakenOver` is about every id that is handed out between two starts: neither a directory
that somebody has founded nor a record with an owner or with a running process has it already.
It is not a matter of `InitPgid` alone, as records and directories also come from
labels of files (`Playground.Created`), renames, failed writes and starts in any order. Its invariant is
`Founded` (what somebody has founded has an id up to `kpg`, in memory and on disk) with
`HandedOut` (tracked processes are in ids up to `kpg`); a start re-establishes both
from the disk although the saved id may be lost.

### 4.6 `RulesProofs`

For all policies, paths, events and hash functions (`RulesAssumption`, whose `Policy` says
what the parser guarantees about a rule):

| Theorem | Statement |
|---|---|
| `HashAlwaysInvisible` | `Spec => []HashIsInvisible` |
| `SfsHashInvisible` | `DecideSfs` gives the same reply with the hash and with all rules |
| `RenamesKeepRules` | `Spec => []RenameKeepsRules` |
| `AdminAlwaysPrevails` | `Spec => []AdminPrevails` |
| `RuleAlwaysReported` | `Spec => []RuleReported` |

The first three rest on `CandidatesComplete`: a rule whose path is a prefix of the path of the
event is among the candidates. The converse fails (collisions), which is why the
evaluators compare paths again. For the sandbox this is not quite enough: if there are no
candidates at all, `pe_decide_sandbox` leaves the block out, and with all rules it does not. The
difference is invisible because a round without a match gives an access mode that was not
decided nothing but *allow* (`SbRound`, `PassedSettled`, `SecondRound`). `AdminAlwaysPrevails` follows the
accumulator through both priorities: the administrator's policy asks nothing (part of
`RulesAssumption`), so the second round starts only from a state that denies
and asks nothing (`SfsStepTyped`, `SbStepTyped`), log levels only grow, and `MergeIs` says that
the merged reply is at least as strict and as loud as each of the two.

### 4.7 `DaemonProofs`

For any events, rules, clients, registrations, verdicts and chunks, and SIGTERM at any
time (`DaemonAssumption`):

| Theorem | Statement |
|---|---|
| `DaemonTypes` | `Safe => []TypeOK` |
| `OneOwnerAlways` | `Safe => []OneOwner` |
| `AnsweredOrHeldAlways` | `Safe => []AnsweredOrHeld` |
| `AllAnsweredAlways` | `Safe => [](LockTokens = {} => AllAnswered)` |
| `OneUpgradeRoundAlways` | `Safe => []OneUpgradeRound` |

The obligation to answer is a sum over the kernel queue, three pipes, `replyq`, the hold
queue and the device. `Num(q, kinds)` counts the messages of a kind in a queue, and the
lemmas at the head of the module say how it changes when a message is appended, read or
moved. With them every handler moves a 1 from one summand to the next (`OwnerOK`). What
could lose one is a queue that is dropped or a process that leaves early: `ShutOK` says
what must hold before each pipe is closed (the policy engine has no open escalation, the
master has written all replies), which is the argument behind the levels of `terminate`.
`TypeOK` has to be strong enough to say which messages a pipe can hold at all, and that a
client can only answer for a head that is still there.

`AllAnswered` as it stands does not hold with upgrades: replies held back are lost when
the daemon stops before the upgrade ends (section 5). `AnsweredOrHeld` says that nothing
else is ever lost, and `AllAnsweredAlways` follows where no event concerns the lock.

`RoundOK` is `OneUpgradeRound` in terms of `Num`, with one more fact, that upgrade parents
imply a file tree; without it the exit of the last parent could start a second round.

### 4.8 `ArbiterProofs`

On top of `DaemonProofs`, under the same assumption:

| Theorem | Statement |
|---|---|
| `HeadsAlwaysAwaited` | `Safe => []HeadsAreAwaited` |
| `EscalationAlwaysHonoured` | `Safe => []EscalationHonoured` |
| `DaemonIsArbiter` | `Safe => ImplementsArbiter` |

None of the three is inductive. Two invariants carry them, each relative to the one before:

* `Talk`, the conversation of the two engines about an escalation. `InOrder`: on the pipe to
  the session engine its ASK, if still there, is before its cancel, and there is one of each.
  `LineOK`: ASK, head and answer exclude each other, a cancel is sent only when the entry has
  left `replyq`, and whoever may still answer is awaited or has a cancel behind him. `Origin`:
  an event is escalated once, and has left the queues to the policy engine by then. That it
  cannot come back is `OneOwner`: the entry in `replyq` is its only owner (`OwnerLeft`).
* `Honest`, what the replies say. Every reply between policy engine and device, and every one
  that was written, is `Good`: a reply of the rules (or of the master, or for the lock) if
  the event was not escalated, else a denial, or the decision of the notify library, whose
  own flag bits stay, with those of the entry added (`WithFlags`). What could break it: a late answer for an entry that timed out, a
  decision that changes after its reply has left, and an event that is escalated when a reply
  to it exists. The first is `replyq`, the second `Talk`, the third `OneOwner` again
  (`SingleReply`).

`DaemonIsArbiter` then needs, for each step, its counterpart: `Post` is `Raise`, `ProcessExit`
is `Leave`, the call of the notify library that finishes a head is `Decide` (`DecisionStep`: it had
no decision before), a write to the device is `Reply` (`WriteStep`: it is the first, `GoodReplies`:
the arbiter may give it), and all other steps of the four processes are invisible.

### 4.9 Only model-checked

Liveness under fairness (`EscalationsEnd`, `StopCompletes`, `EventsAnswered`,
`RequestsAnswered`, the fairness in `ImplementsLiveArbiter`): out of the proof system's
reach. All safety properties of the passing runs are proved; `AllAnswered` where no event
concerns the upgrade lock, `CountersExact` where no process moves between playgrounds, both
as in their runs.

## 5. Where the code and its documentation disagree

**`contexts_stale`.** `pe_proc_update_db_one` "must remove all references to the old
ruleset from tracked processes" (`pe_proc.c:840`), because the caller frees it
(`pe_user.c:569`). It looks at the current context only. A process that has borrowed
a context has its own one in `saved_ctx`. If it then changes its user and opens a
file, and the borrowed block allows the switch, `pe_context_open` takes the rules of
the new user; a new policy for the first user passes the process over, and its saved
context keeps the freed ruleset until the connection ends and restores it. In
`contexts` the user changes before fork and exec only (exec drops the saved context),
and `NoFreedRuleset` holds.

**`daemon_flags`.** Of the flags of a rule that an escalated event keeps in its
`struct reply_wait`: "These flags cannot be influenced by the user." (`policy.c:102`). The
verdict of a client is a number that `anoubis_process_reply` takes from the message
(`anoubis_server.c:516`); the notify library refuses negative numbers only
(`anoubis_notify.c:401`), the session engine passes the number on (`session.c:655`), and the
policy engine combines it with the flags of the rule by OR (`policy.c:1326`). So flags of the
rule are never lost (`EscalationHonoured`), but a client whose number has the bit of a flag
set adds that flag: `FlagsOfRule` is violated.

Noted while reading, without a run of their own:

* The log level of a sandbox decision is to be the "highest log level of those
  replies that have the same verdict as the final result" (`pe_sandbox.c:335-336`); the code takes the highest of all access modes
  (`pe_sandbox.c:433-436`, "Always use the highest log level"). `AdminPrevails` states
  what the code does.
* A reload removes every scope ("Thus we have to kill all scopes", `pe_user.c:488`, done at
  521); an upload activates scoped rules as they are. A SIGHUP therefore ends
  temporary rules whose task still runs. `DbIsDisk` allows for this and for nothing else.
* A certificate is looked for at the first message of an upload (`pe_user.c:976`), the
  signature that was or was not announced is verified at the last (`pe_user.c:1088`). If SIGHUP
  loads a certificate in between, an unsigned policy is stored and used; the next reload
  skips it.
* At a borrow the current context "will be saved and restored once the connection
  identified by the connection cookie terminates" (`pe_context.c:760-761`). A second borrow
  saves nothing (`pe_proc.c:883`), the connection noted stays the first one, and its end gives
  the context back although the second connection lasts.
* `pe_proc_set_playgroundid` "makes sure that the playground management accounts for the new
  pgid" (`pe_proc.c:231`). If the process had a playground before, `pe_playground_delete` is
  called after the field was set, with the new id (`pe_proc.c:244`): the old playground keeps
  its count for ever. With `Moves = TRUE` in `MCProcesses_playground.cfg`, TLC finds
  `CountersExact` violated. Whether the kernel lets a process move is not in this repository.
* The record has "the total number of playground files that are known to this
  playground" (`pe_playground.c:103`); an
  entry whose path could not be written is left there and not counted
  (`pe_playground.c:641`). This is the exception `torn` in `CountersExact`.
* The last id is saved to "avoid collisions of playground IDs" after a reboot
  (`pe_playground.c:1527`), but only at the first exec of the founder (`pe_playground.c:452`),
  and the file is truncated before it is written (`pe_playground.c:1540`). Files labelled with an id whose directory has gone may meet
  the id again after a reboot; `NoTakeover` says that this needs a playground which
  left neither directory nor record.

* Level 3 of the termination of the policy engine denies "all remaining events that
  have not been answered" and "completes the termination process"
  (`policy.c:183-185`). Replies held back for an upgrade (`eventq_p2m_hold`,
  `policy.c:993`) are not in `replyq`: if the daemon stops while the update runs, they
  are never sent.
* The result message informs a peer "of the actual return code"
  (`man/anoubis_notify.3:133`). A peer whose answer is overtaken by the timeout is told
  that its answer was used, while the kernel got the denial (`policy.c:1312`).
* Unregistration "is only possible with the exact same parameters"
  (`man/anoubis_notify.3:178`); `reg_match` lets a wildcard registration be removed with
  other parameters.
* "The user is notified of any error via error messages" (`policy.c:1217`); the default
  branch of `dispatch_list_request` (`policy.c:1245`) sends none, and the channel stays
  busy.
* Port ranges: `pe_addrmatch_port` is to "return true if the socket port matches"
  (`pe_alf.c:786`), the parser checks the order of the bounds of a range, but the
  comparison is of numbers in network byte order (`pe_alf.c:821`): on a little-endian
  machine other ports match.
* The sandbox reports "the rule IDs" of a partial match (`pe_sandbox.c:424`); for an
  allowed event, an access mode that was not requested can replace the id by 0.
* "New contexts will be created in this case" (`pe_user.c:563`), when a user gets his
  first policy: a process without a context is skipped (`pe_proc.c:856`) and stays
  without rules until its next exec.
* The rest of a signature that is split over chunks is computed from its whole length
  (`pe_user.c:1049`), so that part of the policy is taken for signature.
* `session.c:336` admits one session more than the "Maximum number of client
  connections per user" (`anoubisd.h:97`); the callback of a head is called "exactly
  once for each notify head when a return code has been received"
  (`man/anoubis_notify.3:160-161`) but not after a negative return code;
  `dispatch_auth_challenge` (`session.c:1135`) goes on after a failure it has already
  reported.

## 6. Not modelled

* The size of the repository: about 79,000 of its 137,000 lines of code are the
  graphical client `xanoubis`, and most of the rest are command line tools, the
  parser, tests and kernel headers. The modules are about the daemon, which is where
  several actors meet; the share of all lines they stand for stays small.
* Checksum store, content of certificates, cryptography (`sfs.c`, `cert.c`): sequences of
  file system calls of one process; which checksum is registered is a constant of `Rules`
  and `Processes`. Of a certificate `PolicyStore` knows whether there is one.
* `pe_filetree.c`, `pe_sfscache.c`: a set and a cache that is flushed on change.
* In the master: forking and supervising the children, emergency shutdown (SIGQUIT or
  a lost child), version check. In the policy engine: the UNLOCK event, root key,
  upgrade marks of child processes, `upgrade_ok` (`pe.c:910-916`, root key: the lock is
  refused). In the session engine: passphrase requests.
* Out of memory in `send_upgrade_start` and `send_upgrade_chunk` (`policy.c:529-532`,
  604-607): the message is not sent, so the round never ends and the processes that
  were held stay held. `OneUpgradeRound` and `EventsAnswered` are about rounds whose messages are sent.
* Failure of `time()` in the rule evaluation (`pe_sandbox.c:105-108`, 229-233), which denies.
* Of the rules: the upgrade mode of SFS. Of playgrounds: several paths of a file, the
  text of the scanners, reuse of inodes (`pe_playground.c:1432` leaves the check of the
  path to the master, which compares device and inode), and the checks of the path in a
  commit request
  (`pe_playground.c:1422`, 1431-1443), which end in the same error answer as the others.
  The read event of a scanner is registered on `scanfile`, not on its pipe (`scanner.c:785`);
  the model has the exit of the scanner only and does not show the difference.
* Liveness of commits: that a scanner ends is up to the scanner and its timeout.
  `AnsweredOnce` says that no reply is lost on the way.
* Real time, partial reads and writes, message layout and its verification, logging.
* The client library (`anoubis_client.c`, `anoubis_transaction.c`): `Server` accepts the
  messages of a client in any order, so it includes every client.
* The rule language, the user interfaces and the tools.

## 7. Plan

Done: all modules of section 2, and proofs of every safety property the runs check, the
refinement of `Arbiter` among them.

Next, in this order:

1. Emergency shutdown of the master; UNLOCK and child marks in `Policy`. The invariants of
   `DaemonProofs` have to be extended with them.
2. An abstract specification of `Server` (every accepted request is answered once, and
   only to the session that made it) and the proof that `Server` implements it.
