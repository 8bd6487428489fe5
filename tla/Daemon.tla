------------------------------- MODULE Daemon -------------------------------
(***************************************************************************)
(* The anoubis daemon: the master, policy, session and upgrade processes,  *)
(* connected by their pipes (README.privsep, main.c).  Every process is    *)
(* single threaded; a step of the daemon is one handler of one process.    *)
(* The messages of a pipe and the set of closed pipes are shared, all      *)
(* other state belongs to one process.                                     *)
(***************************************************************************)
EXTENDS Messages, FiniteSets

CONSTANTS
    Tokens, ChildTokens, NoteTokens, LockTokens,        \* see Master, Policy
    PolicyReplies, Logging, MaxChunks,                  \* see Policy
    Groups, NoGroup, NoHead, Uids, Regs, MaxRegs,       \* see Notify
    Verdicts, Limit, Failures, EventOf, MaxConns,       \* and Session
    MayStop                                             \* SIGTERM can happen

\* The events of the daemon's own processes need an answer, and no user id or
\* head is NULL.
ASSUME DaemonAssumption ==
    /\ Tokens \subseteq Nat /\ ChildTokens \cap NoteTokens = {}
    /\ PolicyReplies \subseteq [verdict : Int, flags : FlagSets] /\ MaxChunks \in Nat
    /\ Verdicts \subseteq Int /\ Uids \subseteq Int /\ IsFiniteSet(Groups)
    /\ NoGroup \notin Groups \cup Uids
    /\ NoHead \notin [verdict : Int, you : Groups \cup {NoGroup}, uid : Int,
                      reply : BOOLEAN, eventcount : Int]

VARIABLES
    m2p, p2m, m2s, m2u, u2m, p2s, s2p, closed, signals, \* between processes
    evq, kern, written, declared,                       \* kernel
    mterm, m2dev, upgradedFiles, mexit,                 \* master
    replyq, p2mHold, terminate, polEof, parents, held, tree, chunks,
    gid, regs, pending, head, dying, told, news, done,  \* notify library
    headq, sterm, sesEof,                               \* session engine
    escalated       \* history: every entry that was ever in replyq

M == INSTANCE Master
P == INSTANCE Policy
S == INSTANCE Session
U == INSTANCE Upgrade

pipes == <<m2p, p2m, m2s, m2u, u2m, p2s, s2p, closed, signals>>
master == <<evq, kern, written, declared, mterm, m2dev, upgradedFiles, mexit>>
policy == <<replyq, p2mHold, terminate, polEof, parents, held, tree, chunks>>
session == <<gid, regs, pending, head, dying, told, news, done, headq, sterm, sesEof>>
vars == <<pipes, master, policy, session, escalated>>

Init ==
    /\ m2p = <<>> /\ p2m = <<>> /\ m2s = <<>> /\ m2u = <<>> /\ u2m = <<>>
    /\ p2s = <<>> /\ s2p = <<>> /\ closed = {} /\ escalated = {}
    /\ M!Init /\ P!Init /\ S!Init

-----------------------------------------------------------------------------
(* The steps of one process leave the others alone.                        *)

NotMaster  == UNCHANGED <<p2s, s2p, policy, session, escalated>>
NotPolicy  == UNCHANGED <<m2s, m2u, u2m, master, session>>
NotSession == UNCHANGED <<m2p, p2m, m2u, u2m, master, policy, escalated>>
NotUpgrade == UNCHANGED <<m2p, p2m, m2s, p2s, s2p, signals, master,
                          policy, session, escalated>>

Master == M!Handle /\ NotMaster
Kernel == M!Environment /\ NotMaster
Stop == MayStop /\ M!Sigterm /\ NotMaster

\* dispatch_m2p and the other callbacks of the policy engine.
Escalate == escalated' = escalated \cup replyq'
Policy == P!Handle /\ NotPolicy /\ Escalate /\ UNCHANGED signals
Timer(t) ==
    /\ \E w \in replyq : w.token = t /\ P!Expire(w)
    /\ NotPolicy /\ Escalate /\ UNCHANGED signals
PolicyTerm ==
    /\ "policy" \in signals /\ signals' = signals \ {"policy"}
    /\ P!Sigterm /\ NotPolicy /\ Escalate

Session == S!Handle /\ NotSession /\ UNCHANGED signals
Client == S!Client /\ NotSession /\ UNCHANGED signals
SessionTerm ==
    /\ "session" \in signals /\ signals' = signals \ {"session"}
    /\ S!Sigterm /\ NotSession

Upgrade == U!Next /\ NotUpgrade

Next ==
    \/ Master \/ Kernel \/ Stop
    \/ Policy \/ PolicyTerm \/ \E t \in Tokens : Timer(t)
    \/ Session \/ Client \/ SessionTerm
    \/ Upgrade

SessionEvent(A) == A /\ NotSession /\ UNCHANGED signals

\* Every process handles its input and its signals; the timer of the policy
\* engine runs every five seconds and every escalation has a finite timeout.
\* libevent serves all descriptors that are ready before it looks again, so
\* clients that come and go do not keep the session engine from its pipes and
\* its signals: strong fairness, as these wait while a session is destroyed.
\* Nothing is assumed of clients, of the processes the kernel reports about
\* and of whoever stops the daemon.
Fairness ==
    /\ WF_vars(Master) /\ WF_vars(Policy) /\ WF_vars(PolicyTerm) /\ WF_vars(Upgrade)
    /\ WF_vars(SessionEvent(S!Destroying \/ S!Exit)) /\ SF_vars(SessionTerm)
    /\ SF_vars(SessionEvent(S!FromPolicy)) /\ SF_vars(SessionEvent(S!FromMaster))
    /\ \A t \in Tokens : WF_vars(Timer(t))

Safe == Init /\ [][Next]_vars
Spec == Safe /\ Fairness

-----------------------------------------------------------------------------
(* The abstract view: one answer per event                                 *)

\* The replies that need no user: of the master, for upgrades, of the rules.
OwnReplies == [t \in Tokens |->
    IF t \in ChildTokens THEN [verdict: {0, 1}, flags: {{}}]
    ELSE IF t \in LockTokens THEN [verdict: {0}, flags: {{}}]
    ELSE PolicyReplies]

A == INSTANCE Arbiter WITH state <- kern, opinion <- done, answer <- written,
                           Rules <- OwnReplies

-----------------------------------------------------------------------------
(* Where an event is                                                       *)

\* How often q holds a message of one of the types for token t.
Count(q, types, t) ==
    Cardinality({i \in DOMAIN q : q[i].type \in types /\ q[i].token = t})

\* The places where the obligation to answer event t can be.
Obligations(t) ==
    Count(evq, {"EVENTDEV"}, t) + Count(m2p, {"EVENTDEV"}, t)
    + Cardinality({w \in replyq : w.token = t})
    + Count(p2mHold, {"EVENTREPLY"}, t) + Count(p2m, {"EVENTREPLY"}, t)
    + Count(m2dev, {"EVENTREPLY"}, t) + Len(written[t])

\* The tokens the kernel waits for.
Asking == Tokens \ NoteTokens

\* Messages of the upgrade protocol in transit.
Transit(q) == Cardinality({i \in DOMAIN q : q[i].type = "UPGRADE"})
UpgradeTransit == Transit(p2m) + Transit(m2u) + Transit(u2m) + Transit(m2p)

-----------------------------------------------------------------------------
(* Properties                                                              *)

\* The obligation to answer an event is never lost and never duplicated: from
\* the moment the kernel queues it, exactly one of the kernel queue, a pipe,
\* replyq, the hold queue and the device owns it, so at most one reply is
\* written (eventdev.4: a single reply for each message) whatever answers,
\* timeouts and disconnects race.
OneOwner ==
    \A t \in Asking : Obligations(t) = IF kern[t] = "idle" THEN 0 ELSE 1

\* An escalated event is denied, or answered with what the notify library
\* reported and all flags of its rule (dispatch_s2p, dispatch_timer): never more
\* permissive than the decision of the peers, and with no flag of the rule lost.
EscalationHonoured ==
    \A w \in escalated : written[w.token] # <<>> =>
        LET r == written[w.token][1] IN
        \/ r = [verdict |-> P!EPERM, flags |-> {}]
        \/ r = [verdict |-> P!EPERM, flags |-> w.flags]
        \/ done[w.token] # <<>> /\ r = WithFlags(done[w.token][1], w.flags)

\* struct reply_wait on the flags of a rule: "These flags cannot be influenced by
\* the user." (policy.c:102)
FlagsOfRule ==
    \A w \in escalated : written[w.token] # <<>> =>
        written[w.token][1].flags \subseteq w.flags

\* headq lists the live heads, no more and no fewer, and a session engine that
\* waits for an answer nobody else waits for has been told so: the entry is in
\* replyq, or its EVENTCANCEL or its answer is on the way, or the pipe to the
\* session engine is already shut down.
HeadsAreAwaited ==
    /\ headq = {t \in Tokens : head[t] # NoHead}
    /\ \A t \in headq :
          \/ \E w \in replyq : w.token = t
          \/ Count(p2s, {"EVENTCANCEL"}, t) = 1
          \/ head[t].reply
          \/ "p2s" \in closed

\* The checksums of an upgrade are being updated exactly while one message of
\* the upgrade protocol is in transit; nobody is an upgrade parent then, so
\* END never destroys the file tree of a running upgrade (pe_upgrade_finish).
\* A reply is held back only while an update is in progress that will release
\* it (reply->hold, pe_proc_release).
OneUpgradeRound ==
    /\ UpgradeTransit <= 1
    /\ UpgradeTransit = 1 => tree /\ parents = {}
    /\ mterm < 2 /\ tree /\ parents = {} => UpgradeTransit = 1
    /\ mterm < 2 /\ (p2mHold # <<>> \/ held # {}) => tree /\ parents = {}

\* When the master leaves its event loop, every event that was read from the
\* device has its answer.
AllAnswered ==
    mexit => \A t \in Asking : kern[t] # "idle" => Len(written[t]) = 1

\* To the kernel, the daemon is the arbiter: pipes, races and timeouts only
\* ever produce one answer per event, and one the arbiter could have given.
ImplementsArbiter == A!Safe

\* The same, and every waiting process is answered, under the daemon's fairness.
ImplementsLiveArbiter == A!Spec

\* No process waits for the daemon for ever, whatever its clients do.
EventsAnswered ==
    \A t \in Asking : kern[t] = "waiting" ~> kern[t] # "waiting"

\* An escalation does not stay open with the session engine for ever: it ends,
\* or only the verdicts that refused peers still owe are awaited, or the
\* session engine has gone.
EscalationsEnd ==
    \A t \in Tokens :
        t \in headq ~> (t \notin headq \/ head[t].reply \/ "s2p" \in closed)

\* SIGTERM ends the daemon, no two processes wait for each other's EOF.
StopCompletes == mterm = 1 ~> mexit

=============================================================================
