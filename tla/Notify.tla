------------------------------- MODULE Notify -------------------------------
(***************************************************************************)
(* Notification groups and heads of the protocol server                    *)
(* (libanoubis/anoubisprotocol/server/anoubis_notify.c).                   *)
(*                                                                         *)
(* A group is the notification side of one client session; a head tracks   *)
(* one escalated kernel event (an ASK) that was sent to some groups.  The  *)
(* struct anoubis_notify_event that links group g to the head of token t   *)
(* is pending[g][t]; its two flags give the four states                    *)
(*                                                                         *)
(*    "none"     no such event (never sent, or both flags set and freed)   *)
(*    "open"     no flag: the peer owes a verdict, the server a result     *)
(*    "verdict"  FLAG_VERDICT: the peer will not send a verdict any more   *)
(*    "replied"  FLAG_REPLY: result sent, event unlinked from its head     *)
(*                                                                         *)
(* head->events is therefore Peers(pending, t), the events without         *)
(* FLAG_REPLY.  One process runs all of this code, so each API call is one *)
(* action, except anoubis_notify_destroy: its loop over the pending events *)
(* takes one step per event and excludes every other call (dying).         *)
(***************************************************************************)
EXTENDS Integers, Sequences, FiniteSets

CONSTANTS
    Groups,         \* slots for notify groups (one per client session)
    NoGroup,        \* NULL
    Tokens,         \* kernel tokens of escalated events; 0 is never valid
    NoHead,         \* head pointer of a token without a live head
    Uids,           \* user ids a client can be authenticated as
    Regs,           \* registrations clients ask for: [uid, ruleid, subsystem]
    MaxRegs,        \* bound on the registrations of one group
    Events,         \* what an event matches on: [uid, ruleid, subsystem]
    News,           \* messages that need no answer (see Matches)
    Verdicts,       \* verdicts a peer can send (u_int32_t read as int)
    Limit,          \* ANOUBISD_MAX_PENDNG_EVENTS
    Failures        \* what may fail: subset of {"send", "oom"}

ROOT  == 0
ANYUID == -1        \* (uid_t)-1
STAT  == 20         \* ANOUBIS_SOURCE_STAT
EPERM == 1
ANOUBIS_E_IO == 5

ASSUME NotifyAssumption ==
    /\ IsFiniteSet(Groups) /\ NoGroup \notin Groups
    /\ Tokens \subseteq Nat /\ Verdicts \subseteq Int
    /\ NoHead \notin [verdict: Int, you: Groups \cup {NoGroup}, uid: Int,
                      reply: BOOLEAN, eventcount: Nat]
    /\ Uids \subseteq Int /\ NoGroup \notin Uids
    /\ \A e \in Events : e.uid \in Int /\ e.subsystem # STAT
    /\ Limit \in Nat /\ MaxRegs \in Nat

VARIABLES
    gid,        \* ng->uid of every live group, NoGroup for a free slot
    regs,       \* ng->regs, newest first
    pending,    \* the events of ng->pending, by token
    head,       \* the live heads, by token
    dying,      \* the group anoubis_notify_destroy is working on, or NoGroup
    told,       \* per group and token: the ASK sent and the result, LOST or not
    news,       \* per group: the messages without an answer sent to it
    done        \* per token: the verdicts head->finish was called with

vars == <<gid, regs, pending, head, dying, told, news, done>>

Live == {g \in Groups : gid[g] # NoGroup}
EventStates == {"none", "open", "verdict", "replied"}
Heads == [verdict: Int, you: Groups \cup {NoGroup}, uid: Int,
          reply: BOOLEAN, eventcount: Nat]
\* The ASK and result messages; LOST is a result that could not be sent.
Sent == [type: {"ASK"}, uid: Int]
        \cup [type: {"RESYOU", "RESOTHER", "LOST"}, verdict: Int, uid: Int]

\* The events linked to the head of t, given the event states p.
Peers(p, t) == {g \in Groups : p[g][t] \in {"open", "verdict"}}
\* The events of ng->pending.
PendingOf(g) == {t \in Tokens : pending[g][t] # "none"}

Init ==
    /\ gid = [g \in Groups |-> NoGroup]
    /\ regs = [g \in Groups |-> <<>>]
    /\ pending = [g \in Groups |-> [t \in Tokens |-> "none"]]
    /\ head = [t \in Tokens |-> NoHead]
    /\ dying = NoGroup
    /\ told = [g \in Groups |-> [t \in Tokens |-> <<>>]]
    /\ news = [g \in Groups |-> {}]
    /\ done = [t \in Tokens |-> <<>>]

-----------------------------------------------------------------------------
(* Groups and registrations                                                *)

\* anoubis_notify_create: a new group in a free slot.
Create(g, uid) ==
    /\ dying = NoGroup /\ gid[g] = NoGroup
    /\ gid' = [gid EXCEPT ![g] = uid]
    /\ regs' = [regs EXCEPT ![g] = <<>>]
    /\ told' = [told EXCEPT ![g] = [t \in Tokens |-> <<>>]]
    /\ news' = [news EXCEPT ![g] = {}]
    /\ UNCHANGED <<pending, head, dying, done>>

RegisterAny(uid, r) == r.subsystem = STAT => r.uid = 0 /\ r.ruleid = 0

\* anoubis_register_ok
RegisterOk(uid, r) ==
    IF r.subsystem = STAT THEN r.uid = 0 /\ r.ruleid = 0
    ELSE uid = ROOT \/ (uid = r.uid /\ uid # ANYUID)

\* anoubis_notify_register; duplicates are kept.
Register(g, r) ==
    /\ dying = NoGroup /\ g \in Live /\ Len(regs[g]) < MaxRegs
    /\ RegisterOk(gid[g], r)
    /\ regs' = [regs EXCEPT ![g] = <<r>> \o @]
    /\ UNCHANGED <<gid, pending, head, dying, told, news, done>>

\* reg_match: does registration r cover what e describes?
RegMatch(r, e) ==
    /\ r.uid = ANYUID \/ r.uid = e.uid
    /\ r.ruleid = 0 \/ r.ruleid = e.ruleid
    /\ r.subsystem = 0 \/ r.subsystem = e.subsystem

\* reg_match_all
RegMatchAll(g, e) == \E i \in DOMAIN regs[g] : RegMatch(regs[g][i], e)

\* anoubis_notify_unregister: drop the first registration that covers r.
Unregister(g, r) ==
    /\ dying = NoGroup /\ g \in Live
    /\ \E i \in DOMAIN regs[g] :
          /\ RegMatch(regs[g][i], r)
          /\ \A j \in 1..(i-1) : ~RegMatch(regs[g][j], r)
          /\ regs' = [regs EXCEPT ![g] =
                        SubSeq(@, 1, i-1) \o SubSeq(@, i+1, Len(@))]
    /\ UNCHANGED <<gid, pending, head, dying, told, news, done>>

-----------------------------------------------------------------------------
(* Sending messages                                                        *)

\* Channels a send may fail on, and whether an allocation may fail, in one call.
SendFailures == IF "send" \in Failures THEN SUBSET Groups ELSE {{}}
OutOfMemory == IF "oom" \in Failures THEN BOOLEAN ELSE {FALSE}

\* What anoubis_notify compares with the registrations of a group.
Key(m) ==
    CASE m.type \in {"POLICYCHANGE", "PGCHANGE"} ->
              [uid |-> m.uid, ruleid |-> 0, subsystem |-> STAT]
      [] m.type = "STATUSNOTIFY" -> [uid |-> 0, ruleid |-> 0, subsystem |-> STAT]
      [] OTHER -> [uid |-> m.uid, ruleid |-> m.ruleid, subsystem |-> m.subsystem]

\* The part of anoubis_notify before the message type matters: m goes to g if
\* g may see it, registered for it and has no pending event with its token.
Wanted(g, m) ==
    /\ g \in Live
    /\ m.type = "POLICYCHANGE" => gid[g] \in {ROOT, m.uid}
    /\ m.type = "PGCHANGE" => gid[g] = m.uid
    /\ m.type \in {"ASK", "NOTIFY", "LOGNOTIFY"} =>
          m.token # 0 /\ (m.token \in Tokens => pending[g][m.token] = "none")
    /\ RegMatchAll(g, Key(m))

AskMsg(t, e) == [type |-> "ASK", token |-> t, uid |-> e.uid,
                 ruleid |-> e.ruleid, subsystem |-> e.subsystem]

\* anoubis_notify for an ASK: the limit on pending events applies as well.
MayAsk(g, t, e) ==
    /\ Wanted(g, AskMsg(t, e))
    /\ Limit = 0 \/ Cardinality(PendingOf(g)) < Limit

Asked(e) == [type |-> "ASK", uid |-> e.uid]
Result(you, v, uid, ok) ==
    [type |-> IF ~ok THEN "LOST" ELSE IF you THEN "RESYOU" ELSE "RESOTHER",
     verdict |-> v, uid |-> uid]

\* The groups that get the ASK of token t if the sends to fail break.
Recipients(t, e, fail) == {g \in Groups : MayAsk(g, t, e)} \ fail

\* anoubis_notify_create_head followed by anoubis_notify for every group.
\* Without a recipient the caller destroys the head at once.
Ask(t, e, fail) ==
    LET rcpt == Recipients(t, e, fail) IN
    /\ dying = NoGroup /\ head[t] = NoHead
    /\ pending' = [g \in Groups |->
            IF g \in rcpt THEN [pending[g] EXCEPT ![t] = "open"] ELSE pending[g]]
    /\ told' = [g \in Groups |-> [told[g] EXCEPT ![t] =
            IF g \in rcpt THEN <<Asked(e)>> ELSE <<>>]]
    /\ head' = IF rcpt = {} THEN head ELSE [head EXCEPT ![t] =
            [verdict |-> ANOUBIS_E_IO, you |-> NoGroup, uid |-> 0,
             reply |-> FALSE, eventcount |-> Cardinality(rcpt)]]
    /\ done' = [done EXCEPT ![t] = <<>>]
    /\ UNCHANGED <<gid, regs, dying, news>>

\* anoubis_notify for a message without an answer: sent and forgotten.
Inform(m, fail) ==
    /\ dying = NoGroup
    /\ news' = [g \in Groups |->
            IF Wanted(g, m) /\ g \notin fail THEN news[g] \cup {m} ELSE news[g]]
    /\ UNCHANGED <<gid, regs, pending, head, dying, told, done>>

-----------------------------------------------------------------------------
(* Verdicts and results                                                    *)

AfterReplyLinked(p, t, fail) == p
ResultsYouAll(p, t, v, you, uid, fail) == [g \in Groups |->
    IF g \in Peers(p, t)
    THEN [told[g] EXCEPT ![t] = Append(@, Result(TRUE, v, uid, g \notin fail))]
    ELSE told[g]]
ResultsOpenOnly(p, t, v, you, uid, fail) == [g \in Groups |->
    IF p[g][t] = "open"
    THEN [told[g] EXCEPT ![t] = Append(@, Result(g = you, v, uid, g \notin fail))]
    ELSE told[g]]
KeepHead(t) == head

\* The event states after the result was sent to every linked event of t: an
\* event whose peer answered, or cannot be reached, is freed (FLAG_REPLY).
AfterReply(p, t, fail) == [g \in Groups |->
    IF g \notin Peers(p, t) THEN p[g]
    ELSE [p[g] EXCEPT ![t] =
            IF @ = "verdict" \/ g \in fail THEN "none" ELSE "replied"]]

\* The result messages for the linked events of t.
Results(p, t, v, you, uid, fail) == [g \in Groups |->
    IF g \in Peers(p, t)
    THEN [told[g] EXCEPT ![t] = Append(@, Result(g = you, v, uid, g \notin fail))]
    ELSE told[g]]

\* anoubis_notify_destroy_head, called by head->finish.
DestroyHead(t) == [head EXCEPT ![t] = NoHead]

\* anoubis_notify_sendreply on head h of token t, event states p:
\* every linked event gets its result and loses its head, then finish is
\* called and frees the head.  A negative verdict is refused (-EINVAL), a
\* second reply ignored, and without memory only head->reply is set.
SendReply(t, h, p, v, you, uid, fail, oom) ==
    IF v < 0 \/ h.reply THEN
        /\ head' = [head EXCEPT ![t] = h] /\ pending' = p
        /\ UNCHANGED <<told, done>>
    ELSE IF oom THEN
        /\ head' = [head EXCEPT ![t] = [h EXCEPT !.reply = TRUE]]
        /\ pending' = p
        /\ UNCHANGED <<told, done>>
    ELSE
        /\ pending' = AfterReply(p, t, fail)
        /\ told' = Results(p, t, v, you, uid, fail)
        /\ head' = DestroyHead(t)
        /\ done' = [done EXCEPT ![t] = Append(@, v)]

DropVerdictTwice(h, state) == [h EXCEPT !.eventcount = @ - 1]

\* drop_event(nev, FLAG_VERDICT) on the head side.
DropVerdict(h, state) ==
    IF state = "open" THEN [h EXCEPT !.eventcount = @ - 1] ELSE h

RememberAlways(h, delegate) == delegate

\* A delegated verdict is only remembered while other peers can answer.
Remember(h, delegate) == delegate /\ h.eventcount > 0

\* anoubis_notify_answer: verdict v of group g for token t.
Answer(g, t, v, delegate, fail, oom) ==
    /\ dying = NoGroup /\ g \in Live
    /\ \/ /\ pending[g][t] = "replied"
          /\ pending' = [pending EXCEPT ![g][t] = "none"]
          /\ UNCHANGED <<head, told, done>>
       \/ /\ pending[g][t] = "open"
          /\ LET p == [pending EXCEPT ![g][t] = "verdict"]
                 h == [DropVerdict(head[t], "open") EXCEPT
                          !.verdict = v, !.uid = gid[g], !.you = g]
             IN  IF Remember(h, delegate)
                 THEN /\ pending' = p
                      /\ head' = [head EXCEPT ![t] = h]
                      /\ UNCHANGED <<told, done>>
                 ELSE SendReply(t, h, p, v, g, gid[g], fail, oom)
    /\ UNCHANGED <<gid, regs, dying, news>>

\* anoubis_notify_sendreply called from outside: the event is aborted.
Abort(t, v, fail, oom) ==
    /\ dying = NoGroup /\ head[t] # NoHead
    /\ SendReply(t, head[t], pending, v, NoGroup, 0, fail, oom)
    /\ UNCHANGED <<gid, regs, dying, news>>

\* anoubis_notify_destroy, entry: registrations go first.
DestroyStart(g) ==
    /\ dying = NoGroup /\ g \in Live
    /\ dying' = g
    /\ regs' = [regs EXCEPT ![g] = <<>>]
    /\ UNCHANGED <<gid, pending, head, told, news, done>>

\* anoubis_notify_destroy, loop: drop the event of token t; if that was the
\* last one that could be answered, reply with what the head remembers.
DestroyEvent(t, fail, oom) ==
    /\ dying # NoGroup /\ pending[dying][t] # "none"
    /\ LET p == [pending EXCEPT ![dying][t] = "none"]
           h == DropVerdict(head[t], pending[dying][t])
       IN  IF pending[dying][t] = "replied"
           THEN pending' = p /\ UNCHANGED <<head, told, done>>
           ELSE IF h.eventcount > 0
           THEN /\ pending' = p /\ head' = [head EXCEPT ![t] = h]
                /\ UNCHANGED <<told, done>>
           ELSE SendReply(t, h, p, h.verdict, h.you, h.uid, fail, oom)
    /\ UNCHANGED <<gid, regs, dying, news>>

\* anoubis_notify_destroy, end: the group is freed.
DestroyEnd ==
    /\ dying # NoGroup /\ PendingOf(dying) = {}
    /\ gid' = [gid EXCEPT ![dying] = NoGroup]
    /\ dying' = NoGroup
    /\ UNCHANGED <<regs, pending, head, told, news, done>>

-----------------------------------------------------------------------------
Next ==
    \/ \E g \in Groups :
          \/ \E u \in Uids : Create(g, u)
          \/ \E r \in Regs : Register(g, r) \/ Unregister(g, r)
          \/ \E t \in Tokens, v \in Verdicts, d \in BOOLEAN,
                fail \in SendFailures, oom \in OutOfMemory :
                   Answer(g, t, v, d, fail, oom)
          \/ DestroyStart(g)
    \/ \E t \in Tokens, fail \in SendFailures, oom \in OutOfMemory :
          \/ \E e \in Events : Ask(t, e, fail)
          \/ Abort(t, EPERM, fail, oom)
          \/ DestroyEvent(t, fail, oom)
    \/ \E m \in News, fail \in SendFailures : Inform(m, fail)
    \/ DestroyEnd

Spec == Init /\ [][Next]_vars

-----------------------------------------------------------------------------
(* Properties                                                              *)

\* Every variable keeps its type.
TypeOK ==
    /\ gid \in [Groups -> Uids \cup {NoGroup}]
    /\ regs \in [Groups -> Seq(Regs)]
    /\ pending \in [Groups -> [Tokens -> EventStates]]
    /\ head \in [Tokens -> Heads \cup {NoHead}]
    /\ dying \in Groups \cup {NoGroup}
    /\ told \in [Groups -> [Tokens -> Seq(Sent)]]
    /\ news \in [Groups -> SUBSET News]
    /\ done \in [Tokens -> Seq(Int)]

\* An event that is still linked to a head (no FLAG_REPLY) finds that head
\* alive: drop_event may follow nev->head (anoubis_notify.c:217-237).
LinkedHeadsLive ==
    \A g \in Groups, t \in Tokens :
        pending[g][t] \in {"open", "verdict"} => head[t] # NoHead

\* head->eventcount is the number of peers that still owe a verdict,
\* whatever mix of answers, delegations, failed sends and disconnects.
EventCountExact ==
    \A t \in Tokens : head[t] # NoHead =>
        head[t].eventcount = Cardinality({g \in Groups : pending[g][t] = "open"})

\* head->finish is called at most once per head, and frees it.
FinishOnce ==
    \A t \in Tokens : Len(done[t]) <= 1 /\ (done[t] # <<>> => head[t] = NoHead)

\* A live head that was not answered and that nobody can answer any more
\* only exists after a refused (negative) verdict: no other order of
\* delegations and disconnects leaves an escalation waiting for its timeout.
OnlyRefusedVerdictsWait ==
    \A t \in Tokens :
        (head[t] # NoHead /\ ~head[t].reply /\ head[t].eventcount = 0)
            => head[t].verdict < 0

\* A peer gets at most one result per ASK, never one without an ASK, all
\* peers get the verdict finish was called with, and at most one is told
\* that its own answer was used.
ResultsAgree ==
    \A t \in Tokens :
        /\ \A g \in Groups :
              /\ Len(told[g][t]) <= 2
              /\ told[g][t] # <<>> => told[g][t][1].type = "ASK"
              /\ Len(told[g][t]) = 2 =>
                    told[g][t][2].type # "ASK" /\ done[t] = <<told[g][t][2].verdict>>
        /\ \A g, k \in Groups :
              Len(told[g][t]) = 2 /\ Len(told[k][t]) = 2
              /\ told[g][t][2].type = "RESYOU" /\ told[k][t][2].type = "RESYOU"
                 => g = k

\* Once finish was called, every connected peer that was asked was sent the
\* result, whether it had answered, delegated or not, and whatever sends to
\* other peers failed before; a failure of its own send is the only excuse.
EveryPeerToldResult ==
    \A g \in Live \ {dying}, t \in Tokens :
        done[t] # <<>> /\ told[g][t] # <<>> => Len(told[g][t]) = 2

\* A session sees the events of its own user only, unless it is root's;
\* playground changes go to their user alone.  Statistics (STAT) are public.
EventsArePrivate ==
    \A g \in Live :
        /\ \A t \in Tokens : told[g][t] # <<>> => gid[g] \in {ROOT, told[g][t][1].uid}
        /\ \A m \in news[g] :
              /\ \/ m.type \in {"NOTIFY", "LOGNOTIFY"} /\ m.subsystem # STAT
                 \/ m.type = "POLICYCHANGE"
                 => gid[g] \in {ROOT, m.uid}
              /\ m.type = "PGCHANGE" => gid[g] = m.uid

=============================================================================
