------------------------------- MODULE Session ------------------------------
(***************************************************************************)
(* The session engine process (anoubisd/session.c), escalation side: the   *)
(* handlers of the pipes from the policy engine and the master, the life   *)
(* of a client session as far as its notify group goes, and the shutdown.  *)
(* The notify library is Notify; notify_callback is what its head->finish  *)
(* does here.                                                              *)
(***************************************************************************)
EXTENDS Messages, FiniteSets

CONSTANTS Groups, NoGroup, Tokens, NoHead, Uids, Regs, MaxRegs, Verdicts,
    Limit, Failures,
    EventOf,        \* the uid, ruleid and subsystem of every token's event
    MaxConns        \* ANOUBISD_MAX_CONNS_PER_USER

VARIABLES
    gid, regs, pending, head, dying, told, news, done,  \* see Notify
    p2s, s2p, m2s, closed,                              \* pipes
    headq,      \* tokens of the escalations in headq
    sterm,      \* session_sighandler has run
    sesEof      \* pipes that were read to their end

Events == {EventOf[t] : t \in Tokens}
News == [type: {"LOGNOTIFY", "NOTIFY"}, token: Tokens, uid: Int, ruleid: Int,
         subsystem: Int]
        \cup [type: {"STATUSNOTIFY"}, token: {0}, uid: {0}, ruleid: {0},
              subsystem: {0}]
N == INSTANCE Notify

notify == <<gid, regs, pending, head, dying, told, news, done>>
own == <<headq, sterm, sesEof>>
vars == <<notify, p2s, s2p, m2s, closed, own>>

Init == N!Init /\ headq = {} /\ sterm = FALSE /\ sesEof = {}

\* No handler is in the middle of destroying sessions.
Idle == dying = NoGroup /\ ~(sterm /\ N!Live # {}) /\ "s2p" \notin closed

ToPolicy(m) == s2p' = Append(s2p, m)

\* notify_callback, if the notify call at hand finished the head of t.  What the
\* client sent is passed on as it is, bits that mean something to the kernel too.
Callback(t) ==
    IF done'[t] # done[t]
    THEN /\ ToPolicy(EventReply(t, Clean(done'[t][1]), FlagsOf(done'[t][1])))
         /\ headq' = headq \ {t}
    ELSE UNCHANGED <<s2p, headq>>

-----------------------------------------------------------------------------
(* Clients                                                                 *)

\* session_connect: a user other than root may have conn_count sessions.
ConnectionsOf(uid) == {k \in Groups : gid[k] = uid}
MayConnect(uid) ==
    uid \notin {N!ROOT, N!ANYUID} => Cardinality(ConnectionsOf(uid)) <= MaxConns

\* A client has connected and selected the notify protocol.
Connect(g, uid) ==
    /\ Idle /\ ~sterm /\ MayConnect(uid) /\ N!Create(g, uid)
    /\ UNCHANGED <<p2s, s2p, m2s, closed, own>>

Register(g, r) ==
    /\ Idle /\ N!Register(g, r)
    /\ UNCHANGED <<p2s, s2p, m2s, closed, own>>

Unregister(g, r) ==
    /\ Idle /\ N!Unregister(g, r)
    /\ UNCHANGED <<p2s, s2p, m2s, closed, own>>

\* session_rxclient with the answer to an ASK (anoubis_process_reply).
Reply(g, t, v, delegate, fail, oom) ==
    /\ Idle /\ N!Answer(g, t, v, delegate, fail, oom) /\ Callback(t)
    /\ UNCHANGED <<p2s, m2s, closed, sterm, sesEof>>

\* session_destroy: the client went away, or session_sighandler ends all
\* sessions one after the other.
Disconnect(g) ==
    /\ Idle \/ sterm
    /\ N!DestroyStart(g)
    /\ UNCHANGED <<p2s, s2p, m2s, closed, own>>

DropEvent(t, fail, oom) ==
    /\ N!DestroyEvent(t, fail, oom) /\ Callback(t)
    /\ UNCHANGED <<p2s, m2s, closed, sterm, sesEof>>

Disconnected ==
    /\ N!DestroyEnd
    /\ UNCHANGED <<p2s, s2p, m2s, closed, own>>

-----------------------------------------------------------------------------
(* dispatch_p2s                                                            *)

\* dispatch_p2s_evt_request.  Out of memory for the message, the callback data
\* or the head, the request is dropped.
EvtRequest(t, fail) ==
    /\ N!Ask(t, EventOf[t], fail)
    /\ IF head'[t] # NoHead
       THEN headq' = headq \cup {t} /\ UNCHANGED s2p
       ELSE ToPolicy(EventReply(t, N!EPERM, {})) /\ UNCHANGED headq

\* dispatch_p2s_evt_cancel
EvtCancel(t, fail, oom) ==
    IF t \in headq
    THEN N!Abort(t, N!EPERM, fail, oom) /\ Callback(t)
    ELSE UNCHANGED <<notify, s2p, headq>>

NotifyMsg(type, t) ==
    [type |-> type, token |-> t, uid |-> EventOf[t].uid,
     ruleid |-> EventOf[t].ruleid, subsystem |-> EventOf[t].subsystem]

\* __send_notify: without memory nobody gets the message.
Missed(fail, oom) == IF oom THEN Groups ELSE fail

RecvPolicy ==
    /\ Idle /\ p2s # <<>>
    /\ LET m == Head(p2s) IN
       \E fail \in N!SendFailures, oom \in N!OutOfMemory :
         CASE m.type = "EVENTASK" ->
                IF oom THEN UNCHANGED <<notify, s2p, headq>>
                ELSE EvtRequest(m.token, fail)
           [] m.type = "EVENTCANCEL" -> EvtCancel(m.token, fail, oom)
           [] m.type = "LOGREQUEST" ->       \* dispatch_p2s_log_request
                /\ N!Inform(NotifyMsg("LOGNOTIFY", m.token), Missed(fail, oom))
                /\ UNCHANGED <<s2p, headq>>
    /\ p2s' = Tail(p2s)
    /\ UNCHANGED <<m2s, closed, sterm, sesEof>>

-----------------------------------------------------------------------------
(* dispatch_m2s and the end                                                *)

\* dispatch_m2s_upgrade_notify
StatusMsg == [type |-> "STATUSNOTIFY", token |-> 0, uid |-> 0, ruleid |-> 0,
              subsystem |-> 0]

RecvMaster ==
    /\ Idle /\ m2s # <<>>
    /\ LET m == Head(m2s) IN
       \E fail \in N!SendFailures, oom \in N!OutOfMemory :
         N!Inform(IF m.type = "EVENTDEV"
                  THEN [NotifyMsg("NOTIFY", m.token) EXCEPT !.ruleid = 0]
                  ELSE StatusMsg, Missed(fail, oom))
    /\ m2s' = Tail(m2s)
    /\ UNCHANGED <<p2s, s2p, closed, own>>

\* session_sighandler(SIGTERM): no new clients, and all sessions will go.
Sigterm ==
    /\ Idle /\ ~sterm /\ sterm' = TRUE
    /\ UNCHANGED <<notify, p2s, s2p, m2s, closed, headq, sesEof>>

\* EOF from the policy engine or the master also simulates the signal.
Eof(pipe, q) ==
    /\ Idle /\ pipe \notin sesEof /\ AtEof(q, pipe \in closed)
    /\ sterm' = TRUE /\ sesEof' = sesEof \cup {pipe}
    /\ UNCHANGED <<notify, p2s, s2p, m2s, closed, headq>>

\* session_main: no event is left in the event loop.
Exit ==
    /\ Idle /\ sesEof = {"p2s", "m2s"}
    /\ closed' = closed \cup {"s2p", "s2m"}
    /\ UNCHANGED <<notify, p2s, s2p, m2s, own>>

FromPolicy == RecvPolicy \/ Eof("p2s", p2s)
FromMaster == RecvMaster \/ Eof("m2s", m2s)
\* The rest of a handler that destroys sessions.
Destroying ==
    \/ \E t \in Tokens, fail \in N!SendFailures, oom \in N!OutOfMemory :
          DropEvent(t, fail, oom)
    \/ Disconnected
    \/ \E g \in Groups : sterm /\ Disconnect(g)
Handle == FromPolicy \/ FromMaster \/ Destroying \/ Exit
Client ==
    \E g \in Groups :
       \/ \E u \in Uids : Connect(g, u)
       \/ \E r \in Regs : Register(g, r) \/ Unregister(g, r)
       \/ \E t \in Tokens, v \in Verdicts, d \in BOOLEAN,
             fail \in N!SendFailures, oom \in N!OutOfMemory :
                Reply(g, t, v, d, fail, oom)
       \/ Disconnect(g)
Next == Handle \/ Client
=============================================================================
