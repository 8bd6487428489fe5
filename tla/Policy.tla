------------------------------- MODULE Policy -------------------------------
(***************************************************************************)
(* The policy engine process (anoubisd/policy.c) as seen from its event    *)
(* loop: kernel events are answered, held back or escalated to the session *)
(* engine; open escalations wait in replyq for an answer or a timeout;     *)
(* the upgrade protocol and the termination levels decide what else may    *)
(* happen.  What the rules say about an event (pe*.c) is a choice.         *)
(***************************************************************************)
EXTENDS Messages, FiniteSets

CONSTANTS
    Tokens,         \* kernel tokens
    LockTokens,     \* events of root locking the upgrade lock file
    PolicyReplies,  \* replies the rules can give: [verdict, flags]
    Logging,        \* TRUE if decisions are logged to the sessions
    MaxChunks       \* bound on the chunks of upgraded file names

EPERM == 1

VARIABLES
    m2p, p2m, p2s, s2p,     \* pipes
    closed,                 \* pipes whose write end is closed
    replyq,                 \* open escalations: [token, flags]
    p2mHold,                \* eventq_p2m_hold
    terminate,              \* 0..3, see set_terminate
    polEof,                 \* pipes dispatch_m2p and dispatch_s2p saw EOF on
    parents,                \* processes with the upgrade parent mark
    held,                   \* processes with PE_PROC_FLAGS_HOLD
    tree,                   \* upgrade_tree # NULL
    chunks                  \* chunks of file names left for upgrade_iterator

pipes == <<m2p, p2m, p2s, s2p, closed>>
own == <<replyq, p2mHold, terminate, polEof, parents, held, tree, chunks>>
vars == <<pipes, own>>

Init ==
    /\ replyq = {} /\ p2mHold = <<>> /\ terminate = 0 /\ polEof = {}
    /\ parents = {} /\ held = {} /\ tree = FALSE /\ chunks = 0

ExitWithoutDenying == FALSE

\* The event loop is in dispatch_timer of set_terminate(3): nothing else runs.
Denying == terminate = 3 /\ replyq # {}
Running == ~Denying /\ polEof # {"m2p", "s2p"}

ToSession(msgs) == p2s' = Send(p2s, "p2s" \notin closed, msgs)
\* set_terminate; its level 3 is Denying.
SetTerminateNever(n) == terminate' = terminate
SetTerminate(n) == terminate' = IF terminate < n THEN n ELSE terminate
Log(t) == IF Logging THEN <<LogRequest(t)>> ELSE <<>>

-----------------------------------------------------------------------------
(* dispatch_m2p                                                            *)

\* reply->ask: remember the escalation and ask the session engine.
Ask(t, r) ==
    /\ replyq' = replyq \cup {[token |-> t, flags |-> r.flags]}
    /\ ToSession(Log(t) \o <<EventAsk(t)>>)
    /\ UNCHANGED <<p2m, p2mHold, parents, held, tree, chunks>>

\* The rules decide.
Answer(t, r) ==
    /\ p2m' = Append(p2m, EventReply(t, r.verdict, r.flags))
    /\ ToSession(Log(t))
    /\ UNCHANGED <<replyq, p2mHold, parents, held, tree, chunks>>

NeverBusy == FALSE
\* The old upgrade has ended but is still being processed (upgrade_counter = 0).
Busy == tree /\ parents = {}

\* pe_upgrade_start and pe_handle_sfspath for the lock event of process t: the
\* process becomes an upgrade parent, or is held while the checksums of the
\* previous upgrade are still being updated.
Lock(t) ==
    /\ tree' = TRUE
    /\ parents' = IF Busy THEN parents ELSE parents \cup {t}
    /\ held' = IF Busy THEN held \cup {t} ELSE held
    /\ IF Busy
       THEN p2mHold' = Append(p2mHold, EventReply(t, 0, {})) /\ UNCHANGED p2m
       ELSE p2m' = Append(p2m, EventReply(t, 0, {})) /\ UNCHANGED p2mHold
    /\ UNCHANGED <<p2s, replyq, chunks>>

RecvEvent ==
    /\ Running /\ m2p # <<>> /\ Head(m2p).type = "EVENTDEV"
    /\ LET t == Head(m2p).token IN
       IF t \in LockTokens THEN Lock(t)
       ELSE \E r \in PolicyReplies : Ask(t, r) \/ Answer(t, r)
    /\ m2p' = Tail(m2p)
    /\ UNCHANGED <<s2p, closed, terminate, polEof>>

\* pe_proc_exit and pe_upgrade_end: the last parent to go ends the upgrade and
\* starts the update of the checksums (send_upgrade_start).
RecvExit ==
    /\ Running /\ m2p # <<>> /\ Head(m2p).type = "PROCEXIT"
    /\ LET t == Head(m2p).token IN
       /\ parents' = parents \ {t}
       /\ held' = held \ {t}
       /\ IF parents = {t}
          THEN /\ \E n \in 0..MaxChunks : chunks' = n
               /\ p2m' = Append(p2m, UpgradeMsg("START", 0))
          ELSE UNCHANGED <<chunks, p2m>>
    /\ m2p' = Tail(m2p)
    /\ UNCHANGED <<p2s, s2p, closed, replyq, p2mHold, terminate, polEof, tree>>

KeepHold == UNCHANGED <<p2m, p2mHold>>
\* dispatch_upgrade, END: the replies that were held back are sent.
ReleaseHold == p2m' = p2m \o p2mHold /\ p2mHold' = <<>>

\* dispatch_upgrade
RecvUpgrade ==
    /\ Running /\ m2p # <<>> /\ Head(m2p).type = "UPGRADE"
    /\ CASE Head(m2p).what = "CHUNK_REQ" ->
              LET n == IF Busy THEN chunks ELSE 0 IN
              /\ p2m' = Append(p2m, UpgradeMsg("CHUNK", IF n > 0 THEN 1 ELSE 0))
              /\ chunks' = IF n > 0 THEN n - 1 ELSE 0
              /\ UNCHANGED <<p2mHold, parents, held, tree>>
         [] Head(m2p).what = "END" ->
              /\ parents' = parents \cup held       \* pe_proc_release
              /\ tree' = (held # {})
              /\ held' = {} /\ chunks' = 0
              /\ ReleaseHold
    /\ m2p' = Tail(m2p)
    /\ UNCHANGED <<p2s, s2p, closed, replyq, terminate, polEof>>

\* EOF from the master.
EofMaster ==
    /\ Running /\ AtEof(m2p, "m2p" \in closed) /\ "m2p" \notin polEof
    /\ polEof' = polEof \cup {"m2p"}
    /\ SetTerminate(2)
    /\ UNCHANGED <<pipes, replyq, p2mHold, parents, held, tree, chunks>>

-----------------------------------------------------------------------------
(* dispatch_s2p, dispatch_timer, dispatch_p2s and the signal handler       *)

SettledLate(w) == replyq
\* TAILQ_REMOVE: the escalation has its answer.
Settled(w) == replyq \ {w}

ReplyOnly(m, w) == m
\* The flags the rule asked for are added to what the users answered.
Restored(m, w) == EventReply(m.token, m.verdict, m.flags \cup w.flags)

\* An answer counts only while the escalation is open; flags are restored.
RecvReply ==
    /\ Running /\ s2p # <<>>
    /\ LET t == Head(s2p).token
           waiting == {w \in replyq : w.token = t}
       IN  IF waiting = {} THEN UNCHANGED <<replyq, p2m>>
           ELSE \E w \in waiting :
                  /\ replyq' = Settled(w)
                  /\ p2m' = Append(p2m, Restored(Head(s2p), w))
    /\ s2p' = Tail(s2p)
    /\ UNCHANGED <<m2p, p2s, closed, p2mHold, terminate, polEof, parents,
                   held, tree, chunks>>

\* EOF from the session engine: all that is left will be denied.
EofSession ==
    /\ Running /\ AtEof(s2p, "s2p" \in closed) /\ "s2p" \notin polEof
    /\ polEof' = polEof \cup {"s2p"}
    /\ SetTerminate(3)
    /\ UNCHANGED <<pipes, replyq, p2mHold, parents, held, tree, chunks>>

TimerActiveAtEnd == terminate = 3
\* The timer runs at level 0; at level 3 dispatch_timer is called directly.
TimerActive == terminate \in {0, 3}

NoCancel(t) == <<>>
CancelMsg(t) == <<EventCancel(t)>>

\* One iteration of dispatch_timer for an entry whose time is over, or for any
\* entry at termination level 3: deny, and cancel in the session engine.
Expire(w) ==
    /\ w \in replyq /\ TimerActive
    /\ replyq' = Settled(w)
    /\ p2m' = Append(p2m, EventReply(w.token, EPERM, {}))
    /\ ToSession(CancelMsg(w.token))
    /\ UNCHANGED <<m2p, s2p, closed, p2mHold, terminate, polEof, parents, held,
                   tree, chunks>>

\* dispatch_p2s: shut the pipe down once it is drained at level 2.
ShutSession ==
    /\ Running /\ terminate >= 2 /\ "p2s" \notin closed
    /\ closed' = closed \cup {"p2s"}
    /\ UNCHANGED <<m2p, p2m, p2s, s2p, own>>

\* policy_sighandler(SIGTERM): the timer is removed.
Sigterm ==
    /\ Running /\ terminate = 0 /\ SetTerminate(1)
    /\ UNCHANGED <<pipes, replyq, p2mHold, polEof, parents, held, tree, chunks>>

\* The event loop has no events left: policy_main returns.
Exit ==
    /\ polEof = {"m2p", "s2p"} /\ ~Denying /\ "p2m" \notin closed
    /\ closed' = closed \cup {"p2m", "p2s"}
    /\ UNCHANGED <<m2p, p2m, p2s, s2p, own>>

Handle == RecvEvent \/ RecvExit \/ RecvUpgrade \/ EofMaster \/ RecvReply
          \/ EofSession \/ ShutSession \/ Exit
Next == Handle \/ \E w \in replyq : Expire(w)
=============================================================================
