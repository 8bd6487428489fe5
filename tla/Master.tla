------------------------------- MODULE Master -------------------------------
(***************************************************************************)
(* The master process (anoubisd/main.c) between the kernel and the other   *)
(* processes: it relays kernel events, writes the replies to the eventdev  *)
(* device one by one, relays upgrade messages, and leads the shutdown.     *)
(* The kernel side of the device is external: an event waits in the kernel *)
(* until one reply is written for it or its process is gone.               *)
(***************************************************************************)
EXTENDS Messages, FiniteSets

CONSTANTS
    Tokens,         \* kernel tokens
    ChildTokens,    \* events caused by the daemon's own processes
    NoteTokens      \* notifications the kernel expects no reply to

VARIABLES
    m2p, p2m, m2s, m2u, u2m,    \* pipes
    closed,                     \* pipes whose write end is closed
    evq,                        \* kernel: events not read from the device yet
    kern,                       \* kernel: state of every event
    written,                    \* replies handed to the device, per event
    declared,                   \* kernel: the queue still gets events
    mterm,                      \* terminate, 0..2
    m2dev,                      \* eventq_m2dev
    upgradedFiles,              \* upgraded_files
    signals,                    \* processes with a pending SIGTERM
    mexit                       \* the event loop has ended

kernel == <<evq, kern, written, declared>>
own == <<mterm, m2dev, upgradedFiles, mexit>>
vars == <<m2p, p2m, m2s, m2u, u2m, closed, signals, kernel, own>>

Init ==
    /\ evq = <<>> /\ kern = [t \in Tokens |-> "idle"]
    /\ written = [t \in Tokens |-> <<>>] /\ declared = TRUE
    /\ mterm = 0 /\ m2dev = <<>> /\ upgradedFiles = 0 /\ mexit = FALSE
    /\ signals = {}

-----------------------------------------------------------------------------
(* The kernel                                                              *)

\* A new event is queued on the device; its process waits for the reply.
Post(t) ==
    /\ declared /\ kern[t] = "idle"
    /\ kern' = [kern EXCEPT ![t] = IF t \in NoteTokens THEN "done" ELSE "waiting"]
    /\ evq' = Append(evq, EventDev(t))
    /\ UNCHANGED <<written, declared, own, m2p, p2m, m2s, m2u, u2m, closed, signals>>

\* The process of event t exits: after its reply, or killed while it waits.
ProcessExit(t) ==
    /\ kern[t] \in {"waiting", "done"} /\ t \notin NoteTokens
    /\ kern' = [kern EXCEPT ![t] = "gone"]
    /\ evq' = IF declared THEN Append(evq, ProcExit(t)) ELSE evq
    /\ UNCHANGED <<written, declared, own, m2p, p2m, m2s, m2u, u2m, closed, signals>>

-----------------------------------------------------------------------------
(* Event handlers of the master                                            *)

\* dispatch_dev2m, one event.
RecvKernel ==
    /\ mterm < 2 /\ evq # <<>>
    /\ LET m == Head(evq) IN
       CASE m.type = "EVENTDEV" /\ m.token \in ChildTokens ->
              /\ \E v \in {0, 1} : m2dev' = Append(m2dev, EventReply(m.token, v, {}))
              /\ UNCHANGED <<m2p, m2s>>
         [] m.type = "EVENTDEV" /\ m.token \in NoteTokens ->
              /\ m2s' = Send(m2s, "m2s" \notin closed, <<m>>)
              /\ UNCHANGED <<m2p, m2dev>>
         [] OTHER ->
              /\ m2p' = Send(m2p, "m2p" \notin closed, <<m>>)
              /\ UNCHANGED <<m2s, m2dev>>
    /\ evq' = Tail(evq)
    /\ UNCHANGED <<kern, written, declared, mterm, upgradedFiles, mexit, p2m, m2u,
                   u2m, closed, signals>>

\* dispatch_dev2m when terminating and nothing is left to read.
EndOfEvents ==
    /\ mterm = 1 /\ evq = <<>>
    /\ mterm' = 2
    /\ UNCHANGED <<kernel, m2dev, upgradedFiles, mexit, m2p, p2m, m2s, m2u, u2m,
                   closed, signals>>

\* dispatch_p2m
RecvPolicy ==
    /\ ~mexit /\ p2m # <<>>
    /\ IF Head(p2m).type = "EVENTREPLY"
       THEN m2dev' = Append(m2dev, Head(p2m)) /\ UNCHANGED m2u
       ELSE m2u' = Send(m2u, "m2u" \notin closed, <<Head(p2m)>>) /\ UNCHANGED m2dev
    /\ p2m' = Tail(p2m)
    /\ UNCHANGED <<kernel, mterm, upgradedFiles, mexit, m2p, m2s, u2m, closed, signals>>

StillQueued == m2dev
Dequeued == Tail(m2dev)

\* dispatch_m2dev: the reply leaves the queue if the write succeeds, or if the
\* kernel does not know the event any more (EINVAL, ESRCH).
WriteDev ==
    /\ m2dev # <<>>
    /\ LET r == Head(m2dev) IN
       /\ written' = [written EXCEPT ![r.token] =
                         Append(@, [verdict |-> r.verdict, flags |-> r.flags])]
       /\ kern' = [kern EXCEPT ![r.token] = IF @ = "waiting" THEN "done" ELSE @]
    /\ m2dev' = Dequeued
    /\ UNCHANGED <<evq, declared, mterm, upgradedFiles, mexit, m2p, p2m, m2s, m2u,
                   u2m, closed, signals>>

\* dispatch_u2m
RecvUpgrade ==
    /\ ~mexit /\ u2m # <<>>
    /\ LET m == Head(u2m) IN
       IF m.type = "SFS_UPDATE_ALL"
       THEN upgradedFiles' = upgradedFiles + 1 /\ UNCHANGED <<m2p, m2s>>
       ELSE /\ m2p' = Send(m2p, "m2p" \notin closed, <<m>>)
            /\ IF m.what = "END"
               THEN /\ m2s' = Send(m2s, "m2s" \notin closed,
                                   <<UpgradeMsg("NOTIFY", upgradedFiles)>>)
                    /\ upgradedFiles' = 0
               ELSE UNCHANGED <<m2s, upgradedFiles>>
    /\ u2m' = Tail(u2m)
    /\ UNCHANGED <<kernel, mterm, m2dev, mexit, p2m, m2u, closed, signals>>

\* dispatch_m2p, dispatch_m2s, dispatch_m2u at level 2: all is written, shut down.
Shut(pipe) ==
    /\ mterm = 2 /\ pipe \notin closed
    /\ closed' = closed \cup {pipe}
    /\ UNCHANGED <<kernel, own, m2p, p2m, m2s, m2u, u2m, signals>>

\* sighandler(SIGTERM): no more events from the kernel, tell the children.  The
\* upgrade process gets the signal as well, and only stops listening for signals.
Sigterm ==
    /\ mterm = 0 /\ mterm' = 1
    /\ declared' = FALSE
    /\ signals' = {"policy", "session"}
    /\ UNCHANGED <<evq, kern, written, m2dev, upgradedFiles, mexit, m2p, p2m, m2s,
                   m2u, u2m, closed>>

\* main: the event loop ends when all readers saw EOF and m2dev is written.
Exit ==
    /\ mterm = 2 /\ ~mexit /\ m2dev = <<>>
    /\ {"m2p", "m2s", "m2u"} \subseteq closed
    /\ AtEof(p2m, "p2m" \in closed) /\ AtEof(u2m, "u2m" \in closed)
    /\ "s2m" \in closed
    /\ mexit' = TRUE
    /\ UNCHANGED <<kernel, mterm, m2dev, upgradedFiles, m2p, p2m, m2s, m2u, u2m,
                   closed, signals>>

Handle == RecvKernel \/ EndOfEvents \/ RecvPolicy \/ WriteDev \/ RecvUpgrade
          \/ (\E pipe \in {"m2p", "m2s", "m2u"} : Shut(pipe)) \/ Exit
Environment == \E t \in Tokens : Post(t) \/ ProcessExit(t)
Next == Handle \/ Environment \/ Sigterm
=============================================================================
