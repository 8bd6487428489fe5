------------------------------ MODULE Messages ------------------------------
(***************************************************************************)
(* The messages the daemon processes exchange (anoubisd.h, amsg.c) and the *)
(* pipes they travel on.  A pipe is the sequence of messages between the   *)
(* enqueue of the sender (aqueue.c) and the get_msg of the receiver: the   *)
(* sender's Queue, the socket buffer and the receiver's msg_buf together.  *)
(***************************************************************************)
EXTENDS Integers, Sequences

\* An event as read from the eventdev device, or its relay.
EventDev(t) == [type |-> "EVENTDEV", token |-> t]
\* ANOUBIS_PROCESS_OP_EXIT of the process that caused event t.
ProcExit(t) == [type |-> "PROCEXIT", token |-> t]
\* Policy engine to session engine.
EventAsk(t) == [type |-> "EVENTASK", token |-> t]
EventCancel(t) == [type |-> "EVENTCANCEL", token |-> t]
LogRequest(t) == [type |-> "LOGREQUEST", token |-> t]
\* The word that is written to the device holds a verdict and, above it, flags
\* for the kernel; a positive int has room for 15 of them.
FlagUnit == 65536
Clean(word) == word % FlagUnit
FlagsOf(word) == {b \in 0 .. 14 : (word \div (FlagUnit * 2^b)) % 2 = 1}
FlagSets == SUBSET Nat
\* A word as a reply, with flags f added.
WithFlags(word, f) == [verdict |-> Clean(word), flags |-> FlagsOf(word) \cup f]

\* struct eventdev_reply; flags are the ANOUBIS_RET_FLAGS bits of reply.
EventReply(t, v, f) ==
    [type |-> "EVENTREPLY", token |-> t, verdict |-> v, flags |-> f]
\* struct anoubisd_msg_upgrade; n is the chunk size in files.
UpgradeMsg(what, n) == [type |-> "UPGRADE", what |-> what, n |-> n]

\* enqueue followed, in time, by dispatch_write_queue: a message for a pipe
\* whose write end was shut down, or whose reader has gone, is dropped.
Send(q, open, msgs) == IF open THEN q \o msgs ELSE q

\* msg_eof: everything was read and the writer closed its end.
AtEof(q, closed) == q = <<>> /\ closed
=============================================================================
