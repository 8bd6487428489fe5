------------------------------- MODULE Upgrade ------------------------------
(***************************************************************************)
(* The upgrade process (anoubisd/upgrade.c): asks for chunks of file names *)
(* until it gets an empty one, sends one checksum per file to the master   *)
(* and reports the end.  A chunk holds n files.                            *)
(***************************************************************************)
EXTENDS Messages

VARIABLES m2u, u2m, closed
vars == <<m2u, u2m, closed>>

\* send_checksum; the file may have vanished, then nothing is sent.
Checksums(n) == [i \in 1..n |-> [type |-> "SFS_UPDATE_ALL"]]

\* dispatch_m2u and dispatch_upgrade
RecvMaster ==
    /\ m2u # <<>> /\ "u2m" \notin closed
    /\ LET m == Head(m2u) IN
       \E sent \in 0..m.n :
         u2m' = u2m \o Checksums(sent) \o
            <<UpgradeMsg(IF m.what = "CHUNK" /\ m.n = 0 THEN "END" ELSE "CHUNK_REQ", 0)>>
    /\ m2u' = Tail(m2u)
    /\ UNCHANGED closed

\* EOF from the master: upgrade_sighandler, and the event loop ends.
Exit ==
    /\ AtEof(m2u, "m2u" \in closed) /\ "u2m" \notin closed
    /\ closed' = closed \cup {"u2m"}
    /\ UNCHANGED <<m2u, u2m>>

Next == RecvMaster \/ Exit
=============================================================================
