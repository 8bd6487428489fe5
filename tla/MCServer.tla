------------------------------ MODULE MCServer ------------------------------
(* Small instances of Server for TLC.                                      *)
EXTENDS Server, TLC

CONSTANT s1

\* Root logs in freely, the other user with a key.
UserMode == 7 :> "key" @@ 0 :> "open" @@ -1 :> "refused"
MCUids == DOMAIN UserMode
MCTargets == {7, 0}
=============================================================================
