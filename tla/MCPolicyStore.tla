--------------------------- MODULE MCPolicyStore ---------------------------
(* Small instances of PolicyStore for TLC.                                 *)
EXTENDS PolicyStore

\* The policy of a user with a certificate, and the admin policy for one without.
Signed == [uid |-> 7, prio |-> "user"]
Admin  == [uid |-> 8, prio |-> "admin"]
SomeSlots == {Signed, Admin}
SignedSlots == {Signed}

Scoped == [scoped |-> TRUE, good |-> TRUE]
Forged == [scoped |-> FALSE, good |-> FALSE]
SomeContents == {Scoped, Forged}
=============================================================================
