------------------------------ MODULE MCDaemon ------------------------------
(* Small instances of Daemon for TLC.                                      *)
EXTENDS Daemon, TLC

CONSTANTS g1, g2

User == 7
OneReg == {[uid |-> User, ruleid |-> 0, subsystem |-> 0]}
UserEvent == [t \in Tokens |-> [uid |-> User, ruleid |-> 4, subsystem |-> 3]]
\* Registrations a client may or may not be allowed to make.
SomeRegs == {[uid |-> u, ruleid |-> 0, subsystem |-> 0] : u \in {User, -1}}
MixedEvents == [t \in Tokens |->
    [uid |-> IF t = 1 THEN User ELSE 0, ruleid |-> 4, subsystem |-> 3]]
\* One reply of the rules: allowed, with one of the kernel's flags set.
OneReply == {[verdict |-> 0, flags |-> {1}]}
\* A client allows, with a flag of its own, or refuses to answer.
Refusing == {FlagUnit, -1}
Symmetry == Permutations(Groups)
=============================================================================
