------------------------------ MODULE MCNotify ------------------------------
(* Small instances of Notify for TLC.                                      *)
EXTENDS Notify, TLC

CONSTANTS g1, g2, g3

User == 7
SomeEvents == {[uid |-> u, ruleid |-> 4, subsystem |-> 3] : u \in {0, User}}
UserRegs == {[uid |-> u, ruleid |-> 0, subsystem |-> 0] : u \in {User, ANYUID}}
SomeNews == {[type |-> ty, token |-> 1, uid |-> User, ruleid |-> 4,
              subsystem |-> 3] :
             ty \in {"LOGNOTIFY", "PGCHANGE"}}
SomeVerdicts == {0, 13, -1}
\* Bound: clients are sent news, or a question.
NewsOrAsk == \/ \A g \in Groups : news[g] = {}
             \/ \A g \in Groups, t \in Tokens : told[g][t] = <<>>
Symmetry == Permutations(Groups)
=============================================================================
