---------------------------- MODULE MCProcesses ----------------------------
(* Small instances of Processes for TLC.                                   *)
EXTENDS Processes, TLC

CONSTANTS c1, c2, c3, f1, f2, k1, k2

\* A shell that was copied to another path, and a server.
Shell  == [path |-> "sh2", csum |-> "h1"]
Server == [path |-> "srv", csum |-> "h2"]
SomeIdents == {Shell, Server}
OneIdent == {Shell}
\* Only user 7 has registered the shell.
Sums == [p \in {"sh", "srv"} |-> [u \in {0, 7, 8} |->
            IF p = "sh" /\ u = 7 THEN "h1" ELSE NoCsum]]

ByPath(p) == [path |-> p, owner |-> "path"]
BySum(p) == [path |-> p, owner |-> "self"]
To(type, apps) == [type |-> type, apps |-> apps]
Block(apps, pgonly, switch) == [apps |-> apps, pgonly |-> pgonly, switch |-> switch]

\* In a playground nobody may do anything.  Elsewhere the server may borrow the
\* context of a shell, known by its checksum, or open one, and a shell may
\* borrow from or open a shell, exec a server and nothing else.
Strict == << Block({}, TRUE, {}),
             Block({ByPath("srv")}, FALSE, {To("borrow", {BySum("sh")}), To("open", {BySum("sh")})}),
             Block({BySum("sh")}, FALSE, {To("new", {ByPath("srv")}), To("open", {BySum("sh")}),
                                          To("borrow", {BySum("sh")})}) >>
SomeChains == {Strict}
NoChains == {}

\* Bounds for contexts: a playground or a second connection; the second playground
\* is for a process that is alone.
PgOrConns == /\ kpg + Cardinality({k \in Conns : conns[k] # {}}) <= 2
             /\ kpg = 2 => Cardinality(Tracked) <= 1

\* Bounds for playgrounds: after a restart one playground and one process are
\* enough, and so is one entry that was counted twice or not at all; a commit does
\* not care about threads, instances and torn entries.
AfterRestart == restarts > 0 => kpg <= 1 /\ Cardinality(Tracked) <= 1
Committing == \E t \in Requests : answers[t] > 0 \/ Pending(t)
Simple == /\ \A g \in DOMAIN dirs : ~dirs[g].torn
          /\ \A c \in Tracked : proc[c].threads <= 1 /\ proc[c].instances <= 1
PgBound == /\ AfterRestart /\ (Committing => Simple)
           /\ \A g \in DOMAIN pgs : pgs[g].nrfiles \in -1 .. Cardinality(Files) + 1
Symmetry == Permutations(Cookies)
ConnSymmetry == Permutations(Cookies) \cup Permutations(Conns)
=============================================================================
