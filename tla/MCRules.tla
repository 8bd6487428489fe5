------------------------------ MODULE MCRules ------------------------------
(* A small instance of Rules for TLC: blocks of up to two rules, paths that *)
(* share slots of the hash, and events that tell the rules apart.          *)
EXTENDS Rules

SomePaths == {<<>>, <<"a">>, <<"a", "b">>, <<"c">>}
\* "/a" and "/c" collide.
SomeSlots == [p \in SomePaths \cup {NoPath} |->
    CASE p = NoPath -> 0 [] p = <<>> -> 1 [] p = <<"a", "b">> -> 3 [] OTHER -> 2]

Res(action, log) == [action |-> action, log |-> log]
Sfs(type, path, scope, result) ==
    [type |-> type, path |-> path, scope |-> scope, signer |-> "s", result |-> result]
Sb(type, path, scope, modes, signer, action, log) ==
    [type |-> type, path |-> path, scope |-> scope, modes |-> modes,
     signer |-> signer, action |-> action, log |-> log]

SfsRules ==
    {Sfs("access", <<"a">>, "any", [valid |-> Res("allow", 0),
         invalid |-> Res("deny", 1), unknown |-> Res("continue", 1)]),
     Sfs("access", <<>>, "any", [valid |-> Res("continue", 2),
         invalid |-> Res("ask", 0), unknown |-> Res("allow", 0)]),
     Sfs("default", <<"a", "b">>, "t1", Res("allow", 2)),
     Sfs("default", <<"c">>, "expired", Res("deny", 2)),
     Sfs("default", NoPath, "any", Res("ask", 0)),
     Sfs("default", NoPath, "any", Res("deny", 1))}

SbRules ==
    {Sb("access", <<"a">>, "any", {"r"}, "nobody", "allow", 1),
     Sb("access", <<"a", "b">>, "any", {"w", "x"}, "s", "ask", 0),
     Sb("access", NoPath, "t1", {"w"}, "nobody", "deny", 2),
     Sb("default", NoPath, "any", {}, "nobody", "deny", 0),
     Sb("default", NoPath, "any", {}, "nobody", "allow", 1)}

Alf(type, scope, action, log) == [type |-> type, scope |-> scope, action |-> action, log |-> log]
Filter(proto, access, from, to, ports, action, log) ==
    [type |-> "filter", scope |-> "any", action |-> action, log |-> log,
     proto |-> proto, access |-> access, fromhost |-> from, fromport |-> {},
     tohost |-> to, toport |-> ports]
Net(addr, len, negate) == [family |-> 4, addr |-> addr, len |-> len, negate |-> negate]

AlfRules ==
    {Filter("tcp", "connect", {}, {Net(2, 1, FALSE)}, {[from |-> 1, to |-> 9]}, "allow", 0),
     Filter("udp", "both", {Net(2, 2, TRUE)}, {}, {[from |-> 6, to |-> 0]}, "ask", 2),
     Filter("tcp", "accept", {Net(1, 2, FALSE)}, {}, {}, "allow", 1),
     [type |-> "capability", scope |-> "t1", action |-> "deny", log |-> 1, cap |-> "raw"],
     Alf("default", "any", "deny", 0),
     Alf("default", "any", "allow", 0)}

Singles(R) == {<<>>} \cup {<<r>> : r \in R}
Blocks(R) == Singles(R) \cup {<<r, s>> : r, s \in R}
Both(admin, user) == [p \in Prios |-> IF p = 0 THEN admin ELSE user]
Block(sfs, sb, alf) == [sfs |-> sfs, sb |-> sb, alf |-> alf]
Every ==
    {Both(Block(x, <<>>, NoBlock), Block(y, <<>>, NoBlock)) : x, y \in Blocks(SfsRules)}
    \cup {Both(Block(<<>>, x, NoBlock), Block(<<>>, y, NoBlock)) : x, y \in Blocks(SbRules)}
    \cup {Both(Block(<<v>>, <<x>>, NoBlock), Block(<<w>>, <<y>>, NoBlock)) :
            v, w \in SfsRules, x, y \in SbRules}
    \cup {Both(Block(<<>>, <<>>, x), Block(<<>>, <<>>, y)) :
            x \in Blocks(AlfRules) \cup {NoBlock}, y \in Singles(AlfRules) \cup {NoBlock}}
\* Those whose administrator asks nothing.
SomePolicies == {pol \in Every : NoAsk(pol[0])}

FileEvent(path, modes, csum, signed) ==
    [path |-> path, modes |-> modes, csum |-> csum, signed |-> signed,
     cookie |-> "t1", touched |-> FALSE, writeok |-> FALSE, nosfs |-> {}, oom |-> {}]
Base == {FileEvent(p, m, "right", {"s"}) : p \in SomePaths \cup {NoPath},
                                          m \in {{"r"}, {"r", "w"}, {"x"}}}
SomeFileEvents ==
    Base \cup {FileEvent(e.path, e.modes, "wrong", {"s"}) : e \in Base}
         \cup {[e EXCEPT !.csum = "none", !.signed = {}, !.cookie = "t2"] : e \in Base}
         \cup {[FileEvent(<<"a", "b">>, {"w"}, c, {"s"}) EXCEPT
                  !.touched = TRUE, !.writeok = w] : c \in {"none", "wrong"}, w \in BOOLEAN}
         \cup {[FileEvent(<<"a", "b">>, {"r"}, "right", {"s"}) EXCEPT !.nosfs = {p}] : p \in Prios}
         \cup {[FileEvent(<<"a", "b">>, {"r"}, "right", {"s"}) EXCEPT !.oom = {<<t, p>>}] :
                  t \in {"sfs", "sb"}, p \in Prios}

End(addr, port) == [addr |-> addr, port |-> port]
AlfEvent(proto, op, type, local, peer) ==
    [proto |-> proto, op |-> op, type |-> type, family |-> 4, cookie |-> "t1",
     local |-> local, peer |-> peer]
SomeAlfEvents ==
    {AlfEvent("tcp", op, "stream", End(1, 4), End(a, p)) :
        op \in {"connect", "accept", "send"}, a \in {1, 2, 3}, p \in {4, 6}}
    \cup {AlfEvent("udp", op, "dgram", End(2, 6), End(a, 6)) :
        op \in {"connect", "receive", "send"}, a \in {1, 2}}
    \cup {AlfEvent("icmp", "send", type, End(1, 0), End(2, 0)) : type \in {"raw", "other"}}
=============================================================================
