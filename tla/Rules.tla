------------------------------- MODULE Rules -------------------------------
(* The decision about one kernel event: pe_sfs.c, pe_sandbox.c and          *)
(* pe_alf.c, the prefix hash of pe_prefixhash.c that preselects rules by    *)
(* path, the merging of replies and the check of renames in pe.c.           *)
(*                                                                         *)
(* policy is what is in force for the process: per priority one block of   *)
(* rules for files (sfs), access (sb) and network (alf); Processes says    *)
(* how a process gets it.  A path is the sequence of its components, and   *)
(* the parser has normalised the paths of rules.  The evaluation keeps no  *)
(* state, so a behaviour is the handling of one event.                     *)
EXTENDS Integers, Sequences, FiniteSets

CONSTANTS
    Policies,     \* the policies to evaluate
    Paths,        \* paths of files, <<>> is the root; closed under prefixes
    NoPath,       \* the event has no path, the rule is for any path
    Slot,         \* [Paths \cup {NoPath} -> slot of the hash table]
    FileEvents,   \* kernel events of source SFS
    AlfEvents,    \* kernel events of source ALF
    Radix,        \* a port number has two bytes, 0 .. Radix - 1
    AddrBits,     \* bits of an address
    LittleEndian, \* byte order of the machine
    NoBlock,      \* the process has no block of rules for the network
    NoReply       \* nothing was handled yet

Prios == {0, 1}   \* PE_PRIO_ADMIN, PE_PRIO_USER1

\* The rules that the parser builds: a result of an SFS rule per outcome of the
\* comparison of checksums, a sandbox rule without a path if it is a default.
Actions == {"allow", "deny", "ask"}
LogLevels == 0 .. 2
Results(rule) ==
    IF rule.type = "default" THEN {rule.result}
    ELSE {rule.result[v] : v \in {"unknown", "valid", "invalid"}}
SfsRule(rule) ==
    \A r \in Results(rule) : r.action \in Actions \cup {"continue"} /\ r.log \in LogLevels
SbRule(rule) ==
    /\ rule.action \in Actions /\ rule.log \in LogLevels
    /\ rule.type = "default" => rule.path = NoPath
NetRule(rule) == rule.action \in Actions /\ rule.log \in LogLevels

NetRules(block) ==
    DOMAIN block \subseteq Nat \ {0} /\ \A i \in DOMAIN block : NetRule(block[i])

\* APN_FLAG_NOASK: the policies of the administrator ask nothing.
NoAsk(pol) ==
    /\ \A i \in DOMAIN pol.sfs : \A r \in Results(pol.sfs[i]) : r.action # "ask"
    /\ \A i \in DOMAIN pol.sb : pol.sb[i].action # "ask"
    /\ pol.alf # NoBlock => \A i \in DOMAIN pol.alf : pol.alf[i].action # "ask"

Policy(pol) ==
    /\ pol = [p \in Prios |-> pol[p]]
    /\ \A p \in Prios :
          /\ \A b \in {pol[p].sfs, pol[p].sb} : DOMAIN b \subseteq Nat \ {0}
          /\ \A i \in DOMAIN pol[p].sfs : SfsRule(pol[p].sfs[i])
          /\ \A i \in DOMAIN pol[p].sb : SbRule(pol[p].sb[i])
          /\ pol[p].alf # NoBlock => NetRules(pol[p].alf)
    /\ NoAsk(pol[0])

ASSUME RulesAssumption ==
    /\ <<>> \in Paths /\ Slot \in [Paths \cup {NoPath} -> Nat]
    /\ Radix \in Nat \ {0} /\ AddrBits \in Nat /\ LittleEndian \in BOOLEAN
    /\ \A pol \in Policies : Policy(pol)

Modes == {"r", "w", "x"}

VARIABLES policy, event, reply
vars == <<policy, event, reply>>

LeastOf(S) == CHOOSE x \in S : \A y \in S : x <= y
GreatestOf(S) == CHOOSE x \in S : \A y \in S : y <= x
Strictness(d) == CASE d = "deny" -> 2 [] d = "ask" -> 1 [] OTHER -> 0

-----------------------------------------------------------------------------
(* Paths and the prefix hash                                               *)

Prefixes(path) == {SubSeq(path, 1, n) : n \in 0 .. Len(path)}

\* The comparison of all evaluators: whole components, "/" is a prefix of all.
PathMatch(prefix, path) ==
    prefix = NoPath \/ (path # NoPath /\ prefix \in Prefixes(path))

\* Mutant: the slot of the whole path is not looked at.
ParentsOnly(path) ==
    {NoPath} \cup (IF path = NoPath THEN {} ELSE Prefixes(path) \ {path})

\* The strings pe_prefixhash_getrules hashes for a path.
Lookups(path) == {NoPath} \cup (IF path = NoPath THEN {} ELSE Prefixes(path))

\* pe_build_prefixhash and pe_prefixhash_getrules: the indexes of all rules in
\* one of these slots, each once; the evaluators walk them in order.
GetRules(block, path) ==
    {i \in DOMAIN block :
        \E q \in Lookups(path) : Slot[block[i].path] = Slot[q]}

\* The rules that are looked at: the candidates of the hash or, for reference,
\* all rules of the block.
Candidates(block, path, all) ==
    IF all THEN DOMAIN block ELSE GetRules(block, path)

\* pe_in_scope: rules for one task, and rules that have expired.
InScope(rule, e) == rule.scope \in {"any", e.cookie}

-----------------------------------------------------------------------------
(* SFS rules                                                               *)

\* The checksum that is registered by the signer of a rule, as
\* pe_sfs_match_one compares it: unknown, valid or invalid.
SfsMatch(rule, e) ==
    IF rule.signer \notin e.signed THEN "unknown"
    ELSE IF \/ e.touched /\ (e.csum # "none" \/ e.writeok)
            \/ e.csum = "right"
           THEN "valid" ELSE "invalid"

\* The action and log level of a rule that matches.
SfsResult(rule, e) ==
    IF rule.type = "default" THEN rule.result ELSE rule.result[SfsMatch(rule, e)]

SfsHits(block, rules, e) ==
    {i \in rules : InScope(block[i], e) /\ PathMatch(block[i].path, e.path)}

\* Mutant: a denial does not end the evaluation.
SfsStepOn(st, block, rules, e, prio) ==
    LET deciding == {i \in SfsHits(block, rules, e) : SfsResult(block[i], e).action # "continue"}
    IN IF deciding = {} \/ prio \in e.nosfs THEN st
       ELSE LET r == SfsResult(block[LeastOf(deciding)], e) IN
            [decision |-> r.action, rule |-> LeastOf(deciding), prio |-> prio,
             log |-> GreatestOf({st.log, r.log}), done |-> FALSE]

\* One round of the loop over priorities in pe_decide_sfs: the first rule that
\* does not say continue decides, and anything but allow ends the evaluation.
SfsStep(st, block, rules, e, prio) ==
    LET hits == SfsHits(block, rules, e)
        deciding == {i \in hits : SfsResult(block[i], e).action # "continue"}
        seen == {i \in hits : \A j \in deciding : i <= j}
        log == GreatestOf({st.log} \cup {SfsResult(block[i], e).log : i \in seen})
    IN IF st.done \/ prio \in e.nosfs THEN st
       ELSE IF <<"sfs", prio>> \in e.oom
         THEN [st EXCEPT !.decision = "deny", !.done = TRUE]
       ELSE IF deciding = {} THEN [st EXCEPT !.log = log]
       ELSE LET d == SfsResult(block[LeastOf(deciding)], e).action IN
            [decision |-> d, rule |-> LeastOf(deciding), prio |-> prio,
             log |-> log, done |-> d # "allow"]

Undecided == [decision |-> "none", rule |-> 0, prio |-> 0, log |-> 0, done |-> FALSE]

\* The reply; what no rule decides is allowed.
Replied(st) ==
    [verdict |-> IF st.decision = "none" THEN "allow" ELSE st.decision,
     rule |-> st.rule, prio |-> st.prio, log |-> st.log]

DecideSfs(pol, e, all) ==
    LET rules(p) == Candidates(pol[p].sfs, e.path, all)
        round(st, p) == SfsStep(st, pol[p].sfs, rules(p), e, p)
    IN Replied(round(round(Undecided, 0), 1))

-----------------------------------------------------------------------------
(* Sandbox rules                                                           *)

\* A rule for a checksum matches if the file has it.  During an upgrade the
\* checksum is not compared.
SbChecksum(rule, e) ==
    \/ rule.signer = "nobody"
    \/ /\ e.csum # "none" \/ e.touched
       /\ rule.signer \in e.signed
       /\ IF e.touched THEN e.writeok \/ e.csum # "none" ELSE e.csum = "right"

SbMatch(rule, e, mode) ==
    /\ rule.type = "access" /\ mode \in rule.modes
    /\ InScope(rule, e) /\ PathMatch(rule.path, e.path)
    /\ SbChecksum(rule, e)

\* pe_sb_evaluate: the result for one access mode.  A default rule, whose
\* scope is not looked at, only decides if no other rule does.
SbEvaluate(res, block, rules, e, mode, prio) ==
    LET hits == {i \in rules : SbMatch(block[i], e, mode)}
        defaults == {i \in rules : block[i].type = "default"}
        best == IF hits # {} THEN hits ELSE defaults
        m == LeastOf(best)
    IN IF mode \notin e.modes THEN [res EXCEPT !.decision = "allow"]
       ELSE IF best = {} THEN res
       ELSE [decision |-> block[m].action, rule |-> m, prio |-> prio,
             log |-> GreatestOf({res.log, block[m].log})]

Strictest(ds, before) ==
    IF "deny" \in ds THEN "deny" ELSE IF "ask" \in ds THEN "ask"
    ELSE IF before = "none" THEN "allow" ELSE before

\* One round of the loop over priorities in pe_decide_sandbox.
SbStep(st, block, rules, e, prio) ==
    LET res == [m \in Modes |-> SbEvaluate(st.res[m], block, rules, e, m, prio)]
        d == Strictest({res[m].decision : m \in Modes}, st.decision)
    IN IF st.done THEN st
       ELSE IF <<"sb", prio>> \in e.oom
         THEN [st EXCEPT !.decision = "deny", !.done = TRUE]
       ELSE IF rules = {} THEN st
       ELSE [res |-> res, decision |-> d, done |-> d # "allow"]

SbUndecided ==
    [res |-> [m \in Modes |-> [decision |-> "none", rule |-> 0, prio |-> 0, log |-> 0]],
     decision |-> "none", done |-> FALSE]

\* Mutant: the rule of any access mode is reported.
SbReportAny(st) ==
    LET last == IF st.res["x"].rule # 0 THEN "x"
                ELSE IF st.res["w"].rule # 0 THEN "w" ELSE "r"
    IN Replied([decision |-> st.decision,
                rule |-> st.res[last].rule, prio |-> st.res[last].prio,
                log |-> GreatestOf({st.res[m].log : m \in Modes})])

\* The highest log level, and the rule of the last access mode whose result is
\* the final one.
SbReport(st) ==
    LET same(m) == st.res[m].decision = st.decision
        last == IF same("x") THEN "x" ELSE IF same("w") THEN "w" ELSE "r"
    IN Replied([decision |-> st.decision,
                rule |-> IF same(last) THEN st.res[last].rule ELSE 0,
                prio |-> IF same(last) THEN st.res[last].prio ELSE 0,
                log |-> GreatestOf({st.res[m].log : m \in Modes})])

SbRounds(pol, e, all) ==
    LET rules(p) == Candidates(pol[p].sb, e.path, all)
        round(st, p) == SbStep(st, pol[p].sb, rules(p), e, p)
    IN round(round(SbUndecided, 0), 1)

DecideSandbox(pol, e, all) == SbReport(SbRounds(pol, e, all))

-----------------------------------------------------------------------------
(* Files: pe_handle_sfs                                                    *)

\* reply_merge
Merge(sfs, sb) ==
    LET use == IF sfs.verdict = "deny" THEN sfs
               ELSE IF sb.verdict = "deny" THEN sb
               ELSE IF sfs.verdict = "ask" THEN sfs
               ELSE IF sb.verdict = "ask" THEN sb ELSE sfs
    IN [use EXCEPT !.log = GreatestOf({sfs.log, sb.log})]

DecideFile(pol, e, all) ==
    Merge(DecideSfs(pol, e, all), DecideSandbox(pol, e, all))

\* The flags for program starts and lock files that are added to the reply
\* are not part of the decision.
HandleSfs(e) ==
    /\ event = NoReply
    /\ event' = [kind |-> "file", e |-> e]
    /\ reply' = DecideFile(policy, e, FALSE)
    /\ UNCHANGED policy

\* Mutant: the rules of the second path are not looked at.
SameRulesFirst(block, e) ==
    \A i \in GetRules(block, e.from) :
        InScope(block[i], e)
            => PathMatch(block[i].path, e.from) = PathMatch(block[i].path, e.to)

\* pe_compare_path for the candidates of both paths.
SameRules(block, e) ==
    \A i \in GetRules(block, e.from) \cup GetRules(block, e.to) :
        InScope(block[i], e)
            => PathMatch(block[i].path, e.from) = PathMatch(block[i].path, e.to)

\* pe_handle_sfspath for ANOUBIS_PATH_OP_RENAME and ANOUBIS_PATH_OP_LINK:
\* pe_compare refuses to move a file from the rules of one path to others.
HandleRename(from, to, cookie) ==
    /\ event = NoReply
    /\ LET e == [from |-> from, to |-> to, cookie |-> cookie] IN
       /\ event' = [kind |-> "rename", e |-> e]
       /\ reply' = [verdict |-> IF \A p \in Prios : SameRules(policy[p].sb, e)
                                                    /\ SameRules(policy[p].sfs, e)
                                  THEN "allow" ELSE "deny",
                    rule |-> 0, prio |-> 0, log |-> 0]
    /\ UNCHANGED policy

-----------------------------------------------------------------------------
(* Network: pe_decide_alf                                                  *)

\* pe_addrmatch_host: some address of the same family does, or is negated and
\* does not, agree in its first bits.
HostMatch(hosts, family, addr) ==
    \/ hosts = {}
    \/ \E h \in hosts :
          /\ h.family = family
          /\ LET cut == 2 ^ (AddrBits - h.len) IN
             h.negate # (h.addr \div cut = addr \div cut)

\* htons
Htons(n) == IF LittleEndian THEN (n % Radix) * Radix + n \div Radix ELSE n

\* pe_addrmatch_port: ports are kept and compared in network byte order, the
\* bounds of a range too.
PortMatch(ports, port) ==
    \/ ports = {}
    \/ \E p \in ports :
          IF p.to = 0 THEN Htons(port) = Htons(p.from)
          ELSE Htons(p.from) <= Htons(port) /\ Htons(port) <= Htons(p.to)

EndMatch(hosts, ports, family, end) ==
    HostMatch(hosts, family, end.addr) /\ PortMatch(ports, end.port)

\* pe_addrmatch_out, pe_addrmatch_in
Outgoing(e) == e.op \in {"connect", "send"}
AddrMatch(rule, e) ==
    LET from == IF Outgoing(e) THEN e.local ELSE e.peer
        to   == IF Outgoing(e) THEN e.peer ELSE e.local
    IN /\ EndMatch(rule.fromhost, rule.fromport, e.family, from)
       /\ EndMatch(rule.tohost, rule.toport, e.family, to)

Filtered(e) == e.proto \in {"tcp", "udp", "sctp"}

\* pe_alf_capmatch
CapMatch(rule, e) ==
    /\ e.type \notin {"stream", "dgram"}
    /\ \/ rule.cap = "all"
       \/ rule.cap = IF e.type = "raw" THEN "raw" ELSE "other"

FilterMatch(rule, e) ==
    /\ e.type \in {"stream", "dgram"} /\ e.proto = rule.proto
    /\ rule.access \in IF Outgoing(e) THEN {"connect", "send", "both"}
                       ELSE {"accept", "receive", "both"}
    /\ AddrMatch(rule, e)

\* Events that pe_alf_evaluate_rule lets pass without looking at the rules:
\* data of a connection that was accepted before, and connect on UDP.
Unfiltered(e) ==
    \/ e.op \in {"send", "receive"} /\ e.proto \in {"tcp", "sctp"}
    \/ e.op = "connect" /\ e.proto = "udp"

\* pe_alf_evaluate_rule: the rule that decides, 0 if none does.
AlfRule(block, e) ==
    LET scoped == {i \in DOMAIN block : InScope(block[i], e)}
        hits == {i \in scoped :
                    IF Filtered(e)
                      THEN block[i].type = "filter" /\ FilterMatch(block[i], e)
                      ELSE block[i].type = "capability" /\ CapMatch(block[i], e)}
        defaults == {i \in scoped : block[i].type = "default"}
        best == IF hits # {} THEN hits ELSE defaults
    IN IF best = {} THEN 0 ELSE LeastOf(best)

\* One round of the loop over priorities in pe_decide_alf: the last priority
\* that has a matching rule decides, unless an earlier one denies.
AlfStep(st, block, e, prio) ==
    LET m == AlfRule(block, e) IN
    IF st.done \/ block = NoBlock THEN st
    ELSE IF Unfiltered(e) THEN [st EXCEPT !.decision = "allow", !.prio = prio]
    ELSE IF m = 0 THEN st
    ELSE [decision |-> block[m].action, rule |-> m, prio |-> prio,
          log |-> GreatestOf({st.log, block[m].log}), done |-> block[m].action = "deny"]

DecideAlf(pol, e) ==
    LET st == AlfStep(AlfStep(Undecided, pol[0].alf, e, 0), pol[1].alf, e, 1) IN
    IF st.decision = "none"
      THEN [verdict |-> "deny", rule |-> 0, prio |-> -1, log |-> 2]
      ELSE Replied(st)

HandleAlf(e) ==
    /\ event = NoReply
    /\ event' = [kind |-> "alf", e |-> e]
    /\ reply' = DecideAlf(policy, e)
    /\ UNCHANGED policy

-----------------------------------------------------------------------------
Init == policy \in Policies /\ event = NoReply /\ reply = NoReply

Next ==
    \/ \E e \in FileEvents : HandleSfs(e)
    \/ \E from, to \in Paths \ {<<>>}, c \in {"t1", "t2"} : HandleRename(from, to, c)
    \/ \E e \in AlfEvents : HandleAlf(e)

Spec == Init /\ [][Next]_vars

-----------------------------------------------------------------------------
(* Properties                                                              *)

Handled(kind) == reply # NoReply /\ event.kind = kind

\* pe_prefixhash.c:272: the hash "guarantees that all rules that match the path
\* name are within the list of rule candidates".  Whatever collides in it, the
\* reply is the one that a walk over all rules would give.
HashIsInvisible ==
    Handled("file") => reply = DecideFile(policy, event.e, TRUE)

\* anoubisd.8:190: "administrative policies, which are evaluated before user
\* policies": what the administrator denies, a file or network access, no rule
\* of a user allows or asks about, and (pe_alf.c:136) "User rules must not
\* decrease the log level of admin rules", which pe_sandbox.c:84 says of files:
\* "the user cannot suppress logging from an admin log allow rule".
AdminOnly == [policy EXCEPT ![1] = [sfs |-> <<>>, sb |-> <<>>, alf |-> NoBlock]]
AdminReplies == {DecideSfs(AdminOnly, event.e, FALSE),
                 DecideSandbox(AdminOnly, event.e, FALSE)}
AdminPrevails ==
    /\ Handled("file") =>
         \A r \in AdminReplies :
            /\ Strictness(reply.verdict) >= Strictness(r.verdict)
            /\ reply.log >= r.log
    /\ Handled("alf") =>
         LET st == AlfStep(Undecided, policy[0].alf, event.e, 0) IN
         /\ st.decision = "deny" => reply.verdict = "deny"
         /\ reply.log >= st.log

\* A rename or a link that is allowed leaves the file under the rules it was
\* under, those that the hash did not select included.
RenameKeepsRules ==
    Handled("rename") /\ reply.verdict = "allow" =>
        \A p \in Prios : \A b \in {policy[p].sb, policy[p].sfs} :
            \A i \in DOMAIN b :
                InScope(b[i], event.e) =>
                    PathMatch(b[i].path, event.e.from) = PathMatch(b[i].path, event.e.to)

\* The rule that is reported to the user, if any, is one of the reported
\* priority that matches the event and says what was decided.
Says(p, i, e, verdict) ==
    \/ /\ event.kind = "alf" /\ policy[p].alf # NoBlock
       /\ i = AlfRule(policy[p].alf, e)
       /\ policy[p].alf[i].action = verdict
    \/ LET b == policy[p].sb IN
       /\ event.kind = "file" /\ i \in DOMAIN b /\ b[i].action = verdict
       /\ b[i].type = "default" \/ \E m \in e.modes : SbMatch(b[i], e, m)
    \/ LET b == policy[p].sfs IN
       /\ event.kind = "file" /\ i \in SfsHits(b, DOMAIN b, e)
       /\ SfsResult(b[i], e).action = verdict
RuleReported ==
    (/\ reply # NoReply /\ reply.rule # 0
     /\ event.kind = "file" => event.e.oom = {})
    => Says(reply.prio, reply.rule, event.e, reply.verdict)
=============================================================================
