---------------------------- MODULE RulesProofs ----------------------------
(* What the prefix hash guarantees, for every policy, every path and every *)
(* hash function: no rule that applies is missed, so that SFS decisions    *)
(* and the check of renames do not depend on it.                           *)
EXTENDS Rules, NaturalsInduction, WellFoundedInduction, TLAPS

-----------------------------------------------------------------------------
(* Least rules and greatest log levels                                      *)

LEMMA LeastIs ==
    ASSUME NEW S \in SUBSET Nat, S # {}
    PROVE  LeastOf(S) \in S /\ \A y \in S : LeastOf(S) <= y
<1>1. PICK x \in S : \A y \in S : <<y, x>> \notin OpToRel(<, Nat)
  BY NatLessThanWellFounded, WFMin
<1>2. \A y \in S : x <= y
  <2> SUFFICES ASSUME NEW y \in S PROVE x <= y
    OBVIOUS
  <2>1. x \in Nat /\ y \in Nat /\ ~(y < x)
    BY <1>1 DEF OpToRel
  <2>2. QED
    BY <2>1
<1>3. QED
  BY <1>2 DEF LeastOf

LEMMA GreatestIs ==
    ASSUME NEW S \in SUBSET LogLevels, S # {}
    PROVE  /\ GreatestOf(S) \in S /\ GreatestOf(S) \in LogLevels
           /\ \A y \in S : GreatestOf(S) >= y
<1>1. \E x \in S : \A y \in S : y <= x
  <2>1. LogLevels = {0, 1, 2}
    BY DEF LogLevels
  <2>2. CASE 2 \in S
    BY <2>1, <2>2
  <2>3. CASE 2 \notin S /\ 1 \in S
    BY <2>1, <2>3
  <2>4. CASE 2 \notin S /\ 1 \notin S
    <3>1. S = {0}
      BY <2>1, <2>4
    <3>2. QED
      BY <3>1
  <2>5. QED
    BY <2>2, <2>3, <2>4
<1>2. GreatestOf(S) \in S /\ \A y \in S : y <= GreatestOf(S)
  BY <1>1 DEF GreatestOf
<1>3. QED
  BY <1>2 DEF LogLevels

-----------------------------------------------------------------------------
(* The prefix hash                                                          *)

\* pe_prefixhash_getrules: a rule whose path is a prefix of the path of the
\* event is a candidate, whatever the hash function does.
LEMMA CandidatesComplete ==
    ASSUME NEW block, NEW path, NEW i \in DOMAIN block,
           PathMatch(block[i].path, path)
    PROVE  i \in GetRules(block, path)
<1>1. block[i].path \in Lookups(path)
  BY DEF PathMatch, Lookups
<1>2. QED
  BY <1>1 DEF GetRules

\* pe_sfs_getrules: the rules that match among the candidates are those that
\* match at all.
LEMMA HitsAreCandidates ==
    ASSUME NEW block, NEW e
    PROVE  SfsHits(block, GetRules(block, e.path), e)
             = SfsHits(block, DOMAIN block, e)
<1>1. \A i \in DOMAIN block :
        PathMatch(block[i].path, e.path) => i \in GetRules(block, e.path)
  BY CandidatesComplete
<1>2. GetRules(block, e.path) \subseteq DOMAIN block
  BY DEF GetRules
<1>3. QED
  BY <1>1, <1>2 DEF SfsHits

\* One priority of pe_decide_sfs decides alike with and without the hash.
LEMMA SameStep ==
    ASSUME NEW st, NEW block, NEW e, NEW prio
    PROVE  SfsStep(st, block, GetRules(block, e.path), e, prio)
             = SfsStep(st, block, DOMAIN block, e, prio)
BY HitsAreCandidates DEF SfsStep

\* pe_decide_sfs: the reply to a file event is the one that a walk over all
\* rules of both priorities would give.
THEOREM SfsHashInvisible ==
    ASSUME NEW pol, NEW e
    PROVE  DecideSfs(pol, e, FALSE) = DecideSfs(pol, e, TRUE)
BY SameStep DEF DecideSfs, Candidates

\* pe_sb_evaluate finds the same rules with and without the hash: default rules
\* have no path and are always candidates.
LEMMA SameEvaluation ==
    ASSUME NEW block, \A i \in DOMAIN block : SbRule(block[i]),
           NEW res, NEW e, NEW mode, NEW prio
    PROVE  SbEvaluate(res, block, GetRules(block, e.path), e, mode, prio)
             = SbEvaluate(res, block, DOMAIN block, e, mode, prio)
<1> DEFINE G == GetRules(block, e.path)
<1>1. G \subseteq DOMAIN block
  BY DEF GetRules
<1>2. \A i \in DOMAIN block : PathMatch(block[i].path, e.path) => i \in G
  BY CandidatesComplete
<1>3. \A i \in DOMAIN block : block[i].type = "default" => PathMatch(block[i].path, e.path)
  BY DEF SbRule, PathMatch
<1> HIDE DEF G
<1>4. /\ {i \in G : SbMatch(block[i], e, mode)} = {i \in DOMAIN block : SbMatch(block[i], e, mode)}
      /\ {i \in G : block[i].type = "default"} = {i \in DOMAIN block : block[i].type = "default"}
  BY <1>1, <1>2, <1>3 DEF SbMatch
<1>5. SbEvaluate(res, block, G, e, mode, prio) = SbEvaluate(res, block, DOMAIN block, e, mode, prio)
  BY <1>4 DEF SbEvaluate
<1>6. QED
  BY <1>5 DEF G

\* The results of pe_sb_evaluate and the state of pe_decide_sandbox.
ResRecs == [decision : Actions \cup {"none"}, rule : Nat, prio : Prios, log : LogLevels]
SbStates == [res : [Modes -> ResRecs], decision : Actions \cup {"none"}, done : BOOLEAN]

\* A block without candidates is skipped, one in which nothing matches is not:
\* the modes that are not asked for are allowed, the others stay as they are.
Looked(res, e, m) == IF m \in e.modes THEN res ELSE [res EXCEPT !.decision = "allow"]
LookedAt(st, e) == [m \in Modes |-> Looked(st.res[m], e, m)]
Passed(st, e) ==
    LET d == Strictest({LookedAt(st, e)[m].decision : m \in Modes}, st.decision)
    IN [res |-> LookedAt(st, e), decision |-> d, done |-> d # "allow"]

LEMMA NoCandidates ==
    ASSUME NEW block, \A i \in DOMAIN block : SbRule(block[i]),
           NEW e, GetRules(block, e.path) = {}, NEW res, NEW mode, NEW prio
    PROVE  SbEvaluate(res, block, DOMAIN block, e, mode, prio) = Looked(res, e, mode)
<1>1. SbEvaluate(res, block, {}, e, mode, prio) = SbEvaluate(res, block, DOMAIN block, e, mode, prio)
  BY SameEvaluation
<1>2. SbEvaluate(res, block, {}, e, mode, prio) = Looked(res, e, mode)
  BY DEF SbEvaluate, Looked
<1>3. QED
  BY <1>1, <1>2

\* One priority of pe_decide_sandbox with and without the hash.
LEMMA SbRound ==
    ASSUME NEW block, \A i \in DOMAIN block : SbRule(block[i]), NEW st, NEW e, NEW prio
    PROVE  LET with == SbStep(st, block, GetRules(block, e.path), e, prio)
               without == SbStep(st, block, DOMAIN block, e, prio)
           IN with = without \/ (~st.done /\ with = st /\ without = Passed(st, e))
<1> DEFINE G == GetRules(block, e.path)
           D == DOMAIN block
           R(rules) == [m \in Modes |-> SbEvaluate(st.res[m], block, rules, e, m, prio)]
<1>1. G \subseteq D
  BY DEF GetRules
<1>2. R(G) = R(D)
  BY SameEvaluation
<1>3. G = {} => R(D) = LookedAt(st, e)
  BY NoCandidates DEF LookedAt
<1> DEFINE d(rules) == Strictest({R(rules)[m].decision : m \in Modes}, st.decision)
<1>4. \A rules : SbStep(st, block, rules, e, prio) =
        IF st.done THEN st
        ELSE IF <<"sb", prio>> \in e.oom THEN [st EXCEPT !.decision = "deny", !.done = TRUE]
        ELSE IF rules = {} THEN st
        ELSE [res |-> R(rules), decision |-> d(rules), done |-> d(rules) # "allow"]
  BY DEF SbStep
<1>5. d(G) = d(D)
  BY <1>2
<1>6. G = {} => Passed(st, e) = [res |-> R(D), decision |-> d(D), done |-> d(D) # "allow"]
  BY <1>3 DEF Passed
<1> HIDE DEF G, D, R, d
<1>7. \/ SbStep(st, block, G, e, prio) = SbStep(st, block, D, e, prio)
      \/ /\ ~st.done /\ SbStep(st, block, G, e, prio) = st
         /\ SbStep(st, block, D, e, prio) = Passed(st, e)
  BY <1>1, <1>2, <1>4, <1>5, <1>6
<1>8. QED
  BY <1>7 DEF G, D

\* No mode is denied or asked for, and those that are not asked for are allowed.
Settled(st, e) ==
    /\ ~st.done /\ st.decision = "allow"
    /\ \A m \in Modes : /\ st.res[m].decision \in {"none", "allow"}
                        /\ m \notin e.modes => st.res[m].decision = "allow"

LEMMA PassedSettled ==
    ASSUME NEW e, NEW st \in SbStates, Settled(st, e)
    PROVE  Passed(st, e) = st
<1>1. LookedAt(st, e) = st.res
  <2>1. ASSUME NEW m \in Modes PROVE Looked(st.res[m], e, m) = st.res[m]
    <3>1. st.res[m] \in ResRecs
      BY DEF SbStates
    <3>2. QED
      BY <3>1 DEF Settled, Looked, ResRecs
  <2>2. st.res \in [Modes -> ResRecs]
    BY DEF SbStates
  <2>3. QED
    BY <2>1, <2>2 DEF LookedAt
<1>2. Strictest({st.res[m].decision : m \in Modes}, st.decision) = "allow"
  BY DEF Settled, Strictest
<1>3. st = [res |-> st.res, decision |-> "allow", done |-> FALSE]
  BY DEF SbStates, Settled
<1>4. QED
  BY <1>1, <1>2, <1>3 DEF Passed

LEMMA EvaluateTyped ==
    ASSUME NEW block, DOMAIN block \subseteq Nat \ {0}, \A i \in DOMAIN block : SbRule(block[i]),
           NEW rules \in SUBSET DOMAIN block, NEW res \in ResRecs, NEW e, NEW mode, NEW prio \in Prios
    PROVE  /\ SbEvaluate(res, block, rules, e, mode, prio) \in ResRecs
           /\ mode \notin e.modes => SbEvaluate(res, block, rules, e, mode, prio).decision = "allow"
<1> DEFINE hits == {i \in rules : SbMatch(block[i], e, mode)}
           defaults == {i \in rules : block[i].type = "default"}
           best == IF hits # {} THEN hits ELSE defaults
           n == LeastOf(best)
           l == GreatestOf({res.log, block[n].log})
<1>1. SbEvaluate(res, block, rules, e, mode, prio) =
        IF mode \notin e.modes THEN [res EXCEPT !.decision = "allow"]
        ELSE IF best = {} THEN res
        ELSE [decision |-> block[n].action, rule |-> n, prio |-> prio, log |-> l]
  BY DEF SbEvaluate
<1>2. best \subseteq DOMAIN block
  OBVIOUS
<1> HIDE DEF best
<1>3. best # {} => n \in best
  BY <1>2, LeastIs
<1>4. best # {} => n \in Nat /\ block[n].action \in Actions /\ block[n].log \in LogLevels
  BY <1>2, <1>3 DEF SbRule
<1> HIDE DEF n
<1>5. best # {} => l \in LogLevels
  BY <1>4, GreatestIs DEF ResRecs
<1> HIDE DEF l
<1>6. QED
  BY <1>1, <1>4, <1>5 DEF ResRecs, Actions

\* Every round leaves a state that is done, settled, or as it was.
LEMMA SbStepTyped ==
    ASSUME NEW block, DOMAIN block \subseteq Nat \ {0}, \A i \in DOMAIN block : SbRule(block[i]),
           NEW rules \in SUBSET DOMAIN block, NEW st \in SbStates, NEW e, NEW prio \in Prios,
           NEW next, next = SbStep(st, block, rules, e, prio)
    PROVE  next \in SbStates /\ (next = st \/ next.done \/ Settled(next, e))
<1> DEFINE res == [m \in Modes |-> SbEvaluate(st.res[m], block, rules, e, m, prio)]
           d == Strictest({res[m].decision : m \in Modes}, st.decision)
<1>1. \A m \in Modes : st.res[m] \in ResRecs
  BY DEF SbStates
<1>2. /\ res \in [Modes -> ResRecs]
      /\ \A m \in Modes : m \notin e.modes => res[m].decision = "allow"
  BY <1>1, EvaluateTyped
<1>3. \/ next = st
      \/ next = [st EXCEPT !.decision = "deny", !.done = TRUE]
      \/ next = [res |-> res, decision |-> d, done |-> d # "allow"]
  BY DEF SbStep
<1> HIDE DEF res
<1>4. /\ d \in Actions
      /\ d = "allow" => \A m \in Modes : res[m].decision \in {"none", "allow"}
  BY <1>2 DEF Strictest, ResRecs, Actions, SbStates
<1> HIDE DEF d
<1>5. CASE next = [st EXCEPT !.decision = "deny", !.done = TRUE]
  BY <1>5 DEF SbStates, Actions
<1>6. CASE next = [res |-> res, decision |-> d, done |-> d # "allow"]
  <2>1. next \in SbStates
    BY <1>2, <1>4, <1>6 DEF SbStates
  <2>2. CASE d = "allow"
    <3>1. next = [res |-> res, decision |-> "allow", done |-> FALSE]
      BY <1>6, <2>2, Zenon
    <3>2. ~next.done /\ next.decision = "allow" /\ next.res = res
      BY <3>1
    <3>3. Settled(next, e)
      BY <1>2, <1>4, <2>2, <3>2 DEF Settled
    <3>4. QED
      BY <2>1, <3>3
  <2>3. CASE d # "allow"
    <3>1. next = [res |-> res, decision |-> d, done |-> TRUE]
      BY <1>6, <2>3, Zenon
    <3>2. next.done
      BY <3>1
    <3>3. QED
      BY <2>1, <3>2
  <2>4. QED
    BY <2>2, <2>3
<1>7. QED
  BY <1>3, <1>5, <1>6

LEMMA UndecidedTyped ==
    /\ SbUndecided \in SbStates
    /\ \A m \in Modes : SbUndecided.res[m] = [decision |-> "none", rule |-> 0, prio |-> 0, log |-> 0]
    /\ SbUndecided.decision = "none" /\ SbUndecided.done = FALSE
BY DEF SbUndecided, SbStates, ResRecs, Prios, LogLevels

\* Nothing of a rule is reported where none has matched.
Fresh(st) ==
    \A m \in Modes : st.res[m].rule = 0 /\ st.res[m].prio = 0 /\ st.res[m].log = 0

LEMMA FreshReport ==
    ASSUME NEW st, Fresh(st)
    PROVE  SbReport(st) = [verdict |-> IF st.decision = "none" THEN "allow" ELSE st.decision,
                           rule |-> 0, prio |-> 0, log |-> 0]
<1>1. {st.res[m].log : m \in Modes} = {0}
  BY DEF Fresh, Modes
<1>2. GreatestOf({0}) = 0
  BY GreatestIs DEF LogLevels
<1> DEFINE same(m) == st.res[m].decision = st.decision
           last == IF same("x") THEN "x" ELSE IF same("w") THEN "w" ELSE "r"
           r == IF same(last) THEN st.res[last].rule ELSE 0
           p == IF same(last) THEN st.res[last].prio ELSE 0
           l == GreatestOf({st.res[m].log : m \in Modes})
<1>3. last \in Modes
  BY DEF Modes
<1>4. r = 0 /\ p = 0 /\ l = 0
  BY <1>1, <1>2, <1>3 DEF Fresh
<1>5. SbReport(st) = Replied([decision |-> st.decision, rule |-> r, prio |-> p, log |-> l])
  BY DEF SbReport
<1> HIDE DEF r, p, l
<1>6. QED
  BY <1>4, <1>5 DEF Replied

LEMMA PassedUndecided ==
    ASSUME NEW e, NEW q, q = Passed(SbUndecided, e)
    PROVE  /\ q \in SbStates /\ Settled(q, e) /\ Fresh(q)
           /\ \A m \in e.modes \cap Modes : q.res[m] = SbUndecided.res[m]
<1> DEFINE U == SbUndecided
           R == LookedAt(U, e)
           d == Strictest({R[m].decision : m \in Modes}, U.decision)
<1>1. \A m \in Modes : /\ R[m] \in ResRecs /\ R[m].rule = 0 /\ R[m].prio = 0 /\ R[m].log = 0
                       /\ R[m].decision \in {"none", "allow"}
                       /\ m \notin e.modes => R[m].decision = "allow"
                       /\ m \in e.modes => R[m] = U.res[m]
  BY UndecidedTyped DEF LookedAt, Looked, ResRecs, Actions, Prios, LogLevels
<1>2. R \in [Modes -> ResRecs]
  BY <1>1 DEF LookedAt
<1>3. q = [res |-> R, decision |-> d, done |-> d # "allow"]
  BY DEF Passed
<1> HIDE DEF R
<1>4. d = "allow"
  BY <1>1, UndecidedTyped DEF Strictest
<1> HIDE DEF d
<1>5. q = [res |-> R, decision |-> "allow", done |-> FALSE]
  BY <1>3, <1>4, Zenon
<1>6. q.res = R /\ q.decision = "allow" /\ ~q.done
  BY <1>5
<1>7. q \in SbStates
  BY <1>2, <1>5 DEF SbStates, Actions
<1>8. QED
  BY <1>1, <1>6, <1>7 DEF Settled, Fresh

\* The second round, if the hash found nothing in the first one.
LEMMA SecondRound ==
    ASSUME NEW block, DOMAIN block \subseteq Nat \ {0}, \A i \in DOMAIN block : SbRule(block[i]),
           NEW e, NEW prio
    PROVE  SbReport(SbStep(SbUndecided, block, GetRules(block, e.path), e, prio))
             = SbReport(SbStep(Passed(SbUndecided, e), block, DOMAIN block, e, prio))
<1> DEFINE U == SbUndecided
           P == Passed(U, e)
           G == GetRules(block, e.path)
           D == DOMAIN block
           R(st, rules) == [m \in Modes |-> SbEvaluate(st.res[m], block, rules, e, m, prio)]
           d(st, rules) == Strictest({R(st, rules)[m].decision : m \in Modes}, st.decision)
<1>1. /\ P \in SbStates /\ Settled(P, e) /\ Fresh(P)
      /\ \A m \in e.modes \cap Modes : P.res[m] = U.res[m]
  BY PassedUndecided
<1>2. U \in SbStates /\ Fresh(U) /\ U.decision = "none" /\ ~U.done
  BY UndecidedTyped DEF Fresh
<1>3. \A st, rules : SbStep(st, block, rules, e, prio) =
        IF st.done THEN st
        ELSE IF <<"sb", prio>> \in e.oom THEN [st EXCEPT !.decision = "deny", !.done = TRUE]
        ELSE IF rules = {} THEN st
        ELSE [res |-> R(st, rules), decision |-> d(st, rules), done |-> d(st, rules) # "allow"]
  BY DEF SbStep
<1>4. P.decision = "allow" /\ ~P.done
  BY <1>1 DEF Settled
<1>5. G \subseteq D
  BY DEF GetRules
<1>6. CASE <<"sb", prio>> \in e.oom
  <2> DEFINE A == [U EXCEPT !.decision = "deny", !.done = TRUE]
             B == [P EXCEPT !.decision = "deny", !.done = TRUE]
  <2>1. SbStep(U, block, G, e, prio) = A /\ SbStep(P, block, D, e, prio) = B
    BY <1>2, <1>3, <1>4, <1>6
  <2>2. Fresh(A) /\ Fresh(B) /\ A.decision = B.decision
    BY <1>1, <1>2 DEF Fresh, SbStates
  <2> HIDE DEF A, B
  <2>3. QED
    BY <2>1, <2>2, FreshReport
<1>7. CASE <<"sb", prio>> \notin e.oom /\ G = {}
  <2>1. SbStep(U, block, G, e, prio) = U
    BY <1>2, <1>3, <1>7
  <2>2. SbStep(P, block, D, e, prio) = P
    <3>1. SbStep(P, block, G, e, prio) = P
      BY <1>3, <1>4, <1>7
    <3>2. Passed(P, e) = P
      BY <1>1, PassedSettled
    <3>3. QED
      BY <3>1, <3>2, SbRound
  <2>3. QED
    BY <1>1, <1>2, <1>4, <2>1, <2>2, FreshReport
<1>8. CASE <<"sb", prio>> \notin e.oom /\ G # {}
  <2>1. ASSUME NEW m \in Modes
        PROVE  SbEvaluate(U.res[m], block, G, e, m, prio) = SbEvaluate(P.res[m], block, D, e, m, prio)
    <3>1. SbEvaluate(U.res[m], block, G, e, m, prio) = SbEvaluate(U.res[m], block, D, e, m, prio)
      BY SameEvaluation
    <3>2. CASE m \in e.modes
      BY <1>1, <3>1, <3>2
    <3>3. CASE m \notin e.modes
      <4>1. /\ SbEvaluate(U.res[m], block, D, e, m, prio) = [U.res[m] EXCEPT !.decision = "allow"]
            /\ SbEvaluate(P.res[m], block, D, e, m, prio) = [P.res[m] EXCEPT !.decision = "allow"]
        BY <3>3 DEF SbEvaluate
      <4>2. P.res[m] \in ResRecs /\ U.res[m] \in ResRecs
        BY <1>1, <1>2 DEF SbStates
      <4>3. [U.res[m] EXCEPT !.decision = "allow"] = [P.res[m] EXCEPT !.decision = "allow"]
        BY <1>1, <1>2, <4>2 DEF Fresh, ResRecs
      <4>4. QED
        BY <3>1, <4>1, <4>3
    <3>4. QED
      BY <3>2, <3>3
  <2>2. R(U, G) = R(P, D)
    BY <2>1
  <2>3. d(U, G) = d(P, D)
    BY <1>2, <1>4, <2>2 DEF Strictest
  <2>4. G # {} /\ D # {}
    BY <1>5, <1>8
  <2> HIDE DEF U, P, G, D, R, d
  <2>5. SbStep(U, block, G, e, prio) = SbStep(P, block, D, e, prio)
    BY <1>2, <1>3, <1>4, <1>8, <2>2, <2>3, <2>4
  <2>6. QED
    BY <2>5 DEF U, P, G, D
<1>9. QED
  BY <1>6, <1>7, <1>8

\* pe_decide_sandbox: the hash does not change the reply.
LEMMA SbHashInvisible ==
    ASSUME NEW pol, Policy(pol), NEW e
    PROVE  DecideSandbox(pol, e, FALSE) = DecideSandbox(pol, e, TRUE)
<1> DEFINE b0 == pol[0].sb
           b1 == pol[1].sb
           G0 == GetRules(b0, e.path)
           G1 == GetRules(b1, e.path)
           U == SbUndecided
           s == SbStep(U, b0, G0, e, 0)
           t == SbStep(U, b0, DOMAIN b0, e, 0)
<1>1. /\ DecideSandbox(pol, e, FALSE) = SbReport(SbStep(s, b1, G1, e, 1))
      /\ DecideSandbox(pol, e, TRUE) = SbReport(SbStep(t, b1, DOMAIN b1, e, 1))
  BY DEF DecideSandbox, SbRounds, Candidates
<1>2. /\ DOMAIN b0 \subseteq Nat \ {0} /\ \A i \in DOMAIN b0 : SbRule(b0[i])
      /\ DOMAIN b1 \subseteq Nat \ {0} /\ \A i \in DOMAIN b1 : SbRule(b1[i])
  BY DEF Policy, Prios
<1>3. G0 \subseteq DOMAIN b0
  BY DEF GetRules
<1>4. U \in SbStates /\ ~U.done
  BY UndecidedTyped
<1>5. s \in SbStates /\ (s = U \/ s.done \/ Settled(s, e))
  BY <1>2, <1>3, <1>4, SbStepTyped DEF Prios
<1>6. s = t \/ (s = U /\ t = Passed(U, e))
  BY <1>2, SbRound
<1> HIDE DEF b0, b1, G0, G1, U, s, t
<1>7. CASE s = U /\ t = Passed(U, e)
  BY <1>1, <1>2, <1>7, SecondRound DEF U, G1
<1>8. CASE s = t
  <2>1. \/ SbStep(s, b1, G1, e, 1) = SbStep(s, b1, DOMAIN b1, e, 1)
        \/ /\ ~s.done /\ SbStep(s, b1, G1, e, 1) = s
           /\ SbStep(s, b1, DOMAIN b1, e, 1) = Passed(s, e)
    BY <1>2, SbRound DEF G1
  <2>2. ASSUME ~s.done, SbStep(s, b1, G1, e, 1) = s, SbStep(s, b1, DOMAIN b1, e, 1) = Passed(s, e)
        PROVE  SbReport(SbStep(s, b1, G1, e, 1)) = SbReport(SbStep(s, b1, DOMAIN b1, e, 1))
    <3>1. CASE Settled(s, e)
      BY <1>5, <2>2, <3>1, PassedSettled
    <3>2. CASE s = U
      <4>1. Fresh(U) /\ U.decision = "none"
        BY UndecidedTyped DEF Fresh, U
      <4>2. Fresh(Passed(U, e)) /\ Passed(U, e).decision = "allow"
        BY PassedUndecided DEF Settled, U
      <4>3. QED
        BY <2>2, <3>2, <4>1, <4>2, FreshReport
    <3>3. QED
      BY <1>5, <2>2, <3>1, <3>2
  <2>3. QED
    BY <1>1, <1>8, <2>1, <2>2
<1>9. QED
  BY <1>6, <1>7, <1>8

\* pe_handle_sfs: the reply to a file event is the one that a walk over all
\* rules would give.
LEMMA FileHashInvisible ==
    ASSUME NEW pol, Policy(pol), NEW e
    PROVE  DecideFile(pol, e, FALSE) = DecideFile(pol, e, TRUE)
BY SfsHashInvisible, SbHashInvisible DEF DecideFile

-----------------------------------------------------------------------------
(* The administrator comes first                                            *)

\* The state of pe_decide_sfs and of pe_decide_alf.
States == [decision : Actions \cup {"none"}, rule : Nat, prio : Prios,
           log : LogLevels, done : BOOLEAN]
OpenEnded(st) == st \in States /\ (st.done \/ st.decision \in {"none", "allow"})

Replies == [verdict : Actions, rule : Nat, prio : Prios, log : LogLevels]
AtLeast(r, q) ==
    /\ Strictness(r.verdict) >= Strictness(q.verdict)
    /\ r.log \in LogLevels /\ q.log \in LogLevels /\ r.log >= q.log

LEMMA RepliedIs ==
    ASSUME NEW st, st.decision \in Actions \cup {"none"}, st.rule \in Nat,
           st.prio \in Prios, st.log \in LogLevels
    PROVE  /\ Replied(st) \in Replies /\ Replied(st).log = st.log
           /\ Replied(st).rule = st.rule /\ Replied(st).prio = st.prio
           /\ Replied(st).verdict = IF st.decision = "none" THEN "allow" ELSE st.decision
BY DEF Replied, Replies, Actions

LEMMA UndecidedIs == OpenEnded(Undecided) /\ ~Undecided.done
BY DEF Undecided, OpenEnded, States, Actions, Prios, LogLevels

\* One round of pe_decide_sfs.
LEMMA SfsStepTyped ==
    ASSUME NEW block, DOMAIN block \subseteq Nat \ {0}, \A i \in DOMAIN block : SfsRule(block[i]),
           NEW rules \in SUBSET DOMAIN block, NEW st, OpenEnded(st), NEW e, NEW prio \in Prios,
           NEW next, next = SfsStep(st, block, rules, e, prio)
    PROVE  /\ OpenEnded(next) /\ next.log >= st.log
           /\ \/ /\ next.rule = st.rule /\ next.prio = st.prio
                 /\ next.decision = st.decision \/ <<"sfs", prio>> \in e.oom
              \/ /\ next.prio = prio /\ next.rule \in SfsHits(block, rules, e)
                 /\ SfsResult(block[next.rule], e).action = next.decision
                 /\ next.decision \in Actions
<1> DEFINE hits == SfsHits(block, rules, e)
           deciding == {i \in hits : SfsResult(block[i], e).action # "continue"}
           seen == {i \in hits : \A j \in deciding : i <= j}
           logs == {st.log} \cup {SfsResult(block[i], e).log : i \in seen}
           log == GreatestOf(logs)
           n == LeastOf(deciding)
           d == SfsResult(block[n], e).action
<1>1. hits \subseteq DOMAIN block
  BY DEF SfsHits
<1>2. \A i \in DOMAIN block : /\ SfsResult(block[i], e).action \in Actions \cup {"continue"}
                              /\ SfsResult(block[i], e).log \in LogLevels
  BY DEF SfsRule, Results, SfsResult, SfsMatch
<1>3. st.log \in LogLevels /\ st \in States
  BY DEF OpenEnded, States
<1>4. \/ next = st
      \/ <<"sfs", prio>> \in e.oom /\ next = [st EXCEPT !.decision = "deny", !.done = TRUE]
      \/ next = [st EXCEPT !.log = log]
      \/ /\ ~st.done /\ deciding # {}
         /\ next = [decision |-> d, rule |-> n, prio |-> prio, log |-> log, done |-> d # "allow"]
  BY DEF SfsStep
<1> HIDE DEF hits
<1>5. logs \subseteq LogLevels /\ logs # {} /\ st.log \in logs
  BY <1>1, <1>2, <1>3
<1> HIDE DEF logs
<1>6. log \in LogLevels /\ log >= st.log
  BY <1>5, GreatestIs
<1> HIDE DEF log
<1>7. deciding # {} => n \in deciding
  <2>1. deciding \in SUBSET Nat
    BY <1>1
  <2> HIDE DEF deciding
  <2>2. QED
    BY <2>1, LeastIs
<1>8. deciding # {} => n \in hits /\ n \in Nat \ {0} /\ d \in Actions
  BY <1>1, <1>2, <1>7
<1> HIDE DEF n, deciding
<1>9. CASE next = st
  BY <1>3, <1>9 DEF LogLevels
<1>10. CASE <<"sfs", prio>> \in e.oom /\ next = [st EXCEPT !.decision = "deny", !.done = TRUE]
  <2>1. /\ next \in States /\ next.done /\ next.rule = st.rule /\ next.prio = st.prio
        /\ next.log = st.log
    BY <1>3, <1>10 DEF States, Actions
  <2>2. QED
    BY <1>3, <1>10, <2>1 DEF OpenEnded, LogLevels
<1>11. CASE next = [st EXCEPT !.log = log]
  BY <1>3, <1>6, <1>11 DEF OpenEnded, States
<1>12. CASE /\ ~st.done /\ deciding # {}
            /\ next = [decision |-> d, rule |-> n, prio |-> prio, log |-> log, done |-> d # "allow"]
  <2>1. d = SfsResult(block[n], e).action
    OBVIOUS
  <2> HIDE DEF d
  <2>2. /\ next.decision = d /\ next.rule = n /\ next.prio = prio /\ next.log = log
        /\ next \in States
    BY <1>3, <1>6, <1>8, <1>12 DEF States
  <2>3. next.done \/ next.decision \in {"none", "allow"}
    <3>1. CASE d = "allow"
      BY <2>2, <3>1
    <3>2. CASE d # "allow"
      <4>1. next = [decision |-> d, rule |-> n, prio |-> prio, log |-> log, done |-> TRUE]
        BY <1>12, <3>2, Zenon
      <4>2. QED
        BY <4>1
    <3>3. QED
      BY <3>1, <3>2
  <2>4. OpenEnded(next)
    BY <2>2, <2>3 DEF OpenEnded
  <2>5. /\ next.rule \in hits /\ SfsResult(block[next.rule], e).action = next.decision
        /\ next.decision \in Actions
    BY <1>8, <1>12, <2>1, <2>2
  <2>6. QED
    BY <1>6, <2>2, <2>4, <2>5 DEF hits
<1>13. QED
  BY <1>4, <1>9, <1>10, <1>11, <1>12

\* What the user adds makes no SFS decision less strict and no log level lower.
LEMMA SfsAdmin ==
    ASSUME NEW pol, Policy(pol), NEW adm, adm[0] = pol[0], adm[1].sfs = <<>>, NEW e
    PROVE  /\ DecideSfs(pol, e, FALSE) \in Replies
           /\ AtLeast(DecideSfs(pol, e, FALSE), DecideSfs(adm, e, FALSE))
<1> DEFINE b0 == pol[0].sfs
           b1 == pol[1].sfs
           s == SfsStep(Undecided, b0, GetRules(b0, e.path), e, 0)
           t == SfsStep(s, b1, GetRules(b1, e.path), e, 1)
           a == SfsStep(s, <<>>, GetRules(<<>>, e.path), e, 1)
<1>1. DecideSfs(pol, e, FALSE) = Replied(t) /\ DecideSfs(adm, e, FALSE) = Replied(a)
  BY DEF DecideSfs, Candidates
<1>2. /\ DOMAIN b0 \subseteq Nat \ {0} /\ \A i \in DOMAIN b0 : SfsRule(b0[i])
      /\ DOMAIN b1 \subseteq Nat \ {0} /\ \A i \in DOMAIN b1 : SfsRule(b1[i])
  BY DEF Policy, Prios
<1>3. GetRules(b0, e.path) \subseteq DOMAIN b0 /\ GetRules(b1, e.path) \subseteq DOMAIN b1
  BY DEF GetRules
<1>4. OpenEnded(s)
  BY <1>2, <1>3, UndecidedIs, SfsStepTyped DEF Prios
<1>5. \/ a = s /\ (t = s \/ ~s.done)
      \/ t = a /\ ~s.done
  <2>1. GetRules(<<>>, e.path) = {}
    BY DEF GetRules
  <2>2. SfsHits(<<>>, {}, e) = {}
    BY DEF SfsHits
  <2>3. GreatestOf({s.log}) = s.log
    <3>1. s.log \in LogLevels
      BY <1>4 DEF OpenEnded, States
    <3> HIDE DEF s
    <3>2. GreatestOf({s.log}) \in {s.log}
      BY <3>1, GreatestIs
    <3>3. QED
      BY <3>2
  <2> DEFINE none == {i \in {} : SfsResult(<<>>[i], e).action # "continue"}
             seen == {i \in {} : \A j \in none : i <= j}
  <2> HIDE DEF s
  <2>0. none = {} /\ {s.log} \cup {SfsResult(<<>>[i], e).log : i \in seen} = {s.log}
    OBVIOUS
  <2>4. a = IF s.done \/ 1 \in e.nosfs THEN s
            ELSE IF <<"sfs", 1>> \in e.oom THEN [s EXCEPT !.decision = "deny", !.done = TRUE]
            ELSE [s EXCEPT !.log = s.log]
    BY <2>1, <2>2, <2>3, <2>0 DEF SfsStep
  <2>5. [s EXCEPT !.log = s.log] = s
    BY <1>4 DEF OpenEnded, States
  <2>6. s.done \/ 1 \in e.nosfs => t = s
    BY DEF SfsStep
  <2>7. ~s.done /\ 1 \notin e.nosfs /\ <<"sfs", 1>> \in e.oom =>
          t = [s EXCEPT !.decision = "deny", !.done = TRUE]
    BY DEF SfsStep
  <2> HIDE DEF a, s, t
  <2>8. QED
    BY <2>4, <2>5, <2>6, <2>7
<1> HIDE DEF s
<1>6. OpenEnded(t) /\ t.log >= s.log
  BY <1>2, <1>3, <1>4, SfsStepTyped DEF Prios
<1> HIDE DEF t, a
<1>7. /\ Replied(t) \in Replies /\ Replied(t).log = t.log
      /\ Replied(t).verdict = IF t.decision = "none" THEN "allow" ELSE t.decision
  BY <1>6, RepliedIs DEF OpenEnded, States
<1>8. /\ Replied(s) \in Replies /\ Replied(s).log = s.log
      /\ Replied(s).verdict = IF s.decision = "none" THEN "allow" ELSE s.decision
  BY <1>4, RepliedIs DEF OpenEnded, States
<1>9. AtLeast(Replied(t), Replied(t))
  BY <1>7 DEF AtLeast, Strictness, Replies, LogLevels
<1>10. ~s.done => AtLeast(Replied(t), Replied(s))
  <2> SUFFICES ASSUME ~s.done PROVE AtLeast(Replied(t), Replied(s))
    OBVIOUS
  <2>1. Replied(s).verdict = "allow"
    BY <1>4, <1>8 DEF OpenEnded
  <2>2. QED
    BY <1>6, <1>7, <1>8, <2>1 DEF AtLeast, Strictness, Replies
<1>11. QED
  BY <1>1, <1>5, <1>7, <1>9, <1>10

LEMMA EvaluateLogs ==
    ASSUME NEW block, DOMAIN block \subseteq Nat \ {0}, \A i \in DOMAIN block : SbRule(block[i]),
           NEW rules \in SUBSET DOMAIN block, NEW res \in ResRecs, NEW e, NEW mode, NEW prio
    PROVE  SbEvaluate(res, block, rules, e, mode, prio).log >= res.log
<1> DEFINE hits == {i \in rules : SbMatch(block[i], e, mode)}
           defaults == {i \in rules : block[i].type = "default"}
           best == IF hits # {} THEN hits ELSE defaults
           n == LeastOf(best)
           l == GreatestOf({res.log, block[n].log})
<1>1. SbEvaluate(res, block, rules, e, mode, prio) =
        IF mode \notin e.modes THEN [res EXCEPT !.decision = "allow"]
        ELSE IF best = {} THEN res
        ELSE [decision |-> block[n].action, rule |-> n, prio |-> prio, log |-> l]
  BY DEF SbEvaluate
<1>2. best \subseteq DOMAIN block
  OBVIOUS
<1> HIDE DEF best
<1>3. best # {} => n \in best
  BY <1>2, LeastIs
<1>4. best # {} => block[n].log \in LogLevels
  BY <1>2, <1>3 DEF SbRule
<1> HIDE DEF n
<1>5. best # {} => l >= res.log
  BY <1>4, GreatestIs DEF ResRecs
<1> HIDE DEF l
<1>6. QED
  BY <1>1, <1>5 DEF ResRecs, LogLevels

LEMMA ReportIs ==
    ASSUME NEW st \in SbStates
    PROVE  /\ SbReport(st) \in Replies
           /\ SbReport(st).verdict = IF st.decision = "none" THEN "allow" ELSE st.decision
           /\ SbReport(st).rule # 0 => \E m \in Modes : /\ st.res[m].decision = st.decision
                                                        /\ st.res[m].rule = SbReport(st).rule
                                                        /\ st.res[m].prio = SbReport(st).prio
           /\ \A m \in Modes : SbReport(st).log >= st.res[m].log
           /\ \E m \in Modes : SbReport(st).log = st.res[m].log
<1> DEFINE same(m) == st.res[m].decision = st.decision
           last == IF same("x") THEN "x" ELSE IF same("w") THEN "w" ELSE "r"
           r == IF same(last) THEN st.res[last].rule ELSE 0
           p == IF same(last) THEN st.res[last].prio ELSE 0
           logs == {st.res[m].log : m \in Modes}
           l == GreatestOf(logs)
           q == [decision |-> st.decision, rule |-> r, prio |-> p, log |-> l]
<1>1. SbReport(st) = Replied(q)
  BY DEF SbReport
<1>2. last \in Modes
  BY DEF Modes
<1>3. \A m \in Modes : st.res[m] \in ResRecs
  BY DEF SbStates
<1>4. logs \subseteq LogLevels /\ logs # {}
  BY <1>3 DEF ResRecs, Modes
<1>5. l \in logs /\ l \in LogLevels /\ \A y \in logs : l >= y
  <2> HIDE DEF logs
  <2>1. QED
    BY <1>4, GreatestIs
<1>6. r \in Nat /\ p \in Prios /\ (r # 0 => /\ same(last)
                                            /\ r = st.res[last].rule /\ p = st.res[last].prio)
  BY <1>2, <1>3 DEF ResRecs, Prios
<1> HIDE DEF r, p, l, last
<1>7. /\ q.decision = st.decision /\ q.rule = r /\ q.prio = p /\ q.log = l
      /\ st.decision \in Actions \cup {"none"}
  BY DEF SbStates
<1> HIDE DEF q
<1>8. /\ Replied(q) \in Replies /\ Replied(q).log = l /\ Replied(q).rule = r /\ Replied(q).prio = p
      /\ Replied(q).verdict = IF st.decision = "none" THEN "allow" ELSE st.decision
  BY <1>5, <1>6, <1>7, RepliedIs
<1>9. \E m \in Modes : l = st.res[m].log
  BY <1>5
<1>10. QED
  BY <1>1, <1>2, <1>5, <1>6, <1>8, <1>9

\* What the user adds makes no sandbox decision less strict, no log level lower.
LEMMA SbAdmin ==
    ASSUME NEW pol, Policy(pol), NEW adm, adm[0] = pol[0], adm[1].sb = <<>>, NEW e
    PROVE  /\ DecideSandbox(pol, e, FALSE) \in Replies
           /\ AtLeast(DecideSandbox(pol, e, FALSE), DecideSandbox(adm, e, FALSE))
<1> DEFINE b0 == pol[0].sb
           b1 == pol[1].sb
           G0 == GetRules(b0, e.path)
           G1 == GetRules(b1, e.path)
           s == SbStep(SbUndecided, b0, G0, e, 0)
           t == SbStep(s, b1, G1, e, 1)
           a == SbStep(s, <<>>, GetRules(<<>>, e.path), e, 1)
<1>1. DecideSandbox(pol, e, FALSE) = SbReport(t) /\ DecideSandbox(adm, e, FALSE) = SbReport(a)
  BY DEF DecideSandbox, SbRounds, Candidates
<1>2. /\ DOMAIN b0 \subseteq Nat \ {0} /\ \A i \in DOMAIN b0 : SbRule(b0[i])
      /\ DOMAIN b1 \subseteq Nat \ {0} /\ \A i \in DOMAIN b1 : SbRule(b1[i])
  BY DEF Policy, Prios
<1>3. G0 \subseteq DOMAIN b0 /\ G1 \subseteq DOMAIN b1 /\ GetRules(<<>>, e.path) = {}
  BY DEF GetRules
<1>4. s \in SbStates /\ (s = SbUndecided \/ s.done \/ Settled(s, e))
  BY <1>2, <1>3, UndecidedTyped, SbStepTyped DEF Prios
<1> HIDE DEF s, G0, G1
<1>5. t \in SbStates
  BY <1>2, <1>3, <1>4, SbStepTyped DEF Prios
<1> DEFINE R == [m \in Modes |-> SbEvaluate(s.res[m], b1, G1, e, m, 1)]
<1>6. \/ t = a
      \/ a = s /\ ~s.done /\ t.res = R
  <2>1. a = IF s.done THEN s
            ELSE IF <<"sb", 1>> \in e.oom THEN [s EXCEPT !.decision = "deny", !.done = TRUE]
            ELSE s
    BY <1>3 DEF SbStep
  <2> DEFINE d == Strictest({R[m].decision : m \in Modes}, s.decision)
  <2>2. t = IF s.done THEN s
            ELSE IF <<"sb", 1>> \in e.oom THEN [s EXCEPT !.decision = "deny", !.done = TRUE]
            ELSE IF G1 = {} THEN s
            ELSE [res |-> R, decision |-> d, done |-> d # "allow"]
    BY DEF SbStep
  <2> HIDE DEF t, a, R, d
  <2>3. QED
    BY <2>1, <2>2
<1>7. \A m \in Modes : R[m].log >= s.res[m].log
  <2>1. \A m \in Modes : s.res[m] \in ResRecs
    BY <1>4 DEF SbStates
  <2>2. QED
    BY <1>2, <1>3, <2>1, EvaluateLogs
<1> HIDE DEF t, a, R
<1>8. /\ SbReport(t) \in Replies /\ SbReport(t).log \in LogLevels
      /\ SbReport(t).verdict = IF t.decision = "none" THEN "allow" ELSE t.decision
      /\ \A m \in Modes : SbReport(t).log >= t.res[m].log
  BY <1>5, ReportIs DEF Replies
<1>9. CASE t = a
  <2>1. AtLeast(SbReport(t), SbReport(t))
    BY <1>8 DEF AtLeast, Strictness, Replies, LogLevels
  <2>2. QED
    BY <1>1, <1>8, <1>9, <2>1
<1>10. CASE a = s /\ ~s.done /\ t.res = R
  <2>1. PICK m \in Modes : SbReport(s).log = s.res[m].log
    BY <1>4, ReportIs
  <2>2. SbReport(s).verdict = "allow"
    BY <1>4, <1>10, ReportIs, UndecidedTyped DEF Settled
  <2>3. t.res[m] \in ResRecs /\ s.res[m] \in ResRecs
    BY <1>4, <1>5 DEF SbStates
  <2>4. SbReport(t).log >= SbReport(s).log
    BY <1>7, <1>8, <1>10, <2>1, <2>3 DEF ResRecs, LogLevels
  <2>5. AtLeast(SbReport(t), SbReport(s))
    BY <1>8, <2>1, <2>2, <2>3, <2>4 DEF AtLeast, Strictness, Replies, ResRecs
  <2>6. QED
    BY <1>1, <1>8, <1>10, <2>5
<1>11. QED
  BY <1>6, <1>9, <1>10

\* reply_merge: the stricter of the two replies and the higher log level.
LEMMA MergeIs ==
    ASSUME NEW a \in Replies, NEW b \in Replies, NEW q, q = Merge(a, b)
    PROVE  /\ AtLeast(q, a) /\ AtLeast(q, b)
           /\ \E r \in {a, b} : q.rule = r.rule /\ q.prio = r.prio /\ q.verdict = r.verdict
<1> DEFINE use == IF a.verdict = "deny" THEN a
                  ELSE IF b.verdict = "deny" THEN b
                  ELSE IF a.verdict = "ask" THEN a
                  ELSE IF b.verdict = "ask" THEN b ELSE a
           l == GreatestOf({a.log, b.log})
<1>1. q = [use EXCEPT !.log = l]
  BY DEF Merge
<1>2. use \in {a, b} /\ use \in Replies
  OBVIOUS
<1>3. Strictness(use.verdict) >= Strictness(a.verdict) /\ Strictness(use.verdict) >= Strictness(b.verdict)
  BY DEF Strictness, Replies, Actions
<1>4. l \in LogLevels /\ l >= a.log /\ l >= b.log
  <2>1. {a.log, b.log} \subseteq LogLevels
    BY DEF Replies
  <2>2. QED
    BY <2>1, GreatestIs
<1> HIDE DEF use, l
<1>5. q.log = l /\ q.verdict = use.verdict /\ q.rule = use.rule /\ q.prio = use.prio
  BY <1>1, <1>2 DEF Replies
<1>6. QED
  BY <1>2, <1>3, <1>4, <1>5 DEF AtLeast, Replies

\* One round of pe_decide_alf.
LEMMA AlfStepTyped ==
    ASSUME NEW block, block # NoBlock => NetRules(block),
           NEW st \in States, st.decision = "deny" => st.done, NEW e, NEW prio \in Prios,
           NEW next, next = AlfStep(st, block, e, prio)
    PROVE  /\ next \in States /\ next.log >= st.log
           /\ next.decision = "deny" => next.done
           /\ \/ next = st
              \/ Unfiltered(e) /\ next.rule = st.rule /\ next.decision = "allow" /\ ~st.done
              \/ /\ ~st.done /\ ~Unfiltered(e) /\ block # NoBlock /\ next.prio = prio
                 /\ next.rule = AlfRule(block, e) /\ next.decision = block[next.rule].action
<1> DEFINE scoped == {i \in DOMAIN block : InScope(block[i], e)}
           hits == {i \in scoped :
                      IF Filtered(e)
                        THEN block[i].type = "filter" /\ FilterMatch(block[i], e)
                        ELSE block[i].type = "capability" /\ CapMatch(block[i], e)}
           defaults == {i \in scoped : block[i].type = "default"}
           best == IF hits # {} THEN hits ELSE defaults
           n == AlfRule(block, e)
           l == GreatestOf({st.log, block[n].log})
           d == block[n].action
<1>1. n = IF best = {} THEN 0 ELSE LeastOf(best)
  BY DEF AlfRule
<1>2. best \subseteq DOMAIN block
  OBVIOUS
<1> HIDE DEF best
<1>3. n # 0 /\ block # NoBlock => n \in DOMAIN block
  BY <1>1, <1>2, LeastIs DEF NetRules
<1>4. n # 0 /\ block # NoBlock => n \in Nat /\ d \in Actions /\ block[n].log \in LogLevels
  BY <1>3 DEF NetRules, NetRule
<1>5. \/ next = st
      \/ ~st.done /\ Unfiltered(e) /\ next = [st EXCEPT !.decision = "allow", !.prio = prio]
      \/ /\ ~st.done /\ ~Unfiltered(e) /\ n # 0 /\ block # NoBlock
         /\ next = [decision |-> d, rule |-> n, prio |-> prio, log |-> l, done |-> d = "deny"]
  BY DEF AlfStep
<1>6. st.log \in LogLevels
  BY DEF States
<1>7. n # 0 /\ block # NoBlock => l \in LogLevels /\ l >= st.log
  <2> HIDE DEF n
  <2>1. QED
    BY <1>4, <1>6, GreatestIs
<1>8. d = block[n].action
  OBVIOUS
<1> HIDE DEF l, d
<1>9. CASE next = st
  BY <1>6, <1>9 DEF LogLevels
<1>10. CASE ~st.done /\ Unfiltered(e) /\ next = [st EXCEPT !.decision = "allow", !.prio = prio]
  <2>1. /\ next \in States /\ next.log = st.log /\ next.decision = "allow" /\ next.rule = st.rule
    BY <1>10 DEF States, Actions
  <2>2. QED
    BY <1>6, <1>10, <2>1 DEF LogLevels
<1>11. CASE /\ ~st.done /\ ~Unfiltered(e) /\ n # 0 /\ block # NoBlock
            /\ next = [decision |-> d, rule |-> n, prio |-> prio, log |-> l, done |-> d = "deny"]
  <2> HIDE DEF n
  <2>1. /\ next \in States /\ next.log = l /\ next.decision = d /\ next.rule = n
        /\ next.prio = prio
    BY <1>4, <1>7, <1>11 DEF States
  <2>2. d = "deny" => next.done
    <3> SUFFICES ASSUME d = "deny" PROVE next.done
      OBVIOUS
    <3>1. next = [decision |-> d, rule |-> n, prio |-> prio, log |-> l, done |-> TRUE]
      BY <1>11, Zenon
    <3>2. QED
      BY <3>1
  <2>3. QED
    BY <1>7, <1>8, <1>11, <2>1, <2>2 DEF n
<1>12. QED
  BY <1>5, <1>9, <1>10, <1>11

\* pe_decide_alf: a denial of the administrator stands, and so does his log
\* level; a rule that is reported is the one that decided.
LEMMA AlfDecides ==
    ASSUME NEW pol, Policy(pol), NEW e, NEW s, s = AlfStep(Undecided, pol[0].alf, e, 0),
           NEW r, r = DecideAlf(pol, e)
    PROVE  /\ s.decision = "deny" => r.verdict = "deny"
           /\ r.log >= s.log
           /\ r.rule # 0 => /\ pol[r.prio].alf # NoBlock
                            /\ r.rule = AlfRule(pol[r.prio].alf, e)
                            /\ pol[r.prio].alf[r.rule].action = r.verdict
<1> DEFINE b0 == pol[0].alf
           b1 == pol[1].alf
           t == AlfStep(s, b1, e, 1)
<1>1. r = IF t.decision = "none" THEN [verdict |-> "deny", rule |-> 0, prio |-> -1, log |-> 2]
          ELSE Replied(t)
  BY DEF DecideAlf
<1>2. (b0 # NoBlock => NetRules(b0)) /\ (b1 # NoBlock => NetRules(b1))
  BY DEF Policy, Prios
<1>3. /\ Undecided \in States /\ Undecided.decision = "none" /\ Undecided.rule = 0
      /\ 0 \in Prios /\ 1 \in Prios
  BY DEF Undecided, States, Prios, LogLevels
<1>4. /\ s \in States /\ (s.decision = "deny" => s.done)
      /\ s.rule # 0 => /\ ~Unfiltered(e) /\ b0 # NoBlock /\ s.prio = 0 /\ s.rule = AlfRule(b0, e)
                       /\ s.decision = b0[s.rule].action
  <2>1. /\ s \in States /\ (s.decision = "deny" => s.done)
        /\ \/ s = Undecided
           \/ Unfiltered(e) /\ s.rule = Undecided.rule
           \/ /\ ~Unfiltered(e) /\ b0 # NoBlock /\ s.prio = 0 /\ s.rule = AlfRule(b0, e)
              /\ s.decision = b0[s.rule].action
    <3> HIDE DEF b0
    <3> QED
      BY <1>2, <1>3, AlfStepTyped DEF b0
  <2>2. QED
    BY <1>3, <2>1
<1>5. /\ t \in States /\ t.log >= s.log
      /\ \/ t = s
         \/ ~s.done /\ Unfiltered(e) /\ t.rule = s.rule
         \/ /\ ~s.done /\ b1 # NoBlock /\ t.prio = 1 /\ t.rule = AlfRule(b1, e) /\ t.decision = b1[t.rule].action
  BY <1>2, <1>4, AlfStepTyped DEF Prios
<1> HIDE DEF t
<1>6. t.rule # 0 => /\ pol[t.prio].alf # NoBlock
                    /\ t.rule = AlfRule(pol[t.prio].alf, e)
                    /\ pol[t.prio].alf[t.rule].action = t.decision
  BY <1>4, <1>5
<1>7. /\ Replied(t).log = t.log /\ Replied(t).rule = t.rule /\ Replied(t).prio = t.prio
      /\ Replied(t).verdict = IF t.decision = "none" THEN "allow" ELSE t.decision
  BY <1>5, RepliedIs DEF States
<1>8. s.decision = "deny" => t = s
  BY <1>4, <1>5
<1>9. CASE t.decision = "none"
  <2>1. r.verdict = "deny" /\ r.rule = 0 /\ r.log = 2
    BY <1>1, <1>9
  <2>2. s.log \in 0 .. 2
    BY <1>4 DEF States, LogLevels
  <2>3. QED
    BY <2>1, <2>2
<1>10. CASE t.decision # "none"
  BY <1>1, <1>5, <1>6, <1>7, <1>8, <1>10
<1>11. QED
  BY <1>9, <1>10

-----------------------------------------------------------------------------
(* The rule that is reported                                                *)

SfsSays(st, pol, e) ==
    LET b == pol[st.prio].sfs IN
    st.rule # 0 => /\ st.rule \in SfsHits(b, DOMAIN b, e) /\ st.decision \in Actions
                   /\ SfsResult(b[st.rule], e).action = st.decision

LEMMA SfsReports ==
    ASSUME NEW pol, Policy(pol), NEW e, e.oom = {}, NEW r, r = DecideSfs(pol, e, FALSE), r.rule # 0
    PROVE  LET b == pol[r.prio].sfs IN
           /\ r.rule \in SfsHits(b, DOMAIN b, e)
           /\ SfsResult(b[r.rule], e).action = r.verdict
<1> DEFINE b0 == pol[0].sfs
           b1 == pol[1].sfs
           G0 == GetRules(b0, e.path)
           G1 == GetRules(b1, e.path)
           s == SfsStep(Undecided, b0, G0, e, 0)
           t == SfsStep(s, b1, G1, e, 1)
<1>1. r = Replied(t)
  BY DEF DecideSfs, Candidates
<1>2. /\ DOMAIN b0 \subseteq Nat \ {0} /\ \A i \in DOMAIN b0 : SfsRule(b0[i])
      /\ DOMAIN b1 \subseteq Nat \ {0} /\ \A i \in DOMAIN b1 : SfsRule(b1[i])
  BY DEF Policy, Prios
<1>3. G0 \subseteq DOMAIN b0 /\ G1 \subseteq DOMAIN b1
  BY DEF GetRules
<1>4. /\ SfsHits(b0, G0, e) \subseteq SfsHits(b0, DOMAIN b0, e)
      /\ SfsHits(b1, G1, e) \subseteq SfsHits(b1, DOMAIN b1, e)
  BY <1>3 DEF SfsHits
<1>5. OpenEnded(s) /\ SfsSays(s, pol, e)
  <2>1. OpenEnded(Undecided) /\ Undecided.rule = 0
    BY UndecidedIs DEF Undecided
  <2> HIDE DEF G0
  <2>2. /\ OpenEnded(s)
        /\ \/ s.rule = 0
           \/ /\ s.prio = 0 /\ s.rule \in SfsHits(b0, G0, e)
              /\ SfsResult(b0[s.rule], e).action = s.decision
              /\ s.decision \in Actions
    BY <1>2, <1>3, <2>1, SfsStepTyped DEF Prios
  <2> HIDE DEF s
  <2>3. QED
    BY <1>4, <2>2 DEF SfsSays
<1> HIDE DEF s, G1
<1>6. /\ OpenEnded(t)
      /\ \/ t.rule = s.rule /\ t.prio = s.prio /\ t.decision = s.decision
         \/ /\ t.prio = 1 /\ t.rule \in SfsHits(b1, G1, e)
            /\ SfsResult(b1[t.rule], e).action = t.decision
            /\ t.decision \in Actions
  BY <1>2, <1>3, <1>5, SfsStepTyped DEF Prios
<1> HIDE DEF t
<1>7. SfsSays(t, pol, e)
  BY <1>4, <1>5, <1>6 DEF SfsSays
<1>8. /\ Replied(t).rule = t.rule /\ Replied(t).prio = t.prio
      /\ Replied(t).verdict = IF t.decision = "none" THEN "allow" ELSE t.decision
  BY <1>6, RepliedIs DEF OpenEnded, States
<1>9. QED
  BY <1>1, <1>7, <1>8 DEF SfsSays, Actions

\* A result is that of a rule which matches and says so; a mode that is not
\* asked for has no rule.
SbSays(res, pol, e, m) ==
    res.rule # 0 =>
        LET b == pol[res.prio].sb IN
        /\ m \in e.modes /\ res.rule \in DOMAIN b /\ b[res.rule].action = res.decision
        /\ b[res.rule].type = "default" \/ SbMatch(b[res.rule], e, m)

LEMMA EvaluateSays ==
    ASSUME NEW pol, NEW prio, NEW block, block = pol[prio].sb, DOMAIN block \subseteq Nat \ {0},
           NEW rules \in SUBSET DOMAIN block, NEW res \in ResRecs, NEW e, NEW mode,
           SbSays(res, pol, e, mode)
    PROVE  SbSays(SbEvaluate(res, block, rules, e, mode, prio), pol, e, mode)
<1> DEFINE hits == {i \in rules : SbMatch(block[i], e, mode)}
           defaults == {i \in rules : block[i].type = "default"}
           best == IF hits # {} THEN hits ELSE defaults
           n == LeastOf(best)
           l == GreatestOf({res.log, block[n].log})
           q == SbEvaluate(res, block, rules, e, mode, prio)
<1>1. q = IF mode \notin e.modes THEN [res EXCEPT !.decision = "allow"]
          ELSE IF best = {} THEN res
          ELSE [decision |-> block[n].action, rule |-> n, prio |-> prio, log |-> l]
  BY DEF SbEvaluate
<1>2. best \subseteq Nat
  OBVIOUS
<1>3. best # {} => n \in best
  <2> HIDE DEF best
  <2>1. QED
    BY <1>2, LeastIs
<1>4. best # {} => /\ n \in DOMAIN block
                   /\ block[n].type = "default" \/ SbMatch(block[n], e, mode)
  BY <1>3
<1> SUFFICES SbSays(q, pol, e, mode)
  OBVIOUS
<1> HIDE DEF best, n, l, q
<1>5. CASE mode \notin e.modes
  <2>1. q.rule = res.rule
    BY <1>1, <1>5 DEF ResRecs
  <2>2. QED
    BY <1>5, <2>1 DEF SbSays
<1>6. CASE mode \in e.modes /\ best = {}
  BY <1>1, <1>6
<1>7. CASE mode \in e.modes /\ best # {}
  <2>1. q.rule = n /\ q.prio = prio /\ q.decision = block[n].action
    BY <1>1, <1>7
  <2>2. QED
    BY <1>4, <1>7, <2>1 DEF SbSays
<1>8. QED
  BY <1>5, <1>6, <1>7

LEMMA SbStepSays ==
    ASSUME NEW pol, NEW prio \in Prios, NEW block, block = pol[prio].sb,
           DOMAIN block \subseteq Nat \ {0}, NEW rules \in SUBSET DOMAIN block,
           NEW st \in SbStates, NEW e, e.oom = {}, \A m \in Modes : SbSays(st.res[m], pol, e, m),
           NEW next, next = SbStep(st, block, rules, e, prio)
    PROVE  \A m \in Modes : SbSays(next.res[m], pol, e, m)
<1> DEFINE R == [m \in Modes |-> SbEvaluate(st.res[m], block, rules, e, m, prio)]
           d == Strictest({R[m].decision : m \in Modes}, st.decision)
<1>1. \A m \in Modes : SbSays(R[m], pol, e, m)
  <2>1. \A m \in Modes : st.res[m] \in ResRecs
    BY DEF SbStates
  <2>2. QED
    BY <2>1, EvaluateSays
<1>2. next = st \/ next = [res |-> R, decision |-> d, done |-> d # "allow"]
  BY DEF SbStep
<1> HIDE DEF R, d
<1>3. next = st \/ next.res = R
  BY <1>2
<1>4. QED
  BY <1>1, <1>3

LEMMA SbReports ==
    ASSUME NEW pol, Policy(pol), NEW e, e.oom = {}, NEW r, r = DecideSandbox(pol, e, FALSE),
           r.rule # 0
    PROVE  LET b == pol[r.prio].sb IN
           /\ r.rule \in DOMAIN b /\ b[r.rule].action = r.verdict
           /\ b[r.rule].type = "default" \/ \E m \in e.modes : SbMatch(b[r.rule], e, m)
<1> DEFINE b0 == pol[0].sb
           b1 == pol[1].sb
           G0 == GetRules(b0, e.path)
           G1 == GetRules(b1, e.path)
           s == SbStep(SbUndecided, b0, G0, e, 0)
           t == SbStep(s, b1, G1, e, 1)
<1>1. r = SbReport(t)
  BY DEF DecideSandbox, SbRounds, Candidates
<1>2. /\ DOMAIN b0 \subseteq Nat \ {0} /\ \A i \in DOMAIN b0 : SbRule(b0[i])
      /\ DOMAIN b1 \subseteq Nat \ {0} /\ \A i \in DOMAIN b1 : SbRule(b1[i])
  BY DEF Policy, Prios
<1>3. G0 \subseteq DOMAIN b0 /\ G1 \subseteq DOMAIN b1
  BY DEF GetRules
<1> HIDE DEF G0, G1
<1>4. s \in SbStates
  BY <1>2, <1>3, UndecidedTyped, SbStepTyped DEF Prios
<1>5. \A m \in Modes : SbSays(s.res[m], pol, e, m)
  <2>1. \A m \in Modes : SbSays(SbUndecided.res[m], pol, e, m)
    BY UndecidedTyped DEF SbSays
  <2>2. QED
    BY <1>2, <1>3, <2>1, UndecidedTyped, SbStepSays DEF Prios
<1> HIDE DEF s
<1>6. t \in SbStates
  BY <1>2, <1>3, <1>4, SbStepTyped DEF Prios
<1>7. \A m \in Modes : SbSays(t.res[m], pol, e, m)
  BY <1>2, <1>3, <1>4, <1>5, SbStepSays DEF Prios
<1> HIDE DEF t
<1>8. PICK m \in Modes : /\ t.res[m].decision = t.decision /\ t.res[m].rule = r.rule
                         /\ t.res[m].prio = r.prio
  BY <1>1, <1>6, ReportIs
<1>9. r.verdict = IF t.decision = "none" THEN "allow" ELSE t.decision
  BY <1>1, <1>6, ReportIs
<1>10. /\ m \in e.modes /\ r.rule \in DOMAIN pol[r.prio].sb
       /\ pol[r.prio].sb[r.rule].action = t.decision
       /\ \/ pol[r.prio].sb[r.rule].type = "default"
          \/ SbMatch(pol[r.prio].sb[r.rule], e, m)
  BY <1>7, <1>8 DEF SbSays
<1>11. t.decision # "none"
  <2>1. r.prio \in Prios
    BY <1>1, <1>6, ReportIs DEF Replies
  <2>2. pol[r.prio].sb[r.rule].action \in Actions
    BY <1>10, <2>1 DEF Policy, SbRule
  <2>3. QED
    BY <1>10, <2>2 DEF Actions
<1>12. QED
  BY <1>9, <1>10, <1>11

-----------------------------------------------------------------------------
(* The properties                                                           *)

\* The properties of replies are those of the functions that compute them.
Correct == HashIsInvisible /\ AdminPrevails /\ RuleReported

LEMMA SfsCorrect ==
    ASSUME policy \in Policies, NEW e \in FileEvents, HandleSfs(e)
    PROVE  Correct'
<1>1. Policy(policy)
  BY RulesAssumption
<1>2. /\ policy' = policy /\ event' = [kind |-> "file", e |-> e]
      /\ reply' = DecideFile(policy, e, FALSE)
  BY DEF HandleSfs
<1>3. event'.kind = "file" /\ event'.e = e
  BY <1>2
<1> DEFINE a == DecideSfs(policy, e, FALSE)
           b == DecideSandbox(policy, e, FALSE)
           empty == [sfs |-> <<>>, sb |-> <<>>, alf |-> NoBlock]
<1>4. reply' = Merge(a, b)
  BY <1>2 DEF DecideFile
<1>5. HashIsInvisible'
  BY <1>1, <1>2, <1>3, FileHashInvisible DEF HashIsInvisible
<1>6. /\ AdminOnly[0] = policy[0]
      /\ AdminOnly[1].sfs = <<>> /\ AdminOnly[1].sb = <<>>
  <2>1. policy = [p \in Prios |-> policy[p]]
    BY <1>1 DEF Policy
  <2>2. AdminOnly[0] = policy[0] /\ AdminOnly[1] = empty
    BY <2>1 DEF AdminOnly, Prios
  <2>3. QED
    BY <2>2
<1>7. /\ a \in Replies /\ AtLeast(a, DecideSfs(AdminOnly, e, FALSE))
      /\ b \in Replies /\ AtLeast(b, DecideSandbox(AdminOnly, e, FALSE))
  BY <1>1, <1>6, SfsAdmin, SbAdmin
<1>8. AdminOnly' = AdminOnly
  BY <1>2 DEF AdminOnly
<1> DEFINE A == DecideSfs(AdminOnly, e, FALSE)
           B == DecideSandbox(AdminOnly, e, FALSE)
<1>9. AdminReplies' = {A, B}
  BY <1>3, <1>8 DEF AdminReplies
<1>10. a.rule # 0 /\ e.oom = {} =>
         LET c == policy[a.prio].sfs IN
         a.rule \in SfsHits(c, DOMAIN c, e) /\ SfsResult(c[a.rule], e).action = a.verdict
  BY <1>1, SfsReports
<1>11. b.rule # 0 /\ e.oom = {} =>
         LET c == policy[b.prio].sb IN
         /\ b.rule \in DOMAIN c /\ c[b.rule].action = b.verdict
         /\ c[b.rule].type = "default" \/ \E m \in e.modes : SbMatch(c[b.rule], e, m)
  BY <1>1, SbReports
<1> HIDE DEF a, b, A, B
<1>12. /\ AtLeast(reply', a) /\ AtLeast(reply', b)
       /\ \E r \in {a, b} : reply'.rule = r.rule /\ reply'.prio = r.prio /\ reply'.verdict = r.verdict
  BY <1>4, <1>7, MergeIs
<1>13. /\ \A r \in {A, B} : Strictness(reply'.verdict) >= Strictness(r.verdict) /\ reply'.log >= r.log
  <2>1. \A d : Strictness(d) \in 0 .. 2
    BY DEF Strictness
  <2>2. /\ Strictness(reply'.verdict) >= Strictness(a.verdict)
        /\ Strictness(reply'.verdict) >= Strictness(b.verdict)
        /\ Strictness(a.verdict) >= Strictness(A.verdict)
        /\ Strictness(b.verdict) >= Strictness(B.verdict)
    BY <1>7, <1>12 DEF AtLeast, A, B
  <2>3. /\ reply'.log >= a.log /\ reply'.log >= b.log /\ a.log >= A.log /\ b.log >= B.log
        /\ {reply'.log, a.log, b.log, A.log, B.log} \subseteq 0 .. 2
    BY <1>7, <1>12 DEF AtLeast, A, B, LogLevels
  <2>4. QED
    BY <2>1, <2>2, <2>3
<1>14. AdminPrevails'
  BY <1>3, <1>9, <1>13 DEF AdminPrevails, Handled
<1>15. RuleReported'
  <2> SUFFICES ASSUME reply'.rule # 0, e.oom = {}
               PROVE  Says(reply.prio, reply.rule, event.e, reply.verdict)'
    BY <1>3 DEF RuleReported
  <2>1. CASE reply'.rule = a.rule /\ reply'.prio = a.prio /\ reply'.verdict = a.verdict
    BY <1>2, <1>3, <1>10, <2>1 DEF Says
  <2>2. CASE reply'.rule = b.rule /\ reply'.prio = b.prio /\ reply'.verdict = b.verdict
    BY <1>2, <1>3, <1>11, <2>2 DEF Says
  <2>3. QED
    BY <1>12, <2>1, <2>2
<1>16. QED
  BY <1>5, <1>14, <1>15 DEF Correct

LEMMA AlfCorrect ==
    ASSUME policy \in Policies, NEW e \in AlfEvents, HandleAlf(e)
    PROVE  Correct'
<1>1. Policy(policy)
  BY RulesAssumption
<1>2. /\ policy' = policy /\ event' = [kind |-> "alf", e |-> e] /\ reply' = DecideAlf(policy, e)
  BY DEF HandleAlf
<1>3. event'.kind = "alf" /\ event'.e = e
  BY <1>2
<1> DEFINE s == AlfStep(Undecided, policy[0].alf, e, 0)
<1>4. /\ s.decision = "deny" => reply'.verdict = "deny"
      /\ reply'.log >= s.log
      /\ reply'.rule # 0 => /\ policy[reply'.prio].alf # NoBlock
                            /\ reply'.rule = AlfRule(policy[reply'.prio].alf, e)
                            /\ policy[reply'.prio].alf[reply'.rule].action = reply'.verdict
  BY <1>1, <1>2, AlfDecides
<1>5. AdminPrevails' /\ HashIsInvisible'
  BY <1>2, <1>3, <1>4 DEF AdminPrevails, HashIsInvisible, Handled
<1>6. RuleReported'
  BY <1>2, <1>3, <1>4 DEF RuleReported, Says
<1>7. QED
  BY <1>5, <1>6 DEF Correct

LEMMA RenameCorrect ==
    ASSUME NEW from, NEW to, NEW c, HandleRename(from, to, c)
    PROVE  Correct'
<1>1. event'.kind = "rename" /\ reply'.rule = 0
  BY DEF HandleRename
<1>2. QED
  BY <1>1 DEF Correct, HashIsInvisible, AdminPrevails, RuleReported, Handled

LEMMA RepliesCorrect == Spec => [](policy \in Policies /\ Correct)
<1>1. Init => policy \in Policies /\ Correct
  BY DEF Init, Correct, HashIsInvisible, AdminPrevails, RuleReported, Handled
<1>2. policy \in Policies /\ Correct /\ [Next]_vars => (policy \in Policies /\ Correct)'
  <2> SUFFICES ASSUME policy \in Policies, Correct, [Next]_vars
               PROVE  (policy \in Policies /\ Correct)'
    OBVIOUS
  <2>1. policy' = policy
    BY DEF Next, HandleSfs, HandleAlf, HandleRename, vars
  <2>2. CASE UNCHANGED vars
    <3>1. policy' = policy /\ event' = event /\ reply' = reply
      BY <2>2 DEF vars
    <3>2. Correct'
      BY <3>1 DEF Correct, HashIsInvisible, AdminPrevails, AdminReplies, AdminOnly,
                  RuleReported, Says, Handled
    <3>3. QED
      BY <2>1, <3>2
  <2>3. CASE Next
    <3>1. Correct'
      BY <2>3, SfsCorrect, AlfCorrect, RenameCorrect DEF Next
    <3>2. QED
      BY <2>1, <3>1
  <2>4. QED
    BY <2>2, <2>3
<1>3. QED
  BY <1>1, <1>2, PTL DEF Spec

\* pe_prefixhash_getrules: a file event gets the reply that a walk over all
\* rules of the process would give, for every policy, path and hash function.
THEOREM HashAlwaysInvisible == Spec => []HashIsInvisible
<1>1. policy \in Policies /\ Correct => HashIsInvisible
  BY DEF Correct
<1>2. QED
  BY <1>1, RepliesCorrect, PTL

\* pe_decide_sfs, pe_decide_sandbox, pe_decide_alf and reply_merge: whatever a
\* user puts into his policy, no decision about a file becomes less strict than
\* that of the administrator, no denial of network access is lifted, and the
\* log level does not sink.
THEOREM AdminAlwaysPrevails == Spec => []AdminPrevails
<1>1. policy \in Policies /\ Correct => AdminPrevails
  BY DEF Correct
<1>2. QED
  BY <1>1, RepliesCorrect, PTL

\* The rule and priority in a reply, which an escalation shows to the user, are
\* those of a rule that matches the event and says what was decided.
THEOREM RuleAlwaysReported == Spec => []RuleReported
<1>1. policy \in Policies /\ Correct => RuleReported
  BY DEF Correct
<1>2. QED
  BY <1>1, RepliesCorrect, PTL

-----------------------------------------------------------------------------
(* Renames and links                                                        *)

\* pe_compare: a rename or link that is allowed leaves the file under the same
\* rules; shown for one block of rules.
LEMMA SameRulesSuffice ==
    ASSUME NEW block, NEW e, SameRules(block, e),
           NEW i \in DOMAIN block, InScope(block[i], e)
    PROVE  PathMatch(block[i].path, e.from) = PathMatch(block[i].path, e.to)
<1>1. CASE PathMatch(block[i].path, e.from)
  BY <1>1, CandidatesComplete DEF SameRules
<1>2. CASE PathMatch(block[i].path, e.to)
  BY <1>2, CandidatesComplete DEF SameRules
<1>3. CASE ~PathMatch(block[i].path, e.from) /\ ~PathMatch(block[i].path, e.to)
  BY <1>3 DEF PathMatch
<1>4. QED
  BY <1>1, <1>2, <1>3

\* A rename or link that pe_handle_sfspath allows never moves a file from the
\* rules it was under to others, for all policies, paths and hash functions.
THEOREM RenamesKeepRules == Spec => []RenameKeepsRules
<1>1. Init => RenameKeepsRules
  BY DEF Init, RenameKeepsRules, Handled
<1>2. RenameKeepsRules /\ [Next]_vars => RenameKeepsRules'
  <2> SUFFICES ASSUME RenameKeepsRules, [Next]_vars PROVE RenameKeepsRules'
    OBVIOUS
  <2>1. ASSUME NEW e \in FileEvents, HandleSfs(e) PROVE RenameKeepsRules'
    BY <2>1 DEF HandleSfs, RenameKeepsRules, Handled
  <2>2. ASSUME NEW e \in AlfEvents, HandleAlf(e) PROVE RenameKeepsRules'
    BY <2>2 DEF HandleAlf, RenameKeepsRules, Handled
  <2>3. ASSUME NEW from \in Paths \ {<<>>}, NEW to \in Paths \ {<<>>},
               NEW c \in {"t1", "t2"}, HandleRename(from, to, c)
        PROVE  RenameKeepsRules'
    <3> DEFINE e == [from |-> from, to |-> to, cookie |-> c]
    <3>1. policy' = policy /\ event'.e = e
      BY <2>3 DEF HandleRename
    <3>2. SUFFICES ASSUME reply'.verdict = "allow", NEW p \in Prios,
                          NEW b \in {policy[p].sb, policy[p].sfs},
                          NEW i \in DOMAIN b, InScope(b[i], e)
                   PROVE  PathMatch(b[i].path, e.from) = PathMatch(b[i].path, e.to)
      BY <3>1 DEF RenameKeepsRules, Handled
    <3>3. SameRules(policy[p].sb, e) /\ SameRules(policy[p].sfs, e)
      BY <2>3, <3>2 DEF HandleRename
    <3>4. SameRules(b, e)
      BY <3>2, <3>3
    <3>5. QED
      BY <3>2, <3>4, SameRulesSuffice
  <2>4. CASE UNCHANGED vars
    BY <2>4 DEF vars, RenameKeepsRules, Handled
  <2>5. QED
    BY <2>1, <2>2, <2>3, <2>4 DEF Next
<1>3. QED
  BY <1>1, <1>2, PTL DEF Spec
=============================================================================
