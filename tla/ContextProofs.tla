--------------------------- MODULE ContextProofs ---------------------------
(* What the contexts of processes guarantee, for any number of processes,  *)
(* users, priorities, connections and rule chains, as long as a process    *)
(* whose user changed reports it with a fork or an exec first: a context   *)
(* refers to rules that are in force and is what a search of these rules   *)
(* finds, and a rule block is left only where it says so.  Without that    *)
(* proviso, a process that borrows a context gets its own one back.        *)
(*                                                                         *)
(* The invariant behind all of this is Proper: every context of a process, *)
(* the one it keeps aside included, is either without rules or the result  *)
(* of searching the ruleset in force for the program the context is about. *)
EXTENDS Processes, WellFoundedInduction, TLAPS

-----------------------------------------------------------------------------
(* Definitions                                                              *)

\* pe_context_search_chain and pe_context_search for a process in playground
\* pgid.
FoundRule(ch, ident, uid, pgid) == SearchChain(ch, ident, uid, pgid # NoPg)
Found(rs, ident, uid, pgid) == Search(rs, ident, uid, pgid # NoPg)

\* A context without rules.
Bare(x) == x = [ruleset |-> NoRuleset, ident |-> x.ident, rule |-> NoRule]

\* x is what the rules in force say about its program.
Fits(db, uid, pgid, i, x) ==
    \/ x = NoCtx
    \/ Bare(x)
    \/ /\ GetRuleset(db, uid, i) # NoRuleset
       /\ x = Found(GetRuleset(db, uid, i), x.ident, uid, pgid)

\* A context is kept aside only together with a current one.
ProperAt(db, p, i) ==
    /\ Fits(db, p.uid, p.pgid, i, p.ctx[i])
    /\ Fits(db, p.uid, p.pgid, i, p.saved[i])
    /\ p.saved[i] # NoCtx => p.ctx[i] # NoCtx

Proper(db, p) == \A i \in Prios : ProperAt(db, p, i)

\* The policy databases.
Dbs == [Users \cup {Default} -> [Prios -> RulesetRecs \cup {NoRuleset}]]

\* The state of the tracker.
TypeOK ==
    /\ pdb \in Dbs
    /\ loads \in Nat
    /\ proc \in [Cookies -> ProcRecs \cup {NoProc}]
    /\ born \subseteq Cookies
    /\ conns \in [Conns -> SUBSET Cookies]

\* The kernel reports connections of processes that run, and every process
\* that is tracked has used up its cookie.
Alive == Tracked \subseteq born /\ \A k \in Conns : conns[k] \subseteq Tracked

\* Every tracked process has proper contexts.
ContextsProper == \A c \in Tracked : Proper(pdb, proc[c])

\* A context that is kept aside belongs to a connection of the process.
HeldIn(c, p, ends) ==
    \A i \in Prios : p.saved[i] # NoCtx => p.borrow[i] \in Conns /\ c \in ends[p.borrow[i]]
BorrowsHeld == \A c \in Tracked : HeldIn(c, proc[c], conns)

\* Holds whatever the kernel reports.
Tracking == TypeOK /\ Alive /\ BorrowsHeld

IInv == Tracking /\ ContextsProper

\* What a step does to the two parts.
Preserved == Tracking' /\ (ContextsProper => ContextsProper')

-----------------------------------------------------------------------------
(* Searching                                                                *)

\* Every set of numbers that has a member has a least one.
LEMMA LeastNat ==
    ASSUME NEW T \in SUBSET Nat, T # {}
    PROVE  \E x \in T : \A y \in T : x <= y
<1>1. PICK x \in T : \A y \in T : ~(<<y, x>> \in OpToRel(<, Nat))
  BY NatLessThanWellFounded, WFMin
<1>2. \A y \in T : x <= y
  <2> SUFFICES ASSUME NEW y \in T PROVE x <= y
    OBVIOUS
  <2>1. x \in Nat /\ y \in Nat /\ <<y, x>> \in Nat \X Nat
    OBVIOUS
  <2>2. ~(y < x)
    BY <1>1, <2>1 DEF OpToRel
  <2> QED
    BY <2>1, <2>2
<1> QED
  BY <1>2

\* pe_context_search_chain returns a block of the chain that is not reserved
\* for playgrounds, unless the process is in one.
LEMMA ChainResult ==
    ASSUME NEW ch \in Chains, NEW ident, NEW uid, NEW pgid,
           NEW r, r = FoundRule(ch, ident, uid, pgid), r # NoRule
    PROVE  r \in Blocks /\ (r.pgonly => pgid # NoPg)
<1> DEFINE Hits == {i \in DOMAIN ch : /\ pgid # NoPg \/ ~ch[i].pgonly
                                      /\ AnyMatch(ch[i].apps, ident, uid)}
           n == CHOOSE i \in Hits : \A j \in Hits : i <= j
<1>1. Hits # {} /\ r = ch[n]
  BY DEF SearchChain, FoundRule
<1>2. Hits \in SUBSET Nat
  BY ProcAssumption
<1>3. \E x \in Hits : \A y \in Hits : x <= y
  BY <1>1, <1>2, LeastNat
<1>4. n \in Hits
  BY <1>3
<1>5. n \in DOMAIN ch /\ (pgid # NoPg \/ ~ch[n].pgonly)
  BY <1>4
<1> HIDE DEF n, Hits
<1>6. ch[n] \in Blocks
  BY <1>5 DEF Blocks
<1> QED
  BY <1>1, <1>5, <1>6

\* pe_context_search finds a context for the ruleset and the program.
LEMMA FoundIs ==
    ASSUME NEW rs \in RulesetRecs, NEW ident \in Idents \cup {NoIdent},
           NEW uid, NEW pgid, NEW x, x = Found(rs, ident, uid, pgid)
    PROVE  /\ x \in CtxRecs /\ x # NoCtx
           /\ x.ruleset = rs /\ x.ident = ident
           /\ x.rule # NoRule /\ x.rule.pgonly => pgid # NoPg
<1> DEFINE r == FoundRule(rs.chain, ident, uid, pgid)
<1>1. x = [ruleset |-> rs, ident |-> ident, rule |-> r]
  BY DEF Found, Search, FoundRule
<1>2. rs.chain \in Chains
  BY DEF RulesetRecs
<1>3. r # NoRule => r \in Blocks /\ (r.pgonly => pgid # NoPg)
  BY <1>2, ChainResult
<1> HIDE DEF r
<1>4. x \in CtxRecs
  BY <1>1, <1>3 DEF CtxRecs
<1> QED
  BY <1>1, <1>3, <1>4, ProcAssumption

\* pe_user_get_ruleset looks into the database.
LEMMA RulesetIs ==
    ASSUME NEW db \in Dbs, NEW uid \in Users, NEW i \in Prios
    PROVE  /\ GetRuleset(db, uid, i) \in RulesetRecs \cup {NoRuleset}
           /\ \E u \in DOMAIN db : GetRuleset(db, uid, i) = db[u][i]
BY DEF GetRuleset, Dbs

\* pe_context_norules
LEMMA NoRulesIs ==
    ASSUME NEW x \in Ctxs
    PROVE  /\ NoRules(x) \in Ctxs
           /\ NoRules(x) = NoCtx <=> x = NoCtx
           /\ NoRules(x) = NoCtx \/ Bare(NoRules(x))
<1>1. CASE x = NoCtx
  BY <1>1 DEF NoRules
<1>2. CASE x # NoCtx
  <2>1. x \in CtxRecs
    BY <1>2 DEF Ctxs
  <2>2. NoRules(x) = [ruleset |-> NoRuleset, ident |-> x.ident, rule |-> NoRule]
    BY <1>2 DEF NoRules
  <2>3. x.ident \in Idents \cup {NoIdent}
    BY <2>1 DEF CtxRecs
  <2>4. NoRules(x) \in CtxRecs
    BY <2>2, <2>3 DEF CtxRecs
  <2> QED
    BY <1>2, <2>2, <2>4, ProcAssumption DEF Ctxs, Bare
<1> QED
  BY <1>1, <1>2

\* What is known of the context x after pe_context_switch.
SwitchedTo(db, p, i, ident, uid, x) ==
    /\ x \in Ctxs
    /\ Fits(db, uid, p.pgid, i, x)
    /\ GetRuleset(db, uid, i) # NoRuleset => x # NoCtx /\ x.ident = ident
    /\ p.ctx[i] # NoCtx => x # NoCtx

\* pe_context_switch leads to a context that fits, and to no other program
\* than the one that was asked for where there are rules.
LEMMA SwitchedIs ==
    ASSUME NEW db \in Dbs, NEW p, NEW i \in Prios, p.ctx[i] \in Ctxs,
           NEW ident \in Idents \cup {NoIdent}, NEW uid \in Users
    PROVE  SwitchedTo(db, p, i, ident, uid, Switched(db, p, i, ident, uid))
<1> DEFINE rs == GetRuleset(db, uid, i)
           x == Switched(db, p, i, ident, uid)
<1>1. CASE rs = NoRuleset
  <2>1. x = NoRules(p.ctx[i])
    BY <1>1 DEF Switched
  <2> QED
    BY <1>1, <2>1, NoRulesIs DEF Fits, SwitchedTo
<1>2. CASE rs # NoRuleset
  <2>1. x = Found(rs, ident, uid, p.pgid)
    BY <1>2 DEF Switched, Found
  <2>2. rs \in RulesetRecs
    BY <1>2, RulesetIs
  <2> HIDE DEF rs, x
  <2>3. x \in CtxRecs /\ x # NoCtx /\ x.ident = ident
    BY <2>1, <2>2, FoundIs
  <2> QED
    BY <1>2, <2>1, <2>3 DEF Fits, Ctxs, rs, x, SwitchedTo
<1> QED
  BY <1>1, <1>2

-----------------------------------------------------------------------------
(* Processes                                                                *)

\* What a process that goes from p to q may have done to what it keeps aside.
KeepsLoans(p, q) ==
    \A i \in Prios : q.saved[i] # NoCtx => p.saved[i] # NoCtx /\ q.borrow[i] = p.borrow[i]

\* A context is kept aside only together with a current one.
SavedHasCtx(p) == \A i \in Prios : p.saved[i] # NoCtx => p.ctx[i] # NoCtx

\* The types of the fields of a process.
LEMMA ProcFields ==
    ASSUME NEW p \in ProcRecs
    PROVE  /\ p.uid \in Users /\ p.ident \in Idents \cup {NoIdent}
           /\ p.pgid \in PgIds \cup {NoPg}
           /\ p.threads \in Nat /\ p.instances \in Nat
           /\ p.ctx \in [Prios -> Ctxs] /\ p.saved \in [Prios -> Ctxs]
           /\ p.borrow \in [Prios -> Conns \cup {NoConn}]
BY DEF ProcRecs

\* The program of a context.
LEMMA CtxIdent ==
    ASSUME NEW x \in Ctxs, x # NoCtx
    PROVE  x.ident \in Idents \cup {NoIdent}
BY DEF Ctxs, CtxRecs

\* pe_context_refresh for one priority: both contexts fit the database, and a
\* context is kept aside afterwards only if one was before.
LEMMA RefreshedAt ==
    ASSUME NEW db \in Dbs, NEW p \in ProcRecs, NEW i \in Prios,
           NEW x, x = Refresh(db, p, i).ctx[i],
           NEW y, y = Refresh(db, p, i).saved[i]
    PROVE  /\ x \in Ctxs /\ y \in Ctxs
           /\ Fits(db, p.uid, p.pgid, i, x) /\ Fits(db, p.uid, p.pgid, i, y)
           /\ y # NoCtx => p.saved[i] # NoCtx
           /\ p.ctx[i] # NoCtx => x # NoCtx
<1> DEFINE rs == GetRuleset(db, p.uid, i)
           ctx == p.ctx[i]
           saved == p.saved[i]
           id == IF ctx = NoCtx THEN p.ident ELSE ctx.ident
<1>0. p.ctx \in [Prios -> Ctxs] /\ p.saved \in [Prios -> Ctxs] /\ p.uid \in Users
      /\ p.ident \in Idents \cup {NoIdent}
  BY ProcFields
<1>1. ctx \in Ctxs /\ saved \in Ctxs /\ id \in Idents \cup {NoIdent}
  BY <1>0, CtxIdent
<1>2. CASE rs = NoRuleset
  <2>1. x = NoRules(ctx) /\ y = NoRules(saved)
    BY <1>2, <1>0 DEF Refresh, ProcRecs
  <2>2. NoRules(ctx) \in Ctxs /\ (NoRules(ctx) = NoCtx <=> ctx = NoCtx)
        /\ (NoRules(ctx) = NoCtx \/ Bare(NoRules(ctx)))
    BY <1>1, NoRulesIs
  <2>3. NoRules(saved) \in Ctxs /\ (NoRules(saved) = NoCtx <=> saved = NoCtx)
        /\ (NoRules(saved) = NoCtx \/ Bare(NoRules(saved)))
    BY <1>1, NoRulesIs
  <2> QED
    BY <2>1, <2>2, <2>3 DEF Fits
<1>3. CASE rs # NoRuleset
  <2>1. x = Found(rs, id, p.uid, p.pgid)
    BY <1>3, <1>0 DEF Refresh, ProcRecs, Found
  <2>2. y = IF saved = NoCtx THEN NoCtx ELSE Found(rs, saved.ident, p.uid, p.pgid)
    BY <1>3, <1>0 DEF Refresh, ProcRecs, Found
  <2>3. rs \in RulesetRecs
    BY <1>0, <1>3, RulesetIs
  <2>4. saved # NoCtx => saved.ident \in Idents \cup {NoIdent}
    BY <1>1, CtxIdent
  <2>0. id \in Idents \cup {NoIdent}
    BY <1>1
  <2> HIDE DEF rs, id
  <2>5. x \in CtxRecs /\ x # NoCtx /\ x.ident = id
    BY <2>0, <2>1, <2>3, FoundIs
  <2>6. saved # NoCtx => y \in CtxRecs /\ y.ident = saved.ident
    BY <2>2, <2>3, <2>4, FoundIs
  <2>7. Fits(db, p.uid, p.pgid, i, x)
    BY <1>3, <2>1, <2>5 DEF Fits, rs
  <2>8. Fits(db, p.uid, p.pgid, i, y)
    BY <1>3, <2>2, <2>6 DEF Fits, rs
  <2> QED
    BY <2>2, <2>5, <2>6, <2>7, <2>8 DEF Ctxs
<1> QED
  BY <1>2, <1>3

\* pe_context_refresh: a process has proper contexts again, whatever rules its
\* old ones referred to.
LEMMA RefreshedAll ==
    ASSUME NEW db \in Dbs, NEW p \in ProcRecs, NEW q, q = RefreshAll(db, p)
    PROVE  /\ q \in ProcRecs /\ KeepsLoans(p, q) /\ (SavedHasCtx(p) => Proper(db, q))
           /\ q.uid = p.uid /\ q.pgid = p.pgid /\ q.ident = p.ident
           /\ q.threads = p.threads /\ q.instances = p.instances
<1> DEFINE Cur(i) == Refresh(db, p, i).ctx[i]
           Kept(i) == Refresh(db, p, i).saved[i]
<1>1. \A i \in Prios : /\ Cur(i) \in Ctxs /\ Kept(i) \in Ctxs
                       /\ Fits(db, p.uid, p.pgid, i, Cur(i))
                       /\ Fits(db, p.uid, p.pgid, i, Kept(i))
                       /\ Kept(i) # NoCtx => p.saved[i] # NoCtx
                       /\ p.ctx[i] # NoCtx => Cur(i) # NoCtx
  <2> SUFFICES ASSUME NEW i \in Prios
               PROVE  /\ Cur(i) \in Ctxs /\ Kept(i) \in Ctxs
                      /\ Fits(db, p.uid, p.pgid, i, Cur(i))
                      /\ Fits(db, p.uid, p.pgid, i, Kept(i))
                      /\ Kept(i) # NoCtx => p.saved[i] # NoCtx
                      /\ p.ctx[i] # NoCtx => Cur(i) # NoCtx
    OBVIOUS
  <2>1. Cur(i) = Refresh(db, p, i).ctx[i] /\ Kept(i) = Refresh(db, p, i).saved[i]
    OBVIOUS
  <2> HIDE DEF Cur, Kept
  <2> QED
    BY <2>1, RefreshedAt
<1>6. \A i \in Prios : Cur(i) \in Ctxs /\ Kept(i) \in Ctxs
  BY <1>1
<1>3. q = [p EXCEPT !.ctx = [i \in Prios |-> Cur(i)], !.saved = [i \in Prios |-> Kept(i)]]
  BY DEF RefreshAll
<1> HIDE DEF Cur, Kept
<1> DEFINE cs == [i \in Prios |-> Cur(i)]
           ss == [i \in Prios |-> Kept(i)]
<1>2. cs \in [Prios -> Ctxs] /\ ss \in [Prios -> Ctxs]
  BY <1>6
<1> HIDE DEF cs, ss
<1>4. /\ q \in ProcRecs /\ q.borrow = p.borrow
      /\ q.ctx = cs /\ q.saved = ss
      /\ q.uid = p.uid /\ q.pgid = p.pgid /\ q.ident = p.ident
      /\ q.threads = p.threads /\ q.instances = p.instances
  BY <1>2, <1>3 DEF ProcRecs, cs, ss
<1>5. \A i \in Prios : q.ctx[i] = Cur(i) /\ q.saved[i] = Kept(i)
  BY <1>4 DEF cs, ss
<1> QED
  BY <1>1, <1>4, <1>5 DEF Proper, ProperAt, KeepsLoans, SavedHasCtx

\* The same for one priority, where the others already fit.
LEMMA RefreshedOne ==
    ASSUME NEW db \in Dbs, NEW p \in ProcRecs, NEW prio \in Prios,
           NEW q, q = Refresh(db, p, prio)
    PROVE  /\ q \in ProcRecs /\ KeepsLoans(p, q)
           /\ q.pgid = p.pgid /\ q.threads = p.threads
           /\ SavedHasCtx(p) /\ (\A i \in Prios \ {prio} : ProperAt(db, p, i)) => Proper(db, q)
<1> DEFINE x == Refresh(db, p, prio).ctx[prio]
           y == Refresh(db, p, prio).saved[prio]
<1>1. /\ x \in Ctxs /\ y \in Ctxs
      /\ Fits(db, p.uid, p.pgid, prio, x) /\ Fits(db, p.uid, p.pgid, prio, y)
      /\ y # NoCtx => p.saved[prio] # NoCtx
      /\ p.ctx[prio] # NoCtx => x # NoCtx
  <2> HIDE DEF x, y
  <2>2. x = Refresh(db, p, prio).ctx[prio] /\ y = Refresh(db, p, prio).saved[prio]
    BY DEF x, y
  <2> QED
    BY <2>2, RefreshedAt
<1>2. p.ctx \in [Prios -> Ctxs] /\ p.saved \in [Prios -> Ctxs]
  BY ProcFields
<1>3. q = [p EXCEPT !.ctx[prio] = x, !.saved[prio] = y]
  BY <1>2 DEF Refresh, ProcRecs
<1> HIDE DEF x, y
<1> DEFINE cs == [p.ctx EXCEPT ![prio] = x]
           ss == [p.saved EXCEPT ![prio] = y]
<1>6. cs \in [Prios -> Ctxs] /\ ss \in [Prios -> Ctxs]
  BY <1>1, <1>2
<1>7. q = [p EXCEPT !.ctx = cs, !.saved = ss]
  BY <1>3
<1> HIDE DEF cs, ss
<1>8. /\ q \in ProcRecs /\ q.borrow = p.borrow /\ q.uid = p.uid /\ q.pgid = p.pgid
      /\ q.threads = p.threads /\ q.ctx = cs /\ q.saved = ss
  BY <1>6, <1>7 DEF ProcRecs
<1>4. /\ q.ctx = [p.ctx EXCEPT ![prio] = x] /\ q.saved = [p.saved EXCEPT ![prio] = y]
  BY <1>8 DEF cs, ss
<1>5. /\ q.ctx[prio] = x /\ q.saved[prio] = y
      /\ \A i \in Prios \ {prio} : q.ctx[i] = p.ctx[i] /\ q.saved[i] = p.saved[i]
  BY <1>2, <1>4
<1> QED
  BY <1>1, <1>8, <1>5 DEF Proper, ProperAt, KeepsLoans, SavedHasCtx

\* pe_context_fork: the contexts of a child are proper.
LEMMA ForkedIs ==
    ASSUME pdb \in Dbs, NEW child \in ProcRecs,
           \A i \in Prios : child.saved[i] = NoCtx /\ child.ctx[i] = NoCtx,
           NEW parent \in ProcRecs \cup {NoProc},
           parent # NoProc => parent.pgid = child.pgid,
           NEW q, q = ForkCtx(child, parent)
    PROVE  /\ q \in ProcRecs
           /\ (parent # NoProc => Proper(pdb, parent)) => Proper(pdb, q)
           /\ \A i \in Prios : q.saved[i] = NoCtx
           /\ q.pgid = child.pgid /\ q.threads = child.threads
<1> DEFINE F(i) == IF parent # NoProc /\ parent.uid = child.uid /\ parent.ctx[i] # NoCtx
                   THEN parent.ctx[i]
                   ELSE Switched(pdb, child, i, child.ident, child.uid)
<1>1. ASSUME NEW i \in Prios
      PROVE  /\ F(i) \in Ctxs
             /\ (parent # NoProc => Proper(pdb, parent))
                   => Fits(pdb, child.uid, child.pgid, i, F(i))
  <2>1. child.ctx[i] \in Ctxs /\ child.ident \in Idents \cup {NoIdent} /\ child.uid \in Users
    BY ProcFields
  <2>2. CASE parent # NoProc /\ parent.uid = child.uid /\ parent.ctx[i] # NoCtx
    <3>1. parent.ctx \in [Prios -> Ctxs]
      BY <2>2, ProcFields
    <3> QED
      BY <2>2, <3>1 DEF Proper, ProperAt
  <2>3. CASE ~(parent # NoProc /\ parent.uid = child.uid /\ parent.ctx[i] # NoCtx)
    <3>1. F(i) = Switched(pdb, child, i, child.ident, child.uid)
      BY <2>3
    <3>2. SwitchedTo(pdb, child, i, child.ident, child.uid,
                     Switched(pdb, child, i, child.ident, child.uid))
      BY <2>1, SwitchedIs
    <3> HIDE DEF F
    <3> QED
      BY <3>1, <3>2 DEF SwitchedTo
  <2> QED
    BY <2>2, <2>3
<1>2. q = [child EXCEPT !.ctx = [i \in Prios |-> F(i)]]
  BY DEF ForkCtx
<1> HIDE DEF F
<1>3. q \in ProcRecs /\ q.uid = child.uid /\ q.pgid = child.pgid /\ q.saved = child.saved
      /\ q.threads = child.threads
      /\ q.ctx = [i \in Prios |-> F(i)]
  BY <1>1, <1>2 DEF ProcRecs
<1>4. \A i \in Prios : Fits(pdb, child.uid, child.pgid, i, NoCtx)
  BY DEF Fits
<1> QED
  BY <1>1, <1>3, <1>4 DEF Proper, ProperAt

\* pe_context_exec: where the context is not switched, the user has not
\* changed either.
LEMMA ExecIs ==
    ASSUME pdb \in Dbs, NEW p \in ProcRecs,
           NEW uid \in Users, NEW ident \in Idents,
           NEW q, q = ExecCtx(p, uid, ident)
    PROVE  /\ q \in ProcRecs /\ KeepsLoans(p, q) /\ (Proper(pdb, p) => Proper(pdb, q))
           /\ q.pgid = p.pgid /\ q.threads = p.threads
<1> DEFINE sw == {i \in Prios : Decide(p, "new", i, ident, uid)}
           Cur(i) == IF i \in sw THEN Switched(pdb, p, i, ident, uid) ELSE p.ctx[i]
           Kept(i) == IF i \in sw THEN NoCtx ELSE p.saved[i]
<1>0. p.ctx \in [Prios -> Ctxs] /\ p.saved \in [Prios -> Ctxs]
  BY ProcFields
<1>1. ASSUME NEW i \in Prios
      PROVE  /\ Cur(i) \in Ctxs /\ Kept(i) \in Ctxs
             /\ Kept(i) # NoCtx => p.saved[i] # NoCtx
             /\ ProperAt(pdb, p, i) => /\ Fits(pdb, uid, p.pgid, i, Cur(i))
                                       /\ Fits(pdb, uid, p.pgid, i, Kept(i))
                                       /\ Kept(i) # NoCtx => Cur(i) # NoCtx
  <2>0. p.ctx[i] \in Ctxs /\ p.saved[i] \in Ctxs
    BY <1>0
  <2>1. CASE i \in sw
    <3>1. SwitchedTo(pdb, p, i, ident, uid, Switched(pdb, p, i, ident, uid))
      BY <2>0, SwitchedIs
    <3>2. Cur(i) = Switched(pdb, p, i, ident, uid) /\ Kept(i) = NoCtx
      BY <2>1
    <3> HIDE DEF Cur, Kept
    <3> QED
      BY <3>1, <3>2 DEF SwitchedTo, Fits, Ctxs
  <2>2. CASE i \notin sw
    <3>1. p.uid = uid
      BY <2>2 DEF Decide
    <3>2. Cur(i) = p.ctx[i] /\ Kept(i) = p.saved[i]
      BY <2>2
    <3> QED
      BY <2>0, <3>1, <3>2 DEF ProperAt
  <2> QED
    BY <2>1, <2>2
<1>2. q = [p EXCEPT !.ctx = [i \in Prios |-> Cur(i)], !.saved = [i \in Prios |-> Kept(i)],
                    !.uid = uid]
  BY DEF ExecCtx
<1> HIDE DEF Cur, Kept
<1> DEFINE cs == [i \in Prios |-> Cur(i)]
           ss == [i \in Prios |-> Kept(i)]
<1>3. cs \in [Prios -> Ctxs] /\ ss \in [Prios -> Ctxs]
  BY <1>1
<1> HIDE DEF cs, ss
<1>4. /\ q \in ProcRecs /\ q.borrow = p.borrow /\ q.ctx = cs /\ q.saved = ss
      /\ q.uid = uid /\ q.pgid = p.pgid /\ q.threads = p.threads
  BY <1>2, <1>3 DEF ProcRecs, cs, ss
<1>5. \A i \in Prios : q.ctx[i] = Cur(i) /\ q.saved[i] = Kept(i)
  BY <1>4 DEF cs, ss
<1> QED
  BY <1>1, <1>4, <1>5 DEF Proper, ProperAt, KeepsLoans

\* pe_context_open; the context is proper if the event reports the user that
\* the tracker knows.
LEMMA OpenIs ==
    ASSUME pdb \in Dbs, NEW p \in ProcRecs, NEW ident \in Idents, NEW uid \in Users,
           NEW q, q = [p EXCEPT !.ctx = [i \in Prios |->
                          IF Decide(p, "open", i, ident, p.uid)
                            THEN Switched(pdb, p, i, ident, uid) ELSE p.ctx[i]]]
    PROVE  /\ q \in ProcRecs /\ KeepsLoans(p, q)
           /\ Proper(pdb, p) /\ uid = p.uid => Proper(pdb, q)
           /\ q.pgid = p.pgid /\ q.threads = p.threads
<1> DEFINE Cur(i) == IF Decide(p, "open", i, ident, p.uid)
                       THEN Switched(pdb, p, i, ident, uid) ELSE p.ctx[i]
<1>0. p.ctx \in [Prios -> Ctxs] /\ p.saved \in [Prios -> Ctxs]
  BY ProcFields
<1>1. ASSUME NEW i \in Prios
      PROVE  /\ Cur(i) \in Ctxs
             /\ ProperAt(pdb, p, i) /\ uid = p.uid => Fits(pdb, p.uid, p.pgid, i, Cur(i))
             /\ p.ctx[i] # NoCtx => Cur(i) # NoCtx
  <2>0. p.ctx[i] \in Ctxs
    BY <1>0
  <2>1. SwitchedTo(pdb, p, i, ident, uid, Switched(pdb, p, i, ident, uid))
    BY <2>0, SwitchedIs
  <2>2. Cur(i) = Switched(pdb, p, i, ident, uid) \/ Cur(i) = p.ctx[i]
    OBVIOUS
  <2> HIDE DEF Cur
  <2> QED
    BY <2>0, <2>1, <2>2 DEF SwitchedTo, ProperAt
<1> DEFINE cs == [i \in Prios |-> Cur(i)]
<1>2. q = [p EXCEPT !.ctx = cs]
  OBVIOUS
<1> HIDE DEF Cur
<1>3. cs \in [Prios -> Ctxs] /\ \A i \in Prios : cs[i] = Cur(i)
  BY <1>1
<1> HIDE DEF cs
<1>4. /\ q \in ProcRecs /\ q.borrow = p.borrow /\ q.ctx = cs /\ q.saved = p.saved
      /\ q.uid = p.uid /\ q.pgid = p.pgid /\ q.threads = p.threads
  BY <1>2, <1>3 DEF ProcRecs
<1> QED
  BY <1>1, <1>3, <1>4 DEF Proper, ProperAt, KeepsLoans

\* pe_proc_restore_ctx: the context that was kept aside is current again and
\* nothing is kept for the connection k any more.
LEMMA RestoredIs ==
    ASSUME NEW db, NEW p \in ProcRecs, NEW k, NEW q, q = RestoreCtx(p, k)
    PROVE  /\ q \in ProcRecs /\ KeepsLoans(p, q) /\ (Proper(db, p) => Proper(db, q))
           /\ \A i \in Prios : q.saved[i] # NoCtx => q.borrow[i] # k
           /\ q.uid = p.uid /\ q.pgid = p.pgid /\ q.threads = p.threads
           /\ \A i \in Prios : \/ q.ctx[i] = p.ctx[i]
                               \/ /\ p.saved[i] # NoCtx /\ q.saved[i] = NoCtx
                                  /\ q.ctx[i] = p.saved[i]
<1> DEFINE r == {i \in Prios : p.saved[i] # NoCtx /\ p.borrow[i] = k}
           cs == [i \in Prios |-> IF i \in r THEN p.saved[i] ELSE p.ctx[i]]
           ss == [i \in Prios |-> IF i \in r THEN NoCtx ELSE p.saved[i]]
<1>1. cs \in [Prios -> Ctxs] /\ ss \in [Prios -> Ctxs]
  BY ProcFields DEF Ctxs
<1>2. q = [p EXCEPT !.ctx = cs, !.saved = ss]
  BY DEF RestoreCtx
<1>3. /\ q \in ProcRecs /\ q.ctx = cs /\ q.saved = ss /\ q.borrow = p.borrow
      /\ q.uid = p.uid /\ q.pgid = p.pgid /\ q.threads = p.threads
  <2> HIDE DEF cs, ss
  <2> QED
    BY <1>1, <1>2 DEF ProcRecs
<1>4. \A i \in Prios :
         \/ /\ i \in r /\ q.ctx[i] = p.saved[i] /\ q.saved[i] = NoCtx
         \/ /\ i \notin r /\ q.ctx[i] = p.ctx[i] /\ q.saved[i] = p.saved[i]
  BY <1>3
<1>5. \A i \in Prios : Fits(db, p.uid, p.pgid, i, NoCtx)
  BY DEF Fits
<1> QED
  BY <1>3, <1>4, <1>5 DEF Proper, ProperAt, KeepsLoans

\* pe_context_decide lets a process borrow only if its own context has a rule,
\* so that there are rules in force to search for the peer's program.
LEMMA BorrowerHasRules ==
    ASSUME NEW db, NEW s, NEW d, NEW i \in Prios, Borrows(s, d, i), ProperAt(db, d, i)
    PROVE  d.ctx[i] # NoCtx /\ d.ctx[i].rule # NoRule /\ GetRuleset(db, d.uid, i) # NoRuleset
<1>1. d.ctx[i] # NoCtx /\ d.ctx[i].rule # NoRule
  BY DEF Borrows, Decide
<1>2. ~Bare(d.ctx[i])
  <2> SUFFICES ASSUME Bare(d.ctx[i]) PROVE FALSE
    OBVIOUS
  <2> DEFINE x == d.ctx[i]
  <2>1. x = [ruleset |-> NoRuleset, ident |-> x.ident, rule |-> NoRule]
    BY DEF Bare
  <2> HIDE DEF x
  <2>2. x.rule = NoRule
    BY <2>1
  <2> QED
    BY <1>1, <2>2 DEF x
<1> QED
  BY <1>1, <1>2 DEF ProperAt, Fits

\* pe_context_borrow: the contexts stay proper, and those that change are the
\* ones the process was allowed to borrow.
LEMMA BorrowedIs ==
    ASSUME pdb \in Dbs, NEW s \in ProcRecs, NEW d \in ProcRecs,
           NEW k \in Conns, NEW q, q = BorrowCtx(s, d, k)
    PROVE  /\ q \in ProcRecs /\ (Proper(pdb, d) => Proper(pdb, q))
           /\ \A i \in Prios : q.saved[i] # NoCtx =>
                 q.borrow[i] = k \/ (d.saved[i] # NoCtx /\ q.borrow[i] = d.borrow[i])
           /\ q.uid = d.uid /\ q.pgid = d.pgid /\ q.threads = d.threads
           /\ Proper(pdb, d) =>
                 \A i \in Prios : \/ q.ctx[i] = d.ctx[i]
                                  \/ Borrows(s, d, i) /\ q.ctx[i].ident = s.ctx[i].ident
<1> DEFINE b == {i \in Prios : Borrows(s, d, i)}
           keep == {i \in b : d.saved[i] = NoCtx}
           ms == [i \in Prios |-> IF i \in keep THEN NoCtx ELSE d.ctx[i]]
           mid == [d EXCEPT !.ctx = ms]
           Cur(i) == IF i \in b THEN Switched(pdb, mid, i, s.ctx[i].ident, d.uid)
                                ELSE d.ctx[i]
           ss == [i \in Prios |-> IF i \in keep THEN d.ctx[i] ELSE d.saved[i]]
           bs == [i \in Prios |-> IF i \in keep THEN k ELSE d.borrow[i]]
           cs == [i \in Prios |-> Cur(i)]
<1>0. /\ d.ctx \in [Prios -> Ctxs] /\ d.saved \in [Prios -> Ctxs] /\ d.uid \in Users
      /\ d.borrow \in [Prios -> Conns \cup {NoConn}] /\ s.ctx \in [Prios -> Ctxs]
  BY ProcFields
<1>1. /\ ms \in [Prios -> Ctxs] /\ ss \in [Prios -> Ctxs]
      /\ bs \in [Prios -> Conns \cup {NoConn}]
  BY <1>0 DEF Ctxs
<1>2. mid \in ProcRecs /\ mid.pgid = d.pgid /\ mid.ctx = ms /\ mid.threads = d.threads
  <2> HIDE DEF ms
  <2> QED
    BY <1>1 DEF ProcRecs
<1>3. ASSUME NEW i \in Prios
      PROVE  /\ Cur(i) \in Ctxs
             /\ ProperAt(pdb, d, i) =>
                  /\ Fits(pdb, d.uid, d.pgid, i, Cur(i))
                  /\ i \in b => /\ d.ctx[i] # NoCtx /\ Cur(i) # NoCtx
                               /\ Cur(i).ident = s.ctx[i].ident
  <2>1. CASE i \in b
    <3>1. ProperAt(pdb, d, i) => d.ctx[i] # NoCtx /\ GetRuleset(pdb, d.uid, i) # NoRuleset
      BY <2>1, BorrowerHasRules
    <3>2. s.ctx[i].ident \in Idents \cup {NoIdent}
      BY <1>0, <2>1, CtxIdent DEF Borrows
    <3>3. mid.ctx[i] \in Ctxs
      BY <1>1, <1>2
    <3>4. Cur(i) = Switched(pdb, mid, i, s.ctx[i].ident, d.uid)
      BY <2>1
    <3> HIDE DEF Cur, mid
    <3>5. SwitchedTo(pdb, mid, i, s.ctx[i].ident, d.uid, Cur(i))
      BY <1>0, <3>2, <3>3, <3>4, SwitchedIs
    <3> QED
      BY <1>2, <3>1, <3>5 DEF SwitchedTo
  <2>2. CASE i \notin b
    BY <1>0, <2>2 DEF ProperAt
  <2> QED
    BY <2>1, <2>2
<1>4. q = [mid EXCEPT !.saved = ss, !.borrow = bs, !.ctx = cs]
  BY DEF BorrowCtx
<1>5. mid.uid = d.uid
  <2> HIDE DEF ms
  <2> QED
    BY <1>1 DEF ProcRecs
<1>6. cs \in [Prios -> Ctxs]
  <2> HIDE DEF Cur
  <2> QED
    BY <1>3
<1>7. /\ q \in ProcRecs /\ q.ctx = cs /\ q.saved = ss /\ q.borrow = bs
      /\ q.uid = d.uid /\ q.pgid = d.pgid /\ q.threads = d.threads
  <2> HIDE DEF mid, cs, ss, bs
  <2> QED
    BY <1>1, <1>2, <1>4, <1>5, <1>6 DEF ProcRecs
<1>8. ASSUME NEW i \in Prios
      PROVE  /\ q.ctx[i] = Cur(i)
             /\ \/ i \in keep /\ q.saved[i] = d.ctx[i] /\ q.borrow[i] = k
                \/ i \notin keep /\ q.saved[i] = d.saved[i] /\ q.borrow[i] = d.borrow[i]
  <2> HIDE DEF Cur, keep
  <2> QED
    BY <1>7
<1>9. ASSUME NEW i \in Prios
      PROVE  /\ q.saved[i] # NoCtx =>
                   q.borrow[i] = k \/ (d.saved[i] # NoCtx /\ q.borrow[i] = d.borrow[i])
             /\ ProperAt(pdb, d, i) =>
                  /\ ProperAt(pdb, q, i)
                  /\ \/ q.ctx[i] = d.ctx[i]
                     \/ Borrows(s, d, i) /\ q.ctx[i].ident = s.ctx[i].ident
  <2>1. keep \subseteq b /\ (i \notin b => Cur(i) = d.ctx[i])
    OBVIOUS
  <2>2. i \in b => Borrows(s, d, i)
    OBVIOUS
  <2> HIDE DEF keep, b, Cur
  <2>3. q.saved[i] = d.ctx[i] \/ q.saved[i] = d.saved[i]
    BY <1>8
  <2>6. q.saved[i] # NoCtx =>
           q.borrow[i] = k \/ (d.saved[i] # NoCtx /\ q.borrow[i] = d.borrow[i])
    BY <1>8
  <2> SUFFICES ASSUME ProperAt(pdb, d, i)
               PROVE  /\ ProperAt(pdb, q, i)
                      /\ \/ q.ctx[i] = d.ctx[i]
                         \/ Borrows(s, d, i) /\ q.ctx[i].ident = s.ctx[i].ident
    BY <2>6
  <2>4. Fits(pdb, q.uid, q.pgid, i, q.ctx[i]) /\ Fits(pdb, q.uid, q.pgid, i, q.saved[i])
    BY <1>3, <1>7, <1>8, <2>3 DEF ProperAt
  <2>5. q.saved[i] # NoCtx => q.ctx[i] # NoCtx
    BY <1>3, <1>8, <2>1 DEF ProperAt
  <2> QED
    BY <1>3, <1>8, <2>1, <2>2, <2>4, <2>5 DEF ProperAt
<1> QED
  BY <1>7, <1>9 DEF Proper

-----------------------------------------------------------------------------
(* Policies                                                                 *)

\* Where the ruleset in force is the same, the same contexts fit.
LEMMA SameRulesFit ==
    ASSUME NEW db, NEW new, NEW p, NEW i \in Prios, ProperAt(db, p, i),
           GetRuleset(new, p.uid, i) = GetRuleset(db, p.uid, i)
    PROVE  ProperAt(new, p, i)
BY DEF ProperAt, Fits

\* pe_proc_update_db_one passes p over when the policy of uid is replaced.
Unconcerned(db, p, uid, prio) ==
    \/ p.ctx[prio] = NoCtx
    \/ /\ ~UsesRuleset(p.ctx[prio], db[uid][prio])
       /\ ~(db[uid][prio] = NoRuleset /\ p.uid = uid)

\* pe_user_insert_rs: the database new has the ruleset rs in addition to db.
Inserted(db, uid, prio, rs, new) == new = [db EXCEPT ![uid][prio] = rs]

Untouched(db, p, uid, prio, new) ==
    /\ \A i \in Prios \ {prio} : ProperAt(new, p, i)
    /\ Unconcerned(db, p, uid, prio) => Proper(new, p)

\* pe_user_insert_rs and pe_proc_update_db_one: the processes that are not
\* searched again did not need it.
LEMMA OthersUntouched ==
    ASSUME NEW db \in Dbs, NEW p \in ProcRecs, Proper(db, p),
           NEW uid \in Users \cup {Default}, NEW prio \in Prios,
           NEW rs \in RulesetRecs, NEW new, Inserted(db, uid, prio, rs, new)
    PROVE  Untouched(db, p, uid, prio, new)
<1> DEFINE old == db[uid][prio]
           G == GetRuleset(db, p.uid, prio)
<1>0. p.uid \in Users /\ p.uid # Default /\ p.uid \in DOMAIN db /\ p.uid \in DOMAIN new
  BY ProcFields, ProcAssumption DEF Dbs, Default, Inserted
<1>1. \A u \in DOMAIN db, i \in Prios :
         new[u][i] = IF u = uid /\ i = prio THEN rs ELSE db[u][i]
  BY DEF Dbs, Inserted
<1>2. ASSUME NEW i \in Prios \ {prio} PROVE ProperAt(new, p, i)
  <2>1. GetRuleset(new, p.uid, i) = GetRuleset(db, p.uid, i)
    BY <1>0, <1>1 DEF GetRuleset, Dbs
  <2> QED
    BY <2>1, SameRulesFit DEF Proper
<1>3. G = IF db[p.uid][prio] # NoRuleset THEN db[p.uid][prio] ELSE db[Default][prio]
  BY <1>0 DEF GetRuleset
<1>4. GetRuleset(new, p.uid, prio)
        = IF new[p.uid][prio] # NoRuleset THEN new[p.uid][prio] ELSE new[Default][prio]
  BY <1>0 DEF GetRuleset
<1>5. ProperAt(db, p, prio)
  BY DEF Proper
<1>6. G \in RulesetRecs \cup {NoRuleset}
  BY <1>0, RulesetIs
<1>7. ASSUME \A x \in {p.ctx[prio], p.saved[prio]} : x = NoCtx \/ Bare(x)
      PROVE  ProperAt(new, p, prio)
  BY <1>5, <1>7 DEF ProperAt, Fits
<1>8. ASSUME p.ctx[prio] = NoCtx PROVE ProperAt(new, p, prio)
  BY <1>5, <1>7, <1>8 DEF ProperAt
<1>9. ASSUME p.ctx[prio] # NoCtx, old = NoRuleset, p.uid # uid
      PROVE  ProperAt(new, p, prio)
  <2>1. CASE uid = Default /\ db[p.uid][prio] = NoRuleset
    <3>1. G = NoRuleset
      BY <1>3, <1>9, <2>1
    <3> QED
      BY <1>5, <1>7, <3>1 DEF ProperAt, Fits
  <2>2. CASE ~(uid = Default /\ db[p.uid][prio] = NoRuleset)
    <3>1. GetRuleset(new, p.uid, prio) = G
      BY <1>0, <1>1, <1>3, <1>4, <1>9, <2>2 DEF Dbs
    <3> QED
      BY <1>5, <3>1, SameRulesFit
  <2> QED
    BY <2>1, <2>2
<1>10. ASSUME p.ctx[prio] # NoCtx, old # NoRuleset, ~UsesRuleset(p.ctx[prio], old)
       PROVE  ProperAt(new, p, prio)
  <2> DEFINE x == p.ctx[prio]
  <2>0. x \in Ctxs /\ x # NoCtx
    BY <1>10, ProcFields
  <2>1. x.ruleset # old /\ x.ruleset # NoRuleset
    BY <1>10 DEF UsesRuleset
  <2>2. Fits(db, p.uid, p.pgid, prio, x)
    BY <1>5 DEF ProperAt
  <2> HIDE DEF x
  <2>3. ~Bare(x)
    <3> SUFFICES ASSUME Bare(x) PROVE FALSE
      OBVIOUS
    <3>1. x = [ruleset |-> NoRuleset, ident |-> x.ident, rule |-> NoRule]
      BY DEF Bare
    <3>2. x.ruleset = NoRuleset
      BY <3>1
    <3> QED
      BY <2>1, <3>2
  <2>4. G # NoRuleset /\ x = Found(G, x.ident, p.uid, p.pgid)
    BY <2>0, <2>2, <2>3 DEF Fits
  <2>5. x.ident \in Idents \cup {NoIdent}
    BY <2>0, CtxIdent
  <2>6. G \in RulesetRecs
    BY <1>6, <2>4
  <2> HIDE DEF G
  <2>7. x.ruleset = G
    BY <2>4, <2>5, <2>6, FoundIs
  <2>8. G # old
    BY <2>1, <2>7
  <2>9. GetRuleset(new, p.uid, prio) = G
    <3>1. CASE db[p.uid][prio] # NoRuleset
      <4>1. p.uid # uid
        BY <1>3, <2>8, <3>1
      <4> QED
        BY <1>0, <1>1, <1>3, <1>4, <3>1, <4>1
    <3>2. CASE db[p.uid][prio] = NoRuleset
      <4>1. p.uid # uid /\ uid # Default
        BY <1>3, <1>10, <2>8, <3>2
      <4>2. Default \in DOMAIN db
        BY DEF Dbs
      <4> QED
        BY <1>0, <1>1, <1>3, <1>4, <3>2, <4>1, <4>2
    <3> QED
      BY <3>1, <3>2
  <2>10. GetRuleset(new, p.uid, prio) = GetRuleset(db, p.uid, prio)
    BY <2>9 DEF G
  <2> QED
    BY <1>5, <2>10, SameRulesFit
<1>11. Unconcerned(db, p, uid, prio) => ProperAt(new, p, prio)
  BY <1>8, <1>9, <1>10 DEF Unconcerned
<1> QED
  BY <1>2, <1>11 DEF Proper, Untouched

-----------------------------------------------------------------------------
(* The steps                                                                *)

LEMMA TrackedType ==
    ASSUME TypeOK, NEW c \in Tracked
    PROVE  c \in Cookies /\ proc[c] \in ProcRecs
BY DEF TypeOK, Tracked

LEMMA ProperSaved ==
    ASSUME NEW db, NEW p, Proper(db, p)
    PROVE  SavedHasCtx(p)
BY DEF Proper, ProperAt, SavedHasCtx

LEMMA LoansHeld ==
    ASSUME NEW c, NEW p, NEW q, NEW ends, KeepsLoans(p, q), HeldIn(c, p, ends)
    PROVE  HeldIn(c, q, ends)
BY DEF KeepsLoans, HeldIn

\* Two processes with the same user, playground and contexts.
SameContexts(p, q) ==
    /\ q.uid = p.uid /\ q.pgid = p.pgid
    /\ q.ctx = p.ctx /\ q.saved = p.saved /\ q.borrow = p.borrow

LEMMA SameProper ==
    ASSUME NEW db, NEW p, NEW q, NEW c, NEW ends, SameContexts(p, q),
           HeldIn(c, p, ends)
    PROVE  (Proper(db, p) => Proper(db, q)) /\ HeldIn(c, q, ends)
BY DEF SameContexts, Proper, ProperAt, HeldIn

\* Counting threads and instances leaves the contexts alone.
LEMMA CountersOnly ==
    ASSUME NEW p \in ProcRecs, NEW n \in Nat
    PROVE  /\ [p EXCEPT !.threads = n] \in ProcRecs
           /\ SameContexts(p, [p EXCEPT !.threads = n])
           /\ [p EXCEPT !.instances = n] \in ProcRecs
           /\ SameContexts(p, [p EXCEPT !.instances = n])
BY DEF ProcRecs, SameContexts

\* pe_proc_alloc
LEMMA NewProcIs ==
    ASSUME NEW uid \in Users, NEW ident \in Idents \cup {NoIdent},
           NEW pgid \in PgIds \cup {NoPg}, NEW p, p = NewProc(uid, ident, pgid)
    PROVE  /\ p \in ProcRecs /\ p.pgid = pgid /\ p.uid = uid /\ p.threads = 0
           /\ \A db : Proper(db, p)
           /\ \A i \in Prios : p.saved[i] = NoCtx /\ p.ctx[i] = NoCtx
<1>1. p \in ProcRecs /\ p.pgid = pgid /\ p.uid = uid /\ p.threads = 0
  BY DEF NewProc, ProcRecs, Ctxs
<1>2. \A i \in Prios : p.saved[i] = NoCtx /\ p.ctx[i] = NoCtx
  BY DEF NewProc
<1> QED
  BY <1>1, <1>2 DEF Proper, ProperAt, Fits

\* One process changes, or is tracked from now on.
LEMMA OneProcess ==
    ASSUME Tracking, NEW c \in Cookies, NEW q \in ProcRecs,
           ContextsProper => Proper(pdb, q),
           proc' = [proc EXCEPT ![c] = q], pdb' = pdb, loads' = loads,
           born' \subseteq Cookies, born \cup {c} \subseteq born',
           conns' \in [Conns -> SUBSET Cookies],
           \A k \in Conns : conns'[k] \subseteq Tracked \cup {c},
           HeldIn(c, q, conns'), \A d \in Tracked \ {c} : HeldIn(d, proc[d], conns')
    PROVE  Preserved
<1>1. proc \in [Cookies -> ProcRecs \cup {NoProc}] /\ NoProc \notin ProcRecs
  BY ProcAssumption DEF Tracking, TypeOK
<1>2. proc' \in [Cookies -> ProcRecs \cup {NoProc}]
  BY <1>1
<1>3. proc'[c] = q /\ \A d \in Cookies \ {c} : proc'[d] = proc[d]
  BY <1>1
<1>4. Tracked' = Tracked \cup {c}
  BY <1>1, <1>3 DEF Tracked
<1>5. TypeOK'
  BY <1>2 DEF Tracking, TypeOK
<1>6. Alive'
  BY <1>4 DEF Tracking, Alive
<1>7. \A d \in Tracked' \ {c} : d \in Tracked /\ proc'[d] = proc[d]
  BY <1>3, <1>4 DEF Tracked
<1>8. ContextsProper => ContextsProper'
  BY <1>3, <1>4, <1>7 DEF ContextsProper
<1>9. BorrowsHeld'
  BY <1>3, <1>4, <1>7 DEF BorrowsHeld
<1> QED
  BY <1>5, <1>6, <1>8, <1>9 DEF Tracking, Preserved

\* The same when connections are left alone.
LEMMA OneProcessAlone ==
    ASSUME Tracking, NEW c \in Cookies, NEW q \in ProcRecs,
           ContextsProper => Proper(pdb, q),
           proc' = [proc EXCEPT ![c] = q], pdb' = pdb, loads' = loads,
           born' = born \cup {c}, conns' = conns, HeldIn(c, q, conns)
    PROVE  Preserved
<1>1. /\ conns \in [Conns -> SUBSET Cookies] /\ born \subseteq Cookies
      /\ \A k \in Conns : conns[k] \subseteq Tracked
      /\ \A d \in Tracked : HeldIn(d, proc[d], conns)
  BY DEF Tracking, TypeOK, Alive, BorrowsHeld
<1>2. \A k \in Conns : conns'[k] \subseteq Tracked \cup {c}
  BY <1>1
<1>3. HeldIn(c, q, conns') /\ \A d \in Tracked \ {c} : HeldIn(d, proc[d], conns')
  BY <1>1
<1>4. born' \subseteq Cookies /\ born \cup {c} \subseteq born'
  BY <1>1
<1> QED
  BY <1>1, <1>2, <1>3, <1>4, OneProcess

\* A tracked process changes and nothing else does.
LEMMA TrackedChanges ==
    ASSUME Tracking, NEW c \in Tracked, NEW q \in ProcRecs,
           ContextsProper => Proper(pdb, q),
           KeepsLoans(proc[c], q), proc' = [proc EXCEPT ![c] = q],
           pdb' = pdb, loads' = loads, born' = born, conns' = conns
    PROVE  Preserved
<1>1. c \in Cookies /\ born' = born \cup {c}
  BY TrackedType DEF Tracking, Alive
<1>2. HeldIn(c, proc[c], conns)
  BY DEF Tracking, BorrowsHeld
<1>3. HeldIn(c, q, conns)
  BY <1>2, LoansHeld
<1> QED
  BY <1>1, <1>3, OneProcessAlone

LEMMA TrackingKept ==
    ASSUME Tracking, NEW c \in Tracked, NEW q \in ProcRecs,
           KeepsLoans(proc[c], q), proc' = [proc EXCEPT ![c] = q],
           pdb' = pdb, loads' = loads, born' = born, conns' = conns
    PROVE  Tracking'
<1>0. /\ proc \in [Cookies -> ProcRecs \cup {NoProc}] /\ NoProc \notin ProcRecs
      /\ c \in Cookies /\ HeldIn(c, proc[c], conns)
  BY ProcAssumption, TrackedType DEF Tracking, TypeOK, BorrowsHeld
<1>1. /\ proc' \in [Cookies -> ProcRecs \cup {NoProc}] /\ proc'[c] = q
      /\ \A d \in Cookies \ {c} : proc'[d] = proc[d]
  BY <1>0
<1>2. Tracked' = Tracked
  BY <1>0, <1>1 DEF Tracked
<1>3. HeldIn(c, q, conns)
  BY <1>0, LoansHeld
<1>4. TypeOK' /\ Alive'
  BY <1>1, <1>2 DEF Tracking, TypeOK, Alive
<1>5. BorrowsHeld'
  BY <1>1, <1>2, <1>3 DEF Tracking, BorrowsHeld, Tracked
<1> QED
  BY <1>4, <1>5 DEF Tracking

\* The facts about a tracked process.
LEMMA TrackedIs ==
    ASSUME Tracking, NEW c \in Cookies, proc[c] # NoProc
    PROVE  /\ c \in Tracked /\ proc[c] \in ProcRecs /\ HeldIn(c, proc[c], conns)
           /\ ContextsProper => Proper(pdb, proc[c])
BY TrackedType DEF Tracking, ContextsProper, BorrowsHeld, Tracked

LEMMA ForkStep ==
    ASSUME Tracking, NEW uid \in Users, NEW child \in Cookies, NEW parent \in Cookies,
           NEW pgid \in PgIds \cup {NoPg}, Fork(uid, child, parent, pgid)
    PROVE  Preserved
<1> DEFINE par == proc[parent]
           ident == IF par = NoProc THEN NoIdent ELSE par.ident
           new == NewProc(uid, ident, pgid)
           q == ForkCtx(new, par)
<1>0. pdb \in Dbs /\ proc \in [Cookies -> ProcRecs \cup {NoProc}]
  BY DEF Tracking, TypeOK
<1>1. /\ par \in ProcRecs \cup {NoProc}
      /\ par # NoProc => par \in ProcRecs /\ par.pgid = pgid
      /\ ContextsProper => (par # NoProc => Proper(pdb, par))
  BY <1>0, TrackedIs DEF Fork
<1>2. ident \in Idents \cup {NoIdent}
  BY <1>1, ProcFields
<1> HIDE DEF par, ident
<1>3. /\ new \in ProcRecs /\ new.pgid = pgid
      /\ \A i \in Prios : new.saved[i] = NoCtx /\ new.ctx[i] = NoCtx
  BY <1>2, NewProcIs
<1> HIDE DEF new
<1>4. /\ q \in ProcRecs /\ (ContextsProper => Proper(pdb, q))
      /\ \A i \in Prios : q.saved[i] = NoCtx
  BY <1>0, <1>1, <1>3, ForkedIs
<1>5. HeldIn(child, q, conns)
  BY <1>4 DEF HeldIn
<1>6. /\ proc' = [proc EXCEPT ![child] = q] /\ pdb' = pdb /\ loads' = loads
      /\ born' = born \cup {child} /\ conns' = conns
  BY DEF Fork, q, new, par, ident
<1> HIDE DEF q
<1> QED
  BY <1>4, <1>5, <1>6, OneProcessAlone

LEMMA ExecStep ==
    ASSUME Tracking, NEW c \in Cookies, NEW uid \in Users, NEW ident \in Idents,
           NEW pgid \in PgIds \cup {NoPg}, Exec(c, uid, ident, pgid)
    PROVE  Preserved
<1> DEFINE old == IF proc[c] = NoProc THEN NewProc(uid, NoIdent, pgid) ELSE proc[c]
           p == [old EXCEPT !.ident = ident]
           q == ExecCtx(p, uid, ident)
<1>0. pdb \in Dbs
  BY DEF Tracking, TypeOK
<1>1. old \in ProcRecs /\ (ContextsProper => Proper(pdb, old)) /\ HeldIn(c, old, conns)
  <2>1. CASE proc[c] = NoProc
    <3> DEFINE new == NewProc(uid, NoIdent, pgid)
    <3>1. /\ new \in ProcRecs /\ Proper(pdb, new)
          /\ \A i \in Prios : new.saved[i] = NoCtx
      <4> HIDE DEF new
      <4>1. new = NewProc(uid, NoIdent, pgid)
        BY DEF new
      <4> QED
        BY <4>1, NewProcIs
    <3>2. HeldIn(c, new, conns)
      BY <3>1 DEF HeldIn
    <3> QED
      BY <2>1, <3>1, <3>2
  <2>2. CASE proc[c] # NoProc
    BY <2>2, TrackedIs
  <2> QED
    BY <2>1, <2>2
<1> HIDE DEF old
<1>2. p \in ProcRecs /\ SameContexts(old, p)
  BY <1>1 DEF ProcRecs, SameContexts
<1>3. (ContextsProper => Proper(pdb, p)) /\ HeldIn(c, p, conns)
  BY <1>1, <1>2, SameProper
<1> HIDE DEF p
<1>4. q \in ProcRecs /\ (ContextsProper => Proper(pdb, q)) /\ KeepsLoans(p, q)
  BY <1>0, <1>2, <1>3, ExecIs
<1>5. HeldIn(c, q, conns)
  BY <1>3, <1>4, LoansHeld
<1>6. /\ proc' = [proc EXCEPT ![c] = q] /\ pdb' = pdb /\ loads' = loads
      /\ born' = born \cup {c} /\ conns' = conns
  BY DEF Exec, q, p, old
<1> HIDE DEF q
<1> QED
  BY <1>4, <1>5, <1>6, OneProcessAlone

LEMMA ThreadStep ==
    ASSUME Tracking, NEW c \in Cookies, AddThread(c) \/ RemoveThread(c)
    PROVE  Preserved
<1>1. /\ c \in Tracked /\ proc[c] \in ProcRecs /\ HeldIn(c, proc[c], conns)
      /\ ContextsProper => Proper(pdb, proc[c])
  BY TrackedIs DEF AddThread, RemoveThread
<1>2. PICK n \in Nat : proc' = [proc EXCEPT ![c] = [proc[c] EXCEPT !.threads = n]]
  <2>1. proc[c].threads \in Nat
    BY <1>1, ProcFields
  <2>2. CASE AddThread(c)
    <3>1. proc' = [proc EXCEPT ![c] = [proc[c] EXCEPT !.threads = proc[c].threads + 1]]
      BY <2>2 DEF AddThread
    <3>2. proc[c].threads + 1 \in Nat
      BY <2>1
    <3> QED
      BY <3>1, <3>2
  <2>3. CASE RemoveThread(c)
    <3>1. proc' = [proc EXCEPT ![c] = [proc[c] EXCEPT !.threads = proc[c].threads - 1]]
      BY <2>3 DEF RemoveThread
    <3>2. proc[c].threads - 1 \in Nat
      BY <2>1, <2>3 DEF RemoveThread
    <3> QED
      BY <3>1, <3>2
  <2> QED
    BY <2>2, <2>3
<1> DEFINE q == [proc[c] EXCEPT !.threads = n]
<1>3. q \in ProcRecs /\ SameContexts(proc[c], q)
  BY <1>1, CountersOnly
<1>4. proc' = [proc EXCEPT ![c] = q]
  BY <1>2
<1> HIDE DEF q
<1>5. (ContextsProper => Proper(pdb, q)) /\ KeepsLoans(proc[c], q)
  BY <1>1, <1>3, SameProper DEF SameContexts, KeepsLoans
<1>6. pdb' = pdb /\ loads' = loads /\ born' = born /\ conns' = conns
  BY DEF AddThread, RemoveThread
<1> QED
  BY <1>1, <1>3, <1>4, <1>5, <1>6, TrackedChanges

LEMMA PlaygroundProcStep ==
    ASSUME Tracking, NEW c \in Cookies, NEW pgid \in PgIds, PlaygroundProc(c, pgid)
    PROVE  Preserved
<1> DEFINE p == [proc[c] EXCEPT !.pgid = pgid]
           q == RefreshAll(pdb, p)
<1>0. pdb \in Dbs
  BY DEF Tracking, TypeOK
<1>1. /\ c \in Tracked /\ proc[c] \in ProcRecs
      /\ ContextsProper => Proper(pdb, proc[c])
  BY TrackedIs DEF PlaygroundProc
<1>2. /\ p \in ProcRecs /\ p.ctx = proc[c].ctx /\ p.saved = proc[c].saved
      /\ p.borrow = proc[c].borrow
  BY <1>1 DEF ProcRecs
<1>3. (ContextsProper => SavedHasCtx(p)) /\ KeepsLoans(proc[c], p)
  BY <1>1, <1>2, ProperSaved DEF SavedHasCtx, KeepsLoans
<1> HIDE DEF p
<1>4. q \in ProcRecs /\ (ContextsProper => Proper(pdb, q)) /\ KeepsLoans(p, q)
  BY <1>0, <1>2, <1>3, RefreshedAll
<1>5. KeepsLoans(proc[c], q)
  BY <1>3, <1>4 DEF KeepsLoans
<1>6. /\ proc' = [proc EXCEPT ![c] = q] /\ pdb' = pdb /\ loads' = loads
      /\ born' = born /\ conns' = conns
  BY DEF PlaygroundProc, q, p
<1> HIDE DEF q
<1> QED
  BY <1>1, <1>4, <1>5, <1>6, TrackedChanges

LEMMA OpenStep ==
    ASSUME Tracking,
           NEW c \in Cookies, NEW ident \in Idents, NEW uid \in Users, Open(c, ident, uid)
    PROVE  Tracking' /\ ("open" \notin UidChanges => Preserved)
<1> DEFINE p == proc[c]
           q == [p EXCEPT !.ctx = [i \in Prios |->
                   IF Decide(p, "open", i, ident, p.uid)
                     THEN Switched(pdb, p, i, ident, uid) ELSE p.ctx[i]]]
<1>0. pdb \in Dbs
  BY DEF Tracking, TypeOK
<1>1. c \in Tracked /\ p \in ProcRecs /\ (ContextsProper => Proper(pdb, p))
  BY TrackedIs DEF Open
<1>2. "open" \notin UidChanges => uid = p.uid
  BY DEF Open, SameUid
<1>3. /\ proc' = [proc EXCEPT ![c] = q] /\ pdb' = pdb /\ loads' = loads
      /\ born' = born /\ conns' = conns
  BY DEF Open
<1> HIDE DEF p
<1>4. /\ q \in ProcRecs /\ KeepsLoans(p, q)
      /\ "open" \notin UidChanges => (ContextsProper => Proper(pdb, q))
  BY <1>0, <1>1, <1>2, OpenIs
<1> HIDE DEF q
<1>5. CASE ContextsProper => Proper(pdb, q)
  BY <1>1, <1>3, <1>4, <1>5, TrackedChanges DEF p, Preserved
<1>6. CASE "open" \in UidChanges
  BY <1>1, <1>3, <1>4, <1>6, TrackingKept DEF p
<1> QED
  BY <1>4, <1>5, <1>6

LEMMA ConnectStep ==
    ASSUME Tracking, NEW k \in Conns, NEW source \in Cookies, NEW dest \in Cookies,
           Connect(k, source, dest)
    PROVE  Preserved
<1> DEFINE s == proc[source]
           d == proc[dest]
           q == BorrowCtx(s, d, k)
<1>0. pdb \in Dbs /\ conns \in [Conns -> SUBSET Cookies] /\ born \subseteq Cookies
  BY DEF Tracking, TypeOK
<1>1. /\ source \in Tracked /\ s \in ProcRecs
      /\ dest \in Tracked /\ d \in ProcRecs /\ HeldIn(dest, d, conns)
      /\ ContextsProper => Proper(pdb, d)
  BY TrackedIs DEF Connect
<1>2. /\ proc' = [proc EXCEPT ![dest] = q] /\ pdb' = pdb /\ loads' = loads /\ born' = born
      /\ conns[k] = {} /\ conns' = [conns EXCEPT ![k] = {source, dest}]
  BY DEF Connect
<1> HIDE DEF s
<1>3. /\ q \in ProcRecs /\ (ContextsProper => Proper(pdb, q))
      /\ \A i \in Prios : q.saved[i] # NoCtx =>
            q.borrow[i] = k \/ (d.saved[i] # NoCtx /\ q.borrow[i] = d.borrow[i])
  <2> HIDE DEF d
  <2> QED
    BY <1>0, <1>1, BorrowedIs
<1>4. /\ conns' \in [Conns -> SUBSET Cookies] /\ conns'[k] = {source, dest}
      /\ \A j \in Conns \ {k} : conns'[j] = conns[j]
  BY <1>0, <1>2
<1>5. \A c, p : HeldIn(c, p, conns) => HeldIn(c, p, conns')
  BY <1>2, <1>4 DEF HeldIn
<1>6. HeldIn(dest, q, conns')
  <2>1. HeldIn(dest, d, conns')
    BY <1>1, <1>5
  <2> HIDE DEF q, d
  <2> QED
    BY <1>3, <1>4, <2>1 DEF HeldIn
<1>7. \A c \in Tracked \ {dest} : HeldIn(c, proc[c], conns')
  BY <1>5 DEF Tracking, BorrowsHeld
<1>8. \A j \in Conns : conns'[j] \subseteq Tracked \cup {dest}
  BY <1>1, <1>4 DEF Tracking, Alive
<1>9. born' \subseteq Cookies /\ born \cup {dest} \subseteq born'
  BY <1>0, <1>1, <1>2 DEF Tracking, Alive
<1> HIDE DEF q
<1> QED
  BY <1>2, <1>3, <1>4, <1>6, <1>7, <1>8, <1>9, OneProcess

LEMMA DestroyStep ==
    ASSUME Tracking, NEW k \in Conns, NEW c \in Cookies, Destroy(k, c)
    PROVE  Preserved
<1> DEFINE p == proc[c]
           q == RestoreCtx(p, k)
<1>0. conns \in [Conns -> SUBSET Cookies] /\ born \subseteq Cookies
  BY DEF Tracking, TypeOK
<1>1. /\ c \in Tracked /\ p \in ProcRecs /\ HeldIn(c, p, conns)
      /\ ContextsProper => Proper(pdb, p)
  <2>1. c \in Tracked
    BY DEF Destroy, Tracking, Alive
  <2> QED
    BY <2>1, TrackedIs DEF Tracked
<1>2. /\ proc' = [proc EXCEPT ![c] = q] /\ pdb' = pdb /\ loads' = loads /\ born' = born
      /\ conns' = [conns EXCEPT ![k] = conns[k] \ {c}]
  BY DEF Destroy
<1>3. /\ q \in ProcRecs /\ (ContextsProper => Proper(pdb, q)) /\ KeepsLoans(p, q)
      /\ \A i \in Prios : q.saved[i] # NoCtx => q.borrow[i] # k
  <2> HIDE DEF p
  <2> QED
    BY <1>1, RestoredIs
<1>4. /\ conns' \in [Conns -> SUBSET Cookies] /\ conns'[k] = conns[k] \ {c}
      /\ \A j \in Conns \ {k} : conns'[j] = conns[j]
  BY <1>0, <1>2
<1>5. HeldIn(c, q, conns')
  <2>1. HeldIn(c, q, conns)
    BY <1>1, <1>3, LoansHeld
  <2> HIDE DEF q
  <2> QED
    BY <1>3, <1>4, <2>1 DEF HeldIn
<1>6. \A d \in Tracked \ {c} : HeldIn(d, proc[d], conns')
  <2> SUFFICES ASSUME NEW d \in Tracked, d # c PROVE HeldIn(d, proc[d], conns')
    OBVIOUS
  <2>1. HeldIn(d, proc[d], conns)
    BY DEF Tracking, BorrowsHeld
  <2> QED
    BY <1>4, <2>1 DEF HeldIn
<1>7. \A j \in Conns : conns'[j] \subseteq Tracked \cup {c}
  BY <1>4 DEF Tracking, Alive
<1>8. born' \subseteq Cookies /\ born \cup {c} \subseteq born'
  BY <1>0, <1>1, <1>2 DEF Tracking, Alive
<1> HIDE DEF q
<1> QED
  BY <1>2, <1>3, <1>4, <1>5, <1>6, <1>7, <1>8, OneProcess

\* pe_proc_exit, on a table of processes that differs from the tracker in
\* counters only.
LEMMA LoseStep ==
    ASSUME Tracking, NEW procs \in [Cookies -> ProcRecs \cup {NoProc}],
           \A d \in Cookies : procs[d] = NoProc <=> proc[d] = NoProc,
           \A d \in Tracked : SameContexts(proc[d], procs[d]),
           NEW c \in Tracked, LoseInstance(procs, c),
           pdb' = pdb, loads' = loads, born' = born
    PROVE  Preserved
<1>0. /\ conns \in [Conns -> SUBSET Cookies] /\ born \subseteq Cookies
      /\ NoProc \notin ProcRecs /\ c \in Cookies /\ procs[c] \in ProcRecs
  BY ProcAssumption DEF Tracking, TypeOK, Tracked
<1>1. \A d \in Tracked : /\ HeldIn(d, procs[d], conns)
                         /\ ContextsProper => Proper(pdb, procs[d])
  BY SameProper DEF Tracking, ContextsProper, BorrowsHeld
<1>2. CASE procs[c].instances > 1
  <2> DEFINE q == [procs[c] EXCEPT !.instances = procs[c].instances - 1]
  <2>1. proc' = [procs EXCEPT ![c] = q] /\ conns' = conns
    BY <1>2 DEF LoseInstance
  <2>2. q \in ProcRecs /\ SameContexts(procs[c], q)
    <3>1. procs[c].instances - 1 \in Nat
      BY <1>0, <1>2, ProcFields
    <3> QED
      BY <1>0, <3>1, CountersOnly
  <2> HIDE DEF q
  <2>3. (ContextsProper => Proper(pdb, q)) /\ HeldIn(c, q, conns)
    BY <1>1, <2>2, SameProper
  <2>4. /\ proc' \in [Cookies -> ProcRecs \cup {NoProc}] /\ proc'[c] = q
        /\ \A d \in Cookies \ {c} : proc'[d] = procs[d]
    BY <1>0, <2>1, <2>2
  <2>5. Tracked' = Tracked
    BY <1>0, <2>2, <2>4 DEF Tracked
  <2>6. TypeOK'
    BY <2>1, <2>4 DEF Tracking, TypeOK
  <2>7. Alive'
    BY <2>1, <2>5 DEF Tracking, Alive
  <2>8. \A d \in Tracked : /\ HeldIn(d, proc'[d], conns)
                           /\ ContextsProper => Proper(pdb, proc'[d])
    BY <1>1, <2>3, <2>4 DEF Tracked
  <2> QED
    BY <2>1, <2>5, <2>6, <2>7, <2>8 DEF Tracking, Preserved, ContextsProper, BorrowsHeld
<1>3. CASE ~(procs[c].instances > 1)
  <2>1. proc' = [procs EXCEPT ![c] = NoProc] /\ conns' = [k \in Conns |-> conns[k] \ {c}]
    BY <1>3 DEF LoseInstance
  <2>2. /\ proc' \in [Cookies -> ProcRecs \cup {NoProc}] /\ proc'[c] = NoProc
        /\ \A d \in Cookies \ {c} : proc'[d] = procs[d]
    BY <1>0, <2>1
  <2>3. Tracked' = Tracked \ {c}
    BY <2>2 DEF Tracked
  <2>4. TypeOK'
    BY <1>0, <2>1, <2>2 DEF Tracking, TypeOK
  <2>5. Alive'
    BY <2>1, <2>3 DEF Tracking, Alive
  <2>6. ASSUME NEW d \in Tracked \ {c}
        PROVE  HeldIn(d, proc'[d], conns') /\ (ContextsProper => Proper(pdb, proc'[d]))
    <3>1. proc'[d] = procs[d]
      BY <2>2 DEF Tracked
    <3>2. HeldIn(d, procs[d], conns')
      BY <1>1, <2>1 DEF HeldIn
    <3> QED
      BY <1>1, <3>1, <3>2
  <2> QED
    BY <2>3, <2>4, <2>5, <2>6 DEF Tracking, Preserved, ContextsProper, BorrowsHeld
<1> QED
  BY <1>2, <1>3

LEMMA ExitStep ==
    ASSUME Tracking, NEW c \in Cookies, Exit(c)
    PROVE  Preserved
<1>1. /\ c \in Tracked /\ proc \in [Cookies -> ProcRecs \cup {NoProc}]
      /\ LoseInstance(proc, c) /\ pdb' = pdb /\ loads' = loads /\ born' = born
  BY DEF Exit, Tracked, Tracking, TypeOK
<1>2. \A d \in Tracked : SameContexts(proc[d], proc[d])
  BY DEF SameContexts
<1> QED
  BY <1>1, <1>2, LoseStep

LEMMA ReplaceStep ==
    ASSUME Tracking, NEW c \in Cookies, NEW victim \in Cookies, Replace(c, victim)
    PROVE  Preserved
<1> DEFINE q == [proc[c] EXCEPT !.instances = proc[c].instances + 1]
           procs == [proc EXCEPT ![c] = q]
<1>0. proc \in [Cookies -> ProcRecs \cup {NoProc}] /\ NoProc \notin ProcRecs
  BY ProcAssumption DEF Tracking, TypeOK
<1>1. c \in Tracked /\ victim \in Tracked /\ proc[c] \in ProcRecs
  BY TrackedIs DEF Replace
<1>2. q \in ProcRecs /\ SameContexts(proc[c], q)
  <2>1. proc[c].instances + 1 \in Nat
    BY <1>1, ProcFields
  <2> QED
    BY <1>1, <2>1, CountersOnly
<1>3. /\ LoseInstance(procs, victim) /\ pdb' = pdb /\ loads' = loads /\ born' = born
  BY DEF Replace
<1> HIDE DEF q
<1>4. /\ procs \in [Cookies -> ProcRecs \cup {NoProc}] /\ procs[c] = q
      /\ \A d \in Cookies \ {c} : procs[d] = proc[d]
  BY <1>0, <1>2
<1>5. \A d \in Cookies : procs[d] = NoProc <=> proc[d] = NoProc
  BY <1>0, <1>1, <1>2, <1>4
<1>6. \A d \in Tracked : SameContexts(proc[d], procs[d])
  BY <1>2, <1>4 DEF Tracked, SameContexts
<1> HIDE DEF procs
<1> QED
  BY <1>1, <1>3, <1>4, <1>5, <1>6, LoseStep

\* A policy changes and the contexts of all processes are proper for it.
LEMMA AllProcesses ==
    ASSUME Tracking, pdb' \in Dbs, loads' \in Nat, born' = born, conns' = conns,
           NEW f, proc' = f, f \in [Cookies -> ProcRecs \cup {NoProc}],
           \A c \in Cookies : proc[c] = NoProc => f[c] = NoProc,
           \A c \in Tracked : /\ f[c] \in ProcRecs /\ KeepsLoans(proc[c], f[c])
                              /\ ContextsProper => Proper(pdb', f[c])
    PROVE  Preserved
<1>0. NoProc \notin ProcRecs
  BY ProcAssumption
<1>1. Tracked' = Tracked
  BY <1>0 DEF Tracked
<1>2. TypeOK'
  BY DEF Tracking, TypeOK
<1>3. Alive'
  BY <1>1 DEF Tracking, Alive
<1>4. ContextsProper => ContextsProper'
  BY <1>1 DEF ContextsProper
<1>5. \A c \in Tracked : HeldIn(c, f[c], conns)
  BY LoansHeld DEF Tracking, BorrowsHeld
<1>6. BorrowsHeld'
  BY <1>1, <1>5 DEF BorrowsHeld
<1> QED
  BY <1>2, <1>3, <1>4, <1>6 DEF Tracking, Preserved

LEMMA SetPolicyStep ==
    ASSUME Tracking, NEW uid \in Users \cup {Default}, NEW prio \in Prios, NEW chain \in Chains,
           SetPolicy(uid, prio, chain)
    PROVE  Preserved
<1> DEFINE rs == NewRuleset(uid, prio, chain)
           new == [pdb EXCEPT ![uid][prio] = rs]
           hit == Affected(pdb[uid][prio], prio, uid)
           f == [c \in Cookies |-> IF c \in hit THEN Refresh(new, proc[c], prio) ELSE proc[c]]
<1>0. pdb \in Dbs /\ loads \in Nat /\ proc \in [Cookies -> ProcRecs \cup {NoProc}]
  BY DEF Tracking, TypeOK
<1>1. rs \in RulesetRecs
  BY <1>0 DEF NewRuleset, RulesetRecs
<1>2. pdb' = new /\ loads' = loads + 1 /\ proc' = f /\ born' = born /\ conns' = conns
  BY DEF SetPolicy
<1> HIDE DEF rs
<1>3. new \in Dbs
  BY <1>0, <1>1 DEF Dbs
<1>4. hit \subseteq Tracked
  BY DEF Affected
<1>5. ASSUME NEW c \in Tracked
      PROVE  /\ f[c] \in ProcRecs /\ KeepsLoans(proc[c], f[c])
             /\ ContextsProper => Proper(new, f[c])
  <2>1. /\ c \in Cookies /\ proc[c] \in ProcRecs
        /\ ContextsProper => Proper(pdb, proc[c])
    BY TrackedIs DEF Tracked
  <2>2. ContextsProper => SavedHasCtx(proc[c])
    BY <2>1, ProperSaved
  <2> DEFINE p == proc[c]
  <2>3. c \notin hit => Unconcerned(pdb, p, uid, prio)
    BY DEF Affected, Unconcerned
  <2>4. f[c] = IF c \in hit THEN Refresh(new, p, prio) ELSE p
    BY <2>1
  <2> HIDE DEF hit, f, p
  <2>5. ContextsProper => /\ \A i \in Prios \ {prio} : ProperAt(new, p, i)
                          /\ c \notin hit => Proper(new, p)
    <3> HIDE DEF new
    <3>1. Inserted(pdb, uid, prio, rs, new)
      BY DEF new, Inserted
    <3>2. p \in ProcRecs /\ (ContextsProper => Proper(pdb, p))
      BY <2>1 DEF p
    <3> QED
      BY <1>0, <1>1, <2>3, <3>1, <3>2, OthersUntouched DEF Untouched
  <2>6. CASE c \in hit
    <3> HIDE DEF new
    <3> QED
      BY <1>3, <2>1, <2>2, <2>4, <2>5, <2>6, RefreshedOne DEF p
  <2>7. CASE c \notin hit
    BY <2>1, <2>4, <2>5, <2>7 DEF p, KeepsLoans
  <2> QED
    BY <2>6, <2>7
<1>6. \A c \in Cookies : proc[c] = NoProc => f[c] = NoProc
  BY <1>4 DEF Tracked
<1>7. f \in [Cookies -> ProcRecs \cup {NoProc}]
  <2>1. \A c \in Cookies : f[c] \in ProcRecs \cup {NoProc}
    BY <1>5, <1>6 DEF Tracked
  <2> DEFINE G(c) == IF c \in hit THEN Refresh(new, proc[c], prio) ELSE proc[c]
  <2>2. \A c \in Cookies : G(c) \in ProcRecs \cup {NoProc}
    BY <2>1
  <2>3. f = [c \in Cookies |-> G(c)]
    OBVIOUS
  <2> HIDE DEF G, f
  <2> QED
    BY <2>2, <2>3
<1>8. loads' \in Nat
  BY <1>0, <1>2
<1> HIDE DEF f, new
<1> QED
  BY <1>2, <1>3, <1>5, <1>6, <1>7, <1>8, AllProcesses

LEMMA ReconfigureStep ==
    ASSUME Tracking, NEW lost, Reconfigure(lost)
    PROVE  Preserved
<1> DEFINE N(u, i) == IF u \in lost \/ pdb[u][i] = NoRuleset THEN NoRuleset
                      ELSE [pdb[u][i] EXCEPT !.id = loads + 1]
           new == [u \in DOMAIN pdb |-> [i \in Prios |-> N(u, i)]]
           F(c) == IF proc[c] = NoProc THEN NoProc ELSE RefreshAll(new, proc[c])
           f == [c \in Cookies |-> F(c)]
<1>0. pdb \in Dbs /\ loads \in Nat /\ proc \in [Cookies -> ProcRecs \cup {NoProc}]
  BY DEF Tracking, TypeOK
<1>1. pdb' = new /\ loads' = loads + 1 /\ proc' = f /\ born' = born /\ conns' = conns
  BY DEF Reconfigure
<1>2. new \in Dbs
  <2>1. ASSUME NEW u \in DOMAIN pdb, NEW i \in Prios
        PROVE  N(u, i) \in RulesetRecs \cup {NoRuleset}
    <3>1. pdb[u][i] \in RulesetRecs \cup {NoRuleset}
      BY <1>0 DEF Dbs
    <3>2. \A r \in RulesetRecs : [r EXCEPT !.id = loads + 1] \in RulesetRecs
      BY <1>0 DEF RulesetRecs
    <3> QED
      BY <3>1, <3>2
  <2> HIDE DEF N
  <2> QED
    BY <1>0, <2>1 DEF Dbs
<1> HIDE DEF new
<1>3. ASSUME NEW c \in Tracked
      PROVE  /\ F(c) \in ProcRecs /\ KeepsLoans(proc[c], F(c))
             /\ ContextsProper => Proper(new, F(c))
  <2>1. /\ c \in Cookies /\ proc[c] # NoProc /\ proc[c] \in ProcRecs
        /\ ContextsProper => Proper(pdb, proc[c])
    BY TrackedIs DEF Tracked
  <2>2. ContextsProper => SavedHasCtx(proc[c])
    BY <2>1, ProperSaved
  <2>3. F(c) = RefreshAll(new, proc[c])
    BY <2>1
  <2> HIDE DEF F
  <2> QED
    BY <1>2, <2>1, <2>2, <2>3, RefreshedAll
<1>4. \A c \in Cookies : proc[c] = NoProc => F(c) = NoProc
  OBVIOUS
<1> HIDE DEF F
<1>5. \A c \in Cookies : F(c) \in ProcRecs \cup {NoProc}
  BY <1>3, <1>4 DEF Tracked
<1>6. f \in [Cookies -> ProcRecs \cup {NoProc}] /\ \A c \in Cookies : f[c] = F(c)
  BY <1>5
<1>7. Tracked \subseteq Cookies /\ loads' \in Nat
  BY <1>0, <1>1 DEF Tracked
<1> HIDE DEF f
<1>8. \A c \in Tracked : /\ f[c] \in ProcRecs /\ KeepsLoans(proc[c], f[c])
                         /\ ContextsProper => Proper(new, f[c])
  BY <1>3, <1>6, <1>7
<1> QED
  BY <1>1, <1>2, <1>4, <1>6, <1>7, <1>8, AllProcesses

LEMMA RestartStep ==
    ASSUME Tracking, NEW kernelId, NEW gone, Restart(kernelId, gone)
    PROVE  Preserved
<1>1. Tracked' = {}
  BY DEF Restart, Tracked
<1>2. TypeOK'
  BY DEF Tracking, TypeOK, Restart
<1>3. Alive'
  BY <1>1 DEF Restart, Alive
<1> QED
  BY <1>1, <1>2, <1>3 DEF Tracking, Preserved, ContextsProper, BorrowsHeld

LEMMA InitStep ==
    ASSUME Init
    PROVE  IInv
<1>1. Tracked = {}
  BY DEF Init, Tracked
<1>2. TypeOK
  BY DEF Init, TypeOK, Dbs
<1>3. Alive
  BY <1>1 DEF Init, Alive
<1> QED
  BY <1>1, <1>2, <1>3 DEF IInv, Tracking, ContextsProper, BorrowsHeld

\* What a step may do: only Open can spoil a context.
LEMMA NextStep ==
    ASSUME Tracking, [Next]_vars
    PROVE  Tracking' /\ ("open" \notin UidChanges => Preserved)
<1> DEFINE Goal == Tracking' /\ ("open" \notin UidChanges => Preserved)
<1>0. Preserved => Goal
  BY DEF Preserved
<1>1. CASE UNCHANGED procVars
  <2>1. pdb' = pdb /\ loads' = loads /\ proc' = proc /\ born' = born /\ conns' = conns
    BY <1>1 DEF procVars
  <2>2. Preserved
    BY <2>1 DEF Tracking, TypeOK, Alive, ContextsProper, BorrowsHeld, Tracked, Preserved
  <2> QED
    BY <1>0, <2>2
<1>2. ASSUME NEW c \in Cookies, ProcEvent(c) PROVE Goal
  <2>1. ASSUME NEW u \in Users, NEW pg \in PgIds \cup {NoPg}, NEW parent \in Cookies,
               Fork(u, c, parent, pg)
        PROVE  Goal
    BY <1>0, <2>1, ForkStep
  <2>2. ASSUME NEW u \in Users, NEW pg \in PgIds \cup {NoPg}, NEW id \in Idents,
               Exec(c, u, id, pg)
        PROVE  Goal
    BY <1>0, <2>2, ExecStep
  <2>3. CASE Exit(c)
    BY <1>0, <2>3, ExitStep
  <2>4. CASE AddThread(c) \/ RemoveThread(c)
    BY <1>0, <2>4, ThreadStep
  <2>5. ASSUME NEW v \in Cookies, Replace(c, v) PROVE Goal
    BY <1>0, <2>5, ReplaceStep
  <2>6. ASSUME NEW pg \in PgIds, PlaygroundProc(c, pg) PROVE Goal
    BY <1>0, <2>6, PlaygroundProcStep
  <2>7. ASSUME NEW u \in Users, NEW id \in Idents, Open(c, id, u) PROVE Goal
    BY <2>7, OpenStep
  <2>8. ASSUME NEW k \in Conns, Destroy(k, c) PROVE Goal
    BY <1>0, <2>8, DestroyStep
  <2>9. ASSUME NEW k \in Conns, NEW d \in Cookies, Connect(k, c, d) PROVE Goal
    BY <1>0, <2>9, ConnectStep
  <2> HIDE DEF Goal
  <2> QED
    BY <1>2, <2>1, <2>2, <2>3, <2>4, <2>5, <2>6, <2>7, <2>8, <2>9 DEF ProcEvent
<1>3. ASSUME NEW u \in Users \cup {Default}, PolicyChange(u) PROVE Goal
  <2>1. ASSUME NEW i \in Prios, NEW ch \in Chains, SetPolicy(u, i, ch) PROVE Goal
    BY <1>0, <2>1, SetPolicyStep
  <2>2. CASE Reconfigure({u}) \/ Reconfigure({})
    BY <1>0, <2>2, ReconfigureStep
  <2> HIDE DEF Goal
  <2> QED
    BY <1>3, <2>1, <2>2 DEF PolicyChange
<1>4. CASE Restart(kpg, Tracked) \/ Restart(0, {})
  BY <1>0, <1>4, RestartStep
<1>5. CASE UNCHANGED vars
  BY <1>1, <1>5 DEF vars
<1>6. ASSUME Next PROVE Goal
  <2> HIDE DEF Goal
  <2>1. CASE \E c \in Cookies : ProcEvent(c)
    BY <1>2, <2>1
  <2>2. CASE \E u \in Users \cup {Default} : PolicyChange(u)
    BY <1>3, <2>2
  <2>3. CASE UNCHANGED procVars
    BY <1>1, <2>3 DEF Goal
  <2>4. CASE Restart(kpg, Tracked) \/ Restart(0, {})
    BY <1>4, <2>4 DEF Goal
  <2> QED
    BY <1>6, <2>1, <2>2, <2>3, <2>4 DEF Next
<1> QED
  BY <1>5, <1>6

-----------------------------------------------------------------------------
(* Theorems                                                                 *)

\* The tracker, the kernel's processes and connections and the contexts that
\* are kept aside agree, whatever the kernel reports about users.
THEOREM TrackingInvariant == Safe => []Tracking
<1>1. Init => Tracking
  BY InitStep DEF IInv
<1>2. Tracking /\ [Next]_vars => Tracking'
  BY NextStep
<1> QED
  BY <1>1, <1>2, PTL DEF Safe

\* IInv is an invariant if no change of user is first seen with an open.
THEOREM Inductive ==
    ASSUME "open" \notin UidChanges
    PROVE  Safe => []IInv
<1>1. Init => IInv
  BY InitStep
<1>2. IInv /\ [Next]_vars => IInv'
  BY NextStep DEF IInv, Preserved
<1> QED
  BY <1>1, <1>2, PTL DEF Safe

\* What a context that fits says.
LEMMA FittingRules ==
    ASSUME NEW db \in Dbs, NEW uid \in Users, NEW pgid, NEW i \in Prios,
           NEW x \in Ctxs, x # NoCtx, Fits(db, uid, pgid, i, x)
    PROVE  /\ x.ruleset # NoRuleset => x.ruleset = GetRuleset(db, uid, i)
           /\ x.rule # NoRule =>
                 /\ x.rule.pgonly => pgid # NoPg
                 /\ GetRuleset(db, uid, i) # NoRuleset
                 /\ x = Found(GetRuleset(db, uid, i), x.ident, uid, pgid)
<1> DEFINE G == GetRuleset(db, uid, i)
<1>1. CASE Bare(x)
  <2>1. x = [ruleset |-> NoRuleset, ident |-> x.ident, rule |-> NoRule]
    BY <1>1 DEF Bare
  <2>2. x.ruleset = NoRuleset /\ x.rule = NoRule
    BY <2>1
  <2> QED
    BY <2>2
<1>2. CASE G # NoRuleset /\ x = Found(G, x.ident, uid, pgid)
  <2>1. G \in RulesetRecs /\ x.ident \in Idents \cup {NoIdent}
    BY <1>2, RulesetIs, CtxIdent
  <2> HIDE DEF G
  <2>2. x.ruleset = G /\ (x.rule # NoRule /\ x.rule.pgonly => pgid # NoPg)
    BY <1>2, <2>1, FoundIs
  <2> QED
    BY <1>2, <2>2 DEF G
<1> QED
  BY <1>1, <1>2 DEF Fits

LEMMA InForceFollows ==
    ASSUME IInv
    PROVE  RulesInForce /\ NoFreedRuleset
<1>0. pdb \in Dbs
  BY DEF IInv, Tracking, TypeOK
<1>1. ASSUME NEW c \in Tracked, NEW i \in Prios, NEW x \in InUse(c, i)
      PROVE  /\ x.ruleset # NoRuleset => x.ruleset = GetRuleset(pdb, proc[c].uid, i)
             /\ x.rule # NoRule /\ x.rule.pgonly => proc[c].pgid # NoPg
             /\ x.ruleset \in Rulesets
  <2>1. proc[c] \in ProcRecs /\ Proper(pdb, proc[c]) /\ c \in Cookies
    BY TrackedIs DEF Tracked, IInv
  <2>2. /\ proc[c].uid \in Users
        /\ proc[c].ctx \in [Prios -> Ctxs] /\ proc[c].saved \in [Prios -> Ctxs]
    BY <2>1, ProcFields
  <2>3. x \in Ctxs /\ x # NoCtx /\ Fits(pdb, proc[c].uid, proc[c].pgid, i, x)
    BY <2>1, <2>2 DEF InUse, Proper, ProperAt
  <2>4. /\ x.ruleset # NoRuleset => x.ruleset = GetRuleset(pdb, proc[c].uid, i)
        /\ x.rule # NoRule /\ x.rule.pgonly => proc[c].pgid # NoPg
    BY <1>0, <2>2, <2>3, FittingRules
  <2>5. \E u \in DOMAIN pdb : GetRuleset(pdb, proc[c].uid, i) = pdb[u][i]
    BY <1>0, <2>2, RulesetIs
  <2>6. GetRuleset(pdb, proc[c].uid, i) \in Rulesets /\ NoRuleset \in Rulesets
    BY <2>5 DEF Rulesets
  <2> QED
    BY <2>4, <2>6
<1> QED
  BY <1>1 DEF RulesInForce, NoFreedRuleset

\* pe_proc_update_db_one, pe_context_refresh: the rules of a process are the
\* ones in force for its user, whatever happened to policies, users and
\* playgrounds since it started.
THEOREM RulesAlwaysInForce ==
    ASSUME "open" \notin UidChanges
    PROVE  Safe => []RulesInForce
<1>1. IInv => RulesInForce
  BY InForceFollows
<1> QED
  BY <1>1, Inductive, PTL

\* pe_proc.c:841: no process refers to a ruleset that was freed, provided that
\* the tracker has learnt of a change of user by the time a file is opened.
\* Without that the run contexts_stale shows how one does.
THEOREM NeverFreedRuleset ==
    ASSUME "open" \notin UidChanges
    PROVE  Safe => []NoFreedRuleset
<1>1. IInv => NoFreedRuleset
  BY InForceFollows
<1> QED
  BY <1>1, Inductive, PTL

-----------------------------------------------------------------------------
(* Leaving a rule block                                                     *)

\* What Confined says of one process and one priority.
Obeys(c, i) == GivesBack(proc[c], proc'[c], i) \/ Permitted(c, i)

\* A context that has a rule comes out of a new search unchanged, and there are
\* rules in force for its user.
LEMMA SearchedAgain ==
    ASSUME NEW db \in Dbs, NEW p \in ProcRecs, Proper(db, p), NEW i \in Prios,
           p.ctx[i] # NoCtx, p.ctx[i].rule # NoRule
    PROVE  Refresh(db, p, i).ctx[i] = p.ctx[i] /\ GetRuleset(db, p.uid, i) # NoRuleset
<1> DEFINE x == p.ctx[i]
           G == GetRuleset(db, p.uid, i)
<1>0. p.uid \in Users /\ p.ctx \in [Prios -> Ctxs] /\ p.saved \in [Prios -> Ctxs] /\ x \in Ctxs
  BY ProcFields
<1>1. Fits(db, p.uid, p.pgid, i, x)
  BY DEF Proper, ProperAt
<1>2. G # NoRuleset /\ x = Found(G, x.ident, p.uid, p.pgid)
  <2> HIDE DEF x
  <2> QED
    BY <1>0, <1>1, FittingRules DEF x
<1>3. Refresh(db, p, i).ctx[i] = Found(G, x.ident, p.uid, p.pgid)
  BY <1>0, <1>2 DEF Refresh, ProcRecs, Found
<1> QED
  BY <1>2, <1>3

LEMMA AllSearchedAgain ==
    ASSUME NEW db \in Dbs, NEW p \in ProcRecs, Proper(db, p), NEW i \in Prios,
           p.ctx[i] # NoCtx, p.ctx[i].rule # NoRule
    PROVE  RefreshAll(db, p).ctx[i] = p.ctx[i]
<1>1. RefreshAll(db, p).ctx[i] = Refresh(db, p, i).ctx[i]
  BY DEF RefreshAll, ProcRecs
<1> QED
  BY <1>1, SearchedAgain

\* pe_context_exec leaves the block where a rule for exec allows it.
LEMMA ExecObeys ==
    ASSUME IInv, NEW c \in Cookies, NEW uid \in Users, NEW ident \in Idents,
           NEW pgid \in PgIds \cup {NoPg}, Exec(c, uid, ident, pgid),
           NEW d \in Cookies, NEW i \in Prios, LeavesBlock(proc[d], proc'[d], i)
    PROVE  Obeys(d, i)
<1>0. pdb \in Dbs /\ proc \in [Cookies -> ProcRecs \cup {NoProc}]
  BY DEF IInv, Tracking, TypeOK
<1>1. d = c /\ proc[c] # NoProc
  BY <1>0 DEF Exec, LeavesBlock
<1> DEFINE p == [proc[c] EXCEPT !.ident = ident]
           q == ExecCtx(p, uid, ident)
<1>2. proc[c] \in ProcRecs /\ Proper(pdb, proc[c])
  BY <1>1, TrackedIs DEF IInv
<1>3. /\ p \in ProcRecs /\ p.ctx = proc[c].ctx /\ p.uid = proc[c].uid
      /\ p.pgid = proc[c].pgid /\ p.ident = ident /\ p.saved = proc[c].saved
  BY <1>2 DEF ProcRecs
<1>4. proc' = [proc EXCEPT ![c] = q] /\ conns' = conns
  BY <1>1 DEF Exec
<1>5. proc'[c] = q
  BY <1>0, <1>4
<1> HIDE DEF p
<1>6. q.uid = uid /\ q.ctx[i] = IF Decide(p, "new", i, ident, uid)
                                THEN Switched(pdb, p, i, ident, uid) ELSE p.ctx[i]
  BY <1>3 DEF ExecCtx, ProcRecs
<1>7. p.uid = uid /\ p.ctx[i] # NoCtx /\ p.ctx[i].rule # NoRule /\ q.ctx[i] # p.ctx[i]
  BY <1>1, <1>3, <1>5, <1>6 DEF LeavesBlock
<1>8. Decide(p, "new", i, ident, uid) /\ q.ctx[i] = Switched(pdb, p, i, ident, uid)
  BY <1>6, <1>7
<1>9. Allows(p.ctx[i].rule, {"new"}, ident, uid)
  BY <1>7, <1>8 DEF Decide, Allows
<1>10. q.ctx[i].ident = ident
  <2>1. Proper(pdb, p) /\ p.ctx[i] \in Ctxs
    BY <1>2, <1>3, ProcFields DEF Proper, ProperAt
  <2>2. GetRuleset(pdb, uid, i) # NoRuleset
    BY <1>0, <1>3, <1>7, <2>1, SearchedAgain
  <2>3. SwitchedTo(pdb, p, i, ident, uid, Switched(pdb, p, i, ident, uid))
    BY <1>0, <2>1, SwitchedIs
  <2> QED
    BY <1>8, <2>2, <2>3 DEF SwitchedTo
<1> HIDE DEF q
<1>11. Permitted(c, i)
  <2>1. \A S : "new" \in S => Allows(proc[c].ctx[i].rule, S, proc'[c].ctx[i].ident, proc[c].uid)
    BY <1>3, <1>5, <1>7, <1>9, <1>10 DEF Allows
  <2> QED
    BY <1>4, <2>1 DEF Permitted
<1> QED
  BY <1>1, <1>11 DEF Obeys

\* pe_context_open leaves the block where a rule for open allows it.
LEMMA OpenObeys ==
    ASSUME IInv, "open" \notin UidChanges,
           NEW c \in Cookies, NEW uid \in Users, NEW ident \in Idents, Open(c, ident, uid),
           NEW d \in Cookies, NEW i \in Prios, LeavesBlock(proc[d], proc'[d], i)
    PROVE  Obeys(d, i)
<1>0. pdb \in Dbs /\ proc \in [Cookies -> ProcRecs \cup {NoProc}]
  BY DEF IInv, Tracking, TypeOK
<1> DEFINE p == proc[c]
           q == [p EXCEPT !.ctx = [j \in Prios |->
                   IF Decide(p, "open", j, ident, p.uid)
                     THEN Switched(pdb, p, j, ident, p.uid) ELSE p.ctx[j]]]
<1>1. d = c /\ p # NoProc
  BY <1>0 DEF Open, LeavesBlock
<1>2. p \in ProcRecs /\ Proper(pdb, p)
  BY <1>1, TrackedIs DEF IInv
<1>3. uid = p.uid
  BY DEF Open, SameUid
<1>4. proc' = [proc EXCEPT ![c] = q] /\ conns' = conns
  BY <1>3 DEF Open
<1>5. proc'[c] = q
  BY <1>0, <1>4
<1>6. /\ q.ident = p.ident
      /\ q.ctx[i] = IF Decide(p, "open", i, ident, p.uid)
                      THEN Switched(pdb, p, i, ident, p.uid) ELSE p.ctx[i]
  <2> HIDE DEF p
  <2> QED
    BY <1>2 DEF ProcRecs
<1>7. p.ctx[i] # NoCtx /\ p.ctx[i].rule # NoRule /\ q.ctx[i] # p.ctx[i]
  BY <1>1, <1>5 DEF LeavesBlock
<1> HIDE DEF p, q
<1>8. Decide(p, "open", i, ident, p.uid) /\ q.ctx[i] = Switched(pdb, p, i, ident, p.uid)
  BY <1>6, <1>7
<1>9. Allows(p.ctx[i].rule, {"open"}, ident, p.uid)
  BY <1>7, <1>8 DEF Decide, Allows
<1>10. q.ctx[i].ident = ident
  <2>1. p.ctx[i] \in Ctxs /\ p.uid \in Users
    BY <1>2, ProcFields
  <2>2. GetRuleset(pdb, p.uid, i) # NoRuleset
    BY <1>0, <1>2, <1>7, SearchedAgain
  <2>3. SwitchedTo(pdb, p, i, ident, p.uid, Switched(pdb, p, i, ident, p.uid))
    BY <1>0, <2>1, SwitchedIs
  <2> QED
    BY <1>8, <2>2, <2>3 DEF SwitchedTo
<1>11. Permitted(c, i)
  <2>1. proc[c].ident = proc'[c].ident
    BY <1>5, <1>6 DEF p
  <2>2. Allows(proc[c].ctx[i].rule, {"new", "open"}, proc'[c].ctx[i].ident, proc[c].uid)
    BY <1>5, <1>9, <1>10 DEF Allows, p
  <2> QED
    BY <1>4, <2>1, <2>2 DEF Permitted
<1> QED
  BY <1>1, <1>11 DEF Obeys

\* pe_context_borrow leaves the block where a rule for borrowing allows it.
LEMMA ConnectObeys ==
    ASSUME IInv, NEW k \in Conns, NEW source \in Cookies, NEW dest \in Cookies,
           Connect(k, source, dest),
           NEW d \in Cookies, NEW i \in Prios, LeavesBlock(proc[d], proc'[d], i)
    PROVE  Obeys(d, i)
<1> DEFINE s == proc[source]
           p == proc[dest]
           q == BorrowCtx(s, p, k)
<1>0. /\ pdb \in Dbs /\ proc \in [Cookies -> ProcRecs \cup {NoProc}]
      /\ conns \in [Conns -> SUBSET Cookies]
  BY DEF IInv, Tracking, TypeOK
<1>1. /\ proc' = [proc EXCEPT ![dest] = q] /\ source # dest /\ conns[k] = {}
      /\ conns' = [conns EXCEPT ![k] = {source, dest}]
  BY DEF Connect
<1>2. d = dest /\ proc'[dest] = q
  BY <1>0, <1>1 DEF LeavesBlock
<1>3. s \in ProcRecs /\ p \in ProcRecs /\ Proper(pdb, p)
  BY TrackedIs DEF Connect, IInv
<1>4. q.ctx[i] = p.ctx[i] \/ (Borrows(s, p, i) /\ q.ctx[i].ident = s.ctx[i].ident)
  <2> HIDE DEF s, p
  <2> QED
    BY <1>0, <1>3, BorrowedIs
<1>5. q.ctx[i] # p.ctx[i] /\ p.ctx[i] # NoCtx
  BY <1>2 DEF LeavesBlock
<1>6. Allows(p.ctx[i].rule, {"borrow"}, s.ctx[i].ident, s.uid) /\ q.ctx[i].ident = s.ctx[i].ident
  BY <1>4, <1>5 DEF Borrows, Decide, Allows
<1>7. conns'[k] = {source, dest} /\ conns'[k] # conns[k]
  BY <1>0, <1>1
<1>8. source \in conns'[k] \ (conns[k] \cup {dest})
  BY <1>1, <1>7
<1>9. Permitted(dest, i)
  BY <1>2, <1>6, <1>7, <1>8 DEF Permitted
<1> QED
  BY <1>2, <1>9 DEF Obeys

\* pe_proc_restore_ctx gives a borrowed context back.
LEMMA DestroyObeys ==
    ASSUME IInv, NEW k \in Conns, NEW c \in Cookies, Destroy(k, c),
           NEW d \in Cookies, NEW i \in Prios, LeavesBlock(proc[d], proc'[d], i)
    PROVE  Obeys(d, i)
<1> DEFINE p == proc[c]
           q == RestoreCtx(p, k)
<1>0. proc \in [Cookies -> ProcRecs \cup {NoProc}]
  BY DEF IInv, Tracking, TypeOK
<1>1. proc' = [proc EXCEPT ![c] = q]
  BY DEF Destroy
<1>2. d = c /\ proc'[c] = q /\ p # NoProc
  BY <1>0, <1>1 DEF LeavesBlock
<1>3. p \in ProcRecs /\ Proper(pdb, p)
  BY <1>2, TrackedIs DEF IInv
<1>4. q.ctx[i] = p.ctx[i] \/ GivesBack(p, q, i)
  <2> HIDE DEF p
  <2> QED
    BY <1>3, RestoredIs DEF GivesBack
<1> QED
  BY <1>2, <1>4 DEF LeavesBlock, Obeys

\* The other events of processes leave no block: the child of a fork was not
\* tracked before, counters are not contexts, and naming the playground of a
\* process finds the same blocks again.
LEMMA OtherEventsObey ==
    ASSUME IInv, NEW c \in Cookies, NEW d \in Cookies, NEW i \in Prios,
           \/ \E u \in Users, parent \in Cookies, pg \in PgIds \cup {NoPg} : Fork(u, c, parent, pg)
           \/ Exit(c) \/ AddThread(c) \/ RemoveThread(c)
           \/ \E v \in Cookies : Replace(c, v)
           \/ \E pg \in PgIds : PlaygroundProc(c, pg)
    PROVE  ~LeavesBlock(proc[d], proc'[d], i)
<1>0. /\ pdb \in Dbs /\ proc \in [Cookies -> ProcRecs \cup {NoProc}]
      /\ Tracked \subseteq born /\ NoProc \notin ProcRecs
  BY ProcAssumption DEF IInv, Tracking, TypeOK, Alive
<1> SUFFICES ASSUME LeavesBlock(proc[d], proc'[d], i) PROVE FALSE
  OBVIOUS
<1>1. /\ proc[d] # NoProc /\ proc'[d] # NoProc /\ proc'[d].ctx[i] # proc[d].ctx[i]
      /\ proc[d].pgid = proc'[d].pgid /\ proc[d].ctx[i] # NoCtx /\ proc[d].ctx[i].rule # NoRule
  BY DEF LeavesBlock
<1>2. d \in Tracked /\ proc[d] \in ProcRecs /\ Proper(pdb, proc[d])
  BY <1>1, TrackedIs DEF IInv
<1>3. ASSUME NEW u \in Users, NEW parent \in Cookies, NEW pg \in PgIds \cup {NoPg},
             Fork(u, c, parent, pg)
      PROVE  FALSE
  <2>1. d # c
    BY <1>0, <1>2, <1>3 DEF Fork
  <2>2. proc'[d] = proc[d]
    BY <1>0, <1>3, <2>1 DEF Fork
  <2> QED
    BY <1>1, <2>2
<1>4. ASSUME NEW procs \in [Cookies -> ProcRecs \cup {NoProc}], NEW v \in Cookies,
             LoseInstance(procs, v), procs[v] \in ProcRecs, procs[d].ctx = proc[d].ctx
      PROVE  FALSE
  <2>1. CASE procs[v].instances > 1
    <3> DEFINE q == [procs[v] EXCEPT !.instances = procs[v].instances - 1]
    <3>1. proc' = [procs EXCEPT ![v] = q]
      BY <1>4, <2>1 DEF LoseInstance
    <3>2. q.ctx = procs[v].ctx
      BY <1>4 DEF ProcRecs
    <3> HIDE DEF q
    <3>3. proc'[d].ctx = procs[d].ctx
      BY <1>4, <3>1, <3>2
    <3> QED
      BY <1>1, <1>4, <3>3
  <2>2. CASE ~(procs[v].instances > 1)
    <3>1. proc' = [procs EXCEPT ![v] = NoProc]
      BY <1>4, <2>2 DEF LoseInstance
    <3>2. d # v /\ proc'[d] = procs[d]
      BY <1>1, <1>4, <3>1
    <3> QED
      BY <1>1, <1>4, <3>2
  <2> QED
    BY <2>1, <2>2
<1>5. CASE Exit(c)
  BY <1>0, <1>4, <1>5 DEF Exit
<1>6. ASSUME NEW v \in Cookies, Replace(c, v) PROVE FALSE
  <2> DEFINE q == [proc[c] EXCEPT !.instances = proc[c].instances + 1]
             procs == [proc EXCEPT ![c] = q]
  <2>1. proc[c] \in ProcRecs /\ proc[v] \in ProcRecs /\ c # v /\ LoseInstance(procs, v)
    BY <1>0, <1>6 DEF Replace
  <2>2. q \in ProcRecs /\ q.ctx = proc[c].ctx
    <3>1. proc[c].instances + 1 \in Nat
      BY <2>1, ProcFields
    <3> QED
      BY <2>1, <3>1 DEF ProcRecs
  <2> HIDE DEF q
  <2>3. procs \in [Cookies -> ProcRecs \cup {NoProc}] /\ procs[v] = proc[v]
        /\ procs[d].ctx = proc[d].ctx
    BY <1>0, <2>1, <2>2
  <2> HIDE DEF procs
  <2> QED
    BY <1>4, <2>1, <2>3
<1>7. ASSUME NEW q, proc' = [proc EXCEPT ![c] = q], q.ctx[i] = proc[c].ctx[i] PROVE FALSE
  BY <1>0, <1>1, <1>7
<1>8. CASE AddThread(c) \/ RemoveThread(c)
  <2>1. proc[c] \in ProcRecs
    BY <1>0, <1>8 DEF AddThread, RemoveThread
  <2>2. \E n : proc' = [proc EXCEPT ![c] = [proc[c] EXCEPT !.threads = n]]
    BY <1>8 DEF AddThread, RemoveThread
  <2>3. \A n : [proc[c] EXCEPT !.threads = n].ctx = proc[c].ctx
    BY <2>1 DEF ProcRecs
  <2> QED
    BY <1>7, <2>2, <2>3
<1>9. ASSUME NEW pg \in PgIds, PlaygroundProc(c, pg) PROVE FALSE
  <2> DEFINE p == [proc[c] EXCEPT !.pgid = pg]
             q == RefreshAll(pdb, p)
  <2>1. proc' = [proc EXCEPT ![c] = q] /\ proc[c] \in ProcRecs
    BY <1>0, <1>9 DEF PlaygroundProc
  <2>2. d = c /\ proc'[c] = q
    BY <1>0, <1>1, <2>1
  <2>3. p \in ProcRecs /\ p.ctx = proc[c].ctx /\ p.saved = proc[c].saved
        /\ p.uid = proc[c].uid /\ p.pgid = pg
    BY <2>1 DEF ProcRecs
  <2>4. SavedHasCtx(p)
    BY <1>2, <2>2, <2>3, ProperSaved DEF SavedHasCtx
  <2> HIDE DEF p
  <2>5. q.pgid = pg
    BY <1>0, <2>3, <2>4, RefreshedAll
  <2>6. Proper(pdb, p)
    BY <1>1, <1>2, <2>2, <2>3, <2>5 DEF Proper, ProperAt
  <2>7. q.ctx[i] = p.ctx[i]
    BY <1>0, <1>1, <2>2, <2>3, <2>6, AllSearchedAgain
  <2> QED
    BY <1>1, <2>2, <2>3, <2>7
<1> QED
  BY <1>3, <1>5, <1>6, <1>8, <1>9

\* A policy that is replaced by itself leaves no block either: only a change of
\* the database does.
LEMMA PoliciesObey ==
    ASSUME IInv, NEW u \in Users \cup {Default}, PolicyChange(u), pdb' = pdb,
           NEW d \in Cookies, NEW i \in Prios
    PROVE  ~LeavesBlock(proc[d], proc'[d], i)
<1>0. /\ pdb \in Dbs /\ proc \in [Cookies -> ProcRecs \cup {NoProc}]
  BY DEF IInv, Tracking, TypeOK
<1> SUFFICES ASSUME LeavesBlock(proc[d], proc'[d], i) PROVE FALSE
  OBVIOUS
<1>1. /\ proc[d] # NoProc /\ proc'[d].ctx[i] # proc[d].ctx[i]
      /\ proc[d].ctx[i] # NoCtx /\ proc[d].ctx[i].rule # NoRule
  BY DEF LeavesBlock
<1>2. proc[d] \in ProcRecs /\ Proper(pdb, proc[d])
  BY <1>1, TrackedIs DEF IInv
<1>3. ASSUME NEW prio \in Prios, NEW ch \in Chains, SetPolicy(u, prio, ch) PROVE FALSE
  <2>1. proc'[d] = Refresh(pdb, proc[d], prio)
    BY <1>1, <1>3 DEF SetPolicy
  <2>2. CASE i = prio
    BY <1>0, <1>1, <1>2, <2>1, <2>2, SearchedAgain
  <2>3. CASE i # prio
    <3>1. proc[d].ctx \in [Prios -> Ctxs]
      BY <1>2, ProcFields
    <3>2. Refresh(pdb, proc[d], prio).ctx[i] = proc[d].ctx[i]
      BY <1>2, <2>3, <3>1 DEF Refresh, ProcRecs
    <3> QED
      BY <1>1, <2>1, <3>2
  <2> QED
    BY <2>2, <2>3
<1>4. ASSUME NEW lost, Reconfigure(lost) PROVE FALSE
  <2>1. proc' = [c \in Cookies |-> IF proc[c] = NoProc THEN NoProc ELSE RefreshAll(pdb', proc[c])]
    BY <1>4 DEF Reconfigure
  <2>2. proc'[d] = RefreshAll(pdb, proc[d])
    BY <1>1, <2>1
  <2> QED
    BY <1>0, <1>1, <1>2, <2>2, AllSearchedAgain
<1> QED
  BY <1>3, <1>4 DEF PolicyChange

\* pe_context_decide: a process leaves its rule block only where the block says
\* so for this kind of event, or by giving a borrowed context back.
THEOREM AlwaysConfined ==
    ASSUME "open" \notin UidChanges
    PROVE  Safe => Confined
<1> DEFINE Step == \A c \in Cookies, i \in Prios :
              pdb' = pdb /\ LeavesBlock(proc[c], proc'[c], i) =>
                 GivesBack(proc[c], proc'[c], i) \/ Permitted(c, i)
<1>1. IInv /\ [Next]_vars => [Step]_vars
  <2> SUFFICES ASSUME IInv, Next, NEW d \in Cookies, NEW i \in Prios,
                      pdb' = pdb, LeavesBlock(proc[d], proc'[d], i)
               PROVE  Obeys(d, i)
    BY DEF Obeys
  <2>1. ASSUME NEW c \in Cookies, ProcEvent(c) PROVE Obeys(d, i)
    <3>1. ASSUME NEW u \in Users, NEW pg \in PgIds \cup {NoPg}, NEW id \in Idents,
                 Exec(c, u, id, pg)
          PROVE  Obeys(d, i)
      BY <3>1, ExecObeys
    <3>2. ASSUME NEW u \in Users, NEW id \in Idents, Open(c, id, u) PROVE Obeys(d, i)
      BY <3>2, OpenObeys
    <3>3. ASSUME NEW k \in Conns, Destroy(k, c) PROVE Obeys(d, i)
      BY <3>3, DestroyObeys
    <3>4. ASSUME NEW k \in Conns, NEW dest \in Cookies, Connect(k, c, dest) PROVE Obeys(d, i)
      BY <3>4, ConnectObeys
    <3>5. CASE \/ \E u \in Users, parent \in Cookies, pg \in PgIds \cup {NoPg} :
                    Fork(u, c, parent, pg)
               \/ Exit(c) \/ AddThread(c) \/ RemoveThread(c)
               \/ \E v \in Cookies : Replace(c, v)
               \/ \E pg \in PgIds : PlaygroundProc(c, pg)
      BY <3>5, OtherEventsObey
    <3> QED
      BY <2>1, <3>1, <3>2, <3>3, <3>4, <3>5 DEF ProcEvent
  <2>2. ASSUME NEW u \in Users \cup {Default}, PolicyChange(u) PROVE Obeys(d, i)
    BY <2>2, PoliciesObey
  <2>3. CASE UNCHANGED procVars
    BY <2>3 DEF procVars, LeavesBlock
  <2>4. CASE Restart(kpg, Tracked) \/ Restart(0, {})
    BY <2>4 DEF Restart, LeavesBlock
  <2> QED
    BY <2>1, <2>2, <2>3, <2>4 DEF Next
<1> QED
  BY <1>1, Inductive, PTL DEF Safe, Confined
-----------------------------------------------------------------------------
(* Giving a borrowed context back                                           *)

\* A context that is kept aside was searched again.
Renewed(p, q, i) ==
    /\ q.saved[i] # NoCtx /\ q.saved[i].ident = p.saved[i].ident
    /\ q.saved[i].ruleset = GetRuleset(pdb', q.uid, i)

\* What GivenBack says of the own context of one process.
KeepsOwn(d, i) ==
    LET p == proc[d]
        q == proc'[d]
    IN p # NoProc /\ q # NoProc =>
         /\ conns' # conns => OwnCtx(q, i) = OwnCtx(p, i)
         /\ conns' = conns /\ p.saved[i] # NoCtx =>
              \/ q.saved[i] = NoCtx /\ Decide(p, "new", i, q.ident, q.uid)
              \/ q.saved[i] = p.saved[i]
              \/ Renewed(p, q, i)

\* pe_context_refresh searches for the program of the context kept aside.
LEMMA RefreshRenews ==
    ASSUME NEW db \in Dbs, NEW p \in ProcRecs, NEW i \in Prios, p.saved[i] # NoCtx,
           NEW x, x = Refresh(db, p, i).saved[i]
    PROVE  x # NoCtx /\ x.ident = p.saved[i].ident /\ x.ruleset = GetRuleset(db, p.uid, i)
<1> DEFINE rs == GetRuleset(db, p.uid, i)
           y == p.saved[i]
<1>0. p.ctx \in [Prios -> Ctxs] /\ p.saved \in [Prios -> Ctxs] /\ y \in Ctxs /\ y # NoCtx
  BY ProcFields
<1>1. CASE rs = NoRuleset
  <2>1. x = NoRules(y)
    BY <1>0, <1>1 DEF Refresh, ProcRecs
  <2>2. x = [ruleset |-> NoRuleset, ident |-> y.ident, rule |-> NoRule]
    BY <1>0, <2>1 DEF NoRules
  <2>3. NoRules(y) # NoCtx
    BY <1>0, NoRulesIs
  <2> QED
    BY <1>1, <2>1, <2>2, <2>3
<1>2. CASE rs # NoRuleset
  <2>1. x = Found(rs, y.ident, p.uid, p.pgid)
    BY <1>0, <1>2 DEF Refresh, ProcRecs, Found
  <2>2. rs \in RulesetRecs
    BY <1>0, <1>2, ProcFields, RulesetIs
  <2>4. y.ident \in Idents \cup {NoIdent}
    BY <1>0, CtxIdent
  <2> HIDE DEF rs
  <2>3. x \in CtxRecs /\ x # NoCtx /\ x.ruleset = rs /\ x.ident = p.saved[i].ident
    BY <2>1, <2>2, <2>4, FoundIs
  <2> QED
    BY <2>3 DEF rs
<1> QED
  BY <1>1, <1>2

\* A process whose contexts are left alone keeps its own one.
LEMMA SameKeeps ==
    ASSUME NEW d \in Cookies, NEW i \in Prios,
           proc'[d].ctx = proc[d].ctx, proc'[d].saved = proc[d].saved
    PROVE  KeepsOwn(d, i)
BY DEF KeepsOwn, OwnCtx

\* pe_context_exec drops what is kept aside where it switches the context.
LEMMA ExecKeeps ==
    ASSUME Tracking, NEW c \in Cookies, NEW uid \in Users, NEW ident \in Idents,
           NEW pgid \in PgIds \cup {NoPg}, Exec(c, uid, ident, pgid),
           NEW d \in Cookies, NEW i \in Prios
    PROVE  KeepsOwn(d, i)
<1>0. proc \in [Cookies -> ProcRecs \cup {NoProc}]
  BY DEF Tracking, TypeOK
<1>1. CASE d # c
  <2>1. proc'[d] = proc[d]
    BY <1>0, <1>1 DEF Exec
  <2> QED
    BY <2>1, SameKeeps
<1>2. CASE proc[d] = NoProc
  BY <1>2 DEF KeepsOwn
<1>3. CASE d = c /\ proc[c] # NoProc
  <2> DEFINE p == [proc[c] EXCEPT !.ident = ident]
             q == ExecCtx(p, uid, ident)
  <2>1. proc' = [proc EXCEPT ![c] = q] /\ conns' = conns
    BY <1>3 DEF Exec
  <2>2. proc'[c] = q
    BY <1>0, <2>1
  <2>3. /\ p \in ProcRecs /\ p.ctx = proc[c].ctx /\ p.uid = proc[c].uid
        /\ p.ident = ident /\ p.saved = proc[c].saved
    BY <1>0, <1>3 DEF ProcRecs
  <2> HIDE DEF p
  <2>4. /\ q.uid = uid /\ q.ident = ident
        /\ q.saved[i] = IF Decide(p, "new", i, ident, uid) THEN NoCtx ELSE p.saved[i]
    BY <2>3 DEF ExecCtx, ProcRecs
  <2>5. Decide(p, "new", i, ident, uid) = Decide(proc[c], "new", i, ident, uid)
    BY <2>3 DEF Decide
  <2> HIDE DEF q
  <2> QED
    BY <1>3, <2>1, <2>2, <2>3, <2>4, <2>5 DEF KeepsOwn
<1> QED
  BY <1>1, <1>2, <1>3

\* pe_proc_save_ctx, pe_context_borrow: the first borrow keeps the own context
\* aside, a second one leaves it there.
LEMMA ConnectKeeps ==
    ASSUME Tracking, NEW k \in Conns, NEW source \in Cookies, NEW dest \in Cookies,
           Connect(k, source, dest), NEW d \in Cookies, NEW i \in Prios
    PROVE  KeepsOwn(d, i)
<1> DEFINE s == proc[source]
           p == proc[dest]
           q == BorrowCtx(s, p, k)
<1>0. proc \in [Cookies -> ProcRecs \cup {NoProc}] /\ conns \in [Conns -> SUBSET Cookies]
  BY DEF Tracking, TypeOK
<1>1. CASE d # dest
  <2>1. proc'[d] = proc[d]
    BY <1>0, <1>1 DEF Connect
  <2> QED
    BY <2>1, SameKeeps
<1>2. CASE d = dest
  <2>1. proc'[dest] = q /\ p \in ProcRecs
    BY <1>0 DEF Connect
  <2>2. conns'[k] = {source, dest} /\ conns[k] = {}
    BY <1>0 DEF Connect
  <2>3. conns' # conns
    BY <2>2
  <2> HIDE DEF p
  <2>4. /\ q.ctx[i] = IF Borrows(s, p, i)
                        THEN Switched(pdb, [p EXCEPT !.ctx = [j \in Prios |->
                               IF Borrows(s, p, j) /\ p.saved[j] = NoCtx THEN NoCtx ELSE p.ctx[j]]],
                               i, s.ctx[i].ident, p.uid)
                        ELSE p.ctx[i]
        /\ q.saved[i] = IF Borrows(s, p, i) /\ p.saved[i] = NoCtx THEN p.ctx[i] ELSE p.saved[i]
    BY <2>1 DEF BorrowCtx, ProcRecs
  <2>5. Borrows(s, p, i) => p.ctx[i] # NoCtx
    BY DEF Borrows, Decide
  <2>6. OwnCtx(q, i) = OwnCtx(p, i)
    <3> HIDE DEF q
    <3> QED
      BY <2>4, <2>5 DEF OwnCtx
  <2> HIDE DEF q
  <2> QED
    BY <1>2, <2>1, <2>3, <2>6 DEF KeepsOwn, p
<1> QED
  BY <1>1, <1>2

\* pe_proc_restore_ctx: what was kept aside is the current context again.
LEMMA DestroyKeeps ==
    ASSUME Tracking, NEW k \in Conns, NEW c \in Cookies, Destroy(k, c),
           NEW d \in Cookies, NEW i \in Prios
    PROVE  KeepsOwn(d, i)
<1> DEFINE p == proc[c]
           q == RestoreCtx(p, k)
<1>0. /\ proc \in [Cookies -> ProcRecs \cup {NoProc}] /\ conns \in [Conns -> SUBSET Cookies]
      /\ conns[k] \subseteq Tracked
  BY DEF Tracking, TypeOK, Alive
<1>1. CASE d # c
  <2>1. proc'[d] = proc[d]
    BY <1>0, <1>1 DEF Destroy
  <2> QED
    BY <2>1, SameKeeps
<1>2. CASE d = c
  <2>1. proc'[c] = q /\ p \in ProcRecs
    BY <1>0 DEF Destroy, Tracked
  <2>2. c \notin conns'[k] /\ c \in conns[k]
    BY <1>0 DEF Destroy
  <2>3. conns' # conns
    BY <2>2
  <2> HIDE DEF p
  <2>4. \/ p.saved[i] # NoCtx /\ q.ctx[i] = p.saved[i] /\ q.saved[i] = NoCtx
        \/ q.ctx[i] = p.ctx[i] /\ q.saved[i] = p.saved[i]
    BY <2>1 DEF RestoreCtx, ProcRecs
  <2> HIDE DEF q
  <2>5. OwnCtx(q, i) = OwnCtx(p, i)
    BY <2>4 DEF OwnCtx
  <2> QED
    BY <1>2, <2>1, <2>3, <2>5 DEF KeepsOwn, p
<1> QED
  BY <1>1, <1>2

\* Opening a file, threads, forks and exits leave what is kept aside alone, and
\* a new playground has it searched again.
LEMMA OtherEventsKeep ==
    ASSUME Tracking, NEW c \in Cookies, NEW d \in Cookies, NEW i \in Prios,
           \/ \E u \in Users, parent \in Cookies, pg \in PgIds \cup {NoPg} : Fork(u, c, parent, pg)
           \/ \E u \in Users, id \in Idents : Open(c, id, u)
           \/ Exit(c) \/ AddThread(c) \/ RemoveThread(c)
           \/ \E v \in Cookies : Replace(c, v)
           \/ \E pg \in PgIds : PlaygroundProc(c, pg)
    PROVE  KeepsOwn(d, i)
<1>0. /\ pdb \in Dbs /\ proc \in [Cookies -> ProcRecs \cup {NoProc}]
      /\ Tracked \subseteq born /\ NoProc \notin ProcRecs
  BY ProcAssumption DEF Tracking, TypeOK, Alive
<1> SUFFICES ASSUME proc[d] # NoProc, proc'[d] # NoProc PROVE KeepsOwn(d, i)
  BY DEF KeepsOwn
<1>2. d \in Tracked /\ proc[d] \in ProcRecs
  BY TrackedIs
<1>3. ASSUME NEW u \in Users, NEW parent \in Cookies, NEW pg \in PgIds \cup {NoPg},
             Fork(u, c, parent, pg)
      PROVE  KeepsOwn(d, i)
  <2>1. d # c
    BY <1>0, <1>2, <1>3 DEF Fork
  <2>2. proc'[d] = proc[d]
    BY <1>0, <1>3, <2>1 DEF Fork
  <2> QED
    BY <2>2, SameKeeps
<1>4. ASSUME NEW procs \in [Cookies -> ProcRecs \cup {NoProc}], NEW v \in Cookies,
             LoseInstance(procs, v), procs[v] \in ProcRecs,
             procs[d].ctx = proc[d].ctx, procs[d].saved = proc[d].saved
      PROVE  KeepsOwn(d, i)
  <2>1. CASE procs[v].instances > 1
    <3> DEFINE q == [procs[v] EXCEPT !.instances = procs[v].instances - 1]
    <3>1. proc' = [procs EXCEPT ![v] = q]
      BY <1>4, <2>1 DEF LoseInstance
    <3>2. q.ctx = procs[v].ctx /\ q.saved = procs[v].saved
      BY <1>4 DEF ProcRecs
    <3> HIDE DEF q
    <3>3. proc'[d].ctx = procs[d].ctx /\ proc'[d].saved = procs[d].saved
      BY <1>4, <3>1, <3>2
    <3> QED
      BY <1>4, <3>3, SameKeeps
  <2>2. CASE ~(procs[v].instances > 1)
    <3>1. proc' = [procs EXCEPT ![v] = NoProc]
      BY <1>4, <2>2 DEF LoseInstance
    <3>2. d # v /\ proc'[d] = procs[d]
      BY <1>4, <3>1
    <3> QED
      BY <1>4, <3>2, SameKeeps
  <2> QED
    BY <2>1, <2>2
<1>5. CASE Exit(c)
  BY <1>0, <1>4, <1>5 DEF Exit
<1>6. ASSUME NEW v \in Cookies, Replace(c, v) PROVE KeepsOwn(d, i)
  <2> DEFINE q == [proc[c] EXCEPT !.instances = proc[c].instances + 1]
             procs == [proc EXCEPT ![c] = q]
  <2>1. proc[c] \in ProcRecs /\ proc[v] \in ProcRecs /\ c # v /\ LoseInstance(procs, v)
    BY <1>0, <1>6 DEF Replace
  <2>2. q \in ProcRecs /\ q.ctx = proc[c].ctx /\ q.saved = proc[c].saved
    <3>1. proc[c].instances + 1 \in Nat
      BY <2>1, ProcFields
    <3> QED
      BY <2>1, <3>1 DEF ProcRecs
  <2> HIDE DEF q
  <2>3. procs \in [Cookies -> ProcRecs \cup {NoProc}] /\ procs[v] = proc[v]
        /\ procs[d].ctx = proc[d].ctx /\ procs[d].saved = proc[d].saved
    BY <1>0, <2>1, <2>2
  <2> HIDE DEF procs
  <2> QED
    BY <1>4, <2>1, <2>3
<1>7. ASSUME NEW q, proc' = [proc EXCEPT ![c] = q], conns' = conns, q.saved = proc[c].saved
      PROVE  KeepsOwn(d, i)
  <2>1. proc'[d].saved = proc[d].saved
    BY <1>0, <1>7
  <2> QED
    BY <1>7, <2>1 DEF KeepsOwn
<1>8. CASE AddThread(c) \/ RemoveThread(c)
  <2>1. proc[c] \in ProcRecs /\ conns' = conns
    BY <1>0, <1>8 DEF AddThread, RemoveThread
  <2>2. \E n : proc' = [proc EXCEPT ![c] = [proc[c] EXCEPT !.threads = n]]
    BY <1>8 DEF AddThread, RemoveThread
  <2>3. \A n : [proc[c] EXCEPT !.threads = n].saved = proc[c].saved
    BY <2>1 DEF ProcRecs
  <2> QED
    BY <1>7, <2>1, <2>2, <2>3
<1>9. ASSUME NEW u \in Users, NEW id \in Idents, Open(c, id, u) PROVE KeepsOwn(d, i)
  <2>1. proc[c] \in ProcRecs /\ conns' = conns
    BY <1>0, <1>9 DEF Open
  <2>2. \E cs : proc' = [proc EXCEPT ![c] = [proc[c] EXCEPT !.ctx = cs]]
    BY <1>9 DEF Open
  <2>3. \A cs : [proc[c] EXCEPT !.ctx = cs].saved = proc[c].saved
    BY <2>1 DEF ProcRecs
  <2> QED
    BY <1>7, <2>1, <2>2, <2>3
<1>10. ASSUME NEW pg \in PgIds, PlaygroundProc(c, pg) PROVE KeepsOwn(d, i)
  <2>0. CASE d # c
    <3>1. proc'[d] = proc[d]
      BY <1>0, <1>10, <2>0 DEF PlaygroundProc
    <3> QED
      BY <3>1, SameKeeps
  <2>1. CASE d = c /\ proc[c].saved[i] # NoCtx
    <3> DEFINE p == [proc[c] EXCEPT !.pgid = pg]
               q == RefreshAll(pdb, p)
    <3>1. proc'[c] = q /\ proc[c] \in ProcRecs /\ pdb' = pdb /\ conns' = conns
      BY <1>0, <1>10 DEF PlaygroundProc
    <3>2. p \in ProcRecs /\ p.saved = proc[c].saved /\ p.uid = proc[c].uid
      BY <3>1 DEF ProcRecs
    <3> HIDE DEF p
    <3>3. q.saved[i] = Refresh(pdb, p, i).saved[i] /\ q.uid = p.uid
      BY <3>2 DEF RefreshAll, ProcRecs
    <3> HIDE DEF q
    <3>4. /\ q.saved[i] # NoCtx /\ q.saved[i].ident = p.saved[i].ident
          /\ q.saved[i].ruleset = GetRuleset(pdb, p.uid, i)
      BY <1>0, <2>1, <3>2, <3>3, RefreshRenews
    <3>5. Renewed(proc[c], proc'[c], i)
      BY <3>1, <3>2, <3>3, <3>4 DEF Renewed
    <3> QED
      BY <2>1, <3>1, <3>5 DEF KeepsOwn
  <2>2. CASE d = c /\ proc[c].saved[i] = NoCtx
    <3>1. conns' = conns
      BY <1>10 DEF PlaygroundProc
    <3> QED
      BY <2>2, <3>1 DEF KeepsOwn
  <2> QED
    BY <2>0, <2>1, <2>2
<1> QED
  BY <1>3, <1>5, <1>6, <1>8, <1>9, <1>10

\* pe_user_insert_rs, pe_user_reconfigure: what is kept aside is searched again
\* for the same program.
LEMMA PoliciesKeep ==
    ASSUME Tracking, Tracking', NEW u \in Users \cup {Default}, PolicyChange(u),
           NEW d \in Cookies, NEW i \in Prios
    PROVE  KeepsOwn(d, i)
<1>0. /\ pdb \in Dbs /\ pdb' \in Dbs /\ proc \in [Cookies -> ProcRecs \cup {NoProc}]
  BY DEF Tracking, TypeOK
<1>1. conns' = conns
  BY DEF PolicyChange, SetPolicy, Reconfigure
<1> SUFFICES ASSUME proc[d] # NoProc, proc[d].saved[i] # NoCtx, proc'[d] # proc[d]
             PROVE  Renewed(proc[d], proc'[d], i) \/ proc'[d].saved[i] = proc[d].saved[i]
  BY <1>1 DEF KeepsOwn
<1> DEFINE p == proc[d]
<1>2. p \in ProcRecs
  BY <1>0
<1>3. ASSUME NEW prio \in Prios, NEW ch \in Chains, SetPolicy(u, prio, ch)
      PROVE  Renewed(p, proc'[d], i) \/ proc'[d].saved[i] = p.saved[i]
  <2>1. proc'[d] = Refresh(pdb', p, prio)
    BY <1>3 DEF SetPolicy
  <2> HIDE DEF p
  <2>2. proc'[d].uid = p.uid
    BY <1>2, <2>1 DEF Refresh, ProcRecs
  <2>3. CASE i = prio
    <3>1. p.saved[i] # NoCtx
      BY DEF p
    <3>2. /\ proc'[d].saved[i] # NoCtx /\ proc'[d].saved[i].ident = p.saved[i].ident
          /\ proc'[d].saved[i].ruleset = GetRuleset(pdb', p.uid, i)
      BY <1>0, <1>2, <2>1, <2>3, <3>1, RefreshRenews
    <3> QED
      BY <2>2, <3>2 DEF Renewed
  <2>4. CASE i # prio
    <3>1. p.saved \in [Prios -> Ctxs]
      BY <1>2, ProcFields
    <3>2. Refresh(pdb', p, prio).saved[i] = p.saved[i]
      BY <1>2, <2>4, <3>1 DEF Refresh, ProcRecs
    <3> QED
      BY <2>1, <3>2
  <2> QED
    BY <2>3, <2>4
<1>4. ASSUME NEW lost, Reconfigure(lost)
      PROVE  Renewed(p, proc'[d], i) \/ proc'[d].saved[i] = p.saved[i]
  <2>1. proc' = [c \in Cookies |-> IF proc[c] = NoProc THEN NoProc ELSE RefreshAll(pdb', proc[c])]
    BY <1>4 DEF Reconfigure
  <2>2. proc'[d] = RefreshAll(pdb', p) /\ p.saved[i] # NoCtx
    BY <2>1
  <2> HIDE DEF p
  <2>3. proc'[d].saved[i] = Refresh(pdb', p, i).saved[i] /\ proc'[d].uid = p.uid
    BY <1>2, <2>2 DEF RefreshAll, ProcRecs
  <2>4. /\ proc'[d].saved[i] # NoCtx /\ proc'[d].saved[i].ident = p.saved[i].ident
        /\ proc'[d].saved[i].ruleset = GetRuleset(pdb', p.uid, i)
    BY <1>0, <1>2, <2>2, <2>3, RefreshRenews
  <2> QED
    BY <2>3, <2>4 DEF Renewed
<1> QED
  BY <1>3, <1>4 DEF PolicyChange

\* pe_proc_save_ctx, pe_proc_restore_ctx: whatever connections open and close
\* and in which order, a process that borrows a context gets its own one back.
THEOREM BorrowedIsGivenBack == Safe => GivenBack
<1> DEFINE Step == \A c \in Cookies, i \in Prios :
         LET p == proc[c]
             q == proc'[c]
         IN /\ q # NoProc /\ q.saved[i] # NoCtx => c \in conns'[q.borrow[i]]
            /\ p # NoProc /\ q # NoProc =>
                 /\ conns' # conns => OwnCtx(q, i) = OwnCtx(p, i)
                 /\ conns' = conns /\ p.saved[i] # NoCtx =>
                      \/ q.saved[i] = NoCtx /\ Decide(p, "new", i, q.ident, q.uid)
                      \/ q.saved[i] = p.saved[i]
                      \/ /\ q.saved[i] # NoCtx /\ q.saved[i].ident = p.saved[i].ident
                         /\ q.saved[i].ruleset = GetRuleset(pdb', q.uid, i)
<1>1. Tracking /\ Tracking' /\ [Next]_vars => [Step]_vars
  <2> SUFFICES ASSUME Tracking, Tracking', Next, NEW d \in Cookies, NEW i \in Prios
               PROVE  /\ proc'[d] # NoProc /\ proc'[d].saved[i] # NoCtx =>
                           d \in conns'[proc'[d].borrow[i]]
                      /\ KeepsOwn(d, i)
    BY DEF KeepsOwn, Renewed
  <2>1. proc'[d] # NoProc /\ proc'[d].saved[i] # NoCtx => d \in conns'[proc'[d].borrow[i]]
    BY DEF Tracking, BorrowsHeld, HeldIn, Tracked
  <2>2. ASSUME NEW c \in Cookies, ProcEvent(c) PROVE KeepsOwn(d, i)
    <3>1. ASSUME NEW u \in Users, NEW pg \in PgIds \cup {NoPg}, NEW id \in Idents,
                 Exec(c, u, id, pg)
          PROVE  KeepsOwn(d, i)
      BY <3>1, ExecKeeps
    <3>2. ASSUME NEW k \in Conns, Destroy(k, c) PROVE KeepsOwn(d, i)
      BY <3>2, DestroyKeeps
    <3>3. ASSUME NEW k \in Conns, NEW dest \in Cookies, Connect(k, c, dest) PROVE KeepsOwn(d, i)
      BY <3>3, ConnectKeeps
    <3>4. CASE \/ \E u \in Users, parent \in Cookies, pg \in PgIds \cup {NoPg} :
                    Fork(u, c, parent, pg)
               \/ \E u \in Users, id \in Idents : Open(c, id, u)
               \/ Exit(c) \/ AddThread(c) \/ RemoveThread(c)
               \/ \E v \in Cookies : Replace(c, v)
               \/ \E pg \in PgIds : PlaygroundProc(c, pg)
      BY <3>4, OtherEventsKeep
    <3> QED
      BY <2>2, <3>1, <3>2, <3>3, <3>4 DEF ProcEvent
  <2>3. ASSUME NEW u \in Users \cup {Default}, PolicyChange(u) PROVE KeepsOwn(d, i)
    BY <2>3, PoliciesKeep
  <2>4. CASE UNCHANGED procVars
    <3>1. proc' = proc
      BY <2>4 DEF procVars
    <3>2. proc'[d].ctx = proc[d].ctx /\ proc'[d].saved = proc[d].saved
      BY <3>1
    <3> QED
      BY <2>1, <3>2, SameKeeps
  <2>5. CASE Restart(kpg, Tracked) \/ Restart(0, {})
    BY <2>5 DEF Restart, KeepsOwn
  <2> QED
    BY <2>1, <2>2, <2>3, <2>4, <2>5 DEF Next
<1> QED
  BY <1>1, TrackingInvariant, PTL DEF Safe, GivenBack
=============================================================================
