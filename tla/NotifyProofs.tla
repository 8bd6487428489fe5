---------------------------- MODULE NotifyProofs ----------------------------
(***************************************************************************)
(* Proofs about Notify, for any number of groups, tokens, users and        *)
(* registrations and with failing sends and allocations.  The inductive    *)
(* invariant is TypeOK with HeadOK for every token: HeadOK ties the event  *)
(* states of a token, its head and its callback history together.          *)
(***************************************************************************)
EXTENDS Notify, FiniteSetTheorems, SequenceTheorems, TLAPS

\* The peers that still owe a verdict for t in the event states p.
Open(p, t) == {g \in Groups : p[g][t] = "open"}

\* Event states p, head h and callback history d of token t fit together.
HeadOK(p, h, d, t) ==
    /\ \A g \in Groups : p[g][t] \in {"open", "verdict"} => h # NoHead
    /\ h # NoHead =>
          /\ h.eventcount = Cardinality(Open(p, t))
          /\ d = <<>>
          /\ ~h.reply /\ h.eventcount = 0 => h.verdict < 0
    /\ Len(d) <= 1

HeadsOK == \A t \in Tokens : HeadOK(pending, head[t], done[t], t)

\* The inductive invariant.
IInv == TypeOK /\ HeadsOK

PendingType == [Groups -> [Tokens -> EventStates]]

-----------------------------------------------------------------------------
(* Counting the open events                                                *)

\* The number of open events of a token is a natural number.
LEMMA OpenCount ==
    ASSUME NEW p, NEW t
    PROVE  /\ IsFiniteSet(Open(p, t))
           /\ Cardinality(Open(p, t)) \in Nat
           /\ Cardinality(Open(p, t)) = 0 <=> Open(p, t) = {}
<1>1. IsFiniteSet(Open(p, t))
  <2>1. Open(p, t) \subseteq Groups
    BY DEF Open
  <2> QED
    BY <2>1, FS_Subset, NotifyAssumption
<1> QED
  BY <1>1, FS_CardinalityType, FS_EmptySet

\* An event that leaves the state "open" lowers the count of its token by one
\* (drop_event with FLAG_VERDICT).
LEMMA OpenDrop ==
    ASSUME NEW p \in PendingType, NEW g \in Groups, NEW t \in Tokens,
           NEW x \in EventStates \ {"open"}, p[g][t] = "open"
    PROVE  Cardinality(Open([p EXCEPT ![g][t] = x], t)) = Cardinality(Open(p, t)) - 1
<1>1. Open([p EXCEPT ![g][t] = x], t) = Open(p, t) \ {g}
  BY DEF Open, PendingType
<1>2. g \in Open(p, t)
  BY DEF Open
<1> QED
  BY <1>1, <1>2, OpenCount, FS_RemoveElement

\* Any other change of an event that was not open leaves the count alone.
LEMMA OpenSame ==
    ASSUME NEW p, NEW q, NEW t, \A g \in Groups : p[g][t] = "open" <=> q[g][t] = "open"
    PROVE  Open(p, t) = Open(q, t)
BY DEF Open

\* HeadOK of a token only looks at which events of that token are open, and
\* survives the unlinking of others.
LEMMA HeadFrame ==
    ASSUME NEW p, NEW q, NEW h, NEW d, NEW t, HeadOK(p, h, d, t),
           \A g \in Groups : /\ p[g][t] = "open" <=> q[g][t] = "open"
                             /\ q[g][t] = "verdict" => p[g][t] = "verdict"
    PROVE  HeadOK(q, h, d, t)
<1>1. Open(p, t) = Open(q, t)
  BY OpenSame
<1>2. \A g \in Groups : q[g][t] \in {"open", "verdict"} => p[g][t] \in {"open", "verdict"}
  OBVIOUS
<1> QED
  BY <1>1, <1>2, Zenon DEF HeadOK

\* What has to be shown of a head that is not yet finished.
LEMMA HeadFits ==
    ASSUME NEW p, NEW h, NEW t, h # NoHead, h.eventcount = Cardinality(Open(p, t)),
           ~h.reply /\ h.eventcount = 0 => h.verdict < 0
    PROVE  HeadOK(p, h, <<>>, t)
<1>1. Len(<<>>) <= 1
  OBVIOUS
<1> QED
  BY <1>1, Zenon DEF HeadOK

-----------------------------------------------------------------------------
(* anoubis_notify_sendreply                                                *)

\* After the results were sent, no event is linked or open.
LEMMA AfterReplyUnlinks ==
    ASSUME NEW p \in PendingType, NEW t \in Tokens, NEW fail
    PROVE  /\ AfterReply(p, t, fail) \in PendingType
           /\ \A g \in Groups : AfterReply(p, t, fail)[g][t] \in {"none", "replied"}
           /\ \A g \in Groups, u \in Tokens \ {t} :
                 AfterReply(p, t, fail)[g][u] = p[g][u]
<1> DEFINE q(g) == [p[g] EXCEPT ![t] =
                IF @ = "verdict" \/ g \in fail THEN "none" ELSE "replied"]
<1>1. \A g \in Groups : p[g] \in [Tokens -> EventStates]
  BY DEF PendingType
<1>2. \A g \in Groups : /\ q(g) \in [Tokens -> EventStates]
                         /\ q(g)[t] \in {"none", "replied"}
                         /\ \A u \in Tokens \ {t} : q(g)[u] = p[g][u]
  BY <1>1 DEF EventStates
<1>3. \A g \in Groups : g \notin Peers(p, t) => p[g][t] \in {"none", "replied"}
  BY <1>1 DEF Peers, EventStates
<1>4. AfterReply(p, t, fail) = [g \in Groups |-> IF g \notin Peers(p, t) THEN p[g] ELSE q(g)]
  BY DEF AfterReply
<1> HIDE DEF q
<1> QED
  BY <1>1, <1>2, <1>3, <1>4 DEF PendingType

\* A call of anoubis_notify_sendreply on a live head preserves the invariant,
\* if the head it is called with already fits the event states it is called
\* with, up to a head that now has to be answered.
LEMMA SendReplyHeads ==
    ASSUME TypeOK, HeadsOK,
           NEW t \in Tokens, NEW h \in Heads, NEW p \in PendingType, NEW v \in Int,
           NEW you, NEW uid \in Int, NEW fail, NEW oom \in BOOLEAN,
           head[t] # NoHead,
           \A g \in Groups, u \in Tokens \ {t} : p[g][u] = pending[g][u],
           h.eventcount = Cardinality(Open(p, t)),
           v < 0 => (h.verdict < 0 \/ h.reply \/ h.eventcount # 0),
           ~h.reply /\ h.eventcount = 0 => (h.verdict = v \/ h.verdict < 0),
           SendReply(t, h, p, v, you, uid, fail, oom)
    PROVE  /\ pending' \in PendingType
           /\ head' \in [Tokens -> Heads \cup {NoHead}]
           /\ told' \in [Groups -> [Tokens -> Seq(Sent)]]
           /\ done' \in [Tokens -> Seq(Int)]
           /\ HeadsOK'
<1>a. h # NoHead /\ NoHead \notin Heads
  BY NotifyAssumption DEF Heads
<1>b. done[t] = <<>> /\ Len(done[t]) = 0
  BY DEF HeadsOK, HeadOK
<1>d. told' \in [Groups -> [Tokens -> Seq(Sent)]]
  <2>1. told \in [Groups -> [Tokens -> Seq(Sent)]]
    BY DEF TypeOK
  <2>2. \A g \in Groups : Result(g = you, v, uid, g \notin fail) \in Sent
    BY DEF Result, Sent
  <2>3. \A g \in Groups : [told[g] EXCEPT ![t] = Append(@, Result(g = you, v, uid, g \notin fail))]
                            \in [Tokens -> Seq(Sent)]
    BY <2>1, <2>2
  <2>4. Results(p, t, v, you, uid, fail) \in [Groups -> [Tokens -> Seq(Sent)]]
    BY <2>1, <2>3 DEF Results
  <2> QED
    BY <2>1, <2>4 DEF SendReply
<1>c. head \in [Tokens -> Heads \cup {NoHead}] /\ done \in [Tokens -> Seq(Int)]
  BY DEF TypeOK
<1>1. CASE v < 0 \/ h.reply
  <2>1. head' = [head EXCEPT ![t] = h] /\ pending' = p /\ done' = done
    BY <1>1 DEF SendReply
  <2>2. HeadOK(pending', head'[t], done'[t], t)
    <3>1. head'[t] = h /\ pending' = p /\ done'[t] = <<>> /\ Len(done'[t]) = 0
      BY <1>b, <1>c, <2>1
    <3>2. ~h.reply /\ h.eventcount = 0 => h.verdict < 0
      BY <1>1
    <3>3. HeadOK(p, h, <<>>, t)
      BY <1>a, <3>2, HeadFits
    <3> QED
      BY <3>1, <3>3
  <2>3. ASSUME NEW u \in Tokens \ {t} PROVE HeadOK(pending', head'[u], done'[u], u)
    <3>1. \A g \in Groups : pending'[g][u] = pending[g][u]
      BY <2>1
    <3>2. head'[u] = head[u] /\ done'[u] = done[u]
      BY <2>1, <1>c
    <3>3. HeadOK(pending, head[u], done[u], u)
      BY DEF HeadsOK
    <3> QED
      BY <3>1, <3>2, <3>3, HeadFrame
  <2> QED
    BY <2>1, <2>2, <2>3, <1>c, <1>d DEF HeadsOK
<1>2. CASE ~(v < 0 \/ h.reply) /\ oom
  <2>0. [h EXCEPT !.reply = TRUE] \in Heads
    BY DEF Heads
  <2>1. head' = [head EXCEPT ![t] = [h EXCEPT !.reply = TRUE]] /\ pending' = p /\ done' = done
    BY <1>2 DEF SendReply
  <2>2. HeadOK(pending', head'[t], done'[t], t)
    <3> DEFINE hr == [h EXCEPT !.reply = TRUE]
    <3>1. head'[t] = hr /\ pending' = p /\ done'[t] = <<>> /\ Len(done'[t]) = 0
      BY <1>b, <1>c, <2>1
    <3>2. hr.reply /\ hr.eventcount = h.eventcount
      BY DEF Heads
    <3>a. hr # NoHead
      BY <2>0, <1>a
    <3> HIDE DEF hr
    <3>3. HeadOK(p, hr, <<>>, t)
      BY <3>a, <3>2, HeadFits
    <3> QED
      BY <3>1, <3>3
  <2>3. ASSUME NEW u \in Tokens \ {t} PROVE HeadOK(pending', head'[u], done'[u], u)
    <3>1. \A g \in Groups : pending'[g][u] = pending[g][u]
      BY <2>1
    <3>2. head'[u] = head[u] /\ done'[u] = done[u]
      BY <2>1, <1>c
    <3>3. HeadOK(pending, head[u], done[u], u)
      BY DEF HeadsOK
    <3> QED
      BY <3>1, <3>2, <3>3, HeadFrame
  <2> QED
    BY <2>0, <2>1, <2>2, <2>3, <1>c, <1>d DEF HeadsOK
<1>3. CASE ~(v < 0 \/ h.reply) /\ ~oom
  <2>1. /\ head' = [head EXCEPT ![t] = NoHead]
        /\ pending' = AfterReply(p, t, fail)
        /\ done' = [done EXCEPT ![t] = Append(@, v)]
    BY <1>3 DEF SendReply, DestroyHead
  <2>2. Len(done'[t]) = 1 /\ done' \in [Tokens -> Seq(Int)]
    BY <2>1, <1>b, <1>c
  <2>3. HeadOK(pending', head'[t], done'[t], t)
    <3>1. head'[t] = NoHead /\ Len(done'[t]) <= 1
      BY <2>1, <2>2, <1>c
    <3>2. \A g \in Groups : pending'[g][t] \notin {"open", "verdict"}
      BY <2>1, AfterReplyUnlinks
    <3> QED
      BY <3>1, <3>2, Zenon DEF HeadOK
  <2>4. ASSUME NEW u \in Tokens \ {t} PROVE HeadOK(pending', head'[u], done'[u], u)
    <3>1. \A g \in Groups : pending'[g][u] = pending[g][u]
      BY <2>1, AfterReplyUnlinks
    <3>2. head'[u] = head[u] /\ done'[u] = done[u]
      BY <2>1, <1>c
    <3> QED
      BY <3>1, <3>2, HeadFrame DEF HeadsOK
  <2> QED
    BY <2>1, <2>2, <2>3, <2>4, <1>c, <1>d, AfterReplyUnlinks DEF HeadsOK
<1> QED
  BY <1>1, <1>2, <1>3

-----------------------------------------------------------------------------
(* One lemma per action                                                    *)

\* A step that leaves events, heads and callbacks alone keeps HeadsOK.
LEMMA HeadsStutter ==
    ASSUME HeadsOK, UNCHANGED <<pending, head, done>>
    PROVE  HeadsOK'
BY DEF HeadsOK, HeadOK, Open

\* Groups come and go, and registrations change, without touching a head.
LEMMA GroupSteps ==
    ASSUME IInv, NEW g \in Groups,
           \/ \E u \in Uids : Create(g, u)
           \/ \E r \in Regs : Register(g, r) \/ Unregister(g, r)
           \/ DestroyStart(g)
           \/ DestroyEnd
    PROVE  IInv'
<1> USE DEF IInv
<1>1. HeadsOK'
  BY HeadsStutter DEF Create, Register, Unregister, DestroyStart, DestroyEnd
<1>2. ASSUME NEW u \in Uids, Create(g, u) PROVE TypeOK'
  BY <1>2 DEF TypeOK, Create
<1>3. ASSUME NEW r \in Regs, Register(g, r) PROVE TypeOK'
  <2>1. <<r>> \o regs[g] \in Seq(Regs)
    BY DEF TypeOK
  <2> QED
    BY <1>3, <2>1 DEF TypeOK, Register
<1>4. ASSUME NEW r \in Regs, Unregister(g, r) PROVE TypeOK'
  <2>1. PICK i \in DOMAIN regs[g] : regs' = [regs EXCEPT ![g] =
                        SubSeq(@, 1, i-1) \o SubSeq(@, i+1, Len(@))]
    BY <1>4 DEF Unregister
  <2>2. regs[g] \in Seq(Regs) /\ i \in 1..Len(regs[g])
    BY DEF TypeOK
  <2>3. SubSeq(regs[g], 1, i-1) \in Seq(Regs)
    BY <2>2
  <2>4. SubSeq(regs[g], i+1, Len(regs[g])) \in Seq(Regs)
    BY <2>2
  <2>5. SubSeq(regs[g], 1, i-1) \o SubSeq(regs[g], i+1, Len(regs[g])) \in Seq(Regs)
    BY <2>3, <2>4
  <2> HIDE DEF IInv
  <2>6. regs' \in [Groups -> Seq(Regs)]
    BY <2>1, <2>5 DEF IInv, TypeOK
  <2> QED
    BY <1>4, <2>6 DEF IInv, TypeOK, Unregister
<1>5. CASE DestroyStart(g)
  <2>1. TypeOK'
    BY <1>5 DEF TypeOK, DestroyStart
  <2> QED
    BY <1>1, <2>1
<1>6. CASE DestroyEnd
  <2>1. TypeOK'
    BY <1>6 DEF TypeOK, DestroyEnd
  <2> QED
    BY <1>1, <2>1
<1> QED
  BY <1>1, <1>2, <1>3, <1>4, <1>5, <1>6

\* anoubis_notify with a message that needs no answer.
LEMMA InformStep ==
    ASSUME IInv, NEW m \in News, NEW fail, Inform(m, fail)
    PROVE  IInv'
<1>1. HeadsOK'
  BY HeadsStutter DEF IInv, Inform
<1>2. TypeOK'
  BY DEF IInv, TypeOK, Inform
<1> QED
  BY <1>1, <1>2 DEF IInv

\* A new head counts exactly the events that were created with it.
LEMMA AskStep ==
    ASSUME IInv, NEW t \in Tokens, NEW e \in Events, NEW fail, Ask(t, e, fail)
    PROVE  IInv'
<1> DEFINE rcpt == Recipients(t, e, fail)
           new == [verdict |-> ANOUBIS_E_IO, you |-> NoGroup, uid |-> 0,
                   reply |-> FALSE, eventcount |-> Cardinality(rcpt)]
<1>0. TypeOK /\ HeadsOK
  BY DEF IInv
<1>a. /\ head[t] = NoHead
      /\ pending' = [g \in Groups |->
            IF g \in rcpt THEN [pending[g] EXCEPT ![t] = "open"] ELSE pending[g]]
      /\ told' = [g \in Groups |-> [told[g] EXCEPT ![t] =
            IF g \in rcpt THEN <<Asked(e)>> ELSE <<>>]]
      /\ head' = IF rcpt = {} THEN head ELSE [head EXCEPT ![t] = new]
      /\ done' = [done EXCEPT ![t] = <<>>]
      /\ UNCHANGED <<gid, regs, dying, news>>
  BY DEF Ask
<1>b. rcpt \subseteq Groups
  BY DEF Recipients
<1>c. IsFiniteSet(rcpt) /\ Cardinality(rcpt) \in Nat /\ (Cardinality(rcpt) = 0 <=> rcpt = {})
  BY <1>b, FS_Subset, FS_CardinalityType, FS_EmptySet, NotifyAssumption
<1>d. new \in Heads /\ new # NoHead
  <2>1. new \in Heads
    BY <1>c DEF Heads, ANOUBIS_E_IO
  <2> QED
    BY <2>1, NotifyAssumption DEF Heads
<1> HIDE DEF rcpt
<1>1. TypeOK'
  <2>1. pending' \in [Groups -> [Tokens -> EventStates]]
    BY <1>0, <1>a DEF TypeOK, EventStates
  <2>2. head' \in [Tokens -> Heads \cup {NoHead}]
    BY <1>0, <1>a, <1>d DEF TypeOK
  <2>3. told' \in [Groups -> [Tokens -> Seq(Sent)]]
    <3>1. <<Asked(e)>> \in Seq(Sent) /\ <<>> \in Seq(Sent)
      BY NotifyAssumption DEF Asked, Sent
    <3> QED
      BY <1>0, <1>a, <3>1 DEF TypeOK
  <2>4. done' \in [Tokens -> Seq(Int)]
    BY <1>0, <1>a DEF TypeOK
  <2> QED
    BY <1>0, <1>a, <2>1, <2>2, <2>3, <2>4 DEF TypeOK
<1>2. ASSUME NEW u \in Tokens \ {t} PROVE HeadOK(pending', head'[u], done'[u], u)
  <2>1. \A g \in Groups : pending'[g][u] = pending[g][u]
    BY <1>0, <1>a DEF TypeOK
  <2>2. head'[u] = head[u] /\ done'[u] = done[u]
    BY <1>0, <1>a DEF TypeOK
  <2>3. HeadOK(pending, head[u], done[u], u)
    BY <1>0 DEF HeadsOK
  <2> QED
    BY <2>1, <2>2, <2>3, HeadFrame
<1>3. HeadOK(pending', head'[t], done'[t], t)
  <2>1. \A g \in Groups : pending[g][t] \notin {"open", "verdict"}
    BY <1>0, <1>a DEF HeadsOK, HeadOK
  <2>2. \A g \in Groups : pending'[g][t] = IF g \in rcpt THEN "open" ELSE pending[g][t]
    BY <1>0, <1>a DEF TypeOK
  <2>3. done'[t] = <<>> /\ Len(done'[t]) <= 1
    BY <1>0, <1>a DEF TypeOK
  <2>4. CASE rcpt = {}
    <3>1. head'[t] = NoHead
      BY <1>a, <2>4
    <3>2. \A g \in Groups : pending'[g][t] \notin {"open", "verdict"}
      BY <2>1, <2>2, <2>4
    <3> QED
      BY <3>1, <3>2, <2>3, Zenon DEF HeadOK
  <2>5. CASE rcpt # {}
    <3>1. head'[t] = new
      BY <1>0, <1>a, <2>5 DEF TypeOK
    <3>2. Open(pending', t) = rcpt
      BY <1>b, <2>1, <2>2 DEF Open
    <3>3. new.eventcount = Cardinality(Open(pending', t)) /\ new.eventcount # 0
      BY <1>c, <2>5, <3>2
    <3> HIDE DEF new
    <3>4. HeadOK(pending', new, <<>>, t)
      BY <1>d, <3>3, HeadFits
    <3> QED
      BY <3>1, <3>4, <2>3
  <2> QED
    BY <2>4, <2>5
<1> QED
  BY <1>1, <1>2, <1>3 DEF IInv, HeadsOK

\* Setting a head that is still awaited, in event states that only differ
\* from the current ones in token t, keeps the invariant.
LEMMA SetHead ==
    ASSUME TypeOK, HeadsOK, NEW t \in Tokens, NEW h \in Heads, NEW p \in PendingType,
           \A g \in Groups, u \in Tokens \ {t} : p[g][u] = pending[g][u],
           head[t] # NoHead,
           h.eventcount = Cardinality(Open(p, t)), h.eventcount > 0,
           pending' = p, head' = [head EXCEPT ![t] = h], UNCHANGED done
    PROVE  HeadsOK' /\ head' \in [Tokens -> Heads \cup {NoHead}]
<1>1. head' \in [Tokens -> Heads \cup {NoHead}]
  BY DEF TypeOK
<1>2. HeadOK(pending', head'[t], done'[t], t)
  <2>1. h # NoHead
    BY NotifyAssumption DEF Heads
  <2>2. h.eventcount # 0
    OBVIOUS
  <2>3. HeadOK(p, h, <<>>, t)
    BY <2>1, <2>2, HeadFits
  <2>4. done'[t] = <<>>
    BY DEF HeadsOK, HeadOK
  <2>5. head'[t] = h /\ pending' = p
    BY DEF TypeOK
  <2> QED
    BY <2>3, <2>4, <2>5
<1>3. ASSUME NEW u \in Tokens \ {t} PROVE HeadOK(pending', head'[u], done'[u], u)
  <2>1. \A g \in Groups : pending'[g][u] = pending[g][u]
    OBVIOUS
  <2>2. head'[u] = head[u] /\ done'[u] = done[u]
    BY DEF TypeOK
  <2>3. HeadOK(pending, head[u], done[u], u)
    BY DEF HeadsOK
  <2> QED
    BY <2>1, <2>2, <2>3, HeadFrame
<1> QED
  BY <1>1, <1>2, <1>3 DEF HeadsOK

\* Freeing an event that has its result changes no head.
LEMMA FreeReplied ==
    ASSUME TypeOK, HeadsOK, NEW g \in Groups, NEW t \in Tokens,
           pending[g][t] = "replied",
           pending' = [pending EXCEPT ![g][t] = "none"], UNCHANGED <<head, done>>
    PROVE  HeadsOK'
<1>1. ASSUME NEW u \in Tokens PROVE HeadOK(pending', head'[u], done'[u], u)
  <2>1. \A k \in Groups : /\ pending[k][u] = "open" <=> pending'[k][u] = "open"
                          /\ pending'[k][u] = "verdict" => pending[k][u] = "verdict"
    BY DEF TypeOK
  <2>2. HeadOK(pending, head[u], done[u], u)
    BY DEF HeadsOK
  <2> QED
    BY <2>1, <2>2, HeadFrame
<1> QED
  BY <1>1 DEF HeadsOK

\* The head of an open event counts at least that event, and fits the event
\* states without it after DropVerdict.
LEMMA DropOpen ==
    ASSUME TypeOK, HeadsOK, NEW g \in Groups, NEW t \in Tokens,
           NEW x \in EventStates \ {"open"}, pending[g][t] = "open"
    PROVE  /\ head[t] \in Heads /\ head[t] # NoHead
           /\ DropVerdict(head[t], "open") \in Heads
           /\ DropVerdict(head[t], "open") = [head[t] EXCEPT !.eventcount = @ - 1]
           /\ DropVerdict(head[t], "open").eventcount
                = Cardinality(Open([pending EXCEPT ![g][t] = x], t))
<1>1. head[t] # NoHead /\ head[t].eventcount = Cardinality(Open(pending, t))
  BY DEF HeadsOK, HeadOK
<1>2. head[t] \in Heads
  BY <1>1 DEF TypeOK
<1>3. pending \in PendingType
  BY DEF TypeOK, PendingType
<1>4. Cardinality(Open([pending EXCEPT ![g][t] = x], t)) = Cardinality(Open(pending, t)) - 1
  BY <1>3, OpenDrop
<1>5. Cardinality(Open([pending EXCEPT ![g][t] = x], t)) \in Nat
  BY OpenCount
<1>6. head[t].eventcount \in Nat /\ head[t].eventcount - 1 \in Nat
  BY <1>1, <1>2, <1>4, <1>5 DEF Heads
<1>7. [head[t] EXCEPT !.eventcount = @ - 1] \in Heads
  BY <1>2, <1>6 DEF Heads
<1>8. [head[t] EXCEPT !.eventcount = @ - 1].eventcount = head[t].eventcount - 1
  BY <1>2 DEF Heads
<1> QED
  BY <1>1, <1>2, <1>4, <1>7, <1>8 DEF DropVerdict

\* anoubis_notify_answer.
LEMMA AnswerStep ==
    ASSUME IInv, NEW g \in Groups, NEW t \in Tokens, NEW v \in Verdicts,
           NEW delegate \in BOOLEAN, NEW fail, NEW oom \in BOOLEAN,
           Answer(g, t, v, delegate, fail, oom)
    PROVE  IInv'
<1>0. TypeOK /\ HeadsOK /\ v \in Int /\ pending \in PendingType
  BY NotifyAssumption DEF IInv, TypeOK, PendingType
<1>g. gid[g] \in Int
  BY <1>0, NotifyAssumption DEF Answer, Live, TypeOK
<1>f. UNCHANGED <<gid, regs, dying, news>>
  BY DEF Answer
<1>1. CASE pending[g][t] = "replied"
  <2>1. pending' = [pending EXCEPT ![g][t] = "none"] /\ UNCHANGED <<head, told, done>>
    BY <1>1 DEF Answer
  <2>2. TypeOK'
    BY <1>0, <1>f, <2>1 DEF TypeOK, EventStates
  <2>3. HeadsOK'
    BY <1>0, <1>1, <2>1, FreeReplied
  <2> QED
    BY <2>2, <2>3 DEF IInv
<1>2. CASE pending[g][t] = "open"
  <2> DEFINE p == [pending EXCEPT ![g][t] = "verdict"]
             h == [DropVerdict(head[t], "open") EXCEPT
                      !.verdict = v, !.uid = gid[g], !.you = g]
  <2>1. IF Remember(h, delegate)
        THEN pending' = p /\ head' = [head EXCEPT ![t] = h] /\ UNCHANGED <<told, done>>
        ELSE SendReply(t, h, p, v, g, gid[g], fail, oom)
    BY <1>2 DEF Answer
  <2>2. p \in PendingType /\ \A k \in Groups, u \in Tokens \ {t} : p[k][u] = pending[k][u]
    BY <1>0 DEF PendingType, EventStates
  <2>3. /\ head[t] # NoHead
        /\ DropVerdict(head[t], "open") \in Heads
        /\ DropVerdict(head[t], "open").eventcount = Cardinality(Open(p, t))
    <3>1. "verdict" \in EventStates \ {"open"}
      BY DEF EventStates
    <3> QED
      BY <1>0, <1>2, <3>1, DropOpen
  <2>4. h \in Heads /\ h.verdict = v /\ h.eventcount = Cardinality(Open(p, t))
    BY <1>0, <1>g, <2>3 DEF Heads
  <2>5. h.eventcount \in Nat
    BY <2>4 DEF Heads
  <2> HIDE DEF h, p
  <2>6. CASE Remember(h, delegate)
    <3>1. h.eventcount > 0
      BY <2>6 DEF Remember
    <3>2. pending' = p /\ head' = [head EXCEPT ![t] = h] /\ UNCHANGED <<told, done>>
      BY <2>1, <2>6
    <3>3. HeadsOK' /\ head' \in [Tokens -> Heads \cup {NoHead}]
      BY <1>0, <2>2, <2>3, <2>4, <3>1, <3>2, SetHead
    <3>4. TypeOK'
      BY <1>0, <1>f, <2>2, <3>2, <3>3 DEF TypeOK, PendingType
    <3> QED
      BY <3>3, <3>4 DEF IInv
  <2>7. CASE ~Remember(h, delegate)
    <3>1. SendReply(t, h, p, v, g, gid[g], fail, oom)
      BY <2>1, <2>7
    <3>2. /\ v < 0 => (h.verdict < 0 \/ h.reply \/ h.eventcount # 0)
          /\ ~h.reply /\ h.eventcount = 0 => (h.verdict = v \/ h.verdict < 0)
      BY <2>4
    <3>3. /\ pending' \in PendingType
          /\ head' \in [Tokens -> Heads \cup {NoHead}]
          /\ told' \in [Groups -> [Tokens -> Seq(Sent)]]
          /\ done' \in [Tokens -> Seq(Int)]
          /\ HeadsOK'
      BY <1>0, <1>g, <2>2, <2>3, <2>4, <3>1, <3>2, SendReplyHeads
    <3>4. TypeOK'
      BY <1>0, <1>f, <3>3 DEF TypeOK, PendingType
    <3> QED
      BY <3>3, <3>4 DEF IInv
  <2> QED
    BY <2>6, <2>7
<1> QED
  BY <1>1, <1>2 DEF Answer

\* anoubis_notify_sendreply called by the owner of the head.
LEMMA AbortStep ==
    ASSUME IInv, NEW t \in Tokens, NEW fail, NEW oom \in BOOLEAN,
           Abort(t, EPERM, fail, oom)
    PROVE  IInv'
<1>0. TypeOK /\ HeadsOK /\ pending \in PendingType
  BY DEF IInv, TypeOK, PendingType
<1>1. head[t] # NoHead /\ head[t] \in Heads
  BY <1>0 DEF Abort, TypeOK
<1>2. /\ head[t].eventcount = Cardinality(Open(pending, t))
      /\ ~head[t].reply /\ head[t].eventcount = 0 => head[t].verdict < 0
  BY <1>0, <1>1 DEF HeadsOK, HeadOK
<1>3. EPERM \in Int /\ ~(EPERM < 0) /\ 0 \in Int
  BY DEF EPERM
<1>4. SendReply(t, head[t], pending, EPERM, NoGroup, 0, fail, oom)
  BY DEF Abort
<1> HIDE DEF EPERM
<1>5. /\ pending' \in PendingType
      /\ head' \in [Tokens -> Heads \cup {NoHead}]
      /\ told' \in [Groups -> [Tokens -> Seq(Sent)]]
      /\ done' \in [Tokens -> Seq(Int)]
      /\ HeadsOK'
  BY <1>0, <1>1, <1>2, <1>3, <1>4, SendReplyHeads
<1>6. TypeOK'
  BY <1>0, <1>5 DEF TypeOK, PendingType, Abort
<1> QED
  BY <1>5, <1>6 DEF IInv

\* The loop of anoubis_notify_destroy.
LEMMA DestroyEventStep ==
    ASSUME IInv, NEW t \in Tokens, NEW fail, NEW oom \in BOOLEAN,
           DestroyEvent(t, fail, oom)
    PROVE  IInv'
<1> DEFINE p == [pending EXCEPT ![dying][t] = "none"]
           h == DropVerdict(head[t], pending[dying][t])
<1>0. TypeOK /\ HeadsOK /\ pending \in PendingType /\ dying \in Groups
  BY DEF IInv, TypeOK, PendingType, DestroyEvent
<1>f. UNCHANGED <<gid, regs, dying, news>>
  BY DEF DestroyEvent
<1>a. p \in PendingType /\ \A k \in Groups, u \in Tokens \ {t} : p[k][u] = pending[k][u]
  BY <1>0 DEF PendingType, EventStates
<1>1. CASE pending[dying][t] = "replied"
  <2>1. pending' = p /\ UNCHANGED <<head, told, done>>
    BY <1>1 DEF DestroyEvent
  <2>2. TypeOK'
    BY <1>0, <1>a, <1>f, <2>1 DEF TypeOK, PendingType
  <2>3. HeadsOK'
    BY <1>0, <1>1, <2>1, FreeReplied
  <2> QED
    BY <2>2, <2>3 DEF IInv
<1>2. CASE pending[dying][t] \in {"open", "verdict"}
  <2>1. /\ head[t] # NoHead
        /\ h \in Heads
        /\ h.eventcount = Cardinality(Open(p, t))
    <3>1. CASE pending[dying][t] = "open"
      <4>1. "none" \in EventStates \ {"open"}
        BY DEF EventStates
      <4>2. h = DropVerdict(head[t], "open")
        BY <3>1
      <4> HIDE DEF h
      <4> QED
        BY <1>0, <3>1, <4>1, <4>2, DropOpen
    <3>2. CASE pending[dying][t] = "verdict"
      <4>1. head[t] # NoHead /\ head[t].eventcount = Cardinality(Open(pending, t))
        BY <1>0, <3>2 DEF HeadsOK, HeadOK
      <4>2. Open(p, t) = Open(pending, t)
        BY <1>0, <3>2 DEF Open, PendingType
      <4>3. h = head[t]
        BY <3>2 DEF DropVerdict
      <4> QED
        BY <1>0, <4>1, <4>2, <4>3 DEF TypeOK
    <3> QED
      BY <1>2, <3>1, <3>2
  <2>2. h.eventcount \in Nat /\ h.verdict \in Int /\ h.uid \in Int
    BY <2>1 DEF Heads
  <2>3. IF h.eventcount > 0
        THEN pending' = p /\ head' = [head EXCEPT ![t] = h] /\ UNCHANGED <<told, done>>
        ELSE SendReply(t, h, p, h.verdict, h.you, h.uid, fail, oom)
    BY <1>2 DEF DestroyEvent
  <2> HIDE DEF h, p
  <2>4. CASE h.eventcount > 0
    <3>1. pending' = p /\ head' = [head EXCEPT ![t] = h] /\ UNCHANGED <<told, done>>
      BY <2>3, <2>4
    <3>2. HeadsOK' /\ head' \in [Tokens -> Heads \cup {NoHead}]
      BY <1>0, <1>a, <2>1, <2>4, <3>1, SetHead
    <3>3. TypeOK'
      BY <1>0, <1>a, <1>f, <3>1, <3>2 DEF TypeOK, PendingType
    <3> QED
      BY <3>2, <3>3 DEF IInv
  <2>5. CASE ~(h.eventcount > 0)
    <3>1. SendReply(t, h, p, h.verdict, h.you, h.uid, fail, oom)
      BY <2>3, <2>5
    <3>2. /\ pending' \in PendingType
          /\ head' \in [Tokens -> Heads \cup {NoHead}]
          /\ told' \in [Groups -> [Tokens -> Seq(Sent)]]
          /\ done' \in [Tokens -> Seq(Int)]
          /\ HeadsOK'
      BY <1>0, <1>a, <2>1, <2>2, <3>1, SendReplyHeads
    <3>3. TypeOK'
      BY <1>0, <1>f, <3>2 DEF TypeOK, PendingType
    <3> QED
      BY <3>2, <3>3 DEF IInv
  <2> QED
    BY <2>4, <2>5
<1> QED
  BY <1>0, <1>1, <1>2 DEF DestroyEvent, PendingType, EventStates

-----------------------------------------------------------------------------
(* The theorems                                                            *)

\* The strengthened invariant holds in every reachable state.
THEOREM Invariance == Spec => []IInv
<1>1. Init => IInv
  <2> SUFFICES ASSUME Init PROVE IInv
    OBVIOUS
  <2>1. TypeOK
    <3>1. <<>> \in Seq(Regs) /\ <<>> \in Seq(Sent) /\ <<>> \in Seq(Int)
      OBVIOUS
    <3> QED
      BY <3>1 DEF Init, TypeOK, EventStates
  <2>2. ASSUME NEW t \in Tokens PROVE HeadOK(pending, head[t], done[t], t)
    <3>1. head[t] = NoHead /\ done[t] = <<>> /\ Len(done[t]) <= 1
      BY DEF Init
    <3>2. \A g \in Groups : pending[g][t] \notin {"open", "verdict"}
      BY DEF Init
    <3> QED
      BY <3>1, <3>2, Zenon DEF HeadOK
  <2> QED
    BY <2>1, <2>2 DEF IInv, HeadsOK
<1>2. IInv /\ [Next]_vars => IInv'
  <2> SUFFICES ASSUME IInv, [Next]_vars PROVE IInv'
    OBVIOUS
  <2>o. OutOfMemory \subseteq BOOLEAN
    BY DEF OutOfMemory
  <2>1. ASSUME NEW g \in Groups, NEW u \in Uids, Create(g, u) PROVE IInv'
    BY <2>1, GroupSteps
  <2>2. ASSUME NEW g \in Groups, NEW r \in Regs, Register(g, r) \/ Unregister(g, r)
        PROVE  IInv'
    BY <2>2, GroupSteps
  <2>3. ASSUME NEW g \in Groups, NEW t \in Tokens, NEW v \in Verdicts, NEW d \in BOOLEAN,
               NEW fail \in SendFailures, NEW oom \in OutOfMemory,
               Answer(g, t, v, d, fail, oom)
        PROVE  IInv'
    BY <2>o, <2>3, AnswerStep
  <2>4. ASSUME NEW g \in Groups, DestroyStart(g) PROVE IInv'
    BY <2>4, GroupSteps
  <2>5. ASSUME NEW t \in Tokens, NEW e \in Events, NEW fail \in SendFailures, Ask(t, e, fail)
        PROVE  IInv'
    BY <2>5, AskStep
  <2>6. ASSUME NEW t \in Tokens, NEW fail \in SendFailures, NEW oom \in OutOfMemory,
               Abort(t, EPERM, fail, oom)
        PROVE  IInv'
    BY <2>o, <2>6, AbortStep
  <2>7. ASSUME NEW t \in Tokens, NEW fail \in SendFailures, NEW oom \in OutOfMemory,
               DestroyEvent(t, fail, oom)
        PROVE  IInv'
    BY <2>o, <2>7, DestroyEventStep
  <2>8. ASSUME NEW m \in News, NEW fail \in SendFailures, Inform(m, fail) PROVE IInv'
    BY <2>8, InformStep
  <2>9. CASE DestroyEnd
    <3>1. dying \in Groups
      BY <2>9 DEF DestroyEnd, IInv, TypeOK
    <3> QED
      BY <2>9, <3>1, GroupSteps
  <2>10. CASE UNCHANGED vars
    <3>1. TypeOK'
      BY <2>10 DEF IInv, TypeOK, vars
    <3>2. HeadsOK'
      BY <2>10, HeadsStutter DEF IInv, vars
    <3> QED
      BY <3>1, <3>2 DEF IInv
  <2> QED
    BY <2>1, <2>2, <2>3, <2>4, <2>5, <2>6, <2>7, <2>8, <2>9, <2>10 DEF Next
<1> QED
  BY <1>1, <1>2, PTL DEF Spec

\* Every variable of the notification code keeps its type.
THEOREM TypeCorrect == Spec => []TypeOK
<1>1. IInv => TypeOK
  BY DEF IInv
<1> QED
  BY <1>1, Invariance, PTL

\* An event never keeps a pointer to a freed head: drop_event may always
\* follow nev->head.
THEOREM NoDanglingHead == Spec => []LinkedHeadsLive
<1>1. IInv => LinkedHeadsLive
  BY DEF IInv, HeadsOK, HeadOK, LinkedHeadsLive
<1> QED
  BY <1>1, Invariance, PTL

\* head->eventcount always equals the number of peers that owe a verdict.
THEOREM CountIsExact == Spec => []EventCountExact
<1>1. IInv => EventCountExact
  BY DEF IInv, HeadsOK, HeadOK, EventCountExact, Open
<1> QED
  BY <1>1, Invariance, PTL

\* The callback of a head runs at most once, and the head is gone after it.
THEOREM FinishedOnce == Spec => []FinishOnce
<1>1. IInv => FinishOnce
  BY DEF IInv, HeadsOK, HeadOK, FinishOnce
<1> QED
  BY <1>1, Invariance, PTL

\* Only a refused, negative verdict leaves a head that nobody can answer.
THEOREM OnlyRefusedWait == Spec => []OnlyRefusedVerdictsWait
<1>1. IInv => OnlyRefusedVerdictsWait
  BY DEF IInv, HeadsOK, HeadOK, OnlyRefusedVerdictsWait
<1> QED
  BY <1>1, Invariance, PTL

-----------------------------------------------------------------------------
(* What the peers are told                                                 *)

\* State x of a peer's event, messages w it was sent about the token and the
\* verdicts d the callback was called with; g is the peer, L are those connected.
EventOK(x, w, d, g, L) ==
    /\ Len(w) <= 2
    /\ w # <<>> => w[1].type = "ASK"
    /\ Len(w) = 2 => w[2].type # "ASK" /\ d = <<w[2].verdict>>
    /\ x \in {"open", "verdict"} => Len(w) = 1
    /\ g \in L /\ Len(w) = 1 => x \in {"open", "verdict"}

ToldOK == \A g \in Groups, t \in Tokens :
    EventOK(pending[g][t], told[g][t], done[t], g, Live \ {dying})

\* At most one peer is told that its answer was used.
IsYou(w) == Len(w) = 2 /\ w[2].type = "RESYOU"
OneYou == \A t \in Tokens : \A g, k \in Groups :
    IsYou(told[g][t]) /\ IsYou(told[k][t]) => g = k

\* A free slot has no events, and only a live group is destroyed.
SlotsOK ==
    /\ dying \in Live \cup {NoGroup}
    /\ \A g \in Groups \ Live : \A t \in Tokens : pending[g][t] = "none"

\* Every registration was allowed when it was made (anoubis_register_ok).
RegsOK == \A g \in Live : \A i \in DOMAIN regs[g] : RegisterOk(gid[g], regs[g][i])

\* The second inductive invariant; it needs the first.
JInv == ToldOK /\ OneYou /\ SlotsOK /\ RegsOK /\ EventsArePrivate

\* The callback history of a token decides what its peers may have.
LEMMA EventFrame ==
    ASSUME NEW x, NEW w, NEW d, NEW g, NEW L, NEW y, NEW M,
           EventOK(x, w, d, g, L), g \in M => g \in L,
           y \in {"open", "verdict"} => x \in {"open", "verdict"},
           g \in M /\ x \in {"open", "verdict"} => y \in {"open", "verdict"}
    PROVE  EventOK(y, w, d, g, M)
BY DEF EventOK

\* A result that is sent to a linked event is its second message.
LEMMA ResultSent ==
    ASSUME NEW S, NEW w \in Seq(S), NEW r \in S
    PROVE  Len(w) = 1 =>
           /\ Len(Append(w, r)) = 2 /\ Append(w, r)[2] = r /\ Append(w, r)[1] = w[1]
           /\ w # <<>> /\ Append(w, r) # <<>>
<1> DEFINE z == Append(w, r)
<1>1. /\ Len(z) = Len(w) + 1 /\ z[Len(w) + 1] = r
      /\ \A i \in 1..Len(w) : z[i] = w[i]
  BY AppendProperties
<1> HIDE DEF z
<1>2. Len(w) = 1 => Len(z) = 2 /\ z[2] = r /\ z[1] = w[1]
  BY <1>1
<1>3. QED
  BY <1>2 DEF z

\* Event states that differ from the current ones in token t only, link no new
\* event, and unlink none but those of the group that is destroyed.
Narrows(p, t) ==
    /\ p \in PendingType
    /\ \A g \in Groups, u \in Tokens \ {t} : p[g][u] = pending[g][u]
    /\ \A g \in Groups : p[g][t] \in {"open", "verdict"} => pending[g][t] \in {"open", "verdict"}
    /\ \A g \in Live \ {dying} :
          pending[g][t] \in {"open", "verdict"} => p[g][t] \in {"open", "verdict"}

\* What a reply from the event states p leads to.
Tells(p) ==
    /\ ToldOK' /\ OneYou'
    /\ \A g \in Groups, u \in Tokens : told'[g][u] # <<>> =>
          told[g][u] # <<>> /\ told'[g][u][1] = told[g][u][1]
    /\ \A g \in Groups, u \in Tokens : p[g][u] = "none" => pending'[g][u] = "none"

\* anoubis_notify_sendreply tells every linked peer, once, what it calls back.
LEMMA SendReplyTold ==
    ASSUME IInv, ToldOK, OneYou,
           NEW t \in Tokens, NEW h, NEW p, NEW v \in Int, NEW you,
           NEW uid \in Int, NEW fail \in SendFailures, NEW oom \in BOOLEAN,
           head[t] # NoHead, UNCHANGED <<gid, dying>>, Narrows(p, t),
           SendReply(t, h, p, v, you, uid, fail, oom)
    PROVE  Tells(p)
<1>0. p \in PendingType
  BY DEF Narrows
<1>1. /\ told \in [Groups -> [Tokens -> Seq(Sent)]] /\ done \in [Tokens -> Seq(Int)]
      /\ pending \in PendingType /\ done[t] = <<>> /\ p \in PendingType
  BY DEF IInv, TypeOK, HeadsOK, HeadOK, PendingType, Narrows
<1>2. Live' = Live /\ dying' = dying
  BY DEF Live
<1>3. \A g \in Groups, u \in Tokens :
         EventOK(pending[g][u], told[g][u], done[u], g, Live \ {dying})
  BY DEF ToldOK
<1>4. \A g \in Groups, u \in Tokens :
         EventOK(p[g][u], told[g][u], done[u], g, Live \ {dying})
  <2>1. SUFFICES ASSUME NEW g \in Groups, NEW u \in Tokens
                 PROVE  EventOK(p[g][u], told[g][u], done[u], g, Live \ {dying})
    OBVIOUS
  <2>2. /\ p[g][u] \in {"open", "verdict"} => pending[g][u] \in {"open", "verdict"}
        /\ g \in Live \ {dying} /\ pending[g][u] \in {"open", "verdict"}
              => p[g][u] \in {"open", "verdict"}
    BY <2>1 DEF Narrows
  <2>3. QED
    BY <1>3, <2>2, EventFrame
<1>5. CASE (v < 0 \/ h.reply) \/ oom
  <2>1. pending' = p /\ UNCHANGED <<told, done>>
    BY <1>5 DEF SendReply
  <2>2. QED
    BY <1>2, <1>4, <2>1 DEF ToldOK, OneYou, Tells
<1>6. CASE ~(v < 0 \/ h.reply) /\ ~oom
  <2>1. /\ pending' = AfterReply(p, t, fail)
        /\ told' = Results(p, t, v, you, uid, fail)
        /\ done' = [done EXCEPT ![t] = Append(@, v)]
    BY <1>6 DEF SendReply
  <2>2. done'[t] = <<v>> /\ \A u \in Tokens \ {t} : done'[u] = done[u]
    BY <1>1, <2>1
  <2>3. /\ \A g \in Groups : pending'[g][t] \notin {"open", "verdict"}
        /\ \A g \in Groups, u \in Tokens \ {t} : pending'[g][u] = p[g][u]
        /\ \A g \in Groups : p[g][t] = "none" => pending'[g][t] = "none"
    <3>1. \A g \in Groups : p[g][t] = "none" => AfterReply(p, t, fail)[g][t] = "none"
      BY DEF AfterReply, Peers
    <3>2. QED
      BY <1>0, <2>1, <3>1, AfterReplyUnlinks
  <2> DEFINE r(g) == Result(g = you, v, uid, g \notin fail)
  <2>4. \A g \in Groups : /\ r(g) \in Sent /\ r(g).type # "ASK" /\ r(g).verdict = v
                          /\ r(g).type = "RESYOU" => g = you
    BY DEF Result, Sent
  <2>5. /\ \A g \in Groups : g \in Peers(p, t) => told'[g][t] = Append(told[g][t], r(g))
        /\ \A g \in Groups : g \notin Peers(p, t) => told'[g][t] = told[g][t]
        /\ \A g \in Groups, u \in Tokens \ {t} : told'[g][u] = told[g][u]
    <3>1. \A g \in Groups, u \in Tokens : told'[g][u] =
             IF g \in Peers(p, t) /\ u = t THEN Append(told[g][t], r(g)) ELSE told[g][u]
      BY <1>1, <2>1 DEF Results
    <3>2. QED
      BY <3>1
  <2> HIDE DEF r
  <2>6. ASSUME NEW g \in Groups, g \in Peers(p, t)
        PROVE  /\ EventOK(pending'[g][t], told'[g][t], done'[t], g, Live \ {dying})
               /\ told[g][t] # <<>> /\ told'[g][t][1] = told[g][t][1]
               /\ IsYou(told'[g][t]) => g = you
    <3>1. p[g][t] \in {"open", "verdict"} /\ told[g][t] \in Seq(Sent)
      BY <1>1, <2>6 DEF Peers
    <3>2. EventOK(p[g][t], told[g][t], done[t], g, Live \ {dying})
      BY <1>4
    <3>3. /\ pending'[g][t] \notin {"open", "verdict"} /\ r(g) \in Sent /\ r(g).type # "ASK"
          /\ told'[g][t] = Append(told[g][t], r(g)) /\ done'[t] = <<r(g).verdict>>
      BY <2>2, <2>3, <2>4, <2>5, <2>6
    <3>4. /\ EventOK(pending'[g][t], told'[g][t], done'[t], g, Live \ {dying})
          /\ told'[g][t][2] = r(g) /\ told'[g][t][1] = told[g][t][1] /\ told[g][t] # <<>>
      <4>1. Len(told[g][t]) = 1 /\ (told[g][t] # <<>> => told[g][t][1].type = "ASK")
        BY <3>1, <3>2 DEF EventOK
      <4>2. /\ Len(told'[g][t]) = 2 /\ told'[g][t][2] = r(g) /\ told'[g][t][1] = told[g][t][1]
            /\ told[g][t] # <<>> /\ told'[g][t] # <<>>
        BY <3>1, <3>3, <4>1, ResultSent
      <4>3. QED
        BY <3>3, <4>1, <4>2 DEF EventOK
    <3>5. QED
      BY <2>4, <3>4 DEF IsYou
  <2>7. ASSUME NEW g \in Groups, g \notin Peers(p, t)
        PROVE  /\ EventOK(pending'[g][t], told'[g][t], done'[t], g, Live \ {dying})
               /\ told'[g][t] = told[g][t] /\ ~IsYou(told'[g][t])
    <3>1. told[g][t] \in Seq(Sent) /\ Len(told[g][t]) # 2 /\ Len(told[g][t]) \in Nat
      <4>1. told[g][t] \in Seq(Sent)
        BY <1>1
      <4>2. \A x : done[t] # <<x>>
        BY <1>1
      <4>3. Len(told[g][t]) # 2
        BY <1>4, <4>2 DEF EventOK
      <4>4. QED
        BY <4>1, <4>3
    <3>3. ~(g \in Live \ {dying} /\ Len(told[g][t]) = 1)
      BY <1>4, <2>7 DEF EventOK, Peers
    <3>4. told'[g][t] = told[g][t]
      BY <2>5, <2>7
    <3>5. EventOK(p[g][t], told[g][t], done[t], g, Live \ {dying})
      BY <1>4
    <3>6. EventOK(pending'[g][t], told[g][t], done'[t], g, Live \ {dying})
      BY <2>3, <3>1, <3>3, <3>5 DEF EventOK
    <3>7. QED
      BY <3>1, <3>4, <3>6 DEF IsYou
  <2>8. ToldOK'
    <3>1. SUFFICES ASSUME NEW g \in Groups, NEW u \in Tokens
                   PROVE  EventOK(pending'[g][u], told'[g][u], done'[u], g, Live \ {dying})
      BY <1>2 DEF ToldOK
    <3>2. CASE u = t
      BY <2>6, <2>7, <3>2
    <3>3. CASE u # t
      <4>1. EventOK(p[g][u], told[g][u], done[u], g, Live \ {dying})
        BY <1>4
      <4>2. pending'[g][u] = p[g][u] /\ told'[g][u] = told[g][u] /\ done'[u] = done[u]
        BY <2>2, <2>3, <2>5, <3>3
      <4>3. QED
        BY <4>1, <4>2
    <3>4. QED
      BY <3>2, <3>3
  <2>9. OneYou'
    <3>1. \A g \in Groups : IsYou(told'[g][t]) => g = you
      BY <2>6, <2>7
    <3>2. \A g \in Groups, u \in Tokens \ {t} : told'[g][u] = told[g][u]
      BY <2>5
    <3>3. QED
      BY <3>1, <3>2 DEF OneYou
  <2>10. \A g \in Groups, u \in Tokens : told'[g][u] # <<>> =>
                 told[g][u] # <<>> /\ told'[g][u][1] = told[g][u][1]
    BY <2>5, <2>6, <2>7
  <2>11. \A g \in Groups, u \in Tokens : p[g][u] = "none" => pending'[g][u] = "none"
    BY <2>3
  <2>12. QED
    BY <2>8, <2>9, <2>10, <2>11 DEF Tells
<1>7. QED
  BY <1>5, <1>6

\* A step that tells nobody anything and leaves the events linked as they are.
LEMMA ToldFrame ==
    ASSUME ToldOK, OneYou, UNCHANGED <<told, done>>,
           Live' \ {dying'} \subseteq Live \ {dying},
           \A g \in Groups, t \in Tokens :
              /\ pending'[g][t] \in {"open", "verdict"} => pending[g][t] \in {"open", "verdict"}
              /\ g \in Live' \ {dying'} /\ pending[g][t] \in {"open", "verdict"}
                    => pending'[g][t] \in {"open", "verdict"}
    PROVE  ToldOK' /\ OneYou'
<1>1. OneYou'
  BY DEF OneYou
<1>2. SUFFICES ASSUME NEW g \in Groups, NEW t \in Tokens
               PROVE  EventOK(pending'[g][t], told[g][t], done[t], g, Live' \ {dying'})
  BY <1>1 DEF ToldOK
<1>3. EventOK(pending[g][t], told[g][t], done[t], g, Live \ {dying})
  BY DEF ToldOK
<1>4. QED
  BY <1>3, EventFrame

\* anoubis_notify_create, anoubis_notify_destroy without its loop, and the
\* registrations.
LEMMA GroupStepsTold ==
    ASSUME IInv, JInv, NEW g \in Groups,
           \/ \E u \in Uids : Create(g, u)
           \/ \E r \in Regs : Register(g, r) \/ Unregister(g, r)
           \/ DestroyStart(g)
           \/ DestroyEnd
    PROVE  JInv'
<1>0. /\ gid \in [Groups -> Uids \cup {NoGroup}] /\ regs \in [Groups -> Seq(Regs)]
      /\ told \in [Groups -> [Tokens -> Seq(Sent)]] /\ news \in [Groups -> SUBSET News]
      /\ pending \in PendingType /\ NoGroup \notin Uids /\ NoGroup \notin Groups
  BY NotifyAssumption DEF IInv, TypeOK, PendingType
<1>1. ASSUME NEW u \in Uids, Create(g, u) PROVE JInv'
  <2>1. /\ gid[g] = NoGroup /\ gid' = [gid EXCEPT ![g] = u] /\ regs' = [regs EXCEPT ![g] = <<>>]
        /\ told' = [told EXCEPT ![g] = [t \in Tokens |-> <<>>]]
        /\ news' = [news EXCEPT ![g] = {}] /\ UNCHANGED <<pending, head, dying, done>>
        /\ dying = NoGroup
    BY <1>1 DEF Create
  <2>2. /\ Live' = Live \cup {g} /\ g \notin Live /\ u # NoGroup /\ gid'[g] = u
        /\ \A k \in Groups : k # g => gid'[k] = gid[k]
    BY <1>0, <2>1 DEF Live
  <2>3. /\ \A t \in Tokens : told'[g][t] = <<>>
        /\ \A k \in Groups : k # g => told'[k] = told[k] /\ news'[k] = news[k] /\ regs'[k] = regs[k]
        /\ news'[g] = {} /\ regs'[g] = <<>>
    BY <1>0, <2>1
  <2>4. \A t \in Tokens : pending[g][t] = "none"
    BY <2>2 DEF JInv, SlotsOK
  <2>5. ToldOK'
    <3>1. SUFFICES ASSUME NEW k \in Groups, NEW t \in Tokens
                   PROVE  EventOK(pending[k][t], told'[k][t], done[t], k, Live' \ {dying'})
      BY <2>1 DEF ToldOK
    <3>2. CASE k = g
      <4>1. Len(<<>>) = 0
        OBVIOUS
      <4>2. told'[k][t] = <<>> /\ pending[k][t] \notin {"open", "verdict"}
        BY <2>3, <2>4, <3>2
      <4>3. QED
        BY <4>1, <4>2 DEF EventOK
    <3>3. CASE k # g
      <4>1. EventOK(pending[k][t], told[k][t], done[t], k, Live \ {dying})
        BY DEF JInv, ToldOK
      <4>2. told'[k][t] = told[k][t] /\ (k \in Live' \ {dying'} => k \in Live \ {dying})
        BY <2>1, <2>2, <2>3, <3>3
      <4>3. QED
        BY <4>1, <4>2, EventFrame
    <3>4. QED
      BY <3>2, <3>3
  <2>6. OneYou'
    <3>1. ~IsYou(<<>>)
      BY DEF IsYou
    <3>2. QED
      BY <2>3, <3>1 DEF JInv, OneYou
  <2>7. SlotsOK' /\ RegsOK'
    BY <2>1, <2>2, <2>3 DEF JInv, SlotsOK, RegsOK
  <2>8. EventsArePrivate'
    BY <2>1, <2>2, <2>3 DEF JInv, EventsArePrivate
  <2>9. QED
    BY <2>5, <2>6, <2>7, <2>8 DEF JInv
<1>2. ASSUME UNCHANGED <<gid, pending, head, dying, told, news, done>>,
             \A k \in Live : \A i \in DOMAIN regs'[k] : RegisterOk(gid[k], regs'[k][i])
      PROVE  JInv'
  <2>1. Live' = Live
    BY <1>2 DEF Live
  <2>2. ToldOK' /\ OneYou'
    BY <1>2, <2>1, ToldFrame DEF JInv
  <2>3. SlotsOK' /\ EventsArePrivate'
    BY <1>2, <2>1 DEF JInv, SlotsOK, EventsArePrivate
  <2>4. RegsOK'
    BY <1>2, <2>1 DEF RegsOK
  <2>5. QED
    BY <2>2, <2>3, <2>4 DEF JInv
<1>3. ASSUME NEW r \in Regs, Register(g, r) PROVE JInv'
  <2>1. g \in Live /\ RegisterOk(gid[g], r) /\ regs' = [regs EXCEPT ![g] = <<r>> \o regs[g]]
        /\ UNCHANGED <<gid, pending, head, dying, told, news, done>>
    BY <1>3 DEF Register
  <2>2. regs'[g] = <<r>> \o regs[g] /\ \A k \in Groups : k # g => regs'[k] = regs[k]
    BY <1>0, <2>1
  <2>3. \A i \in DOMAIN (<<r>> \o regs[g]) :
           (<<r>> \o regs[g])[i] = r \/ \E j \in DOMAIN regs[g] : (<<r>> \o regs[g])[i] = regs[g][j]
    <3>1. regs[g] \in Seq(Regs) /\ <<r>> \in Seq(Regs) /\ Len(<<r>>) = 1 /\ <<r>>[1] = r
      BY <1>0
    <3>2. QED
      BY <3>1
  <2>4. \A k \in Live : \A i \in DOMAIN regs'[k] : RegisterOk(gid[k], regs'[k][i])
    BY <2>1, <2>2, <2>3 DEF JInv, RegsOK, Live
  <2>5. QED
    BY <1>2, <2>1, <2>4
<1>4. ASSUME NEW r \in Regs, Unregister(g, r) PROVE JInv'
  <2>1. PICK i \in DOMAIN regs[g] : regs' = [regs EXCEPT ![g] =
                        SubSeq(regs[g], 1, i-1) \o SubSeq(regs[g], i+1, Len(regs[g]))]
    BY <1>4 DEF Unregister
  <2>2. UNCHANGED <<gid, pending, head, dying, told, news, done>>
    BY <1>4 DEF Unregister
  <2> DEFINE q == SubSeq(regs[g], 1, i-1) \o SubSeq(regs[g], i+1, Len(regs[g]))
  <2>3. regs'[g] = q /\ \A k \in Groups : k # g => regs'[k] = regs[k]
    BY <1>0, <2>1
  <2>4. \A j \in DOMAIN q : \E n \in DOMAIN regs[g] : q[j] = regs[g][n]
    <3>1. regs[g] \in Seq(Regs) /\ i \in 1..Len(regs[g]) /\ Len(regs[g]) \in Nat
          /\ DOMAIN regs[g] = 1..Len(regs[g])
      BY <1>0
    <3>2. /\ SubSeq(regs[g], 1, i-1) \in Seq(Regs) /\ Len(SubSeq(regs[g], 1, i-1)) = i - 1
          /\ \A j \in 1..(i-1) : SubSeq(regs[g], 1, i-1)[j] = regs[g][j]
      BY <3>1
    <3>3. /\ SubSeq(regs[g], i+1, Len(regs[g])) \in Seq(Regs)
          /\ Len(SubSeq(regs[g], i+1, Len(regs[g]))) = Len(regs[g]) - i
          /\ \A j \in 1..(Len(regs[g]) - i) : SubSeq(regs[g], i+1, Len(regs[g]))[j] = regs[g][i + j]
      BY <3>1
    <3> DEFINE a == SubSeq(regs[g], 1, i-1)
               b == SubSeq(regs[g], i+1, Len(regs[g]))
    <3>8. q = a \o b
      OBVIOUS
    <3> HIDE DEF a, b, q
    <3>9. /\ DOMAIN (a \o b) = 1..(Len(a) + Len(b))
          /\ \A j \in 1..(Len(a) + Len(b)) : (a \o b)[j] = IF j <= Len(a) THEN a[j] ELSE b[j - Len(a)]
      <4>1. a \in Seq(Regs) /\ b \in Seq(Regs)
        BY <3>2, <3>3 DEF a, b
      <4>2. QED
        BY <4>1
    <3>4. DOMAIN q = 1..(Len(regs[g]) - 1)
      BY <3>1, <3>2, <3>3, <3>8, <3>9 DEF a, b
    <3>5. \A j \in 1..(Len(regs[g]) - 1) : q[j] = regs[g][IF j < i THEN j ELSE j + 1]
      <4>1. SUFFICES ASSUME NEW j \in 1..(Len(regs[g]) - 1)
                     PROVE  q[j] = regs[g][IF j < i THEN j ELSE j + 1]
        OBVIOUS
      <4>2. Len(a) = i - 1 /\ Len(b) = Len(regs[g]) - i
        BY <3>2, <3>3 DEF a, b
      <4>3. CASE j < i
        <5>1. j \in 1..(i-1) /\ q[j] = a[j]
          BY <3>1, <3>8, <3>9, <4>1, <4>2, <4>3
        <5>2. QED
          BY <3>2, <4>3, <5>1 DEF a
      <4>4. CASE ~(j < i)
        <5>4. /\ j - (i-1) \in 1..(Len(regs[g]) - i) /\ i + (j - (i-1)) = j + 1
              /\ ~(j <= i - 1) /\ j \in 1..((i - 1) + (Len(regs[g]) - i))
          BY <3>1, <4>1, <4>4
        <5>1. j - (i-1) \in 1..(Len(regs[g]) - i) /\ q[j] = b[j - (i-1)] /\ i + (j - (i-1)) = j + 1
          BY <3>8, <3>9, <4>2, <5>4
        <5>2. q[j] = regs[g][i + (j - (i-1))]
          BY <3>3, <5>1 DEF b
        <5>3. QED
          BY <4>4, <5>1, <5>2
      <4>5. QED
        BY <4>3, <4>4
    <3>6. \A j \in 1..(Len(regs[g]) - 1) : (IF j < i THEN j ELSE j + 1) \in 1..Len(regs[g])
      BY <3>1
    <3>7. QED
      BY <3>1, <3>4, <3>5, <3>6
  <2> HIDE DEF q
  <2>5. \A k \in Live : \A j \in DOMAIN regs'[k] : RegisterOk(gid[k], regs'[k][j])
    BY <2>3, <2>4 DEF JInv, RegsOK, Live
  <2>6. QED
    BY <1>2, <2>2, <2>5
<1>5. CASE DestroyStart(g)
  <2>1. /\ dying = NoGroup /\ g \in Live /\ dying' = g /\ regs' = [regs EXCEPT ![g] = <<>>]
        /\ UNCHANGED <<gid, pending, head, told, news, done>>
    BY <1>5 DEF DestroyStart
  <2>2. Live' = Live /\ regs'[g] = <<>> /\ \A k \in Groups : k # g => regs'[k] = regs[k]
    BY <1>0, <2>1 DEF Live
  <2>3. ToldOK' /\ OneYou'
    <3>1. Live' \ {dying'} \subseteq Live \ {dying}
      BY <1>0, <2>1, <2>2 DEF Live
    <3>2. QED
      BY <2>1, <3>1, ToldFrame DEF JInv
  <2>4. SlotsOK' /\ EventsArePrivate'
    BY <2>1, <2>2 DEF JInv, SlotsOK, EventsArePrivate
  <2>5. RegsOK'
    BY <2>1, <2>2 DEF JInv, RegsOK, Live
  <2>6. QED
    BY <2>3, <2>4, <2>5 DEF JInv
<1>6. CASE DestroyEnd
  <2>1. /\ dying # NoGroup /\ PendingOf(dying) = {} /\ gid' = [gid EXCEPT ![dying] = NoGroup]
        /\ dying' = NoGroup /\ UNCHANGED <<regs, pending, head, told, news, done>>
    BY <1>6 DEF DestroyEnd
  <2>2. dying \in Live /\ dying \in Groups /\ Live' = Live \ {dying}
    BY <1>0, <2>1 DEF JInv, SlotsOK, Live
  <2>3. ToldOK' /\ OneYou'
    BY <2>1, <2>2, ToldFrame DEF JInv
  <2>4. SlotsOK'
    BY <2>1, <2>2 DEF JInv, SlotsOK, PendingOf
  <2>5. \A k \in Live' : gid'[k] = gid[k] /\ k \in Live
    BY <1>0, <2>1, <2>2 DEF Live
  <2>6. RegsOK' /\ EventsArePrivate'
    BY <2>1, <2>5 DEF JInv, RegsOK, EventsArePrivate
  <2>7. QED
    BY <2>3, <2>4, <2>6 DEF JInv
<1>7. QED
  BY <1>1, <1>3, <1>4, <1>5, <1>6

\* A registration that was allowed covers other users' events for root only.
LEMMA AllowedRegs ==
    ASSUME JInv, NEW g \in Live, NEW e, e.subsystem # STAT, RegMatchAll(g, e)
    PROVE  gid[g] \in {ROOT, e.uid}
<1>1. PICK i \in DOMAIN regs[g] : RegMatch(regs[g][i], e)
  BY DEF RegMatchAll
<1>2. RegisterOk(gid[g], regs[g][i])
  BY DEF JInv, RegsOK
<1>3. regs[g][i].subsystem # STAT
  BY <1>1 DEF RegMatch, STAT
<1>4. QED
  BY <1>1, <1>2, <1>3 DEF RegMatch, RegisterOk

\* anoubis_notify with a message that needs no answer.
LEMMA InformStepTold ==
    ASSUME IInv, JInv, NEW m \in News, NEW fail, Inform(m, fail)
    PROVE  JInv'
<1>1. /\ UNCHANGED <<gid, regs, pending, head, dying, told, done>>
      /\ news' = [g \in Groups |->
            IF Wanted(g, m) /\ g \notin fail THEN news[g] \cup {m} ELSE news[g]]
  BY DEF Inform
<1>2. Live' = Live /\ \A g \in Live : g \in Groups
  BY <1>1 DEF Live
<1>3. ToldOK' /\ OneYou'
  BY <1>1, <1>2, ToldFrame DEF JInv
<1>4. SlotsOK' /\ RegsOK'
  BY <1>1, <1>2 DEF JInv, SlotsOK, RegsOK
<1>5. ASSUME NEW g \in Live, Wanted(g, m)
      PROVE  /\ \/ m.type \in {"NOTIFY", "LOGNOTIFY"} /\ m.subsystem # STAT
                \/ m.type = "POLICYCHANGE"
                => gid[g] \in {ROOT, m.uid}
             /\ m.type = "PGCHANGE" => gid[g] = m.uid
  <2>1. CASE m.type \in {"NOTIFY", "LOGNOTIFY"} /\ m.subsystem # STAT
    <3> DEFINE e == [uid |-> m.uid, ruleid |-> m.ruleid, subsystem |-> m.subsystem]
    <3>1. RegMatchAll(g, e)
      BY <1>5, <2>1 DEF Wanted, Key
    <3>2. e.subsystem # STAT /\ e.uid = m.uid
      BY <2>1
    <3> HIDE DEF e
    <3>3. gid[g] \in {ROOT, m.uid}
      BY <3>1, <3>2, AllowedRegs
    <3>4. QED
      BY <2>1, <3>3
  <2>2. CASE m.type \in {"POLICYCHANGE", "PGCHANGE"}
    BY <1>5, <2>2 DEF Wanted
  <2>3. QED
    BY <2>1, <2>2
<1>6. \A g \in Live : \A x \in news'[g] : x \in news[g] \/ (x = m /\ Wanted(g, m))
  BY <1>1, <1>2
<1>7. EventsArePrivate'
  BY <1>1, <1>2, <1>5, <1>6 DEF JInv, EventsArePrivate
<1>8. QED
  BY <1>3, <1>4, <1>7 DEF JInv

\* The peers that get the ASK, and only they, have its first message.
LEMMA AskStepTold ==
    ASSUME IInv, JInv, NEW t \in Tokens, NEW e \in Events, NEW fail, Ask(t, e, fail)
    PROVE  JInv'
<1> DEFINE rcpt == Recipients(t, e, fail)
<1>1. /\ head[t] = NoHead
      /\ pending' = [g \in Groups |->
            IF g \in rcpt THEN [pending[g] EXCEPT ![t] = "open"] ELSE pending[g]]
      /\ told' = [g \in Groups |-> [told[g] EXCEPT ![t] =
            IF g \in rcpt THEN <<Asked(e)>> ELSE <<>>]]
      /\ done' = [done EXCEPT ![t] = <<>>]
      /\ UNCHANGED <<gid, regs, dying, news>>
  BY DEF Ask
<1>2. /\ told \in [Groups -> [Tokens -> Seq(Sent)]] /\ done \in [Tokens -> Seq(Int)]
      /\ pending \in [Groups -> [Tokens -> EventStates]]
  BY DEF IInv, TypeOK
<1>3. \A g \in rcpt : g \in Live /\ g \in Groups /\ gid[g] \in {ROOT, e.uid}
  <2>1. SUFFICES ASSUME NEW g \in rcpt
                 PROVE  g \in Live /\ g \in Groups /\ gid[g] \in {ROOT, e.uid}
    OBVIOUS
  <2>2. g \in Groups /\ Wanted(g, AskMsg(t, e))
    BY DEF Recipients, MayAsk
  <2> DEFINE k == [uid |-> e.uid, ruleid |-> e.ruleid, subsystem |-> e.subsystem]
  <2>3. RegMatchAll(g, k) /\ g \in Live
    BY <2>2 DEF Wanted, AskMsg, Key
  <2>4. k.subsystem # STAT /\ k.uid = e.uid
    BY NotifyAssumption
  <2> HIDE DEF k
  <2>5. gid[g] \in {ROOT, e.uid}
    BY <2>3, <2>4, AllowedRegs
  <2>6. QED
    BY <2>2, <2>3, <2>5
<1> HIDE DEF rcpt
<1>4. Live' = Live
  BY <1>1 DEF Live
<1>5. /\ \A g \in Groups, u \in Tokens \ {t} :
            pending'[g][u] = pending[g][u] /\ told'[g][u] = told[g][u] /\ done'[u] = done[u]
      /\ \A g \in Groups : g \in rcpt => pending'[g][t] = "open" /\ told'[g][t] = <<Asked(e)>>
      /\ \A g \in Groups : g \notin rcpt => pending'[g][t] = pending[g][t] /\ told'[g][t] = <<>>
      /\ done'[t] = <<>>
  BY <1>1, <1>2
<1>6. \A g \in Groups : pending[g][t] \notin {"open", "verdict"}
  BY <1>1 DEF IInv, HeadsOK, HeadOK
<1>7. /\ Len(<<Asked(e)>>) = 1 /\ <<Asked(e)>> # <<>> /\ <<Asked(e)>>[1].type = "ASK"
      /\ <<Asked(e)>>[1].uid = e.uid /\ Len(<<>>) = 0
  BY DEF Asked
<1>8. ToldOK'
  <2>1. SUFFICES ASSUME NEW g \in Groups, NEW u \in Tokens
                 PROVE  EventOK(pending'[g][u], told'[g][u], done'[u], g, Live \ {dying})
    BY <1>1, <1>4 DEF ToldOK
  <2>2. CASE u # t
    <3>1. EventOK(pending[g][u], told[g][u], done[u], g, Live \ {dying})
      BY DEF JInv, ToldOK
    <3>2. pending'[g][u] = pending[g][u] /\ told'[g][u] = told[g][u] /\ done'[u] = done[u]
      BY <1>5, <2>2
    <3>3. QED
      BY <3>1, <3>2
  <2>3. CASE u = t /\ g \in rcpt
    <3>1. pending'[g][u] = "open" /\ told'[g][u] = <<Asked(e)>>
      BY <1>5, <2>3
    <3>2. QED
      BY <1>7, <3>1 DEF EventOK
  <2>4. CASE u = t /\ g \notin rcpt
    <3>1. pending'[g][u] \notin {"open", "verdict"} /\ told'[g][u] = <<>>
      BY <1>5, <1>6, <2>4
    <3>2. QED
      BY <1>7, <3>1 DEF EventOK
  <2>5. QED
    BY <2>2, <2>3, <2>4
<1>9. OneYou'
  <2>1. \A g \in Groups : ~IsYou(told'[g][t])
    BY <1>5, <1>7 DEF IsYou
  <2>2. QED
    BY <1>5, <2>1 DEF JInv, OneYou
<1>10. SlotsOK' /\ RegsOK'
  BY <1>1, <1>3, <1>4, <1>5 DEF JInv, SlotsOK, RegsOK
<1>11. EventsArePrivate'
  <2>1. ASSUME NEW g \in Live, NEW u \in Tokens, told'[g][u] # <<>>
        PROVE  gid[g] \in {ROOT, told'[g][u][1].uid}
    <3>0. g \in Groups
      BY DEF Live
    <3>1. CASE u # t
      BY <1>5, <2>1, <3>0, <3>1 DEF JInv, EventsArePrivate
    <3>2. CASE u = t
      <4>1. g \in rcpt /\ told'[g][t] = <<Asked(e)>>
        BY <1>5, <2>1, <3>0, <3>2
      <4>2. QED
        BY <1>3, <1>7, <3>2, <4>1
    <3>3. QED
      BY <3>1, <3>2
  <2>2. QED
    BY <1>1, <1>4, <2>1 DEF JInv, EventsArePrivate
<1>12. QED
  BY <1>8, <1>9, <1>10, <1>11 DEF JInv

\* A step that only touches the head of t and the events linked to it.
LEMMA ReplyFrame ==
    ASSUME IInv, JInv, UNCHANGED <<gid, regs, dying, news>>, ToldOK', OneYou',
           \A g \in Groups, u \in Tokens : told'[g][u] # <<>> =>
                 told[g][u] # <<>> /\ told'[g][u][1] = told[g][u][1],
           \A g \in Groups \ Live, u \in Tokens : pending'[g][u] = "none"
    PROVE  JInv'
<1>1. Live' = Live /\ Live \subseteq Groups
  BY DEF Live
<1>2. SlotsOK' /\ RegsOK'
  BY <1>1 DEF JInv, SlotsOK, RegsOK
<1>3. EventsArePrivate'
  BY <1>1 DEF JInv, EventsArePrivate
<1>4. QED
  BY <1>2, <1>3 DEF JInv

\* anoubis_notify_answer.
LEMMA AnswerStepTold ==
    ASSUME IInv, JInv, NEW g \in Groups, NEW t \in Tokens, NEW v \in Verdicts,
           NEW delegate \in BOOLEAN, NEW fail \in SendFailures, NEW oom \in BOOLEAN,
           Answer(g, t, v, delegate, fail, oom)
    PROVE  JInv'
<1>1. /\ g \in Live /\ UNCHANGED <<gid, regs, dying, news>> /\ v \in Int /\ gid[g] \in Int
      /\ pending \in PendingType /\ Live' = Live
  BY NotifyAssumption DEF Answer, Live, IInv, TypeOK, PendingType
<1>2. \A k \in Groups \ Live, u \in Tokens : pending[k][u] = "none"
  BY DEF JInv, SlotsOK
<1>3. ASSUME UNCHANGED <<told, done>>, NEW x \in EventStates, pending' = [pending EXCEPT ![g][t] = x],
             pending[g][t] \in {"open", "verdict"} <=> x \in {"open", "verdict"}
      PROVE  JInv'
  <2>1. /\ pending'[g][t] = x
        /\ \A k \in Groups, u \in Tokens : k # g \/ u # t => pending'[k][u] = pending[k][u]
    BY <1>1, <1>3 DEF PendingType
  <2>2. \A k \in Groups, u \in Tokens :
           pending'[k][u] \in {"open", "verdict"} <=> pending[k][u] \in {"open", "verdict"}
    BY <1>3, <2>1
  <2>3. ToldOK' /\ OneYou'
    BY <1>1, <1>3, <2>2, ToldFrame DEF JInv
  <2>4. QED
    BY <1>1, <1>2, <1>3, <2>1, <2>3, ReplyFrame
<1>4. CASE pending[g][t] = "replied"
  <2>1. pending' = [pending EXCEPT ![g][t] = "none"] /\ UNCHANGED <<told, done>> /\ "none" \in EventStates
    BY <1>4 DEF Answer, EventStates
  <2>2. QED
    BY <1>3, <1>4, <2>1
<1>5. CASE pending[g][t] = "open"
  <2> DEFINE p == [pending EXCEPT ![g][t] = "verdict"]
             h == [DropVerdict(head[t], "open") EXCEPT
                      !.verdict = v, !.uid = gid[g], !.you = g]
  <2>1. IF Remember(h, delegate)
        THEN pending' = p /\ UNCHANGED <<told, done>>
        ELSE SendReply(t, h, p, v, g, gid[g], fail, oom)
    BY <1>5 DEF Answer
  <2>2. /\ p \in PendingType /\ "verdict" \in EventStates /\ p[g][t] = "verdict"
        /\ \A k \in Groups, u \in Tokens : k # g \/ u # t => p[k][u] = pending[k][u]
    BY <1>1 DEF PendingType, EventStates
  <2>3. head[t] # NoHead
    BY <1>5 DEF IInv, HeadsOK, HeadOK
  <2> HIDE DEF h
  <2>4. CASE Remember(h, delegate)
    BY <1>3, <1>5, <2>1, <2>2, <2>4
  <2>5. CASE ~Remember(h, delegate)
    <3> HIDE DEF p
    <3>1. SendReply(t, h, p, v, g, gid[g], fail, oom)
      BY <2>1, <2>5
    <3>2. Tells(p)
      <4>1. /\ \A k \in Groups, u \in Tokens \ {t} : p[k][u] = pending[k][u]
            /\ \A k \in Groups : p[k][t] \in {"open", "verdict"} => pending[k][t] \in {"open", "verdict"}
            /\ \A k \in Groups : pending[k][t] \in {"open", "verdict"} => p[k][t] \in {"open", "verdict"}
        BY <1>5, <2>2
      <4>2. \A k \in Live \ {dying} :
               pending[k][t] \in {"open", "verdict"} => p[k][t] \in {"open", "verdict"}
        BY <4>1 DEF Live
      <4>3. Narrows(p, t) /\ ToldOK /\ OneYou /\ UNCHANGED <<gid, dying>>
        BY <1>1, <2>2, <4>1, <4>2 DEF JInv, Narrows
      <4>4. QED
        BY <1>1, <2>3, <3>1, <4>3, SendReplyTold
    <3>3. \A k \in Groups \ Live, u \in Tokens : pending'[k][u] = "none"
      BY <1>1, <1>2, <2>2, <3>2 DEF Tells
    <3>4. QED
      BY <1>1, <3>2, <3>3, ReplyFrame DEF Tells
  <2>6. QED
    BY <2>4, <2>5
<1>6. QED
  BY <1>4, <1>5 DEF Answer

\* anoubis_notify_sendreply called by the owner of the head.
LEMMA AbortStepTold ==
    ASSUME IInv, JInv, NEW t \in Tokens, NEW fail \in SendFailures, NEW oom \in BOOLEAN,
           Abort(t, EPERM, fail, oom)
    PROVE  JInv'
<1>1. /\ head[t] # NoHead /\ UNCHANGED <<gid, regs, dying, news>> /\ pending \in PendingType
      /\ SendReply(t, head[t], pending, EPERM, NoGroup, 0, fail, oom)
  BY DEF Abort, IInv, TypeOK, PendingType
<1>2. EPERM \in Int /\ 0 \in Int
  BY DEF EPERM
<1>3. Tells(pending)
  <2>1. Narrows(pending, t) /\ ToldOK /\ OneYou /\ UNCHANGED <<gid, dying>>
    BY <1>1 DEF JInv, Narrows
  <2> HIDE DEF EPERM
  <2>2. QED
    BY <1>1, <1>2, <2>1, SendReplyTold
<1>4. \A k \in Groups \ Live, u \in Tokens : pending'[k][u] = "none"
  BY <1>3 DEF JInv, SlotsOK, Tells
<1>5. QED
  BY <1>1, <1>3, <1>4, ReplyFrame DEF Tells

\* The loop of anoubis_notify_destroy: only the group that goes loses an event
\* without a result.
LEMMA DestroyEventStepTold ==
    ASSUME IInv, JInv, NEW t \in Tokens, NEW fail \in SendFailures, NEW oom \in BOOLEAN,
           DestroyEvent(t, fail, oom)
    PROVE  JInv'
<1> DEFINE p == [pending EXCEPT ![dying][t] = "none"]
           h == DropVerdict(head[t], pending[dying][t])
<1>1. /\ dying \in Groups /\ dying # NoGroup /\ UNCHANGED <<gid, regs, dying, news>>
      /\ pending \in PendingType /\ pending[dying][t] # "none"
  BY DEF DestroyEvent, IInv, TypeOK, PendingType
<1>2. Live' = Live
  BY <1>1 DEF Live
<1>3. /\ p \in PendingType /\ p[dying][t] = "none"
      /\ \A k \in Groups, u \in Tokens : k # dying \/ u # t => p[k][u] = pending[k][u]
  BY <1>1 DEF PendingType, EventStates
<1>4. \/ pending' = p /\ UNCHANGED <<told, done>>
      \/ /\ pending[dying][t] # "replied"
         /\ SendReply(t, h, p, h.verdict, h.you, h.uid, fail, oom)
  BY DEF DestroyEvent
<1> HIDE DEF p
<1>5. /\ \A k \in Groups, u \in Tokens :
            p[k][u] \in {"open", "verdict"} => pending[k][u] \in {"open", "verdict"}
      /\ \A k \in Live \ {dying}, u \in Tokens :
            pending[k][u] \in {"open", "verdict"} => p[k][u] \in {"open", "verdict"}
      /\ \A k \in Groups \ Live, u \in Tokens : p[k][u] = "none"
  BY <1>3 DEF Live, JInv, SlotsOK
<1>6. CASE pending' = p /\ UNCHANGED <<told, done>>
  <2>1. ToldOK' /\ OneYou'
    BY <1>1, <1>2, <1>5, <1>6, ToldFrame DEF JInv
  <2>2. QED
    BY <1>1, <1>5, <1>6, <2>1, ReplyFrame
<1>7. CASE pending[dying][t] # "replied" /\ SendReply(t, h, p, h.verdict, h.you, h.uid, fail, oom)
  <2>1. pending[dying][t] \in {"open", "verdict"}
    BY <1>1, <1>7 DEF PendingType, EventStates
  <2>2. head[t] # NoHead /\ head[t] \in Heads
    BY <1>1, <2>1 DEF IInv, TypeOK, HeadsOK, HeadOK
  <2>3. h.verdict \in Int /\ h.uid \in Int
    BY <2>2 DEF DropVerdict, Heads
  <2> HIDE DEF h
  <2>4. Tells(p)
    <3>1. Narrows(p, t) /\ ToldOK /\ OneYou /\ UNCHANGED <<gid, dying>>
      BY <1>1, <1>3, <1>5 DEF JInv, Narrows
    <3>2. QED
      BY <1>7, <2>2, <2>3, <3>1, SendReplyTold
  <2>5. QED
    BY <1>1, <1>5, <2>4, ReplyFrame DEF Tells
<1>8. QED
  BY <1>4, <1>6, <1>7

\* The second invariant holds in every reachable state.
THEOREM ToldInvariance == Spec => []JInv
<1>1. Init => JInv
  <2>1. SUFFICES ASSUME Init PROVE JInv
    OBVIOUS
  <2>2. Live = {}
    BY <2>1 DEF Init, Live
  <2>3. \A g \in Groups, t \in Tokens : told[g][t] = <<>> /\ pending[g][t] = "none"
    BY <2>1 DEF Init
  <2>4. Len(<<>>) = 0
    OBVIOUS
  <2>5. ToldOK /\ OneYou
    BY <2>3, <2>4 DEF ToldOK, OneYou, EventOK, IsYou
  <2>6. SlotsOK /\ RegsOK /\ EventsArePrivate
    BY <2>1, <2>2, <2>3 DEF Init, SlotsOK, RegsOK, EventsArePrivate
  <2>7. QED
    BY <2>5, <2>6 DEF JInv
<1>2. IInv /\ JInv /\ [Next]_vars => JInv'
  <2> SUFFICES ASSUME IInv, JInv, [Next]_vars PROVE JInv'
    OBVIOUS
  <2>o. OutOfMemory \subseteq BOOLEAN
    BY DEF OutOfMemory
  <2>1. ASSUME NEW g \in Groups, NEW u \in Uids, Create(g, u) PROVE JInv'
    BY <2>1, GroupStepsTold
  <2>2. ASSUME NEW g \in Groups, NEW r \in Regs, Register(g, r) \/ Unregister(g, r)
        PROVE  JInv'
    BY <2>2, GroupStepsTold
  <2>3. ASSUME NEW g \in Groups, NEW t \in Tokens, NEW v \in Verdicts, NEW d \in BOOLEAN,
               NEW fail \in SendFailures, NEW oom \in OutOfMemory,
               Answer(g, t, v, d, fail, oom)
        PROVE  JInv'
    BY <2>o, <2>3, AnswerStepTold
  <2>4. ASSUME NEW g \in Groups, DestroyStart(g) PROVE JInv'
    BY <2>4, GroupStepsTold
  <2>5. ASSUME NEW t \in Tokens, NEW e \in Events, NEW fail \in SendFailures, Ask(t, e, fail)
        PROVE  JInv'
    BY <2>5, AskStepTold
  <2>6. ASSUME NEW t \in Tokens, NEW fail \in SendFailures, NEW oom \in OutOfMemory,
               Abort(t, EPERM, fail, oom)
        PROVE  JInv'
    BY <2>o, <2>6, AbortStepTold
  <2>7. ASSUME NEW t \in Tokens, NEW fail \in SendFailures, NEW oom \in OutOfMemory,
               DestroyEvent(t, fail, oom)
        PROVE  JInv'
    BY <2>o, <2>7, DestroyEventStepTold
  <2>8. ASSUME NEW m \in News, NEW fail \in SendFailures, Inform(m, fail) PROVE JInv'
    BY <2>8, InformStepTold
  <2>9. CASE DestroyEnd
    <3>1. dying \in Groups
      BY <2>9 DEF DestroyEnd, IInv, TypeOK
    <3> QED
      BY <2>9, <3>1, GroupStepsTold
  <2>10. CASE UNCHANGED vars
    <3>1. UNCHANGED <<gid, regs, pending, head, dying, told, news, done>> /\ Live' = Live
      BY <2>10 DEF vars, Live
    <3>2. ToldOK' /\ OneYou'
      BY <3>1, ToldFrame DEF JInv
    <3>3. SlotsOK' /\ RegsOK' /\ EventsArePrivate'
      BY <3>1 DEF JInv, SlotsOK, RegsOK, EventsArePrivate
    <3> QED
      BY <3>2, <3>3 DEF JInv
  <2> QED
    BY <2>1, <2>2, <2>3, <2>4, <2>5, <2>6, <2>7, <2>8, <2>9, <2>10 DEF Next
<1> QED
  BY <1>1, <1>2, Invariance, PTL DEF Spec

\* Every peer gets at most one result per ASK, all peers get the verdict that
\* head->finish was called with, and one at most is told that it was its own
\* (anoubis_notify_sendreply), whatever answers, aborts and disconnects race.
THEOREM ResultsAlwaysAgree == Spec => []ResultsAgree
<1>1. JInv => ResultsAgree
  BY DEF JInv, ToldOK, EventOK, OneYou, IsYou, ResultsAgree
<1> QED
  BY <1>1, ToldInvariance, PTL

\* No connected peer that was asked is left out when the result is sent, once
\* the callback was called (anoubis_notify_sendreply).
THEOREM PeersAlwaysTold == Spec => []EveryPeerToldResult
<1>1. IInv /\ JInv => EveryPeerToldResult
  <2>1. SUFFICES ASSUME IInv, JInv, NEW g \in Live \ {dying},
                        NEW t \in Tokens, done[t] # <<>>, told[g][t] # <<>>
                 PROVE  Len(told[g][t]) = 2
    BY DEF EveryPeerToldResult
  <2>2. g \in Groups /\ told[g][t] \in Seq(Sent)
    BY <2>1 DEF Live, IInv, TypeOK
  <2>3. pending[g][t] \notin {"open", "verdict"}
    BY <2>1, <2>2 DEF IInv, HeadsOK, HeadOK
  <2>4. EventOK(pending[g][t], told[g][t], done[t], g, Live \ {dying})
    BY <2>1, <2>2 DEF JInv, ToldOK
  <2>5. Len(told[g][t]) # 1 /\ Len(told[g][t]) <= 2
    BY <2>1, <2>3, <2>4 DEF EventOK
  <2>6. Len(told[g][t]) \in Nat /\ Len(told[g][t]) # 0
    BY <2>1, <2>2
  <2>7. ASSUME NEW n \in Nat, n # 0, n # 1, n <= 2 PROVE n = 2
    BY <2>7
  <2>8. QED
    BY <2>1, <2>5, <2>6, <2>7
<1> QED
  BY <1>1, Invariance, ToldInvariance, PTL

\* Escalations and log messages reach their own user's sessions and root's only
\* (anoubis_register_ok with reg_match_all), playground changes their user's.
THEOREM EventsAlwaysPrivate == Spec => []EventsArePrivate
<1>1. JInv => EventsArePrivate
  BY DEF JInv
<1> QED
  BY <1>1, ToldInvariance, PTL

=============================================================================
