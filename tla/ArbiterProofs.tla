---------------------------- MODULE ArbiterProofs ---------------------------
(***************************************************************************)
(* What the kernel may rely on: the life of an escalation between the      *)
(* policy engine and the session engine, the replies that can be on their  *)
(* way to the kernel, and, from both, that every step of the daemon is a   *)
(* step of Arbiter or none.                                                *)
(***************************************************************************)
EXTENDS DaemonProofs

-----------------------------------------------------------------------------
(* The messages in a queue                                                  *)

Msgs(q) == {q[i] : i \in DOMAIN q}

LEMMA MsgsTail ==
    ASSUME NEW kinds, NEW q \in Seq(kinds), q # <<>>
    PROVE  Head(q) \in Msgs(q) /\ Msgs(q) = Msgs(Tail(q)) \cup {Head(q)}
<1>1. /\ Len(q) \in Nat /\ Len(q) >= 1 /\ DOMAIN q = 1 .. Len(q) /\ Head(q) = q[1]
      /\ DOMAIN Tail(q) = 1 .. Len(q) - 1
      /\ \A i \in 1 .. Len(q) - 1 : Tail(q)[i] = q[i + 1]
  OBVIOUS
<1>2. ASSUME NEW i \in 1 .. Len(q) PROVE q[i] \in Msgs(Tail(q)) \cup {Head(q)}
  <2>1. CASE i = 1
    BY <1>1, <2>1
  <2>2. CASE i # 1
    <3>1. i - 1 \in 1 .. Len(q) - 1 /\ (i - 1) + 1 = i
      BY <1>1, <2>2
    <3>2. Tail(q)[i - 1] = q[i]
      BY <1>1, <3>1
    <3>3. QED
      BY <1>1, <3>1, <3>2 DEF Msgs
  <2>3. QED
    BY <2>1, <2>2
<1>3. ASSUME NEW i \in 1 .. Len(q) - 1 PROVE Tail(q)[i] \in Msgs(q)
  <2>1. i + 1 \in 1 .. Len(q) /\ Tail(q)[i] = q[i + 1]
    BY <1>1
  <2>2. QED
    BY <1>1, <2>1 DEF Msgs
<1>4. Head(q) \in Msgs(q)
  <2>1. 1 \in 1 .. Len(q)
    BY <1>1
  <2>2. QED
    BY <1>1, <2>1 DEF Msgs
<1>5. Msgs(q) \subseteq Msgs(Tail(q)) \cup {Head(q)}
  BY <1>1, <1>2 DEF Msgs
<1>6. Msgs(Tail(q)) \subseteq Msgs(q)
  <2>1. \A m \in Msgs(Tail(q)) : \E i \in 1 .. Len(q) - 1 : m = Tail(q)[i]
    BY <1>1 DEF Msgs
  <2>2. QED
    BY <1>3, <2>1, Zenon
<1>7. QED
  BY <1>4, <1>5, <1>6

LEMMA MsgsConcat ==
    ASSUME NEW kinds, NEW q \in Seq(kinds), NEW p \in Seq(kinds)
    PROVE  Msgs(q \o p) = Msgs(q) \cup Msgs(p)
<1>1. /\ Len(q) \in Nat /\ Len(p) \in Nat /\ DOMAIN q = 1 .. Len(q) /\ DOMAIN p = 1 .. Len(p)
      /\ DOMAIN (q \o p) = 1 .. Len(q) + Len(p)
      /\ \A i \in 1 .. Len(q) : (q \o p)[i] = q[i]
      /\ \A i \in 1 .. Len(p) : (q \o p)[Len(q) + i] = p[i]
  OBVIOUS
<1> DEFINE c == q \o p
<1> HIDE DEF c
<1>2. ASSUME NEW i \in 1 .. Len(q) + Len(p) PROVE c[i] \in Msgs(q) \cup Msgs(p)
  <2>1. CASE i \in 1 .. Len(q)
    BY <1>1, <2>1 DEF c, Msgs
  <2>2. CASE i \notin 1 .. Len(q)
    <3>1. i - Len(q) \in 1 .. Len(p) /\ Len(q) + (i - Len(q)) = i
      BY <1>1, <2>2
    <3>2. c[i] = p[i - Len(q)]
      BY <1>1, <3>1 DEF c
    <3>3. QED
      BY <1>1, <3>1, <3>2 DEF Msgs
  <2>3. QED
    BY <2>1, <2>2
<1>3. ASSUME NEW i \in 1 .. Len(q) PROVE q[i] \in Msgs(c)
  <2>1. i \in 1 .. Len(q) + Len(p) /\ c[i] = q[i]
    BY <1>1 DEF c
  <2>2. QED
    BY <1>1, <2>1 DEF c, Msgs
<1>4. ASSUME NEW i \in 1 .. Len(p) PROVE p[i] \in Msgs(c)
  <2>1. Len(q) + i \in 1 .. Len(q) + Len(p) /\ c[Len(q) + i] = p[i]
    BY <1>1 DEF c
  <2>2. QED
    BY <1>1, <2>1 DEF c, Msgs
<1>5. Msgs(c) \subseteq Msgs(q) \cup Msgs(p)
  <2>1. DOMAIN c = 1 .. Len(q) + Len(p)
    BY <1>1 DEF c
  <2>2. \A m \in Msgs(c) : \E i \in 1 .. Len(q) + Len(p) : m = c[i]
    BY <2>1 DEF Msgs
  <2>3. QED
    BY <1>2, <2>2, Zenon
<1>6. Msgs(q) \subseteq Msgs(c) /\ Msgs(p) \subseteq Msgs(c)
  <2>1. \A m \in Msgs(q) : \E i \in 1 .. Len(q) : m = q[i]
    BY <1>1 DEF Msgs
  <2>2. \A m \in Msgs(p) : \E i \in 1 .. Len(p) : m = p[i]
    BY <1>1 DEF Msgs
  <2>3. QED
    BY <1>3, <1>4, <2>1, <2>2, Zenon
<1>7. QED
  BY <1>5, <1>6 DEF c

LEMMA MsgsOne ==
    ASSUME NEW m
    PROVE  Msgs(<<m>>) = {m} /\ Msgs(<<>>) = {}
BY DEF Msgs

LEMMA MsgsSend ==
    ASSUME NEW kinds, NEW q \in Seq(kinds), NEW m \in kinds
    PROVE  Msgs(q \o <<m>>) = Msgs(q) \cup {m}
<1>1. <<m>> \in Seq(kinds)
  OBVIOUS
<1>2. Msgs(<<m>>) = {m}
  BY MsgsOne
<1>3. Msgs(q \o <<m>>) = Msgs(q) \cup Msgs(<<m>>)
  BY <1>1, MsgsConcat
<1>4. QED
  BY <1>2, <1>3, Zenon

LEMMA MsgsAppend ==
    ASSUME NEW kinds, NEW q \in Seq(kinds), NEW m \in kinds
    PROVE  Msgs(Append(q, m)) = Msgs(q) \cup {m}
<1>1. Append(q, m) = q \o <<m>>
  OBVIOUS
<1>2. QED
  BY <1>1, MsgsSend

\* What is in a queue has its type.
LEMMA MsgsType ==
    ASSUME NEW kinds, NEW q \in Seq(kinds)
    PROVE  Msgs(q) \subseteq kinds
BY DEF Msgs

\* A queue holds a message of a kind exactly if the count is not zero.
LEMMA MsgsNum ==
    ASSUME NEW kinds, NEW q \in Seq(kinds), NEW some, NEW m \in some
    PROVE  m \in Msgs(q) => Num(q, some) >= 1 /\ Num(q, some) \in Nat
<1> SUFFICES ASSUME m \in Msgs(q) PROVE Num(q, some) >= 1 /\ Num(q, some) \in Nat
  OBVIOUS
<1>1. PICK i \in DOMAIN q : m = q[i]
  BY DEF Msgs
<1>2. IsFiniteSet(Where(q, some)) /\ i \in Where(q, some)
  BY <1>1, WhereFinite DEF Where
<1>3. Cardinality(Where(q, some)) \in Nat /\ Cardinality(Where(q, some)) # 0
  BY <1>2, FS_CardinalityType, FS_EmptySet
<1>4. QED
  BY <1>3 DEF Num

-----------------------------------------------------------------------------
(* An escalation between the two engines                                    *)

Escalated(t) == \E w \in escalated : w.token = t
AskedFor(t) == EventAsk(t) \in Msgs(p2s)
CancelSent(t) == EventCancel(t) \in Msgs(p2s)
Replied(t) == \E m \in Msgs(s2p) : m.token = t
\* The session engine has the escalation, or will get it, and may answer.
Waits(t) == AskedFor(t) \/ (head[t] # NoHead /\ ~head[t].reply)

\* On the pipe to the session engine, the only two messages about one
\* escalation are its ASK and, behind it, its cancel.
AsksOrdered(q) ==
    \A i, j \in DOMAIN q :
        /\ i < j /\ q[i].token = q[j].token
        /\ q[i].type # "LOGREQUEST" /\ q[j].type # "LOGREQUEST"
        => q[i].type = "EVENTASK" /\ q[j].type = "EVENTCANCEL"
InOrder == AsksOrdered(p2s)

\* An event is escalated by the policy engine, once; it has left the queues
\* that lead there.
Origin(t) ==
    /\ Escalated(t) =>
          /\ t \in Asking \ (ChildTokens \cup LockTokens) /\ kern[t] # "idle"
          /\ EventDev(t) \notin Msgs(evq) /\ EventDev(t) \notin Msgs(m2p)
    /\ t \in NoteTokens \cup ChildTokens => EventDev(t) \notin Msgs(m2p)

\* The ASK, the head, and the answer of an escalation follow each other, and
\* nobody waits whom the policy engine has forgotten.
LineOK(t) ==
    /\ AskedFor(t) \/ CancelSent(t) \/ Replied(t) \/ head[t] # NoHead \/ done[t] # <<>>
          => Escalated(t)
    /\ AskedFor(t) => head[t] = NoHead /\ ~Replied(t) /\ done[t] = <<>>
    /\ head[t] # NoHead => ~Replied(t)
    /\ CancelSent(t) => Due(t) = {}
    /\ Waits(t) /\ "p2s" \notin closed => Due(t) # {} \/ CancelSent(t)
    /\ t \in headq <=> head[t] # NoHead

EscalatedOK ==
    /\ replyq \subseteq escalated /\ escalated \subseteq Escalations
    /\ \A w \in escalated : \E r \in PolicyReplies : w.flags = r.flags
    /\ \A w, x \in escalated : w.token = x.token => w = x

Talk ==
    /\ EscalatedOK /\ InOrder /\ headq \subseteq Tokens
    /\ \A t \in Tokens : Origin(t)
    /\ \A t \in Tokens : LineOK(t)

LEMMA AskForms ==
    ASSUME NEW m \in AskMsgs
    PROVE  /\ m.token \in Tokens
           /\ m.type = "EVENTASK" => m = EventAsk(m.token)
           /\ m.type = "EVENTCANCEL" => m = EventCancel(m.token)
           /\ m.type = "LOGREQUEST" => m = LogRequest(m.token)
BY DEF AskMsgs, EventAsk, EventCancel, LogRequest

LEMMA MsgDistinct ==
    ASSUME NEW t, NEW u
    PROVE  /\ EventAsk(t) # EventCancel(u) /\ EventAsk(t) # LogRequest(u)
           /\ EventCancel(t) # LogRequest(u)
           /\ EventAsk(t) = EventAsk(u) => t = u
           /\ EventCancel(t) = EventCancel(u) => t = u
           /\ EventDev(t) = EventDev(u) => t = u
BY DEF EventAsk, EventCancel, LogRequest, EventDev

LEMMA MsgFields ==
    ASSUME NEW t
    PROVE  /\ EventAsk(t).type = "EVENTASK" /\ EventAsk(t).token = t
           /\ EventCancel(t).type = "EVENTCANCEL" /\ EventCancel(t).token = t
           /\ LogRequest(t).type = "LOGREQUEST" /\ LogRequest(t).token = t
           /\ EventDev(t).type = "EVENTDEV" /\ EventDev(t).token = t
BY DEF EventAsk, EventCancel, LogRequest, EventDev

\* A step that leaves the escalation of t alone.
Alike(t) ==
    /\ Escalated(t)' <=> Escalated(t)
    /\ AskedFor(t)' <=> AskedFor(t)
    /\ CancelSent(t)' <=> CancelSent(t)
    /\ Replied(t)' <=> Replied(t)
    /\ head'[t] = head[t] /\ done'[t] = done[t] /\ Due(t)' = Due(t)
    /\ t \in headq' <=> t \in headq

LEMMA LineSame ==
    ASSUME NEW t \in Tokens, LineOK(t), Alike(t), closed \subseteq closed'
    PROVE  LineOK(t)'
BY DEF LineOK, Alike, Waits

\* The pipe to the session engine when a message is read from it.
LEMMA OrderTail ==
    ASSUME TypeOK, InOrder, p2s # <<>>, p2s' = Tail(p2s)
    PROVE  /\ InOrder' /\ Msgs(p2s) = Msgs(p2s') \cup {Head(p2s)}
           /\ \A t \in Tokens :
                 /\ Head(p2s) = EventAsk(t) => EventAsk(t) \notin Msgs(p2s')
                 /\ Head(p2s) = EventCancel(t) =>
                       EventAsk(t) \notin Msgs(p2s') /\ EventCancel(t) \notin Msgs(p2s')
<1>1. p2s \in Seq(AskMsgs)
  BY DEF TypeOK, PipesOK
<1>2. /\ Len(p2s) \in Nat /\ Len(p2s) >= 1 /\ DOMAIN p2s = 1 .. Len(p2s) /\ Head(p2s) = p2s[1]
      /\ DOMAIN p2s' = 1 .. Len(p2s) - 1
      /\ \A i \in 1 .. Len(p2s) - 1 : p2s'[i] = p2s[i + 1]
  BY <1>1
<1>3. InOrder'
  <2> SUFFICES ASSUME NEW i \in DOMAIN p2s', NEW j \in DOMAIN p2s',
                      i < j, p2s'[i].token = p2s'[j].token,
                      p2s'[i].type # "LOGREQUEST", p2s'[j].type # "LOGREQUEST"
               PROVE  p2s'[i].type = "EVENTASK" /\ p2s'[j].type = "EVENTCANCEL"
    BY DEF InOrder, AsksOrdered
  <2>1. /\ i + 1 \in DOMAIN p2s /\ j + 1 \in DOMAIN p2s /\ i + 1 < j + 1
        /\ p2s'[i] = p2s[i + 1] /\ p2s'[j] = p2s[j + 1]
    BY <1>2
  <2> DEFINE k == i + 1
             l == j + 1
  <2>2. k \in DOMAIN p2s /\ l \in DOMAIN p2s /\ k < l /\ p2s'[i] = p2s[k] /\ p2s'[j] = p2s[l]
    BY <2>1
  <2> HIDE DEF k, l
  <2>3. p2s[k].type = "EVENTASK" /\ p2s[l].type = "EVENTCANCEL"
    BY <2>2 DEF InOrder, AsksOrdered
  <2>4. QED
    BY <2>2, <2>3
<1>4. Msgs(p2s) = Msgs(p2s') \cup {Head(p2s)}
  BY <1>1, MsgsTail
<1>5. ASSUME NEW m \in Msgs(p2s'), m.token = Head(p2s).token, m.type # "LOGREQUEST",
             Head(p2s).type # "LOGREQUEST"
      PROVE  m.type = "EVENTCANCEL" /\ Head(p2s).type = "EVENTASK"
  <2>1. PICK i \in 1 .. Len(p2s) - 1 : m = p2s'[i]
    BY <1>2, <1>5 DEF Msgs
  <2> DEFINE k == i + 1
  <2>2. 1 \in DOMAIN p2s /\ k \in DOMAIN p2s /\ 1 < k /\ m = p2s[k]
    BY <1>2, <2>1
  <2> HIDE DEF k
  <2>3. QED
    BY <1>2, <1>5, <2>2 DEF InOrder, AsksOrdered
<1>6. QED
  BY <1>3, <1>4, <1>5, MsgFields

\* The pipe to the session engine when a message is sent.
LEMMA OrderAppend ==
    ASSUME NEW q \in Seq(AskMsgs), NEW m \in AskMsgs, AsksOrdered(q),
           \A k \in Msgs(q) : k.token = m.token /\ k.type # "LOGREQUEST"
              => m.type = "LOGREQUEST" \/ (k.type = "EVENTASK" /\ m.type = "EVENTCANCEL")
    PROVE  AsksOrdered(q \o <<m>>)
<1> DEFINE c == q \o <<m>>
<1>1. /\ Len(q) \in Nat /\ DOMAIN q = 1 .. Len(q) /\ DOMAIN c = 1 .. Len(q) + 1
      /\ \A i \in 1 .. Len(q) : c[i] = q[i]
      /\ c[Len(q) + 1] = m
  OBVIOUS
<1> SUFFICES ASSUME NEW i \in DOMAIN c, NEW j \in DOMAIN c, i < j, c[i].token = c[j].token,
                    c[i].type # "LOGREQUEST", c[j].type # "LOGREQUEST"
             PROVE  c[i].type = "EVENTASK" /\ c[j].type = "EVENTCANCEL"
  BY DEF AsksOrdered
<1> HIDE DEF c
<1>2. i \in 1 .. Len(q) /\ c[i] = q[i] /\ q[i] \in Msgs(q)
  BY <1>1 DEF Msgs
<1>3. CASE j \in 1 .. Len(q)
  BY <1>1, <1>2, <1>3 DEF AsksOrdered
<1>4. CASE j \notin 1 .. Len(q)
  <2>1. c[j] = m
    BY <1>1, <1>4
  <2>2. QED
    BY <1>2, <2>1
<1>5. QED
  BY <1>3, <1>4

-----------------------------------------------------------------------------
(* Steps of the session engine                                              *)

\* The messages that a step leaves on the pipe from the session engine.
LEMMA RepliedAfter ==
    ASSUME TypeOK, NEW u \in Tokens
    PROVE  /\ s2p' = s2p => (Replied(u)' <=> Replied(u))
           /\ \A t \in Tokens, v \in Nat :
                 s2p' = Append(s2p, Voice(t, v)) =>
                    (Replied(u)' <=> Replied(u) \/ u = t)
           /\ \A t \in Tokens :
                 s2p' = Append(s2p, EventReply(t, 1, {})) =>
                    (Replied(u)' <=> Replied(u) \/ u = t)
<1>1. s2p \in Seq(Replies)
  BY DEF TypeOK, PipesOK
<1>2. s2p' = s2p => (Replied(u)' <=> Replied(u))
  BY DEF Replied
<1>3. ASSUME NEW t \in Tokens, NEW r \in Replies, r.token = t, s2p' = Append(s2p, r)
      PROVE  Replied(u)' <=> Replied(u) \/ u = t
  <2>2. Msgs(Append(s2p, r)) = Msgs(s2p) \cup {r}
    BY <1>1, MsgsAppend
  <2>3. Msgs(s2p') = Msgs(s2p) \cup {r}
    BY <1>3, <2>2, Zenon
  <2>4. QED
    BY <1>3, <2>3 DEF Replied
<1>4. ASSUME NEW t \in Tokens, NEW v \in Nat, s2p' = Append(s2p, Voice(t, v))
      PROVE  Replied(u)' <=> Replied(u) \/ u = t
  <2>1. Voice(t, v) \in Replies /\ Voice(t, v).token = t
    BY VoiceTypes
  <2>2. QED
    BY <1>3, <1>4, <2>1
<1>5. ASSUME NEW t \in Tokens, s2p' = Append(s2p, EventReply(t, 1, {}))
      PROVE  Replied(u)' <=> Replied(u) \/ u = t
  <2>1. EventReply(t, 1, {}) \in Replies /\ EventReply(t, 1, {}).token = t
    BY FlagTypes DEF EventReply, Replies
  <2>2. QED
    BY <1>3, <1>5, <2>1
<1>6. QED
  BY <1>2, <1>4, <1>5

\* What the calls of the notify library mean for the head of one token.
LEMMA HeadAfter ==
    ASSUME TypeOK, NEW t \in Tokens, NEW u \in Tokens
    PROVE  /\ HeadsSame => head'[u] = head[u] /\ done'[u] = done[u]
           /\ \A v : Finishes(t, v) =>
                 /\ head[t] # NoHead /\ head'[t] = NoHead /\ done'[t] = <<v>> /\ done[t] = <<>>
                 /\ u # t => head'[u] = head[u] /\ done'[u] = done[u]
           /\ Keeps(t) =>
                 /\ head[t] # NoHead /\ head'[t] # NoHead /\ done'[u] = done[u]
                 /\ head[t].reply => head'[t].reply
                 /\ u # t => head'[u] = head[u]
           /\ Starts(t) =>
                 /\ head[t] = NoHead /\ done'[t] = <<>>
                 /\ u # t => head'[u] = head[u] /\ done'[u] = done[u]
<1>1. /\ head \in [Tokens -> HeadRecs \cup {NoHead}] /\ done \in [Tokens -> Seq(Int)]
      /\ head[t] # NoHead => done[t] = <<>>
  BY DEF TypeOK, NotifyOK
<1>2. NoHead \notin HeadRecs
  BY HeadRecsType
<1>3. HeadsSame => head'[u] = head[u] /\ done'[u] = done[u]
  BY DEF HeadsSame
<1>4. ASSUME NEW v, Finishes(t, v)
      PROVE  /\ head[t] # NoHead /\ head'[t] = NoHead /\ done'[t] = <<v>> /\ done[t] = <<>>
             /\ u # t => head'[u] = head[u] /\ done'[u] = done[u]
  BY <1>1, <1>4 DEF Finishes
<1>5. ASSUME Keeps(t)
      PROVE  /\ head[t] # NoHead /\ head'[t] # NoHead /\ done'[u] = done[u]
             /\ head[t].reply => head'[t].reply
             /\ u # t => head'[u] = head[u]
  <2>1. PICK h \in HeadRecs : head' = [head EXCEPT ![t] = h] /\ (head[t].reply => h.reply)
    BY <1>5 DEF Keeps
  <2>2. head'[t] = h /\ h # NoHead /\ (u # t => head'[u] = head[u])
    BY <1>1, <1>2, <2>1
  <2>3. QED
    BY <1>5, <2>1, <2>2 DEF Keeps
<1>6. ASSUME Starts(t)
      PROVE  /\ head[t] = NoHead /\ done'[t] = <<>>
             /\ u # t => head'[u] = head[u] /\ done'[u] = done[u]
  BY <1>1, <1>6 DEF Starts
<1>7. QED
  BY <1>3, <1>4, <1>5, <1>6

\* The part of a step of the session engine that is about the head of t, when
\* the messages on the pipe to it are what they were, or t is not concerned.
LEMMA LineCalled ==
    ASSUME TypeOK, NEW t \in Tokens, Called(t), NEW u \in Tokens, LineOK(u),
           Escalated(u)' <=> Escalated(u), AskedFor(u)' <=> AskedFor(u),
           CancelSent(u)' <=> CancelSent(u), Due(u)' = Due(u), closed \subseteq closed'
    PROVE  LineOK(u)'
<1>1. CASE HeadsSame /\ UNCHANGED <<s2p, headq>>
  BY <1>1, HeadAfter, RepliedAfter, LineSame DEF Alike
<1>2. CASE Keeps(t) /\ UNCHANGED <<s2p, headq>>
  <2>1. CASE u # t
    BY <1>2, <2>1, HeadAfter, RepliedAfter, LineSame DEF Alike
  <2>2. CASE u = t
    <3>1. /\ head[u] # NoHead /\ head'[u] # NoHead /\ done'[u] = done[u]
          /\ head[u].reply => head'[u].reply
      BY <1>2, <2>2, HeadAfter
    <3>2. Replied(u)' <=> Replied(u)
      BY <1>2, RepliedAfter
    <3>3. QED
      BY <1>2, <3>1, <3>2 DEF LineOK, Waits
  <2>3. QED
    BY <2>1, <2>2
<1>3. CASE \E v \in Nat : /\ Finishes(t, v) /\ headq' = headq \ {t}
                          /\ s2p' = Append(s2p, Voice(t, v))
  <2>1. PICK v \in Nat : /\ Finishes(t, v) /\ headq' = headq \ {t}
                         /\ s2p' = Append(s2p, Voice(t, v))
    BY <1>3
  <2>r. Replied(u)' <=> Replied(u) \/ u = t
    BY <2>1, RepliedAfter
  <2>2. CASE u # t
    BY <2>1, <2>2, <2>r, HeadAfter, LineSame DEF Alike
  <2>3. CASE u = t
    <3>1. head[u] # NoHead /\ head'[u] = NoHead /\ u \notin headq'
      BY <2>1, <2>3, HeadAfter
    <3>2. Escalated(u)' /\ ~AskedFor(u)'
      BY <3>1 DEF LineOK
    <3>3. QED
      BY <2>r, <3>1, <3>2 DEF LineOK, Waits
  <2>4. QED
    BY <2>2, <2>3
<1>4. QED
  BY <1>1, <1>2, <1>3 DEF Called

LEMMA TalkSession ==
    ASSUME TypeOK, Talk, Session \/ Client \/ SessionTerm
    PROVE  Talk'
<1>1. SessionDoes
  BY SessionEffect
<1>2. UNCHANGED <<m2p, evq, kern, replyq, escalated>>
  BY DEF Session, Client, SessionTerm, NotSession, master, policy
<1>3. closed \subseteq closed'
  BY SessionCloses
<1>4. /\ EscalatedOK' /\ \A u \in Tokens : Origin(u)'
      /\ \A u \in Tokens : (Escalated(u)' <=> Escalated(u)) /\ Due(u)' = Due(u)
  BY <1>2 DEF Talk, EscalatedOK, Origin, Escalated, Due
<1>5. ASSUME p2s' = p2s, NEW t \in Tokens, Called(t)
      PROVE  Talk'
  <2>1. InOrder' /\ \A u \in Tokens : (AskedFor(u)' <=> AskedFor(u)) /\ (CancelSent(u)' <=> CancelSent(u))
    BY <1>5 DEF Talk, InOrder, AskedFor, CancelSent
  <2>2. headq' \subseteq Tokens
    BY <1>5 DEF Called, Talk
  <2>3. \A u \in Tokens : LineOK(u)'
    BY <1>3, <1>4, <1>5, <2>1, LineCalled DEF Talk
  <2>4. QED
    BY <1>4, <2>1, <2>2, <2>3 DEF Talk
<1>6. ASSUME p2s' = p2s, HeadsSame, UNCHANGED <<s2p, headq>>
      PROVE  Talk'
  <2>1. CASE \E t \in Tokens : TRUE
    BY <1>5, <1>6, <2>1 DEF Called
  <2>2. CASE ~\E t \in Tokens : TRUE
    BY <1>4, <1>6, <2>2 DEF Talk, InOrder
  <2>3. QED
    BY <2>1, <2>2
<1>7. ASSUME p2s # <<>>, p2s' = Tail(p2s), Head(p2s) \in AskMsgs
      PROVE  /\ InOrder'
             /\ \A u \in Tokens :
                   /\ AskedFor(u) <=> (AskedFor(u)' \/ Head(p2s) = EventAsk(u))
                   /\ CancelSent(u) <=> (CancelSent(u)' \/ Head(p2s) = EventCancel(u))
                   /\ Head(p2s) = EventAsk(u) => ~AskedFor(u)'
                   /\ Head(p2s) = EventCancel(u) => ~AskedFor(u)' /\ ~CancelSent(u)'
  BY <1>7, OrderTail DEF Talk, AskedFor, CancelSent
<1>8. ASSUME NEW t \in Tokens, p2s # <<>>, p2s' = Tail(p2s), Head(p2s) \in AskMsgs,
             Head(p2s) = EventAsk(t), Requested(t) \/ (HeadsSame /\ UNCHANGED <<s2p, headq>>)
      PROVE  Talk'
  <2>2. AskedFor(t) /\ ~AskedFor(t)' /\ Escalated(t)
    BY <1>7, <1>8 DEF Talk, LineOK
  <2>3. head[t] = NoHead /\ ~Replied(t) /\ done[t] = <<>> /\ t \notin headq
    BY <2>2 DEF Talk, LineOK
  <2>4. \A u \in Tokens : CancelSent(u)' <=> CancelSent(u)
    BY <1>7, <1>8, MsgDistinct
  <2>5. \A u \in Tokens \ {t} : AskedFor(u)' <=> AskedFor(u)
    BY <1>7, <1>8, MsgDistinct
  <2>6. headq' \subseteq Tokens
    BY <1>8 DEF Requested, Talk
  <2>7. ASSUME NEW u \in Tokens \ {t} PROVE LineOK(u)'
    <3>1. head'[u] = head[u] /\ done'[u] = done[u]
      BY <1>8, HeadAfter DEF Requested
    <3>2. Replied(u)' <=> Replied(u)
      BY <1>8, RepliedAfter DEF Requested
    <3>3. u \in headq' <=> u \in headq
      BY <1>8 DEF Requested
    <3>4. QED
      BY <1>3, <1>4, <2>4, <2>5, <3>1, <3>2, <3>3, LineSame DEF Alike, Talk
  <2>8. LineOK(t)'
    <3>1. LineOK(t) /\ Due(t)' = Due(t) /\ (CancelSent(t)' <=> CancelSent(t)) /\ Escalated(t)'
      BY <1>4, <2>2, <2>4 DEF Talk
    <3>2. Waits(t)
      BY <2>2 DEF Waits
    <3>3. /\ CancelSent(t)' => Due(t)' = {}
          /\ "p2s" \notin closed' => Due(t)' # {} \/ CancelSent(t)'
      BY <1>3, <3>1, <3>2 DEF LineOK
    <3>4. CASE HeadsSame /\ UNCHANGED <<s2p, headq>>
      <4>1. head'[t] = NoHead /\ done'[t] = <<>> /\ ~Replied(t)' /\ t \notin headq'
        BY <2>3, <3>4, HeadAfter, RepliedAfter
      <4>2. QED
        BY <2>2, <3>1, <3>3, <4>1 DEF LineOK, Waits
    <3>5. CASE Requested(t)
      <4>1. done'[t] = <<>>
        BY <3>5, HeadAfter DEF Requested
      <4>2. CASE head' = head /\ s2p' = Append(s2p, EventReply(t, 1, {})) /\ headq' = headq
        BY <2>2, <2>3, <3>1, <3>3, <4>1, <4>2 DEF LineOK, Waits
      <4>3. CASE head'[t] # NoHead /\ s2p' = s2p /\ headq' = headq \cup {t}
        <5>1. ~Replied(t)' /\ t \in headq'
          BY <2>3, <4>3, RepliedAfter
        <5>2. QED
          BY <2>2, <3>1, <3>3, <4>1, <4>3, <5>1 DEF LineOK, Waits
      <4>4. QED
        BY <3>5, <4>2, <4>3 DEF Requested
    <3>6. QED
      BY <1>8, <3>4, <3>5
  <2>9. InOrder'
    BY <1>7, <1>8
  <2>10. QED
    BY <1>4, <2>6, <2>7, <2>8, <2>9 DEF Talk
<1>9. ASSUME NEW t \in Tokens, p2s # <<>>, p2s' = Tail(p2s), Head(p2s) \in AskMsgs,
             Head(p2s) = EventCancel(t), Cancelled(t)
      PROVE  Talk'
  <2>2. /\ CancelSent(t) /\ ~CancelSent(t)' /\ ~AskedFor(t)' /\ ~AskedFor(t)
        /\ Escalated(t) /\ Due(t) = {}
    BY <1>7, <1>9, MsgDistinct DEF Talk, LineOK
  <2>4. \A u \in Tokens : AskedFor(u)' <=> AskedFor(u)
    BY <1>7, <1>9, MsgDistinct
  <2>5. \A u \in Tokens \ {t} : CancelSent(u)' <=> CancelSent(u)
    BY <1>7, <1>9, MsgDistinct
  <2>9. InOrder'
    BY <1>7, <1>9
  <2>3. Called(t)
    BY <1>9 DEF Cancelled, Called
  <2>6. headq' \subseteq Tokens
    BY <1>9 DEF Cancelled, Talk
  <2>7. ASSUME NEW u \in Tokens \ {t} PROVE LineOK(u)'
    BY <1>3, <1>4, <2>3, <2>4, <2>5, LineCalled DEF Talk
  <2>8. LineOK(t)'
    <3>1. LineOK(t) /\ Due(t)' = {} /\ Escalated(t)' /\ ~AskedFor(t)' /\ ~CancelSent(t)'
      BY <1>4, <2>2 DEF Talk
    <3>2. CASE t \notin headq /\ HeadsSame /\ UNCHANGED <<s2p, headq>>
      <4>1. head'[t] = NoHead /\ done'[t] = done[t] /\ t \notin headq'
        BY <3>1, <3>2, HeadAfter DEF LineOK
      <4>2. QED
        BY <3>1, <4>1 DEF LineOK, Waits
    <3>3. CASE t \in headq /\ Keeps(t) /\ head'[t].reply /\ UNCHANGED <<s2p, headq>>
      <4>1. head[t] # NoHead /\ head'[t] # NoHead /\ (Replied(t)' <=> Replied(t)) /\ t \in headq'
        BY <3>3, HeadAfter, RepliedAfter
      <4>2. QED
        BY <3>1, <3>3, <4>1 DEF LineOK, Waits
    <3>4. CASE /\ t \in headq /\ Finishes(t, 1) /\ headq' = headq \ {t}
               /\ s2p' = Append(s2p, Voice(t, 1))
      <4>1. head'[t] = NoHead /\ t \notin headq'
        BY <3>4, HeadAfter
      <4>2. QED
        BY <3>1, <4>1 DEF LineOK, Waits
    <3>5. QED
      BY <1>9, <3>2, <3>3, <3>4 DEF Cancelled
  <2>10. QED
    BY <1>4, <2>6, <2>7, <2>8, <2>9 DEF Talk
<1>10. ASSUME NEW t \in Tokens, p2s # <<>>, p2s' = Tail(p2s), Head(p2s) \in AskMsgs,
              Head(p2s) = LogRequest(t), HeadsSame, UNCHANGED <<s2p, headq>>
       PROVE  Talk'
  <2>2. \A u \in Tokens : (AskedFor(u)' <=> AskedFor(u)) /\ (CancelSent(u)' <=> CancelSent(u))
    BY <1>7, <1>10, MsgDistinct
  <2>3. InOrder'
    BY <1>7, <1>10
  <2>4. \A u \in Tokens : LineOK(u)'
    BY <1>3, <1>4, <1>10, <2>2, LineCalled DEF Talk, Called
  <2>5. QED
    BY <1>4, <1>10, <2>3, <2>4 DEF Talk
<1>11. QED
  BY <1>1, <1>5, <1>6, <1>8, <1>9, <1>10, AskForms DEF SessionDoes

-----------------------------------------------------------------------------
(* Steps of the master, the kernel and the upgrade process                  *)

LEMMA TalkElsewhere ==
    ASSUME TypeOK, Talk, UNCHANGED <<p2s, s2p, replyq, escalated, head, done, headq>>,
           closed \subseteq closed', \A u \in Tokens : Origin(u)'
    PROVE  Talk'
<1>1. EscalatedOK' /\ InOrder' /\ headq' \subseteq Tokens
  BY DEF Talk, EscalatedOK, InOrder
<1>2. ASSUME NEW u \in Tokens PROVE LineOK(u)'
  <2>1. Alike(u)
    BY DEF Alike, Escalated, AskedFor, CancelSent, Replied, Due
  <2>2. QED
    BY <2>1, LineSame DEF Talk
<1>3. QED
  BY <1>1, <1>2 DEF Talk

\* How events get from the kernel to the policy engine.
LEMMA OriginMaster ==
    ASSUME TypeOK, Talk, Master \/ Kernel \/ Stop, NEW u \in Tokens
    PROVE  Origin(u)'
<1> DEFINE d == EventDev(u)
<1>1. escalated' = escalated
  BY DEF Master, Kernel, Stop, NotMaster
<1>2. /\ evq \in Seq(EvMsgs) /\ m2p \in Seq(EvMsgs \cup Requests)
      /\ kern \in [Tokens -> {"idle", "waiting", "done", "gone"}]
  BY DEF TypeOK, PipesOK, MasterOK
<1>3. d.type = "EVENTDEV" /\ d.token = u
  BY DEF EventDev
<1> HIDE DEF d
<1> SUFFICES /\ d \in Msgs(evq') => d \in Msgs(evq) \/ kern[u] = "idle"
             /\ d \in Msgs(m2p') => d \in Msgs(m2p)
                                    \/ (d \in Msgs(evq) /\ u \notin NoteTokens \cup ChildTokens)
             /\ kern'[u] = "idle" => kern[u] = "idle"
  BY <1>1 DEF Talk, Origin, Escalated, d
<1>4. CASE M!RecvKernel
  <2> DEFINE m == Head(evq)
  <2>1. /\ evq # <<>> /\ evq' = Tail(evq) /\ m \in EvMsgs /\ kern' = kern
        /\ \/ m2p' = m2p
           \/ /\ m2p' = m2p \o <<m>>
              /\ m.type = "EVENTDEV" => m.token \notin NoteTokens \cup ChildTokens
    BY <1>4, RecvKernelEffect DEF RecvKernelDoes
  <2>2. Msgs(evq) = Msgs(evq') \cup {m}
    BY <1>2, <2>1, MsgsTail
  <2> HIDE DEF m
  <2>3. Msgs(m2p \o <<m>>) = Msgs(m2p) \cup {m}
    <3>1. m \in EvMsgs \cup Requests
      BY <2>1
    <3>2. QED
      BY <1>2, <3>1, MsgsSend
  <2>4. CASE m2p' = m2p
    BY <2>1, <2>2, <2>4
  <2>5. CASE /\ m2p' = m2p \o <<m>>
             /\ m.type = "EVENTDEV" => m.token \notin NoteTokens \cup ChildTokens
    <3>1. Msgs(m2p') = Msgs(m2p) \cup {m}
      BY <2>3, <2>5, Zenon
    <3>2. QED
      BY <1>3, <2>1, <2>2, <2>5, <3>1
  <2>6. QED
    BY <2>1, <2>4, <2>5
<1>5. CASE M!RecvUpgrade
  <2> DEFINE m == Head(u2m)
  <2>1. /\ evq' = evq /\ kern' = kern
        /\ m2p' = m2p \/ (m \in Requests /\ m2p' = m2p \o <<m>>)
    BY <1>5, RecvUpgradeEffect DEF RecvUpgradeDoes
  <2> HIDE DEF m
  <2>2. ASSUME m \in Requests PROVE Msgs(m2p \o <<m>>) = Msgs(m2p) \cup {m} /\ m # d
    <3>1. m \in EvMsgs \cup Requests
      BY <2>2
    <3>2. Msgs(m2p \o <<m>>) = Msgs(m2p) \cup {m}
      BY <1>2, <3>1, MsgsSend
    <3>3. m # d
      BY <1>3, <2>2 DEF Requests
    <3>4. QED
      BY <3>2, <3>3
  <2>3. CASE m2p' = m2p
    BY <2>1, <2>3
  <2>4. CASE m \in Requests /\ m2p' = m2p \o <<m>>
    <3>1. Msgs(m2p') = Msgs(m2p) \cup {m} /\ m # d
      BY <2>2, <2>4, Zenon
    <3>2. QED
      BY <2>1, <3>1
  <2>5. QED
    BY <2>1, <2>3, <2>4
<1>6. ASSUME NEW t \in Tokens, M!Post(t) PROVE /\ d \in Msgs(evq') => d \in Msgs(evq) \/ kern[u] = "idle"
                                               /\ m2p' = m2p /\ (kern'[u] = "idle" => kern[u] = "idle")
  <2> DEFINE m == EventDev(t)
  <2>1. /\ evq' = Append(evq, m) /\ kern[t] = "idle" /\ m2p' = m2p
    BY <1>6 DEF M!Post, M!EventDev, EventDev
  <2>2. kern'[u] = "idle" => kern[u] = "idle"
    BY <1>2, <1>6 DEF M!Post
  <2>3. m \in EvMsgs /\ (m = d => t = u)
    BY <1>3 DEF EventDev, EvMsgs
  <2> HIDE DEF m
  <2>4. Msgs(Append(evq, m)) = Msgs(evq) \cup {m}
    BY <1>2, <2>3, MsgsAppend
  <2>5. Msgs(evq') = Msgs(evq) \cup {m}
    BY <2>1, <2>4, Zenon
  <2>6. QED
    BY <2>1, <2>2, <2>3, <2>5
<1>7. ASSUME NEW t \in Tokens, M!ProcessExit(t) PROVE /\ d \in Msgs(evq') => d \in Msgs(evq)
                                                      /\ m2p' = m2p /\ (kern'[u] = "idle" => kern[u] = "idle")
  <2> DEFINE m == ProcExit(t)
  <2>1. (evq' = Append(evq, m) \/ evq' = evq) /\ m2p' = m2p
    BY <1>7 DEF M!ProcessExit, M!ProcExit, ProcExit
  <2>2. kern'[u] = "idle" => kern[u] = "idle"
    BY <1>2, <1>7 DEF M!ProcessExit
  <2>3. m \in EvMsgs /\ m # d
    BY <1>3 DEF ProcExit, EvMsgs
  <2> HIDE DEF m
  <2>4. Msgs(Append(evq, m)) = Msgs(evq) \cup {m}
    BY <1>2, <2>3, MsgsAppend
  <2>5. Msgs(evq') = Msgs(evq) \cup {m} \/ evq' = evq
    BY <2>1, <2>4, Zenon
  <2>6. QED
    BY <2>1, <2>2, <2>3, <2>5
<1>8. CASE M!WriteDev
  <2>1. /\ evq' = evq /\ m2p' = m2p /\ Head(m2dev) \in Replies
        /\ kern' = [kern EXCEPT ![Head(m2dev).token] = IF @ = "waiting" THEN "done" ELSE @]
    BY <1>8, WriteDevEffect DEF WriteDevDoes
  <2>2. kern'[u] = "idle" => kern[u] = "idle"
    BY <1>2, <2>1
  <2>3. QED
    BY <2>1, <2>2
<1>9. CASE \/ M!EndOfEvents \/ M!RecvPolicy \/ M!Exit \/ M!Sigterm
           \/ \E pipe \in {"m2p", "m2s", "m2u"} : M!Shut(pipe)
  BY <1>9 DEF M!EndOfEvents, M!RecvPolicy, M!Exit, M!Sigterm, M!Shut, M!kernel
<1>10. QED
  BY <1>4, <1>5, <1>6, <1>7, <1>8, <1>9
     DEF Master, Kernel, Stop, M!Handle, M!Environment

LEMMA TalkMaster ==
    ASSUME TypeOK, Talk, Master \/ Kernel \/ Stop
    PROVE  Talk'
<1>1. UNCHANGED <<p2s, s2p, replyq, escalated, head, done, headq>>
  BY DEF Master, Kernel, Stop, NotMaster, policy, session
<1>2. closed \subseteq closed'
  BY DEF Master, Kernel, Stop, M!Handle, M!Environment, M!RecvKernel, M!EndOfEvents,
         M!RecvPolicy, M!WriteDev, M!RecvUpgrade, M!Shut, M!Exit, M!Post, M!ProcessExit,
         M!Sigterm
<1>3. QED
  BY <1>1, <1>2, OriginMaster, TalkElsewhere

LEMMA TalkUpgrade ==
    ASSUME TypeOK, Talk, Upgrade
    PROVE  Talk'
<1>1. UNCHANGED <<p2s, s2p, replyq, escalated, head, done, headq, evq, m2p, kern>>
  BY DEF Upgrade, NotUpgrade, policy, session, master
<1>2. closed \subseteq closed'
  BY DEF Upgrade, U!Next, U!RecvMaster, U!Exit
<1>3. \A u \in Tokens : Origin(u)'
  BY <1>1 DEF Talk, Origin, Escalated
<1>4. QED
  BY <1>1, <1>2, <1>3, TalkElsewhere

-----------------------------------------------------------------------------
(* Steps of the policy engine                                               *)

\* An event whose escalation is open has left the queues that lead to the
\* policy engine: it would have two owners.
LeftQueues(t) ==
    kern[t] # "idle" /\ EventDev(t) \notin Msgs(evq) /\ EventDev(t) \notin Msgs(m2p)
OwnersLeft == \A t \in Asking : Due(t) # {} => LeftQueues(t)

LEMMA OwnerLeft == TypeOK /\ OwnerOK => OwnersLeft
<1> SUFFICES ASSUME TypeOK, OwnerOK, NEW t \in Asking, Due(t) # {} PROVE LeftQueues(t)
  BY DEF OwnersLeft
<1>1. t \in Tokens /\ PartsOK
  BY Parts DEF Asking
<1>2. /\ Num(evq, Dev(t)) \in Nat /\ Num(m2p, Dev(t)) \in Nat /\ Cardinality(Due(t)) \in Nat
      /\ Num(p2mHold, Rep(t)) \in Nat /\ Num(p2m, Rep(t)) \in Nat
      /\ Num(m2dev, Rep(t)) \in Nat /\ Answers(t) \in Nat
  BY <1>1 DEF PartsOK
<1>3. Cardinality(Due(t)) # 0
  <2>1. IsFiniteSet(Due(t))
    BY FS_Subset DEF TypeOK, EngineOK, Due
  <2>2. QED
    BY <2>1, FS_EmptySet
<1>4. Undecided(t) + Decided(t) = IF kern[t] = "idle" THEN 0 ELSE 1
  BY DEF OwnerOK
<1>5. kern[t] # "idle" /\ Num(evq, Dev(t)) = 0 /\ Num(m2p, Dev(t)) = 0
  BY <1>2, <1>3, <1>4 DEF Undecided, Decided
<1>6. EventDev(t) \in Dev(t)
  BY <1>1 DEF EventDev, Dev, EvMsgs
<1>7. evq \in Seq(EvMsgs) /\ m2p \in Seq(EvMsgs \cup Requests)
  BY DEF TypeOK, PipesOK, MasterOK
<1>8. EventDev(t) \notin Msgs(evq)
  <2>1. EventDev(t) \in Msgs(evq) => Num(evq, Dev(t)) >= 1
    BY <1>6, <1>7, MsgsNum
  <2>2. QED
    BY <1>5, <2>1
<1>9. EventDev(t) \notin Msgs(m2p)
  <2>1. EventDev(t) \in Msgs(m2p) => Num(m2p, Dev(t)) >= 1
    BY <1>6, <1>7, MsgsNum
  <2>2. QED
    BY <1>5, <2>1
<1>10. QED
  BY <1>5, <1>8, <1>9 DEF LeftQueues

\* A step that escalates nothing, and answers no escalation.
LEMMA TalkQuiet ==
    ASSUME TypeOK, Talk, UNCHANGED <<evq, kern, head, done, headq, p2s, s2p, replyq>>,
           closed \subseteq closed', escalated' = escalated \cup replyq',
           Msgs(m2p') \subseteq Msgs(m2p)
    PROVE  Talk'
<1>1. escalated' = escalated
  BY DEF Talk, EscalatedOK
<1>2. \A u \in Tokens : Origin(u)'
  BY <1>1 DEF Talk, Origin, Escalated
<1>3. QED
  BY <1>1, <1>2, TalkElsewhere

\* A log message is sent to the session engine, or nothing is.
LEMMA LogSent ==
    ASSUME TypeOK, Talk, NEW t \in Tokens, NEW q,
           q = IF "p2s" \notin closed THEN p2s \o P!Log(t) ELSE p2s
    PROVE  /\ q \in Seq(AskMsgs) /\ AsksOrdered(q)
           /\ Msgs(p2s) \subseteq Msgs(q) /\ Msgs(q) \subseteq Msgs(p2s) \cup {LogRequest(t)}
<1>1. p2s \in Seq(AskMsgs) /\ AsksOrdered(p2s)
  BY DEF TypeOK, PipesOK, Talk, InOrder
<1> DEFINE m == LogRequest(t)
<1>2. m \in AskMsgs /\ m.type = "LOGREQUEST"
  BY DEF LogRequest, AskMsgs
<1>3. P!Log(t) = <<m>> \/ P!Log(t) = <<>>
  BY DEF P!Log, P!LogRequest, LogRequest
<1> HIDE DEF m
<1>4. q = p2s \/ q = p2s \o <<m>>
  <2>1. p2s \o <<>> = p2s
    BY <1>1
  <2>2. q = p2s \/ q = p2s \o P!Log(t)
    OBVIOUS
  <2>3. QED
    BY <1>3, <2>1, <2>2, Zenon
<1>5. CASE q = p2s
  BY <1>1, <1>5
<1>6. CASE q = p2s \o <<m>>
  <2>1. p2s \o <<m>> \in Seq(AskMsgs)
    BY <1>1, <1>2, SeqTypes
  <2>2. Msgs(p2s \o <<m>>) = Msgs(p2s) \cup {m}
    BY <1>1, <1>2, MsgsSend
  <2>3. AsksOrdered(p2s \o <<m>>)
    BY <1>1, <1>2, OrderAppend
  <2>4. /\ q \in Seq(AskMsgs) /\ AsksOrdered(q) /\ Msgs(q) = Msgs(p2s) \cup {m}
    BY <1>6, <2>1, <2>2, <2>3, Zenon
  <2>5. QED
    BY <2>4 DEF m
<1>7. QED
  BY <1>4, <1>5, <1>6

\* The rules decide, or the event is about the upgrade lock.
LEMMA TalkAnswer ==
    ASSUME TypeOK, Talk, NEW t \in Tokens,
           p2s' = p2s \/ P!ToSession(P!Log(t)),
           UNCHANGED <<evq, kern, head, done, headq, s2p, replyq, closed>>,
           escalated' = escalated \cup replyq', Msgs(m2p') \subseteq Msgs(m2p)
    PROVE  Talk'
<1>1. CASE p2s' = p2s
  BY <1>1, TalkQuiet
<1>2. CASE P!ToSession(P!Log(t))
  <2>1. p2s' = IF "p2s" \notin closed THEN p2s \o P!Log(t) ELSE p2s
    BY <1>2 DEF P!ToSession, P!Send
  <2>2. /\ InOrder' /\ Msgs(p2s) \subseteq Msgs(p2s')
        /\ Msgs(p2s') \subseteq Msgs(p2s) \cup {LogRequest(t)}
    BY <2>1, LogSent DEF InOrder
  <2>3. escalated' = escalated
    BY DEF Talk, EscalatedOK
  <2>4. ASSUME NEW u \in Tokens PROVE LineOK(u)'
    <3>1. (AskedFor(u)' <=> AskedFor(u)) /\ (CancelSent(u)' <=> CancelSent(u))
      BY <2>2, MsgDistinct DEF AskedFor, CancelSent
    <3>2. Alike(u)
      BY <2>3, <3>1 DEF Alike, Escalated, Replied, Due
    <3>3. QED
      BY <3>2, LineSame DEF Talk
  <2>5. EscalatedOK' /\ headq' \subseteq Tokens /\ \A u \in Tokens : Origin(u)'
    BY <2>3 DEF Talk, EscalatedOK, Origin, Escalated
  <2>6. QED
    BY <2>2, <2>4, <2>5 DEF Talk
<1>3. QED
  BY <1>1, <1>2

\* The rules ask: the escalation begins.
LEMMA TalkAsk ==
    ASSUME TypeOK, Talk, OwnersLeft', NEW t \in Tokens, NEW r \in PolicyReplies, P!Ask(t, r),
           EventDev(t) \in Msgs(m2p), t \notin LockTokens,
           UNCHANGED <<evq, kern, head, done, headq, s2p, closed>>,
           escalated' = escalated \cup replyq', Msgs(m2p') \subseteq Msgs(m2p)
    PROVE  Talk'
<1> DEFINE w == [token |-> t, flags |-> r.flags]
<1>1. w \in Escalations /\ w.token = t /\ w.flags = r.flags /\ replyq' = replyq \cup {w}
  BY DaemonAssumption DEF Escalations, P!Ask
<1>2. ~Escalated(t) /\ t \in Asking \ (ChildTokens \cup LockTokens)
  BY DEF Talk, Origin, Asking
<1>3. escalated' = escalated \cup {w} /\ replyq \subseteq escalated
  BY <1>1 DEF Talk, EscalatedOK
<1> HIDE DEF w
<1>4. EscalatedOK'
  BY <1>1, <1>2, <1>3 DEF Talk, EscalatedOK, Escalated
<1>5. /\ ~AskedFor(t) /\ ~CancelSent(t) /\ ~Replied(t) /\ head[t] = NoHead /\ done[t] = <<>>
      /\ t \notin headq
  BY <1>2 DEF Talk, LineOK
<1> DEFINE q == IF "p2s" \notin closed THEN p2s \o P!Log(t) ELSE p2s
           a == EventAsk(t)
<1>6. /\ q \in Seq(AskMsgs) /\ AsksOrdered(q)
      /\ Msgs(p2s) \subseteq Msgs(q) /\ Msgs(q) \subseteq Msgs(p2s) \cup {LogRequest(t)}
  BY LogSent
<1>7. a \in AskMsgs /\ a.type = "EVENTASK" /\ a.token = t
  BY DEF EventAsk, AskMsgs
<1>8. p2s' = q \/ p2s' = q \o <<a>>
  <2>1. p2s' = IF "p2s" \notin closed THEN p2s \o (P!Log(t) \o <<a>>) ELSE p2s
    BY DEF P!Ask, P!ToSession, P!Send, P!EventAsk, EventAsk
  <2>2. p2s \o (P!Log(t) \o <<a>>) = (p2s \o P!Log(t)) \o <<a>>
    <3>1. p2s \in Seq(AskMsgs)
      BY DEF TypeOK, PipesOK
    <3>2. P!Log(t) = <<P!LogRequest(t)>> \/ P!Log(t) = <<>>
      BY DEF P!Log
    <3>3. P!LogRequest(t) \in AskMsgs
      BY DEF P!LogRequest, AskMsgs
    <3> DEFINE l == P!LogRequest(t)
    <3> HIDE DEF l, a
    <3>4. l \in AskMsgs /\ a \in AskMsgs
      BY <1>7, <3>3 DEF l
    <3>5. p2s \o (<<l>> \o <<a>>) = (p2s \o <<l>>) \o <<a>>
      BY <3>1, <3>4
    <3>6. p2s \o (<<>> \o <<a>>) = (p2s \o <<>>) \o <<a>>
      BY <3>1, <3>4
    <3>7. QED
      BY <3>2, <3>5, <3>6, Zenon DEF l
  <2>3. QED
    BY <2>1, <2>2, Zenon
<1> HIDE DEF q, a
<1>9. \A k \in Msgs(q) : k.token = t => k.type = "LOGREQUEST"
  <2> SUFFICES ASSUME NEW k \in Msgs(q), k.token = t, k.type # "LOGREQUEST" PROVE FALSE
    OBVIOUS
  <2>1. k \in AskMsgs
    BY <1>6, MsgsType
  <2>2. k = EventAsk(t) \/ k = EventCancel(t)
    BY <2>1, AskForms DEF AskMsgs
  <2>3. k # LogRequest(t)
    BY MsgFields
  <2>4. QED
    BY <1>5, <1>6, <2>2, <2>3 DEF AskedFor, CancelSent
<1>10. /\ InOrder' /\ Msgs(p2s) \subseteq Msgs(p2s')
       /\ Msgs(p2s') \subseteq Msgs(p2s) \cup {LogRequest(t), a}
  <2>1. CASE p2s' = q
    <3>1. AsksOrdered(p2s') /\ Msgs(p2s') = Msgs(q)
      BY <1>6, <2>1
    <3>2. QED
      BY <1>6, <3>1 DEF InOrder
  <2>2. CASE p2s' = q \o <<a>>
    <3>1. AsksOrdered(q \o <<a>>)
      BY <1>6, <1>7, <1>9, OrderAppend
    <3>2. Msgs(q \o <<a>>) = Msgs(q) \cup {a}
      BY <1>6, <1>7, MsgsSend
    <3>3. AsksOrdered(p2s') /\ Msgs(p2s') = Msgs(q) \cup {a}
      BY <2>2, <3>1, <3>2, Zenon
    <3>4. QED
      BY <1>6, <3>3 DEF InOrder
  <2>3. QED
    BY <1>8, <2>1, <2>2
<1>11. Due(t)' # {}
  BY <1>1 DEF Due
<1>12. ASSUME NEW u \in Tokens PROVE Origin(u)'
  <2>1. CASE u = t
    <3>1. LeftQueues(t)'
      BY <1>2, <1>11 DEF OwnersLeft
    <3>2. QED
      BY <1>2, <2>1, <3>1 DEF Origin, LeftQueues, Talk
  <2>2. CASE u # t
    <3>1. Escalated(u)' <=> Escalated(u)
      BY <1>1, <1>3, <2>2 DEF Escalated
    <3>2. QED
      BY <3>1 DEF Talk, Origin
  <2>3. QED
    BY <2>1, <2>2
<1>13. ASSUME NEW u \in Tokens PROVE LineOK(u)'
  <2>1. CASE u = t
    <3>1. Escalated(t)'
      BY <1>1, <1>3 DEF Escalated
    <3>2. ~CancelSent(t)'
      BY <1>5, <1>10, MsgDistinct DEF CancelSent, a
    <3>3. ~Replied(t)'
      BY <1>5 DEF Replied
    <3>4. QED
      BY <1>5, <1>11, <2>1, <3>1, <3>2, <3>3 DEF LineOK, Waits
  <2>2. CASE u # t
    <3>1. Escalated(u)' <=> Escalated(u)
      BY <1>1, <1>3, <2>2 DEF Escalated
    <3>2. Due(u)' = Due(u)
      BY <1>1, <2>2 DEF Due
    <3>3. (AskedFor(u)' <=> AskedFor(u)) /\ (CancelSent(u)' <=> CancelSent(u))
      BY <1>10, <2>2, MsgDistinct DEF AskedFor, CancelSent, a
    <3>4. Alike(u)
      BY <3>1, <3>2, <3>3 DEF Alike, Replied
    <3>5. QED
      BY <3>4, LineSame DEF Talk
  <2>3. QED
    BY <2>1, <2>2
<1>14. QED
  BY <1>4, <1>10, <1>12, <1>13 DEF Talk

\* An answer arrives: its escalation ends, if it is still open.
LEMMA TalkReply ==
    ASSUME TypeOK, Talk, P!RecvReply, UNCHANGED <<evq, kern, head, done, headq>>,
           escalated' = escalated \cup replyq'
    PROVE  Talk'
<1>1. /\ s2p # <<>> /\ Head(s2p) \in Replies /\ s2p' = Tail(s2p)
      /\ UNCHANGED <<m2p, p2s, closed>>
      /\ replyq' = replyq \/ \E w \in replyq : w.token = Head(s2p).token /\ replyq' = replyq \ {w}
  BY RecvReplyEffect
<1>2. PICK t \in Tokens : t = Head(s2p).token
  BY <1>1 DEF Replies
<1>3. Msgs(s2p) = Msgs(s2p') \cup {Head(s2p)}
  BY <1>1, MsgsTail DEF TypeOK, PipesOK
<1>4. Replied(t) /\ \A u \in Tokens : Replied(u) <=> Replied(u)' \/ u = t
  BY <1>2, <1>3 DEF Replied
<1>5. escalated' = escalated /\ replyq' \subseteq replyq
  BY <1>1 DEF Talk, EscalatedOK
<1>6. \A u \in Tokens : Due(u)' \subseteq Due(u) /\ (u # t => Due(u)' = Due(u))
  BY <1>1, <1>2 DEF Due
<1>7. EscalatedOK' /\ InOrder' /\ headq' \subseteq Tokens /\ \A u \in Tokens : Origin(u)'
  BY <1>1, <1>5 DEF Talk, EscalatedOK, InOrder, Origin, Escalated
<1>8. \A u \in Tokens : /\ Escalated(u)' <=> Escalated(u)
                        /\ AskedFor(u)' <=> AskedFor(u)
                        /\ CancelSent(u)' <=> CancelSent(u)
  BY <1>1, <1>5 DEF Escalated, AskedFor, CancelSent
<1>9. ASSUME NEW u \in Tokens PROVE LineOK(u)'
  <2>1. CASE u # t
    BY <1>1, <1>4, <1>6, <1>8, <2>1, LineSame DEF Alike, Talk
  <2>2. CASE u = t
    <3>1. LineOK(t) /\ ~AskedFor(t) /\ head[t] = NoHead
      BY <1>4 DEF Talk, LineOK
    <3>2. QED
      BY <1>4, <1>6, <1>8, <2>2, <3>1 DEF LineOK, Waits
  <2>3. QED
    BY <2>1, <2>2
<1>10. QED
  BY <1>7, <1>9 DEF Talk

\* A timeout: the escalation ends, and its cancel follows its ASK.
LEMMA TalkExpire ==
    ASSUME TypeOK, Talk, NEW w \in replyq, P!Expire(w),
           UNCHANGED <<evq, kern, head, done, headq>>, escalated' = escalated \cup replyq'
    PROVE  Talk'
<1>1. /\ replyq' = replyq \ {w} /\ UNCHANGED <<m2p, s2p, closed>>
      /\ p2s' = IF "p2s" \notin closed THEN p2s \o <<EventCancel(w.token)>> ELSE p2s
  BY ExpireEffect
<1> DEFINE t == w.token
           c == EventCancel(t)
<1>2. t \in Tokens /\ w \in escalated
  BY DEF TypeOK, EngineOK, Escalations, Talk, EscalatedOK
<1>3. Due(t) # {} /\ Escalated(t) /\ ~CancelSent(t)
  BY <1>2 DEF Due, Escalated, Talk, LineOK
<1>4. escalated' = escalated /\ Due(t)' = {} /\ \A u \in Tokens \ {t} : Due(u)' = Due(u)
  BY <1>1 DEF Talk, EscalatedOK, Due
<1>5. c \in AskMsgs /\ c.type = "EVENTCANCEL" /\ c.token = t
  BY <1>2 DEF EventCancel, AskMsgs
<1>6. p2s \in Seq(AskMsgs) /\ AsksOrdered(p2s)
  BY DEF TypeOK, PipesOK, Talk, InOrder
<1> HIDE DEF c
<1>7. \A k \in Msgs(p2s) : k.token = t /\ k.type # "LOGREQUEST" => k.type = "EVENTASK"
  <2> SUFFICES ASSUME NEW k \in Msgs(p2s), k.token = t, k.type \notin {"LOGREQUEST", "EVENTASK"}
               PROVE  FALSE
    OBVIOUS
  <2>1. k \in AskMsgs
    BY <1>6, MsgsType
  <2>2. k = EventCancel(t)
    BY <2>1, AskForms DEF AskMsgs
  <2>3. QED
    BY <1>3, <2>2 DEF CancelSent
<1>8. /\ InOrder' /\ Msgs(p2s) \subseteq Msgs(p2s') /\ Msgs(p2s') \subseteq Msgs(p2s) \cup {c}
      /\ "p2s" \notin closed => c \in Msgs(p2s')
  <2>1. CASE "p2s" \in closed
    <3>1. p2s' = p2s
      BY <1>1, <2>1
    <3>2. QED
      BY <1>6, <2>1, <3>1 DEF InOrder
  <2>2. CASE "p2s" \notin closed
    <3>1. AsksOrdered(p2s \o <<c>>)
      BY <1>5, <1>6, <1>7, OrderAppend
    <3>2. Msgs(p2s \o <<c>>) = Msgs(p2s) \cup {c}
      BY <1>5, <1>6, MsgsSend
    <3>3. p2s' = p2s \o <<c>>
      BY <1>1, <2>2 DEF c
    <3>4. AsksOrdered(p2s') /\ Msgs(p2s') = Msgs(p2s) \cup {c}
      BY <3>1, <3>2, <3>3, Zenon
    <3>5. QED
      BY <3>4 DEF InOrder
  <2>3. QED
    BY <2>1, <2>2
<1>9. EscalatedOK' /\ headq' \subseteq Tokens /\ \A u \in Tokens : Origin(u)'
  BY <1>1, <1>4 DEF Talk, EscalatedOK, Origin, Escalated
<1>10. \A u \in Tokens : /\ Escalated(u)' <=> Escalated(u)
                         /\ AskedFor(u)' <=> AskedFor(u)
                         /\ u # t => (CancelSent(u)' <=> CancelSent(u))
  BY <1>4, <1>8, MsgDistinct DEF Escalated, AskedFor, CancelSent, c
<1>11. ASSUME NEW u \in Tokens PROVE LineOK(u)'
  <2>1. Replied(u)' <=> Replied(u)
    BY <1>1 DEF Replied
  <2>2. CASE u # t
    BY <1>1, <1>4, <1>10, <2>1, <2>2, LineSame DEF Alike, Talk
  <2>3. CASE u = t
    <3>1. LineOK(u) /\ Due(u)' = {} /\ Escalated(u)'
      BY <1>3, <1>4, <1>10, <2>3 DEF Talk
    <3>2. "p2s" \notin closed' => CancelSent(u)'
      BY <1>1, <1>8, <2>3 DEF CancelSent, c
    <3>3. QED
      BY <1>10, <2>1, <3>1, <3>2 DEF LineOK, Waits
  <2>4. QED
    BY <2>2, <2>3
<1>12. QED
  BY <1>8, <1>9, <1>11 DEF Talk

\* An event reaches the policy engine.
EventTaken(t) ==
    /\ m2p # <<>> /\ m2p' = Tail(m2p) /\ EventDev(t) \in Msgs(m2p)
    /\ UNCHANGED <<s2p, closed>>
    /\ \/ t \in LockTokens /\ P!Lock(t)
       \/ t \notin LockTokens /\ \E r \in PolicyReplies : P!Ask(t, r) \/ P!Answer(t, r)

LEMMA EventArrives ==
    ASSUME TypeOK, P!RecvEvent
    PROVE  \E t \in Tokens : EventTaken(t)
<1>1. m2p # <<>> /\ m2p' = Tail(m2p) /\ Head(m2p).type = "EVENTDEV" /\ UNCHANGED <<s2p, closed>>
  BY DEF P!RecvEvent
<1>2. Head(m2p) \in EvMsgs
  BY <1>1, FromMasterType
<1>3. PICK t \in Tokens : t = Head(m2p).token
  BY <1>2 DEF EvMsgs
<1>4. Head(m2p) = EventDev(t)
  BY <1>1, <1>2, <1>3 DEF EvMsgs, EventDev
<1>5. EventDev(t) \in Msgs(m2p)
  <2>1. Head(m2p) \in Msgs(m2p)
    BY <1>1, MsgsTail DEF TypeOK, PipesOK
  <2>2. QED
    BY <1>4, <2>1, Zenon
<1>6. \/ t \in LockTokens /\ P!Lock(t)
      \/ t \notin LockTokens /\ \E r \in PolicyReplies : P!Ask(t, r) \/ P!Answer(t, r)
  BY <1>3 DEF P!RecvEvent
<1>7. EventTaken(t)
  BY <1>1, <1>5, <1>6 DEF EventTaken
<1>8. QED
  BY <1>7

LEMMA TalkPolicy ==
    ASSUME TypeOK, Talk, OwnersLeft', Policy \/ PolicyTerm \/ \E t \in Tokens : Timer(t)
    PROVE  Talk'
<1>1. UNCHANGED <<evq, kern, head, done, headq>> /\ escalated' = escalated \cup replyq'
  BY DEF Policy, PolicyTerm, Timer, NotPolicy, master, session, Escalate
<1>2. m2p # <<>> /\ m2p' = Tail(m2p) => Msgs(m2p') \subseteq Msgs(m2p)
  <2>1. m2p \in Seq(EvMsgs \cup Requests)
    BY DEF TypeOK, PipesOK
  <2>2. QED
    BY <2>1, MsgsTail
<1>3. CASE P!RecvEvent
  <2>1. PICK t \in Tokens : EventTaken(t)
    BY <1>3, EventArrives
  <2>2. /\ m2p # <<>> /\ m2p' = Tail(m2p) /\ UNCHANGED <<s2p, closed>>
        /\ EventDev(t) \in Msgs(m2p)
    BY <2>1 DEF EventTaken
  <2>3. CASE P!Lock(t)
    BY <1>1, <1>2, <2>2, <2>3, TalkQuiet DEF P!Lock
  <2>4. ASSUME NEW r \in PolicyReplies, P!Answer(t, r) PROVE Talk'
    BY <1>1, <1>2, <2>2, <2>4, TalkAnswer DEF P!Answer
  <2>5. ASSUME NEW r \in PolicyReplies, P!Ask(t, r), t \notin LockTokens PROVE Talk'
    BY <1>1, <1>2, <2>2, <2>5, TalkAsk
  <2>6. QED
    BY <2>1, <2>3, <2>4, <2>5 DEF EventTaken
<1>4. CASE P!RecvExit \/ P!RecvUpgrade
  <2>1. m2p # <<>> /\ m2p' = Tail(m2p) /\ UNCHANGED <<p2s, s2p, closed, replyq>>
    BY <1>4 DEF P!RecvExit, P!RecvUpgrade
  <2>2. QED
    BY <1>1, <1>2, <2>1, TalkQuiet
<1>5. CASE P!EofMaster \/ P!EofSession \/ P!ShutSession \/ P!Exit \/ P!Sigterm
  <2>1. UNCHANGED <<m2p, p2s, s2p, replyq>> /\ closed \subseteq closed'
    BY <1>5 DEF P!EofMaster, P!EofSession, P!ShutSession, P!Exit, P!Sigterm, P!pipes, P!own
  <2>2. QED
    BY <1>1, <2>1, TalkQuiet
<1>6. CASE P!RecvReply
  BY <1>1, <1>6, TalkReply
<1>7. ASSUME NEW w \in replyq, P!Expire(w) PROVE Talk'
  BY <1>1, <1>7, TalkExpire
<1>8. QED
  BY <1>3, <1>4, <1>5, <1>6, <1>7 DEF Policy, PolicyTerm, Timer, P!Handle

LEMMA CoreLeft == Core => TypeOK /\ OwnersLeft
  BY OwnerLeft DEF Core

LEMMA TalkStep == Core /\ Core' /\ Talk /\ [Next]_vars => Talk'
<1> SUFFICES ASSUME Core, Core', Talk, [Next]_vars PROVE Talk'
  OBVIOUS
<1>1. TypeOK /\ OwnersLeft'
  BY CoreLeft, PTL
<1>2. CASE UNCHANGED vars
  <2>1. UNCHANGED <<p2s, s2p, replyq, escalated, head, done, headq, evq, m2p, kern, closed>>
    BY <1>2 DEF vars, pipes, master, policy, session
  <2>2. \A u \in Tokens : Origin(u)'
    BY <2>1 DEF Talk, Origin, Escalated
  <2>3. QED
    BY <1>1, <2>1, <2>2, TalkElsewhere
<1>3. QED
  BY <1>1, <1>2, TalkMaster, TalkPolicy, TalkSession, TalkUpgrade DEF Next

LEMMA TalkInit == Init => Talk
<1> SUFFICES ASSUME Init PROVE Talk
  OBVIOUS
<1>1. /\ m2p = <<>> /\ p2s = <<>> /\ s2p = <<>> /\ evq = <<>> /\ escalated = {} /\ replyq = {}
      /\ headq = {} /\ head = [t \in Tokens |-> NoHead] /\ done = [t \in Tokens |-> <<>>]
  BY DEF Init, M!Init, P!Init, S!Init, S!N!Init
<1>2. Msgs(<<>>) = {}
  BY MsgsOne
<1>3. Msgs(m2p) = {} /\ Msgs(p2s) = {} /\ Msgs(s2p) = {} /\ Msgs(evq) = {}
  BY <1>1, <1>2, Zenon
<1>4. EscalatedOK /\ InOrder
  BY <1>1 DEF EscalatedOK, InOrder, AsksOrdered
<1>5. ASSUME NEW t \in Tokens PROVE Origin(t) /\ LineOK(t)
  <2>1. ~Escalated(t) /\ ~AskedFor(t) /\ ~CancelSent(t) /\ ~Replied(t)
    BY <1>1, <1>3 DEF Escalated, AskedFor, CancelSent, Replied
  <2>2. head[t] = NoHead /\ done[t] = <<>> /\ t \notin headq
    BY <1>1
  <2>3. QED
    BY <1>3, <2>1, <2>2 DEF Origin, LineOK, Waits
<1>6. QED
  BY <1>1, <1>4, <1>5 DEF Talk

LEMMA TalkInvariant == Safe => [](Core /\ Talk)
<1>1. QED
  BY CoreInvariant, TalkInit, TalkStep, PTL DEF Safe

\* The cancel of an escalation is sent once.
LEMMA CancelCount ==
    ASSUME TypeOK, Talk, NEW t \in Tokens, CancelSent(t)
    PROVE  Count(p2s, {"EVENTCANCEL"}, t) = 1
<1> DEFINE at == {i \in DOMAIN p2s : p2s[i].type \in {"EVENTCANCEL"} /\ p2s[i].token = t}
<1>1. p2s \in Seq(AskMsgs) /\ DOMAIN p2s = 1 .. Len(p2s) /\ Len(p2s) \in Nat
  BY DEF TypeOK, PipesOK
<1>2. PICK i \in DOMAIN p2s : p2s[i] = EventCancel(t)
  BY DEF CancelSent, Msgs
<1>3. i \in at
  BY <1>2, MsgFields
<1>4. ASSUME NEW j \in at PROVE j = i
  <2>1. /\ p2s[i].type = "EVENTCANCEL" /\ p2s[i].token = t
        /\ p2s[j].type = "EVENTCANCEL" /\ p2s[j].token = t /\ j \in DOMAIN p2s
    BY <1>2, MsgFields
  <2>2. ~(i < j) /\ ~(j < i)
    BY <2>1 DEF Talk, InOrder, AsksOrdered
  <2>3. QED
    BY <1>1, <2>1, <2>2
<1>5. at = {i}
  BY <1>3, <1>4
<1>6. Cardinality({i}) = 1
  BY FS_Singleton
<1>7. Cardinality(at) = 1
  BY <1>5, <1>6, Zenon
<1>8. QED
  BY <1>7 DEF Count

\* A session engine that waits is awaited: whatever timeouts, cancels, answers
\* and lost memory cross between the two engines, an escalation that has a head
\* is in replyq, or its cancel is on the way, or its answer is only owed
\* to refused peers, or the pipe is shut down.
THEOREM HeadsAlwaysAwaited == Safe => []HeadsAreAwaited
<1>1. TypeOK /\ Talk => HeadsAreAwaited
  <2> SUFFICES ASSUME TypeOK, Talk PROVE HeadsAreAwaited
    OBVIOUS
  <2>1. headq = {t \in Tokens : head[t] # NoHead}
    BY DEF Talk, LineOK
  <2>2. ASSUME NEW t \in headq
        PROVE  \/ \E w \in replyq : w.token = t
               \/ Count(p2s, {"EVENTCANCEL"}, t) = 1
               \/ head[t].reply
               \/ "p2s" \in closed
    <3>1. t \in Tokens /\ LineOK(t) /\ head[t] # NoHead
      BY <2>1 DEF Talk
    <3>2. CASE CancelSent(t)
      BY <3>1, <3>2, CancelCount
    <3>3. CASE ~CancelSent(t)
      BY <3>1, <3>3 DEF LineOK, Waits, Due
    <3>4. QED
      BY <3>2, <3>3
  <2>3. QED
    BY <2>1, <2>2 DEF HeadsAreAwaited
<1>2. Core => TypeOK
  BY DEF Core
<1>3. QED
  BY <1>1, <1>2, TalkInvariant, PTL

-----------------------------------------------------------------------------
(* What the replies say                                                     *)

\* The verdict and the flags say what was decided, with the flags g added.
Says(decision, v, f, g) ==
    \E y \in Int : decision = <<y>> /\ v = Clean(y) /\ f = FlagsOf(y) \cup g

\* A reply the kernel may be given for t: of the rules if they did not ask,
\* else a denial or what the notify library reported, with the flags of the
\* rule.
Good(t, v, f) ==
    /\ t \in Asking
    /\ IF Escalated(t)
       THEN \E w \in escalated : /\ w.token = t
                                 /\ \/ v = 1 /\ f \in {{}, w.flags}
                                    \/ Says(done[t], v, f, w.flags)
       ELSE [verdict |-> v, flags |-> f] \in OwnReplies[t]

\* The messages between the policy engine and the device.
Underway == Msgs(p2m) \cup Msgs(p2mHold) \cup Msgs(m2dev)
UnderwayOK == \A m \in Underway : m \in Replies => Good(m.token, m.verdict, m.flags)
WrittenOK == \A t \in Tokens : \A r \in Msgs(written[t]) : Good(t, r.verdict, r.flags)
\* What the session engine says is a denial or what its users decided.
VoicesOK ==
    \A m \in Msgs(s2p) : \/ m.verdict = 1 /\ m.flags = {}
                         \/ Says(done[m.token], m.verdict, m.flags, {})
AnswersOK == \A t \in Asking : kern[t] = "done" => written[t] # <<>>

Honest == UnderwayOK /\ WrittenOK /\ VoicesOK /\ AnswersOK

\* A step that neither escalates u nor changes a decision about it, and an
\* event that has no reply yet.
Kept(u) ==
    /\ escalated \subseteq escalated'
    /\ \A w \in escalated' : w.token = u => w \in escalated
    /\ done[u] # <<>> => done'[u] = done[u]
Clear(u) ==
    /\ \A m \in Underway : m \in Replies => m.token # u
    /\ written[u] = <<>>
\* The replies that a step adds are good.
NewGood ==
    \A m \in Underway' : m \in Replies => m \in Underway \/ Good(m.token, m.verdict, m.flags)'

LEMMA SaysIs ==
    ASSUME NEW decision, NEW v, NEW f, NEW g, Says(decision, v, f, g)
    PROVE  decision # <<>> /\ (g = {} => \A h : Says(decision, v, f \cup h, h))
<1>1. PICK y \in Int : decision = <<y>> /\ v = Clean(y) /\ f = FlagsOf(y) \cup g
  BY DEF Says
<1>2. ASSUME g = {}, NEW h PROVE Says(decision, v, f \cup h, h)
  <2>1. f \cup h = FlagsOf(y) \cup h
    BY <1>1, <1>2
  <2>2. QED
    BY <1>1, <2>1 DEF Says
<1>3. QED
  BY <1>1, <1>2

LEMMA GoodKept ==
    ASSUME NEW u, Kept(u), NEW v, NEW f, Good(u, v, f)
    PROVE  Good(u, v, f)'
<1>1. Escalated(u)' <=> Escalated(u)
  BY DEF Kept, Escalated
<1>2. \A g : Says(done[u], v, f, g) => Says(done'[u], v, f, g)
  BY SaysIs DEF Kept
<1>3. CASE Escalated(u)
  <2>1. PICK w \in escalated : /\ w.token = u
                               /\ \/ v = 1 /\ f \in {{}, w.flags}
                                  \/ Says(done[u], v, f, w.flags)
    BY <1>3 DEF Good
  <2>2. /\ w \in escalated'
        /\ (v = 1 /\ f \in {{}, w.flags}) \/ Says(done'[u], v, f, w.flags)
    BY <1>2, <2>1 DEF Kept
  <2>3. QED
    BY <1>1, <1>3, <2>1, <2>2 DEF Good
<1>4. CASE ~Escalated(u)
  BY <1>1, <1>4 DEF Good
<1>5. QED
  BY <1>3, <1>4

LEMMA RepliesKept ==
    ASSUME TypeOK, Honest, \A u \in Tokens : Kept(u) \/ Clear(u), NewGood
    PROVE  UnderwayOK' /\ (written' = written => WrittenOK')
<1>1. ASSUME NEW m \in Underway', m \in Replies PROVE Good(m.token, m.verdict, m.flags)'
  <2>1. CASE m \in Underway
    <3>1. Good(m.token, m.verdict, m.flags) /\ m.token \in Tokens
      BY <1>1, <2>1 DEF Honest, UnderwayOK, Replies
    <3>2. Kept(m.token)
      BY <1>1, <2>1, <3>1 DEF Clear
    <3>3. QED
      BY <3>1, <3>2, GoodKept
  <2>2. CASE m \notin Underway
    BY <1>1, <2>2 DEF NewGood
  <2>3. QED
    BY <2>1, <2>2
<1>2. ASSUME written' = written, NEW t \in Tokens, NEW r \in Msgs(written[t])
      PROVE  Good(t, r.verdict, r.flags)'
  <2>1. Good(t, r.verdict, r.flags)
    BY DEF Honest, WrittenOK
  <2>2. written[t] # <<>>
    <3>1. Msgs(<<>>) = {}
      BY MsgsOne
    <3>2. QED
      BY <3>1, Zenon
  <2>3. Kept(t)
    BY <2>2 DEF Clear
  <2>4. QED
    BY <2>1, <2>3, GoodKept
<1>3. UnderwayOK'
  BY <1>1 DEF UnderwayOK
<1>4. written' = written => WrittenOK'
  BY <1>2 DEF WrittenOK
<1>5. QED
  BY <1>3, <1>4

\* An event has one owner: while its relay is on the way to the policy engine
\* there is no reply, and while there is one it has not been written.
LEMMA SingleReply ==
    ASSUME Core, NEW t \in Asking
    PROVE  /\ EventDev(t) \in Msgs(m2p) => Clear(t)
           /\ \A m \in Msgs(m2dev) : m.token = t => written[t] = <<>> /\ kern[t] # "idle"
<1>1. /\ t \in Tokens /\ TypeOK /\ PartsOK
      /\ Undecided(t) + Decided(t) = IF kern[t] = "idle" THEN 0 ELSE 1
  BY Parts DEF Asking, Core, OwnerOK
<1>2. /\ Num(evq, Dev(t)) \in Nat /\ Num(m2p, Dev(t)) \in Nat /\ Cardinality(Due(t)) \in Nat
      /\ Num(p2mHold, Rep(t)) \in Nat /\ Num(p2m, Rep(t)) \in Nat
      /\ Num(m2dev, Rep(t)) \in Nat /\ Answers(t) \in Nat
  BY <1>1 DEF PartsOK
<1>3. /\ m2p \in Seq(EvMsgs \cup Requests) /\ p2m \in Seq(Replies \cup Orders)
      /\ p2mHold \in Seq(Replies) /\ m2dev \in Seq(Replies)
      /\ written[t] \in Seq(DevReplies)
  BY <1>1 DEF TypeOK, PipesOK, MasterOK, EngineOK
<1>4. ASSUME Answers(t) = 0 PROVE written[t] = <<>>
  BY <1>3, <1>4 DEF Answers
<1>5. ASSUME EventDev(t) \in Msgs(m2p) PROVE Clear(t)
  <2>1. EventDev(t) \in Dev(t)
    BY <1>1 DEF EventDev, Dev, EvMsgs
  <2>2. Num(m2p, Dev(t)) >= 1
    BY <1>3, <1>5, <2>1, MsgsNum
  <2>3. /\ Num(p2mHold, Rep(t)) = 0 /\ Num(p2m, Rep(t)) = 0 /\ Num(m2dev, Rep(t)) = 0
        /\ Answers(t) = 0
    BY <1>1, <1>2, <2>2 DEF Undecided, Decided
  <2>4. ASSUME NEW m \in Underway, m \in Replies, m.token = t PROVE FALSE
    <3>1. m \in Rep(t)
      BY <2>4 DEF Rep
    <3>2. /\ m \in Msgs(p2m) => Num(p2m, Rep(t)) >= 1
          /\ m \in Msgs(p2mHold) => Num(p2mHold, Rep(t)) >= 1
          /\ m \in Msgs(m2dev) => Num(m2dev, Rep(t)) >= 1
      BY <1>3, <3>1, MsgsNum
    <3>3. QED
      BY <2>3, <2>4, <3>2 DEF Underway
  <2>5. QED
    BY <1>4, <2>3, <2>4 DEF Clear
<1>6. ASSUME NEW m \in Msgs(m2dev), m.token = t PROVE written[t] = <<>> /\ kern[t] # "idle"
  <2>1. m \in Rep(t)
    BY <1>3, <1>6, MsgsType DEF Rep
  <2>2. Num(m2dev, Rep(t)) >= 1
    BY <1>3, <2>1, MsgsNum
  <2>3. Undecided(t) \in Nat /\ Decided(t) \in Nat /\ Decided(t) >= 1 + Answers(t)
    BY <1>2, <2>2 DEF Undecided, Decided
  <2>4. Answers(t) = 0 /\ kern[t] # "idle"
    BY <1>1, <1>2, <2>3
  <2>5. QED
    BY <1>4, <2>4
<1>7. QED
  BY <1>5, <1>6

\* A step of the session engine leaves the decisions alone, or adds the one of
\* an escalation that has none.
LEMMA DecisionStep ==
    ASSUME TypeOK, Talk, Session \/ Client \/ SessionTerm
    PROVE  \/ /\ done' = done
              /\ s2p' = s2p \/ \E t \in Tokens : s2p' = Append(s2p, EventReply(t, 1, {}))
           \/ \E t \in Tokens, v \in Nat :
                 Finishes(t, v) /\ s2p' = Append(s2p, Voice(t, v))
<1> DEFINE Stays == /\ done' = done
                    /\ s2p' = s2p \/ \E t \in Tokens : s2p' = Append(s2p, EventReply(t, 1, {}))
           Adds == \E t \in Tokens, v \in Nat :
                      Finishes(t, v) /\ s2p' = Append(s2p, Voice(t, v))
<1>1. SessionDoes
  BY SessionEffect
<1>2. HeadsSame /\ s2p' = s2p => Stays
  BY DEF HeadsSame
<1>3. ASSUME NEW t \in Tokens, Called(t) \/ Cancelled(t) PROVE Stays \/ Adds
  <2>1. CASE Keeps(t) /\ s2p' = s2p
    BY <2>1 DEF Keeps
  <2>2. CASE \E v \in Nat : Finishes(t, v) /\ s2p' = Append(s2p, Voice(t, v))
    BY <2>2
  <2> HIDE DEF Stays, Adds
  <2>3. CASE Called(t)
    BY <1>2, <2>1, <2>2, <2>3 DEF Called
  <2>4. CASE Cancelled(t)
    <3>1. CASE Finishes(t, 1) /\ s2p' = Append(s2p, Voice(t, 1))
      <4>1. 1 \in Nat
        OBVIOUS
      <4>2. QED
        BY <2>2, <3>1, <4>1, Zenon
    <3>2. QED
      BY <1>2, <2>1, <2>4, <3>1 DEF Cancelled
  <2>5. QED
    BY <1>3, <2>3, <2>4
<1>4. ASSUME NEW t \in Tokens, p2s # <<>>, Head(p2s) \in AskMsgs, Head(p2s).type = "EVENTASK",
             t = Head(p2s).token, Requested(t)
      PROVE  Stays
  <2>1. Head(p2s) = EventAsk(t)
    BY <1>4, AskForms
  <2>2. Head(p2s) \in Msgs(p2s)
    BY <1>4, MsgsTail DEF TypeOK, PipesOK
  <2>3. AskedFor(t)
    BY <2>1, <2>2 DEF AskedFor
  <2>4. done[t] = <<>> /\ done \in [Tokens -> Seq(Int)]
    BY <2>3 DEF Talk, LineOK, TypeOK, NotifyOK
  <2>5. done' = [done EXCEPT ![t] = <<>>]
    BY <1>4 DEF Requested, Starts
  <2>6. done' = done
    BY <2>4, <2>5
  <2>7. QED
    BY <1>4, <2>6 DEF Requested
<1> HIDE DEF Stays, Adds
<1>5. Stays \/ Adds
  BY <1>1, <1>2, <1>3, <1>4, AskForms DEF SessionDoes
<1>6. QED
  BY <1>5 DEF Stays, Adds

LEMMA HonestSession ==
    ASSUME TypeOK, Talk, Honest, Session \/ Client \/ SessionTerm
    PROVE  Honest'
<1>1. UNCHANGED <<p2m, p2mHold, m2dev, written, kern, escalated>>
  BY DEF Session, Client, SessionTerm, NotSession, master, policy
<1>2. Underway' = Underway /\ AnswersOK'
  BY <1>1 DEF Underway, Honest, AnswersOK
<1>3. s2p \in Seq(Replies) /\ Msgs(s2p) \subseteq Replies
  BY MsgsType DEF TypeOK, PipesOK
<1>4. ASSUME \A u \in Tokens : done[u] # <<>> => done'[u] = done[u],
             \A m \in Msgs(s2p') : \/ m \in Msgs(s2p)
                                   \/ m.verdict = 1 /\ m.flags = {}
                                   \/ Says(done'[m.token], m.verdict, m.flags, {})
      PROVE  Honest'
  <2>1. \A u \in Tokens : Kept(u)
    BY <1>1, <1>4 DEF Kept
  <2>2. UnderwayOK' /\ WrittenOK'
    BY <1>1, <1>2, <2>1, RepliesKept DEF NewGood
  <2>3. ASSUME NEW m \in Msgs(s2p')
        PROVE  \/ m.verdict = 1 /\ m.flags = {}
               \/ Says(done'[m.token], m.verdict, m.flags, {})
    <3>1. CASE m \in Msgs(s2p)
      <4>1. /\ m.token \in Tokens
            /\ \/ m.verdict = 1 /\ m.flags = {}
               \/ Says(done[m.token], m.verdict, m.flags, {})
        BY <1>3, <3>1 DEF Honest, VoicesOK, Replies
      <4>2. QED
        BY <1>4, <4>1, SaysIs
    <3>2. QED
      BY <1>4, <3>1
  <2>4. QED
    BY <1>2, <2>2, <2>3 DEF Honest, VoicesOK
<1>5. ASSUME NEW t \in Tokens, NEW r \in Replies, s2p' = Append(s2p, r)
      PROVE  \A m \in Msgs(s2p') : m \in Msgs(s2p) \/ m = r
  <2>2. Msgs(Append(s2p, r)) = Msgs(s2p) \cup {r}
    BY <1>3, MsgsAppend
  <2>3. Msgs(s2p') = Msgs(s2p) \cup {r}
    BY <1>5, <2>2, Zenon
  <2>4. QED
    BY <2>3
<1>6. CASE done' = done /\ s2p' = s2p
  BY <1>4, <1>6
<1>7. ASSUME done' = done, NEW t \in Tokens, s2p' = Append(s2p, EventReply(t, 1, {})) PROVE Honest'
  <2>1. /\ EventReply(t, 1, {}) \in Replies /\ EventReply(t, 1, {}).verdict = 1
        /\ EventReply(t, 1, {}).flags = {}
    BY FlagTypes DEF EventReply, Replies
  <2>2. \A m \in Msgs(s2p') : m \in Msgs(s2p) \/ (m.verdict = 1 /\ m.flags = {})
    BY <1>5, <1>7, <2>1
  <2>3. QED
    BY <1>4, <1>7, <2>2
<1>8. ASSUME NEW t \in Tokens, NEW v \in Nat, Finishes(t, v),
             s2p' = Append(s2p, Voice(t, v))
      PROVE  Honest'
  <2>0. /\ Voice(t, v) \in Replies /\ Voice(t, v).token = t
        /\ Voice(t, v).verdict = Clean(v) /\ Voice(t, v).flags = FlagsOf(v)
    BY VoiceTypes DEF Voice, EventReply
  <2>1. \A m \in Msgs(s2p') : m \in Msgs(s2p) \/ m = Voice(t, v)
    BY <1>5, <1>8, <2>0
  <2>2. done'[t] = <<v>> /\ done[t] = <<>> /\ \A u \in Tokens : u # t => done'[u] = done[u]
    BY <1>8, HeadAfter
  <2>s. Says(<<v>>, Clean(v), FlagsOf(v), {})
    BY DEF Says
  <2>3. \A m \in Msgs(s2p') :
          m \in Msgs(s2p) \/ Says(done'[m.token], m.verdict, m.flags, {})
    BY <2>0, <2>1, <2>2, <2>s
  <2>4. \A u \in Tokens : done[u] # <<>> => done'[u] = done[u]
    BY <2>2
  <2>5. QED
    BY <1>4, <2>3, <2>4
<1>9. QED
  BY <1>6, <1>7, <1>8, DecisionStep

\* A step of the policy engine: what it adds to the replies is good, and what
\* it escalates has no reply.
LEMMA HonestPass ==
    ASSUME TypeOK, Honest, UNCHANGED <<m2dev, written, kern, done>>,
           Msgs(s2p') \subseteq Msgs(s2p), \A u \in Tokens : Kept(u) \/ Clear(u),
           NewGood
    PROVE  Honest'
<1>1. UnderwayOK' /\ WrittenOK'
  BY RepliesKept
<1>2. VoicesOK' /\ AnswersOK'
  BY DEF Honest, VoicesOK, AnswersOK
<1>3. QED
  BY <1>1, <1>2 DEF Honest

\* The same for one reply more.
LEMMA HonestReply ==
    ASSUME TypeOK, Honest, UNCHANGED <<m2dev, written, kern, done, escalated>>,
           Msgs(s2p') \subseteq Msgs(s2p),
           NEW t \in Tokens, NEW v \in Int, NEW f \in FlagSets, Good(t, v, f),
           \/ p2m' = Append(p2m, EventReply(t, v, f)) /\ p2mHold' = p2mHold
           \/ p2mHold' = Append(p2mHold, EventReply(t, v, f)) /\ p2m' = p2m
    PROVE  Honest'
<1> DEFINE r == EventReply(t, v, f)
<1>1. r \in Replies /\ r.token = t /\ r.verdict = v /\ r.flags = f
  BY DEF EventReply, Replies
<1>2. \/ p2m' = Append(p2m, r) /\ p2mHold' = p2mHold
      \/ p2mHold' = Append(p2mHold, r) /\ p2m' = p2m
  OBVIOUS
<1> HIDE DEF r
<1>3. p2m \in Seq(Replies \cup Orders) /\ p2mHold \in Seq(Replies) /\ r \in Replies \cup Orders
  BY <1>1 DEF TypeOK, PipesOK, EngineOK
<1>4. Msgs(Append(p2m, r)) = Msgs(p2m) \cup {r} /\ Msgs(Append(p2mHold, r)) = Msgs(p2mHold) \cup {r}
  BY <1>1, <1>3, MsgsAppend
<1>5. Msgs(p2m') \subseteq Msgs(p2m) \cup {r} /\ Msgs(p2mHold') \subseteq Msgs(p2mHold) \cup {r}
  <2>1. CASE p2m' = Append(p2m, r) /\ p2mHold' = p2mHold
    <3>1. Msgs(p2m') = Msgs(p2m) \cup {r} /\ Msgs(p2mHold') = Msgs(p2mHold)
      BY <1>4, <2>1, Zenon
    <3>2. QED
      BY <3>1
  <2>2. CASE p2mHold' = Append(p2mHold, r) /\ p2m' = p2m
    <3>1. Msgs(p2mHold') = Msgs(p2mHold) \cup {r} /\ Msgs(p2m') = Msgs(p2m)
      BY <1>4, <2>2, Zenon
    <3>2. QED
      BY <3>1
  <2>3. QED
    BY <1>2, <2>1, <2>2
<1>6. \A u \in Tokens : Kept(u)
  BY DEF Kept
<1>7. Good(t, v, f)'
  BY <1>6, GoodKept
<1>8. NewGood
  <2>1. Underway' \subseteq Underway \cup {r}
    BY <1>5 DEF Underway
  <2>2. Good(r.token, r.verdict, r.flags)'
    BY <1>1, <1>7
  <2>3. QED
    BY <2>1, <2>2 DEF NewGood
<1>9. QED
  BY <1>6, <1>8, HonestPass

LEMMA HonestEvent ==
    ASSUME Core, Talk, Honest, NEW t \in Tokens, EventTaken(t),
           UNCHANGED <<m2dev, written, kern, done>>, escalated' = escalated \cup replyq'
    PROVE  Honest'
<1>1. TypeOK /\ EventDev(t) \in Msgs(m2p) /\ s2p' = s2p
  BY DEF Core, EventTaken
<1>2. ~Escalated(t) /\ t \in Asking /\ t \notin ChildTokens
  BY <1>1 DEF Talk, Origin, Asking
<1>3. replyq' = replyq => escalated' = escalated
  BY DEF Talk, EscalatedOK
<1>4. CASE t \in LockTokens /\ P!Lock(t)
  <2>1. OwnReplies[t] = [verdict: {0}, flags: {{}}]
    BY <1>2, <1>4 DEF OwnReplies
  <2>2. Good(t, 0, {})
    BY <1>2, <2>1 DEF Good
  <2>3. /\ replyq' = replyq
        /\ \/ p2m' = Append(p2m, EventReply(t, 0, {})) /\ p2mHold' = p2mHold
           \/ p2mHold' = Append(p2mHold, EventReply(t, 0, {})) /\ p2m' = p2m
    BY <1>4 DEF P!Lock, P!EventReply, EventReply
  <2>4. QED
    BY <1>1, <1>3, <2>2, <2>3, HonestReply, FlagTypes
<1>5. ASSUME t \notin LockTokens, NEW r \in PolicyReplies, P!Answer(t, r) PROVE Honest'
  <2>1. r.verdict \in Int /\ r.flags \in FlagSets /\ [verdict |-> r.verdict, flags |-> r.flags] = r
    BY DaemonAssumption
  <2>2. OwnReplies[t] = PolicyReplies
    BY <1>2, <1>5 DEF OwnReplies
  <2>3. Good(t, r.verdict, r.flags)
    BY <1>2, <2>1, <2>2 DEF Good
  <2>4. /\ replyq' = replyq /\ p2mHold' = p2mHold
        /\ p2m' = Append(p2m, EventReply(t, r.verdict, r.flags))
    BY <1>5 DEF P!Answer, P!EventReply, EventReply
  <2>5. QED
    BY <1>1, <1>3, <2>1, <2>3, <2>4, HonestReply
<1>6. ASSUME NEW r \in PolicyReplies, P!Ask(t, r) PROVE Honest'
  <2> DEFINE w == [token |-> t, flags |-> r.flags]
  <2>1. replyq' = replyq \cup {w} /\ w.token = t /\ UNCHANGED <<p2m, p2mHold>>
    BY <1>6 DEF P!Ask
  <2>2. escalated' = escalated \cup {w}
    BY <2>1 DEF Talk, EscalatedOK
  <2> HIDE DEF w
  <2>3. Clear(t)
    BY <1>1, <1>2, SingleReply
  <2>4. \A u \in Tokens : u # t => Kept(u)
    BY <2>1, <2>2 DEF Kept
  <2>5. \A u \in Tokens : Kept(u) \/ Clear(u)
    BY <2>3, <2>4
  <2>6. NewGood
    BY <1>1, <2>1 DEF NewGood, Underway
  <2>7. QED
    BY <1>1, <2>5, <2>6, HonestPass
<1>7. QED
  BY <1>4, <1>5, <1>6 DEF EventTaken

LEMMA HonestPolicy ==
    ASSUME Core, Talk, Honest, Policy \/ PolicyTerm \/ \E t \in Tokens : Timer(t)
    PROVE  Honest'
<1>1. /\ TypeOK /\ UNCHANGED <<m2dev, written, kern, done>>
      /\ escalated' = escalated \cup replyq'
  BY DEF Core, Policy, PolicyTerm, Timer, NotPolicy, master, session, Escalate
<1>2. replyq' \subseteq replyq => escalated' = escalated /\ \A u \in Tokens : Kept(u)
  BY <1>1 DEF Talk, EscalatedOK, Kept
<1>n. p2m' = p2m /\ p2mHold' = p2mHold => NewGood
  BY <1>1 DEF NewGood, Underway
<1>3. CASE P!RecvEvent
  BY <1>1, <1>3, EventArrives, HonestEvent
<1>4. CASE P!RecvExit \/ P!RecvUpgrade
  <2>1. UNCHANGED <<s2p, replyq>>
    BY <1>4 DEF P!RecvExit, P!RecvUpgrade
  <2>2. p2m \in Seq(Replies \cup Orders) /\ p2mHold \in Seq(Replies \cup Orders)
    BY <1>1 DEF TypeOK, PipesOK, EngineOK
  <2>3. CASE UNCHANGED <<p2m, p2mHold>>
    BY <1>1, <1>2, <1>n, <2>1, <2>3, HonestPass
  <2>4. ASSUME NEW o \in Orders, p2m' = Append(p2m, o), p2mHold' = p2mHold PROVE Honest'
    <3>1. o \notin Replies /\ o \in Replies \cup Orders
      BY DEF Replies, Orders
    <3>2. Msgs(Append(p2m, o)) = Msgs(p2m) \cup {o}
      BY <2>2, <3>1, MsgsAppend
    <3>3. Msgs(p2m') = Msgs(p2m) \cup {o} /\ Msgs(p2mHold') = Msgs(p2mHold)
      BY <2>4, <3>2, Zenon
    <3>4. NewGood
      BY <1>1, <3>1, <3>3 DEF NewGood, Underway
    <3>5. QED
      BY <1>1, <1>2, <2>1, <3>4, HonestPass
  <2>5. CASE p2m' = p2m \o p2mHold /\ p2mHold' = <<>>
    <3>1. Msgs(p2m \o p2mHold) = Msgs(p2m) \cup Msgs(p2mHold)
      BY <2>2, MsgsConcat
    <3>e. Msgs(<<>>) = {}
      BY MsgsOne
    <3>2. Msgs(p2m') = Msgs(p2m) \cup Msgs(p2mHold) /\ Msgs(p2mHold') = {}
      BY <2>5, <3>1, <3>e, Zenon
    <3>3. NewGood
      BY <1>1, <3>2 DEF NewGood, Underway
    <3>4. QED
      BY <1>1, <1>2, <2>1, <3>3, HonestPass
  <2>6. QED
    BY <1>1, <1>4, <2>3, <2>4, <2>5, ProtocolEffect
<1>5. CASE P!EofMaster \/ P!EofSession \/ P!ShutSession \/ P!Exit \/ P!Sigterm
  <2>1. UNCHANGED <<s2p, replyq, p2m, p2mHold>>
    BY <1>5 DEF P!EofMaster, P!EofSession, P!ShutSession, P!Exit, P!Sigterm, P!pipes, P!own
  <2>2. QED
    BY <1>1, <1>2, <1>n, <2>1, HonestPass
\* An escalation ends: its entry is one of those the flags were taken from.
<1>6. ASSUME NEW w \in replyq
      PROVE  /\ w \in escalated /\ w.token \in Tokens /\ w.flags \in FlagSets
             /\ w.token \in Asking /\ Escalated(w.token)
  <2>1. w \in escalated /\ w.token \in Tokens /\ w.flags \in FlagSets
    BY DEF Talk, EscalatedOK, Escalations
  <2>2. Escalated(w.token)
    BY <2>1 DEF Escalated
  <2>3. QED
    BY <2>1, <2>2 DEF Talk, Origin
<1>7. CASE P!RecvReply
  <2>1. PICK v, f : v = Head(s2p).verdict /\ f = Head(s2p).flags
    OBVIOUS
  <2>2. PICK t : t = Head(s2p).token
    OBVIOUS
  <2>3. /\ s2p # <<>> /\ s2p' = Tail(s2p) /\ p2mHold' = p2mHold
        /\ v \in Int /\ f \in FlagSets
        /\ \/ replyq' = replyq /\ p2m' = p2m
           \/ \E w \in replyq : /\ w.token = t /\ replyq' = replyq \ {w}
                                /\ p2m' = Append(p2m, EventReply(w.token, v, f \cup w.flags))
    BY <1>1, <1>7, <2>1, <2>2, RecvReplyEffect DEF Replies
  <2>4. Head(s2p) \in Msgs(s2p) /\ Msgs(s2p') \subseteq Msgs(s2p)
    BY <1>1, <2>3, MsgsTail DEF TypeOK, PipesOK
  <2>5. (v = 1 /\ f = {}) \/ Says(done[t], v, f, {})
    BY <2>1, <2>2, <2>4 DEF Honest, VoicesOK
  <2>6. CASE replyq' = replyq /\ p2m' = p2m
    BY <1>1, <1>2, <1>n, <2>3, <2>4, <2>6, HonestPass
  <2>7. ASSUME NEW w \in replyq, w.token = t, replyq' = replyq \ {w},
               p2m' = Append(p2m, EventReply(w.token, v, f \cup w.flags))
        PROVE  Honest'
    <3>1. \/ v = 1 /\ f \cup w.flags = w.flags
          \/ Says(done[t], v, f \cup w.flags, w.flags)
      BY <2>5, SaysIs
    <3>2. Good(w.token, v, f \cup w.flags)
      BY <1>6, <2>7, <3>1 DEF Good
    <3>3. f \cup w.flags \in FlagSets
      BY <1>6, <2>3, FlagTypes
    <3>4. QED
      BY <1>1, <1>2, <1>6, <2>3, <2>4, <2>7, <3>2, <3>3, HonestReply
  <2>8. QED
    BY <2>3, <2>6, <2>7
<1>8. ASSUME NEW w \in replyq, P!Expire(w) PROVE Honest'
  <2>1. /\ replyq' = replyq \ {w} /\ p2m' = Append(p2m, EventReply(w.token, 1, {}))
        /\ UNCHANGED <<s2p, p2mHold>>
    BY <1>1, <1>8, ExpireEffect
  <2>2. Good(w.token, 1, {})
    BY <1>6 DEF Good
  <2>3. QED
    BY <1>1, <1>2, <1>6, <2>1, <2>2, HonestReply, FlagTypes
<1>9. QED
  BY <1>3, <1>4, <1>5, <1>7, <1>8 DEF Policy, PolicyTerm, Timer, P!Handle

\* A reply reaches the device: the first one for its event.
DeviceGets(t, v, f) ==
    /\ written[t] = <<>> /\ kern[t] # "idle" /\ Good(t, v, f) /\ v \in Int /\ f \in FlagSets
    /\ written' = [written EXCEPT ![t] = <<[verdict |-> v, flags |-> f]>>]
    /\ kern' = [kern EXCEPT ![t] = IF @ = "waiting" THEN "done" ELSE @]
    /\ Msgs(m2dev') \subseteq Msgs(m2dev) /\ p2m' = p2m

LEMMA WriteStep ==
    ASSUME Core, Honest, M!WriteDev
    PROVE  \E t \in Tokens, v \in Int, f \in FlagSets : DeviceGets(t, v, f)
<1>1. TypeOK
  BY DEF Core
<1>2. PICK r : r = Head(m2dev)
  OBVIOUS
<1>3. /\ m2dev # <<>> /\ r \in Replies /\ m2dev' = Tail(m2dev) /\ p2m' = p2m
      /\ written' = [written EXCEPT ![r.token] =
                        Append(@, [verdict |-> r.verdict, flags |-> r.flags])]
      /\ kern' = [kern EXCEPT ![r.token] = IF @ = "waiting" THEN "done" ELSE @]
  BY <1>1, <1>2, WriteDevEffect DEF WriteDevDoes
<1>4. r \in Msgs(m2dev) /\ Msgs(m2dev') \subseteq Msgs(m2dev)
  BY <1>1, <1>2, <1>3, MsgsTail DEF TypeOK, MasterOK
<1>5. r.token \in Tokens /\ r.verdict \in Int /\ r.flags \in FlagSets
  BY <1>3 DEF Replies
<1>6. Good(r.token, r.verdict, r.flags)
  BY <1>3, <1>4 DEF Honest, UnderwayOK, Underway
<1>7. written[r.token] = <<>> /\ kern[r.token] # "idle"
  BY <1>4, <1>6, SingleReply DEF Good
<1>8. written' = [written EXCEPT ![r.token] = <<[verdict |-> r.verdict, flags |-> r.flags]>>]
  <2>1. Append(written[r.token], [verdict |-> r.verdict, flags |-> r.flags])
          = <<[verdict |-> r.verdict, flags |-> r.flags]>>
    BY <1>7
  <2>2. QED
    BY <1>3, <2>1
<1>9. DeviceGets(r.token, r.verdict, r.flags)
  BY <1>3, <1>4, <1>5, <1>6, <1>7, <1>8 DEF DeviceGets
<1>10. QED
  BY <1>5, <1>9

LEMMA HonestMaster ==
    ASSUME Core, Talk, Honest, Master \/ Kernel \/ Stop
    PROVE  Honest'
<1>1. TypeOK /\ UNCHANGED <<s2p, done, escalated, p2mHold>>
  BY DEF Core, Master, Kernel, Stop, NotMaster, policy, session
<1>2. VoicesOK' /\ \A u \in Tokens : Kept(u)
  BY <1>1 DEF Honest, VoicesOK, Kept
<1>3. /\ evq \in Seq(EvMsgs) /\ p2m \in Seq(Replies \cup Orders) /\ m2dev \in Seq(Replies)
      /\ kern \in [Tokens -> {"idle", "waiting", "done", "gone"}]
      /\ written \in [Tokens -> Seq(DevReplies)]
  BY <1>1 DEF TypeOK, PipesOK, MasterOK
<1>4. ASSUME NewGood, written' = written, \A t \in Asking : kern'[t] = "done" => kern[t] = "done"
      PROVE  Honest'
  <2>1. UnderwayOK' /\ WrittenOK'
    BY <1>1, <1>2, <1>4, RepliesKept
  <2>2. AnswersOK'
    BY <1>4 DEF Honest, AnswersOK
  <2>3. QED
    BY <1>2, <2>1, <2>2 DEF Honest
<1>5. CASE M!RecvKernel
  <2>1. PICK k : k = Head(evq)
    OBVIOUS
  <2>2. /\ evq # <<>> /\ k \in EvMsgs /\ UNCHANGED <<kern, written, p2m>>
        /\ \/ m2dev' = m2dev
           \/ /\ k.type = "EVENTDEV" /\ k.token \in ChildTokens
              /\ \E v \in {0, 1} : m2dev' = Append(m2dev, EventReply(k.token, v, {}))
    BY <1>1, <1>5, <2>1, RecvKernelEffect DEF RecvKernelDoes
  <2>3. CASE m2dev' = m2dev
    <3>1. NewGood
      BY <1>1, <2>2, <2>3 DEF NewGood, Underway
    <3>2. QED
      BY <1>4, <2>2, <3>1
  <2>4. ASSUME k.type = "EVENTDEV", k.token \in ChildTokens, NEW v \in {0, 1},
               m2dev' = Append(m2dev, EventReply(k.token, v, {}))
        PROVE  Honest'
    <3> DEFINE r == EventReply(k.token, v, {})
    <3>1. /\ r \in Replies /\ r.token = k.token /\ r.verdict = v /\ r.flags = {}
          /\ k.token \in Tokens /\ k.token \notin NoteTokens
      BY <2>2, <2>4, DaemonAssumption, FlagTypes DEF EventReply, Replies, EvMsgs
    <3>2. ~Escalated(k.token) /\ k.token \in Asking
      BY <2>4, <3>1 DEF Talk, Origin, Asking
    <3>3. Good(k.token, v, {})
      BY <2>4, <3>1, <3>2 DEF Good, OwnReplies
    <3>4. Good(k.token, v, {})'
      BY <1>2, <3>1, <3>3, GoodKept
    <3> HIDE DEF r
    <3>5. Msgs(Append(m2dev, r)) = Msgs(m2dev) \cup {r}
      BY <1>3, <3>1, MsgsAppend
    <3>6. Msgs(m2dev') = Msgs(m2dev) \cup {r}
      BY <2>4, <3>5, Zenon DEF r
    <3>7. NewGood
      <4>1. Underway' = Underway \cup {r}
        BY <1>1, <2>2, <3>6 DEF Underway
      <4>2. Good(r.token, r.verdict, r.flags)'
        BY <3>1, <3>4
      <4>3. QED
        BY <4>1, <4>2 DEF NewGood
    <3>8. QED
      BY <1>4, <2>2, <3>7
  <2>5. QED
    BY <2>2, <2>3, <2>4
<1>6. CASE M!RecvPolicy
  <2>1. PICK r : r = Head(p2m)
    OBVIOUS
  <2>2. /\ p2m # <<>> /\ p2m' = Tail(p2m) /\ UNCHANGED <<kern, written>>
        /\ m2dev' = m2dev \/ (r \in Replies /\ m2dev' = Append(m2dev, r))
    BY <1>1, <1>6, <2>1, RecvPolicyEffect DEF RecvPolicyDoes
  <2>3. r \in Msgs(p2m) /\ Msgs(p2m') \subseteq Msgs(p2m)
    BY <1>3, <2>1, <2>2, MsgsTail
  <2>4. r \in Replies => Msgs(Append(m2dev, r)) = Msgs(m2dev) \cup {r}
    BY <1>3, MsgsAppend
  <2>5. m2dev' = m2dev \/ Msgs(m2dev') = Msgs(m2dev) \cup {r}
    BY <2>2, <2>4, Zenon
  <2>6. Underway' \subseteq Underway
    BY <1>1, <2>3, <2>5 DEF Underway
  <2>7. QED
    BY <1>4, <2>2, <2>6 DEF NewGood
<1>7. CASE M!WriteDev
  <2>1. PICK t \in Tokens, v \in Int, f \in FlagSets : DeviceGets(t, v, f)
    BY <1>7, WriteStep
  <2> DEFINE x == [verdict |-> v, flags |-> f]
  <2>2. /\ t \in Asking /\ Good(t, v, f)' /\ x.verdict = v /\ x.flags = f
        /\ Underway' \subseteq Underway
        /\ written' = [written EXCEPT ![t] = <<x>>]
        /\ kern' = [kern EXCEPT ![t] = IF @ = "waiting" THEN "done" ELSE @]
    <3>1. Good(t, v, f)'
      BY <1>2, <2>1, GoodKept DEF DeviceGets
    <3>2. Underway' \subseteq Underway
      BY <1>1, <2>1 DEF DeviceGets, Underway
    <3>3. QED
      BY <2>1, <3>1, <3>2 DEF DeviceGets, Good
  <2> HIDE DEF x
  <2>3. UnderwayOK'
    BY <1>1, <1>2, <2>2, RepliesKept DEF NewGood
  <2>4. /\ written'[t] = <<x>>
        /\ \A u \in Tokens : u # t => written'[u] = written[u] /\ kern'[u] = kern[u]
    BY <1>3, <2>2
  <2>5. ASSUME NEW u \in Tokens, NEW r \in Msgs(written'[u]) PROVE Good(u, r.verdict, r.flags)'
    <3>1. CASE u = t
      <4>1. Msgs(<<x>>) = {x}
        BY MsgsOne
      <4>2. Msgs(written'[u]) = {x}
        BY <2>4, <3>1, <4>1, Zenon
      <4>3. r = x
        BY <4>2
      <4>4. QED
        BY <2>2, <3>1, <4>3
    <3>2. CASE u # t
      <4>1. Good(u, r.verdict, r.flags)
        BY <2>4, <3>2 DEF Honest, WrittenOK
      <4>2. QED
        BY <1>2, <4>1, GoodKept
    <3>3. QED
      BY <3>1, <3>2
  <2>6. AnswersOK'
    <3>1. <<x>> # <<>>
      OBVIOUS
    <3>2. \A u \in Asking : u \in Tokens
      BY DEF Asking
    <3>3. QED
      BY <2>4, <3>1, <3>2 DEF Honest, AnswersOK
  <2>7. QED
    BY <1>2, <2>3, <2>5, <2>6 DEF Honest, WrittenOK
<1>8. ASSUME NEW t \in Tokens, M!Post(t) \/ M!ProcessExit(t) PROVE Honest'
  <2>1. UNCHANGED <<p2m, m2dev, written>>
    BY <1>8 DEF M!Post, M!ProcessExit, M!own
  <2>2. \A u \in Asking : kern'[u] = "done" => kern[u] = "done"
    BY <1>3, <1>8 DEF M!Post, M!ProcessExit, Asking
  <2>3. NewGood
    BY <1>1, <2>1 DEF NewGood, Underway
  <2>4. QED
    BY <1>4, <2>1, <2>2, <2>3
<1>9. CASE \/ M!EndOfEvents \/ M!RecvUpgrade \/ M!Exit \/ M!Sigterm
           \/ \E pipe \in {"m2p", "m2s", "m2u"} : M!Shut(pipe)
  <2>1. UNCHANGED <<p2m, m2dev, written, kern>>
    BY <1>9 DEF M!EndOfEvents, M!RecvUpgrade, M!Exit, M!Sigterm, M!Shut, M!kernel, M!own
  <2>2. NewGood
    BY <1>1, <2>1 DEF NewGood, Underway
  <2>3. QED
    BY <1>4, <2>1, <2>2
<1>10. QED
  BY <1>5, <1>6, <1>7, <1>8, <1>9 DEF Master, Kernel, Stop, M!Handle, M!Environment

LEMMA HonestStep == Core /\ Talk /\ Honest /\ [Next]_vars => Honest'
<1> SUFFICES ASSUME Core, Talk, Honest, [Next]_vars PROVE Honest'
  OBVIOUS
<1>1. TypeOK
  BY DEF Core
<1>2. CASE Upgrade \/ UNCHANGED vars
  <2>1. UNCHANGED <<p2m, p2mHold, m2dev, written, kern, escalated, done, s2p>>
    BY <1>2 DEF Upgrade, NotUpgrade, vars, pipes, master, policy, session
  <2>2. NewGood /\ \A u \in Tokens : Kept(u)
    BY <2>1 DEF NewGood, Underway, Kept
  <2>3. QED
    BY <1>1, <2>1, <2>2, HonestPass
<1>3. QED
  BY <1>1, <1>2, HonestMaster, HonestPolicy, HonestSession DEF Next

LEMMA HonestInit == Init => Honest
<1> SUFFICES ASSUME Init PROVE Honest
  OBVIOUS
<1>1. /\ p2m = <<>> /\ p2mHold = <<>> /\ m2dev = <<>> /\ s2p = <<>>
      /\ written = [t \in Tokens |-> <<>>] /\ kern = [t \in Tokens |-> "idle"]
  BY DEF Init, M!Init, P!Init
<1>2. Msgs(<<>>) = {}
  BY MsgsOne
<1>3. Msgs(p2m) = {} /\ Msgs(p2mHold) = {} /\ Msgs(m2dev) = {} /\ Msgs(s2p) = {}
  BY <1>1, <1>2, Zenon
<1>4. \A t \in Tokens : Msgs(written[t]) = {} /\ kern[t] = "idle"
  BY <1>1, <1>2
<1>5. QED
  BY <1>3, <1>4 DEF Honest, UnderwayOK, Underway, WrittenOK, VoicesOK, AnswersOK, Asking

LEMMA HonestInvariant == Safe => [](Core /\ Talk /\ Honest)
<1>1. QED
  BY TalkInvariant, HonestInit, HonestStep, PTL DEF Safe

\* The verdict of the users is honoured: whatever timeouts, late answers,
\* refused peers and shutdowns race, an escalated event is denied, or answered
\* with what the notify library reported and with all flags of its rule.  The
\* flags are those of the rule and whatever bits the verdict itself had set.
THEOREM EscalationAlwaysHonoured == Safe => []EscalationHonoured
<1>1. Core /\ Talk /\ Honest => EscalationHonoured
  <2> SUFFICES ASSUME Core, Talk, Honest, NEW w \in escalated, written[w.token] # <<>>
               PROVE  LET r == written[w.token][1] IN
                      \/ r = [verdict |-> P!EPERM, flags |-> {}]
                      \/ r = [verdict |-> P!EPERM, flags |-> w.flags]
                      \/ done[w.token] # <<>> /\ r = WithFlags(done[w.token][1], w.flags)
    BY DEF EscalationHonoured
  <2> DEFINE r == written[w.token][1]
  <2>1. w.token \in Tokens
    BY DEF Talk, EscalatedOK, Escalations
  <2>2. written[w.token] \in Seq(DevReplies)
    BY <2>1 DEF Core, TypeOK, MasterOK
  <2>3. r \in Msgs(written[w.token]) /\ r \in DevReplies
    <3>1. ASSUME NEW msgs, NEW q \in Seq(msgs), q # <<>> PROVE q[1] = Head(q) /\ q[1] \in msgs
      BY <3>1
    <3>2. Head(written[w.token]) \in Msgs(written[w.token])
      BY <2>2, MsgsTail
    <3>3. r = Head(written[w.token]) /\ r \in DevReplies
      BY <2>2, <3>1
    <3>4. QED
      BY <3>2, <3>3
  <2> HIDE DEF r
  <2>4. Good(w.token, r.verdict, r.flags) /\ Escalated(w.token)
    BY <2>1, <2>3 DEF Honest, WrittenOK, Escalated
  <2>5. \/ r.verdict = 1 /\ r.flags \in {{}, w.flags}
        \/ Says(done[w.token], r.verdict, r.flags, w.flags)
    BY <2>4 DEF Good, Talk, EscalatedOK
  <2>6. r = [verdict |-> r.verdict, flags |-> r.flags]
    BY <2>3 DEF DevReplies
  <2>7. CASE r.verdict = 1 /\ r.flags \in {{}, w.flags}
    BY <2>6, <2>7 DEF P!EPERM, r
  <2>8. CASE Says(done[w.token], r.verdict, r.flags, w.flags)
    <3>1. PICK y \in Int : /\ done[w.token] = <<y>> /\ r.verdict = Clean(y)
                           /\ r.flags = FlagsOf(y) \cup w.flags
      BY <2>8 DEF Says
    <3>2. done[w.token] # <<>> /\ done[w.token][1] = y
      BY <3>1
    <3>3. r = WithFlags(y, w.flags)
      BY <2>6, <3>1, Zenon DEF WithFlags
    <3>4. QED
      BY <3>2, <3>3 DEF r
  <2>9. QED
    BY <2>5, <2>7, <2>8
<1>2. QED
  BY <1>1, HonestInvariant, PTL

-----------------------------------------------------------------------------
(* The daemon implements the arbiter                                        *)

\* A good reply is one the arbiter may give.
LEMMA GoodReplies ==
    ASSUME Talk, NEW t \in Tokens, NEW v, NEW f, Good(t, v, f)
    PROVE  [verdict |-> v, flags |-> f] \in A!Replies(t)
<1>1. CASE ~Escalated(t)
  BY <1>1 DEF Good, A!Replies
<1>2. CASE Escalated(t)
  <2>1. PICK w \in escalated : /\ w.token = t
                               /\ \/ v = 1 /\ f \in {{}, w.flags}
                                  \/ Says(done[t], v, f, w.flags)
    BY <1>2 DEF Good
  <2>2. OwnReplies[t] = PolicyReplies
    BY <1>2 DEF Talk, Origin, OwnReplies
  <2>3. w.flags \in A!Flags(t)
    BY <2>1, <2>2 DEF Talk, EscalatedOK, A!Flags
  <2>4. CASE v = 1 /\ f \in {{}, w.flags}
    <3>1. [verdict |-> v, flags |-> f] \in [verdict : {A!DENY}, flags : {{}} \cup A!Flags(t)]
      BY <2>3, <2>4 DEF A!DENY
    <3>2. QED
      BY <3>1 DEF A!Replies
  <2>5. CASE Says(done[t], v, f, w.flags)
    <3>1. PICK y \in Int : done[t] = <<y>> /\ v = Clean(y) /\ f = FlagsOf(y) \cup w.flags
      BY <2>5 DEF Says
    <3>2. A!WithFlags(y, w.flags) = [verdict |-> v, flags |-> f]
      <4>1. A!Clean(y) = Clean(y) /\ A!FlagsOf(y) = FlagsOf(y)
        BY DEF A!Clean, Clean, A!FlagsOf, FlagsOf, A!FlagUnit, FlagUnit
      <4>2. QED
        BY <3>1, <4>1 DEF A!WithFlags
    <3>3. 1 \in DOMAIN done[t] /\ done[t][1] = y
      BY <3>1
    <3>4. [verdict |-> v, flags |-> f] \in
            {A!WithFlags(done[t][i], g) : i \in DOMAIN done[t], g \in A!Flags(t)}
      BY <2>3, <3>2, <3>3
    <3>5. QED
      BY <3>4 DEF A!Replies
  <2>6. QED
    BY <2>1, <2>4, <2>5
<1>3. QED
  BY <1>1, <1>2

LEMMA ArbiterInit == Init => A!Init
BY DEF Init, M!Init, S!Init, S!N!Init, A!Init

LEMMA ArbiterStep == Core /\ Talk /\ Honest /\ [Next]_vars => [A!Next]_(A!vars)
<1> SUFFICES ASSUME Core, Talk, Honest, [Next]_vars
             PROVE  A!Next \/ UNCHANGED <<kern, done, written>>
  BY DEF A!vars
<1>1. TypeOK
  BY DEF Core
<1>2. CASE Policy \/ PolicyTerm \/ Upgrade \/ UNCHANGED vars \/ \E t \in Tokens : Timer(t)
  BY <1>2 DEF Policy, PolicyTerm, Timer, Upgrade, NotPolicy, NotUpgrade, vars, master, session
<1>3. CASE Session \/ Client \/ SessionTerm
  <2>1. UNCHANGED <<kern, written>>
    BY <1>3 DEF Session, Client, SessionTerm, NotSession, master
  <2>2. CASE done' = done
    BY <2>1, <2>2
  <2>3. ASSUME NEW t \in Tokens, NEW v \in Nat, Finishes(t, v) PROVE A!Next
    <3>1. head[t] # NoHead /\ v \in Decisions /\ done' = [done EXCEPT ![t] = <<v>>]
      BY <2>3 DEF Finishes
    <3>2. done[t] = <<>> /\ kern[t] # "idle"
      BY <1>1, <3>1 DEF TypeOK, NotifyOK, Talk, LineOK, Origin
    <3>3. v \in Verdicts \cup {A!DENY, A!NOBODY}
      BY <3>1 DEF Decisions, A!DENY, A!NOBODY
    <3>4. A!Decide(t)
      BY <2>1, <3>1, <3>2, <3>3 DEF A!Decide
    <3>5. QED
      BY <3>4 DEF A!Next
  <2>4. QED
    BY <1>1, <1>3, <2>2, <2>3, DecisionStep
<1>4. CASE Kernel
  <2>1. PICK t \in Tokens : M!Post(t) \/ M!ProcessExit(t)
    BY <1>4 DEF Kernel, M!Environment
  <2>2. UNCHANGED <<done, written>>
    BY <1>4, <2>1 DEF Kernel, NotMaster, session, M!Post, M!ProcessExit
  <2>3. A!Raise(t) \/ A!Leave(t)
    BY <2>1, <2>2 DEF A!Raise, A!Leave, M!Post, M!ProcessExit
  <2>4. QED
    BY <2>3 DEF A!Next
<1>5. CASE Master \/ Stop
  <2>1. done' = done
    BY <1>5 DEF Master, Stop, NotMaster, session
  <2>2. CASE M!WriteDev
    <3>1. PICK t \in Tokens, v \in Int, f \in FlagSets : DeviceGets(t, v, f)
      BY <2>2, WriteStep
    <3>2. [verdict |-> v, flags |-> f] \in A!Replies(t)
      BY <3>1, GoodReplies DEF DeviceGets
    <3>3. kern[t] \in {"waiting", "gone"} /\ written[t] = <<>>
      BY <1>1, <3>1 DEF DeviceGets, Good, Honest, AnswersOK, TypeOK, MasterOK
    <3>4. /\ written' = [written EXCEPT ![t] = <<[verdict |-> v, flags |-> f]>>]
          /\ kern' = [kern EXCEPT ![t] = IF @ = "waiting" THEN "done" ELSE @]
      BY <3>1 DEF DeviceGets
    <3>5. A!Reply(t)
      BY <2>1, <3>2, <3>3, <3>4, Zenon DEF A!Reply
    <3>6. QED
      BY <3>5 DEF A!Next
  <2>3. CASE ~M!WriteDev
    <3>1. UNCHANGED <<kern, written>>
      BY <1>5, <2>3 DEF Master, Stop, M!Handle, M!RecvKernel, M!EndOfEvents, M!RecvPolicy,
         M!RecvUpgrade, M!Shut, M!Exit, M!Sigterm, M!kernel
    <3>2. QED
      BY <2>1, <3>1
  <2>4. QED
    BY <2>2, <2>3
<1>6. QED
  BY <1>2, <1>3, <1>4, <1>5 DEF Next

\* To the kernel the daemon is the arbiter, for any events, rules, clients and
\* failures: each of its steps is a step of Arbiter (an event is raised, its
\* process leaves, the user decides, or the one reply is given, a reply the
\* arbiter may give), or invisible to the kernel.
THEOREM DaemonIsArbiter == Safe => ImplementsArbiter
<1>1. QED
  BY ArbiterInit, ArbiterStep, HonestInvariant, PTL DEF Safe, ImplementsArbiter, A!Safe
=============================================================================
