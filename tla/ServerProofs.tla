---------------------------- MODULE ServerProofs ----------------------------
(***************************************************************************)
(* Proofs about Server, for any number of sessions, users and requests.    *)
(*                                                                         *)
(* The properties talk about the request table, the sessions and the       *)
(* policy engine; what connects them is on the pipes.  The inductive       *)
(* invariant therefore says what the messages in transit may be: to which  *)
(* kind of request a token belongs, that the first message of a request    *)
(* comes before all others with its token, and that the policy engine has  *)
(* nothing of a request that it has answered.                              *)
(***************************************************************************)
EXTENDS Server, SequenceTheorems, TLAPS

-----------------------------------------------------------------------------
(* The inductive invariant                                                 *)

ReqRecs == [token: Nat \ {0}, sess: Sessions, end: BOOLEAN,
            kind: {"AUTH", "VERIFY", "POLICY", "LIST", "BADLIST", "CSUM"}]
Ops == {"GET", "SET", "BAD", "NONE"}
ChunkMsgs == [type: {"POLREQUEST"}, token: Nat \ {0}, uid: Int, start: BOOLEAN,
              end: BOOLEAN, op: Ops, target: Int]
AbortMsgs == [type: {"ABORT"}, token: Nat \ {0}]
PlainMsgs(types) == [type: types, token: Nat \ {0}, uid: Int]
ToPolicyMsgs == ChunkMsgs \cup AbortMsgs \cup PlainMsgs({"LIST", "BADLIST"})
VerifyMsgs == [type: {"VERIFY"}, token: Nat \ {0}, uid: Uids, good: BOOLEAN]
AuthMsgs == [type: {"AUTH"}, token: Nat \ {0}, uid: Uids]
ToMasterMsgs == VerifyMsgs \cup AuthMsgs \cup PlainMsgs({"CSUM"})
AnswerMsgs == [type: {"ANSWER"}, token: Nat \ {0}, end: BOOLEAN]
OutcomeMsgs == [type: {"CHALLENGE", "RESULT"}, token: Nat \ {0},
                what: {"open", "key", "refused"}, end: {TRUE}]

TypeOK ==
    /\ sess \in [Sessions -> SessionRecs \cup {NoSession}]
    /\ reqs \subseteq ReqRecs /\ nexttoken \in 0..MaxToken
    /\ asker \in [1..MaxToken -> Uids \cup {NOUID}]
    /\ s2p \in Seq(ToPolicyMsgs) /\ p2s \in Seq(AnswerMsgs)
    /\ s2m \in Seq(ToMasterMsgs) /\ m2s \in Seq(AnswerMsgs \cup OutcomeMsgs)
    /\ preqs \subseteq [token: Nat \ {0}, uid: Int, target: Int]
    /\ applied \subseteq [token: Nat \ {0}, target: Int]
    /\ granted \subseteq [token: Nat \ {0}, uid: Uids, kind: {"AUTH", "VERIFY"}]

\* The elements of a sequence.
Elems(q) == {q[i] : i \in DOMAIN q}

\* Tokens were handed out before they are used.
TokensOld ==
    /\ \A r \in reqs : r.token <= nexttoken
    /\ \A m \in Elems(s2p) : m.token <= nexttoken
    /\ \A m \in Elems(p2s) : m.token <= nexttoken
    /\ \A m \in Elems(s2m) : m.token <= nexttoken
    /\ \A m \in Elems(m2s) : m.token <= nexttoken
    /\ \A q \in preqs : q.token <= nexttoken
    /\ \A a \in applied : a.token <= nexttoken
    /\ \A s \in Sessions : sess[s] # NoSession /\ sess[s].auth # NoAuth =>
          sess[s].auth.token <= nexttoken

\* The request table: a token names one request, only policy requests may be
\* continued, and a request belongs to the user of its session.
TableOK ==
    /\ RequestsBelong
    /\ \A r, q \in reqs : r.token = q.token => r = q
    /\ \A r \in reqs : ~r.end => r.kind = "POLICY"
    /\ \A r \in reqs : asker[r.token] = sess[r.sess].euid

\* The kind of an open request fits the messages with its token.
KindsOK ==
    \A r \in reqs :
       /\ \A m \in Elems(s2p) : m.token = r.token =>
             r.kind = IF m.type = "POLREQUEST" THEN "POLICY" ELSE m.type
       /\ \A m \in Elems(p2s) : m.token = r.token =>
             r.kind \in {"POLICY", "LIST"}
       /\ \A m \in Elems(s2m) : m.token = r.token => r.kind = m.type
       /\ \A m \in Elems(m2s) : m.token = r.token =>
             IF m.type = "ANSWER" THEN r.kind = "CSUM" ELSE r.kind \in {"AUTH", "VERIFY"}
       /\ \A q \in preqs : q.token = r.token => r.kind = "POLICY"

\* A session before, in and after its authentication.
Waiting(s) == sess[s] # NoSession /\ sess[s].auth # NoAuth
              /\ sess[s].auth.state = "INPROGRESS"
SessionsOK ==
    \A s \in Sessions : sess[s] # NoSession =>
       /\ "AUTH" \notin sess[s].flags => sess[s].proto = {}
       /\ sess[s].auth # NoAuth => "AUTH" \notin sess[s].flags
       /\ Waiting(s) =>
             \A r \in reqs : r.sess = s \/ r.token = sess[s].auth.token =>
                /\ r.sess = s /\ r.token = sess[s].auth.token
                /\ r.kind \in {"AUTH", "VERIFY"}

\* AuthAlive, said without comparing Booleans.
AliveOK ==
    \A s \in Sessions : Waiting(s) =>
       /\ sess[s].auth.challenge => \A r \in reqs : r.token # sess[s].auth.token
       /\ ~sess[s].auth.challenge => \E r \in reqs : r.token = sess[s].auth.token

\* What the master was asked, and what it granted.
GrantsOK ==
    /\ \A m \in Elems(s2m) : m.type \in {"AUTH", "VERIFY"} => m.uid = asker[m.token]
    /\ \A m \in Elems(m2s) : m.type # "ANSWER" /\ m.what = "open" =>
          \E g \in granted : /\ g.token = m.token /\ g.uid = asker[m.token]
                             /\ KeyMode[g.uid] = "key" => g.kind = "VERIFY"

\* The first message of a request to the policy engine.
First(m) == m.type \in {"LIST", "BADLIST"} \/ (m.type = "POLREQUEST" /\ m.start)

\* The first message of a request is ahead of all others with its token and of
\* everything the policy engine does about it.
FirstOK ==
    /\ \A i, j \in DOMAIN s2p : i < j /\ First(s2p[j]) => s2p[i].token # s2p[j].token
    /\ \A m \in Elems(s2p) : First(m) =>
          /\ \A q \in preqs : q.token # m.token
          /\ \A a \in Elems(p2s) : a.token # m.token

\* A first chunk whose request is gone is followed by the abort.
AbortFollows ==
    \A i \in DOMAIN s2p : s2p[i].type = "POLREQUEST" /\ s2p[i].start =>
       \/ \E r \in reqs : r.token = s2p[i].token
       \/ \E j \in DOMAIN s2p : i < j /\ s2p[j].type = "ABORT"
                                /\ s2p[j].token = s2p[i].token

\* The policy engine: one entry per token, none that was answered.
EngineOK ==
    /\ \A q, r \in preqs : q.token = r.token => q = r
    /\ \A q \in preqs, a \in Elems(p2s) : q.token = a.token => ~a.end

\* Chunks name the user who made the request, and what the policy engine keeps
\* or has installed was allowed to that user.
OwnersOK ==
    /\ \A m \in Elems(s2p) : m.type = "POLREQUEST" /\ m.start => m.uid = asker[m.token]
    /\ \A q \in preqs : asker[q.token] \in {q.target, ROOT}
    /\ PolicyAuthorised

IInv == /\ TypeOK /\ TokensOld /\ TableOK /\ KindsOK
        /\ SessionsOK /\ AliveOK /\ GrantsOK /\ AuthSound
        /\ FirstOK /\ AbortFollows /\ NoOrphanRequest /\ EngineOK /\ OwnersOK

-----------------------------------------------------------------------------
(* Sequences                                                               *)

\* What is on a pipe after a message was sent.
LEMMA ElemsAppend ==
    ASSUME NEW S, NEW q \in Seq(S), NEW m \in S
    PROVE  /\ Append(q, m) \in Seq(S)
           /\ Elems(Append(q, m)) = Elems(q) \cup {m}
           /\ Len(Append(q, m)) = Len(q) + 1
           /\ \A i \in 1..Len(q) : Append(q, m)[i] = q[i]
           /\ Append(q, m)[Len(q) + 1] = m
           /\ DOMAIN q = 1..Len(q) /\ DOMAIN Append(q, m) = 1..(Len(q) + 1)
           /\ Len(q) \in Nat
<1>1. /\ Append(q, m) \in Seq(S) /\ Len(Append(q, m)) = Len(q) + 1
      /\ \A i \in 1..Len(q) : Append(q, m)[i] = q[i]
      /\ Append(q, m)[Len(q) + 1] = m
      /\ DOMAIN q = 1..Len(q) /\ DOMAIN Append(q, m) = 1..(Len(q) + 1)
      /\ Len(q) \in Nat
  OBVIOUS
<1>2. Elems(Append(q, m)) = Elems(q) \cup {m}
  BY <1>1 DEF Elems
<1>3. QED
  BY <1>1, <1>2

\* What is on a pipe after its first message was read.
LEMMA ElemsTail ==
    ASSUME NEW S, NEW q \in Seq(S), q # <<>>
    PROVE  /\ Tail(q) \in Seq(S) /\ Head(q) \in S /\ Head(q) \in Elems(q)
           /\ Elems(Tail(q)) \subseteq Elems(q)
           /\ Elems(q) = Elems(Tail(q)) \cup {Head(q)}
           /\ Head(q) = q[1]
           /\ DOMAIN q = 1..Len(q) /\ Len(q) \in Nat \ {0}
           /\ DOMAIN Tail(q) = 1..(Len(q) - 1)
           /\ \A i \in 1..(Len(q) - 1) : Tail(q)[i] = q[i + 1]
<1>1. /\ Tail(q) \in Seq(S) /\ Head(q) \in S /\ Head(q) = q[1]
      /\ DOMAIN q = 1..Len(q) /\ Len(q) \in Nat \ {0}
      /\ DOMAIN Tail(q) = 1..(Len(q) - 1)
      /\ \A i \in 1..(Len(q) - 1) : Tail(q)[i] = q[i + 1]
  OBVIOUS
<1>2. Head(q) \in Elems(q) /\ Elems(Tail(q)) \subseteq Elems(q)
  BY <1>1 DEF Elems
<1>3. \A i \in 1..Len(q) : i = 1 \/ (i - 1 \in 1..(Len(q) - 1) /\ q[i] = Tail(q)[i - 1])
  BY <1>1
<1>4. Elems(q) \subseteq Elems(Tail(q)) \cup {Head(q)}
  <2>1. SUFFICES ASSUME NEW i \in 1..Len(q), i # 1 PROVE q[i] \in Elems(Tail(q))
    BY <1>1 DEF Elems
  <2>2. i - 1 \in DOMAIN Tail(q) /\ q[i] = Tail(q)[i - 1]
    BY <1>1, <1>3, <2>1
  <2>3. QED
    BY <2>2 DEF Elems
<1>5. QED
  BY <1>1, <1>2, <1>4

\* What is on a pipe after several messages were sent.
LEMMA ElemsConcat ==
    ASSUME NEW S, NEW q \in Seq(S), NEW a \in Seq(S)
    PROVE  q \o a \in Seq(S) /\ Elems(q \o a) = Elems(q) \cup Elems(a)
<1>1. /\ q \o a \in Seq(S) /\ DOMAIN (q \o a) = 1..(Len(q) + Len(a))
      /\ DOMAIN q = 1..Len(q) /\ DOMAIN a = 1..Len(a)
      /\ Len(q) \in Nat /\ Len(a) \in Nat
      /\ \A i \in 1..(Len(q) + Len(a)) :
            (q \o a)[i] = IF i <= Len(q) THEN q[i] ELSE a[i - Len(q)]
  OBVIOUS
<1>2. Elems(q \o a) \subseteq Elems(q) \cup Elems(a)
  BY <1>1 DEF Elems
<1>3. Elems(q) \subseteq Elems(q \o a)
  BY <1>1 DEF Elems
<1>4. \A i \in 1..Len(a) : Len(q) + i \in 1..(Len(q) + Len(a)) /\ (q \o a)[Len(q) + i] = a[i]
  BY <1>1
<1>5. Elems(a) \subseteq Elems(q \o a)
  BY <1>1, <1>4 DEF Elems
<1>6. QED
  BY <1>1, <1>2, <1>3, <1>5

-----------------------------------------------------------------------------
(* Steps that change one session only                                      *)

\* What the steps of the connect protocol do to a session.
Progress(x, y) ==
    /\ y.euid = x.euid /\ y.open = x.open /\ y.uid = x.uid /\ y.by = x.by
    /\ y.attempt = x.attempt
    /\ "AUTH" \in y.flags <=> "AUTH" \in x.flags
    /\ "AUTH" \notin y.flags => y.proto = {}
    /\ \/ y.auth = x.auth \/ y.auth = NoAuth
       \/ "AUTH" \notin y.flags /\ y.auth # NoAuth
          /\ y.auth.state = "INIT" /\ y.auth.token = 0
Fresh(y) == y.auth = NoAuth /\ y.flags = {} /\ y.proto = {}

LEMMA SessionStep ==
    ASSUME IInv, OnlySession, NEW s \in Sessions, NEW y \in SessionRecs,
           sess' = [sess EXCEPT ![s] = y],
           IF sess[s] = NoSession THEN Fresh(y) ELSE Progress(sess[s], y)
    PROVE  IInv'
<1>1. UNCHANGED <<reqs, nexttoken, asker, s2p, p2s, s2m, m2s, preqs, applied, granted>>
  BY DEF OnlySession, table, pipes, engine
<1>2. TypeOK'
  BY <1>1 DEF IInv, TypeOK
<1>3. /\ sess'[s] = y /\ y # NoSession
      /\ \A k \in Sessions : k # s => sess'[k] = sess[k]
  BY ServerAssumption DEF IInv, TypeOK
<1>4. TokensOld'
  BY <1>1, <1>3 DEF IInv, TypeOK, TokensOld, Fresh, Progress
<1>5. \A r \in reqs : r.sess \in Sessions /\ (r.sess = s => sess[s] # NoSession)
  BY DEF IInv, TypeOK, TableOK, RequestsBelong, ReqRecs
<1>6. TableOK'
  BY <1>1, <1>3, <1>5 DEF IInv, TableOK, RequestsBelong, Progress
<1>7. KindsOK'
  BY <1>1 DEF IInv, KindsOK
<1>8. SessionsOK'
  BY <1>1, <1>3 DEF IInv, SessionsOK, Waiting, Fresh, Progress
<1>9. AliveOK'
  BY <1>1, <1>3 DEF IInv, AliveOK, Waiting, Fresh, Progress
<1>10. GrantsOK' /\ FirstOK' /\ AbortFollows' /\ NoOrphanRequest' /\ EngineOK' /\ OwnersOK'
  BY <1>1 DEF IInv, GrantsOK, FirstOK, AbortFollows, NoOrphanRequest, EngineOK,
              OwnersOK, PolicyAuthorised
<1>11. AuthSound'
  BY <1>1, <1>3 DEF IInv, AuthSound, Fresh, Progress
<1>12. QED
  BY <1>2, <1>4, <1>6, <1>7, <1>8, <1>9, <1>10, <1>11 DEF IInv

\* Connect, the connect protocol, and an authentication that starts or fails.
LEMMA ConnectSteps ==
    ASSUME IInv, NEW s \in Sessions,
           \/ \E u \in Uids : Connect(s, u)
           \/ VerSel(s) \/ OptReq(s) \/ CloseReq(s) \/ Auth(s)
           \/ \E p \in SUBSET {"POLICY", "NOTIFY"} \ {{}} : ProtoSel(s, p)
           \/ sess[s] # NoSession /\ FailNow(s, TRUE)
    PROVE  IInv'
<1>1. TypeOK /\ SessionsOK
  BY DEF IInv
<1>2. ASSUME NEW u \in Uids, Connect(s, u) PROVE IInv'
  <2> DEFINE y == [euid |-> u, flags |-> {}, proto |-> {}, auth |-> NoAuth,
                   uid |-> NOUID, open |-> TRUE, by |-> 0, attempt |-> 0]
  <2>1. y \in SessionRecs /\ Fresh(y)
    BY DEF SessionRecs, Fresh
  <2>2. sess[s] = NoSession /\ sess' = [sess EXCEPT ![s] = y] /\ OnlySession
    BY <1>2 DEF Connect
  <2> HIDE DEF y
  <2>3. QED
    BY <2>1, <2>2, SessionStep
<1>3. ASSUME sess[s] \in SessionRecs, OnlySession,
             NEW f \in {"VERSEL", "MULTIPLEX"}, SetFlag(s, f)
      PROVE  IInv'
  <2> DEFINE y == [sess[s] EXCEPT !.flags = @ \cup {f}]
  <2>1. y \in SessionRecs /\ Progress(sess[s], y)
    BY <1>1, <1>3, ServerAssumption DEF SessionRecs, Progress, SessionsOK
  <2>2. sess' = [sess EXCEPT ![s] = y]
    BY <1>1, <1>3 DEF SetFlag, TypeOK
  <2> HIDE DEF y
  <2>3. QED
    BY <1>3, <2>1, <2>2, SessionStep, ServerAssumption
<1>4. Open(s) => sess[s] \in SessionRecs
  BY <1>1 DEF TypeOK, Open
<1>5. CASE VerSel(s)
  BY <1>3, <1>4, <1>5 DEF VerSel, Connecting, MayStart
<1>6. CASE OptReq(s)
  BY <1>3, <1>4, <1>6 DEF OptReq, Connecting, MayStart
<1>7. CASE CloseReq(s)
  <2> DEFINE y == [sess[s] EXCEPT !.flags = @ \cup {"CLOSING"}, !.proto = @ \cap {"NOTIFY"}]
  <2>1. sess[s] \in SessionRecs
    BY <1>4, <1>7 DEF CloseReq, MayStart
  <2>2. /\ sess[s].proto \cap {"NOTIFY"} \in SUBSET {"POLICY", "NOTIFY"}
        /\ sess[s].proto = {} => sess[s].proto \cap {"NOTIFY"} = {}
    BY <2>1 DEF SessionRecs
  <2>5. y \in SessionRecs /\ Progress(sess[s], y)
    BY <1>1, <2>1, <2>2, ServerAssumption DEF SessionRecs, Progress, SessionsOK
  <2>3. sess' = [sess EXCEPT ![s] = y] /\ OnlySession
    BY <1>1, <1>7 DEF CloseReq, TypeOK
  <2> HIDE DEF y
  <2>4. QED
    BY <2>1, <2>5, <2>3, SessionStep, ServerAssumption
<1>8. CASE Auth(s)
  <2> DEFINE a == [state |-> "INIT", type |-> "NONE", challenge |-> FALSE, token |-> 0]
             y == [sess[s] EXCEPT !.auth = a]
  <2>1. sess[s] \in SessionRecs /\ "AUTH" \notin sess[s].flags
    BY <1>4, <1>8 DEF Auth, Connecting, MayStart
  <2>2. a \in AuthRecs
    BY DEF AuthRecs
  <2>3. y \in SessionRecs /\ Progress(sess[s], y)
    BY <1>1, <2>1, <2>2, ServerAssumption DEF SessionRecs, Progress, SessionsOK
  <2>4. sess' = [sess EXCEPT ![s] = y] /\ OnlySession
    BY <1>1, <1>8 DEF Auth, TypeOK
  <2> HIDE DEF y
  <2>5. QED
    BY <2>1, <2>3, <2>4, SessionStep, ServerAssumption
<1>9. ASSUME NEW p \in SUBSET {"POLICY", "NOTIFY"}, ProtoSel(s, p) PROVE IInv'
  <2> DEFINE y == [sess[s] EXCEPT !.proto = p]
  <2>1. sess[s] \in SessionRecs /\ "AUTH" \in sess[s].flags
    BY <1>4, <1>9 DEF ProtoSel, Connecting, MayStart
  <2>2. y \in SessionRecs /\ Progress(sess[s], y)
    BY <1>1, <2>1 DEF SessionRecs, Progress
  <2>3. sess' = [sess EXCEPT ![s] = y] /\ OnlySession
    BY <1>1, <1>9 DEF ProtoSel, TypeOK
  <2> HIDE DEF y
  <2>4. QED
    BY <2>1, <2>2, <2>3, SessionStep, ServerAssumption
<1>10. CASE sess[s] # NoSession /\ FailNow(s, TRUE)
  <2> DEFINE y == [sess[s] EXCEPT !.auth = NoAuth]
  <2>1. sess[s] \in SessionRecs
    BY <1>1, <1>10 DEF TypeOK
  <2>2. y \in SessionRecs /\ Progress(sess[s], y)
    BY <1>1, <2>1, ServerAssumption DEF SessionRecs, Progress, SessionsOK
  <2>3. sess' = [sess EXCEPT ![s] = y] /\ OnlySession
    BY <1>10 DEF FailNow, Finish, OnlySession, pipes
  <2> HIDE DEF y
  <2>4. QED
    BY <2>1, <2>2, <2>3, SessionStep, ServerAssumption
<1>11. QED
  BY <1>2, <1>5, <1>6, <1>7, <1>8, <1>9, <1>10

-----------------------------------------------------------------------------
(* A session or its channel goes                                           *)

\* The requests of a session are its only one.
LEMMA OneRequest ==
    ASSUME IInv, NEW s \in Sessions
    PROVE  /\ Gone(s) = RequestsOf(s)
           /\ \A r \in RequestsOf(s) : RequestsOf(s) = {r} /\ (CHOOSE x \in {r} : TRUE) = r
<1>1. \A r, q \in RequestsOf(s) : r = q
  BY DEF IInv, TableOK, RequestsBelong, RequestsOf
<1>2. \A r \in RequestsOf(s) : r.token \in Nat
  BY DEF IInv, TypeOK, ReqRecs, RequestsOf
<1>3. QED
  BY <1>1, <1>2 DEF Gone

\* anoubis_policy_comm_destroy: the request goes, and an open policy request
\* is aborted.
LEMMA DestroyStep ==
    ASSUME IInv, NEW s \in Sessions, CommDestroy(s),
           UNCHANGED <<p2s, s2m, m2s, engine, granted>>,
           NEW y \in SessionRecs \cup {NoSession}, sess' = [sess EXCEPT ![s] = y],
           y # NoSession =>
              /\ sess[s] # NoSession /\ y.auth = NoAuth
              /\ y.euid = sess[s].euid /\ y.uid = sess[s].uid /\ y.by = sess[s].by
              /\ y.attempt = sess[s].attempt /\ y.proto = sess[s].proto
              /\ "AUTH" \in y.flags <=> "AUTH" \in sess[s].flags
    PROVE  IInv'
<1>1. UNCHANGED <<nexttoken, asker, p2s, s2m, m2s, preqs, applied, granted>>
  BY DEF engine, CommDestroy
<1>2. /\ reqs' = reqs \ RequestsOf(s)
      /\ \/ s2p' = s2p /\ \A r \in RequestsOf(s) : r.kind # "POLICY"
         \/ \E r \in RequestsOf(s) :
               RequestsOf(s) = {r} /\ s2p' = Append(s2p, [type |-> "ABORT", token |-> r.token])
  <2>1. CASE \A r \in RequestsOf(s) : r.kind # "POLICY"
    <3>1. Aborts(RequestsOf(s)) = <<>>
      BY <2>1 DEF Aborts
    <3>2. s2p \o <<>> = s2p
      BY DEF IInv, TypeOK
    <3>3. QED
      BY <2>1, <3>1, <3>2, OneRequest DEF CommDestroy
  <2>2. ASSUME NEW r \in RequestsOf(s), r.kind = "POLICY"
        PROVE  /\ reqs' = reqs \ RequestsOf(s) /\ RequestsOf(s) = {r}
               /\ s2p' = Append(s2p, [type |-> "ABORT", token |-> r.token])
    <3>1. RequestsOf(s) = {r} /\ (CHOOSE x \in RequestsOf(s) : TRUE) = r
      BY OneRequest
    <3>2. Aborts(RequestsOf(s)) = <<[type |-> "ABORT", token |-> r.token]>>
      BY <2>2, <3>1 DEF Aborts
    <3>3. s2p \o <<[type |-> "ABORT", token |-> r.token]>>
            = Append(s2p, [type |-> "ABORT", token |-> r.token])
      BY DEF IInv, TypeOK
    <3>4. QED
      BY <3>1, <3>2, <3>3, OneRequest DEF CommDestroy
  <2>3. QED
    BY <2>1, <2>2
<1>3. /\ sess'[s] = y
      /\ \A k \in Sessions : k # s => sess'[k] = sess[k]
      /\ \A r \in reqs' : r \in reqs /\ r.sess # s
      /\ \A r \in reqs : r.sess \in Sessions /\ r.token \in Nat \ {0}
  BY <1>2 DEF IInv, TypeOK, RequestsOf, ReqRecs
<1>4. /\ s2p' \in Seq(ToPolicyMsgs)
      /\ \A m \in Elems(s2p') : m \in Elems(s2p)
              \/ (m.type = "ABORT" /\ \E r \in RequestsOf(s) : m.token = r.token)
      /\ DOMAIN s2p = 1..Len(s2p) /\ Len(s2p) \in Nat
      /\ DOMAIN s2p' \in {1..Len(s2p), 1..(Len(s2p) + 1)}
      /\ \A i \in DOMAIN s2p : s2p'[i] = s2p[i] /\ i \in DOMAIN s2p'
      /\ Len(s2p) + 1 \in DOMAIN s2p' => s2p'[Len(s2p) + 1].type = "ABORT"
      /\ \A r \in RequestsOf(s) : r.kind = "POLICY" =>
            /\ Len(s2p) + 1 \in DOMAIN s2p'
            /\ s2p'[Len(s2p) + 1] = [type |-> "ABORT", token |-> r.token]
  <2>1. s2p \in Seq(ToPolicyMsgs)
    BY DEF IInv, TypeOK
  <2>2. CASE s2p' = s2p /\ \A r \in RequestsOf(s) : r.kind # "POLICY"
    BY <2>1, <2>2
  <2>3. CASE \E r \in RequestsOf(s) :
               RequestsOf(s) = {r} /\ s2p' = Append(s2p, [type |-> "ABORT", token |-> r.token])
    <3>1. PICK r \in RequestsOf(s) :
               RequestsOf(s) = {r} /\ s2p' = Append(s2p, [type |-> "ABORT", token |-> r.token])
      BY <2>3
    <3>2. [type |-> "ABORT", token |-> r.token] \in ToPolicyMsgs
      BY <1>3 DEF ToPolicyMsgs, AbortMsgs, RequestsOf
    <3>3. QED
      BY <2>1, <3>1, <3>2, ElemsAppend
  <2>4. QED
    BY <1>2, <2>2, <2>3
<1>5. TypeOK'
  BY <1>1, <1>3, <1>4 DEF IInv, TypeOK
<1>6. TokensOld'
  BY <1>1, <1>3, <1>4 DEF IInv, TokensOld, RequestsOf
<1>7. TableOK'
  BY <1>1, <1>3 DEF IInv, TableOK, RequestsBelong
<1>8. \A r \in reqs', q \in RequestsOf(s) : r.token # q.token
  BY <1>3 DEF IInv, TableOK, RequestsOf
<1>9. KindsOK'
  BY <1>1, <1>3, <1>4, <1>8 DEF IInv, KindsOK
<1>10. SessionsOK'
  BY <1>1, <1>3 DEF IInv, SessionsOK, Waiting
<1>11. AliveOK'
  <2>1. SUFFICES ASSUME NEW k \in Sessions, Waiting(k)'
                 PROVE  /\ sess'[k].auth.challenge => \A r \in reqs' : r.token # sess'[k].auth.token
                        /\ ~sess'[k].auth.challenge => \E r \in reqs' : r.token = sess'[k].auth.token
    BY DEF AliveOK
  <2>2. k # s /\ sess'[k] = sess[k] /\ Waiting(k)
    BY <1>3, <2>1 DEF Waiting
  <2>3. \A r \in reqs : r.token = sess[k].auth.token => r \in reqs'
    BY <1>2, <2>2 DEF IInv, SessionsOK, RequestsOf, Waiting
  <2>4. QED
    BY <1>3, <2>2, <2>3 DEF IInv, AliveOK
<1>12. GrantsOK' /\ AuthSound'
  BY <1>1, <1>3 DEF IInv, GrantsOK, AuthSound
<1>13. FirstOK'
  <2>1. \A j \in DOMAIN s2p' : First(s2p'[j]) => j \in DOMAIN s2p
    BY <1>4 DEF First
  <2>2. QED
    BY <1>1, <1>4, <2>1 DEF IInv, FirstOK, First
<1>14. AbortFollows'
  <2>1. SUFFICES ASSUME NEW i \in DOMAIN s2p', s2p'[i].type = "POLREQUEST", s2p'[i].start
                 PROVE  \/ \E r \in reqs' : r.token = s2p'[i].token
                        \/ \E j \in DOMAIN s2p' : i < j /\ s2p'[j].type = "ABORT"
                                                  /\ s2p'[j].token = s2p'[i].token
    BY DEF AbortFollows
  <2>2. i \in DOMAIN s2p /\ s2p'[i] = s2p[i] /\ i <= Len(s2p) /\ s2p[i] \in Elems(s2p)
    BY <1>4, <2>1 DEF Elems
  <2>3. CASE \E j \in DOMAIN s2p : i < j /\ s2p[j].type = "ABORT" /\ s2p[j].token = s2p[i].token
    BY <1>4, <2>2, <2>3
  <2>4. CASE \E r \in reqs : r.token = s2p[i].token
    <3> PICK r \in reqs : r.token = s2p[i].token
      BY <2>4
    <3>1. r.kind = "POLICY"
      BY <2>1, <2>2, <2>4 DEF IInv, KindsOK
    <3>2. CASE r \in RequestsOf(s)
      <4>1. Len(s2p) + 1 \in DOMAIN s2p' /\ s2p'[Len(s2p) + 1] = [type |-> "ABORT", token |-> r.token]
        BY <1>4, <3>1, <3>2
      <4>2. i < Len(s2p) + 1
        BY <1>4, <2>2
      <4>3. QED
        BY <2>2, <4>1, <4>2
    <3>3. CASE r \notin RequestsOf(s)
      BY <1>2, <2>2, <2>4, <3>3
    <3>4. QED
      BY <3>2, <3>3
  <2>5. QED
    BY <2>1, <2>2, <2>3, <2>4 DEF IInv, AbortFollows
<1>15. NoOrphanRequest'
  <2>1. SUFFICES ASSUME NEW q \in preqs
                 PROVE  \/ \E r \in reqs' : r.token = q.token
                        \/ \E i \in DOMAIN s2p' : s2p'[i].type = "ABORT" /\ s2p'[i].token = q.token
    BY <1>1 DEF NoOrphanRequest
  <2>2. CASE \E i \in DOMAIN s2p : s2p[i].type = "ABORT" /\ s2p[i].token = q.token
    BY <1>4, <2>2
  <2>3. CASE \E r \in reqs : r.token = q.token
    <3> PICK r \in reqs : r.token = q.token
      BY <2>3
    <3>1. r.kind = "POLICY"
      BY DEF IInv, KindsOK
    <3>2. CASE r \in RequestsOf(s)
      <4>1. Len(s2p) + 1 \in DOMAIN s2p' /\ s2p'[Len(s2p) + 1] = [type |-> "ABORT", token |-> r.token]
        BY <1>4, <3>1, <3>2
      <4>2. QED
        BY <4>1
    <3>3. CASE r \notin RequestsOf(s)
      BY <1>2, <3>3
    <3>4. QED
      BY <3>2, <3>3
  <2>4. QED
    BY <2>2, <2>3 DEF IInv, NoOrphanRequest
<1>16. EngineOK' /\ OwnersOK'
  BY <1>1, <1>4 DEF IInv, EngineOK, OwnersOK, PolicyAuthorised
<1>17. QED
  BY <1>5, <1>6, <1>7, <1>9, <1>10, <1>11, <1>12, <1>13, <1>14, <1>15, <1>16 DEF IInv

-----------------------------------------------------------------------------
(* New requests                                                            *)

\* Every message has a token.
LEMMA TokensTyped ==
    ASSUME IInv
    PROVE  /\ \A x \in Elems(s2p) : x \in ToPolicyMsgs /\ x.token \in Nat \ {0}
           /\ \A x \in Elems(s2m) : x \in ToMasterMsgs /\ x.token \in Nat \ {0}
           /\ \A x \in Elems(p2s) : x \in AnswerMsgs /\ x.token \in Nat \ {0}
           /\ \A x \in Elems(m2s) : x \in AnswerMsgs \cup OutcomeMsgs /\ x.token \in Nat \ {0}
<1>1. /\ \A x \in Elems(s2p) : x \in ToPolicyMsgs
      /\ \A x \in Elems(s2m) : x \in ToMasterMsgs
      /\ \A x \in Elems(p2s) : x \in AnswerMsgs
      /\ \A x \in Elems(m2s) : x \in AnswerMsgs \cup OutcomeMsgs
  BY DEF IInv, TypeOK, Elems
<1>2. QED
  BY <1>1 DEF ToPolicyMsgs, ChunkMsgs, AbortMsgs, PlainMsgs, ToMasterMsgs, AuthMsgs,
              VerifyMsgs, AnswerMsgs, OutcomeMsgs

\* What a new request leaves as it was.
LEMMA AddFacts ==
    ASSUME IInv, NEW s \in Sessions, NEW kind, NEW end, Open(s), AddRequest(s, kind, end)
    PROVE  /\ nexttoken' = nexttoken + 1 /\ nexttoken' \in 1..MaxToken
           /\ reqs' = reqs \cup {[token |-> nexttoken', sess |-> s, kind |-> kind, end |-> end]}
           /\ asker' \in [1..MaxToken -> Uids \cup {NOUID}]
           /\ \A t \in Nat \ {0} : t <= nexttoken => asker'[t] = asker[t]
           /\ asker'[nexttoken'] = sess[s].euid /\ sess[s] \in SessionRecs
<1>1. nexttoken \in Nat /\ nexttoken <= MaxToken /\ MaxToken \in Nat /\ sess[s] \in SessionRecs
  BY ServerAssumption DEF IInv, TypeOK, Open
<1>2. /\ nexttoken < MaxToken /\ nexttoken' = nexttoken + 1
      /\ asker' = [asker EXCEPT ![nexttoken'] = sess[s].euid]
      /\ asker \in [1..MaxToken -> Uids \cup {NOUID}]
      /\ reqs' = reqs \cup {[token |-> nexttoken', sess |-> s, kind |-> kind, end |-> end]}
  BY DEF AddRequest, IInv, TypeOK
<1>3. sess[s].euid \in Uids
  BY <1>1 DEF SessionRecs
<1>4. QED
  BY <1>1, <1>2, <1>3

\* A request of kind k, sent to the policy engine or to the master as m.
Sends(m, k) ==
    \/ /\ s2p' = Append(s2p, m) /\ UNCHANGED s2m /\ m \in ToPolicyMsgs
       /\ k = IF m.type = "POLREQUEST" THEN "POLICY" ELSE m.type
    \/ s2m' = Append(s2m, m) /\ UNCHANGED s2p /\ m \in ToMasterMsgs /\ k = m.type

LEMMA AddStep ==
    ASSUME IInv, NEW s \in Sessions, NEW kind \in {"AUTH", "VERIFY", "POLICY", "LIST", "BADLIST", "CSUM"},
           NEW end \in BOOLEAN, ~end => kind = "POLICY",
           Open(s), ~Busy(s), AddRequest(s, kind, end),
           UNCHANGED <<p2s, m2s, engine, granted>>,
           NEW m, Sends(m, kind), m.token = nexttoken',
           m.type \in {"POLREQUEST", "AUTH", "VERIFY"} => m.uid = sess[s].euid,
           \/ sess' = sess /\ "AUTH" \in sess[s].flags
           \/ /\ kind \in {"AUTH", "VERIFY"} /\ "AUTH" \notin sess[s].flags
              /\ \E a \in AuthRecs :
                    /\ sess' = [sess EXCEPT ![s] = [sess[s] EXCEPT !.auth = a]]
                    /\ a.state = "INPROGRESS" /\ ~a.challenge /\ a.token = nexttoken'
    PROVE  IInv'
<1> DEFINE r0 == [token |-> nexttoken', sess |-> s, kind |-> kind, end |-> end]
<1>1. UNCHANGED <<p2s, m2s, preqs, applied, granted>>
  BY DEF engine
<1>2. /\ nexttoken' = nexttoken + 1 /\ nexttoken' \in 1..MaxToken
      /\ reqs' = reqs \cup {r0} /\ r0 \in ReqRecs
      /\ asker' \in [1..MaxToken -> Uids \cup {NOUID}]
      /\ \A t \in Nat \ {0} : t <= nexttoken => asker'[t] = asker[t]
      /\ asker'[nexttoken'] = sess[s].euid /\ sess[s] \in SessionRecs
      /\ nexttoken \in Nat
  <2>1. nexttoken \in Nat
    BY DEF IInv, TypeOK
  <2>2. QED
    BY <2>1, AddFacts DEF ReqRecs
<1>3. /\ sess' \in [Sessions -> SessionRecs \cup {NoSession}]
      /\ \A k \in Sessions \ {s} : sess'[k] = sess[k]
      /\ sess'[s] \in SessionRecs /\ sess'[s] # NoSession /\ sess[s] # NoSession
      /\ sess'[s].euid = sess[s].euid /\ sess'[s].flags = sess[s].flags
      /\ sess'[s].proto = sess[s].proto /\ sess'[s].uid = sess[s].uid
      /\ sess'[s].open = sess[s].open /\ sess'[s].by = sess[s].by
      /\ sess'[s].attempt = sess[s].attempt /\ sess'[s].open
  <2>1. sess \in [Sessions -> SessionRecs \cup {NoSession}] /\ sess[s].open
    BY DEF IInv, TypeOK, Open
  <2>2. CASE sess' = sess
    BY <1>2, <2>1, <2>2, ServerAssumption
  <2>3. CASE \E a \in AuthRecs : sess' = [sess EXCEPT ![s] = [sess[s] EXCEPT !.auth = a]]
    <3>1. PICK a \in AuthRecs : sess' = [sess EXCEPT ![s] = [sess[s] EXCEPT !.auth = a]]
      BY <2>3
    <3> DEFINE y == [sess[s] EXCEPT !.auth = a]
    <3>2. /\ y \in SessionRecs /\ y.euid = sess[s].euid /\ y.flags = sess[s].flags
          /\ y.proto = sess[s].proto /\ y.uid = sess[s].uid /\ y.open = sess[s].open
          /\ y.by = sess[s].by /\ y.attempt = sess[s].attempt
      BY <1>2 DEF SessionRecs
    <3>3. sess' = [sess EXCEPT ![s] = y]
      BY <3>1
    <3> HIDE DEF y
    <3>4. QED
      BY <1>2, <2>1, <3>2, <3>3, ServerAssumption
  <2>4. QED
    BY <2>2, <2>3
<1>4. IF sess' = sess THEN "AUTH" \in sess'[s].flags
      ELSE /\ sess'[s].auth # NoAuth /\ sess'[s].auth.state = "INPROGRESS"
           /\ ~sess'[s].auth.challenge /\ sess'[s].auth.token = nexttoken'
           /\ "AUTH" \notin sess'[s].flags /\ kind \in {"AUTH", "VERIFY"}
  <2>1. CASE sess' = sess /\ "AUTH" \in sess[s].flags
    BY <2>1
  <2>2. CASE \E a \in AuthRecs :
               /\ sess' = [sess EXCEPT ![s] = [sess[s] EXCEPT !.auth = a]]
               /\ a.state = "INPROGRESS" /\ ~a.challenge /\ a.token = nexttoken'
               /\ kind \in {"AUTH", "VERIFY"} /\ "AUTH" \notin sess[s].flags
    <3>1. PICK a \in AuthRecs :
               /\ sess' = [sess EXCEPT ![s] = [sess[s] EXCEPT !.auth = a]]
               /\ a.state = "INPROGRESS" /\ ~a.challenge /\ a.token = nexttoken'
               /\ kind \in {"AUTH", "VERIFY"} /\ "AUTH" \notin sess[s].flags
      BY <2>2
    <3>2. [sess[s] EXCEPT !.auth = a].auth = a
      BY <1>2 DEF SessionRecs
    <3>3. sess'[s] = [sess[s] EXCEPT !.auth = a]
      BY <3>1 DEF IInv, TypeOK
    <3>4. sess'[s].auth = a /\ a # NoAuth
      BY <3>2, <3>3, ServerAssumption
    <3>5. sess[s].auth # NoAuth => sess[s].auth.token <= nexttoken
      BY <1>3 DEF IInv, TokensOld
    <3>8. ~(a.token <= nexttoken)
      BY <1>2, <3>1
    <3>6. sess' # sess
      <4>1. SUFFICES ASSUME sess' = sess PROVE FALSE
        OBVIOUS
      <4>2. sess[s].auth = a
        BY <3>4, <4>1
      <4>3. QED
        BY <3>4, <3>5, <3>8, <4>2
    <3>7. QED
      BY <1>3, <3>1, <3>4, <3>6
  <2>3. QED
    BY <2>1, <2>2
<1>5. /\ s2p' \in Seq(ToPolicyMsgs) /\ s2m' \in Seq(ToMasterMsgs)
      /\ \A x \in Elems(s2p') : x \in Elems(s2p) \/ (x = m /\ m \in ToPolicyMsgs)
      /\ \A x \in Elems(s2m') : x \in Elems(s2m) \/ (x = m /\ m \in ToMasterMsgs)
      /\ DOMAIN s2p = 1..Len(s2p) /\ Len(s2p) \in Nat
      /\ DOMAIN s2p' \in {1..Len(s2p), 1..(Len(s2p) + 1)}
      /\ \A i \in DOMAIN s2p : s2p'[i] = s2p[i] /\ i \in DOMAIN s2p' /\ s2p[i] \in Elems(s2p)
      /\ Len(s2p) + 1 \in DOMAIN s2p' => s2p'[Len(s2p) + 1] = m
  <2>1. s2p \in Seq(ToPolicyMsgs) /\ s2m \in Seq(ToMasterMsgs)
    BY DEF IInv, TypeOK
  <2>2. CASE s2p' = Append(s2p, m) /\ s2m' = s2m /\ m \in ToPolicyMsgs
    BY <2>1, <2>2, ElemsAppend DEF Elems
  <2>3. CASE s2m' = Append(s2m, m) /\ s2p' = s2p /\ m \in ToMasterMsgs
    BY <2>1, <2>3, ElemsAppend DEF Elems
  <2>4. QED
    BY <2>2, <2>3 DEF Sends
<1>6. TypeOK'
  BY <1>1, <1>2, <1>3, <1>5 DEF IInv, TypeOK
<1>7. TokensOld'
  <2>1. \A t \in Nat : t <= nexttoken => t <= nexttoken'
    BY <1>2
  <2>2. \A k \in Sessions : sess'[k] # NoSession /\ sess'[k].auth # NoAuth =>
           sess'[k].auth.token <= nexttoken'
    <3>1. SUFFICES ASSUME NEW k \in Sessions, sess'[k] # NoSession, sess'[k].auth # NoAuth
                   PROVE  sess'[k].auth.token <= nexttoken'
      OBVIOUS
    <3>2. CASE sess'[k] = sess[k]
      <4>1. sess[k].auth.token \in Nat /\ sess[k].auth.token <= nexttoken
        BY <3>1, <3>2 DEF IInv, TypeOK, TokensOld, AuthRecs, SessionRecs
      <4>2. QED
        BY <2>1, <3>2, <4>1
    <3>3. CASE sess'[k] # sess[k]
      BY <1>2, <1>3, <1>4, <3>3
    <3>4. QED
      BY <3>2, <3>3
  <2>3. /\ \A r \in reqs' : r.token <= nexttoken'
        /\ \A q \in preqs : q.token <= nexttoken'
        /\ \A a \in applied : a.token <= nexttoken'
    BY <1>2, <2>1 DEF IInv, TypeOK, TokensOld, ReqRecs
  <2>4. /\ \A x \in Elems(s2p) : x.token \in Nat /\ x.token <= nexttoken
        /\ \A x \in Elems(s2m) : x.token \in Nat /\ x.token <= nexttoken
        /\ \A x \in Elems(p2s) : x.token \in Nat /\ x.token <= nexttoken
        /\ \A x \in Elems(m2s) : x.token \in Nat /\ x.token <= nexttoken
    BY TokensTyped DEF IInv, TokensOld
  <2>5. /\ \A x \in Elems(s2p') : x.token <= nexttoken'
        /\ \A x \in Elems(s2m') : x.token <= nexttoken'
    <3>1. m.token <= nexttoken'
      BY <1>2
    <3>2. \A x \in Elems(s2p) \cup Elems(s2m) : x.token <= nexttoken'
      BY <2>1, <2>4
    <3>3. QED
      BY <1>5, <3>1, <3>2
  <2>6. /\ \A x \in Elems(p2s) : x.token <= nexttoken'
        /\ \A x \in Elems(m2s) : x.token <= nexttoken'
    BY <2>1, <2>4
  <2>7. QED
    BY <1>1, <2>2, <2>3, <2>5, <2>6 DEF TokensOld
<1>8. /\ \A r \in reqs : r.sess \in Sessions /\ r.token \in Nat \ {0} /\ r.token <= nexttoken /\ r.sess # s
      /\ \A x \in Elems(s2p) : x.token \in Nat \ {0} /\ x.token <= nexttoken
      /\ \A x \in Elems(s2m) : x.token \in Nat \ {0} /\ x.token <= nexttoken
      /\ \A x \in Elems(p2s) : x.token \in Nat \ {0} /\ x.token <= nexttoken
      /\ \A x \in Elems(m2s) : x.token \in Nat \ {0} /\ x.token <= nexttoken
      /\ \A q \in preqs : q.token \in Nat \ {0} /\ q.token <= nexttoken
      /\ \A a \in applied : a.token \in Nat \ {0} /\ a.token <= nexttoken
  <2>1. \A r \in reqs : r.sess \in Sessions /\ r.token \in Nat \ {0} /\ r.token <= nexttoken /\ r.sess # s
    BY DEF IInv, TypeOK, TokensOld, ReqRecs, Busy, RequestsOf
  <2>2. QED
    BY <2>1, TokensTyped DEF IInv, TypeOK, TokensOld
<1> HIDE DEF r0
<1>9. r0.token = nexttoken' /\ r0.sess = s /\ r0.kind = kind /\ r0.end = end
  BY DEF r0
<1>10. TableOK'
  <2>1. /\ \A r \in reqs' : sess'[r.sess] # NoSession /\ sess'[r.sess].open
        /\ \A r, q \in reqs' : r.sess = q.sess => r = q
    BY <1>2, <1>3, <1>8, <1>9 DEF IInv, TableOK, RequestsBelong
  <2>2. \A r \in reqs : asker'[r.token] = asker[r.token] /\ sess'[r.sess] = sess[r.sess]
    BY <1>2, <1>3, <1>8
  <2>3. QED
    BY <1>2, <1>3, <1>8, <1>9, <2>1, <2>2 DEF IInv, TableOK, RequestsBelong
<1>11. KindsOK'
  <2>1. ASSUME NEW r \in reqs
        PROVE  /\ \A x \in Elems(s2p') : x.token = r.token => x \in Elems(s2p)
               /\ \A x \in Elems(s2m') : x.token = r.token => x \in Elems(s2m)
    BY <1>2, <1>5, <1>8
  <2>2. /\ \A x \in Elems(s2p') : x.token = r0.token =>
               x = m /\ m \in ToPolicyMsgs
        /\ \A x \in Elems(s2m') : x.token = r0.token => x = m /\ m \in ToMasterMsgs
    BY <1>2, <1>5, <1>8, <1>9
  <2>3. /\ m \in ToPolicyMsgs => kind = IF m.type = "POLREQUEST" THEN "POLICY" ELSE m.type
        /\ m \in ToMasterMsgs => kind = m.type
    BY DEF Sends, ToPolicyMsgs, ChunkMsgs, AbortMsgs, PlainMsgs, ToMasterMsgs, AuthMsgs, VerifyMsgs
  <2>4. /\ \A x \in Elems(p2s) : x.token # r0.token
        /\ \A x \in Elems(m2s) : x.token # r0.token
        /\ \A q \in preqs : q.token # r0.token
    BY <1>2, <1>8, <1>9
  <2>5. QED
    BY <1>1, <1>2, <1>9, <2>1, <2>2, <2>3, <2>4 DEF IInv, KindsOK
<1>12. SessionsOK'
  <2>1. \A k \in Sessions \ {s} : Waiting(k) => sess[k].auth.token # nexttoken'
    BY <1>2 DEF IInv, TypeOK, TokensOld, Waiting, SessionRecs, AuthRecs
  <2>2. ASSUME NEW k \in Sessions \ {s}, Waiting(k)', NEW r \in reqs',
               r.sess = k \/ r.token = sess'[k].auth.token
        PROVE  r.sess = k /\ r.token = sess'[k].auth.token /\ r.kind \in {"AUTH", "VERIFY"}
    <3>1. sess'[k] = sess[k] /\ Waiting(k)
      BY <1>3, <2>2 DEF Waiting
    <3>2. r \in reqs
      BY <1>2, <1>9, <2>1, <2>2, <3>1
    <3>3. QED
      BY <2>2, <3>1, <3>2 DEF IInv, SessionsOK, Waiting
  <2>3. ASSUME Waiting(s)', NEW r \in reqs', r.sess = s \/ r.token = sess'[s].auth.token
        PROVE  r.sess = s /\ r.token = sess'[s].auth.token /\ r.kind \in {"AUTH", "VERIFY"}
    <3>1. sess' # sess
      BY <1>2, <1>3, <1>4, <2>3 DEF IInv, SessionsOK, Waiting
    <3>2. r = r0
      BY <1>2, <1>4, <1>8, <2>3, <3>1
    <3>3. QED
      BY <1>4, <1>9, <3>1, <3>2
  <2>4. \A k \in Sessions : sess'[k] # NoSession =>
           /\ "AUTH" \notin sess'[k].flags => sess'[k].proto = {}
           /\ sess'[k].auth # NoAuth => "AUTH" \notin sess'[k].flags
    BY <1>2, <1>3, <1>4 DEF IInv, SessionsOK
  <2>5. QED
    BY <2>2, <2>3, <2>4 DEF SessionsOK
<1>13. AliveOK'
  <2>1. SUFFICES ASSUME NEW k \in Sessions, Waiting(k)'
                 PROVE  /\ sess'[k].auth.challenge => \A r \in reqs' : r.token # sess'[k].auth.token
                        /\ ~sess'[k].auth.challenge => \E r \in reqs' : r.token = sess'[k].auth.token
    BY DEF AliveOK
  <2>2. CASE k = s
    <3>1. sess' # sess
      BY <1>2, <1>3, <1>4, <2>1, <2>2 DEF IInv, SessionsOK, Waiting
    <3>2. QED
      BY <1>2, <1>4, <1>9, <2>2, <3>1
  <2>3. CASE k # s
    <3>1. sess'[k] = sess[k] /\ Waiting(k)
      BY <1>3, <2>1, <2>3 DEF Waiting
    <3>2. sess[k].auth.token # r0.token
      BY <1>2, <1>9, <3>1 DEF IInv, TypeOK, TokensOld, Waiting, SessionRecs, AuthRecs
    <3>3. QED
      BY <1>2, <3>1, <3>2 DEF IInv, AliveOK
  <2>4. QED
    BY <2>2, <2>3
<1>14. GrantsOK'
  BY <1>1, <1>2, <1>5, <1>8 DEF IInv, GrantsOK
<1>15. AuthSound'
  BY <1>1, <1>3 DEF IInv, AuthSound
<1>16. FirstOK'
  <2>1. \A i, j \in DOMAIN s2p' : i < j /\ First(s2p'[j]) => s2p'[i].token # s2p'[j].token
    <3>1. SUFFICES ASSUME NEW i \in DOMAIN s2p', NEW j \in DOMAIN s2p', i < j, First(s2p'[j])
                   PROVE  s2p'[i].token # s2p'[j].token
      OBVIOUS
    <3>2. i \in DOMAIN s2p /\ (j \in DOMAIN s2p \/ j = Len(s2p) + 1)
      BY <1>5, <3>1
    <3>3. CASE j \in DOMAIN s2p
      BY <1>5, <3>1, <3>2, <3>3 DEF IInv, FirstOK
    <3>4. CASE j = Len(s2p) + 1
      <4>1. s2p'[j].token = nexttoken' /\ s2p'[i] \in Elems(s2p)
        BY <1>5, <3>2, <3>4
      <4>2. QED
        BY <1>2, <1>8, <4>1
    <3>5. QED
      BY <3>2, <3>3, <3>4
  <2>2. \A x \in Elems(s2p') : First(x) =>
          /\ \A q \in preqs : q.token # x.token
          /\ \A a \in Elems(p2s) : a.token # x.token
    BY <1>2, <1>5, <1>8 DEF IInv, FirstOK
  <2>3. QED
    BY <1>1, <2>1, <2>2 DEF FirstOK
<1>17. AbortFollows'
  <2>1. SUFFICES ASSUME NEW i \in DOMAIN s2p', s2p'[i].type = "POLREQUEST", s2p'[i].start
                 PROVE  \/ \E r \in reqs' : r.token = s2p'[i].token
                        \/ \E j \in DOMAIN s2p' : i < j /\ s2p'[j].type = "ABORT"
                                                  /\ s2p'[j].token = s2p'[i].token
    BY DEF AbortFollows
  <2>2. CASE i \in DOMAIN s2p
    BY <1>2, <1>5, <2>1, <2>2 DEF IInv, AbortFollows
  <2>3. CASE i = Len(s2p) + 1
    BY <1>2, <1>5, <1>9, <2>1, <2>3
  <2>4. QED
    BY <1>5, <2>2, <2>3
<1>18. NoOrphanRequest'
  BY <1>1, <1>2, <1>5 DEF IInv, NoOrphanRequest
<1>19. EngineOK'
  BY <1>1 DEF IInv, EngineOK
<1>20. OwnersOK'
  BY <1>1, <1>2, <1>5, <1>8 DEF IInv, OwnersOK, PolicyAuthorised
<1>21. QED
  BY <1>6, <1>7, <1>10, <1>11, <1>12, <1>13, <1>14, <1>15, <1>16, <1>17, <1>18, <1>19, <1>20
     DEF IInv

\* dispatch_authdata: the start of an authentication, and a signed challenge.
LEMMA AuthSteps ==
    ASSUME IInv, NEW s \in Sessions,
           \/ \E type \in {"TRANSPORT", "KEY"} : AuthTransport(s, type)
           \/ \E good \in BOOLEAN : AuthReply(s, good)
    PROVE  IInv'
<1>1. sess \in [Sessions -> SessionRecs \cup {NoSession}] /\ nexttoken \in Nat
  BY DEF IInv, TypeOK
<1>2. ASSUME NEW type \in {"TRANSPORT", "KEY"}, AuthTransport(s, type) PROVE IInv'
  <2> DEFINE m == [type |-> "AUTH", token |-> nexttoken', uid |-> sess[s].euid]
             a == [state |-> "INPROGRESS", type |-> type, challenge |-> FALSE,
                   token |-> nexttoken']
  <2>1. /\ Open(s) /\ "AUTH" \notin sess[s].flags /\ ~Busy(s)
        /\ AddRequest(s, "AUTH", TRUE) /\ ToMaster(m)
        /\ sess' = [sess EXCEPT ![s].auth = a]
    BY <1>2 DEF AuthTransport, InAuth, Connecting, MayStart, AuthRefused
  <2>2. nexttoken' \in Nat \ {0} /\ sess[s] \in SessionRecs
    BY <1>1, <2>1 DEF AddRequest, Open
  <2>3. m \in ToMasterMsgs /\ a \in AuthRecs /\ m.token = nexttoken' /\ m.type = "AUTH"
        /\ m.uid = sess[s].euid
    BY <2>2 DEF ToMasterMsgs, AuthMsgs, SessionRecs, AuthRecs
  <2>4. Sends(m, "AUTH") /\ UNCHANGED <<p2s, m2s, engine, granted>>
    BY <2>1, <2>3 DEF ToMaster, Sends
  <2>5. sess' = [sess EXCEPT ![s] = [sess[s] EXCEPT !.auth = a]]
    BY <2>1
  <2>6. a.state = "INPROGRESS" /\ ~a.challenge /\ a.token = nexttoken'
    OBVIOUS
  <2> HIDE DEF m, a
  <2>7. QED
    BY <2>1, <2>3, <2>4, <2>5, <2>6, AddStep
<1>3. ASSUME NEW good \in BOOLEAN, AuthReply(s, good) PROVE IInv'
  <2> DEFINE m == [type |-> "VERIFY", token |-> nexttoken', uid |-> sess[s].euid, good |-> good]
             a == [sess[s].auth EXCEPT !.challenge = FALSE, !.token = nexttoken']
  <2>1. /\ Open(s) /\ "AUTH" \notin sess[s].flags /\ ~Busy(s)
        /\ sess[s].auth # NoAuth /\ sess[s].auth.state = "INPROGRESS"
        /\ AddRequest(s, "VERIFY", TRUE) /\ ToMaster(m)
        /\ sess' = [sess EXCEPT ![s].auth.challenge = FALSE, ![s].auth.token = nexttoken']
    BY <1>3 DEF AuthReply, InAuth, Connecting, MayStart, AuthRefused
  <2>2. nexttoken' \in Nat \ {0} /\ sess[s] \in SessionRecs /\ sess[s].auth \in AuthRecs
    BY <1>1, <2>1 DEF AddRequest, Open, SessionRecs
  <2>3. m \in ToMasterMsgs /\ a \in AuthRecs /\ m.token = nexttoken' /\ m.type = "VERIFY"
        /\ m.uid = sess[s].euid
    BY <2>2 DEF ToMasterMsgs, VerifyMsgs, SessionRecs, AuthRecs
  <2>4. Sends(m, "VERIFY") /\ UNCHANGED <<p2s, m2s, engine, granted>>
    BY <2>1, <2>3 DEF ToMaster, Sends
  <2>5. sess' = [sess EXCEPT ![s] = [sess[s] EXCEPT !.auth = a]]
    BY <1>1, <2>1, <2>2 DEF SessionRecs
  <2>6. a.state = "INPROGRESS" /\ ~a.challenge /\ a.token = nexttoken'
    BY <2>1, <2>2 DEF AuthRecs
  <2> HIDE DEF m, a
  <2>7. QED
    BY <2>1, <2>3, <2>4, <2>5, <2>6, AddStep
<1>4. QED
  BY <1>2, <1>3

\* dispatch_list_request, dispatch_checksum, dispatch_csmulti.
LEMMA RequestStep ==
    ASSUME IInv, NEW s \in Sessions, NEW kind \in Kinds, Request(s, kind)
    PROVE  IInv'
<1> DEFINE m == [type |-> kind, token |-> nexttoken', uid |-> sess[s].uid]
<1>1. /\ Open(s) /\ ~Busy(s) /\ AddRequest(s, kind, TRUE) /\ "POLICY" \in sess[s].proto
      /\ UNCHANGED <<sess, p2s, m2s, engine, granted>>
      /\ IF kind = "CSUM" THEN s2m' = Append(s2m, m) /\ UNCHANGED s2p
         ELSE s2p' = Append(s2p, m) /\ UNCHANGED s2m
  BY DEF Request, MayStart
<1>2. kind \in {"LIST", "BADLIST", "CSUM"}
  BY ServerAssumption
<1>3. /\ nexttoken' \in Nat \ {0} /\ sess[s] \in SessionRecs /\ sess[s].uid \in Int
      /\ "AUTH" \in sess[s].flags
  <2>1. nexttoken' \in Nat \ {0}
    BY <1>1 DEF AddRequest, IInv, TypeOK
  <2>2. sess[s] \in SessionRecs /\ "AUTH" \in sess[s].flags
    BY <1>1 DEF Open, IInv, TypeOK, SessionsOK
  <2>3. sess[s].uid \in Uids \cup {NOUID}
    BY <2>2 DEF SessionRecs
  <2>4. Uids \subseteq Int /\ NOUID \in Int
    BY ServerAssumption DEF NOUID
  <2>5. sess[s].uid \in Int
    BY <2>3, <2>4
  <2>6. QED
    BY <2>1, <2>2, <2>5
<1>4. /\ kind = "CSUM" => m \in ToMasterMsgs
      /\ kind # "CSUM" => m \in ToPolicyMsgs
      /\ m.type = kind /\ m.token = nexttoken'
  BY <1>2, <1>3 DEF ToPolicyMsgs, ToMasterMsgs, PlainMsgs
<1> HIDE DEF m
<1>5. Sends(m, kind) /\ m.type \notin {"POLREQUEST", "AUTH", "VERIFY"}
  BY <1>1, <1>2, <1>4 DEF Sends
<1>6. QED
  BY <1>1, <1>2, <1>3, <1>4, <1>5, AddStep

\* A further chunk of a policy request.
LEMMA ChunkStep ==
    ASSUME IInv, NEW r \in reqs, ~r.end, NEW m \in ChunkMsgs, ~m.start, m.token = r.token,
           s2p' = Append(s2p, m),
           UNCHANGED <<sess, table, p2s, s2m, m2s, engine, granted>>
    PROVE  IInv'
<1>1. UNCHANGED <<sess, reqs, nexttoken, asker, p2s, s2m, m2s, preqs, applied, granted>>
  BY DEF table, engine
<1>2. m \in ToPolicyMsgs /\ m.type = "POLREQUEST" /\ r.kind = "POLICY" /\ m.token <= nexttoken
  BY DEF ToPolicyMsgs, ChunkMsgs, IInv, TableOK, TokensOld
<1>3. /\ s2p' \in Seq(ToPolicyMsgs) /\ Elems(s2p') = Elems(s2p) \cup {m}
      /\ DOMAIN s2p = 1..Len(s2p) /\ DOMAIN s2p' = 1..(Len(s2p) + 1) /\ Len(s2p) \in Nat
      /\ \A i \in 1..Len(s2p) : s2p'[i] = s2p[i]
      /\ s2p'[Len(s2p) + 1] = m
  BY <1>2, ElemsAppend DEF IInv, TypeOK
<1>4. TypeOK' /\ TokensOld' /\ TableOK'
  BY <1>1, <1>2, <1>3 DEF IInv, TypeOK, TokensOld, TableOK, RequestsBelong
<1>5. KindsOK'
  BY <1>1, <1>2, <1>3 DEF IInv, TableOK, KindsOK
<1>6. SessionsOK' /\ AliveOK' /\ GrantsOK' /\ AuthSound' /\ EngineOK'
  BY <1>1 DEF IInv, SessionsOK, Waiting, AliveOK, GrantsOK, AuthSound, EngineOK
<1>7. FirstOK'
  <2>1. ~First(m)
    BY <1>2 DEF First
  <2>2. \A j \in DOMAIN s2p' : First(s2p'[j]) => j \in DOMAIN s2p
    BY <1>3, <2>1
  <2>3. QED
    BY <1>1, <1>3, <2>1, <2>2 DEF IInv, FirstOK
<1>8. AbortFollows' /\ NoOrphanRequest'
  BY <1>1, <1>3 DEF IInv, AbortFollows, NoOrphanRequest
<1>9. OwnersOK'
  BY <1>1, <1>2, <1>3 DEF IInv, OwnersOK, PolicyAuthorised
<1>10. QED
  BY <1>4, <1>5, <1>6, <1>7, <1>8, <1>9 DEF IInv

\* session_destroy, wherever it is called.
LEMMA DisconnectStep ==
    ASSUME IInv, NEW s \in Sessions, Destroy(s)
    PROVE  IInv'
BY DestroyStep DEF Destroy

\* A failed authentication of which the client cannot be told.
LEMMA FailUntold ==
    ASSUME IInv, NEW s \in Sessions, sess[s] # NoSession, FailNow(s, FALSE)
    PROVE  IInv'
<1> DEFINE y == [sess[s] EXCEPT !.auth = NoAuth, !.open = FALSE, !.flags = @ \cup {"ERROR"}]
<1>1. sess[s] \in SessionRecs
  BY DEF IInv, TypeOK
<1>2. /\ y \in SessionRecs /\ y.auth = NoAuth /\ y.euid = sess[s].euid
      /\ y.uid = sess[s].uid /\ y.by = sess[s].by /\ y.attempt = sess[s].attempt
      /\ y.proto = sess[s].proto /\ ("AUTH" \in y.flags <=> "AUTH" \in sess[s].flags)
  BY <1>1 DEF SessionRecs
<1>3. /\ sess' = [sess EXCEPT ![s] = y] /\ CommDestroy(s)
      /\ UNCHANGED <<p2s, s2m, m2s, engine, granted>>
  BY DEF FailNow, Finish
<1> HIDE DEF y
<1>4. QED
  BY <1>2, <1>3, DestroyStep

\* anoubis_policy_comm_process and dispatch_policy.
LEMMA PolicyRequestStep ==
    ASSUME IInv, NEW s \in Sessions, NEW start \in BOOLEAN, NEW end \in BOOLEAN,
           NEW op \in Ops, NEW target \in Int, PolicyRequest(s, start, end, op, target)
    PROVE  IInv'
<1>1. /\ Open(s) /\ sess[s] \in SessionRecs /\ "AUTH" \in sess[s].flags
      /\ sess[s].uid \in Int /\ sess[s].uid = sess[s].euid
  <2>1. Open(s) /\ "POLICY" \in sess[s].proto
    BY DEF PolicyRequest
  <2>2. sess[s] \in SessionRecs /\ "AUTH" \in sess[s].flags
    BY <2>1 DEF Open, IInv, TypeOK, SessionsOK
  <2>3. sess[s].uid = sess[s].euid
    BY <2>1, <2>2 DEF IInv, AuthSound, Open
  <2>4. QED
    BY <2>1, <2>2, <2>3, ServerAssumption DEF SessionRecs, NOUID
<1>2. CASE Destroy(s)
  BY <1>2, DisconnectStep
<1>3. CASE /\ Busy(s) /\ ~start /\ \A r \in RequestsOf(s) : ~r.end
           /\ \E r \in RequestsOf(s) : s2p' = Append(s2p, Chunk(s, r.token, start, end, op, target))
           /\ UNCHANGED table /\ UNCHANGED <<sess, p2s, s2m, m2s, engine, granted>>
  <2> PICK r \in RequestsOf(s) : s2p' = Append(s2p, Chunk(s, r.token, start, end, op, target))
    BY <1>3
  <2> DEFINE m == Chunk(s, r.token, start, end, op, target)
  <2>1. r \in reqs /\ ~r.end /\ r.token \in Nat \ {0}
    BY <1>3 DEF RequestsOf, IInv, TypeOK, ReqRecs
  <2>2. m \in ChunkMsgs /\ ~m.start /\ m.token = r.token
    BY <1>1, <1>3, <2>1 DEF Chunk, ChunkMsgs
  <2> HIDE DEF m
  <2>3. QED
    BY <1>3, <2>1, <2>2, ChunkStep DEF m
<1>4. CASE /\ ~Busy(s) /\ AddRequest(s, "POLICY", end)
           /\ s2p' = Append(s2p, Chunk(s, nexttoken', start, end, op, target))
           /\ UNCHANGED <<sess, p2s, s2m, m2s, engine, granted>>
  <2> DEFINE m == Chunk(s, nexttoken', start, end, op, target)
  <2>1. nexttoken' \in Nat \ {0}
    BY <1>4 DEF AddRequest, IInv, TypeOK
  <2>2. m \in ToPolicyMsgs /\ m.token = nexttoken' /\ m.type = "POLREQUEST" /\ m.uid = sess[s].euid
    BY <1>1, <2>1 DEF Chunk, ChunkMsgs, ToPolicyMsgs
  <2>3. s2p' = Append(s2p, m)
    BY <1>4
  <2> HIDE DEF m
  <2>4. Sends(m, "POLICY")
    BY <1>4, <2>2, <2>3 DEF Sends
  <2>5. QED
    BY <1>1, <1>4, <2>2, <2>4, AddStep
<1>5. QED
  BY <1>2, <1>3, <1>4 DEF PolicyRequest

-----------------------------------------------------------------------------
(* The policy engine                                                       *)

\* What handling the message m may do: answers a about its token, and an entry
\* or a policy for its token that its user may have.
Handles(m, a) ==
    /\ s2p # <<>> /\ m = Head(s2p) /\ s2p' = Tail(s2p)
    /\ a \in Seq(AnswerMsgs) /\ p2s' = p2s \o a
    /\ \A x \in Elems(a) : x.token = m.token /\ m.type \in {"POLREQUEST", "LIST"}
    /\ preqs' \subseteq [token: Nat \ {0}, uid: Int, target: Int]
    /\ \A q \in preqs' \ preqs :
          /\ q.token = m.token /\ m.type = "POLREQUEST" /\ m.start
          /\ asker[m.token] \in {q.target, ROOT}
    /\ \A q, r \in preqs' : q.token = r.token => q = r
    /\ (m.type = "ABORT" \/ \E x \in Elems(a) : x.end) => \A q \in preqs' : q.token # m.token
    /\ applied' \subseteq [token: Nat \ {0}, target: Int]
    /\ \A x \in applied' \ applied : x.token = m.token /\ asker[m.token] \in {x.target, ROOT}

LEMMA EngineStep ==
    ASSUME IInv, NEW m, NEW a, Handles(m, a), UNCHANGED <<sess, table, s2m, m2s, granted>>
    PROVE  IInv'
<1>1. UNCHANGED <<sess, reqs, nexttoken, asker, s2m, m2s, granted>>
  BY DEF table
<1>2. /\ s2p' \in Seq(ToPolicyMsgs) /\ m \in ToPolicyMsgs /\ m \in Elems(s2p) /\ m = s2p[1]
      /\ Elems(s2p') \subseteq Elems(s2p)
      /\ DOMAIN s2p = 1..Len(s2p) /\ Len(s2p) \in Nat \ {0}
      /\ DOMAIN s2p' = 1..(Len(s2p) - 1)
      /\ \A i \in 1..(Len(s2p) - 1) : s2p'[i] = s2p[i + 1]
      /\ s2p' = Tail(s2p)
  BY ElemsTail DEF Handles, IInv, TypeOK
<1>3. /\ p2s' \in Seq(AnswerMsgs) /\ Elems(p2s') = Elems(p2s) \cup Elems(a)
  BY ElemsConcat DEF Handles, IInv, TypeOK
<1>4. m.token \in Nat \ {0} /\ m.token <= nexttoken
  BY <1>2, TokensTyped DEF IInv, TokensOld
<1>5. /\ \A x \in Elems(a) : x.token = m.token /\ m.type \in {"POLREQUEST", "LIST"}
      /\ \A q \in preqs' : q \in preqs \/ (/\ q.token = m.token /\ m.type = "POLREQUEST" /\ m.start
                                           /\ asker[m.token] \in {q.target, ROOT})
      /\ \A x \in applied' : x \in applied \/ (x.token = m.token /\ asker[m.token] \in {x.target, ROOT})
  BY DEF Handles
<1>6. TypeOK'
  BY <1>1, <1>2, <1>3 DEF IInv, TypeOK, Handles
<1>7. TokensOld'
  BY <1>1, <1>2, <1>3, <1>4, <1>5 DEF IInv, TokensOld
<1>8. TableOK' /\ SessionsOK' /\ AliveOK' /\ GrantsOK' /\ AuthSound'
  BY <1>1 DEF IInv, TableOK, RequestsBelong, SessionsOK, Waiting, AliveOK, GrantsOK, AuthSound
<1>9. KindsOK'
  <2>1. \A r \in reqs : r.token = m.token =>
            r.kind = IF m.type = "POLREQUEST" THEN "POLICY" ELSE m.type
    BY <1>2 DEF IInv, KindsOK
  <2>2. QED
    BY <1>1, <1>2, <1>3, <1>5, <2>1 DEF IInv, KindsOK
<1>10. FirstOK'
  <2>1. ASSUME NEW x \in Elems(s2p'), First(x) PROVE x.token # m.token
    <3>1. PICK j \in DOMAIN s2p' : x = s2p'[j]
      BY <2>1 DEF Elems
    <3>2. j + 1 \in DOMAIN s2p /\ 1 < j + 1 /\ 1 \in DOMAIN s2p /\ x = s2p[j + 1]
      BY <1>2, <3>1
    <3>3. QED
      BY <1>2, <2>1, <3>2 DEF IInv, FirstOK
  <2>2. \A i, j \in DOMAIN s2p' : i < j /\ First(s2p'[j]) => s2p'[i].token # s2p'[j].token
    <3>1. \A i \in DOMAIN s2p' : i + 1 \in DOMAIN s2p /\ s2p'[i] = s2p[i + 1] /\ i \in Int
      BY <1>2
    <3>2. QED
      BY <3>1 DEF IInv, FirstOK
  <2>3. \A x \in Elems(s2p') : First(x) =>
          /\ \A q \in preqs' : q.token # x.token
          /\ \A y \in Elems(p2s') : y.token # x.token
    BY <1>2, <1>3, <1>5, <2>1 DEF IInv, FirstOK
  <2>4. QED
    BY <2>2, <2>3 DEF FirstOK
<1>11. AbortFollows'
  <2>1. SUFFICES ASSUME NEW i \in DOMAIN s2p', s2p'[i].type = "POLREQUEST", s2p'[i].start
                 PROVE  \/ \E r \in reqs : r.token = s2p'[i].token
                        \/ \E j \in DOMAIN s2p' : i < j /\ s2p'[j].type = "ABORT"
                                                  /\ s2p'[j].token = s2p'[i].token
    BY <1>1 DEF AbortFollows
  <2>2. i + 1 \in DOMAIN s2p /\ s2p'[i] = s2p[i + 1]
    BY <1>2
  <2>3. CASE \E r \in reqs : r.token = s2p[i + 1].token
    BY <2>2, <2>3
  <2>4. CASE \E j \in DOMAIN s2p : i + 1 < j /\ s2p[j].type = "ABORT" /\ s2p[j].token = s2p[i + 1].token
    <3>1. PICK j \in DOMAIN s2p : i + 1 < j /\ s2p[j].type = "ABORT" /\ s2p[j].token = s2p[i + 1].token
      BY <2>4
    <3>2. j - 1 \in DOMAIN s2p' /\ i < j - 1 /\ s2p'[j - 1] = s2p[j]
      BY <1>2, <3>1
    <3>3. QED
      BY <2>2, <3>1, <3>2
  <2>5. QED
    BY <2>1, <2>2, <2>3, <2>4 DEF IInv, AbortFollows
<1>12. NoOrphanRequest'
  <2>1. SUFFICES ASSUME NEW q \in preqs'
                 PROVE  \/ \E r \in reqs : r.token = q.token
                        \/ \E i \in DOMAIN s2p' : s2p'[i].type = "ABORT" /\ s2p'[i].token = q.token
    BY <1>1 DEF NoOrphanRequest
  <2>2. ASSUME NEW j \in DOMAIN s2p, j # 1, s2p[j].type = "ABORT", s2p[j].token = q.token
        PROVE  \E i \in DOMAIN s2p' : s2p'[i].type = "ABORT" /\ s2p'[i].token = q.token
    <3>1. j - 1 \in DOMAIN s2p' /\ s2p'[j - 1] = s2p[j]
      BY <1>2, <2>2
    <3>2. QED
      BY <2>2, <3>1
  <2>3. CASE q \in preqs
    <3>1. m.type = "ABORT" => q.token # m.token
      BY DEF Handles
    <3>2. QED
      BY <1>2, <2>2, <2>3, <3>1 DEF IInv, NoOrphanRequest
  <2>4. CASE q \notin preqs
    <3>1. q.token = m.token /\ m.type = "POLREQUEST" /\ m.start
      BY <1>5, <2>4
    <3>2. 1 \in DOMAIN s2p
      BY <1>2
    <3>3. QED
      BY <1>2, <2>2, <3>1, <3>2 DEF IInv, AbortFollows
  <2>5. QED
    BY <2>3, <2>4
<1>13. EngineOK'
  <2>1. \A q, r \in preqs' : q.token = r.token => q = r
    BY DEF Handles
  <2>2. ASSUME NEW q \in preqs', NEW x \in Elems(p2s'), q.token = x.token, x.end PROVE FALSE
    <3>1. CASE x \in Elems(a)
      BY <1>5, <2>2, <3>1 DEF Handles
    <3>2. CASE x \in Elems(p2s) /\ q \in preqs
      BY <2>2, <3>2 DEF IInv, EngineOK
    <3>3. CASE x \in Elems(p2s) /\ q \notin preqs
      <4>1. q.token = m.token /\ First(m)
        BY <1>5, <3>3 DEF First
      <4>2. QED
        BY <1>2, <2>2, <3>3, <4>1 DEF IInv, FirstOK
    <3>4. QED
      BY <1>3, <3>1, <3>2, <3>3
  <2>3. QED
    BY <2>1, <2>2 DEF EngineOK
<1>14. OwnersOK'
  BY <1>1, <1>2, <1>5 DEF IInv, OwnersOK, PolicyAuthorised
<1>15. QED
  BY <1>6, <1>7, <1>8, <1>9, <1>10, <1>11, <1>12, <1>13, <1>14 DEF IInv

\* Sequences of at most two elements.
LEMMA ShortSeqs ==
    ASSUME NEW S, NEW x \in S, NEW y \in S, NEW q \in Seq(S)
    PROVE  /\ <<x>> \in Seq(S) /\ Elems(<<x>>) = {x}
           /\ <<x, y>> \in Seq(S) /\ Elems(<<x, y>>) = {x, y}
           /\ <<>> \in Seq(S) /\ Elems(<<>>) = {} /\ q \o <<>> = q
           /\ Append(q, x) = q \o <<x>>
<1>1. <<x>> \in Seq(S) /\ DOMAIN <<x>> = {1} /\ <<x>>[1] = x
  OBVIOUS
<1>2. <<x, y>> \in Seq(S) /\ DOMAIN <<x, y>> = {1, 2} /\ <<x, y>>[1] = x /\ <<x, y>>[2] = y
  OBVIOUS
<1>3. <<>> \in Seq(S) /\ DOMAIN <<>> = {}
  OBVIOUS
<1>4. q \o <<>> = q
  BY ConcatEmptySeq
<1>5. Append(q, x) = q \o <<x>>
  BY AppendIsConcat
<1>6. QED
  BY <1>1, <1>2, <1>3, <1>4, <1>5 DEF Elems

\* The answers of the policy engine to the request with token t.
LEMMA OneAnswer ==
    ASSUME IInv, NEW t \in Nat \ {0}, NEW a \in Answers(t)
    PROVE  /\ a \in Seq(AnswerMsgs) /\ <<Answer(t, TRUE)>> \in Seq(AnswerMsgs)
           /\ \A x \in Elems(a) : x.token = t
           /\ \A x \in Elems(<<Answer(t, TRUE)>>) : x.token = t
           /\ <<>> \in Seq(AnswerMsgs) /\ Elems(<<>>) = {} /\ p2s \o <<>> = p2s
           /\ Append(p2s, Answer(t, TRUE)) = p2s \o <<Answer(t, TRUE)>>
<1> DEFINE f == Answer(t, FALSE)
           e == Answer(t, TRUE)
<1>1. e \in AnswerMsgs /\ f \in AnswerMsgs /\ e.token = t /\ f.token = t
  BY DEF Answer, AnswerMsgs
<1>2. a = <<e>> \/ a = <<f, e>>
  BY DEF Answers
<1>3. p2s \in Seq(AnswerMsgs)
  BY DEF IInv, TypeOK
<1> HIDE DEF e, f
<1>4. /\ <<e>> \in Seq(AnswerMsgs) /\ Elems(<<e>>) = {e}
      /\ <<f, e>> \in Seq(AnswerMsgs) /\ Elems(<<f, e>>) = {f, e}
      /\ <<>> \in Seq(AnswerMsgs) /\ Elems(<<>>) = {} /\ p2s \o <<>> = p2s
      /\ Append(p2s, e) = p2s \o <<e>>
  BY <1>1, <1>3, ShortSeqs
<1>5. a \in Seq(AnswerMsgs) /\ \A x \in Elems(a) : x.token = t
  BY <1>1, <1>2, <1>4
<1>6. <<e>> \in Seq(AnswerMsgs) /\ \A x \in Elems(<<e>>) : x.token = t
  BY <1>1, <1>4
<1>7. QED
  BY <1>4, <1>5, <1>6 DEF e

\* pe_dispatch_policy: every branch handles its chunk.
LEMMA DispatchStep ==
    ASSUME IInv, NEW m, s2p # <<>>, m = Head(s2p), m.type = "POLREQUEST",
           DispatchPolicy(m), s2p' = Tail(s2p)
    PROVE  \E a : Handles(m, a)
<1> DEFINE found == {q \in preqs : q.token = m.token}
           new == [token |-> m.token, uid |-> m.uid, target |-> m.target]
           one == <<Answer(m.token, TRUE)>>
<1>1. m \in ChunkMsgs /\ m \in Elems(s2p) /\ m.token \in Nat \ {0}
  <2>1. m \in ToPolicyMsgs /\ m \in Elems(s2p)
    BY ElemsTail DEF IInv, TypeOK
  <2>2. QED
    BY <2>1 DEF ToPolicyMsgs, ChunkMsgs, AbortMsgs, PlainMsgs
<1>2. /\ preqs \subseteq [token: Nat \ {0}, uid: Int, target: Int]
      /\ applied \subseteq [token: Nat \ {0}, target: Int]
      /\ \A q, r \in preqs : q.token = r.token => q = r
      /\ \A q \in preqs : asker[q.token] \in {q.target, ROOT}
      /\ m.start => m.uid = asker[m.token]
  BY <1>1 DEF IInv, TypeOK, EngineOK, OwnersOK
<1>3. one \in Answers(m.token)
  BY DEF Answers
<1>4. /\ one \in Seq(AnswerMsgs) /\ \A x \in Elems(one) : x.token = m.token
      /\ <<>> \in Seq(AnswerMsgs) /\ Elems(<<>>) = {} /\ p2s \o <<>> = p2s
      /\ Append(p2s, Answer(m.token, TRUE)) = p2s \o one
  BY <1>1, <1>3, OneAnswer
<1>5. ASSUME Refuse(m, found) PROVE Handles(m, one)
  BY <1>1, <1>2, <1>4, <1>5 DEF Refuse, Handles
<1>6. ASSUME NEW q, q.token = m.token, q \in [token: Nat \ {0}, uid: Int, target: Int],
             asker[m.token] \in {q.target, ROOT}, q \in preqs \/ (m.start /\ found = {}),
             SetChunk(m, q)
      PROVE  \E a : Handles(m, a)
  <2>1. \A r \in preqs : r.token = m.token => r = q
    BY <1>2, <1>6
  <2>2. CASE /\ preqs' = preqs \ {q} /\ p2s' = Append(p2s, Answer(m.token, TRUE))
             /\ UNCHANGED applied
    <3>1. Handles(m, one)
      BY <1>1, <1>2, <1>4, <2>1, <2>2 DEF Handles
    <3>2. QED
      BY <3>1
  <2>3. CASE ~m.end /\ preqs' = preqs \cup {q} /\ UNCHANGED <<applied, p2s>>
    <3>1. \A r \in preqs' \ preqs : r = q /\ m.start
      BY <1>6, <2>3
    <3>2. \A r, x \in preqs' : r.token = x.token => r = x
      BY <1>2, <1>6, <2>1, <2>3
    <3>3. Handles(m, <<>>)
      BY <1>1, <1>2, <1>4, <1>6, <2>3, <3>1, <3>2 DEF Handles
    <3>4. QED
      BY <3>3
  <2>4. CASE /\ m.end /\ preqs' = preqs \ {q} /\ p2s' = Append(p2s, Answer(m.token, TRUE))
             /\ applied' = applied \cup {[token |-> m.token, target |-> q.target]}
    <3> DEFINE y == [token |-> m.token, target |-> q.target]
    <3>1. y \in [token: Nat \ {0}, target: Int] /\ y.token = m.token /\ y.target = q.target
      BY <1>1, <1>6
    <3>2. applied' = applied \cup {y}
      BY <2>4
    <3> HIDE DEF y
    <3>3. Handles(m, one)
      BY <1>1, <1>2, <1>4, <1>6, <2>1, <2>4, <3>1, <3>2 DEF Handles
    <3>4. QED
      BY <3>3
  <2>5. QED
    BY <1>6, <2>2, <2>3, <2>4 DEF SetChunk
<1>7. ASSUME NEW a \in Answers(m.token), found = {}, p2s' = p2s \o a, UNCHANGED engine
      PROVE  Handles(m, a)
  <2>1. a \in Seq(AnswerMsgs) /\ \A x \in Elems(a) : x.token = m.token
    BY <1>1, OneAnswer
  <2>2. preqs' = preqs /\ applied' = applied
    BY <1>7 DEF engine
  <2>3. QED
    BY <1>1, <1>2, <1>7, <2>1, <2>2 DEF Handles
<1>8. CASE \E q \in found : SetChunk(m, q)
  BY <1>2, <1>6, <1>8
<1>9. CASE m.start /\ found = {} /\ MayGetOrSet(m) /\ SetChunk(m, new)
  <2>1. new \in [token: Nat \ {0}, uid: Int, target: Int] /\ new.token = m.token
        /\ new.target = m.target
    BY <1>1 DEF ChunkMsgs
  <2>2. asker[m.token] \in {m.target, ROOT}
    BY <1>2, <1>9 DEF MayGetOrSet
  <2> HIDE DEF new
  <2>3. QED
    BY <1>6, <1>9, <2>1, <2>2
<1>10. CASE found = {} /\ \E a \in Answers(m.token) : p2s' = p2s \o a /\ UNCHANGED engine
  BY <1>7, <1>10
<1>11. m.start \in BOOLEAN
  BY <1>1 DEF ChunkMsgs
<1>12. QED
  BY <1>5, <1>8, <1>9, <1>10, <1>11 DEF DispatchPolicy

\* dispatch_s2p in the policy engine.
LEMMA PolicyRecvStep ==
    ASSUME IInv, PolicyRecv
    PROVE  IInv'
<1> DEFINE m == Head(s2p)
<1>1. /\ s2p # <<>> /\ s2p' = Tail(s2p)
      /\ UNCHANGED <<sess, table, s2m, m2s, granted>>
  BY DEF PolicyRecv
<1>2. m \in ToPolicyMsgs /\ m \in Elems(s2p) /\ m.token \in Nat \ {0}
      /\ m.type \in {"POLREQUEST", "ABORT", "LIST", "BADLIST"}
  <2>1. m \in ToPolicyMsgs /\ m \in Elems(s2p)
    BY <1>1, ElemsTail DEF IInv, TypeOK
  <2>2. QED
    BY <2>1 DEF ToPolicyMsgs, ChunkMsgs, AbortMsgs, PlainMsgs
<1>3. /\ preqs \subseteq [token: Nat \ {0}, uid: Int, target: Int]
      /\ applied \subseteq [token: Nat \ {0}, target: Int]
      /\ \A q, r \in preqs : q.token = r.token => q = r
      /\ m.type = "LIST" => \A q \in preqs : q.token # m.token
  BY <1>2 DEF IInv, TypeOK, EngineOK, FirstOK, First
<1>4. <<Answer(m.token, TRUE)>> \in Answers(m.token)
  BY DEF Answers
<1>5. <<>> \in Seq(AnswerMsgs) /\ Elems(<<>>) = {} /\ p2s \o <<>> = p2s
  BY <1>2, <1>4, OneAnswer
<1>6. CASE m.type = "POLREQUEST"
  <2>1. DispatchPolicy(m)
    BY <1>6 DEF PolicyRecv
  <2> HIDE DEF m
  <2>2. \E a : Handles(m, a)
    BY <1>1, <1>6, <2>1, DispatchStep DEF m
  <2>3. QED
    BY <1>1, <2>2, EngineStep
<1>7. CASE m.type = "ABORT"
  <2>1. preqs' = {q \in preqs : q.token # m.token} /\ UNCHANGED <<applied, p2s>>
    BY <1>7 DEF PolicyRecv
  <2>2. Handles(m, <<>>)
    BY <1>1, <1>2, <1>3, <1>5, <1>7, <2>1 DEF Handles
  <2> HIDE DEF m
  <2>3. QED
    BY <1>1, <2>2, EngineStep
<1>8. CASE m.type = "LIST"
  <2>1. PICK a \in Answers(m.token) : p2s' = p2s \o a /\ UNCHANGED engine
    BY <1>8 DEF PolicyRecv
  <2>2. a \in Seq(AnswerMsgs) /\ \A x \in Elems(a) : x.token = m.token
    BY <1>2, OneAnswer
  <2>3. Handles(m, a)
    BY <1>1, <1>2, <1>3, <1>8, <2>1, <2>2 DEF Handles, engine
  <2> HIDE DEF m
  <2>4. QED
    BY <1>1, <2>3, EngineStep
<1>9. CASE m.type = "BADLIST"
  <2>1. UNCHANGED <<preqs, applied, p2s>>
    BY <1>9 DEF PolicyRecv, engine
  <2>2. Handles(m, <<>>)
    BY <1>1, <1>2, <1>3, <1>5, <1>9, <2>1 DEF Handles
  <2> HIDE DEF m
  <2>3. QED
    BY <1>1, <2>2, EngineStep
<1>10. QED
  BY <1>2, <1>6, <1>7, <1>8, <1>9

-----------------------------------------------------------------------------
(* The master                                                              *)

\* What the master answers.
LEMMA MasterAnswerTyped ==
    ASSUME NEW m \in ToMasterMsgs
    PROVE  LET a == MasterAnswer(m) IN
           /\ a \in AnswerMsgs \cup OutcomeMsgs /\ a.token = m.token
           /\ m.type \in {"AUTH", "VERIFY"} => a.type # "ANSWER" /\ m.uid \in Uids
           /\ m.type \notin {"AUTH", "VERIFY"} => a.type = "ANSWER" /\ m.type = "CSUM"
           /\ m.type = "AUTH" => a.what = KeyMode[m.uid]
<1>1. SUFFICES ASSUME NEW a, a = MasterAnswer(m)
               PROVE  /\ a \in AnswerMsgs \cup OutcomeMsgs /\ a.token = m.token
                      /\ m.type \in {"AUTH", "VERIFY"} => a.type # "ANSWER" /\ m.uid \in Uids
                      /\ m.type \notin {"AUTH", "VERIFY"} => a.type = "ANSWER" /\ m.type = "CSUM"
                      /\ m.type = "AUTH" => a.what = KeyMode[m.uid]
  OBVIOUS
<1>2. CASE m \in AuthMsgs
  <2>1. /\ KeyMode[m.uid] \in {"open", "key", "refused"} /\ m.type = "AUTH" /\ m.uid \in Uids
        /\ m.token \in Nat \ {0}
    BY <1>2, ServerAssumption DEF AuthMsgs
  <2>2. a = [type |-> "CHALLENGE", token |-> m.token, what |-> KeyMode[m.uid], end |-> TRUE]
    BY <1>1, <2>1 DEF MasterAnswer
  <2>3. QED
    BY <2>1, <2>2 DEF OutcomeMsgs
<1>3. CASE m \in VerifyMsgs
  <2>1. m.type = "VERIFY" /\ m.uid \in Uids /\ m.token \in Nat \ {0}
    BY <1>3 DEF VerifyMsgs
  <2>2. PICK w \in {"open", "refused"} :
           a = [type |-> "RESULT", token |-> m.token, what |-> w, end |-> TRUE]
    BY <1>1, <2>1 DEF MasterAnswer
  <2>3. QED
    BY <2>1, <2>2 DEF OutcomeMsgs
<1>4. CASE m \in PlainMsgs({"CSUM"})
  <2>1. m.type = "CSUM" /\ m.token \in Nat \ {0}
    BY <1>4 DEF PlainMsgs
  <2>2. a = [type |-> "ANSWER", token |-> m.token, end |-> TRUE]
    BY <1>1, <2>1 DEF MasterAnswer, Answer
  <2>3. QED
    BY <2>1, <2>2 DEF AnswerMsgs
<1>5. QED
  BY <1>2, <1>3, <1>4 DEF ToMasterMsgs

\* dispatch_auth_request, dispatch_auth_verify and dispatch_checksumop.
LEMMA MasterRecvStep ==
    ASSUME IInv, MasterRecv
    PROVE  IInv'
<1> DEFINE m == Head(s2m)
           a == MasterAnswer(m)
           g == [token |-> m.token, uid |-> m.uid, kind |-> m.type]
<1>1. /\ s2m # <<>> /\ s2m' = Tail(s2m) /\ m2s' = Append(m2s, a)
      /\ granted' = IF a.type # "ANSWER" /\ a.what = "open" THEN granted \cup {g} ELSE granted
      /\ UNCHANGED <<sess, reqs, nexttoken, asker, s2p, p2s, preqs, applied>>
  BY DEF MasterRecv, table, engine
<1>2. /\ s2m' \in Seq(ToMasterMsgs) /\ m \in ToMasterMsgs /\ m \in Elems(s2m)
      /\ Elems(s2m') \subseteq Elems(s2m)
  BY <1>1, ElemsTail DEF IInv, TypeOK
<1>3. m.token \in Nat \ {0} /\ m.token <= nexttoken
  BY <1>2 DEF ToMasterMsgs, VerifyMsgs, AuthMsgs, PlainMsgs, IInv, TokensOld
<1>4. /\ a \in AnswerMsgs \cup OutcomeMsgs /\ a.token = m.token
      /\ m.type \in {"AUTH", "VERIFY"} => a.type # "ANSWER" /\ m.uid \in Uids
      /\ m.type \notin {"AUTH", "VERIFY"} => a.type = "ANSWER" /\ m.type = "CSUM"
      /\ m.type = "AUTH" => a.what = KeyMode[m.uid]
  BY <1>2, MasterAnswerTyped
<1>16. m.type \in {"AUTH", "VERIFY"} => g \in [token: Nat \ {0}, uid: Uids, kind: {"AUTH", "VERIFY"}]
  BY <1>3, <1>4
<1>5. g.token = m.token /\ g.uid = m.uid /\ g.kind = m.type
  OBVIOUS
<1> HIDE DEF m, a, g
<1>6. /\ m2s' \in Seq(AnswerMsgs \cup OutcomeMsgs) /\ Elems(m2s') = Elems(m2s) \cup {a}
  <2>1. m2s \in Seq(AnswerMsgs \cup OutcomeMsgs)
    BY DEF IInv, TypeOK
  <2>2. QED
    BY <1>1, <1>4, <2>1, ElemsAppend
<1>7. granted \subseteq granted' /\ granted' \subseteq [token: Nat \ {0}, uid: Uids, kind: {"AUTH", "VERIFY"}]
  BY <1>1, <1>4, <1>16 DEF IInv, TypeOK
<1>8. TypeOK'
  BY <1>1, <1>2, <1>6, <1>7 DEF IInv, TypeOK
<1>9. TokensOld'
  BY <1>1, <1>2, <1>3, <1>4, <1>6 DEF IInv, TokensOld
<1>10. TableOK' /\ SessionsOK' /\ AliveOK' /\ FirstOK' /\ AbortFollows' /\ NoOrphanRequest'
       /\ EngineOK' /\ OwnersOK'
  BY <1>1 DEF IInv, TableOK, RequestsBelong, SessionsOK, Waiting, AliveOK, FirstOK,
              AbortFollows, NoOrphanRequest, EngineOK, OwnersOK, PolicyAuthorised
<1>11. KindsOK'
  <2>1. \A r \in reqs : r.token = m.token => r.kind = m.type
    BY <1>2 DEF IInv, KindsOK
  <2>2. QED
    BY <1>1, <1>2, <1>4, <1>6, <2>1 DEF IInv, KindsOK
<1>12. GrantsOK'
  <2>1. ASSUME a.type # "ANSWER", a.what = "open"
        PROVE  /\ g \in granted' /\ g.token = a.token /\ g.uid = asker[a.token]
               /\ KeyMode[g.uid] = "key" => g.kind = "VERIFY"
    <3>1. m.uid = asker[m.token] /\ m.type \in {"AUTH", "VERIFY"}
      BY <1>2, <1>4, <2>1 DEF IInv, GrantsOK
    <3>2. QED
      BY <1>1, <1>4, <1>5, <2>1, <3>1
  <2>2. QED
    BY <1>1, <1>2, <1>6, <1>7, <2>1 DEF IInv, GrantsOK
<1>13. AuthSound'
  BY <1>1, <1>7 DEF IInv, AuthSound
<1>14. QED
  BY <1>8, <1>9, <1>10, <1>11, <1>12, <1>13 DEF IInv

-----------------------------------------------------------------------------
(* Answers reach the session engine                                        *)

\* The requests rs are answered: the policy engine has nothing about them.
Completes(rs) ==
    /\ rs \subseteq reqs /\ reqs' = reqs \ rs
    /\ \A r \in rs : /\ \A q \in preqs : q.token # r.token
                     /\ \A m \in Elems(s2p) : m.token = r.token => ~First(m)
    /\ p2s' \in Seq(AnswerMsgs) /\ Elems(p2s') \subseteq Elems(p2s)
    /\ m2s' \in Seq(AnswerMsgs \cup OutcomeMsgs) /\ Elems(m2s') \subseteq Elems(m2s)
    /\ UNCHANGED <<nexttoken, asker, s2p, s2m, engine, granted>>

\* What an answer leaves as it was, whatever it does to the session.
LEMMA AnsweredStep ==
    ASSUME IInv, NEW rs, Completes(rs)
    PROVE  /\ KindsOK' /\ GrantsOK' /\ FirstOK' /\ AbortFollows' /\ NoOrphanRequest'
           /\ EngineOK' /\ OwnersOK'
<1>1. UNCHANGED <<nexttoken, asker, s2p, s2m, preqs, applied, granted>> /\ reqs' = reqs \ rs
      /\ Elems(p2s') \subseteq Elems(p2s) /\ Elems(m2s') \subseteq Elems(m2s)
  BY DEF Completes, engine
<1>2. KindsOK' /\ GrantsOK' /\ EngineOK' /\ OwnersOK'
  BY <1>1 DEF IInv, KindsOK, GrantsOK, EngineOK, OwnersOK, PolicyAuthorised
<1>3. FirstOK'
  BY <1>1 DEF IInv, FirstOK
<1>4. AbortFollows'
  <2>1. ASSUME NEW i \in DOMAIN s2p, s2p[i].type = "POLREQUEST", s2p[i].start
        PROVE  \A r \in rs : r.token # s2p[i].token
    BY <2>1 DEF Completes, First, Elems
  <2>2. QED
    BY <1>1, <2>1 DEF IInv, AbortFollows
<1>5. NoOrphanRequest'
  BY <1>1 DEF IInv, NoOrphanRequest, Completes
<1>6. QED
  BY <1>2, <1>3, <1>4, <1>5

\* anoubis_policy_comm_answer with no login that waits for it.
LEMMA TableStep ==
    ASSUME IInv, NEW rs, Completes(rs), UNCHANGED sess,
           \A s \in Sessions, r \in rs : Waiting(s) => r.token # sess[s].auth.token
    PROVE  IInv'
<1>1. UNCHANGED <<sess, nexttoken, asker, s2p, s2m, preqs, applied, granted>>
      /\ reqs' = reqs \ rs
      /\ Elems(p2s') \subseteq Elems(p2s) /\ Elems(m2s') \subseteq Elems(m2s)
      /\ p2s' \in Seq(AnswerMsgs) /\ m2s' \in Seq(AnswerMsgs \cup OutcomeMsgs)
  BY DEF Completes, engine
<1>2. TypeOK' /\ TokensOld' /\ TableOK'
  BY <1>1 DEF IInv, TypeOK, TokensOld, TableOK, RequestsBelong
<1>3. SessionsOK' /\ AuthSound'
  BY <1>1 DEF IInv, SessionsOK, Waiting, AuthSound
<1>4. AliveOK'
  BY <1>1 DEF IInv, AliveOK, Waiting
<1>5. QED
  BY <1>2, <1>3, <1>4, AnsweredStep DEF IInv

\* The callback of an authentication request: its session becomes y.
LEMMA CallbackStep ==
    ASSUME IInv, NEW r \in reqs, NEW s \in Sessions, r.sess = s, Completes({r}),
           NEW y \in SessionRecs, sess' = [sess EXCEPT ![s] = y], y.euid = sess[s].euid,
           "AUTH" \notin y.flags => y.proto = {},
           "AUTH" \in y.flags =>
              /\ y.uid = y.euid
              /\ \E g \in granted : /\ g.token = y.by /\ y.by = y.attempt /\ g.uid = y.euid
                                    /\ KeyMode[g.uid] = "key" => g.kind = "VERIFY",
           \/ y.auth = NoAuth
           \/ /\ Waiting(s) /\ y.auth # NoAuth /\ y.auth.token = sess[s].auth.token
              /\ y.auth.challenge /\ "AUTH" \notin y.flags
    PROVE  IInv'
<1>1. UNCHANGED <<nexttoken, asker, s2p, s2m, preqs, applied, granted>>
      /\ reqs' = reqs \ {r}
      /\ Elems(p2s') \subseteq Elems(p2s) /\ Elems(m2s') \subseteq Elems(m2s)
      /\ p2s' \in Seq(AnswerMsgs) /\ m2s' \in Seq(AnswerMsgs \cup OutcomeMsgs)
  BY DEF Completes, engine
<1>2. /\ sess'[s] = y /\ y # NoSession /\ sess[s] # NoSession
      /\ \A k \in Sessions : k # s => sess'[k] = sess[k]
  BY ServerAssumption DEF IInv, TypeOK, TableOK, RequestsBelong
<1>3. TypeOK'
  BY <1>1 DEF IInv, TypeOK
<1>4. \A q \in reqs' : q \in reqs /\ q.sess # s /\ q.sess \in Sessions /\ q.token # r.token
  BY <1>1 DEF IInv, TypeOK, TableOK, RequestsBelong, ReqRecs
<1>5. TokensOld'
  BY <1>1, <1>2 DEF IInv, TokensOld, Waiting
<1>6. TableOK'
  BY <1>1, <1>2, <1>4 DEF IInv, TableOK, RequestsBelong
<1>7. Waiting(s) => sess[s].auth.token = r.token
  BY <1>2 DEF IInv, SessionsOK
<1>8. SessionsOK'
  <2>1. ASSUME NEW k \in Sessions, sess'[k] # NoSession
        PROVE  /\ "AUTH" \notin sess'[k].flags => sess'[k].proto = {}
               /\ sess'[k].auth # NoAuth => "AUTH" \notin sess'[k].flags
    BY <1>2, <2>1 DEF IInv, SessionsOK
  <2>2. ASSUME NEW k \in Sessions, Waiting(k)', NEW q \in reqs',
               q.sess = k \/ q.token = sess'[k].auth.token
        PROVE  q.sess = k /\ q.token = sess'[k].auth.token /\ q.kind \in {"AUTH", "VERIFY"}
    <3>1. CASE k = s
      BY <1>2, <1>4, <1>7, <2>2, <3>1 DEF Waiting
    <3>2. CASE k # s
      BY <1>2, <1>4, <2>2, <3>2 DEF IInv, SessionsOK, Waiting
    <3>3. QED
      BY <3>1, <3>2
  <2>3. QED
    BY <2>1, <2>2 DEF SessionsOK
<1>9. AliveOK'
  <2>1. ASSUME NEW k \in Sessions, Waiting(k)'
        PROVE  /\ sess'[k].auth.challenge => \A q \in reqs' : q.token # sess'[k].auth.token
               /\ ~sess'[k].auth.challenge => \E q \in reqs' : q.token = sess'[k].auth.token
    <3>1. CASE k = s
      BY <1>2, <1>4, <1>7, <2>1, <3>1 DEF Waiting
    <3>2. CASE k # s
      <4>1. Waiting(k) /\ sess'[k] = sess[k]
        BY <1>2, <2>1, <3>2 DEF Waiting
      <4>2. r.token # sess[k].auth.token
        BY <3>2, <4>1 DEF IInv, SessionsOK, Waiting
      <4>3. QED
        BY <1>1, <4>1, <4>2 DEF IInv, AliveOK
    <3>3. QED
      BY <3>1, <3>2
  <2>2. QED
    BY <2>1 DEF AliveOK
<1>10. AuthSound'
  BY <1>1, <1>2 DEF IInv, AuthSound
<1>11. QED
  BY <1>3, <1>5, <1>6, <1>8, <1>9, <1>10, AnsweredStep DEF IInv

\* dispatch_p2s: the answer belongs to a request whose first chunk is gone.
LEMMA FromPolicyStep ==
    ASSUME IInv, FromPolicy
    PROVE  IInv'
<1> DEFINE m == Head(p2s)
           rs == Answered(m)
<1>1. /\ p2s # <<>> /\ p2s' = Tail(p2s) /\ reqs' = reqs \ rs
      /\ UNCHANGED <<sess, s2p, nexttoken, asker, s2m, m2s, engine, granted>>
  BY DEF FromPolicy, RecvAnswer
<1>2. m \in Elems(p2s) /\ p2s' \in Seq(AnswerMsgs) /\ Elems(p2s') \subseteq Elems(p2s)
  BY <1>1, ElemsTail DEF IInv, TypeOK
<1>3. \A r \in rs : r \in reqs /\ r.token = m.token /\ m.end
  BY DEF Answered
<1> HIDE DEF m, rs
<1>4. \A r \in rs : r.kind \in {"POLICY", "LIST"}
  BY <1>2, <1>3 DEF IInv, KindsOK
<1>5. Completes(rs)
  <2>1. \A r \in rs : /\ \A q \in preqs : q.token # r.token
                      /\ \A x \in Elems(s2p) : x.token = r.token => ~First(x)
    BY <1>2, <1>3 DEF IInv, EngineOK, FirstOK
  <2>2. m2s' \in Seq(AnswerMsgs \cup OutcomeMsgs) /\ Elems(m2s') \subseteq Elems(m2s)
    BY <1>1 DEF IInv, TypeOK
  <2>3. QED
    BY <1>1, <1>2, <1>3, <2>1, <2>2 DEF Completes
<1>6. \A s \in Sessions, r \in rs : Waiting(s) => r.token # sess[s].auth.token
  BY <1>3, <1>4 DEF IInv, SessionsOK, Waiting
<1>7. QED
  BY <1>1, <1>5, <1>6, TableStep

\* dispatch_auth_challenge and dispatch_auth_result for the request r.
LEMMA AuthCallbackStep ==
    ASSUME IInv, NEW m \in Elems(m2s), m \in OutcomeMsgs, NEW r \in reqs, r.token = m.token,
           Completes({r}), NEW told \in BOOLEAN, AuthCallback(r.sess, m, told)
    PROVE  IInv'
<1> DEFINE s == r.sess
<1>1. s \in Sessions /\ sess[s] \in SessionRecs /\ sess[s] # NoSession
  BY DEF IInv, TypeOK, ReqRecs, TableOK, RequestsBelong
<1>2. ASSUME ~Expects(s, m) PROVE IInv'
  <2>1. UNCHANGED sess
    BY <1>2 DEF AuthCallback
  <2>2. ~Waiting(s)
    <3>1. SUFFICES ASSUME Waiting(s) PROVE FALSE
      OBVIOUS
    <3>2. sess[s].auth.challenge
      BY <1>2, <3>1 DEF Expects, Waiting
    <3>3. r.token = sess[s].auth.token
      BY <1>1, <3>1 DEF IInv, SessionsOK
    <3>4. QED
      BY <1>1, <3>1, <3>2, <3>3 DEF IInv, AliveOK
  <2>3. \A k \in Sessions : Waiting(k) => r.token # sess[k].auth.token
    BY <2>2 DEF IInv, SessionsOK, Waiting
  <2>4. QED
    BY <2>1, <2>3, TableStep
<1>3. ASSUME Expects(s, m) PROVE IInv'
  <2>1. /\ Waiting(s) /\ sess[s].auth \in AuthRecs /\ "AUTH" \notin sess[s].flags
        /\ sess[s].proto = {} /\ sess[s].auth.token = m.token
    BY <1>1, <1>3 DEF Expects, Waiting, SessionRecs, IInv, SessionsOK
  <2>2. m.what \in {"open", "key", "refused"} /\ m.type # "ANSWER"
    BY DEF OutcomeMsgs
  <2>3. ASSUME NEW y \in SessionRecs, y.auth = NoAuth, y.euid = sess[s].euid,
               sess' = [sess EXCEPT ![s] = y], y.proto = {}, "AUTH" \notin y.flags
        PROVE  IInv'
    BY <1>1, <2>3, CallbackStep
  <2>4. ASSUME m.what = "open", NEW y \in SessionRecs, y.auth = NoAuth, y.euid = sess[s].euid,
               y.uid = y.euid, y.by = m.token, y.attempt = m.token, "AUTH" \in y.flags,
               sess' = [sess EXCEPT ![s] = y]
        PROVE  IInv'
    <3>1. asker[m.token] = sess[s].euid
      BY DEF IInv, TableOK
    <3>2. \E g \in granted : /\ g.token = y.by /\ y.by = y.attempt /\ g.uid = y.euid
                             /\ KeyMode[g.uid] = "key" => g.kind = "VERIFY"
      BY <2>2, <2>4, <3>1 DEF IInv, GrantsOK
    <3>3. QED
      BY <1>1, <2>4, <3>2, CallbackStep
  <2>5. CASE m.what = "key" /\ sess[s].auth.type = "KEY"
    <3> DEFINE a == [sess[s].auth EXCEPT !.challenge = TRUE]
               y == [sess[s] EXCEPT !.auth = a]
    <3>1. a \in AuthRecs /\ a.challenge /\ a.token = sess[s].auth.token /\ a # NoAuth
      BY <2>1, ServerAssumption DEF AuthRecs
    <3>2. sess' = [sess EXCEPT ![s].auth.challenge = TRUE]
      BY <1>3, <2>5 DEF AuthCallback, Outcome
    <3>3. sess' = [sess EXCEPT ![s] = y]
      BY <1>1, <2>1, <3>2 DEF SessionRecs
    <3> HIDE DEF a
    <3>4. /\ y \in SessionRecs /\ y.auth = a /\ y.euid = sess[s].euid /\ y.proto = {}
          /\ "AUTH" \notin y.flags
      BY <1>1, <2>1, <3>1 DEF SessionRecs
    <3> HIDE DEF y
    <3>5. QED
      BY <1>1, <2>1, <3>1, <3>3, <3>4, CallbackStep
  <2>6. CASE m.what = "refused" \/ (m.what = "key" /\ sess[s].auth.type # "KEY")
    <3>1. Finish(s, sess[s], told)
      BY <1>3, <2>6 DEF AuthCallback, Outcome
    <3>2. CASE told
      <4> DEFINE y == [sess[s] EXCEPT !.auth = NoAuth]
      <4>1. sess' = [sess EXCEPT ![s] = y]
        BY <3>1, <3>2 DEF Finish
      <4>2. y \in SessionRecs /\ y.auth = NoAuth /\ y.euid = sess[s].euid /\ y.proto = {}
            /\ "AUTH" \notin y.flags
        BY <1>1, <2>1 DEF SessionRecs
      <4> HIDE DEF y
      <4>3. QED
        BY <2>3, <4>1, <4>2
    <3>3. CASE ~told
      <4> DEFINE y == [sess[s] EXCEPT !.auth = NoAuth, !.open = FALSE, !.flags = @ \cup {"ERROR"}]
      <4>1. sess' = [sess EXCEPT ![s] = y]
        BY <3>1, <3>3 DEF Finish
      <4>2. y \in SessionRecs /\ y.auth = NoAuth /\ y.euid = sess[s].euid /\ y.proto = {}
            /\ "AUTH" \notin y.flags
        BY <1>1, <2>1 DEF SessionRecs
      <4> HIDE DEF y
      <4>3. QED
        BY <2>3, <4>1, <4>2
    <3>4. QED
      BY <3>2, <3>3
  <2>7. CASE m.what = "open"
    <3> DEFINE z == Succeeded(sess[s], m.token)
    <3>1. Finish(s, z, told)
      BY <1>3, <2>7 DEF AuthCallback, Outcome
    <3>2. /\ z \in SessionRecs /\ z.euid = sess[s].euid /\ z.uid = z.euid /\ z.by = m.token
          /\ z.attempt = m.token /\ "AUTH" \in z.flags
      <4>1. m.token \in Nat
        BY DEF OutcomeMsgs
      <4>2. QED
        BY <1>1, <2>1, <4>1 DEF Succeeded, SessionRecs, AuthRecs
    <3> HIDE DEF z
    <3>3. CASE told
      <4> DEFINE y == [z EXCEPT !.auth = NoAuth]
      <4>1. sess' = [sess EXCEPT ![s] = y]
        BY <3>1, <3>3 DEF Finish
      <4>2. /\ y \in SessionRecs /\ y.auth = NoAuth /\ y.euid = sess[s].euid /\ y.uid = y.euid
            /\ y.by = m.token /\ y.attempt = m.token /\ "AUTH" \in y.flags
        BY <3>2 DEF SessionRecs
      <4> HIDE DEF y
      <4>3. QED
        BY <2>4, <2>7, <4>1, <4>2
    <3>4. CASE ~told
      <4> DEFINE y == [z EXCEPT !.auth = NoAuth, !.open = FALSE, !.flags = @ \cup {"ERROR"}]
      <4>1. sess' = [sess EXCEPT ![s] = y]
        BY <3>1, <3>4 DEF Finish
      <4>2. /\ y \in SessionRecs /\ y.auth = NoAuth /\ y.euid = sess[s].euid /\ y.uid = y.euid
            /\ y.by = m.token /\ y.attempt = m.token /\ "AUTH" \in y.flags
        BY <3>2 DEF SessionRecs
      <4> HIDE DEF y
      <4>3. QED
        BY <2>4, <2>7, <4>1, <4>2
    <3>5. QED
      BY <3>3, <3>4
  <2>8. QED
    BY <2>2, <2>5, <2>6, <2>7
<1>4. QED
  BY <1>2, <1>3

\* dispatch_m2s
LEMMA FromMasterStep ==
    ASSUME IInv, FromMaster
    PROVE  IInv'
<1> DEFINE m == Head(m2s)
           rs == Answered(m)
<1>1. /\ m2s # <<>> /\ m2s' = Tail(m2s)
      /\ UNCHANGED <<nexttoken, asker, p2s, s2m, engine, granted>>
      /\ IF m.type = "ANSWER" THEN RecvAnswer(m)
         ELSE \E told \in BOOLEAN : RecvAuth(m, told)
  BY DEF FromMaster
<1>2. /\ m \in AnswerMsgs \cup OutcomeMsgs /\ m \in Elems(m2s)
      /\ m2s' \in Seq(AnswerMsgs \cup OutcomeMsgs) /\ Elems(m2s') \subseteq Elems(m2s)
  BY <1>1, ElemsTail DEF IInv, TypeOK
<1>3. \A r \in rs : r \in reqs /\ r.token = m.token
  BY DEF Answered
<1>4. \A r \in rs : IF m.type = "ANSWER" THEN r.kind = "CSUM" ELSE r.kind \in {"AUTH", "VERIFY"}
  BY <1>2, <1>3 DEF IInv, KindsOK
<1>5. ASSUME reqs' = reqs \ rs, UNCHANGED s2p PROVE Completes(rs)
  <2> HIDE DEF m, rs
  <2>1. \A r \in rs : \A q \in preqs : q.token # r.token
    BY <1>3, <1>4 DEF IInv, KindsOK
  <2>2. \A r \in rs : \A x \in Elems(s2p) : x.token = r.token => ~First(x)
    BY <1>3, <1>4 DEF IInv, KindsOK, First
  <2>3. p2s' \in Seq(AnswerMsgs) /\ Elems(p2s') \subseteq Elems(p2s)
    BY <1>1 DEF IInv, TypeOK
  <2>4. QED
    BY <1>1, <1>2, <1>3, <1>5, <2>1, <2>2, <2>3 DEF Completes
<1>6. CASE m.type = "ANSWER"
  <2>1. reqs' = reqs \ rs /\ UNCHANGED <<sess, s2p>>
    BY <1>1, <1>6 DEF RecvAnswer
  <2>2. Completes(rs)
    BY <1>5, <2>1
  <2> HIDE DEF m, rs
  <2>3. \A s \in Sessions, r \in rs : Waiting(s) => r.token # sess[s].auth.token
    BY <1>3, <1>4, <1>6 DEF IInv, SessionsOK, Waiting
  <2>4. QED
    BY <2>1, <2>2, <2>3, TableStep
<1>7. CASE m.type # "ANSWER"
  <2>1. m \in OutcomeMsgs
    BY <1>2, <1>7 DEF AnswerMsgs
  <2>2. PICK told \in BOOLEAN : RecvAuth(m, told)
    BY <1>1, <1>7
  <2>3. CASE rs = {}
    <3>1. UNCHANGED <<sess, reqs, s2p>>
      BY <2>2, <2>3 DEF RecvAuth
    <3>2. Completes(rs)
      BY <1>5, <2>3, <3>1
    <3> HIDE DEF rs
    <3>3. QED
      BY <2>3, <3>1, <3>2, TableStep
  <2>4. CASE rs # {}
    <3>1. PICK r \in rs : AuthCallback(r.sess, m, told) /\ reqs' = reqs \ rs /\ UNCHANGED s2p
      BY <2>2, <2>4 DEF RecvAuth
    <3>2. Completes(rs)
      BY <1>5, <3>1
    <3>3. rs = {r}
      BY <1>3 DEF IInv, TableOK
    <3> HIDE DEF m, rs
    <3>4. QED
      BY <1>2, <1>3, <2>1, <3>1, <3>2, <3>3, AuthCallbackStep
  <2>5. QED
    BY <2>3, <2>4
<1>8. QED
  BY <1>6, <1>7

-----------------------------------------------------------------------------
(* The theorems                                                            *)

\* Nothing is connected, asked or kept when the daemon starts.
LEMMA InitIInv ==
    Init => IInv
<1>1. SUFFICES ASSUME Init PROVE IInv
  OBVIOUS
<1>2. Elems(<<>>) = {} /\ DOMAIN <<>> = {}
  BY DEF Elems
<1>3. TypeOK
  <2>1. /\ <<>> \in Seq(ToPolicyMsgs) /\ <<>> \in Seq(AnswerMsgs) /\ <<>> \in Seq(ToMasterMsgs)
        /\ <<>> \in Seq(AnswerMsgs \cup OutcomeMsgs)
    OBVIOUS
  <2>2. 0 \in 0..MaxToken
    BY ServerAssumption
  <2>3. QED
    BY <1>1, <2>1, <2>2 DEF Init, TypeOK
<1>4. TokensOld /\ TableOK /\ KindsOK /\ SessionsOK /\ AliveOK /\ AuthSound
  BY <1>1, <1>2 DEF Init, TokensOld, TableOK, RequestsBelong, KindsOK, SessionsOK, Waiting,
                    AliveOK, AuthSound
<1>5. GrantsOK /\ FirstOK /\ AbortFollows /\ NoOrphanRequest /\ EngineOK /\ OwnersOK
  BY <1>1, <1>2 DEF Init, GrantsOK, FirstOK, AbortFollows, NoOrphanRequest, EngineOK, OwnersOK,
                    PolicyAuthorised
<1>6. QED
  BY <1>3, <1>4, <1>5 DEF IInv

\* What a client does keeps the invariant.
LEMMA ClientStep ==
    ASSUME IInv, NEW s \in Sessions, Client(s)
    PROVE  IInv'
<1>1. CASE \/ \E u \in Uids : Connect(s, u)
           \/ VerSel(s) \/ OptReq(s) \/ CloseReq(s) \/ Auth(s)
           \/ \E p \in SUBSET {"POLICY", "NOTIFY"} \ {{}} : ProtoSel(s, p)
  BY <1>1, ConnectSteps
<1>2. CASE Disconnect(s)
  BY <1>2, DisconnectStep DEF Disconnect
<1>3. CASE \/ \E type \in {"TRANSPORT", "KEY"} : AuthTransport(s, type)
           \/ \E good \in BOOLEAN : AuthReply(s, good)
  BY <1>3, AuthSteps
<1>4. ASSUME NEW type, NEW told \in BOOLEAN, AuthInvalid(s, type, told) PROVE IInv'
  <2>1. sess[s] # NoSession /\ FailNow(s, told)
    BY <1>4 DEF AuthInvalid, InAuth, Connecting, MayStart, Open
  <2>2. CASE told
    <3>1. told = TRUE
      BY <2>2
    <3>2. FailNow(s, TRUE)
      BY <2>1, <3>1
    <3>3. QED
      BY <2>1, <3>2, ConnectSteps
  <2>3. CASE ~told
    <3>1. told = FALSE
      BY <2>3
    <3>2. FailNow(s, FALSE)
      BY <2>1, <3>1
    <3>3. QED
      BY <2>1, <3>2, FailUntold
  <2>4. QED
    BY <2>2, <2>3
<1>5. CASE \E kind \in Kinds : Request(s, kind)
  BY <1>5, RequestStep
<1>6. ASSUME NEW end \in BOOLEAN, NEW op \in {"GET", "SET", "BAD"}, NEW u \in Targets,
             PolicyRequest(s, TRUE, end, op, u)
      PROVE  IInv'
  <2>1. u \in Int
    BY ServerAssumption
  <2>2. op \in Ops
    BY DEF Ops
  <2>3. QED
    BY <1>6, <2>1, <2>2, PolicyRequestStep
<1>7. ASSUME NEW end \in BOOLEAN, PolicyRequest(s, FALSE, end, "NONE", NOUID)
      PROVE  IInv'
  <2>1. NOUID \in Int
    BY DEF NOUID
  <2>2. "NONE" \in Ops
    BY DEF Ops
  <2>3. QED
    BY <1>7, <2>1, <2>2, PolicyRequestStep
<1>8. QED
  BY <1>1, <1>2, <1>3, <1>4, <1>5, <1>6, <1>7 DEF Client, Login

\* A stuttering step.
LEMMA StutterStep ==
    ASSUME IInv, UNCHANGED vars
    PROVE  IInv'
<1>1. UNCHANGED <<sess, reqs, nexttoken, asker, s2p, p2s, s2m, m2s, preqs, applied, granted>>
  BY DEF vars, table, pipes, engine
<1>2. TypeOK' /\ TokensOld' /\ TableOK' /\ KindsOK' /\ SessionsOK' /\ AliveOK' /\ GrantsOK'
  BY <1>1 DEF IInv, TypeOK, TokensOld, TableOK, RequestsBelong, KindsOK, SessionsOK, Waiting,
              AliveOK, GrantsOK
<1>3. AuthSound' /\ FirstOK' /\ AbortFollows' /\ NoOrphanRequest' /\ EngineOK' /\ OwnersOK'
  BY <1>1 DEF IInv, AuthSound, FirstOK, AbortFollows, NoOrphanRequest, EngineOK, OwnersOK,
              PolicyAuthorised
<1>4. QED
  BY <1>2, <1>3 DEF IInv

\* The inductive invariant holds at all times, whatever the clients do and in
\* whatever order the engines read their pipes.
THEOREM Inductive == Safe => []IInv
<1>1. Init => IInv
  BY InitIInv
<1>2. IInv /\ [Next]_vars => IInv'
  <2>1. SUFFICES ASSUME IInv, [Next]_vars PROVE IInv'
    OBVIOUS
  <2>2. CASE \E s \in Sessions : Client(s)
    BY <2>1, <2>2, ClientStep
  <2>3. CASE PolicyRecv
    BY <2>1, <2>3, PolicyRecvStep
  <2>4. CASE MasterRecv
    BY <2>1, <2>4, MasterRecvStep
  <2>5. CASE FromPolicy
    BY <2>1, <2>5, FromPolicyStep
  <2>6. CASE FromMaster
    BY <2>1, <2>6, FromMasterStep
  <2>7. CASE UNCHANGED vars
    BY <2>1, <2>7, StutterStep
  <2>8. QED
    BY <2>1, <2>2, <2>3, <2>4, <2>5, <2>6, <2>7 DEF Next
<1>3. QED
  BY <1>1, <1>2, PTL DEF Safe

\* Every request in the table of anoubis_policy.c belongs to a session with an
\* open channel, and no session has two: a late answer cannot reach a session
\* that was destroyed and perhaps replaced.
THEOREM RequestsAlwaysBelong == Spec => []RequestsBelong
<1>1. IInv => RequestsBelong
  BY DEF IInv, TableOK
<1>2. QED
  BY <1>1, Inductive, PTL DEF Spec

\* The policy engine keeps what it has of a chunked request (pe_dispatch_policy)
\* only while a client can finish it or the abort that the session's end sent is
\* on the pipe.
THEOREM RequestsNeverOrphaned == Spec => []NoOrphanRequest
<1>1. IInv => NoOrphanRequest
  BY DEF IInv
<1>2. QED
  BY <1>1, Inductive, PTL DEF Spec

\* A session is authenticated only as the user of its socket and only by the
\* master's answer to its own latest attempt; who has a key has signed the
\* challenge (dispatch_auth_challenge, dispatch_auth_result).
THEOREM AuthAlwaysSound == Spec => []AuthSound
<1>1. IInv => AuthSound
  BY DEF IInv
<1>2. QED
  BY <1>1, Inductive, PTL DEF Spec

\* An authentication in progress waits either for the client's signature or for
\* an answer to an open request, never for neither and never for both.
THEOREM AuthNeverHangs == Spec => []AuthAlive
<1>1. IInv => AuthAlive
  <2>1. SUFFICES ASSUME IInv, NEW s \in Sessions, Waiting(s)
                 PROVE  sess[s].auth.challenge # (\E r \in reqs : r.token = sess[s].auth.token)
    BY DEF AuthAlive, Waiting
  <2>2. sess[s].auth.challenge \in BOOLEAN
    BY <2>1 DEF IInv, TypeOK, Waiting, SessionRecs, AuthRecs
  <2>3. /\ sess[s].auth.challenge => ~ \E r \in reqs : r.token = sess[s].auth.token
        /\ ~sess[s].auth.challenge => \E r \in reqs : r.token = sess[s].auth.token
    BY <2>1 DEF IInv, AliveOK
  <2>4. QED
    BY <2>2, <2>3
<1>2. QED
  BY <1>1, Inductive, PTL DEF Spec

\* The policy engine installs a policy (pe_dispatch_policy, the END of a SET)
\* only for the user who asked for it or for root, however the chunks, aborts
\* and reconnects of all clients interleave.
THEOREM PoliciesAuthorised == Spec => []PolicyAuthorised
<1>1. IInv => PolicyAuthorised
  BY DEF IInv, OwnersOK
<1>2. QED
  BY <1>1, Inductive, PTL DEF Spec
=============================================================================
