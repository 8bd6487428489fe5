---------------------------- MODULE DaemonProofs ----------------------------
(***************************************************************************)
(* Proofs about the daemon as a whole, for any events, replies of the      *)
(* rules, clients and failures, and with SIGTERM at any time.              *)
(*                                                                         *)
(* The properties say where an event is while it travels through four      *)
(* processes.  They are proved in layers: the types of messages, then who  *)
(* owes the answer to an event, then the upgrade protocol and the shutdown *)
(* on top of these.                                                        *)
(***************************************************************************)
EXTENDS Daemon, FiniteSetTheorems, SequenceTheorems, TLAPS

-----------------------------------------------------------------------------
(* Counting messages                                                        *)

\* The positions of q that hold one of the messages kinds, and their number.
Where(q, kinds) == {i \in DOMAIN q : q[i] \in kinds}
Num(q, kinds) == Cardinality(Where(q, kinds))

LEMMA WhereFinite ==
    ASSUME NEW msgs, NEW q \in Seq(msgs), NEW kinds
    PROVE  IsFiniteSet(Where(q, kinds)) /\ Num(q, kinds) \in Nat
<1>1. IsFiniteSet(1 .. Len(q))
  BY FS_Interval
<1>2. Where(q, kinds) \in SUBSET (1 .. Len(q))
  BY DEF Where
<1>3. QED
  BY <1>1, <1>2, FS_Subset, FS_CardinalityType DEF Num

LEMMA NumConcat ==
    ASSUME NEW msgs, NEW p \in Seq(msgs), NEW q \in Seq(msgs), NEW kinds
    PROVE  Num(p \o q, kinds) = Num(p, kinds) + Num(q, kinds)
<1> DEFINE n == Len(p)
           B == {i \in DOMAIN (p \o q) : i > n /\ (p \o q)[i] \in kinds}
           f == [i \in Where(q, kinds) |-> i + n]
<1>1. /\ n \in Nat /\ Len(q) \in Nat /\ DOMAIN p = 1 .. n /\ DOMAIN q = 1 .. Len(q)
      /\ DOMAIN (p \o q) = 1 .. n + Len(q)
      /\ \A i \in 1 .. n + Len(q) : (p \o q)[i] = IF i <= n THEN p[i] ELSE q[i - n]
  OBVIOUS
<1>2. Where(p \o q, kinds) = Where(p, kinds) \cup B /\ Where(p, kinds) \cap B = {}
  BY <1>1 DEF Where
<1>3. \A i \in Where(q, kinds) : i + n \in B
  BY <1>1 DEF Where
<1>4. \A j \in B : j - n \in Where(q, kinds) /\ (j - n) + n = j
  BY <1>1 DEF Where
<1>5. f \in Bijection(Where(q, kinds), B)
  <2>1. f \in [Where(q, kinds) -> B]
    BY <1>3
  <2>2. \A i, j \in Where(q, kinds) : f[i] = f[j] => i = j
    BY <1>1 DEF Where
  <2>3. \A j \in B : \E i \in Where(q, kinds) : f[i] = j
    BY <1>4
  <2> HIDE DEF f, B
  <2>4. f \in Injection(Where(q, kinds), B)
    BY <2>1, <2>2 DEF Injection, IsInjective
  <2>5. f \in Surjection(Where(q, kinds), B)
    BY <2>1, <2>3 DEF Surjection
  <2>6. QED
    BY <2>4, <2>5 DEF Bijection
<1>6. IsFiniteSet(Where(p, kinds)) /\ IsFiniteSet(Where(q, kinds))
  BY WhereFinite
<1>7. IsFiniteSet(B) /\ Cardinality(B) = Num(q, kinds)
  BY <1>5, <1>6, FS_Bijection DEF ExistsBijection, Num
<1> HIDE DEF B
<1>8. /\ Cardinality(Where(p, kinds) \cup B)
           = Cardinality(Where(p, kinds)) + Cardinality(B) - Cardinality(Where(p, kinds) \cap B)
      /\ Cardinality(Where(p, kinds) \cap B) = 0
  BY <1>2, <1>6, <1>7, FS_Union, FS_EmptySet
<1>9. Num(p, kinds) \in Nat /\ Num(q, kinds) \in Nat
  BY WhereFinite
<1>10. QED
  BY <1>2, <1>7, <1>8, <1>9 DEF Num

LEMMA NumOne ==
    ASSUME NEW m, NEW kinds
    PROVE  Num(<<m>>, kinds) = IF m \in kinds THEN 1 ELSE 0
<1>1. Where(<<m>>, kinds) = IF m \in kinds THEN {1} ELSE {}
  BY DEF Where
<1>2. QED
  BY <1>1, FS_Singleton, FS_EmptySet DEF Num

LEMMA NumAppend ==
    ASSUME NEW msgs, NEW q \in Seq(msgs), NEW m \in msgs, NEW kinds
    PROVE  Num(Append(q, m), kinds) = Num(q, kinds) + (IF m \in kinds THEN 1 ELSE 0)
<1>1. Append(q, m) = q \o <<m>> /\ <<m>> \in Seq(msgs)
  OBVIOUS
<1>2. Num(q \o <<m>>, kinds) = Num(q, kinds) + Num(<<m>>, kinds)
  BY <1>1, NumConcat
<1>3. QED
  BY <1>1, <1>2, NumOne

LEMMA NumTail ==
    ASSUME NEW msgs, NEW q \in Seq(msgs), q # <<>>, NEW kinds
    PROVE  Num(q, kinds) = Num(Tail(q), kinds) + (IF Head(q) \in kinds THEN 1 ELSE 0)
<1>1. q = <<Head(q)>> \o Tail(q) /\ <<Head(q)>> \in Seq(msgs) /\ Tail(q) \in Seq(msgs)
  OBVIOUS
<1>2. Num(Tail(q), kinds) \in Nat
  BY <1>1, WhereFinite
<1>3. Num(q, kinds) = Num(<<Head(q)>>, kinds) + Num(Tail(q), kinds)
  BY <1>1, NumConcat
<1>4. QED
  BY <1>2, <1>3, NumOne

LEMMA NumEmpty ==
    ASSUME NEW kinds
    PROVE  Num(<<>>, kinds) = 0
<1>1. Where(<<>>, kinds) = {}
  BY DEF Where
<1>2. QED
  BY <1>1, FS_EmptySet DEF Num

-----------------------------------------------------------------------------
(* Types                                                                    *)

EvMsgs == [type : {"EVENTDEV", "PROCEXIT"}, token : Tokens]
AskMsgs == [type : {"EVENTASK", "EVENTCANCEL", "LOGREQUEST"}, token : Tokens]
Replies == [type : {"EVENTREPLY"}, token : Tokens, verdict : Int, flags : FlagSets]
\* What is written to the device.
DevReplies == [verdict : Int, flags : FlagSets]
\* The upgrade protocol, from and to the policy engine.
Orders == [type : {"UPGRADE"}, what : {"START", "CHUNK"}, n : Nat]
Requests == [type : {"UPGRADE"}, what : {"CHUNK_REQ", "END"}, n : Nat]
SumMsgs == [type : {"SFS_UPDATE_ALL"}]
Escalations == [token : Tokens, flags : FlagSets]

PipesOK ==
    /\ m2p \in Seq(EvMsgs \cup Requests) /\ p2m \in Seq(Replies \cup Orders)
    /\ m2u \in Seq(Orders) /\ u2m \in Seq(Requests \cup SumMsgs)
    /\ p2s \in Seq(AskMsgs) /\ s2p \in Seq(Replies)
MasterOK ==
    /\ evq \in Seq(EvMsgs) /\ m2dev \in Seq(Replies)
    /\ kern \in [Tokens -> {"idle", "waiting", "done", "gone"}]
    /\ written \in [Tokens -> Seq(DevReplies)]
    /\ mterm \in 0 .. 2 /\ upgradedFiles \in Nat
EngineOK ==
    /\ replyq \in SUBSET Escalations /\ IsFiniteSet(replyq)
    /\ p2mHold \in Seq(Replies) /\ terminate \in 0 .. 3
    /\ parents \in SUBSET Tokens /\ held \in SUBSET Tokens /\ chunks \in Nat

\* What a head can end with: a verdict of a peer, EPERM, or ANOUBIS_E_IO.
Decisions == Verdicts \cup {1, 5}
HeadRecs == [verdict : Decisions, you : Groups \cup {NoGroup}, uid : Int,
             reply : BOOLEAN, eventcount : Int]
\* The notify library as far as the rest of the daemon sees it.
NotifyOK ==
    /\ gid \in [Groups -> Uids \cup {NoGroup}] /\ dying \in Groups \cup {NoGroup}
    /\ pending \in [Groups -> [Tokens -> S!N!EventStates]]
    /\ head \in [Tokens -> HeadRecs \cup {NoHead}]
    /\ done \in [Tokens -> Seq(Int)]
    /\ S!N!LinkedHeadsLive
    /\ \A t \in Tokens : head[t] # NoHead => done[t] = <<>>

TypeOK == PipesOK /\ MasterOK /\ EngineOK /\ NotifyOK

LEMMA HeadRecsType == Decisions \subseteq Int /\ NoHead \notin HeadRecs
<1>1. Decisions \subseteq Int
  BY DaemonAssumption DEF Decisions
<1>2. \A h \in HeadRecs : h \in [verdict : Int, you : Groups \cup {NoGroup}, uid : Int,
                               reply : BOOLEAN, eventcount : Int]
  BY <1>1 DEF HeadRecs
<1>3. NoHead \notin HeadRecs
  BY <1>2, DaemonAssumption, Zenon
<1>4. QED
  BY <1>1, <1>3

\* Queues of messages.
LEMMA SeqTypes ==
    ASSUME NEW msgs, NEW q \in Seq(msgs)
    PROVE  /\ q # <<>> => Head(q) \in msgs /\ Tail(q) \in Seq(msgs)
           /\ \A m \in msgs : Append(q, m) \in Seq(msgs) /\ q \o <<m>> \in Seq(msgs)
           /\ \A p \in Seq(msgs) : q \o p \in Seq(msgs)
OBVIOUS

\* Sets of flags, and the two halves of a word.
LEMMA FlagTypes ==
    /\ {} \in FlagSets
    /\ \A f, g \in FlagSets : f \cup g \in FlagSets
    /\ \A v : FlagsOf(v) \in FlagSets
    /\ \A v \in Int : Clean(v) \in Int
<1>1. \A v : FlagsOf(v) \subseteq 0 .. 14
  BY DEF FlagsOf
<1>2. QED
  BY <1>1 DEF FlagSets, Clean, FlagUnit

LEMMA MsgTypes ==
    /\ \A t \in Tokens : EventDev(t) \in EvMsgs /\ ProcExit(t) \in EvMsgs
    /\ \A t \in Tokens : /\ EventAsk(t) \in AskMsgs /\ EventCancel(t) \in AskMsgs
                         /\ LogRequest(t) \in AskMsgs
    /\ \A t \in Tokens, v \in Int, f \in FlagSets : EventReply(t, v, f) \in Replies
    /\ \A n \in Nat : UpgradeMsg("START", n) \in Orders /\ UpgradeMsg("CHUNK", n) \in Orders
    /\ \A n \in Nat : UpgradeMsg("CHUNK_REQ", n) \in Requests /\ UpgradeMsg("END", n) \in Requests
BY DEF EventDev, ProcExit, EventAsk, EventCancel, LogRequest, EventReply, UpgradeMsg,
       EvMsgs, AskMsgs, Replies, Orders, Requests

LEMMA MasterFrame ==
    ASSUME TypeOK, NotMaster
    PROVE  /\ p2s' \in Seq(AskMsgs) /\ s2p' \in Seq(Replies)
           /\ EngineOK' /\ NotifyOK'
BY DEF TypeOK, NotMaster, PipesOK, EngineOK, NotifyOK, policy, session,
       S!N!LinkedHeadsLive, S!N!EventStates

\* What the handlers of the master do to its queues.
RecvKernelDoes ==
    LET m == Head(evq) IN
    /\ mterm < 2 /\ evq # <<>> /\ evq' = Tail(evq) /\ m \in EvMsgs
    /\ \/ /\ m.type = "EVENTDEV" /\ m.token \in ChildTokens
          /\ \E v \in {0, 1} : m2dev' = Append(m2dev, EventReply(m.token, v, {}))
          /\ m2p' = m2p
       \/ /\ m.type = "EVENTDEV" /\ m.token \in NoteTokens \ ChildTokens
          /\ m2p' = m2p /\ m2dev' = m2dev
       \/ /\ m.type = "EVENTDEV" => m.token \notin NoteTokens \cup ChildTokens
          /\ m2p' = IF "m2p" \notin closed THEN m2p \o <<m>> ELSE m2p
          /\ m2dev' = m2dev
    /\ UNCHANGED <<kern, written, declared, mterm, upgradedFiles, mexit, p2m, m2u,
                   u2m, closed, signals>>

LEMMA RecvKernelEffect ==
    ASSUME TypeOK, M!RecvKernel
    PROVE  RecvKernelDoes
<1>1. evq \in Seq(EvMsgs) /\ evq # <<>>
  BY DEF TypeOK, MasterOK, M!RecvKernel
<1>2. Head(evq) \in EvMsgs
  BY <1>1, SeqTypes
<1> DEFINE m == Head(evq)
<1>3. /\ mterm < 2 /\ evq' = Tail(evq)
      /\ UNCHANGED <<kern, written, declared, mterm, upgradedFiles, mexit, p2m, m2u,
                     u2m, closed, signals>>
  BY DEF M!RecvKernel
<1>4. CASE m.type = "EVENTDEV" /\ m.token \in ChildTokens
  <2>1. m2p' = m2p
    BY <1>4, DaemonAssumption DEF M!RecvKernel
  <2>2. \E v \in {0, 1} : m2dev' = Append(m2dev, M!EventReply(m.token, v, {}))
    BY <1>4, DaemonAssumption DEF M!RecvKernel
  <2>3. QED
    BY <1>1, <1>2, <1>3, <1>4, <2>1, <2>2 DEF RecvKernelDoes, M!EventReply, EventReply
<1>5. CASE m.type = "EVENTDEV" /\ m.token \in NoteTokens \ ChildTokens
  <2>1. m2dev' = m2dev /\ m2p' = m2p
    BY <1>5 DEF M!RecvKernel
  <2>2. QED
    BY <1>1, <1>2, <1>3, <1>5, <2>1 DEF RecvKernelDoes
<1>6. CASE m.type = "EVENTDEV" => m.token \notin NoteTokens \cup ChildTokens
  <2>1. m2dev' = m2dev /\ m2p' = M!Send(m2p, "m2p" \notin closed, <<m>>)
    BY <1>6 DEF M!RecvKernel
  <2>2. QED
    BY <1>1, <1>2, <1>3, <1>6, <2>1 DEF RecvKernelDoes, M!Send
<1>7. QED
  BY <1>4, <1>5, <1>6

RecvPolicyDoes ==
    LET m == Head(p2m) IN
    /\ ~mexit /\ p2m # <<>> /\ p2m' = Tail(p2m)
    /\ \/ m \in Replies /\ m2dev' = Append(m2dev, m) /\ m2u' = m2u
       \/ /\ m \in Orders /\ m2u' = IF "m2u" \notin closed THEN m2u \o <<m>> ELSE m2u
          /\ m2dev' = m2dev
    /\ UNCHANGED <<evq, kern, written, declared, mterm, upgradedFiles, mexit, m2p,
                   m2s, u2m, closed, signals>>

LEMMA RecvPolicyEffect ==
    ASSUME TypeOK, M!RecvPolicy
    PROVE  RecvPolicyDoes
<1>1. p2m \in Seq(Replies \cup Orders) /\ p2m # <<>>
  BY DEF TypeOK, PipesOK, M!RecvPolicy
<1>2. Head(p2m) \in Replies \cup Orders
  BY <1>1, SeqTypes
<1>3. \/ Head(p2m) \in Replies /\ Head(p2m).type = "EVENTREPLY"
      \/ Head(p2m) \in Orders /\ Head(p2m).type # "EVENTREPLY"
  BY <1>2 DEF Replies, Orders
<1>4. QED
  BY <1>3 DEF M!RecvPolicy, RecvPolicyDoes, M!Send, M!kernel

WriteDevDoes ==
    LET r == Head(m2dev) IN
    /\ m2dev # <<>> /\ r \in Replies /\ m2dev' = Tail(m2dev)
    /\ written' = [written EXCEPT ![r.token] =
                      Append(@, [verdict |-> r.verdict, flags |-> r.flags])]
    /\ kern' = [kern EXCEPT ![r.token] = IF @ = "waiting" THEN "done" ELSE @]
    /\ UNCHANGED <<evq, declared, mterm, upgradedFiles, mexit, m2p, p2m, m2s, m2u,
                   u2m, closed, signals>>

LEMMA WriteDevEffect ==
    ASSUME TypeOK, M!WriteDev
    PROVE  WriteDevDoes
<1>1. m2dev \in Seq(Replies) /\ m2dev # <<>>
  BY DEF TypeOK, MasterOK, M!WriteDev
<1>2. Head(m2dev) \in Replies
  BY <1>1, SeqTypes
<1>3. QED
  BY <1>1, <1>2 DEF M!WriteDev, WriteDevDoes, M!Dequeued

RecvUpgradeDoes ==
    LET m == Head(u2m) IN
    /\ ~mexit /\ u2m # <<>> /\ u2m' = Tail(u2m)
    /\ \/ m \in SumMsgs /\ m2p' = m2p /\ upgradedFiles' = upgradedFiles + 1
       \/ /\ m \in Requests /\ m2p' = IF "m2p" \notin closed THEN m2p \o <<m>> ELSE m2p
          /\ upgradedFiles' \in {upgradedFiles, 0}
    /\ UNCHANGED <<evq, kern, written, declared, mterm, m2dev, mexit, p2m, m2u,
                   closed, signals>>

LEMMA RecvUpgradeEffect ==
    ASSUME TypeOK, M!RecvUpgrade
    PROVE  RecvUpgradeDoes
<1>1. u2m \in Seq(Requests \cup SumMsgs) /\ u2m # <<>>
  BY DEF TypeOK, PipesOK, M!RecvUpgrade
<1>2. Head(u2m) \in Requests \cup SumMsgs
  BY <1>1, SeqTypes
<1>3. \/ Head(u2m) \in SumMsgs /\ Head(u2m).type = "SFS_UPDATE_ALL"
      \/ Head(u2m) \in Requests /\ Head(u2m).type # "SFS_UPDATE_ALL"
  BY <1>2 DEF Requests, SumMsgs
<1>4. QED
  BY <1>3 DEF M!RecvUpgrade, RecvUpgradeDoes, M!Send, M!kernel

LEMMA MasterTypes ==
    ASSUME TypeOK, Master \/ Kernel \/ Stop
    PROVE  TypeOK'
<1> USE DEF MasterOK, PipesOK
<1>f. /\ p2s' \in Seq(AskMsgs) /\ s2p' \in Seq(Replies)
      /\ EngineOK' /\ NotifyOK'
  BY MasterFrame DEF Master, Kernel, Stop
<1> SUFFICES /\ m2p' \in Seq(EvMsgs \cup Requests) /\ p2m' \in Seq(Replies \cup Orders)
             /\ m2u' \in Seq(Orders) /\ u2m' \in Seq(Requests \cup SumMsgs)
             /\ MasterOK'
  BY <1>f DEF TypeOK
<1>t. PipesOK /\ MasterOK
  BY DEF TypeOK
<1>1. CASE M!RecvKernel
  <2> DEFINE m == Head(evq)
  <2>1. RecvKernelDoes
    BY <1>1, RecvKernelEffect
  <2>2. evq' \in Seq(EvMsgs) /\ m \in EvMsgs
    BY <1>t, <2>1, SeqTypes DEF RecvKernelDoes
  <2>3. m2dev' \in Seq(Replies)
    <3>1. m.token \in Tokens
      BY <2>2 DEF EvMsgs
    <3>2. \A v \in {0, 1} : EventReply(m.token, v, {}) \in Replies
      BY <3>1, FlagTypes DEF EventReply, Replies
    <3>3. QED
      BY <1>t, <2>1, <3>2, SeqTypes DEF RecvKernelDoes
  <2>4. m2p' \in Seq(EvMsgs \cup Requests)
    <3>1. m2p \o <<m>> \in Seq(EvMsgs \cup Requests)
      BY <1>t, <2>2, SeqTypes
    <3>2. m2p' = m2p \/ m2p' = m2p \o <<m>>
      BY <2>1 DEF RecvKernelDoes
    <3>3. QED
      BY <1>t, <3>1, <3>2
  <2>5. QED
    BY <1>t, <2>1, <2>2, <2>3, <2>4 DEF RecvKernelDoes
<1>2. CASE M!EndOfEvents
  BY <1>t, <1>2 DEF M!EndOfEvents, M!kernel
<1>3. CASE M!RecvPolicy
  <2> DEFINE m == Head(p2m)
  <2>1. RecvPolicyDoes
    BY <1>3, RecvPolicyEffect
  <2>2. p2m' \in Seq(Replies \cup Orders)
    BY <1>t, <2>1, SeqTypes DEF RecvPolicyDoes
  <2>3. m2dev' \in Seq(Replies) /\ m2u' \in Seq(Orders)
    BY <1>t, <2>1, SeqTypes DEF RecvPolicyDoes
  <2>4. QED
    BY <1>t, <2>1, <2>2, <2>3 DEF RecvPolicyDoes
<1>4. CASE M!WriteDev
  <2> DEFINE r == Head(m2dev)
             a == [verdict |-> r.verdict, flags |-> r.flags]
  <2>1. WriteDevDoes
    BY <1>4, WriteDevEffect
  <2>2. m2dev' \in Seq(Replies) /\ r \in Replies
    BY <1>t, <2>1, SeqTypes DEF WriteDevDoes
  <2>3. r.token \in Tokens /\ a \in DevReplies
    BY <2>2 DEF Replies, DevReplies
  <2>4. Append(written[r.token], a) \in Seq(DevReplies)
    BY <1>t, <2>3, SeqTypes
  <2>5. written' = [written EXCEPT ![r.token] = Append(written[r.token], a)]
    BY <2>1 DEF WriteDevDoes
  <2>6. written' \in [Tokens -> Seq(DevReplies)]
    BY <1>t, <2>3, <2>4, <2>5
  <2>7. kern' \in [Tokens -> {"idle", "waiting", "done", "gone"}]
    BY <1>t, <2>1, <2>3 DEF WriteDevDoes
  <2>8. QED
    BY <1>t, <2>1, <2>2, <2>6, <2>7 DEF WriteDevDoes
<1>5. CASE M!RecvUpgrade
  <2>1. RecvUpgradeDoes
    BY <1>5, RecvUpgradeEffect
  <2>2. u2m' \in Seq(Requests \cup SumMsgs)
    BY <1>t, <2>1, SeqTypes DEF RecvUpgradeDoes
  <2>3. m2p' \in Seq(EvMsgs \cup Requests)
    BY <1>t, <2>1, SeqTypes DEF RecvUpgradeDoes
  <2>4. QED
    BY <1>t, <2>1, <2>2, <2>3 DEF RecvUpgradeDoes
<1>6. CASE \E pipe \in {"m2p", "m2s", "m2u"} : M!Shut(pipe)
  BY <1>t, <1>6 DEF M!Shut, M!kernel, M!own
<1>7. CASE M!Exit
  BY <1>t, <1>7 DEF M!Exit, M!kernel
<1>8. CASE \E t \in Tokens : M!Post(t)
  <2>1. PICK t \in Tokens : M!Post(t)
    BY <1>8
  <2>2. evq' = Append(evq, EventDev(t))
    BY <2>1 DEF M!Post, M!EventDev, EventDev
  <2>3. evq' \in Seq(EvMsgs)
    BY <1>t, <2>2, MsgTypes, SeqTypes
  <2>4. QED
    BY <1>t, <2>1, <2>3 DEF M!Post, M!own
<1>9. CASE \E t \in Tokens : M!ProcessExit(t)
  <2>1. PICK t \in Tokens : M!ProcessExit(t)
    BY <1>9
  <2>2. evq' = evq \/ evq' = Append(evq, ProcExit(t))
    BY <2>1 DEF M!ProcessExit, M!ProcExit, ProcExit
  <2>3. evq' \in Seq(EvMsgs)
    BY <1>t, <2>2, MsgTypes, SeqTypes
  <2>4. QED
    BY <1>t, <2>1, <2>3 DEF M!ProcessExit, M!own
<1>10. CASE M!Sigterm
  BY <1>t, <1>10 DEF M!Sigterm
<1>11. QED
  BY <1>1, <1>2, <1>3, <1>4, <1>5, <1>6, <1>7, <1>8, <1>9, <1>10
     DEF Master, Kernel, Stop, M!Handle, M!Environment

LEMMA PolicyFrame ==
    ASSUME TypeOK, NotPolicy
    PROVE  m2u' \in Seq(Orders) /\ u2m' \in Seq(Requests \cup SumMsgs) /\ MasterOK' /\ NotifyOK'
BY DEF TypeOK, NotPolicy, PipesOK, MasterOK, NotifyOK, master, session,
       S!N!LinkedHeadsLive, S!N!EventStates

\* The message the policy engine reads from the master.
LEMMA FromMasterType ==
    ASSUME TypeOK, m2p # <<>>
    PROVE  /\ Tail(m2p) \in Seq(EvMsgs \cup Requests)
           /\ \/ Head(m2p) \in EvMsgs /\ Head(m2p).type \in {"EVENTDEV", "PROCEXIT"}
                 /\ Head(m2p).token \in Tokens
              \/ Head(m2p) \in Requests /\ Head(m2p).type = "UPGRADE"
                 /\ Head(m2p).what \in {"CHUNK_REQ", "END"}
<1>1. m2p \in Seq(EvMsgs \cup Requests)
  BY DEF TypeOK, PipesOK
<1>2. Head(m2p) \in EvMsgs \cup Requests /\ Tail(m2p) \in Seq(EvMsgs \cup Requests)
  BY <1>1, SeqTypes
<1>3. QED
  BY <1>2 DEF EvMsgs, Requests

\* What is sent to the session engine.
LEMMA ToSessionTypes ==
    ASSUME TypeOK, NEW t \in Tokens
    PROVE  /\ P!ToSession(P!Log(t)) => p2s' \in Seq(AskMsgs)
           /\ P!ToSession(P!Log(t) \o <<EventAsk(t)>>) => p2s' \in Seq(AskMsgs)
           /\ P!ToSession(<<EventCancel(t)>>) => p2s' \in Seq(AskMsgs)
<1>1. p2s \in Seq(AskMsgs)
  BY DEF TypeOK, PipesOK
<1>2. P!Log(t) \in Seq(AskMsgs)
  <2>1. P!LogRequest(t) \in AskMsgs
    BY DEF P!LogRequest, AskMsgs
  <2>2. QED
    BY <2>1 DEF P!Log
<1>3. <<EventAsk(t)>> \in Seq(AskMsgs) /\ <<EventCancel(t)>> \in Seq(AskMsgs)
  BY DEF EventAsk, EventCancel, AskMsgs
<1>4. P!Log(t) \o <<EventAsk(t)>> \in Seq(AskMsgs)
  BY <1>2, <1>3, SeqTypes
<1> DEFINE la == P!Log(t) \o <<EventAsk(t)>>
<1>5. \A msgs \in Seq(AskMsgs) : p2s \o msgs \in Seq(AskMsgs)
  BY <1>1, SeqTypes
<1> HIDE DEF la
<1>6. \A msgs \in Seq(AskMsgs) : P!ToSession(msgs) => p2s' \in Seq(AskMsgs)
  BY <1>1, <1>5 DEF P!ToSession, P!Send
<1>7. QED
  BY <1>2, <1>3, <1>4, <1>6

LEMMA RecvEventTypes ==
    ASSUME TypeOK, P!RecvEvent
    PROVE  EngineOK' /\ m2p' \in Seq(EvMsgs \cup Requests)
           /\ p2m' \in Seq(Replies \cup Orders) /\ p2s' \in Seq(AskMsgs) /\ s2p' = s2p
<1> DEFINE t == Head(m2p).token
<1>1. m2p' = Tail(m2p) /\ s2p' = s2p /\ terminate' = terminate /\ m2p # <<>>
      /\ Head(m2p).type = "EVENTDEV"
  BY DEF P!RecvEvent
<1>2. m2p' \in Seq(EvMsgs \cup Requests) /\ t \in Tokens
  BY <1>1, FromMasterType
<1>3. /\ p2m \in Seq(Replies \cup Orders) /\ p2s \in Seq(AskMsgs) /\ EngineOK
  BY DEF TypeOK, PipesOK
<1> HIDE DEF t
<1>4. CASE t \in LockTokens
  <2>1. P!Lock(t)
    BY <1>4 DEF P!RecvEvent, t
  <2>2. P!EventReply(t, 0, {}) \in Replies
    BY <1>2, FlagTypes DEF P!EventReply, Replies
  <2>3. Append(p2m, P!EventReply(t, 0, {})) \in Seq(Replies \cup Orders)
    BY <1>3, <2>2, SeqTypes
  <2>4. Append(p2mHold, P!EventReply(t, 0, {})) \in Seq(Replies)
    BY <1>3, <2>2, SeqTypes DEF EngineOK
  <2>5. p2m' \in Seq(Replies \cup Orders) /\ p2mHold' \in Seq(Replies)
    BY <1>3, <2>1, <2>3, <2>4 DEF P!Lock, EngineOK
  <2>6. QED
    BY <1>1, <1>2, <1>3, <2>1, <2>5 DEF P!Lock, EngineOK
<1>5. CASE t \notin LockTokens
  <2>1. PICK r \in PolicyReplies : P!Ask(t, r) \/ P!Answer(t, r)
    BY <1>5 DEF P!RecvEvent, t
  <2>2. r.verdict \in Int /\ r.flags \in FlagSets
    BY DaemonAssumption
  <2>3. CASE P!Ask(t, r)
    <3>1. [token |-> t, flags |-> r.flags] \in Escalations
      BY <1>2, <2>2 DEF Escalations
    <3>2. replyq' \in SUBSET Escalations /\ IsFiniteSet(replyq')
      <4>1. replyq' = replyq \cup {[token |-> t, flags |-> r.flags]}
        BY <2>3 DEF P!Ask
      <4>2. replyq \in SUBSET Escalations /\ IsFiniteSet(replyq)
        BY <1>3 DEF EngineOK
      <4> DEFINE w == [token |-> t, flags |-> r.flags]
      <4> HIDE DEF w
      <4>3. IsFiniteSet(replyq \cup {w})
        BY <4>2, FS_AddElement
      <4>4. w \in Escalations
        BY <3>1 DEF w
      <4>5. QED
        BY <4>1, <4>2, <4>3, <4>4 DEF w
    <3>3. p2s' \in Seq(AskMsgs)
      BY <1>2, <2>3, ToSessionTypes DEF P!Ask, P!EventAsk, EventAsk
    <3>4. QED
      BY <1>1, <1>2, <1>3, <2>3, <3>2, <3>3 DEF P!Ask, EngineOK
  <2>4. CASE P!Answer(t, r)
    <3>1. P!EventReply(t, r.verdict, r.flags) \in Replies
      BY <1>2, <2>2 DEF P!EventReply, Replies
    <3>2. Append(p2m, P!EventReply(t, r.verdict, r.flags)) \in Seq(Replies \cup Orders)
      BY <1>3, <3>1, SeqTypes
    <3>3. p2s' \in Seq(AskMsgs)
      BY <1>2, <2>4, ToSessionTypes DEF P!Answer
    <3>4. QED
      BY <1>1, <1>2, <1>3, <2>4, <3>2, <3>3 DEF P!Answer, EngineOK
  <2>5. QED
    BY <2>1, <2>3, <2>4
<1>6. QED
  BY <1>4, <1>5

LEMMA PolicyTypes ==
    ASSUME TypeOK, Policy \/ PolicyTerm \/ \E t \in Tokens : Timer(t)
    PROVE  TypeOK'
<1>f. m2u' \in Seq(Orders) /\ u2m' \in Seq(Requests \cup SumMsgs) /\ MasterOK' /\ NotifyOK'
  BY PolicyFrame DEF Policy, PolicyTerm, Timer
<1> SUFFICES EngineOK' /\ m2p' \in Seq(EvMsgs \cup Requests)
             /\ p2m' \in Seq(Replies \cup Orders) /\ p2s' \in Seq(AskMsgs)
             /\ s2p' \in Seq(Replies)
  BY <1>f DEF TypeOK, PipesOK
<1>t. /\ m2p \in Seq(EvMsgs \cup Requests) /\ p2m \in Seq(Replies \cup Orders)
      /\ p2s \in Seq(AskMsgs) /\ s2p \in Seq(Replies) /\ EngineOK
  BY DEF TypeOK, PipesOK
<1>1. CASE P!RecvEvent
  BY <1>1, <1>t, RecvEventTypes
<1>2. CASE P!RecvExit
  <2>1. m2p' \in Seq(EvMsgs \cup Requests)
    BY <1>2, FromMasterType DEF P!RecvExit
  <2>2. P!UpgradeMsg("START", 0) \in Orders
    BY DEF P!UpgradeMsg, Orders
  <2>3. Append(p2m, P!UpgradeMsg("START", 0)) \in Seq(Replies \cup Orders)
    BY <1>t, <2>2, SeqTypes
  <2>4. p2m' \in Seq(Replies \cup Orders)
    BY <1>t, <1>2, <2>3 DEF P!RecvExit
  <2>5. chunks' \in Nat
    BY <1>t, <1>2, DaemonAssumption DEF P!RecvExit, EngineOK
  <2>6. QED
    BY <1>2, <1>t, <2>1, <2>4, <2>5 DEF P!RecvExit, EngineOK
<1>3. CASE P!RecvUpgrade
  <2>1. m2p' \in Seq(EvMsgs \cup Requests) /\ Head(m2p).what \in {"CHUNK_REQ", "END"}
    BY <1>3, FromMasterType DEF P!RecvUpgrade
  <2>2. CASE Head(m2p).what = "CHUNK_REQ"
    <3> DEFINE n == IF P!Busy THEN chunks ELSE 0
               c == P!UpgradeMsg("CHUNK", IF n > 0 THEN 1 ELSE 0)
    <3>1. p2m' = Append(p2m, c) /\ chunks' = IF n > 0 THEN n - 1 ELSE 0
      BY <1>3, <2>2 DEF P!RecvUpgrade
    <3>2. UNCHANGED <<p2mHold, parents, held, tree>>
      BY <1>3, <2>2 DEF P!RecvUpgrade
    <3>3. n \in Nat
      BY <1>t DEF EngineOK
    <3> HIDE DEF n
    <3>4. c \in Orders /\ chunks' \in Nat
      BY <3>1, <3>3 DEF P!UpgradeMsg, Orders
    <3> HIDE DEF c
    <3>5. p2m' \in Seq(Replies \cup Orders)
      BY <1>t, <3>1, <3>4, SeqTypes
    <3>6. QED
      BY <1>3, <1>t, <2>1, <3>2, <3>4, <3>5 DEF P!RecvUpgrade, EngineOK
  <2>3. CASE Head(m2p).what = "END"
    <3>1. /\ parents' = parents \cup held /\ held' = {} /\ chunks' = 0
          /\ p2m' = p2m \o p2mHold /\ p2mHold' = <<>>
      BY <1>3, <2>3 DEF P!RecvUpgrade, P!ReleaseHold
    <3>2. p2mHold \in Seq(Replies \cup Orders)
      BY <1>t DEF EngineOK
    <3>3. p2m' \in Seq(Replies \cup Orders)
      BY <1>t, <3>1, <3>2, SeqTypes
    <3>4. QED
      BY <1>3, <1>t, <2>1, <3>1, <3>3 DEF P!RecvUpgrade, EngineOK
  <2>4. QED
    BY <2>1, <2>2, <2>3
<1>4. CASE P!EofMaster
  BY <1>4, <1>t DEF P!EofMaster, P!SetTerminate, P!pipes, EngineOK
<1>5. CASE P!RecvReply
  <2> DEFINE m == Head(s2p)
             waiting == {w \in replyq : w.token = m.token}
  <2>1. m \in Replies /\ Tail(s2p) \in Seq(Replies)
    BY <1>5, <1>t, SeqTypes DEF P!RecvReply
  <2>2. \/ replyq' = replyq /\ p2m' = p2m
        \/ \E w \in waiting : replyq' = replyq \ {w} /\ p2m' = Append(p2m, P!Restored(m, w))
    BY <1>5 DEF P!RecvReply, P!Settled
  <2>3. ASSUME NEW w \in waiting
        PROVE  Append(p2m, P!Restored(m, w)) \in Seq(Replies \cup Orders)
    <3>1. m.token \in Tokens /\ m.verdict \in Int /\ m.flags \cup w.flags \in FlagSets
      BY <1>t, <2>1, FlagTypes DEF EngineOK, Replies, Escalations
    <3>2. P!Restored(m, w) \in Replies
      BY <3>1 DEF P!Restored, P!EventReply, Replies
    <3>3. QED
      BY <1>t, <3>2, SeqTypes
  <2>4. IsFiniteSet(replyq') /\ replyq' \in SUBSET Escalations
    BY <1>t, <2>2, FS_RemoveElement DEF EngineOK
  <2>5. p2m' \in Seq(Replies \cup Orders)
    BY <1>t, <2>2, <2>3
  <2>6. QED
    BY <1>5, <1>t, <2>1, <2>4, <2>5 DEF P!RecvReply, EngineOK
<1>6. CASE P!EofSession
  BY <1>6, <1>t DEF P!EofSession, P!SetTerminate, P!pipes, EngineOK
<1>7. CASE P!ShutSession \/ P!Exit
  BY <1>7, <1>t DEF P!ShutSession, P!Exit, P!own, EngineOK
<1>8. ASSUME NEW w \in replyq, P!Expire(w) PROVE TypeOK'
  <2>1. w.token \in Tokens
    BY <1>t DEF EngineOK, Escalations
  <2>2. P!EventReply(w.token, P!EPERM, {}) \in Replies
    BY <2>1, FlagTypes DEF P!EventReply, P!EPERM, Replies
  <2>3. Append(p2m, P!EventReply(w.token, P!EPERM, {})) \in Seq(Replies \cup Orders)
    BY <1>t, <2>2, SeqTypes
  <2>4. IsFiniteSet(replyq') /\ replyq' \in SUBSET Escalations
    BY <1>8, <1>t, FS_RemoveElement DEF P!Expire, P!Settled, EngineOK
  <2>5. p2s' \in Seq(AskMsgs)
    BY <1>8, <2>1, ToSessionTypes DEF P!Expire, P!CancelMsg, P!EventCancel, EventCancel
  <2>6. QED
    BY <1>8, <1>f, <1>t, <2>3, <2>4, <2>5 DEF P!Expire, EngineOK, TypeOK, PipesOK
<1>9. CASE P!Sigterm
  BY <1>9, <1>t DEF P!Sigterm, P!SetTerminate, P!pipes, EngineOK
<1>10. QED
  BY <1>1, <1>2, <1>3, <1>4, <1>5, <1>6, <1>7, <1>8, <1>9
     DEF Policy, PolicyTerm, Timer, P!Handle, TypeOK, PipesOK

-----------------------------------------------------------------------------
(* The notify library                                                       *)

\* What a call of the notify library does to the head of t and to the results
\* reported for it: nothing, head->finish with verdict v, a change of the head
\* that keeps it alive, or a new escalation with or without a recipient.
HeadsSame == UNCHANGED <<head, done>>
Finishes(t, v) ==
    /\ head[t] # NoHead /\ head' = [head EXCEPT ![t] = NoHead]
    /\ v \in Nat /\ v \in Decisions /\ done' = [done EXCEPT ![t] = <<v>>]
Keeps(t) ==
    /\ head[t] # NoHead /\ UNCHANGED done
    /\ \E h \in HeadRecs : /\ head' = [head EXCEPT ![t] = h]
                           /\ head[t].reply => h.reply
Starts(t) ==
    /\ head[t] = NoHead /\ done' = [done EXCEPT ![t] = <<>>]
    /\ \/ head' = head
       \/ \E h \in HeadRecs : head' = [head EXCEPT ![t] = h]

PendingType == [Groups -> [Tokens -> S!N!EventStates]]

\* The event states after the results were sent.
LEMMA AfterReplyTypes ==
    ASSUME NEW p \in PendingType, NEW t \in Tokens, NEW fail
    PROVE  /\ S!N!AfterReply(p, t, fail) \in PendingType
           /\ \A g \in Groups : S!N!AfterReply(p, t, fail)[g][t] \notin {"open", "verdict"}
           /\ \A g \in Groups, u \in Tokens \ {t} : S!N!AfterReply(p, t, fail)[g][u] = p[g][u]
<1> DEFINE q(g) == [p[g] EXCEPT ![t] =
                IF @ = "verdict" \/ g \in fail THEN "none" ELSE "replied"]
<1>1. \A g \in Groups : p[g] \in [Tokens -> S!N!EventStates]
  BY DEF PendingType
<1>2. \A g \in Groups : /\ q(g) \in [Tokens -> S!N!EventStates]
                         /\ q(g)[t] \in {"none", "replied"}
                         /\ \A u \in Tokens \ {t} : q(g)[u] = p[g][u]
  BY <1>1 DEF S!N!EventStates
<1>3. \A g \in Groups : g \notin S!N!Peers(p, t) => p[g][t] \notin {"open", "verdict"}
  BY DEF S!N!Peers
<1>4. S!N!AfterReply(p, t, fail)
        = [g \in Groups |-> IF g \notin S!N!Peers(p, t) THEN p[g] ELSE q(g)]
  BY DEF S!N!AfterReply
<1> HIDE DEF q
<1>5. QED
  BY <1>1, <1>2, <1>3, <1>4 DEF PendingType

\* NotifyOK after a step that left groups alone, changed the events of token t
\* to p and its head to h.
LEMMA NotifyOKAfter ==
    ASSUME NotifyOK, NEW t \in Tokens, NEW h \in HeadRecs \cup {NoHead},
           pending' \in PendingType, head' = [head EXCEPT ![t] = h],
           \A g \in Groups, u \in Tokens \ {t} : pending'[g][u] = pending[g][u],
           h = NoHead => \A g \in Groups : pending'[g][t] \notin {"open", "verdict"},
           NEW d \in Seq(Int), done' = [done EXCEPT ![t] = d],
           h # NoHead => d = <<>>,
           UNCHANGED <<gid, dying>>
    PROVE  NotifyOK'
<1>1. head \in [Tokens -> HeadRecs \cup {NoHead}] /\ done \in [Tokens -> Seq(Int)]
  BY DEF NotifyOK
<1>2. /\ head' \in [Tokens -> HeadRecs \cup {NoHead}] /\ done' \in [Tokens -> Seq(Int)]
      /\ head'[t] = h /\ done'[t] = d
      /\ \A u \in Tokens \ {t} : head'[u] = head[u] /\ done'[u] = done[u]
  BY <1>1
<1>3. S!N!LinkedHeadsLive'
  BY <1>2 DEF NotifyOK, S!N!LinkedHeadsLive
<1>4. \A u \in Tokens : head'[u] # NoHead => done'[u] = <<>>
  BY <1>2 DEF NotifyOK
<1>5. /\ gid' \in [Groups -> Uids \cup {NoGroup}] /\ dying' \in Groups \cup {NoGroup}
      /\ pending' \in [Groups -> [Tokens -> S!N!EventStates']]
  BY DEF NotifyOK, PendingType, S!N!EventStates
<1>6. QED
  BY <1>2, <1>3, <1>4, <1>5 DEF NotifyOK

\* anoubis_notify_sendreply.
LEMMA SendReplyDoes ==
    ASSUME NotifyOK, UNCHANGED <<gid, dying>>, NEW t \in Tokens, NEW h \in HeadRecs,
           NEW p \in PendingType, NEW v \in Decisions, NEW you, NEW uid, NEW fail, NEW oom,
           head[t] # NoHead, head[t].reply => h.reply,
           \A g \in Groups, u \in Tokens \ {t} : p[g][u] = pending[g][u],
           S!N!SendReply(t, h, p, v, you, uid, fail, oom)
    PROVE  NotifyOK' /\ (Finishes(t, v) \/ (Keeps(t) /\ (v >= 0 => head'[t].reply)))
<1>1. NoHead \notin HeadRecs /\ v \in Int
  BY HeadRecsType
<1>2. head \in [Tokens -> HeadRecs \cup {NoHead}] /\ done \in [Tokens -> Seq(Int)]
      /\ done[t] = <<>>
  BY DEF NotifyOK
<1>3. ASSUME NEW k \in HeadRecs, head' = [head EXCEPT ![t] = k], pending' = p, done' = done,
             head[t].reply => k.reply, v >= 0 => k.reply
      PROVE  NotifyOK' /\ Keeps(t) /\ (v >= 0 => head'[t].reply)
  <2>1. done' = [done EXCEPT ![t] = <<>>] /\ <<>> \in Seq(Int)
    BY <1>2, <1>3
  <2>2. k # NoHead
    BY <1>1
  <2>5. /\ pending' \in PendingType
        /\ \A g \in Groups, u \in Tokens \ {t} : pending'[g][u] = pending[g][u]
    BY <1>3
  <2>3. NotifyOK'
    BY <1>3, <2>1, <2>2, <2>5, NotifyOKAfter
  <2>6. head'[t] = k
    BY <1>2, <1>3
  <2>4. QED
    BY <1>3, <2>3, <2>6 DEF Keeps
<1>4. CASE v < 0 \/ h.reply
  <2>1. head' = [head EXCEPT ![t] = h] /\ pending' = p /\ done' = done
    BY <1>4 DEF S!N!SendReply
  <2>2. v >= 0 => h.reply
    BY <1>1, <1>4
  <2>3. QED
    BY <1>3, <2>1, <2>2
<1>5. CASE ~(v < 0 \/ h.reply) /\ oom
  <2> DEFINE k == [h EXCEPT !.reply = TRUE]
  <2>1. head' = [head EXCEPT ![t] = k] /\ pending' = p /\ done' = done
    BY <1>5 DEF S!N!SendReply
  <2>2. k \in HeadRecs /\ k.reply
    BY DEF HeadRecs
  <2> HIDE DEF k
  <2>3. QED
    BY <1>3, <2>1, <2>2
<1>6. CASE ~(v < 0 \/ h.reply) /\ ~oom
  <2>1. /\ pending' = S!N!AfterReply(p, t, fail) /\ head' = [head EXCEPT ![t] = NoHead]
        /\ done' = [done EXCEPT ![t] = Append(@, v)]
    BY <1>6 DEF S!N!SendReply, S!N!DestroyHead
  <2>2. v \in Nat /\ Append(done[t], v) = <<v>> /\ <<v>> \in Seq(Int)
    BY <1>1, <1>2, <1>6
  <2>3. done' = [done EXCEPT ![t] = <<v>>]
    BY <2>1, <2>2
  <2>4. /\ pending' \in PendingType
        /\ \A g \in Groups : pending'[g][t] \notin {"open", "verdict"}
        /\ \A g \in Groups, u \in Tokens \ {t} : pending'[g][u] = pending[g][u]
    BY <2>1, AfterReplyTypes
  <2>5. NotifyOK'
    BY <2>1, <2>2, <2>3, <2>4, NotifyOKAfter
  <2>6. Finishes(t, v)
    BY <2>1, <2>2, <2>3 DEF Finishes
  <2>7. QED
    BY <2>5, <2>6
<1>7. QED
  BY <1>4, <1>5, <1>6

\* Groups and registrations, and messages without an answer.
LEMMA NotifyGroups ==
    ASSUME NotifyOK, NEW g \in Groups, NEW u \in Uids, NEW r, NEW m, NEW fail,
           \/ S!N!Create(g, u) \/ S!N!Register(g, r) \/ S!N!Unregister(g, r)
           \/ S!N!DestroyStart(g) \/ S!N!DestroyEnd \/ S!N!Inform(m, fail)
    PROVE  NotifyOK' /\ HeadsSame
<1>1. UNCHANGED <<pending, head, done>>
  BY DEF S!N!Create, S!N!Register, S!N!Unregister, S!N!DestroyStart, S!N!DestroyEnd,
         S!N!Inform
<1>2. gid' \in [Groups -> Uids \cup {NoGroup}] /\ dying' \in Groups \cup {NoGroup}
  BY DEF NotifyOK, S!N!Create, S!N!Register, S!N!Unregister, S!N!DestroyStart,
         S!N!DestroyEnd, S!N!Inform
<1>3. QED
  BY <1>1, <1>2 DEF NotifyOK, HeadsSame, S!N!LinkedHeadsLive, S!N!EventStates

\* anoubis_notify for an ASK.
LEMMA NotifyAsk ==
    ASSUME NotifyOK, NEW t \in Tokens, NEW e, NEW fail, S!N!Ask(t, e, fail)
    PROVE  NotifyOK' /\ Starts(t)
<1> DEFINE rcpt == S!N!Recipients(t, e, fail)
           new == [verdict |-> S!N!ANOUBIS_E_IO, you |-> NoGroup, uid |-> 0, reply |-> FALSE,
                   eventcount |-> S!N!Cardinality(rcpt)]
<1>1. /\ head[t] = NoHead
      /\ pending' = [g \in Groups |->
            IF g \in rcpt THEN [pending[g] EXCEPT ![t] = "open"] ELSE pending[g]]
      /\ head' = IF rcpt = {} THEN head ELSE [head EXCEPT ![t] = new]
      /\ done' = [done EXCEPT ![t] = <<>>]
      /\ UNCHANGED <<gid, dying>>
  <2>2. head[t] = NoHead /\ UNCHANGED <<gid, dying>> /\ done' = [done EXCEPT ![t] = <<>>]
    BY DEF S!N!Ask
  <2>3. pending' = [g \in Groups |->
            IF g \in rcpt THEN [pending[g] EXCEPT ![t] = "open"] ELSE pending[g]]
    BY DEF S!N!Ask
  <2>4. head' = IF rcpt = {} THEN head ELSE [head EXCEPT ![t] = new]
    BY DEF S!N!Ask
  <2>5. QED
    BY <2>2, <2>3, <2>4
<1>2. rcpt \subseteq Groups /\ S!N!Cardinality(rcpt) \in Int
  <2>1. rcpt \subseteq Groups
    BY DEF S!N!Recipients
  <2>2. IsFiniteSet(rcpt)
    BY <2>1, FS_Subset, DaemonAssumption
  <2>3. S!N!Cardinality(rcpt) = Cardinality(rcpt)
    BY DEF S!N!Cardinality, Cardinality
  <2>4. QED
    BY <2>1, <2>2, <2>3, FS_CardinalityType
<1> HIDE DEF rcpt
<1>3. new \in HeadRecs
  BY <1>2 DEF HeadRecs, Decisions, S!N!ANOUBIS_E_IO
<1>4. NoHead \notin HeadRecs
  BY HeadRecsType
<1> HIDE DEF new
<1>5. pending \in PendingType /\ \A g \in Groups : pending[g][t] \notin {"open", "verdict"}
  BY <1>1 DEF NotifyOK, PendingType, S!N!LinkedHeadsLive
<1>6. pending' \in PendingType
  BY <1>1, <1>5 DEF PendingType, S!N!EventStates
<1>7. \A g \in Groups, u \in Tokens \ {t} : pending'[g][u] = pending[g][u]
  BY <1>1, <1>5 DEF PendingType
<1>8. <<>> \in Seq(Int)
  OBVIOUS
<1>9. CASE rcpt = {}
  <2>1. head' = [head EXCEPT ![t] = NoHead] /\ head' = head
    BY <1>1, <1>9 DEF NotifyOK
  <2>2. \A g \in Groups : pending'[g][t] \notin {"open", "verdict"}
    BY <1>1, <1>5, <1>9
  <2>3. NoHead \in HeadRecs \cup {NoHead}
    OBVIOUS
  <2>5. NotifyOK'
    BY <1>1, <1>6, <1>7, <1>8, <2>1, <2>2, <2>3, NotifyOKAfter
  <2>4. QED
    BY <1>1, <2>1, <2>5 DEF Starts
<1>10. CASE rcpt # {}
  <2>1. head' = [head EXCEPT ![t] = new] /\ new # NoHead
    BY <1>1, <1>3, <1>4, <1>10
  <2>2. NotifyOK'
    BY <1>1, <1>3, <1>6, <1>7, <1>8, <2>1, NotifyOKAfter
  <2>3. QED
    BY <1>1, <1>3, <2>1, <2>2 DEF Starts
<1>11. QED
  BY <1>9, <1>10

\* What a call does to the head of t.
Settles(t) == HeadsSame \/ Keeps(t) \/ \E v \in Nat : Finishes(t, v)

\* anoubis_notify_sendreply for an event that was cancelled: the verdict is EPERM.
LEMMA NotifyAbort ==
    ASSUME NotifyOK, NEW t \in Tokens, NEW fail, NEW oom, S!N!Abort(t, S!N!EPERM, fail, oom)
    PROVE  NotifyOK' /\ (Finishes(t, 1) \/ (Keeps(t) /\ head'[t].reply))
<1> DEFINE h == head[t]
<1>1. /\ h # NoHead /\ S!N!SendReply(t, h, pending, 1, NoGroup, 0, fail, oom)
      /\ UNCHANGED <<gid, dying>>
  BY DEF S!N!Abort, S!N!EPERM
<1>2. h \in HeadRecs /\ pending \in PendingType /\ 1 \in Decisions
  BY <1>1 DEF NotifyOK, PendingType, Decisions
<1>3. QED
  BY <1>1, <1>2, SendReplyDoes

\* anoubis_notify_answer.
LEMMA NotifyAnswer ==
    ASSUME NotifyOK, NEW g \in Groups, NEW t \in Tokens, NEW v \in Verdicts, NEW delegate,
           NEW fail, NEW oom, S!N!Answer(g, t, v, delegate, fail, oom)
    PROVE  NotifyOK' /\ Settles(t)
<1>1. UNCHANGED <<gid, dying>> /\ v \in Decisions /\ pending \in PendingType
  BY DEF S!N!Answer, NotifyOK, PendingType, Decisions
<1>2. gid[g] \in Int
  BY DaemonAssumption DEF S!N!Answer, S!N!Live, NotifyOK
<1>3. CASE pending[g][t] = "replied" /\ pending' = [pending EXCEPT ![g][t] = "none"]
           /\ UNCHANGED <<head, told, done>>
  <2>1. pending' \in PendingType
    BY <1>1, <1>3 DEF PendingType, S!N!EventStates
  <2>2. S!N!LinkedHeadsLive'
    BY <1>1, <1>3 DEF NotifyOK, PendingType, S!N!LinkedHeadsLive
  <2>3. QED
    BY <1>1, <1>3, <2>1, <2>2 DEF NotifyOK, PendingType, Settles, HeadsSame, S!N!EventStates
<1> DEFINE p == [pending EXCEPT ![g][t] = "verdict"]
           h == [S!N!DropVerdict(head[t], "open") EXCEPT
                    !.verdict = v, !.uid = gid[g], !.you = g]
<1>4. CASE /\ pending[g][t] = "open"
           /\ IF S!N!Remember(h, delegate)
              THEN pending' = p /\ head' = [head EXCEPT ![t] = h] /\ UNCHANGED <<told, done>>
              ELSE S!N!SendReply(t, h, p, v, g, gid[g], fail, oom)
  <2>1. head[t] # NoHead /\ head[t] \in HeadRecs
    BY <1>4 DEF NotifyOK, S!N!LinkedHeadsLive
  <2>2. h \in HeadRecs /\ h.reply = head[t].reply
    <3> DEFINE k == S!N!DropVerdict(head[t], "open")
    <3>1. k \in HeadRecs /\ k.reply = head[t].reply
      BY <2>1 DEF HeadRecs, S!N!DropVerdict
    <3> HIDE DEF k
    <3>2. /\ [k EXCEPT !.verdict = v, !.uid = gid[g], !.you = g] \in HeadRecs
          /\ [k EXCEPT !.verdict = v, !.uid = gid[g], !.you = g].reply = k.reply
      BY <1>1, <1>2, <3>1 DEF HeadRecs
    <3>3. QED
      BY <3>1, <3>2 DEF k
  <2>3. p \in PendingType /\ \A k \in Groups, u \in Tokens \ {t} : p[k][u] = pending[k][u]
    BY <1>1 DEF PendingType, S!N!EventStates
  <2>4. NoHead \notin HeadRecs /\ <<>> \in Seq(Int)
    BY HeadRecsType
  <2> HIDE DEF h, p
  <2>5. CASE S!N!Remember(h, delegate)
    <3>1. pending' = p /\ head' = [head EXCEPT ![t] = h] /\ done' = done
      BY <1>4, <2>5
    <3>2. done' = [done EXCEPT ![t] = <<>>]
      BY <2>1, <3>1 DEF NotifyOK
    <3>3. h # NoHead
      BY <2>2, <2>4
    <3>4. NotifyOK'
      BY <1>1, <2>2, <2>3, <2>4, <3>1, <3>2, <3>3, NotifyOKAfter
    <3>5. Keeps(t)
      BY <2>1, <2>2, <3>1 DEF Keeps
    <3>6. QED
      BY <3>4, <3>5 DEF Settles
  <2>6. CASE ~S!N!Remember(h, delegate)
    <3>1. S!N!SendReply(t, h, p, v, g, gid[g], fail, oom)
      BY <1>4, <2>6
    <3>2. NotifyOK' /\ (Finishes(t, v) \/ Keeps(t))
      BY <1>1, <2>1, <2>2, <2>3, <3>1, SendReplyDoes
    <3>3. QED
      BY <3>2 DEF Settles, Finishes
  <2>7. QED
    BY <2>5, <2>6
<1>5. QED
  BY <1>3, <1>4 DEF S!N!Answer

\* anoubis_notify_destroy, one event.
LEMMA NotifyDestroyEvent ==
    ASSUME NotifyOK, NEW t \in Tokens, NEW fail, NEW oom, S!N!DestroyEvent(t, fail, oom)
    PROVE  NotifyOK' /\ Settles(t)
<1> DEFINE g == dying
           p == [pending EXCEPT ![g][t] = "none"]
           h == S!N!DropVerdict(head[t], pending[g][t])
<1>1. UNCHANGED <<gid, dying>> /\ g \in Groups /\ pending \in PendingType
      /\ pending[g][t] # "none"
  BY DEF S!N!DestroyEvent, NotifyOK, PendingType
<1>2. p \in PendingType /\ \A k \in Groups, u \in Tokens \ {t} : p[k][u] = pending[k][u]
  BY <1>1 DEF PendingType, S!N!EventStates
<1>3. NoHead \notin HeadRecs /\ <<>> \in Seq(Int)
  BY HeadRecsType
<1>4. CASE pending[g][t] = "replied"
  <2>1. pending' = p /\ UNCHANGED <<head, done>>
    BY <1>4 DEF S!N!DestroyEvent
  <2>2. S!N!LinkedHeadsLive'
    BY <1>1, <2>1 DEF NotifyOK, PendingType, S!N!LinkedHeadsLive
  <2>3. QED
    BY <1>1, <1>2, <2>1, <2>2 DEF NotifyOK, PendingType, Settles, HeadsSame, S!N!EventStates
<1>5. CASE pending[g][t] # "replied"
  <2>1. head[t] # NoHead /\ head[t] \in HeadRecs
    BY <1>1, <1>5 DEF NotifyOK, PendingType, S!N!EventStates, S!N!LinkedHeadsLive
  <2>2. h \in HeadRecs /\ h.reply = head[t].reply
    BY <2>1 DEF HeadRecs, S!N!DropVerdict
  <2>3. \/ pending' = p /\ head' = [head EXCEPT ![t] = h] /\ done' = done
        \/ S!N!SendReply(t, h, p, h.verdict, h.you, h.uid, fail, oom)
    BY <1>5 DEF S!N!DestroyEvent
  <2> HIDE DEF h, p, g
  <2>4. CASE pending' = p /\ head' = [head EXCEPT ![t] = h] /\ done' = done
    <3>1. done' = [done EXCEPT ![t] = <<>>]
      BY <2>1, <2>4 DEF NotifyOK
    <3>2. h # NoHead
      BY <1>3, <2>2
    <3>6. /\ pending' \in PendingType
          /\ \A k \in Groups, u \in Tokens \ {t} : pending'[k][u] = pending[k][u]
      BY <1>2, <2>4
    <3>3. NotifyOK'
      BY <1>1, <1>3, <2>2, <2>4, <3>1, <3>2, <3>6, NotifyOKAfter
    <3>4. Keeps(t)
      BY <2>1, <2>2, <2>4 DEF Keeps
    <3>5. QED
      BY <3>3, <3>4 DEF Settles
  <2>5. CASE S!N!SendReply(t, h, p, h.verdict, h.you, h.uid, fail, oom)
    <3>1. h.verdict \in Decisions
      BY <2>2 DEF HeadRecs
    <3>2. NotifyOK' /\ (Finishes(t, h.verdict) \/ Keeps(t))
      BY <1>1, <1>2, <2>1, <2>2, <2>5, <3>1, SendReplyDoes
    <3>3. QED
      BY <3>2 DEF Settles, Finishes
  <2>6. QED
    BY <2>3, <2>4, <2>5
<1>6. QED
  BY <1>4, <1>5

-----------------------------------------------------------------------------
(* The session engine                                                       *)

\* What notify_callback makes of a verdict.
Voice(t, v) == EventReply(t, Clean(v), FlagsOf(v))

\* notify_callback after a call about the head of t.
Called(t) ==
    \/ HeadsSame /\ UNCHANGED <<s2p, headq>>
    \/ Keeps(t) /\ UNCHANGED <<s2p, headq>>
    \/ \E v \in Nat : /\ Finishes(t, v) /\ headq' = headq \ {t}
                      /\ s2p' = Append(s2p, Voice(t, v))
\* dispatch_p2s_evt_request
Requested(t) ==
    /\ Starts(t)
    /\ \/ head' = head /\ s2p' = Append(s2p, EventReply(t, 1, {})) /\ headq' = headq
       \/ head'[t] # NoHead /\ s2p' = s2p /\ headq' = headq \cup {t}
\* dispatch_p2s_evt_cancel
Cancelled(t) ==
    \/ t \notin headq /\ HeadsSame /\ UNCHANGED <<s2p, headq>>
    \/ t \in headq /\ Keeps(t) /\ head'[t].reply /\ UNCHANGED <<s2p, headq>>
    \/ /\ t \in headq /\ Finishes(t, 1) /\ headq' = headq \ {t}
       /\ s2p' = Append(s2p, Voice(t, 1))

LEMMA VoiceTypes ==
    ASSUME NEW t \in Tokens, NEW v \in Int
    PROVE  Voice(t, v) \in Replies /\ Voice(t, v).token = t
BY FlagTypes DEF Voice, EventReply, Replies

\* What a step of the session engine does to the escalations.
SessionDoes ==
    /\ NotifyOK'
    /\ \/ p2s' = p2s /\ HeadsSame /\ UNCHANGED <<s2p, headq>>
       \/ p2s' = p2s /\ \E t \in Tokens : Called(t)
       \/ /\ p2s # <<>> /\ p2s' = Tail(p2s) /\ Head(p2s) \in AskMsgs
          /\ \/ /\ Head(p2s).type = "EVENTASK"
                /\ Requested(Head(p2s).token) \/ (HeadsSame /\ UNCHANGED <<s2p, headq>>)
             \/ Head(p2s).type = "EVENTCANCEL" /\ Cancelled(Head(p2s).token)
             \/ /\ Head(p2s).type = "LOGREQUEST"
                /\ HeadsSame /\ UNCHANGED <<s2p, headq>>

LEMMA CallbackDoes ==
    ASSUME NotifyOK, NEW t \in Tokens, S!Callback(t)
    PROVE  /\ HeadsSame => UNCHANGED <<s2p, headq>>
           /\ Keeps(t) => UNCHANGED <<s2p, headq>>
           /\ \A v : Finishes(t, v) => /\ headq' = headq \ {t}
                                       /\ s2p' = Append(s2p, Voice(t, v))
           /\ Settles(t) => Called(t)
<1>1. HeadsSame \/ Keeps(t) => UNCHANGED <<s2p, headq>>
  BY DEF HeadsSame, Keeps, S!Callback
<1>2. ASSUME NEW v, Finishes(t, v)
      PROVE  headq' = headq \ {t} /\ s2p' = Append(s2p, Voice(t, v))
  <2>1. done'[t] = <<v>> /\ done[t] = <<>>
    BY <1>2 DEF Finishes, NotifyOK
  <2>2. done'[t] # done[t] /\ done'[t][1] = v
    BY <2>1
  <2>3. QED
    BY <2>2 DEF S!Callback, S!ToPolicy, S!EventReply, EventReply, Voice, Clean, S!Clean,
       FlagUnit, S!FlagUnit, FlagsOf, S!FlagsOf
<1>3. QED
  BY <1>1, <1>2 DEF Settles, Called

LEMMA SessionNotify ==
    ASSUME TypeOK, UNCHANGED <<gid, regs, pending, head, dying, told, news, done>>
    PROVE  NotifyOK' /\ HeadsSame
BY DEF TypeOK, NotifyOK, HeadsSame, S!N!LinkedHeadsLive, S!N!EventStates

LEMMA RecvPolicyStep ==
    ASSUME TypeOK, S!RecvPolicy
    PROVE  SessionDoes
<1> DEFINE m == Head(p2s)
<1>1. p2s # <<>> /\ p2s' = Tail(p2s) /\ m \in AskMsgs /\ m.token \in Tokens
      /\ m.type \in {"EVENTASK", "EVENTCANCEL", "LOGREQUEST"}
  <2>1. p2s \in Seq(AskMsgs) /\ p2s # <<>> /\ p2s' = Tail(p2s)
    BY DEF TypeOK, PipesOK, S!RecvPolicy
  <2>2. m \in AskMsgs
    BY <2>1, SeqTypes
  <2>3. QED
    BY <2>1, <2>2 DEF AskMsgs
<1>2. PICK fail \in S!N!SendFailures, oom \in S!N!OutOfMemory :
         CASE m.type = "EVENTASK" ->
                IF oom THEN UNCHANGED <<S!notify, s2p, headq>>
                ELSE S!EvtRequest(m.token, fail)
           [] m.type = "EVENTCANCEL" -> S!EvtCancel(m.token, fail, oom)
           [] m.type = "LOGREQUEST" ->
                /\ S!N!Inform(S!NotifyMsg("LOGNOTIFY", m.token), S!Missed(fail, oom))
                /\ UNCHANGED <<s2p, headq>>
  BY Zenon DEF S!RecvPolicy
<1>t. NotifyOK
  BY DEF TypeOK
<1> DEFINE t == m.token
<1> HIDE DEF m
<1>3. CASE m.type = "EVENTASK"
  <2>1. IF oom THEN UNCHANGED <<S!notify, s2p, headq>> ELSE S!EvtRequest(t, fail)
    BY <1>2, <1>3
  <2>2. CASE UNCHANGED <<S!notify, s2p, headq>>
    <3>1. NotifyOK' /\ HeadsSame
      BY <2>2, SessionNotify DEF S!notify
    <3>2. QED
      BY <1>1, <1>3, <2>2, <3>1 DEF SessionDoes, m
  <2>3. CASE S!EvtRequest(t, fail)
    <3>1. NotifyOK' /\ Starts(t)
      BY <1>1, <1>t, <2>3, NotifyAsk DEF S!EvtRequest
    <3>2. Requested(t)
      <4>1. CASE head'[t] # NoHead
        BY <2>3, <3>1, <4>1 DEF S!EvtRequest, Requested
      <4>2. CASE head'[t] = NoHead
        <5>1. head' = head
          <6>1. NoHead \notin HeadRecs
            BY HeadRecsType
          <6>2. \A h \in HeadRecs : [head EXCEPT ![t] = h][t] = h
            BY <1>1, <1>t DEF NotifyOK
          <6>3. QED
            BY <3>1, <4>2, <6>1, <6>2 DEF Starts
        <5>2. s2p' = Append(s2p, EventReply(t, 1, {})) /\ headq' = headq
          BY <2>3, <4>2 DEF S!EvtRequest, S!ToPolicy, S!EventReply, EventReply, S!N!EPERM
        <5>3. QED
          BY <3>1, <5>1, <5>2 DEF Requested
      <4>3. QED
        BY <4>1, <4>2
    <3>3. Requested(Head(p2s).token) /\ Head(p2s).type = "EVENTASK"
      BY <1>3, <3>2 DEF m
    <3>4. QED
      BY <1>1, <3>1, <3>3 DEF SessionDoes, m
  <2>4. QED
    BY <2>1, <2>2, <2>3
<1>4. CASE m.type = "EVENTCANCEL"
  <2>1. S!EvtCancel(t, fail, oom)
    BY <1>2, <1>4
  <2>2. CASE t \in headq
    <3>1. S!N!Abort(t, S!N!EPERM, fail, oom) /\ S!Callback(t)
      BY <2>1, <2>2 DEF S!EvtCancel
    <3>2. NotifyOK' /\ (Finishes(t, 1) \/ (Keeps(t) /\ head'[t].reply))
      BY <1>1, <1>t, <3>1, NotifyAbort
    <3>3. Cancelled(t)
      BY <1>1, <1>t, <2>2, <3>1, <3>2, CallbackDoes DEF Cancelled
    <3>4. QED
      BY <1>1, <1>4, <3>2, <3>3 DEF SessionDoes, m
  <2>3. CASE t \notin headq
    <3>1. UNCHANGED <<S!notify, s2p, headq>>
      BY <2>1, <2>3 DEF S!EvtCancel
    <3>2. NotifyOK' /\ HeadsSame
      BY <3>1, SessionNotify DEF S!notify
    <3>3. QED
      BY <1>1, <1>4, <2>3, <3>1, <3>2 DEF SessionDoes, Cancelled, m
  <2>4. QED
    BY <2>2, <2>3
<1>5. CASE m.type = "LOGREQUEST"
  <2>1. S!N!Inform(S!NotifyMsg("LOGNOTIFY", m.token), S!Missed(fail, oom))
        /\ UNCHANGED <<s2p, headq>>
    BY <1>2, <1>5
  <2>2. NotifyOK' /\ HeadsSame
    BY <1>t, <2>1 DEF S!N!Inform, NotifyOK, HeadsSame, S!N!LinkedHeadsLive, S!N!EventStates
  <2>3. QED
    BY <1>1, <1>5, <2>1, <2>2 DEF SessionDoes, m
<1>6. QED
  BY <1>1, <1>3, <1>4, <1>5

LEMMA SessionEffect ==
    ASSUME TypeOK, Session \/ Client \/ SessionTerm
    PROVE  SessionDoes
<1>t. NotifyOK
  BY DEF TypeOK
<1>1. CASE S!RecvPolicy
  BY <1>1, RecvPolicyStep
<1>2. ASSUME NEW pipe, NEW q, S!Eof(pipe, q) PROVE SessionDoes
  BY <1>2, SessionNotify DEF S!Eof, S!notify, SessionDoes
<1>3. CASE S!RecvMaster
  <2>1. \E m, fail : S!N!Inform(m, fail)
    BY <1>3 DEF S!RecvMaster
  <2>2. NotifyOK' /\ HeadsSame
    BY <1>t, <2>1 DEF S!N!Inform, NotifyOK, HeadsSame, S!N!LinkedHeadsLive, S!N!EventStates
  <2>3. QED
    BY <1>3, <2>2 DEF S!RecvMaster, S!own, SessionDoes
<1>4. ASSUME NEW t \in Tokens, NEW fail, NEW oom, S!DropEvent(t, fail, oom)
      PROVE  SessionDoes
  BY <1>4, <1>t, NotifyDestroyEvent, CallbackDoes DEF S!DropEvent, SessionDoes
<1>5. CASE S!Disconnected
  <2>1. NotifyOK' /\ HeadsSame
    <3>1. UNCHANGED <<pending, head, done>>
      BY <1>5 DEF S!Disconnected, S!N!DestroyEnd
    <3>2. gid' \in [Groups -> Uids \cup {NoGroup}] /\ dying' \in Groups \cup {NoGroup}
      BY <1>5, <1>t DEF NotifyOK, S!Disconnected, S!N!DestroyEnd
    <3>3. QED
      BY <1>t, <3>1, <3>2 DEF NotifyOK, HeadsSame, S!N!LinkedHeadsLive, S!N!EventStates
  <2>2. QED
    BY <1>5, <2>1 DEF S!Disconnected, S!own, SessionDoes
<1>6. ASSUME NEW g \in Groups, S!Disconnect(g) PROVE SessionDoes
  <2>1. UNCHANGED <<gid, pending, head, done>> /\ dying' = g
    BY <1>6 DEF S!Disconnect, S!N!DestroyStart
  <2>2. NotifyOK' /\ HeadsSame
    BY <1>t, <2>1 DEF NotifyOK, HeadsSame, S!N!LinkedHeadsLive, S!N!EventStates
  <2>3. QED
    BY <1>6, <2>2 DEF S!Disconnect, S!own, SessionDoes
<1>7. CASE S!Exit
  BY <1>7, SessionNotify DEF S!Exit, S!notify, S!own, SessionDoes
<1>8. ASSUME NEW g \in Groups, NEW u \in Uids, S!Connect(g, u) PROVE SessionDoes
  BY <1>8, <1>t, NotifyGroups DEF S!Connect, S!own, SessionDoes
<1>9. ASSUME NEW g \in Groups, NEW r, S!Register(g, r) \/ S!Unregister(g, r)
      PROVE  SessionDoes
  <2>1. UNCHANGED <<gid, pending, head, done, dying>>
    BY <1>9 DEF S!Register, S!Unregister, S!N!Register, S!N!Unregister
  <2>2. NotifyOK' /\ HeadsSame
    BY <1>t, <2>1 DEF NotifyOK, HeadsSame, S!N!LinkedHeadsLive, S!N!EventStates
  <2>3. QED
    BY <1>9, <2>2 DEF S!Register, S!Unregister, S!own, SessionDoes
<1>10. ASSUME NEW g \in Groups, NEW t \in Tokens, NEW v \in Verdicts, NEW d, NEW fail,
              NEW oom, S!Reply(g, t, v, d, fail, oom)
       PROVE  SessionDoes
  BY <1>10, <1>t, NotifyAnswer, CallbackDoes DEF S!Reply, SessionDoes
<1>11. CASE S!Sigterm
  BY <1>11, SessionNotify DEF S!Sigterm, S!notify, SessionDoes
<1>12. CASE S!Handle
  BY <1>12, <1>1, <1>2, <1>3, <1>4, <1>5, <1>6, <1>7
     DEF S!Handle, S!FromPolicy, S!FromMaster, S!Destroying
<1>13. CASE S!Client
  BY <1>13, <1>6, <1>8, <1>9, <1>10 DEF S!Client
<1>14. QED
  BY <1>11, <1>12, <1>13 DEF Session, Client, SessionTerm

LEMMA SessionTypes ==
    ASSUME TypeOK, Session \/ Client \/ SessionTerm
    PROVE  TypeOK'
<1>1. SessionDoes
  BY SessionEffect
<1>2. /\ m2p' \in Seq(EvMsgs \cup Requests) /\ p2m' \in Seq(Replies \cup Orders)
      /\ m2u' \in Seq(Orders) /\ u2m' \in Seq(Requests \cup SumMsgs)
      /\ MasterOK' /\ EngineOK'
  BY DEF TypeOK, PipesOK, MasterOK, EngineOK, Session, Client, SessionTerm, NotSession,
         master, policy
<1>3. p2s \in Seq(AskMsgs) /\ s2p \in Seq(Replies)
  BY DEF TypeOK, PipesOK
<1>4. p2s' \in Seq(AskMsgs)
  BY <1>1, <1>3, SeqTypes DEF SessionDoes
<1>5. \A t \in Tokens, v \in Nat : Append(s2p, Voice(t, v)) \in Seq(Replies)
  <2>1. ASSUME NEW t \in Tokens, NEW v \in Nat PROVE Voice(t, v) \in Replies
    BY VoiceTypes
  <2>2. QED
    BY <1>3, <2>1, SeqTypes
<1>6. \A t \in Tokens : Called(t) \/ Requested(t) \/ Cancelled(t) => s2p' \in Seq(Replies)
  <2>1. \A t \in Tokens : Append(s2p, EventReply(t, 1, {})) \in Seq(Replies)
    BY <1>3, MsgTypes, FlagTypes, SeqTypes
  <2>2. QED
    BY <1>3, <1>5, <2>1 DEF Called, Requested, Cancelled
<1>7. \A m \in AskMsgs : m.token \in Tokens
  BY DEF AskMsgs
<1>8. s2p' \in Seq(Replies)
  BY <1>1, <1>3, <1>6, <1>7 DEF SessionDoes
<1>9. QED
  BY <1>1, <1>2, <1>4, <1>8 DEF TypeOK, PipesOK, SessionDoes

-----------------------------------------------------------------------------
(* The upgrade process, and the types as an invariant                       *)

UpgradeDoes ==
    LET m == Head(m2u) IN
    /\ m2u # <<>> /\ "u2m" \notin closed /\ m2u' = Tail(m2u) /\ closed' = closed
    /\ \E sums \in Seq(SumMsgs), req \in Requests :
          u2m' = (u2m \o sums) \o <<req>>

LEMMA UpgradeEffect ==
    ASSUME TypeOK, U!RecvMaster
    PROVE  UpgradeDoes
<1> DEFINE m == Head(m2u)
<1>1. m2u \in Seq(Orders) /\ m2u # <<>>
  BY DEF TypeOK, PipesOK, U!RecvMaster
<1>2. m \in Orders
  BY <1>1, SeqTypes
<1>3. m.n \in Nat
  BY <1>2 DEF Orders
<1> DEFINE req == U!UpgradeMsg(IF m.what = "CHUNK" /\ m.n = 0 THEN "END" ELSE "CHUNK_REQ", 0)
<1>4. PICK sent \in 0 .. m.n : u2m' = (u2m \o U!Checksums(sent)) \o <<req>>
  BY DEF U!RecvMaster
<1>5. req \in Requests
  BY DEF U!UpgradeMsg, Requests
<1>6. U!Checksums(sent) \in Seq(SumMsgs)
  <2>1. sent \in Nat
    BY <1>3
  <2>2. [type |-> "SFS_UPDATE_ALL"] \in SumMsgs
    BY DEF SumMsgs
  <2>3. U!Checksums(sent) \in [1 .. sent -> SumMsgs]
    BY <2>2 DEF U!Checksums
  <2>4. QED
    BY <2>1, <2>3
<1> HIDE DEF req
<1>7. "u2m" \notin closed /\ m2u' = Tail(m2u) /\ closed' = closed
  BY DEF U!RecvMaster
<1>8. QED
  BY <1>1, <1>4, <1>5, <1>6, <1>7 DEF UpgradeDoes

LEMMA UpgradeTypes ==
    ASSUME TypeOK, Upgrade
    PROVE  TypeOK'
<1>1. /\ m2p' \in Seq(EvMsgs \cup Requests) /\ p2m' \in Seq(Replies \cup Orders)
      /\ p2s' \in Seq(AskMsgs) /\ s2p' \in Seq(Replies)
      /\ MasterOK' /\ EngineOK' /\ NotifyOK'
  BY DEF TypeOK, PipesOK, MasterOK, EngineOK, NotifyOK, Upgrade, NotUpgrade,
         master, policy, session, S!N!LinkedHeadsLive, S!N!EventStates
<1>2. m2u \in Seq(Orders) /\ u2m \in Seq(Requests \cup SumMsgs)
  BY DEF TypeOK, PipesOK
<1>3. CASE U!RecvMaster
  <2>1. UpgradeDoes
    BY <1>3, UpgradeEffect
  <2>2. m2u' \in Seq(Orders)
    BY <1>2, <2>1, SeqTypes DEF UpgradeDoes
  <2>3. PICK sums \in Seq(SumMsgs), req \in Requests : u2m' = (u2m \o sums) \o <<req>>
    BY <2>1 DEF UpgradeDoes
  <2>4. sums \in Seq(Requests \cup SumMsgs) /\ req \in Requests \cup SumMsgs
    OBVIOUS
  <2>5. u2m \o sums \in Seq(Requests \cup SumMsgs)
    BY <1>2, <2>4, SeqTypes
  <2>6. u2m' \in Seq(Requests \cup SumMsgs)
    BY <2>3, <2>4, <2>5, SeqTypes
  <2>7. QED
    BY <1>1, <2>2, <2>6 DEF TypeOK, PipesOK
<1>4. CASE U!Exit
  BY <1>1, <1>2, <1>4 DEF U!Exit, TypeOK, PipesOK
<1>5. QED
  BY <1>3, <1>4 DEF Upgrade, U!Next

LEMMA TypeStutter == TypeOK /\ UNCHANGED vars => TypeOK'
BY DEF TypeOK, PipesOK, MasterOK, EngineOK, NotifyOK, vars, pipes, master, policy, session,
       S!N!LinkedHeadsLive, S!N!EventStates

LEMMA TypeInit == Init => TypeOK
<1> SUFFICES ASSUME Init PROVE TypeOK
  OBVIOUS
<1>1. PipesOK
  BY DEF Init, PipesOK
<1>2. MasterOK
  BY DEF Init, M!Init, MasterOK
<1>3. EngineOK
  BY FS_EmptySet DEF Init, P!Init, EngineOK
<1>4. NotifyOK
  BY DEF Init, S!Init, S!N!Init, NotifyOK, S!N!LinkedHeadsLive, S!N!EventStates
<1>5. QED
  BY <1>1, <1>2, <1>3, <1>4 DEF TypeOK

LEMMA TypeStep == TypeOK /\ [Next]_vars => TypeOK'
BY MasterTypes, PolicyTypes, SessionTypes, UpgradeTypes, TypeStutter DEF Next

\* All messages and queues of the daemon are of the expected types, and every
\* event that a client can still answer has a head that was not finished.
THEOREM DaemonTypes == Safe => []TypeOK
BY TypeInit, TypeStep, PTL DEF Safe

-----------------------------------------------------------------------------
(* Shutting down                                                            *)

\* The pipes are shut down in order: events end before the master closes its
\* pipes, a process that closes its end has read all there was to read, and
\* the policy engine has no open escalation when it leaves.
MasterShut ==
    /\ "m2p" \in closed \/ "m2u" \in closed => mterm = 2
    /\ mterm >= 1 => ~declared
    /\ mterm = 2 => evq = <<>>
    /\ mexit => "p2m" \in closed /\ p2m = <<>> /\ m2dev = <<>> /\ mterm = 2
PolicyShut ==
    /\ polEof \subseteq {"m2p", "s2p"}
    /\ "m2p" \in polEof => "m2p" \in closed /\ m2p = <<>>
    /\ "s2p" \in polEof => terminate = 3
    /\ "p2m" \in closed => polEof = {"m2p", "s2p"} /\ replyq = {}
ShutOK == MasterShut /\ PolicyShut

LEMMA ShutInit == Init => ShutOK
BY DEF Init, M!Init, P!Init, ShutOK, MasterShut, PolicyShut

LEMMA ShutMaster ==
    ASSUME TypeOK, ShutOK, Master \/ Kernel \/ Stop
    PROVE  ShutOK'
<1>1. UNCHANGED <<polEof, terminate, replyq>>
  BY DEF Master, Kernel, Stop, NotMaster, policy
<1> USE DEF ShutOK, MasterShut, PolicyShut
<1>2. CASE M!RecvKernel
  BY <1>1, <1>2, RecvKernelEffect DEF RecvKernelDoes
<1>3. CASE M!EndOfEvents
  BY <1>1, <1>3 DEF M!EndOfEvents, M!kernel
<1>4. CASE M!RecvPolicy
  BY <1>1, <1>4, RecvPolicyEffect DEF RecvPolicyDoes
<1>5. CASE M!WriteDev
  BY <1>1, <1>5, WriteDevEffect DEF WriteDevDoes
<1>6. CASE M!RecvUpgrade
  BY <1>1, <1>6, RecvUpgradeEffect DEF RecvUpgradeDoes
<1>7. CASE \E pipe \in {"m2p", "m2s", "m2u"} : M!Shut(pipe)
  BY <1>1, <1>7 DEF M!Shut, M!kernel, M!own
<1>8. CASE M!Exit
  BY <1>1, <1>8 DEF M!Exit, M!kernel, M!AtEof
<1>9. CASE \E t \in Tokens : M!Post(t)
  BY <1>1, <1>9 DEF M!Post, M!own, TypeOK, MasterOK
<1>10. CASE \E t \in Tokens : M!ProcessExit(t)
  BY <1>1, <1>10 DEF M!ProcessExit, M!own, TypeOK, MasterOK
<1>11. CASE M!Sigterm
  BY <1>1, <1>11 DEF M!Sigterm
<1>12. QED
  BY <1>2, <1>3, <1>4, <1>5, <1>6, <1>7, <1>8, <1>9, <1>10, <1>11
     DEF Master, Kernel, Stop, M!Handle, M!Environment

LEMMA ShutPolicy ==
    ASSUME TypeOK, ShutOK, Policy \/ PolicyTerm \/ \E t \in Tokens : Timer(t)
    PROVE  ShutOK'
<1>1. UNCHANGED <<evq, declared, mterm, mexit, m2dev>>
  BY DEF Policy, PolicyTerm, Timer, NotPolicy, master
<1>2. terminate \in 0 .. 3
  BY DEF TypeOK, EngineOK
<1> USE DEF ShutOK, MasterShut, PolicyShut
<1>3. CASE P!RecvEvent \/ P!RecvExit \/ P!RecvUpgrade
  <2>1. P!Running /\ m2p # <<>> /\ UNCHANGED <<closed, terminate, polEof>>
    BY <1>3 DEF P!RecvEvent, P!RecvExit, P!RecvUpgrade
  <2>2. "m2p" \notin polEof /\ "p2m" \notin closed
    BY <2>1 DEF P!Running
  <2>3. QED
    BY <1>1, <2>1, <2>2
<1>4. CASE P!EofMaster
  BY <1>1, <1>2, <1>4 DEF P!EofMaster, P!SetTerminate, P!pipes, P!AtEof
<1>5. CASE P!RecvReply
  <2>1. P!Running /\ UNCHANGED <<closed, terminate, polEof, m2p>>
    BY <1>5 DEF P!RecvReply
  <2>2. "p2m" \notin closed
    BY <2>1 DEF P!Running
  <2>3. QED
    BY <1>1, <2>1, <2>2
<1>6. CASE P!EofSession
  BY <1>1, <1>2, <1>6 DEF P!EofSession, P!SetTerminate, P!pipes, P!Running
<1>7. CASE P!ShutSession
  BY <1>1, <1>7 DEF P!ShutSession, P!own
<1>8. CASE P!Exit
  BY <1>1, <1>8 DEF P!Exit, P!own, P!Denying
<1>9. ASSUME NEW w \in replyq, P!Expire(w) PROVE ShutOK'
  <2>1. "p2m" \notin closed
    OBVIOUS
  <2>2. UNCHANGED <<closed, terminate, polEof, m2p>>
    BY <1>9 DEF P!Expire
  <2>3. QED
    BY <1>1, <2>1, <2>2
<1>10. CASE P!Sigterm
  BY <1>1, <1>2, <1>10 DEF P!Sigterm, P!SetTerminate, P!pipes
<1>11. QED
  BY <1>3, <1>4, <1>5, <1>6, <1>7, <1>8, <1>9, <1>10
     DEF Policy, PolicyTerm, Timer, P!Handle

LEMMA SessionCloses ==
    ASSUME Session \/ Client \/ SessionTerm
    PROVE  closed' = closed \/ closed' = closed \cup {"s2p", "s2m"}
BY DEF Session, Client, SessionTerm, S!Handle, S!Client, S!FromPolicy, S!FromMaster,
       S!Destroying, S!RecvPolicy, S!RecvMaster, S!Eof, S!Exit, S!DropEvent,
       S!Disconnected, S!Disconnect, S!Connect, S!Register, S!Unregister, S!Reply,
       S!Sigterm

LEMMA ShutStep == TypeOK /\ ShutOK /\ [Next]_vars => ShutOK'
<1> SUFFICES ASSUME TypeOK, ShutOK, [Next]_vars PROVE ShutOK'
  OBVIOUS
<1>1. CASE Session \/ Client \/ SessionTerm
  <2>1. NotSession
    BY <1>1 DEF Session, Client, SessionTerm
  <2>2. UNCHANGED <<evq, declared, mterm, mexit, m2dev, p2m, m2p, polEof, terminate, replyq>>
    BY <2>1 DEF NotSession, master, policy
  <2>3. \A pipe \in {"m2p", "m2u", "p2m"} : pipe \in closed' <=> pipe \in closed
    BY <1>1, SessionCloses
  <2>4. QED
    BY <2>2, <2>3 DEF ShutOK, MasterShut, PolicyShut
<1>2. CASE Upgrade
  BY <1>2 DEF ShutOK, MasterShut, PolicyShut, Upgrade, NotUpgrade, master, policy, U!Next,
     U!RecvMaster, U!Exit
<1>3. CASE UNCHANGED vars
  BY <1>3 DEF ShutOK, MasterShut, PolicyShut, vars, pipes, master, policy
<1>4. QED
  BY <1>1, <1>2, <1>3, ShutMaster, ShutPolicy DEF Next

-----------------------------------------------------------------------------
(* Who owes the answer                                                      *)

\* The messages that carry the obligation to answer t, and the open
\* escalations of t.
Dev(t) == {m \in EvMsgs : m.type = "EVENTDEV" /\ m.token = t}
Rep(t) == {m \in Replies : m.token = t}
Due(t) == {w \in replyq : w.token = t}
Is(m, kinds) == IF m \in kinds THEN 1 ELSE 0

LEMMA DevCount ==
    ASSUME NEW q \in Seq(EvMsgs \cup Requests), NEW t
    PROVE  Count(q, {"EVENTDEV"}, t) = Num(q, Dev(t))
<1>1. \A i \in DOMAIN q : q[i] \in EvMsgs \cup Requests
  OBVIOUS
<1>2. \A m \in EvMsgs \cup Requests :
         m.type \in {"EVENTDEV"} /\ m.token = t <=> m \in Dev(t)
  BY DEF EvMsgs, Requests, Dev
<1>3. {i \in DOMAIN q : q[i].type \in {"EVENTDEV"} /\ q[i].token = t} = Where(q, Dev(t))
  BY <1>1, <1>2 DEF Where
<1>4. QED
  BY <1>3 DEF Count, Num

LEMMA RepCount ==
    ASSUME NEW q \in Seq(Replies \cup Orders), NEW t
    PROVE  Count(q, {"EVENTREPLY"}, t) = Num(q, Rep(t))
<1>1. \A i \in DOMAIN q : q[i] \in Replies \cup Orders
  OBVIOUS
<1>2. \A m \in Replies \cup Orders :
         m.type \in {"EVENTREPLY"} /\ m.token = t <=> m \in Rep(t)
  BY DEF Replies, Orders, Rep
<1>3. {i \in DOMAIN q : q[i].type \in {"EVENTREPLY"} /\ q[i].token = t} = Where(q, Rep(t))
  BY <1>1, <1>2 DEF Where
<1>4. QED
  BY <1>3 DEF Count, Num

\* Obligations(t), in two parts: before and after the decision.
Answers(t) == Len(written[t])
Undecided(t) == Num(evq, Dev(t)) + Num(m2p, Dev(t)) + Cardinality(Due(t))
Decided(t) ==
    Num(p2mHold, Rep(t)) + Num(p2m, Rep(t)) + Num(m2dev, Rep(t)) + Answers(t)

PartsOK ==
    \A t \in Tokens :
        /\ Num(evq, Dev(t)) \in Nat /\ Num(m2p, Dev(t)) \in Nat
        /\ IsFiniteSet(Due(t)) /\ Cardinality(Due(t)) \in Nat
        /\ Num(p2mHold, Rep(t)) \in Nat /\ Num(p2m, Rep(t)) \in Nat
        /\ Num(m2dev, Rep(t)) \in Nat /\ Answers(t) \in Nat
        /\ Obligations(t) = Undecided(t) + Decided(t)

LEMMA Parts == TypeOK => PartsOK
<1> SUFFICES ASSUME TypeOK, NEW t \in Tokens
             PROVE  /\ Num(evq, Dev(t)) \in Nat /\ Num(m2p, Dev(t)) \in Nat
                    /\ IsFiniteSet(Due(t)) /\ Cardinality(Due(t)) \in Nat
                    /\ Num(p2mHold, Rep(t)) \in Nat /\ Num(p2m, Rep(t)) \in Nat
                    /\ Num(m2dev, Rep(t)) \in Nat /\ Answers(t) \in Nat
                    /\ Obligations(t) = Undecided(t) + Decided(t)
  BY DEF PartsOK
<1>1. /\ evq \in Seq(EvMsgs) /\ evq \in Seq(EvMsgs \cup Requests)
      /\ m2p \in Seq(EvMsgs \cup Requests)
      /\ p2mHold \in Seq(Replies) /\ p2mHold \in Seq(Replies \cup Orders)
      /\ p2m \in Seq(Replies \cup Orders)
      /\ m2dev \in Seq(Replies) /\ m2dev \in Seq(Replies \cup Orders)
      /\ written[t] \in Seq(DevReplies)
  BY DEF TypeOK, PipesOK, MasterOK, EngineOK
<1>2. /\ Num(evq, Dev(t)) \in Nat /\ Num(m2p, Dev(t)) \in Nat
      /\ Num(p2mHold, Rep(t)) \in Nat /\ Num(p2m, Rep(t)) \in Nat
      /\ Num(m2dev, Rep(t)) \in Nat
  BY <1>1, WhereFinite
<1>3. IsFiniteSet(Due(t)) /\ Cardinality(Due(t)) \in Nat
  <2>1. IsFiniteSet(replyq) /\ Due(t) \subseteq replyq
    BY DEF TypeOK, EngineOK, Due
  <2>2. QED
    BY <2>1, FS_Subset, FS_CardinalityType
<1>4. Answers(t) \in Nat
  BY <1>1 DEF Answers
<1>5. /\ Count(evq, {"EVENTDEV"}, t) = Num(evq, Dev(t))
      /\ Count(m2p, {"EVENTDEV"}, t) = Num(m2p, Dev(t))
      /\ Count(p2mHold, {"EVENTREPLY"}, t) = Num(p2mHold, Rep(t))
      /\ Count(p2m, {"EVENTREPLY"}, t) = Num(p2m, Rep(t))
      /\ Count(m2dev, {"EVENTREPLY"}, t) = Num(m2dev, Rep(t))
  BY <1>1, DevCount, RepCount
<1>6. QED
  BY <1>2, <1>3, <1>4, <1>5 DEF Obligations, Undecided, Decided, Due, Answers

\* An event read, an event relayed, and a reply sent.
LEMMA QueueSteps ==
    ASSUME TypeOK, NEW t \in Tokens
    PROVE  /\ evq # <<>> => Num(evq, Dev(t)) = Num(Tail(evq), Dev(t)) + Is(Head(evq), Dev(t))
           /\ \A m \in EvMsgs : Num(Append(evq, m), Dev(t)) = Num(evq, Dev(t)) + Is(m, Dev(t))
           /\ m2p # <<>> => Num(m2p, Dev(t)) = Num(Tail(m2p), Dev(t)) + Is(Head(m2p), Dev(t))
           /\ \A m \in EvMsgs \cup Requests :
                 Num(m2p \o <<m>>, Dev(t)) = Num(m2p, Dev(t)) + Is(m, Dev(t))
           /\ p2m # <<>> => Num(p2m, Rep(t)) = Num(Tail(p2m), Rep(t)) + Is(Head(p2m), Rep(t))
           /\ \A m \in Replies \cup Orders :
                 Num(Append(p2m, m), Rep(t)) = Num(p2m, Rep(t)) + Is(m, Rep(t))
           /\ \A m \in Replies :
                 Num(Append(p2mHold, m), Rep(t)) = Num(p2mHold, Rep(t)) + Is(m, Rep(t))
           /\ Num(p2m \o p2mHold, Rep(t)) = Num(p2m, Rep(t)) + Num(p2mHold, Rep(t))
           /\ m2dev # <<>> =>
                 Num(m2dev, Rep(t)) = Num(Tail(m2dev), Rep(t)) + Is(Head(m2dev), Rep(t))
           /\ \A m \in Replies :
                 Num(Append(m2dev, m), Rep(t)) = Num(m2dev, Rep(t)) + Is(m, Rep(t))
<1>1. /\ evq \in Seq(EvMsgs) /\ m2p \in Seq(EvMsgs \cup Requests)
      /\ p2mHold \in Seq(Replies) /\ p2mHold \in Seq(Replies \cup Orders)
      /\ p2m \in Seq(Replies \cup Orders) /\ m2dev \in Seq(Replies)
  BY DEF TypeOK, PipesOK, MasterOK, EngineOK
<1>2. ASSUME NEW msgs, NEW q \in Seq(msgs), NEW kinds
      PROVE  /\ q # <<>> => Num(q, kinds) = Num(Tail(q), kinds) + Is(Head(q), kinds)
             /\ \A m \in msgs : Num(Append(q, m), kinds) = Num(q, kinds) + Is(m, kinds)
  BY NumTail, NumAppend DEF Is
<1>3. \A m \in EvMsgs \cup Requests : m2p \o <<m>> = Append(m2p, m)
  BY <1>1
<1>4. Num(p2m \o p2mHold, Rep(t)) = Num(p2m, Rep(t)) + Num(p2mHold, Rep(t))
  BY <1>1, NumConcat
<1>5. /\ evq # <<>> => Num(evq, Dev(t)) = Num(Tail(evq), Dev(t)) + Is(Head(evq), Dev(t))
      /\ \A m \in EvMsgs : Num(Append(evq, m), Dev(t)) = Num(evq, Dev(t)) + Is(m, Dev(t))
  BY <1>1, <1>2
<1>6. /\ m2p # <<>> => Num(m2p, Dev(t)) = Num(Tail(m2p), Dev(t)) + Is(Head(m2p), Dev(t))
      /\ \A m \in EvMsgs \cup Requests :
            Num(Append(m2p, m), Dev(t)) = Num(m2p, Dev(t)) + Is(m, Dev(t))
  BY <1>1, <1>2
<1>7. /\ p2m # <<>> => Num(p2m, Rep(t)) = Num(Tail(p2m), Rep(t)) + Is(Head(p2m), Rep(t))
      /\ \A m \in Replies \cup Orders :
            Num(Append(p2m, m), Rep(t)) = Num(p2m, Rep(t)) + Is(m, Rep(t))
  BY <1>1, <1>2
<1>8. \A m \in Replies :
         Num(Append(p2mHold, m), Rep(t)) = Num(p2mHold, Rep(t)) + Is(m, Rep(t))
  BY <1>1, <1>2
<1>9. /\ m2dev # <<>> =>
            Num(m2dev, Rep(t)) = Num(Tail(m2dev), Rep(t)) + Is(Head(m2dev), Rep(t))
      /\ \A m \in Replies :
            Num(Append(m2dev, m), Rep(t)) = Num(m2dev, Rep(t)) + Is(m, Rep(t))
  BY <1>1, <1>2
<1>10. \A m \in EvMsgs \cup Requests :
          Num(m2p \o <<m>>, Dev(t)) = Num(m2p, Dev(t)) + Is(m, Dev(t))
  BY <1>3, <1>6
<1>11. QED
  BY <1>4, <1>5, <1>6, <1>7, <1>8, <1>9, <1>10

\* OneOwner in terms of the parts.
OwnerOK == \A t \in Asking : Undecided(t) + Decided(t) = IF kern[t] = "idle" THEN 0 ELSE 1

\* A step that leaves an event alone, or moves its obligation.
LEMMA OwnerMoves ==
    ASSUME TypeOK, TypeOK', OwnerOK,
           \A t \in Asking : /\ kern'[t] = "idle" <=> kern[t] = "idle"
                             /\ Undecided(t)' + Decided(t)' = Undecided(t) + Decided(t)
    PROVE  OwnerOK'
BY DEF OwnerOK

LEMMA OwnerKernel ==
    ASSUME TypeOK, TypeOK', OwnerOK, NEW p \in Tokens, M!Post(p) \/ M!ProcessExit(p), NotMaster
    PROVE  OwnerOK'
<1>1. PartsOK /\ PartsOK'
  BY Parts, PTL
<1>2. UNCHANGED <<m2p, p2m, m2dev, written, replyq, p2mHold>>
  BY DEF M!Post, M!ProcessExit, NotMaster, policy, M!own
<1>3. kern \in [Tokens -> {"idle", "waiting", "done", "gone"}]
  BY DEF TypeOK, MasterOK
<1> SUFFICES ASSUME NEW t \in Asking
             PROVE  Undecided(t)' + Decided(t)' = IF kern'[t] = "idle" THEN 0 ELSE 1
  BY DEF OwnerOK
<1>4. t \in Tokens /\ t \notin NoteTokens
  BY DEF Asking
<1>5. /\ Decided(t)' = Decided(t)
      /\ Undecided(t)' = Num(evq', Dev(t)) + Num(m2p, Dev(t)) + Cardinality(Due(t))
  BY <1>2 DEF Decided, Undecided, Due, Answers
<1>6. /\ Undecided(t) + Decided(t) = IF kern[t] = "idle" THEN 0 ELSE 1
      /\ Decided(t) \in Nat /\ Num(evq, Dev(t)) \in Nat /\ Num(m2p, Dev(t)) \in Nat
      /\ Cardinality(Due(t)) \in Nat
  <2>1. /\ Num(evq, Dev(t)) \in Nat /\ Num(m2p, Dev(t)) \in Nat
        /\ Cardinality(Due(t)) \in Nat /\ Num(p2mHold, Rep(t)) \in Nat
        /\ Num(p2m, Rep(t)) \in Nat /\ Num(m2dev, Rep(t)) \in Nat
        /\ Answers(t) \in Nat
    BY <1>1, <1>4 DEF PartsOK
  <2>2. Decided(t) \in Nat
    BY <2>1 DEF Decided
  <2>3. Undecided(t) + Decided(t) = IF kern[t] = "idle" THEN 0 ELSE 1
    BY DEF OwnerOK
  <2>4. QED
    BY <2>1, <2>2, <2>3
<1>7. CASE M!Post(p)
  <2>1. evq' = Append(evq, EventDev(p)) /\ EventDev(p) \in EvMsgs
    BY <1>7 DEF M!Post, M!EventDev, EventDev, EvMsgs
  <2>2. Num(evq', Dev(t)) = Num(evq, Dev(t)) + Is(EventDev(p), Dev(t))
    BY <1>4, <2>1, QueueSteps
  <2>3. Is(EventDev(p), Dev(t)) = IF p = t THEN 1 ELSE 0
    BY <2>1 DEF Is, Dev, EventDev
  <2>4. /\ p = t => kern[t] = "idle" /\ kern'[t] # "idle"
        /\ p # t => kern'[t] = kern[t]
    BY <1>3, <1>4, <1>7 DEF M!Post
  <2>5. QED
    BY <1>5, <1>6, <2>2, <2>3, <2>4 DEF Undecided
<1>8. CASE M!ProcessExit(p)
  <2>1. evq' = evq \/ evq' = Append(evq, ProcExit(p))
    BY <1>8 DEF M!ProcessExit, M!ProcExit, ProcExit
  <2>2. ProcExit(p) \in EvMsgs /\ Is(ProcExit(p), Dev(t)) = 0
    BY DEF ProcExit, EvMsgs, Is, Dev
  <2>3. Num(evq', Dev(t)) = Num(evq, Dev(t))
    <3>1. Num(Append(evq, ProcExit(p)), Dev(t)) = Num(evq, Dev(t)) + 0
      BY <1>4, <2>2, QueueSteps
    <3>2. CASE evq' = Append(evq, ProcExit(p))
      <4>1. Num(evq', Dev(t)) = Num(evq, Dev(t)) + 0
        BY <3>1, <3>2, Zenon
      <4>2. QED
        BY <1>6, <4>1
    <3>3. CASE evq' = evq
      BY <3>3
    <3>4. QED
      BY <2>1, <3>2, <3>3
  <2>4. kern'[t] = "idle" <=> kern[t] = "idle"
    BY <1>3, <1>4, <1>8 DEF M!ProcessExit
  <2>5. QED
    BY <1>5, <1>6, <2>3, <2>4 DEF Undecided
<1>9. QED
  BY <1>7, <1>8

LEMMA OwnerMaster ==
    ASSUME TypeOK, TypeOK', ShutOK, OwnerOK, M!Handle \/ M!Sigterm, NotMaster
    PROVE  OwnerOK'
<1>1. PartsOK /\ PartsOK'
  BY Parts, PTL
<1>2. UNCHANGED <<replyq, p2mHold>>
  BY DEF NotMaster, policy
<1> SUFFICES ASSUME NEW t \in Asking
             PROVE  /\ kern'[t] = "idle" <=> kern[t] = "idle"
                    /\ Undecided(t)' + Decided(t)' = Undecided(t) + Decided(t)
  BY OwnerMoves
<1>3. t \in Tokens /\ t \notin NoteTokens
  BY DEF Asking
<1>n. /\ Num(evq, Dev(t)) \in Nat /\ Num(m2p, Dev(t)) \in Nat /\ Cardinality(Due(t)) \in Nat
      /\ Num(p2mHold, Rep(t)) \in Nat /\ Num(p2m, Rep(t)) \in Nat
      /\ Num(m2dev, Rep(t)) \in Nat /\ Answers(t) \in Nat
      /\ Num(evq', Dev(t)) \in Nat /\ Num(m2p', Dev(t)) \in Nat
      /\ Num(p2m', Rep(t)) \in Nat /\ Num(m2dev', Rep(t)) \in Nat
  BY <1>1, <1>3 DEF PartsOK
<1>4. /\ Undecided(t)' = Num(evq', Dev(t)) + Num(m2p', Dev(t)) + Cardinality(Due(t))
      /\ Decided(t)' = Num(p2mHold, Rep(t)) + Num(p2m', Rep(t)) + Num(m2dev', Rep(t))
                         + Answers(t)'
  BY <1>2 DEF Undecided, Decided, Due
<1>w. Answers(t)' \in Nat /\ (written' = written => Answers(t)' = Answers(t))
  BY <1>1, <1>3 DEF PartsOK, Answers
<1>5. CASE M!RecvKernel
  <2> DEFINE m == Head(evq)
  <2>1. RecvKernelDoes
    BY <1>5, RecvKernelEffect
  <2>2. evq # <<>> /\ evq' = Tail(evq) /\ m \in EvMsgs /\ mterm < 2
        /\ UNCHANGED <<kern, written, p2m, closed>>
    BY <2>1 DEF RecvKernelDoes
  <2>3. Num(evq, Dev(t)) = Num(evq', Dev(t)) + Is(m, Dev(t))
    BY <1>3, <2>2, QueueSteps
  <2>4. CASE /\ m.type = "EVENTDEV" /\ m.token \in ChildTokens
             /\ \E v \in {0, 1} : m2dev' = Append(m2dev, EventReply(m.token, v, {}))
             /\ m2p' = m2p
    <3>1. PICK v \in {0, 1} : m2dev' = Append(m2dev, EventReply(m.token, v, {}))
      BY <2>4
    <3> DEFINE r == EventReply(m.token, v, {})
    <3>2. m.token \in Tokens
      BY <2>2 DEF EvMsgs
    <3>3. r \in Replies /\ r.token = m.token
      BY <3>2, FlagTypes DEF EventReply, Replies
    <3> HIDE DEF r
    <3>4. Num(m2dev', Rep(t)) = Num(m2dev, Rep(t)) + Is(r, Rep(t))
      BY <1>3, <3>1, <3>3, QueueSteps DEF r
    <3>5. Is(r, Rep(t)) = Is(m, Dev(t))
      BY <2>2, <2>4, <3>3 DEF Is, Rep, Dev
    <3>6. Is(m, Dev(t)) \in Nat
      BY DEF Is
    <3>7. m2p' = m2p /\ p2m' = p2m /\ written' = written /\ kern' = kern
      BY <2>2, <2>4
    <3>8. Undecided(t) = Undecided(t)' + Is(m, Dev(t))
      BY <1>4, <1>n, <1>w, <2>3, <3>6, <3>7 DEF Undecided
    <3>9. Decided(t)' = Decided(t) + Is(m, Dev(t))
      BY <1>4, <1>n, <1>w, <3>4, <3>5, <3>6, <3>7 DEF Decided
    <3>10. Undecided(t)' \in Nat /\ Decided(t) \in Nat
      <4>1. Decided(t) \in Nat
        BY <1>n DEF Decided
      <4>2. Undecided(t)' \in Nat
        BY <1>4, <1>n
      <4>3. QED
        BY <4>1, <4>2
    <3>11. QED
      BY <3>6, <3>7, <3>8, <3>9, <3>10
  <2>5. CASE /\ m.type = "EVENTDEV" /\ m.token \in NoteTokens \ ChildTokens
             /\ m2p' = m2p /\ m2dev' = m2dev
    <3>1. Is(m, Dev(t)) = 0
      BY <1>3, <2>5 DEF Is, Dev
    <3>2. QED
      BY <1>4, <1>n, <1>w, <2>2, <2>3, <2>5, <3>1 DEF Undecided, Decided
  <2>6. CASE /\ m.type = "EVENTDEV" => m.token \notin NoteTokens \cup ChildTokens
             /\ m2p' = IF "m2p" \notin closed THEN m2p \o <<m>> ELSE m2p
             /\ m2dev' = m2dev
    <3>1. "m2p" \notin closed
      BY <2>2 DEF ShutOK, MasterShut
    <3>2. Num(m2p', Dev(t)) = Num(m2p, Dev(t)) + Is(m, Dev(t))
      BY <1>3, <2>2, <2>6, <3>1, QueueSteps
    <3>3. Is(m, Dev(t)) \in Nat
      BY DEF Is
    <3>4. QED
      BY <1>4, <1>n, <1>w, <2>2, <2>3, <2>6, <3>2, <3>3 DEF Undecided, Decided
  <2>7. QED
    BY <2>1, <2>4, <2>5, <2>6 DEF RecvKernelDoes
<1>6. CASE M!RecvPolicy
  <2> DEFINE m == Head(p2m)
  <2>1. RecvPolicyDoes
    BY <1>6, RecvPolicyEffect
  <2>2. p2m # <<>> /\ p2m' = Tail(p2m) /\ UNCHANGED <<evq, kern, written, m2p>>
    BY <2>1 DEF RecvPolicyDoes
  <2>3. Num(p2m, Rep(t)) = Num(p2m', Rep(t)) + Is(m, Rep(t))
    BY <1>3, <2>2, QueueSteps
  <2>4. Num(m2dev', Rep(t)) = Num(m2dev, Rep(t)) + Is(m, Rep(t))
    <3>1. CASE m \in Replies /\ m2dev' = Append(m2dev, m)
      BY <1>3, <3>1, QueueSteps
    <3>2. CASE m \in Orders /\ m2dev' = m2dev
      <4>1. Is(m, Rep(t)) = 0
        BY <3>2 DEF Is, Rep, Replies, Orders
      <4>2. QED
        BY <1>n, <3>2, <4>1
    <3>3. QED
      BY <2>1, <3>1, <3>2 DEF RecvPolicyDoes
  <2>5. Is(m, Rep(t)) \in Nat
    BY DEF Is
  <2>6. QED
    BY <1>4, <1>n, <1>w, <2>2, <2>3, <2>4, <2>5 DEF Undecided, Decided
<1>7. CASE M!WriteDev
  <2> DEFINE r == Head(m2dev)
             a == [verdict |-> r.verdict, flags |-> r.flags]
  <2>1. WriteDevDoes
    BY <1>7, WriteDevEffect
  <2>2. m2dev # <<>> /\ r \in Replies /\ m2dev' = Tail(m2dev) /\ UNCHANGED <<evq, m2p, p2m>>
    BY <2>1 DEF WriteDevDoes
  <2>3. Num(m2dev, Rep(t)) = Num(m2dev', Rep(t)) + Is(r, Rep(t))
    BY <1>3, <2>2, QueueSteps
  <2>4. r.token \in Tokens /\ Is(r, Rep(t)) = (IF r.token = t THEN 1 ELSE 0)
    BY <2>2 DEF Is, Rep, Replies
  <2>5. written[t] \in Seq(DevReplies) /\ DOMAIN written = Tokens
    BY <1>3 DEF TypeOK, MasterOK
  <2>6. Answers(t)' = Answers(t) + (IF r.token = t THEN 1 ELSE 0)
    <3>1. written' = [written EXCEPT ![r.token] = Append(written[r.token], a)]
      BY <2>1 DEF WriteDevDoes
    <3>2. a \in DevReplies
      BY <2>2 DEF Replies, DevReplies
    <3> HIDE DEF a
    <3>3. CASE r.token = t
      <4>1. written'[t] = Append(written[t], a)
        BY <1>3, <2>5, <3>1, <3>3
      <4>2. QED
        BY <2>5, <3>2, <3>3, <4>1 DEF Answers
    <3>4. CASE r.token # t
      <4>1. written'[t] = written[t]
        BY <1>3, <2>5, <3>1, <3>4
      <4>2. QED
        BY <1>n, <3>4, <4>1 DEF Answers
    <3>5. QED
      BY <3>3, <3>4
  <2>7. kern'[t] = "idle" <=> kern[t] = "idle"
    BY <1>3, <2>1, <2>4 DEF WriteDevDoes, TypeOK, MasterOK
  <2>8. Undecided(t)' = Undecided(t)
    BY <1>4, <2>2 DEF Undecided
  <2>9. Num(m2dev', Rep(t)) + Answers(t)' = Num(m2dev, Rep(t)) + Answers(t)
    BY <1>n, <1>w, <2>3, <2>4, <2>6
  <2>10. p2m' = p2m
    BY <2>2
  <2>11. Decided(t)' = Decided(t)
    BY <1>4, <1>n, <1>w, <2>9, <2>10 DEF Decided
  <2>12. QED
    BY <2>7, <2>8, <2>11
<1>8. CASE M!RecvUpgrade
  <2> DEFINE m == Head(u2m)
  <2>1. RecvUpgradeDoes
    BY <1>8, RecvUpgradeEffect
  <2>2. UNCHANGED <<evq, kern, written, p2m, m2dev>>
    BY <2>1 DEF RecvUpgradeDoes
  <2>3. Num(m2p', Dev(t)) = Num(m2p, Dev(t))
    <3>1. m2p' = m2p \/ (m \in Requests /\ m2p' = m2p \o <<m>>)
      BY <2>1 DEF RecvUpgradeDoes
    <3>2. ASSUME m \in Requests PROVE Is(m, Dev(t)) = 0
      BY <3>2 DEF Is, Dev, EvMsgs, Requests
    <3>3. ASSUME m \in Requests PROVE Num(m2p \o <<m>>, Dev(t)) = Num(m2p, Dev(t)) + 0
      BY <1>3, <3>2, <3>3, QueueSteps
    <3>4. QED
      <4>1. CASE m2p' = m2p
        BY <4>1
      <4>2. CASE m \in Requests /\ m2p' = m2p \o <<m>>
        <5>1. Num(m2p', Dev(t)) = Num(m2p, Dev(t)) + 0
          BY <3>3, <4>2, Zenon
        <5>2. QED
          BY <1>n, <5>1
      <4>3. QED
        BY <3>1, <4>1, <4>2
  <2>4. QED
    BY <1>4, <1>n, <1>w, <2>2, <2>3 DEF Undecided, Decided
<1>9. CASE M!EndOfEvents \/ M!Exit \/ M!Sigterm \/ \E pipe \in {"m2p", "m2s", "m2u"} : M!Shut(pipe)
  <2>1. UNCHANGED <<evq, kern, written, m2p, p2m, m2dev>>
    BY <1>9 DEF M!EndOfEvents, M!Exit, M!Sigterm, M!Shut, M!kernel, M!own
  <2>2. QED
    BY <1>4, <1>w, <2>1 DEF Undecided, Decided
<1>10. QED
  BY <1>5, <1>6, <1>7, <1>8, <1>9 DEF M!Handle

\* The escalations of t when one is added or settled.
LEMMA DueSteps ==
    ASSUME TypeOK, NEW t \in Tokens, NEW w \in Escalations
    PROVE  /\ w \in replyq /\ replyq' = replyq \ {w} =>
                 Cardinality(Due(t)) = Cardinality(Due(t)') + (IF w.token = t THEN 1 ELSE 0)
           /\ Due(w.token) = {} /\ replyq' = replyq \cup {w} =>
                 Cardinality(Due(t)') = Cardinality(Due(t)) + (IF w.token = t THEN 1 ELSE 0)
           /\ replyq' = replyq => Due(t)' = Due(t)
<1>1. IsFiniteSet(Due(t)) /\ Cardinality(Due(t)) \in Nat
  BY Parts DEF PartsOK
<1>2. ASSUME w \in replyq, replyq' = replyq \ {w}
      PROVE  Cardinality(Due(t)) = Cardinality(Due(t)') + (IF w.token = t THEN 1 ELSE 0)
  <2>1. CASE w.token = t
    <3>1. w \in Due(t) /\ Due(t)' = Due(t) \ {w}
      BY <1>2, <2>1 DEF Due
    <3>2. Cardinality(Due(t) \ {w}) = Cardinality(Due(t)) - 1
      BY <1>1, <3>1, FS_RemoveElement
    <3>3. QED
      BY <1>1, <2>1, <3>1, <3>2
  <2>2. CASE w.token # t
    <3>1. Due(t)' = Due(t)
      BY <1>2, <2>2 DEF Due
    <3>2. QED
      BY <1>1, <2>2, <3>1
  <2>3. QED
    BY <2>1, <2>2
<1>3. ASSUME Due(w.token) = {}, replyq' = replyq \cup {w}
      PROVE  Cardinality(Due(t)') = Cardinality(Due(t)) + (IF w.token = t THEN 1 ELSE 0)
  <2>1. CASE w.token = t
    <3>1. Due(t)' = {w} /\ Due(t) = {}
      BY <1>3, <2>1 DEF Due
    <3>2. Cardinality(Due(t)') = 1 /\ Cardinality(Due(t)) = 0
      BY <3>1, FS_Singleton, FS_EmptySet
    <3>3. QED
      BY <2>1, <3>2
  <2>2. CASE w.token # t
    <3>1. Due(t)' = Due(t)
      BY <1>3, <2>2 DEF Due
    <3>2. QED
      BY <1>1, <2>2, <3>1
  <2>3. QED
    BY <2>1, <2>2
<1>4. replyq' = replyq => Due(t)' = Due(t)
  BY DEF Due
<1>5. QED
  BY <1>2, <1>3, <1>4

\* A reply message counts for its token only.
LEMMA RepIs ==
    ASSUME NEW r \in Replies, NEW t
    PROVE  Is(r, Rep(t)) = IF r.token = t THEN 1 ELSE 0
BY DEF Is, Rep

LEMMA OwnerEvent ==
    ASSUME TypeOK, TypeOK', OwnerOK, P!RecvEvent, NotPolicy
    PROVE  OwnerOK'
<1>1. PartsOK /\ PartsOK'
  BY Parts, PTL
<1>2. UNCHANGED <<kern, evq, m2dev, written>>
  BY DEF NotPolicy, master
<1> DEFINE e == Head(m2p).token
<1>3. m2p # <<>> /\ m2p' = Tail(m2p) /\ Head(m2p) \in EvMsgs /\ e \in Tokens
      /\ Head(m2p).type = "EVENTDEV"
  <2>1. m2p # <<>> /\ m2p' = Tail(m2p) /\ Head(m2p).type = "EVENTDEV"
    BY DEF P!RecvEvent
  <2>2. QED
    BY <2>1, FromMasterType
<1>e. \A t \in Tokens : Num(m2p, Dev(t)) = Num(m2p', Dev(t)) + (IF e = t THEN 1 ELSE 0)
  <2> SUFFICES ASSUME NEW t \in Tokens
               PROVE  Num(m2p, Dev(t)) = Num(m2p', Dev(t)) + (IF e = t THEN 1 ELSE 0)
    OBVIOUS
  <2>1. Num(m2p, Dev(t)) = Num(m2p', Dev(t)) + Is(Head(m2p), Dev(t))
    BY <1>3, QueueSteps
  <2>2. Is(Head(m2p), Dev(t)) = IF e = t THEN 1 ELSE 0
    BY <1>3 DEF Is, Dev
  <2>3. QED
    BY <2>1, <2>2
<1>r. ASSUME NEW v \in Int, NEW f \in FlagSets
      PROVE  /\ EventReply(e, v, f) \in Replies
             /\ \A t \in Tokens : Is(EventReply(e, v, f), Rep(t)) = IF e = t THEN 1 ELSE 0
  <2>1. EventReply(e, v, f) \in Replies /\ EventReply(e, v, f).token = e
    BY <1>3 DEF EventReply, Replies
  <2>2. QED
    BY <2>1, RepIs
<1> SUFFICES ASSUME NEW t \in Asking
             PROVE  Undecided(t)' + Decided(t)' = Undecided(t) + Decided(t)
  BY <1>2, OwnerMoves
<1> DEFINE d == IF e = t THEN 1 ELSE 0
<1>4. t \in Tokens /\ d \in Nat
  BY DEF Asking
<1>5. Num(m2p, Dev(t)) = Num(m2p', Dev(t)) + d
  BY <1>4, <1>e
<1> HIDE DEF e, d
<1>n. /\ Num(evq, Dev(t)) \in Nat /\ Num(m2p, Dev(t)) \in Nat /\ Cardinality(Due(t)) \in Nat
      /\ Num(p2mHold, Rep(t)) \in Nat /\ Num(p2m, Rep(t)) \in Nat
      /\ Num(m2dev, Rep(t)) \in Nat /\ Answers(t) \in Nat
      /\ Num(m2p', Dev(t)) \in Nat /\ Cardinality(Due(t)') \in Nat
      /\ Num(p2mHold', Rep(t)) \in Nat /\ Num(p2m', Rep(t)) \in Nat
  BY <1>1, <1>4 DEF PartsOK
<1>6. /\ Undecided(t)' = Num(evq, Dev(t)) + Num(m2p', Dev(t)) + Cardinality(Due(t)')
      /\ Decided(t)' = Num(p2mHold', Rep(t)) + Num(p2m', Rep(t)) + Num(m2dev, Rep(t))
                         + Answers(t)
  BY <1>2 DEF Undecided, Decided, Answers, Due
\* It is enough that one of the three places gets the obligation.
<1>7. ASSUME \/ /\ Cardinality(Due(t)') = Cardinality(Due(t)) + d
                /\ Num(p2m', Rep(t)) = Num(p2m, Rep(t))
                /\ Num(p2mHold', Rep(t)) = Num(p2mHold, Rep(t))
             \/ /\ Cardinality(Due(t)') = Cardinality(Due(t))
                /\ Num(p2m', Rep(t)) = Num(p2m, Rep(t)) + d
                /\ Num(p2mHold', Rep(t)) = Num(p2mHold, Rep(t))
             \/ /\ Cardinality(Due(t)') = Cardinality(Due(t))
                /\ Num(p2m', Rep(t)) = Num(p2m, Rep(t))
                /\ Num(p2mHold', Rep(t)) = Num(p2mHold, Rep(t)) + d
      PROVE  Undecided(t)' + Decided(t)' = Undecided(t) + Decided(t)
  BY <1>4, <1>5, <1>6, <1>7, <1>n DEF Undecided, Decided
<1>8. \/ P!Lock(e) \/ \E r \in PolicyReplies : P!Ask(e, r) \/ P!Answer(e, r)
  BY DEF P!RecvEvent, e
<1>9. CASE P!Lock(e)
  <2> DEFINE r == EventReply(e, 0, {})
  <2>1. r \in Replies /\ Is(r, Rep(t)) = d
    BY <1>4, <1>r, FlagTypes DEF d
  <2>2. \/ p2mHold' = Append(p2mHold, r) /\ p2m' = p2m
        \/ p2m' = Append(p2m, r) /\ p2mHold' = p2mHold
    BY <1>9 DEF P!Lock, P!EventReply, EventReply
  <2>3. replyq' = replyq
    BY <1>9 DEF P!Lock
  <2>4. Due(t)' = Due(t)
    BY <2>3 DEF Due
  <2> HIDE DEF r
  <2>5. /\ Num(Append(p2m, r), Rep(t)) = Num(p2m, Rep(t)) + d
        /\ Num(Append(p2mHold, r), Rep(t)) = Num(p2mHold, Rep(t)) + d
    BY <1>4, <2>1, QueueSteps
  <2>6. QED
    BY <1>7, <2>2, <2>4, <2>5, Zenon
<1>10. ASSUME NEW r \in PolicyReplies, P!Answer(e, r)
       PROVE  Undecided(t)' + Decided(t)' = Undecided(t) + Decided(t)
  <2> DEFINE m == EventReply(e, r.verdict, r.flags)
  <2>1. r.verdict \in Int /\ r.flags \in FlagSets
    BY DaemonAssumption
  <2>2. m \in Replies /\ Is(m, Rep(t)) = d
    BY <1>4, <1>r, <2>1 DEF d
  <2>3. p2m' = Append(p2m, m) /\ p2mHold' = p2mHold /\ replyq' = replyq
    BY <1>10 DEF P!Answer, P!EventReply, EventReply
  <2> HIDE DEF m
  <2>4. Due(t)' = Due(t)
    BY <2>3 DEF Due
  <2>5. Num(p2m', Rep(t)) = Num(p2m, Rep(t)) + d
    BY <1>4, <2>2, <2>3, QueueSteps
  <2>6. QED
    BY <1>7, <2>3, <2>4, <2>5, Zenon
<1>11. ASSUME NEW r \in PolicyReplies, P!Ask(e, r)
       PROVE  Undecided(t)' + Decided(t)' = Undecided(t) + Decided(t)
  <2> DEFINE w == [token |-> e, flags |-> r.flags]
  <2>1. r.flags \in FlagSets
    BY DaemonAssumption
  <2>2. w \in Escalations /\ w.token = e
    BY <1>3, <2>1 DEF Escalations, e
  <2>3. replyq' = replyq \cup {w} /\ p2m' = p2m /\ p2mHold' = p2mHold
    BY <1>11 DEF P!Ask
  <2> HIDE DEF w
  <2>4. CASE e # t
    <3>1. Due(t)' = Due(t) /\ d = 0
      BY <2>2, <2>3, <2>4 DEF Due, d
    <3>2. Cardinality(Due(t)') = Cardinality(Due(t)) + d
      BY <1>n, <3>1
    <3>3. QED
      BY <1>7, <2>3, <3>2, Zenon
  <2>5. CASE e = t
    <3>1. Undecided(t) + Decided(t) \in {0, 1} /\ d = 1
      BY <2>5 DEF OwnerOK, d
    <3>2. Decided(t) \in Nat
      BY <1>n DEF Decided
    <3>3. Cardinality(Due(t)) = 0
      BY <1>5, <1>n, <3>1, <3>2 DEF Undecided
    <3>4. Due(w.token) = {}
      BY <1>1, <1>4, <2>2, <2>5, <3>3, FS_EmptySet DEF PartsOK
    <3>5. Cardinality(Due(t)') = Cardinality(Due(t)) + d
      BY <1>4, <2>2, <2>3, <2>5, <3>1, <3>4, DueSteps
    <3>6. QED
      BY <1>7, <2>3, <3>5, Zenon
  <2>6. QED
    BY <2>4, <2>5
<1>12. QED
  BY <1>8, <1>9, <1>10, <1>11

\* An escalation ends: with an answer or with its timeout.
Settling(w, r) ==
    /\ w \in replyq /\ replyq' = replyq \ {w}
    /\ r \in Replies /\ r.token = w.token /\ p2m' = Append(p2m, r)
    /\ UNCHANGED <<m2p, p2mHold>>

LEMMA OwnerSettles ==
    ASSUME TypeOK, TypeOK', OwnerOK, NotPolicy, NEW w, NEW r, Settling(w, r)
    PROVE  OwnerOK'
<1>1. PartsOK /\ PartsOK'
  BY Parts, PTL
<1>2. UNCHANGED <<kern, evq, m2dev, written>>
  BY DEF NotPolicy, master
<1> SUFFICES ASSUME NEW t \in Asking
             PROVE  Undecided(t)' + Decided(t)' = Undecided(t) + Decided(t)
  BY <1>2, OwnerMoves
<1> DEFINE d == IF w.token = t THEN 1 ELSE 0
<1>3. t \in Tokens /\ d \in Nat /\ w \in Escalations
  BY DEF Asking, TypeOK, EngineOK, Settling
<1>4. Cardinality(Due(t)) = Cardinality(Due(t)') + d
  BY <1>3, DueSteps DEF Settling
<1>5. Num(p2m', Rep(t)) = Num(p2m, Rep(t)) + d
  <2>1. Num(p2m', Rep(t)) = Num(p2m, Rep(t)) + Is(r, Rep(t))
    BY <1>3, QueueSteps DEF Settling
  <2>2. QED
    BY <2>1, RepIs DEF Settling
<1> HIDE DEF d
<1>6. /\ Num(evq, Dev(t)) \in Nat /\ Num(m2p, Dev(t)) \in Nat /\ Cardinality(Due(t)) \in Nat
      /\ Num(p2mHold, Rep(t)) \in Nat /\ Num(p2m, Rep(t)) \in Nat
      /\ Num(m2dev, Rep(t)) \in Nat /\ Answers(t) \in Nat
      /\ Cardinality(Due(t)') \in Nat /\ Num(p2m', Rep(t)) \in Nat
  BY <1>1, <1>3 DEF PartsOK
<1>7. /\ Undecided(t)' = Num(evq, Dev(t)) + Num(m2p, Dev(t)) + Cardinality(Due(t)')
      /\ Decided(t)' = Num(p2mHold, Rep(t)) + Num(p2m', Rep(t)) + Num(m2dev, Rep(t))
                         + Answers(t)
  BY <1>2 DEF Undecided, Decided, Answers, Due, Settling
<1>8. d \in Nat
  BY <1>3
<1>9. QED
  BY <1>4, <1>5, <1>6, <1>7, <1>8 DEF Undecided, Decided

\* What the policy engine does to open escalations when a reply arrives, and
\* when one times out.
LEMMA RecvReplyEffect ==
    ASSUME TypeOK, P!RecvReply
    PROVE  /\ s2p # <<>> /\ Head(s2p) \in Replies /\ s2p' = Tail(s2p)
           /\ UNCHANGED <<m2p, p2s, closed, p2mHold, terminate, polEof, parents, held,
                          tree, chunks>>
           /\ \/ /\ \A w \in replyq : w.token # Head(s2p).token
                 /\ replyq' = replyq /\ p2m' = p2m
              \/ \E w \in replyq :
                    /\ w.token = Head(s2p).token /\ replyq' = replyq \ {w}
                    /\ EventReply(w.token, Head(s2p).verdict, Head(s2p).flags \cup w.flags) \in Replies
                    /\ p2m' = Append(p2m, EventReply(w.token, Head(s2p).verdict, Head(s2p).flags \cup w.flags))
<1>1. s2p # <<>> /\ Head(s2p) \in Replies
  BY SeqTypes DEF P!RecvReply, TypeOK, PipesOK
<1>2. s2p' = Tail(s2p)
      /\ UNCHANGED <<m2p, p2s, closed, p2mHold, terminate, polEof, parents, held, tree, chunks>>
  BY DEF P!RecvReply
<1>3. \/ /\ \A w \in replyq : w.token # Head(s2p).token
         /\ replyq' = replyq /\ p2m' = p2m
      \/ \E w \in replyq :
            /\ w.token = Head(s2p).token /\ replyq' = replyq \ {w}
            /\ p2m' = Append(p2m, P!Restored(Head(s2p), w))
  BY DEF P!RecvReply, P!Settled
<1>4. ASSUME NEW w \in replyq, w.token = Head(s2p).token
      PROVE  /\ P!Restored(Head(s2p), w) = EventReply(w.token, Head(s2p).verdict, Head(s2p).flags \cup w.flags)
             /\ EventReply(w.token, Head(s2p).verdict, Head(s2p).flags \cup w.flags) \in Replies
  <2>1. /\ w.token \in Tokens /\ Head(s2p).verdict \in Int
        /\ Head(s2p).flags \cup w.flags \in FlagSets
    BY <1>1, FlagTypes DEF TypeOK, EngineOK, Escalations, Replies
  <2>2. QED
    BY <1>4, <2>1 DEF P!Restored, P!EventReply, EventReply, Replies
<1>5. QED
  BY <1>1, <1>2, <1>3, <1>4

LEMMA ExpireEffect ==
    ASSUME TypeOK, NEW w \in replyq, P!Expire(w)
    PROVE  /\ replyq' = replyq \ {w} /\ EventReply(w.token, 1, {}) \in Replies
           /\ p2m' = Append(p2m, EventReply(w.token, 1, {}))
           /\ p2s' = IF "p2s" \notin closed THEN p2s \o <<EventCancel(w.token)>> ELSE p2s
           /\ UNCHANGED <<m2p, s2p, closed, p2mHold, terminate, polEof, parents, held,
                          tree, chunks>>
<1>1. w.token \in Tokens
  BY DEF TypeOK, EngineOK, Escalations
<1>2. EventReply(w.token, 1, {}) \in Replies
  BY <1>1, FlagTypes DEF EventReply, Replies
<1>3. QED
  BY <1>2 DEF P!Expire, P!Settled, P!ToSession, P!CancelMsg, P!EventCancel, EventCancel,
     P!Send, P!EventReply, EventReply, P!EPERM

\* The upgrade protocol sends orders, and releases the replies that were held.
LEMMA ProtocolEffect ==
    ASSUME TypeOK, P!RecvExit \/ P!RecvUpgrade
    PROVE  \/ p2m' = p2m /\ p2mHold' = p2mHold
           \/ (\E o \in Orders : p2m' = Append(p2m, o)) /\ p2mHold' = p2mHold
           \/ p2m' = p2m \o p2mHold /\ p2mHold' = <<>>
<1>1. CASE P!RecvExit
  <2>1. P!UpgradeMsg("START", 0) \in Orders
    BY DEF P!UpgradeMsg, Orders
  <2>2. QED
    BY <1>1, <2>1 DEF P!RecvExit
<1>2. CASE P!RecvUpgrade
  <2>1. Head(m2p).what \in {"CHUNK_REQ", "END"}
    BY <1>2, FromMasterType DEF P!RecvUpgrade
  <2>2. CASE Head(m2p).what = "CHUNK_REQ"
    <3> DEFINE n == IF (IF P!Busy THEN chunks ELSE 0) > 0 THEN 1 ELSE 0
    <3>1. P!UpgradeMsg("CHUNK", n) \in Orders
      BY DEF P!UpgradeMsg, Orders
    <3>2. p2m' = Append(p2m, P!UpgradeMsg("CHUNK", n)) /\ p2mHold' = p2mHold
      BY <1>2, <2>2 DEF P!RecvUpgrade
    <3>3. QED
      BY <3>1, <3>2
  <2>3. CASE Head(m2p).what = "END"
    BY <1>2, <2>3 DEF P!RecvUpgrade, P!ReleaseHold
  <2>4. QED
    BY <2>1, <2>2, <2>3
<1>3. QED
  BY <1>1, <1>2

LEMMA OwnerPolicy ==
    ASSUME TypeOK, TypeOK', OwnerOK, Policy \/ PolicyTerm \/ \E t \in Tokens : Timer(t)
    PROVE  OwnerOK'
<1>1. PartsOK /\ PartsOK'
  BY Parts, PTL
<1>2. UNCHANGED <<kern, evq, m2dev, written>> /\ NotPolicy
  BY DEF Policy, PolicyTerm, Timer, NotPolicy, master
<1>3. CASE P!RecvEvent
  BY <1>2, <1>3, OwnerEvent
<1>4. CASE P!RecvReply
  <2>1. CASE replyq' = replyq /\ p2m' = p2m
    <3>1. UNCHANGED <<m2p, p2mHold>>
      BY <1>4 DEF P!RecvReply
    <3>2. QED
      BY <1>2, <2>1, <3>1, OwnerMoves DEF Undecided, Decided, Due, Answers
  <2>2. ASSUME NEW w \in replyq, replyq' = replyq \ {w},
               EventReply(w.token, Head(s2p).verdict, Head(s2p).flags \cup w.flags) \in Replies,
               p2m' = Append(p2m, EventReply(w.token, Head(s2p).verdict, Head(s2p).flags \cup w.flags))
        PROVE  OwnerOK'
    <3> DEFINE r == EventReply(w.token, Head(s2p).verdict, Head(s2p).flags \cup w.flags)
    <3>1. r.token = w.token
      BY DEF EventReply
    <3>2. UNCHANGED <<m2p, p2mHold>>
      BY <1>4 DEF P!RecvReply
    <3>3. r \in Replies /\ p2m' = Append(p2m, r)
      BY <2>2
    <3> HIDE DEF r
    <3>4. QED
      BY <1>2, <2>2, <3>1, <3>2, <3>3, OwnerSettles DEF Settling
  <2>3. QED
    BY <1>4, <2>1, <2>2, RecvReplyEffect
<1>5. ASSUME NEW w \in replyq, P!Expire(w) PROVE OwnerOK'
  <2> DEFINE r == EventReply(w.token, 1, {})
  <2>1. r.token = w.token
    BY DEF EventReply
  <2>2. /\ replyq' = replyq \ {w} /\ r \in Replies /\ p2m' = Append(p2m, r)
        /\ UNCHANGED <<m2p, p2mHold>>
    BY <1>5, ExpireEffect
  <2> HIDE DEF r
  <2>3. QED
    BY <1>2, <2>1, <2>2, OwnerSettles DEF Settling
\* The upgrade protocol: only the released replies change place.
<1>6. CASE P!RecvExit \/ P!RecvUpgrade
  <2>1. m2p # <<>> /\ m2p' = Tail(m2p) /\ replyq' = replyq
        /\ Head(m2p).type \in {"PROCEXIT", "UPGRADE"}
    BY <1>6 DEF P!RecvExit, P!RecvUpgrade
  <2>2. \/ p2m' = p2m /\ p2mHold' = p2mHold
        \/ (\E o \in Orders : p2m' = Append(p2m, o)) /\ p2mHold' = p2mHold
        \/ p2m' = p2m \o p2mHold /\ p2mHold' = <<>>
    BY <1>6, ProtocolEffect
  <2> SUFFICES ASSUME NEW t \in Asking
               PROVE  Undecided(t)' + Decided(t)' = Undecided(t) + Decided(t)
    BY <1>2, OwnerMoves
  <2>3. t \in Tokens
    BY DEF Asking
  <2>n. /\ Num(evq, Dev(t)) \in Nat /\ Num(m2p, Dev(t)) \in Nat /\ Cardinality(Due(t)) \in Nat
        /\ Num(p2mHold, Rep(t)) \in Nat /\ Num(p2m, Rep(t)) \in Nat
        /\ Num(m2dev, Rep(t)) \in Nat /\ Answers(t) \in Nat
        /\ Num(m2p', Dev(t)) \in Nat /\ Num(p2m', Rep(t)) \in Nat
        /\ Num(p2mHold', Rep(t)) \in Nat
    BY <1>1, <2>3 DEF PartsOK
  <2>4. Num(m2p', Dev(t)) = Num(m2p, Dev(t))
    <3>1. Num(m2p, Dev(t)) = Num(m2p', Dev(t)) + Is(Head(m2p), Dev(t))
      BY <2>1, <2>3, QueueSteps
    <3>2. Is(Head(m2p), Dev(t)) = 0
      BY <2>1 DEF Is, Dev
    <3>3. QED
      BY <2>n, <3>1, <3>2
  <2>5. Num(p2m', Rep(t)) + Num(p2mHold', Rep(t)) = Num(p2m, Rep(t)) + Num(p2mHold, Rep(t))
    <3>1. CASE p2m' = p2m /\ p2mHold' = p2mHold
      BY <3>1, Zenon
    <3>2. ASSUME NEW o \in Orders, p2m' = Append(p2m, o), p2mHold' = p2mHold
          PROVE  Num(p2m', Rep(t)) + Num(p2mHold', Rep(t))
                   = Num(p2m, Rep(t)) + Num(p2mHold, Rep(t))
      <4>1. Is(o, Rep(t)) = 0
        BY DEF Is, Rep, Replies, Orders
      <4>2. Num(p2m', Rep(t)) = Num(p2m, Rep(t)) + Is(o, Rep(t))
        BY <2>3, <3>2, QueueSteps
      <4>3. Num(p2mHold', Rep(t)) = Num(p2mHold, Rep(t))
        BY <3>2, Zenon
      <4>4. QED
        BY <2>n, <4>1, <4>2, <4>3
    <3>3. CASE p2m' = p2m \o p2mHold /\ p2mHold' = <<>>
      <4>1. Num(p2m \o p2mHold, Rep(t)) = Num(p2m, Rep(t)) + Num(p2mHold, Rep(t))
        BY <2>3, QueueSteps
      <4>2. Num(p2mHold', Rep(t)) = 0
        BY <3>3, NumEmpty, Zenon
      <4>3. Num(p2m', Rep(t)) = Num(p2m, Rep(t)) + Num(p2mHold, Rep(t))
        BY <3>3, <4>1, Zenon
      <4>4. QED
        BY <2>n, <4>2, <4>3
    <3>4. QED
      BY <2>2, <3>1, <3>2, <3>3
  <2>6. /\ Undecided(t)' = Num(evq, Dev(t)) + Num(m2p', Dev(t)) + Cardinality(Due(t))
        /\ Decided(t)' = Num(p2mHold', Rep(t)) + Num(p2m', Rep(t)) + Num(m2dev, Rep(t))
                           + Answers(t)
    BY <1>2, <2>1 DEF Undecided, Decided, Answers, Due
  <2>7. QED
    BY <2>n, <2>4, <2>5, <2>6 DEF Undecided, Decided
<1>7. CASE P!EofMaster \/ P!EofSession \/ P!ShutSession \/ P!Exit \/ P!Sigterm
  <2>1. UNCHANGED <<m2p, p2m, p2mHold, replyq>>
    BY <1>7 DEF P!EofMaster, P!EofSession, P!ShutSession, P!Exit, P!Sigterm, P!pipes, P!own
  <2>2. QED
    BY <1>2, <2>1, OwnerMoves DEF Undecided, Decided, Due, Answers
<1>8. QED
  BY <1>3, <1>4, <1>5, <1>6, <1>7 DEF Policy, PolicyTerm, Timer, P!Handle

LEMMA OwnerStep == TypeOK /\ TypeOK' /\ ShutOK /\ OwnerOK /\ [Next]_vars => OwnerOK'
<1> SUFFICES ASSUME TypeOK, TypeOK', ShutOK, OwnerOK, [Next]_vars PROVE OwnerOK'
  OBVIOUS
<1>1. CASE Session \/ Client \/ SessionTerm \/ Upgrade \/ UNCHANGED vars
  <2>1. UNCHANGED <<kern, evq, m2p, replyq, p2mHold, p2m, m2dev, written>>
    BY <1>1 DEF Session, Client, SessionTerm, Upgrade, NotSession, NotUpgrade, master,
       policy, vars, pipes
  <2>2. QED
    BY <2>1, OwnerMoves DEF Undecided, Decided, Due, Answers
<1>2. CASE Master \/ Stop
  BY <1>2, OwnerMaster DEF Master, Stop
<1>3. CASE Kernel
  BY <1>3, OwnerKernel DEF Kernel, M!Environment
<1>4. QED
  BY <1>1, <1>2, <1>3, OwnerPolicy DEF Next

LEMMA OwnerInit == Init => OwnerOK
<1> SUFFICES ASSUME Init, NEW t \in Asking
             PROVE  Undecided(t) + Decided(t) = 0 /\ kern[t] = "idle"
  BY DEF OwnerOK
<1>1. evq = <<>> /\ m2p = <<>> /\ p2m = <<>> /\ p2mHold = <<>> /\ m2dev = <<>>
      /\ replyq = {} /\ written[t] = <<>> /\ kern[t] = "idle"
  BY DEF Init, M!Init, P!Init, Asking
<1>2. Cardinality(Due(t)) = 0
  BY <1>1, FS_EmptySet DEF Due
<1>3. Answers(t) = 0
  BY <1>1 DEF Answers
<1>4. /\ Num(evq, Dev(t)) = 0 /\ Num(m2p, Dev(t)) = 0 /\ Num(p2mHold, Rep(t)) = 0
      /\ Num(p2m, Rep(t)) = 0 /\ Num(m2dev, Rep(t)) = 0
  BY <1>1, NumEmpty, Zenon
<1>5. QED
  BY <1>1, <1>2, <1>3, <1>4 DEF Undecided, Decided

\* The invariant all further proofs start from.
Core == TypeOK /\ ShutOK /\ OwnerOK

LEMMA CoreInvariant == Safe => []Core
<1>1. Init => Core
  BY TypeInit, ShutInit, OwnerInit DEF Core
<1>2. Core /\ [Next]_vars => Core'
  BY TypeStep, ShutStep, OwnerStep DEF Core
<1>3. QED
  BY <1>1, <1>2, PTL DEF Safe

\* Whatever answers, timeouts, disconnects, upgrades and signals race, and for
\* any rules: the obligation to answer an event is never lost and never
\* duplicated on its way through the four processes.
THEOREM OneOwnerAlways == Safe => []OneOwner
<1>1. Core => OneOwner
  <2> SUFFICES ASSUME Core, NEW t \in Asking
               PROVE  Obligations(t) = IF kern[t] = "idle" THEN 0 ELSE 1
    BY DEF OneOwner
  <2>1. PartsOK /\ t \in Tokens
    BY Parts DEF Core, Asking
  <2>2. Undecided(t) + Decided(t) = IF kern[t] = "idle" THEN 0 ELSE 1
    BY DEF Core, OwnerOK
  <2>3. QED
    BY <2>1, <2>2 DEF PartsOK
<1>2. QED
  BY <1>1, CoreInvariant, PTL

-----------------------------------------------------------------------------
(* What is answered when the daemon stops                                   *)

\* Only replies about the upgrade lock are ever held back.
NoHold == LockTokens = {} => p2mHold = <<>>

LEMMA NoHoldStep == TypeOK /\ NoHold /\ [Next]_vars => NoHold'
<1> SUFFICES ASSUME TypeOK, NoHold, [Next]_vars, LockTokens = {} PROVE p2mHold' = <<>>
  BY DEF NoHold
<1>1. p2mHold = <<>>
  BY DEF NoHold
<1>2. CASE Master \/ Kernel \/ Stop \/ Session \/ Client \/ SessionTerm \/ Upgrade
           \/ UNCHANGED vars
  BY <1>1, <1>2 DEF Master, Kernel, Stop, Session, Client, SessionTerm, Upgrade, NotMaster,
     NotSession, NotUpgrade, policy, vars
<1>3. CASE P!RecvEvent
  BY <1>1, <1>3 DEF P!RecvEvent, P!Ask, P!Answer
<1>4. CASE P!RecvUpgrade
  <2>1. CASE Head(m2p).what = "CHUNK_REQ"
    BY <1>1, <1>4, <2>1 DEF P!RecvUpgrade
  <2>2. CASE Head(m2p).what = "END"
    BY <1>4, <2>2 DEF P!RecvUpgrade, P!ReleaseHold
  <2>3. QED
    BY <1>4, <2>1, <2>2, FromMasterType DEF P!RecvUpgrade
<1>5. CASE P!RecvExit \/ P!EofMaster \/ P!RecvReply \/ P!EofSession \/ P!ShutSession
           \/ P!Exit \/ P!Sigterm \/ \E w \in replyq : P!Expire(w)
  BY <1>1, <1>5 DEF P!RecvExit, P!EofMaster, P!RecvReply, P!EofSession, P!ShutSession,
     P!Exit, P!Sigterm, P!Expire, P!own
<1>6. QED
  BY <1>2, <1>3, <1>4, <1>5 DEF Next, Policy, PolicyTerm, Timer, P!Handle

\* The answers that are missing when the master leaves its event loop are the
\* replies that an unfinished upgrade holds back.
AnsweredOrHeld ==
    mexit => \A t \in Asking : kern[t] # "idle" =>
                Count(p2mHold, {"EVENTREPLY"}, t) + Len(written[t]) = 1

LEMMA AnsweredInCore == Core => AnsweredOrHeld
<1> SUFFICES ASSUME Core, mexit, NEW t \in Asking, kern[t] # "idle"
             PROVE  Count(p2mHold, {"EVENTREPLY"}, t) + Len(written[t]) = 1
  BY DEF AnsweredOrHeld
<1>1. TypeOK /\ t \in Tokens
  BY DEF Core, Asking
<1>2. evq = <<>> /\ m2p = <<>> /\ p2m = <<>> /\ m2dev = <<>> /\ replyq = {}
  BY DEF Core, ShutOK, MasterShut, PolicyShut
<1>3. /\ Num(evq, Dev(t)) = 0 /\ Num(m2p, Dev(t)) = 0
      /\ Num(p2m, Rep(t)) = 0 /\ Num(m2dev, Rep(t)) = 0
  BY <1>2, NumEmpty, Zenon
<1>4. Cardinality(Due(t)) = 0
  BY <1>2, FS_EmptySet DEF Due
<1>5. Undecided(t) + Decided(t) = 1
  BY DEF Core, OwnerOK
<1>6. Num(p2mHold, Rep(t)) \in Nat /\ Answers(t) \in Nat
  BY <1>1, Parts DEF PartsOK
<1>7. Num(p2mHold, Rep(t)) + Answers(t) = 1
  BY <1>3, <1>4, <1>5, <1>6 DEF Undecided, Decided
<1>8. p2mHold \in Seq(Replies \cup Orders)
  BY <1>1 DEF TypeOK, EngineOK
<1>9. Count(p2mHold, {"EVENTREPLY"}, t) = Num(p2mHold, Rep(t))
  BY <1>8, RepCount
<1>10. QED
  BY <1>7, <1>9 DEF Answers

\* SIGTERM at any moment: when the master has left its event loop, every event
\* the kernel had queued has its one answer, or its answer is one of those
\* that an upgrade still holds back in the policy engine.
THEOREM AnsweredOrHeldAlways == Safe => []AnsweredOrHeld
BY CoreInvariant, AnsweredInCore, PTL

\* Without events about the upgrade lock, every event has its answer.
THEOREM AllAnsweredAlways == Safe => [](LockTokens = {} => AllAnswered)
<1>1. Init => NoHold
  BY DEF Init, P!Init, NoHold
<1>2. Core /\ NoHold => (LockTokens = {} => AllAnswered)
  <2> SUFFICES ASSUME Core, NoHold, LockTokens = {}, mexit, NEW t \in Asking,
                      kern[t] # "idle"
               PROVE  Len(written[t]) = 1
    BY DEF AllAnswered
  <2>1. Count(p2mHold, {"EVENTREPLY"}, t) + Answers(t) = 1
    BY AnsweredInCore DEF AnsweredOrHeld, Answers
  <2>2. p2mHold = <<>>
    BY DEF NoHold
  <2>3. Count(<<>>, {"EVENTREPLY"}, t) = 0
    <3>1. {i \in DOMAIN <<>> : <<>>[i].type \in {"EVENTREPLY"} /\ <<>>[i].token = t} = {}
      OBVIOUS
    <3>2. QED
      BY <3>1, FS_EmptySet DEF Count
  <2>4. Answers(t) \in Nat
    BY Parts DEF PartsOK, Core, Asking
  <2>5. Count(p2mHold, {"EVENTREPLY"}, t) = 0
    BY <2>2, <2>3, Zenon
  <2>6. Answers(t) = 1
    BY <2>1, <2>4, <2>5
  <2>7. QED
    BY <2>6 DEF Answers
<1>3. Core => TypeOK
  BY DEF Core
<1>4. QED
  BY <1>1, <1>2, <1>3, NoHoldStep, CoreInvariant, PTL DEF Safe

-----------------------------------------------------------------------------
(* The upgrade protocol                                                     *)

Upg == Orders \cup Requests
Round == Num(p2m, Upg) + Num(m2u, Upg) + Num(u2m, Upg) + Num(m2p, Upg)

RoundParts ==
    /\ Num(p2m, Upg) \in Nat /\ Num(m2u, Upg) \in Nat /\ Num(u2m, Upg) \in Nat
    /\ Num(m2p, Upg) \in Nat /\ Round \in Nat /\ UpgradeTransit = Round

LEMMA RoundSplit == TypeOK => RoundParts
<1> SUFFICES ASSUME TypeOK PROVE RoundParts
  OBVIOUS
<1> DEFINE all == Replies \cup Orders \cup Requests \cup SumMsgs \cup EvMsgs
<1>1. p2m \in Seq(all) /\ m2u \in Seq(all) /\ u2m \in Seq(all) /\ m2p \in Seq(all)
  BY DEF TypeOK, PipesOK
<1>2. ASSUME NEW q \in Seq(all) PROVE Num(q, Upg) \in Nat /\ Transit(q) = Num(q, Upg)
  <2>1. Num(q, Upg) \in Nat
    BY WhereFinite
  <2>2. \A m \in all : m.type = "UPGRADE" <=> m \in Upg
    BY DEF Replies, Orders, Requests, SumMsgs, EvMsgs, Upg
  <2>3. \A i \in DOMAIN q : q[i] \in all
    OBVIOUS
  <2> HIDE DEF all
  <2>4. {i \in DOMAIN q : q[i].type = "UPGRADE"} = Where(q, Upg)
    BY <2>2, <2>3 DEF Where
  <2>5. QED
    BY <2>1, <2>4 DEF Transit, Num
<1> HIDE DEF all
<1>3. /\ Num(p2m, Upg) \in Nat /\ Transit(p2m) = Num(p2m, Upg)
      /\ Num(m2u, Upg) \in Nat /\ Transit(m2u) = Num(m2u, Upg)
      /\ Num(u2m, Upg) \in Nat /\ Transit(u2m) = Num(u2m, Upg)
      /\ Num(m2p, Upg) \in Nat /\ Transit(m2p) = Num(m2p, Upg)
  BY <1>1, <1>2
<1>4. QED
  BY <1>3 DEF RoundParts, Round, UpgradeTransit

\* OneUpgradeRound is inductive once it is known that there is a tree while
\* there are upgrade parents.
RoundOK ==
    /\ Round <= 1
    /\ Round = 1 => tree /\ parents = {}
    /\ mterm < 2 /\ tree /\ parents = {} => Round = 1
    /\ mterm < 2 /\ (p2mHold # <<>> \/ held # {}) => tree /\ parents = {}
    /\ parents # {} => tree

\* A message of the protocol moves on, or is lost because its receiver's pipe
\* is shut down.
LEMMA RoundMoves ==
    ASSUME TypeOK, TypeOK', RoundOK, UNCHANGED <<tree, parents, p2mHold, held>>,
           mterm' < 2 => mterm < 2, mterm' < 2 => Round' = Round, Round' <= Round
    PROVE  RoundOK'
<1>1. Round \in Nat /\ Round' \in Nat
  <2>1. RoundParts /\ RoundParts'
    BY RoundSplit, PTL
  <2>2. QED
    BY <2>1 DEF RoundParts
<1>2. mterm \in 0 .. 2 /\ mterm' \in 0 .. 2
  BY DEF TypeOK, MasterOK
<1>3. QED
  BY <1>1, <1>2 DEF RoundOK

\* Which messages belong to the protocol.
LEMMA UpgIs ==
    /\ \A m \in EvMsgs \cup Replies \cup SumMsgs : Is(m, Upg) = 0
    /\ \A m \in Upg : Is(m, Upg) = 1
BY DEF Is, Upg, EvMsgs, Replies, SumMsgs, Orders, Requests

LEMMA UpgSteps ==
    ASSUME TypeOK
    PROVE  /\ m2p # <<>> => Num(m2p, Upg) = Num(Tail(m2p), Upg) + Is(Head(m2p), Upg)
           /\ \A m \in EvMsgs \cup Requests :
                 Num(m2p \o <<m>>, Upg) = Num(m2p, Upg) + Is(m, Upg)
           /\ p2m # <<>> => Num(p2m, Upg) = Num(Tail(p2m), Upg) + Is(Head(p2m), Upg)
           /\ \A m \in Replies \cup Orders :
                 Num(Append(p2m, m), Upg) = Num(p2m, Upg) + Is(m, Upg)
           /\ m2u # <<>> => Num(m2u, Upg) = Num(Tail(m2u), Upg) + Is(Head(m2u), Upg)
           /\ \A m \in Orders : Num(m2u \o <<m>>, Upg) = Num(m2u, Upg) + Is(m, Upg)
           /\ u2m # <<>> => Num(u2m, Upg) = Num(Tail(u2m), Upg) + Is(Head(u2m), Upg)
<1>1. /\ m2p \in Seq(EvMsgs \cup Requests) /\ p2m \in Seq(Replies \cup Orders)
      /\ m2u \in Seq(Orders) /\ u2m \in Seq(Requests \cup SumMsgs)
  BY DEF TypeOK, PipesOK
<1>2. ASSUME NEW msgs, NEW q \in Seq(msgs)
      PROVE  /\ q # <<>> => Num(q, Upg) = Num(Tail(q), Upg) + Is(Head(q), Upg)
             /\ \A m \in msgs : Num(Append(q, m), Upg) = Num(q, Upg) + Is(m, Upg)
             /\ \A m \in msgs : Num(q \o <<m>>, Upg) = Num(q, Upg) + Is(m, Upg)
  <2>1. \A m \in msgs : q \o <<m>> = Append(q, m)
    OBVIOUS
  <2>2. /\ q # <<>> => Num(q, Upg) = Num(Tail(q), Upg) + Is(Head(q), Upg)
        /\ \A m \in msgs : Num(Append(q, m), Upg) = Num(q, Upg) + Is(m, Upg)
    BY NumTail, NumAppend DEF Is
  <2>3. QED
    BY <2>1, <2>2
<1>3. /\ m2p # <<>> => Num(m2p, Upg) = Num(Tail(m2p), Upg) + Is(Head(m2p), Upg)
      /\ \A m \in EvMsgs \cup Requests :
            Num(m2p \o <<m>>, Upg) = Num(m2p, Upg) + Is(m, Upg)
  BY <1>1, <1>2
<1>4. /\ p2m # <<>> => Num(p2m, Upg) = Num(Tail(p2m), Upg) + Is(Head(p2m), Upg)
      /\ \A m \in Replies \cup Orders :
            Num(Append(p2m, m), Upg) = Num(p2m, Upg) + Is(m, Upg)
  BY <1>1, <1>2
<1>5. /\ m2u # <<>> => Num(m2u, Upg) = Num(Tail(m2u), Upg) + Is(Head(m2u), Upg)
      /\ \A m \in Orders : Num(m2u \o <<m>>, Upg) = Num(m2u, Upg) + Is(m, Upg)
  BY <1>1, <1>2
<1>6. u2m # <<>> => Num(u2m, Upg) = Num(Tail(u2m), Upg) + Is(Head(u2m), Upg)
  BY <1>1, <1>2
<1>7. QED
  BY <1>3, <1>4, <1>5, <1>6

LEMMA RoundMaster ==
    ASSUME TypeOK, TypeOK', ShutOK, RoundOK, Master \/ Kernel \/ Stop
    PROVE  RoundOK'
<1>1. RoundParts /\ RoundParts'
  BY RoundSplit, PTL
<1>2. UNCHANGED <<tree, parents, p2mHold, held>>
  BY DEF Master, Kernel, Stop, NotMaster, policy
<1>n. /\ Num(p2m, Upg) \in Nat /\ Num(m2u, Upg) \in Nat /\ Num(u2m, Upg) \in Nat
      /\ Num(m2p, Upg) \in Nat /\ Num(p2m', Upg) \in Nat /\ Num(m2u', Upg) \in Nat
      /\ Num(u2m', Upg) \in Nat /\ Num(m2p', Upg) \in Nat /\ Round \in Nat /\ Round' \in Nat
  BY <1>1 DEF RoundParts
<1>r. Round' = Num(p2m', Upg) + Num(m2u', Upg) + Num(u2m', Upg) + Num(m2p', Upg)
  BY DEF Round
<1>m. mterm \in 0 .. 2
  BY DEF TypeOK, MasterOK
<1>3. CASE M!RecvKernel
  <2> DEFINE m == Head(evq)
  <2>1. RecvKernelDoes
    BY <1>3, RecvKernelEffect
  <2>2. m \in EvMsgs /\ UNCHANGED <<mterm, p2m, m2u, u2m>>
        /\ (m2p' = m2p \/ m2p' = m2p \o <<m>>)
    BY <2>1 DEF RecvKernelDoes
  <2> HIDE DEF m
  <2>3. Num(m2p \o <<m>>, Upg) = Num(m2p, Upg) + 0
    BY <2>2, UpgSteps, UpgIs
  <2>4. Num(m2p', Upg) = Num(m2p, Upg)
    <3>1. CASE m2p' = m2p
      BY <3>1
    <3>2. CASE m2p' = m2p \o <<m>>
      <4>1. Num(m2p', Upg) = Num(m2p, Upg) + 0
        BY <2>3, <3>2, Zenon
      <4>2. QED
        BY <1>n, <4>1
    <3>3. QED
      BY <2>2, <3>1, <3>2
  <2>5. Round' = Round
    BY <2>2, <2>4 DEF Round
  <2>6. QED
    BY <1>2, <1>n, <2>2, <2>5, RoundMoves
<1>4. CASE M!RecvPolicy
  <2> DEFINE m == Head(p2m)
  <2>1. RecvPolicyDoes
    BY <1>4, RecvPolicyEffect
  <2>2. p2m # <<>> /\ p2m' = Tail(p2m) /\ UNCHANGED <<mterm, m2p, u2m>>
    BY <2>1 DEF RecvPolicyDoes
  <2>3. Num(p2m, Upg) = Num(p2m', Upg) + Is(m, Upg)
    BY <2>2, UpgSteps
  <2>4. CASE m \in Replies /\ m2u' = m2u
    <3>1. Is(m, Upg) = 0
      BY <2>4, UpgIs
    <3>2. Num(p2m', Upg) = Num(p2m, Upg)
      BY <1>n, <2>3, <3>1
    <3>3. Round' = Round
      BY <2>2, <2>4, <3>2 DEF Round
    <3>4. QED
      BY <1>2, <1>n, <2>2, <3>3, RoundMoves
  <2>5. CASE m \in Orders /\ m2u' = IF "m2u" \notin closed THEN m2u \o <<m>> ELSE m2u
    <3>1. Is(m, Upg) = 1
      BY <2>5, UpgIs DEF Upg
    <3>2. Num(m2u \o <<m>>, Upg) = Num(m2u, Upg) + 1
      BY <2>5, <3>1, UpgSteps
    <3>3. CASE "m2u" \notin closed
      <4>1. Num(m2u', Upg) = Num(m2u, Upg) + 1
        BY <2>5, <3>2, <3>3
      <4>2. Num(m2p', Upg) = Num(m2p, Upg) /\ Num(u2m', Upg) = Num(u2m, Upg)
        BY <2>2
      <4>3. Round' = Round
        BY <1>n, <1>r, <2>3, <3>1, <4>1, <4>2 DEF Round
      <4>4. QED
        BY <1>2, <1>n, <2>2, <4>3, RoundMoves
    <3>4. CASE "m2u" \in closed
      <4>1. mterm = 2 /\ mterm' = 2
        BY <2>2, <3>4 DEF ShutOK, MasterShut
      <4>2. Num(m2p', Upg) = Num(m2p, Upg) /\ Num(u2m', Upg) = Num(u2m, Upg)
            /\ Num(m2u', Upg) = Num(m2u, Upg)
        BY <2>2, <2>5, <3>4
      <4>3. Round' <= Round
        BY <1>n, <1>r, <2>3, <3>1, <4>2 DEF Round
      <4>4. QED
        BY <1>2, <4>1, <4>3, RoundMoves
    <3>5. QED
      BY <3>3, <3>4
  <2>6. QED
    BY <2>1, <2>4, <2>5 DEF RecvPolicyDoes
<1>5. CASE M!RecvUpgrade
  <2> DEFINE m == Head(u2m)
  <2>1. RecvUpgradeDoes
    BY <1>5, RecvUpgradeEffect
  <2>2. u2m # <<>> /\ u2m' = Tail(u2m) /\ UNCHANGED <<mterm, p2m, m2u>>
    BY <2>1 DEF RecvUpgradeDoes
  <2>3. Num(u2m, Upg) = Num(u2m', Upg) + Is(m, Upg)
    BY <2>2, UpgSteps
  <2>4. CASE m \in SumMsgs /\ m2p' = m2p
    <3>1. Is(m, Upg) = 0
      BY <2>4, UpgIs
    <3>2. Num(u2m', Upg) = Num(u2m, Upg)
      BY <1>n, <2>3, <3>1
    <3>3. Round' = Round
      BY <2>2, <2>4, <3>2 DEF Round
    <3>4. QED
      BY <1>2, <1>n, <2>2, <3>3, RoundMoves
  <2>5. CASE m \in Requests /\ m2p' = IF "m2p" \notin closed THEN m2p \o <<m>> ELSE m2p
    <3>1. Is(m, Upg) = 1
      BY <2>5, UpgIs DEF Upg
    <3>2. Num(m2p \o <<m>>, Upg) = Num(m2p, Upg) + 1
      BY <2>5, <3>1, UpgSteps
    <3>3. CASE "m2p" \notin closed
      <4>1. Num(m2p', Upg) = Num(m2p, Upg) + 1
        BY <2>5, <3>2, <3>3
      <4>2. Num(p2m', Upg) = Num(p2m, Upg) /\ Num(m2u', Upg) = Num(m2u, Upg)
        BY <2>2
      <4>3. Round' = Round
        BY <1>n, <1>r, <2>3, <3>1, <4>1, <4>2 DEF Round
      <4>4. QED
        BY <1>2, <1>n, <2>2, <4>3, RoundMoves
    <3>4. CASE "m2p" \in closed
      <4>1. mterm = 2 /\ mterm' = 2
        BY <2>2, <3>4 DEF ShutOK, MasterShut
      <4>2. Num(m2p', Upg) = Num(m2p, Upg) /\ Num(p2m', Upg) = Num(p2m, Upg)
            /\ Num(m2u', Upg) = Num(m2u, Upg)
        BY <2>2, <2>5, <3>4
      <4>3. Round' <= Round
        BY <1>n, <1>r, <2>3, <3>1, <4>2 DEF Round
      <4>4. QED
        BY <1>2, <4>1, <4>3, RoundMoves
    <3>5. QED
      BY <3>3, <3>4
  <2>6. QED
    BY <2>1, <2>4, <2>5 DEF RecvUpgradeDoes
<1>6. CASE \/ M!EndOfEvents \/ M!WriteDev \/ M!Exit \/ M!Sigterm
           \/ (\E pipe \in {"m2p", "m2s", "m2u"} : M!Shut(pipe))
           \/ (\E t \in Tokens : M!Post(t) \/ M!ProcessExit(t))
  <2>1. UNCHANGED <<p2m, m2u, u2m, m2p>> /\ (mterm' < 2 => mterm < 2)
    BY <1>6 DEF M!EndOfEvents, M!WriteDev, M!Exit, M!Sigterm, M!Shut, M!Post,
       M!ProcessExit, M!own
  <2>2. Round' = Round
    BY <2>1 DEF Round
  <2>3. QED
    BY <1>2, <1>n, <2>1, <2>2, RoundMoves
<1>7. QED
  BY <1>3, <1>4, <1>5, <1>6 DEF Master, Kernel, Stop, M!Handle, M!Environment

LEMMA RoundUpgrade ==
    ASSUME TypeOK, TypeOK', RoundOK, Upgrade
    PROVE  RoundOK'
<1>1. RoundParts /\ RoundParts'
  BY RoundSplit, PTL
<1>2. UNCHANGED <<tree, parents, p2mHold, held, mterm, p2m, m2p>>
  BY DEF Upgrade, NotUpgrade, policy, master
<1>3. Round \in Nat /\ Round' \in Nat
  BY <1>1 DEF RoundParts
<1>4. CASE U!RecvMaster
  <2> DEFINE m == Head(m2u)
  <2>1. UpgradeDoes
    BY <1>4, UpgradeEffect
  <2>2. m2u # <<>> /\ m2u' = Tail(m2u) /\ m2u \in Seq(Orders)
    BY <2>1 DEF UpgradeDoes, TypeOK, PipesOK
  <2>3. Is(m, Upg) = 1
    <3>1. m \in Orders
      BY <2>2, SeqTypes
    <3>2. QED
      BY <3>1, UpgIs DEF Upg
  <2>4. Num(m2u, Upg) = Num(m2u', Upg) + 1
    BY <2>2, <2>3, UpgSteps
  <2>5. PICK sums \in Seq(SumMsgs), req \in Requests : u2m' = (u2m \o sums) \o <<req>>
    BY <2>1 DEF UpgradeDoes
  <2>6. /\ u2m \in Seq(Requests \cup SumMsgs) /\ sums \in Seq(Requests \cup SumMsgs)
        /\ <<req>> \in Seq(Requests \cup SumMsgs)
        /\ u2m \o sums \in Seq(Requests \cup SumMsgs)
    BY DEF TypeOK, PipesOK
  <2>7. Num(sums, Upg) = 0
    <3>1. \A m1 \in SumMsgs : m1 \notin Upg
      BY DEF SumMsgs, Upg, Orders, Requests
    <3>2. Where(sums, Upg) = {}
      BY <3>1 DEF Where
    <3>3. QED
      BY <3>2, FS_EmptySet DEF Num
  <2>8. Num(<<req>>, Upg) = 1
    BY NumOne DEF Upg
  <2>9. /\ Num(u2m \o sums, Upg) = Num(u2m, Upg) + Num(sums, Upg)
        /\ Num((u2m \o sums) \o <<req>>, Upg) = Num(u2m \o sums, Upg) + Num(<<req>>, Upg)
    BY <2>6, NumConcat
  <2>10. Num(u2m', Upg) = (Num(u2m, Upg) + 0) + 1
    BY <2>5, <2>7, <2>8, <2>9, Zenon
  <2>11. Round' = Round
    <3>1. /\ Num(p2m, Upg) \in Nat /\ Num(m2u, Upg) \in Nat /\ Num(u2m, Upg) \in Nat
          /\ Num(m2p, Upg) \in Nat /\ Num(m2u', Upg) \in Nat
      BY <1>1 DEF RoundParts
    <3>2. Round' = Num(p2m, Upg) + Num(m2u', Upg) + Num(u2m', Upg) + Num(m2p, Upg)
      BY <1>2 DEF Round
    <3>3. QED
      BY <2>4, <2>10, <3>1, <3>2 DEF Round
  <2>12. QED
    BY <1>2, <1>3, <2>11, RoundMoves
<1>5. CASE U!Exit
  <2>1. Round' = Round
    BY <1>2, <1>5 DEF U!Exit, Round
  <2>2. QED
    BY <1>2, <1>3, <2>1, RoundMoves
<1>6. QED
  BY <1>4, <1>5 DEF Upgrade, U!Next

LEMMA RoundPolicy ==
    ASSUME TypeOK, TypeOK', RoundOK, Policy \/ PolicyTerm \/ \E t \in Tokens : Timer(t)
    PROVE  RoundOK'
<1>1. RoundParts /\ RoundParts'
  BY RoundSplit, PTL
<1>2. UNCHANGED <<mterm, m2u, u2m>>
  BY DEF Policy, PolicyTerm, Timer, NotPolicy, master
<1>n. /\ Num(p2m, Upg) \in Nat /\ Num(m2u, Upg) \in Nat /\ Num(u2m, Upg) \in Nat
      /\ Num(m2p, Upg) \in Nat /\ Num(p2m', Upg) \in Nat /\ Num(m2p', Upg) \in Nat
      /\ Round \in Nat /\ Round' \in Nat
  BY <1>1 DEF RoundParts
<1>r. Round' = Num(p2m', Upg) + Num(m2u, Upg) + Num(u2m, Upg) + Num(m2p', Upg)
  BY <1>2 DEF Round
<1>m. mterm \in 0 .. 2
  BY DEF TypeOK, MasterOK
\* A reply is no message of the protocol.
<1>p. \A m \in Replies : Num(Append(p2m, m), Upg) = Num(p2m, Upg)
  <2> SUFFICES ASSUME NEW m \in Replies PROVE Num(Append(p2m, m), Upg) = Num(p2m, Upg)
    OBVIOUS
  <2>1. Num(Append(p2m, m), Upg) = Num(p2m, Upg) + Is(m, Upg) /\ Is(m, Upg) = 0
    BY UpgSteps, UpgIs
  <2>2. QED
    BY <1>n, <2>1
<1>q. (p2m' = p2m \/ \E m \in Replies : p2m' = Append(p2m, m))
      => Num(p2m', Upg) = Num(p2m, Upg)
  <2>1. ASSUME NEW m \in Replies, p2m' = Append(p2m, m) PROVE Num(p2m', Upg) = Num(p2m, Upg)
    <3>1. Num(Append(p2m, m), Upg) = Num(p2m, Upg)
      BY <1>p
    <3>2. QED
      BY <2>1, <3>1, Zenon
  <2>2. QED
    BY <2>1, Zenon
\* The message that is read from the master.
<1>h. m2p # <<>> => Num(m2p, Upg) = Num(Tail(m2p), Upg) + Is(Head(m2p), Upg)
  BY UpgSteps
<1>3. CASE P!RecvEvent
  <2> DEFINE e == Head(m2p).token
  <2>1. m2p # <<>> /\ m2p' = Tail(m2p) /\ Head(m2p) \in EvMsgs /\ e \in Tokens
    <3>1. m2p # <<>> /\ m2p' = Tail(m2p) /\ Head(m2p).type = "EVENTDEV"
      BY <1>3 DEF P!RecvEvent
    <3>2. QED
      BY <3>1, FromMasterType
  <2>2. Num(m2p', Upg) = Num(m2p, Upg)
    <3>1. Is(Head(m2p), Upg) = 0
      BY <2>1, UpgIs
    <3>2. Num(m2p, Upg) = Num(m2p', Upg) + 0
      BY <1>h, <2>1, <3>1
    <3>3. QED
      BY <1>n, <3>2
  <2>r. ASSUME NEW v \in Int, NEW f \in FlagSets PROVE EventReply(e, v, f) \in Replies
    BY <2>1 DEF EventReply, Replies
  <2> HIDE DEF e
  <2>3. P!Lock(e) \/ \E r \in PolicyReplies : P!Ask(e, r) \/ P!Answer(e, r)
    BY <1>3 DEF P!RecvEvent, e
  <2>4. CASE \E r \in PolicyReplies : P!Ask(e, r) \/ P!Answer(e, r)
    <3>1. PICK r \in PolicyReplies : P!Ask(e, r) \/ P!Answer(e, r)
      BY <2>4
    <3>2. r.verdict \in Int /\ r.flags \in FlagSets
      BY DaemonAssumption
    <3>3. UNCHANGED <<tree, parents, p2mHold, held>>
      BY <3>1 DEF P!Ask, P!Answer
    <3>4. p2m' = p2m \/ p2m' = Append(p2m, EventReply(e, r.verdict, r.flags))
      BY <3>1 DEF P!Ask, P!Answer, P!EventReply, EventReply
    <3>5. Num(p2m', Upg) = Num(p2m, Upg)
      <4>1. EventReply(e, r.verdict, r.flags) \in Replies
        BY <2>r, <3>2
      <4>2. QED
        BY <1>q, <3>4, <4>1, Zenon
    <3>6. Round' = Round
      BY <1>r, <2>2, <3>5 DEF Round
    <3>7. QED
      BY <1>2, <1>n, <3>3, <3>6, RoundMoves
  <2>5. CASE P!Lock(e)
    <3> DEFINE r == EventReply(e, 0, {})
    <3>1. r \in Replies
      BY <2>r, FlagTypes
    <3>2. p2m' = p2m \/ p2m' = Append(p2m, r)
      BY <2>5 DEF P!Lock, P!EventReply, EventReply
    <3> HIDE DEF r
    <3>3. Num(p2m', Upg) = Num(p2m, Upg)
      BY <1>q, <3>1, <3>2, Zenon
    <3>4. Round' = Round
      BY <1>r, <2>2, <3>3 DEF Round
    <3>5. tree' /\ (P!Busy => parents' = {}) /\ (~P!Busy => parents' # {})
      BY <2>5 DEF P!Lock, P!Busy
    <3>6. ~P!Busy => p2mHold' = p2mHold /\ held' = held
      BY <2>5 DEF P!Lock
    <3>7. P!Busy <=> tree /\ parents = {}
      BY DEF P!Busy
    <3>8. CASE P!Busy
      BY <1>2, <1>n, <3>4, <3>5, <3>7, <3>8 DEF RoundOK
    <3>9. CASE ~P!Busy
      BY <1>2, <1>n, <1>m, <3>4, <3>5, <3>6, <3>7, <3>9 DEF RoundOK
    <3>10. QED
      BY <3>8, <3>9
  <2>6. QED
    BY <2>3, <2>4, <2>5
<1>4. CASE P!RecvExit
  <2> DEFINE e == Head(m2p).token
  <2>1. m2p # <<>> /\ m2p' = Tail(m2p) /\ Head(m2p) \in EvMsgs
    <3>1. m2p # <<>> /\ m2p' = Tail(m2p) /\ Head(m2p).type = "PROCEXIT"
      BY <1>4 DEF P!RecvExit
    <3>2. QED
      BY <3>1, FromMasterType
  <2>2. Num(m2p', Upg) = Num(m2p, Upg)
    <3>1. Is(Head(m2p), Upg) = 0
      BY <2>1, UpgIs
    <3>2. Num(m2p, Upg) = Num(m2p', Upg) + 0
      BY <1>h, <2>1, <3>1
    <3>3. QED
      BY <1>n, <3>2
  <2>3. parents' = parents \ {e} /\ held' = held \ {e} /\ UNCHANGED <<tree, p2mHold>>
    BY <1>4 DEF P!RecvExit
  <2>4. CASE parents = {e}
    <3> DEFINE o == P!UpgradeMsg("START", 0)
    <3>1. o \in Orders
      BY DEF P!UpgradeMsg, Orders
    <3>2. p2m' = Append(p2m, o)
      BY <1>4, <2>4 DEF P!RecvExit
    <3> HIDE DEF o
    <3>3. Num(p2m', Upg) = Num(p2m, Upg) + 1
      <4>1. Is(o, Upg) = 1
        BY <3>1, UpgIs DEF Upg
      <4>2. QED
        BY <3>1, <3>2, <4>1, UpgSteps
    <3>4. Round' = Round + 1
      BY <1>n, <1>r, <2>2, <3>3 DEF Round
    <3>5. Round = 0 /\ tree
      <4>1. parents # {}
        BY <2>4, Zenon
      <4>2. Round <= 1 /\ Round # 1 /\ tree
        BY <4>1, Zenon DEF RoundOK
      <4>3. QED
        BY <1>n, <4>2
    <3>6. parents' = {} /\ Round' = 1 /\ tree'
      BY <2>3, <2>4, <3>4, <3>5
    <3>7. QED
      BY <3>6 DEF RoundOK
  <2>5. CASE parents # {e}
    <3>1. p2m' = p2m
      BY <1>4, <2>5 DEF P!RecvExit
    <3>2. Round' = Round
      BY <1>r, <2>2, <3>1 DEF Round
    <3>3. parents' = {} <=> parents = {}
      BY <2>3, <2>5
    <3>4. held' # {} => held # {}
      BY <2>3
    <3>5. QED
      BY <1>2, <1>m, <2>3, <3>2, <3>3, <3>4 DEF RoundOK
  <2>6. QED
    BY <2>4, <2>5
<1>5. CASE P!RecvUpgrade
  <2>1. m2p # <<>> /\ m2p' = Tail(m2p) /\ Head(m2p) \in Requests
        /\ Head(m2p).what \in {"CHUNK_REQ", "END"}
    <3>1. m2p # <<>> /\ m2p' = Tail(m2p) /\ Head(m2p).type = "UPGRADE"
      BY <1>5 DEF P!RecvUpgrade
    <3>2. QED
      BY <3>1, FromMasterType
  <2>2. Num(m2p, Upg) = Num(m2p', Upg) + 1
    <3>1. Is(Head(m2p), Upg) = 1
      BY <2>1, UpgIs DEF Upg
    <3>2. QED
      BY <1>h, <2>1, <3>1
  <2>3. Round = 1 /\ tree /\ parents = {}
    <3>1. Round >= 1
      BY <1>n, <2>2 DEF Round
    <3>2. QED
      BY <1>n, <3>1 DEF RoundOK
  <2>4. CASE Head(m2p).what = "CHUNK_REQ"
    <3> DEFINE n == IF (IF P!Busy THEN chunks ELSE 0) > 0 THEN 1 ELSE 0
               o == P!UpgradeMsg("CHUNK", n)
    <3>1. o \in Orders
      BY DEF P!UpgradeMsg, Orders
    <3>2. p2m' = Append(p2m, o) /\ UNCHANGED <<tree, parents, p2mHold, held>>
      BY <1>5, <2>4 DEF P!RecvUpgrade
    <3> HIDE DEF o
    <3>3. Num(p2m', Upg) = Num(p2m, Upg) + 1
      <4>1. Is(o, Upg) = 1
        BY <3>1, UpgIs DEF Upg
      <4>2. QED
        BY <3>1, <3>2, <4>1, UpgSteps
    <3>4. Round' = Round
      BY <1>n, <1>r, <2>2, <3>3 DEF Round
    <3>5. QED
      BY <1>2, <1>n, <3>2, <3>4, RoundMoves
  <2>5. CASE Head(m2p).what = "END"
    <3>1. /\ parents' = parents \cup held /\ tree' = (held # {}) /\ held' = {}
          /\ p2m' = p2m \o p2mHold /\ p2mHold' = <<>>
      BY <1>5, <2>5 DEF P!RecvUpgrade, P!ReleaseHold
    <3>2. Num(p2m', Upg) = Num(p2m, Upg)
      <4>1. /\ p2m \in Seq(Replies \cup Orders) /\ p2mHold \in Seq(Replies)
            /\ p2mHold \in Seq(Replies \cup Orders)
        BY DEF TypeOK, PipesOK, EngineOK
      <4>2. \A m \in Replies : m \notin Upg
        BY DEF Replies, Upg, Orders, Requests
      <4>3. Where(p2mHold, Upg) = {}
        BY <4>1, <4>2 DEF Where
      <4>4. Num(p2mHold, Upg) = 0
        BY <4>3, FS_EmptySet DEF Num
      <4>5. Num(p2m \o p2mHold, Upg) = Num(p2m, Upg) + Num(p2mHold, Upg)
        BY <4>1, NumConcat
      <4>6. Num(p2m', Upg) = Num(p2m, Upg) + 0
        BY <3>1, <4>4, <4>5, Zenon
      <4>7. QED
        BY <1>n, <4>6
    <3>3. Round' = 0
      BY <1>n, <1>r, <2>2, <2>3, <3>2 DEF Round
    <3>4. parents' = held /\ (tree' <=> held # {})
      BY <2>3, <3>1
    <3>5. QED
      BY <3>1, <3>3, <3>4 DEF RoundOK
  <2>6. QED
    BY <2>1, <2>4, <2>5
<1>6. CASE P!RecvReply
  <2>1. UNCHANGED <<tree, parents, p2mHold, held, m2p>>
    BY <1>6 DEF P!RecvReply
  <2>2. p2m' = p2m \/ \E r \in Replies : p2m' = Append(p2m, r)
    BY <1>6, RecvReplyEffect
  <2>3. Num(p2m', Upg) = Num(p2m, Upg)
    BY <1>q, <2>2, Zenon
  <2>4. Round' = Round
    BY <1>r, <2>1, <2>3 DEF Round
  <2>5. QED
    BY <1>2, <1>n, <2>1, <2>4, RoundMoves
<1>7. ASSUME NEW w \in replyq, P!Expire(w) PROVE RoundOK'
  <2>1. UNCHANGED <<tree, parents, p2mHold, held, m2p>>
    BY <1>7 DEF P!Expire
  <2>2. \E r \in Replies : p2m' = Append(p2m, r)
    BY <1>7, ExpireEffect
  <2>3. Num(p2m', Upg) = Num(p2m, Upg)
    BY <1>q, <2>2, Zenon
  <2>4. Round' = Round
    BY <1>r, <2>1, <2>3 DEF Round
  <2>5. QED
    BY <1>2, <1>n, <2>1, <2>4, RoundMoves
<1>8. CASE P!EofMaster \/ P!EofSession \/ P!ShutSession \/ P!Exit \/ P!Sigterm
  <2>1. UNCHANGED <<tree, parents, p2mHold, held, m2p, p2m>>
    BY <1>8 DEF P!EofMaster, P!EofSession, P!ShutSession, P!Exit, P!Sigterm, P!pipes, P!own
  <2>2. Round' = Round
    BY <1>r, <2>1 DEF Round
  <2>3. QED
    BY <1>2, <1>n, <2>1, <2>2, RoundMoves
<1>9. QED
  BY <1>3, <1>4, <1>5, <1>6, <1>7, <1>8 DEF Policy, PolicyTerm, Timer, P!Handle

LEMMA RoundStep == TypeOK /\ TypeOK' /\ ShutOK /\ RoundOK /\ [Next]_vars => RoundOK'
<1> SUFFICES ASSUME TypeOK, TypeOK', ShutOK, RoundOK, [Next]_vars PROVE RoundOK'
  OBVIOUS
<1>1. CASE Session \/ Client \/ SessionTerm \/ UNCHANGED vars
  <2>1. UNCHANGED <<tree, parents, p2mHold, held, mterm, p2m, m2u, u2m, m2p>>
    BY <1>1 DEF Session, Client, SessionTerm, NotSession, master, policy, vars, pipes
  <2>2. QED
    BY <2>1 DEF RoundOK, Round
<1>2. QED
  BY <1>1, RoundMaster, RoundPolicy, RoundUpgrade DEF Next

\* For any number of upgrades, of processes that hold the lock and of chunks,
\* and with SIGTERM at any time: at most one message of the upgrade protocol is
\* in transit, exactly while the checksums are updated and nobody is an upgrade
\* parent, and replies are held back only then.
THEOREM OneUpgradeRoundAlways == Safe => []OneUpgradeRound
<1>1. Init => RoundOK
  <2> SUFFICES ASSUME Init PROVE RoundOK
    OBVIOUS
  <2>1. p2m = <<>> /\ m2u = <<>> /\ u2m = <<>> /\ m2p = <<>>
        /\ parents = {} /\ held = {} /\ p2mHold = <<>> /\ ~tree
    BY DEF Init, P!Init
  <2>2. Num(p2m, Upg) = 0 /\ Num(m2u, Upg) = 0 /\ Num(u2m, Upg) = 0 /\ Num(m2p, Upg) = 0
    BY <2>1, NumEmpty, Zenon
  <2>3. Round = 0
    BY <2>2 DEF Round
  <2>4. QED
    BY <2>1, <2>3 DEF RoundOK
<1>2. Core => TypeOK /\ ShutOK
  BY DEF Core
<1>3. TypeOK /\ RoundOK => OneUpgradeRound
  BY RoundSplit DEF RoundOK, RoundParts, OneUpgradeRound
<1>4. QED
  BY <1>1, <1>2, <1>3, RoundStep, CoreInvariant, PTL DEF Safe
=============================================================================
