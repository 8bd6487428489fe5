------------------------------- MODULE Server -------------------------------
(***************************************************************************)
(* A client session's side of the wire protocol                            *)
(* (libanoubis/anoubisprotocol/server/anoubis_server.c), the table that    *)
(* matches requests with their answers (anoubis_policy.c), and what the    *)
(* session engine, the policy engine and the master do with requests:      *)
(* authentication, policy requests in several chunks, lists, checksums.    *)
(*                                                                         *)
(* Messages that are only refused (reply_invalid) change nothing and are   *)
(* left out.  GOTCLOSEREQ, SENTCLOSEREQ and SENTCLOSEACK are set by the    *)
(* same message; "CLOSING" stands for the three of them.                   *)
(***************************************************************************)
EXTENDS Integers, Sequences, FiniteSets

CONSTANTS
    Sessions,       \* slots for client sessions
    NoSession,      \* a free slot
    NoAuth,         \* server->auth = NULL
    Uids,           \* effective user ids of clients; -1 if unknown
    KeyMode,        \* what auth_mode and the certificates ask of each user:
                    \* "open", "key" (a signed challenge) or "refused"
    Targets,        \* users whose policy a request names
    Kinds,          \* requests clients make besides policies and logins
    MaxToken,       \* bound on comm->nexttoken
    MaxPipe         \* bound on what waits between the two engines when a
                    \* client sends a chunk

ROOT == 0
NOUID == -1

\* struct anoubis_auth_server and struct anoubis_server.
AuthRecs == [state: {"INIT", "INPROGRESS"}, type: {"NONE", "TRANSPORT", "KEY"},
             challenge: BOOLEAN, token: Nat]
SessionRecs ==
    [euid: Uids, flags: SUBSET {"VERSEL", "MULTIPLEX", "AUTH", "CLOSING", "ERROR"},
     proto: SUBSET {"POLICY", "NOTIFY"}, auth: AuthRecs \cup {NoAuth},
     uid: Uids \cup {NOUID}, open: BOOLEAN, by: Nat, attempt: Nat]

ASSUME ServerAssumption ==
    /\ NoAuth \notin AuthRecs /\ NoSession \notin SessionRecs
    /\ Uids \subseteq Int /\ Targets \subseteq Uids
    /\ KeyMode \in [Uids -> {"open", "key", "refused"}]
    /\ Kinds \subseteq {"LIST", "BADLIST", "CSUM"}
    /\ MaxToken \in Nat /\ MaxPipe \in Nat

VARIABLES
    sess,           \* the sessions and their struct anoubis_server: euid,
                    \* flags, proto, auth (state, type, challenge, token),
                    \* uid, open; by and attempt are history: the answer that
                    \* let the client in, and its latest attempt
    reqs,           \* policy_comm->req: token, sess, kind, end
    nexttoken,      \* policy_comm->nexttoken
    s2p, p2s, s2m, m2s,     \* requests and answers on the pipes
    preqs,          \* preqs of the policy engine: chunked requests it waits for
    asker,          \* history: who made the request of each token
    granted,        \* history: logins the master approved
    applied         \* history: policies the policy engine installed

pipes == <<s2p, p2s, s2m, m2s>>
engine == <<preqs, applied>>
table == <<reqs, nexttoken, asker>>
vars == <<sess, table, pipes, engine, granted>>

Init ==
    /\ sess = [s \in Sessions |-> NoSession]
    /\ reqs = {} /\ nexttoken = 0 /\ asker = [t \in 1..MaxToken |-> NOUID]
    /\ s2p = <<>> /\ p2s = <<>> /\ s2m = <<>> /\ m2s = <<>>
    /\ preqs = {} /\ applied = {} /\ granted = {}

-----------------------------------------------------------------------------
(* The request table                                                       *)

NeverBusy(s) == FALSE
RequestsOf(s) == {r \in reqs : r.sess = s}
\* anoubis_policy_comm_addrequest: one request per channel.
Busy(s) == RequestsOf(s) # {}

\* A new request for session s; its token is nexttoken'.
AddRequest(s, kind, end) ==
    /\ nexttoken < MaxToken /\ nexttoken' = nexttoken + 1
    /\ reqs' = reqs \cup {[token |-> nexttoken', sess |-> s, kind |-> kind,
                           end |-> end]}
    /\ asker' = [asker EXCEPT ![nexttoken'] = sess[s].euid]

\* The request anoubis_policy_comm_destroy finds: the list is newest first.
Gone(s) == {r \in RequestsOf(s) : \A q \in RequestsOf(s) : q.token <= r.token}
AbortNothing(rs) == <<>>
\* The abort of a request that has a dispatcher, that is of a policy request.
Aborts(rs) ==
    IF \E r \in rs : r.kind = "POLICY"
    THEN <<[type |-> "ABORT", token |-> (CHOOSE r \in rs : TRUE).token]>>
    ELSE <<>>

\* anoubis_policy_comm_destroy, called by channel_close.
CommDestroy(s) ==
    /\ reqs' = reqs \ Gone(s)
    /\ s2p' = s2p \o Aborts(Gone(s))
    /\ UNCHANGED <<nexttoken, asker>>

\* session_destroy
Destroy(s) ==
    /\ sess' = [sess EXCEPT ![s] = NoSession]
    /\ CommDestroy(s)
    /\ UNCHANGED <<p2s, s2m, m2s, engine, granted>>

-----------------------------------------------------------------------------
(* The connect protocol                                                    *)

\* anoubis_server_process listens; a new request is possible.
Open(s) == sess[s] # NoSession /\ sess[s].open
MayStart(s) == Open(s) /\ "CLOSING" \notin sess[s].flags
Connecting(s) == MayStart(s) /\ sess[s].proto = {}

SetFlag(s, f) == sess' = [sess EXCEPT ![s].flags = @ \cup {f}]
OnlySession == UNCHANGED <<table, pipes, engine, granted>>

\* session_connect
Connect(s, u) ==
    /\ sess[s] = NoSession
    /\ sess' = [sess EXCEPT ![s] =
          [euid |-> u, flags |-> {}, proto |-> {}, auth |-> NoAuth,
           uid |-> NOUID, open |-> TRUE, by |-> 0,
           attempt |-> 0]]
    /\ OnlySession

\* anoubis_process_versel and anoubis_process_optreq
VerSel(s) == Connecting(s) /\ "VERSEL" \notin sess[s].flags /\ SetFlag(s, "VERSEL")
             /\ OnlySession
OptReq(s) == Connecting(s) /\ "MULTIPLEX" \notin sess[s].flags
             /\ SetFlag(s, "MULTIPLEX") /\ OnlySession

\* anoubis_process_protosel
ProtoSel(s, p) ==
    /\ Connecting(s) /\ {"AUTH", "VERSEL"} \subseteq sess[s].flags
    /\ Cardinality(p) = 2 => "MULTIPLEX" \in sess[s].flags
    /\ sess' = [sess EXCEPT ![s].proto = p]
    /\ OnlySession

\* anoubis_process_closereq for CLOSEREQ; after a CLOSEACK the session ends.
CloseReq(s) ==
    /\ MayStart(s)
    /\ sess' = [sess EXCEPT ![s].flags = @ \cup {"CLOSING"},
                            ![s].proto = @ \cap {"NOTIFY"}]
    /\ OnlySession

\* CLOSEACK, end of file, or a message that cannot be processed.
Disconnect(s) == sess[s] # NoSession /\ Destroy(s)

-----------------------------------------------------------------------------
(* Authentication                                                          *)

\* anoubis_auth_finish_callback: the outcome is in srv; the object is gone.  If
\* the client cannot be told, the channel is closed.
Finish(s, srv, told) ==
    IF told
    THEN sess' = [sess EXCEPT ![s] = [srv EXCEPT !.auth = NoAuth]]
    ELSE sess' = [sess EXCEPT ![s] = [srv EXCEPT !.auth = NoAuth, !.open = FALSE,
                                          !.flags = @ \cup {"ERROR"}]]
\* The history fields: the answer that counted, and the one that was asked for.
Succeeded(srv, t) ==
    [srv EXCEPT !.flags = @ \cup {"AUTH"}, !.uid = srv.euid, !.by = t,
                !.attempt = srv.auth.token]

\* A failure that dispatch_authdata finds itself.
FailNow(s, told) ==
    /\ Finish(s, sess[s], told)
    /\ IF told THEN UNCHANGED <<table, s2p>> ELSE CommDestroy(s)
    /\ UNCHANGED <<p2s, s2m, m2s, engine, granted>>

\* anoubis_process_auth
Auth(s) ==
    /\ Connecting(s) /\ "AUTH" \notin sess[s].flags /\ sess[s].auth = NoAuth
    /\ sess' = [sess EXCEPT ![s].auth =
          [state |-> "INIT", type |-> "NONE", challenge |-> FALSE, token |-> 0]]
    /\ OnlySession

InAuth(s) == Connecting(s) /\ "AUTH" \notin sess[s].flags /\ sess[s].auth # NoAuth

\* dispatch_authdata: the request is refused.
AuthRefused(s, type) ==
    CASE type \in {"TRANSPORT", "KEY"} ->
            \/ sess[s].auth.state # "INIT"
            \/ sess[s].euid = NOUID
            \/ Busy(s)
      [] type = "REPLY" ->
            \/ sess[s].auth.type # "KEY"
            \/ sess[s].auth.state # "INPROGRESS"
            \/ ~sess[s].auth.challenge
            \/ Busy(s)
      [] OTHER -> TRUE

ToMaster(m) == s2m' = Append(s2m, m) /\ UNCHANGED <<s2p, p2s, m2s, engine, granted>>

\* dispatch_authdata with the start of an authentication.
AuthTransport(s, type) ==
    /\ InAuth(s) /\ ~AuthRefused(s, type)
    /\ AddRequest(s, "AUTH", TRUE)
    /\ sess' = [sess EXCEPT ![s].auth =
          [state |-> "INPROGRESS", type |-> type, challenge |-> FALSE,
           token |-> nexttoken']]
    /\ ToMaster([type |-> "AUTH", token |-> nexttoken', uid |-> sess[s].euid])

\* dispatch_authdata with a signed challenge.
AuthReply(s, good) ==
    /\ InAuth(s) /\ ~AuthRefused(s, "REPLY")
    /\ AddRequest(s, "VERIFY", TRUE)
    /\ sess' = [sess EXCEPT ![s].auth.challenge = FALSE,
                            ![s].auth.token = nexttoken']
    /\ ToMaster([type |-> "VERIFY", token |-> nexttoken', uid |-> sess[s].euid,
                 good |-> good])

AuthInvalid(s, type, told) == InAuth(s) /\ AuthRefused(s, type) /\ FailNow(s, told)

-----------------------------------------------------------------------------
(* Requests of the policy protocol                                         *)

\* dispatch_list_request, dispatch_checksum, dispatch_csmulti.  While another
\* request is open they are dropped.
Request(s, kind) ==
    /\ MayStart(s) /\ "POLICY" \in sess[s].proto /\ ~Busy(s)
    /\ AddRequest(s, kind, TRUE)
    /\ LET m == [type |-> kind, token |-> nexttoken', uid |-> sess[s].uid] IN
       IF kind = "CSUM"
       THEN s2m' = Append(s2m, m) /\ UNCHANGED s2p
       ELSE s2p' = Append(s2p, m) /\ UNCHANGED s2m
    /\ UNCHANGED <<sess, p2s, m2s, engine, granted>>

Chunk(s, t, start, end, op, target) ==
    [type |-> "POLREQUEST", token |-> t, uid |-> sess[s].uid, start |-> start,
     end |-> end, op |-> op, target |-> target]

\* anoubis_policy_comm_process and dispatch_policy: a chunk of a request.  A
\* second START, or a chunk after the END, ends the session, as does a START
\* that verify_polrequest refuses.
PolicyRequest(s, start, end, op, target) ==
    /\ Open(s) /\ (start => MayStart(s)) /\ "POLICY" \in sess[s].proto
    /\ Len(s2p) + Len(p2s) < MaxPipe
    /\ IF \/ Busy(s) /\ (start \/ \E r \in RequestsOf(s) : r.end)
          \/ start /\ op = "BAD"
       THEN Destroy(s)
       ELSE /\ IF Busy(s)
               THEN /\ \E r \in RequestsOf(s) :
                          s2p' = Append(s2p, Chunk(s, r.token, start, end, op, target))
                    /\ UNCHANGED table
               ELSE /\ AddRequest(s, "POLICY", end)
                    /\ s2p' = Append(s2p, Chunk(s, nexttoken', start, end, op, target))
            /\ UNCHANGED <<sess, p2s, s2m, m2s, engine, granted>>

-----------------------------------------------------------------------------
(* The policy engine                                                       *)

Answer(t, end) == [type |-> "ANSWER", token |-> t, end |-> end]
AnswersOpenEnd(t) == {<<Answer(t, FALSE)>>}
\* send_policy_data, pe_proc_send_pslist: parts, and an end.
Answers(t) == {<<Answer(t, TRUE)>>, <<Answer(t, FALSE), Answer(t, TRUE)>>}

MayGetOrSetAny(m) == TRUE
\* Everybody's own policies, and root.
MayGetOrSet(m) == m.uid \in {m.target, ROOT}

\* pe_dispatch_policy: chunk m of a SET that is accepted so far.  It may still
\* fail; with its END the policy is installed.
SetChunk(m, q) ==
    \/ /\ preqs' = preqs \ {q} /\ p2s' = Append(p2s, Answer(m.token, TRUE))
       /\ UNCHANGED applied
    \/ /\ ~m.end /\ preqs' = preqs \cup {q} /\ UNCHANGED <<applied, p2s>>
    \/ /\ m.end /\ preqs' = preqs \ {q} /\ p2s' = Append(p2s, Answer(m.token, TRUE))
       /\ applied' = applied \cup {[token |-> m.token, target |-> q.target]}

Refuse(m, found) ==
    /\ preqs' = preqs \ found /\ p2s' = Append(p2s, Answer(m.token, TRUE))
    /\ UNCHANGED applied

\* pe_dispatch_policy
DispatchPolicy(m) ==
    LET found == {q \in preqs : q.token = m.token}
        new == [token |-> m.token, uid |-> m.uid, target |-> m.target]
    IN  IF (found = {}) = ~m.start \/ \E q \in found : q.uid # m.uid
        THEN Refuse(m, found)
        ELSE IF found # {} THEN \E q \in found : SetChunk(m, q)
        ELSE IF ~MayGetOrSet(m) \/ (m.op = "GET" /\ ~m.end)
        THEN Refuse(m, found)
        ELSE IF m.op = "GET"
        THEN \E a \in Answers(m.token) : p2s' = p2s \o a /\ UNCHANGED engine
        ELSE SetChunk(m, new)

PolicyRecv ==
    /\ s2p # <<>>
    /\ LET m == Head(s2p) IN
       CASE m.type = "POLREQUEST" -> DispatchPolicy(m)
         [] m.type = "ABORT" ->
              /\ preqs' = {q \in preqs : q.token # m.token}
              /\ UNCHANGED <<applied, p2s>>
         [] m.type = "LIST" ->
              \E a \in Answers(m.token) : p2s' = p2s \o a /\ UNCHANGED engine
         [] m.type = "BADLIST" -> UNCHANGED <<engine, p2s>>
    /\ s2p' = Tail(s2p)
    /\ UNCHANGED <<sess, table, s2m, m2s, granted>>

-----------------------------------------------------------------------------
(* The master                                                              *)

\* dispatch_auth_request, dispatch_auth_verify and dispatch_checksumop.
MasterAnswer(m) ==
    CASE m.type = "AUTH" -> [type |-> "CHALLENGE", token |-> m.token,
                             what |-> KeyMode[m.uid], end |-> TRUE]
      [] m.type = "VERIFY" -> [type |-> "RESULT", token |-> m.token,
                               what |-> IF m.good THEN "open" ELSE "refused",
                               end |-> TRUE]
      [] OTHER -> Answer(m.token, TRUE)

MasterRecv ==
    /\ s2m # <<>>
    /\ LET m == Head(s2m) a == MasterAnswer(m) IN
       /\ m2s' = Append(m2s, a)
       /\ granted' = IF a.type # "ANSWER" /\ a.what = "open"
                     THEN granted \cup {[token |-> m.token, uid |-> m.uid,
                                         kind |-> m.type]}
                     ELSE granted
    /\ s2m' = Tail(s2m)
    /\ UNCHANGED <<sess, table, s2p, p2s, engine>>

-----------------------------------------------------------------------------
(* Answers reach the session engine                                        *)

\* The requests an answer with token t and its end flag remove from the table.
Answered(m) == {r \in reqs : r.token = m.token /\ m.end}

\* anoubis_policy_comm_answer
RecvAnswer(m) == reqs' = reqs \ Answered(m) /\ UNCHANGED <<sess, s2p>>

OutcomeIgnored(auth, m) ==
    CASE m.what = "refused" -> "failure"
      [] m.what = "open" -> "success"
      [] OTHER -> IF auth.type = "KEY" THEN "challenge" ELSE "nothing"
\* dispatch_auth_challenge and dispatch_auth_result: the outcome for auth.  (A
\* challenge for a client that did not ask for a key is a failure; the code
\* then goes on with the object it destroyed and sends the challenge as well.)
Outcome(auth, m) ==
    CASE m.what = "refused" -> "failure"
      [] m.what = "open" -> "success"
      [] OTHER -> IF auth.type = "KEY" THEN "challenge" ELSE "failure"

ExpectsAny(s, m) == sess[s] # NoSession /\ sess[s].auth # NoAuth
\* The answer fits what the session waits for; anything else is dropped.
Expects(s, m) ==
    /\ sess[s] # NoSession /\ sess[s].auth # NoAuth
    /\ sess[s].auth.state = "INPROGRESS"
    /\ m.type = "RESULT" => ~sess[s].auth.challenge

\* The callback of an authentication request, called by the answer.
AuthCallback(s, m, told) ==
    IF ~Expects(s, m) THEN UNCHANGED sess
    ELSE LET outcome == Outcome(sess[s].auth, m) IN
         CASE outcome = "challenge" -> sess' = [sess EXCEPT ![s].auth.challenge = TRUE]
           [] outcome = "failure" -> Finish(s, sess[s], told)
           [] outcome = "success" -> Finish(s, Succeeded(sess[s], m.token), told)
           [] OTHER -> UNCHANGED sess

\* If the client cannot be told, its channel has no other request to destroy.
RecvAuth(m, told) ==
    LET hit == Answered(m) IN
    IF hit = {} THEN UNCHANGED <<sess, reqs, s2p>>
    ELSE \E r \in hit :
            /\ AuthCallback(r.sess, m, told)
            /\ reqs' = reqs \ hit
            /\ UNCHANGED s2p

\* dispatch_p2s
FromPolicy ==
    /\ p2s # <<>> /\ RecvAnswer(Head(p2s)) /\ p2s' = Tail(p2s)
    /\ UNCHANGED <<nexttoken, asker, s2m, m2s, engine, granted>>

\* dispatch_m2s
FromMaster ==
    /\ m2s # <<>>
    /\ IF Head(m2s).type = "ANSWER" THEN RecvAnswer(Head(m2s))
       ELSE \E told \in BOOLEAN : RecvAuth(Head(m2s), told)
    /\ m2s' = Tail(m2s)
    /\ UNCHANGED <<nexttoken, asker, p2s, s2m, engine, granted>>

-----------------------------------------------------------------------------
Login(s) ==
    \/ Auth(s)
    \/ \E type \in {"TRANSPORT", "KEY"} : AuthTransport(s, type)
    \/ \E good \in BOOLEAN : AuthReply(s, good)
    \/ \E type \in {"TRANSPORT", "KEY", "REPLY", "OTHER"}, told \in BOOLEAN :
          AuthInvalid(s, type, told)
Client(s) ==
    \/ \E u \in Uids : Connect(s, u)
    \/ VerSel(s) \/ OptReq(s) \/ CloseReq(s) \/ Disconnect(s) \/ Login(s)
    \/ \E p \in SUBSET {"POLICY", "NOTIFY"} \ {{}} : ProtoSel(s, p)
    \/ \E kind \in Kinds : Request(s, kind)
    \/ \E end \in BOOLEAN :
          \/ \E op \in {"GET", "SET", "BAD"}, u \in Targets :
                PolicyRequest(s, TRUE, end, op, u)
          \/ PolicyRequest(s, FALSE, end, "NONE", NOUID)   \* all is payload
Next ==
    \/ \E s \in Sessions : Client(s)
    \/ PolicyRecv \/ MasterRecv \/ FromPolicy \/ FromMaster

\* The daemon's processes serve their pipes; clients do as they like.
Fairness == WF_vars(PolicyRecv) /\ WF_vars(MasterRecv)
            /\ WF_vars(FromPolicy) /\ WF_vars(FromMaster)
Safe == Init /\ [][Next]_vars
Spec == Safe /\ Fairness

-----------------------------------------------------------------------------
(* Properties                                                              *)

\* The callback data of a request points to a session with an open channel, and
\* no two requests share one: a late answer never meets a session that was
\* destroyed and perhaps replaced (anoubis_policy_comm_destroy).
RequestsBelong ==
    /\ \A r \in reqs : sess[r.sess] # NoSession /\ sess[r.sess].open
    /\ \A r, q \in reqs : r.sess = q.sess => r = q

\* The policy engine keeps temporary files only for a request some client can
\* finish, or whose abort is on the way (dispatch_policy, buf = NULL).
NoOrphanRequest ==
    \A q \in preqs :
        \/ \E r \in reqs : r.token = q.token
        \/ \E i \in DOMAIN s2p : s2p[i].type = "ABORT" /\ s2p[i].token = q.token

\* A session is authenticated as the user of its socket, by the master's answer
\* to the latest request of this very attempt; a user with a key only by a
\* verified signature.  Answers to abandoned attempts never count.
AuthSound ==
    \A s \in Sessions : sess[s] # NoSession /\ "AUTH" \in sess[s].flags =>
        /\ sess[s].uid = sess[s].euid
        /\ \E g \in granted :
              /\ g.token = sess[s].by /\ sess[s].by = sess[s].attempt /\ g.uid = sess[s].euid
              /\ KeyMode[g.uid] = "key" => g.kind = "VERIFY"

\* An authentication in progress waits for the client's signature or for an
\* answer that will come: it cannot hang.
AuthAlive ==
    \A s \in Sessions :
        sess[s] # NoSession /\ sess[s].auth # NoAuth /\ sess[s].auth.state = "INPROGRESS"
        => sess[s].auth.challenge # (\E r \in reqs : r.token = sess[s].auth.token)

\* A policy is installed only for a client that owns it, or for root, whichever
\* chunks, aborts and reconnects came in between.
PolicyAuthorised ==
    \A a \in applied : asker[a.token] \in {a.target, ROOT}

\* Chunk t has arrived that makes its request complete.
Complete(t) == \E i \in DOMAIN s2p : s2p[i].type = "POLREQUEST"
                                    /\ s2p[i].token = t /\ s2p[i].end

\* A request is answered and its channel free for the next one, unless the
\* policy engine waits for more chunks of it; a complete one always is.
RequestsAnswered ==
    \A t \in 1..MaxToken :
        /\ (\E r \in reqs : r.token = t /\ r.kind # "BADLIST")
           ~> (\A r \in reqs : r.token # t) \/ (\E q \in preqs : q.token = t)
        /\ Complete(t) ~> \A r \in reqs : r.token # t
=============================================================================
