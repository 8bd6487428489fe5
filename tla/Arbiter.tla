------------------------------- MODULE Arbiter ------------------------------
(***************************************************************************)
(* What the daemon promises the kernel, without processes, pipes, timers   *)
(* and notification groups: every event is answered at most once, with a   *)
(* reply of the rules, with what the user decided, or with a denial.  The  *)
(* process that caused an event may go away before or after its answer.    *)
(***************************************************************************)
EXTENDS Messages

CONSTANTS
    Tokens, NoteTokens,
    Rules,          \* per event: the replies the rules can give
    Verdicts        \* what a user can decide

DENY == 1           \* EPERM
NOBODY == 5         \* ANOUBIS_E_IO: all users who were asked went away

VARIABLES
    state,          \* of every event: "idle", "waiting", "done", "gone"
    opinion,        \* the decision of the user, as a sequence of at most one
    answer          \* the reply the kernel was given, likewise

vars == <<state, opinion, answer>>

Init ==
    /\ state = [t \in Tokens |-> "idle"]
    /\ opinion = [t \in Tokens |-> <<>>]
    /\ answer = [t \in Tokens |-> <<>>]

\* The kernel asks; it waits unless the event is a mere notification.
Raise(t) ==
    /\ state[t] = "idle"
    /\ state' = [state EXCEPT ![t] = IF t \in NoteTokens THEN "done" ELSE "waiting"]
    /\ UNCHANGED <<opinion, answer>>

\* The process behind the event goes away.
Leave(t) ==
    /\ state[t] \in {"waiting", "done"} /\ t \notin NoteTokens
    /\ state' = [state EXCEPT ![t] = "gone"]
    /\ UNCHANGED <<opinion, answer>>

\* The user decides; a request nobody decides on counts as denied.
Decide(t) ==
    /\ state[t] # "idle" /\ opinion[t] = <<>>
    /\ \E v \in Verdicts \cup {DENY, NOBODY} : opinion' = [opinion EXCEPT ![t] = <<v>>]
    /\ UNCHANGED <<state, answer>>

Flags(t) == {r.flags : r \in Rules[t]}
Replies(t) ==
    Rules[t] \cup [verdict: {DENY}, flags: {{}} \cup Flags(t)]
    \cup {WithFlags(opinion[t][i], f) : i \in DOMAIN opinion[t], f \in Flags(t)}

\* One answer per event, and it is one of the above.
Reply(t) ==
    /\ state[t] \in {"waiting", "gone"} /\ answer[t] = <<>>
    /\ \E r \in Replies(t) : answer' = [answer EXCEPT ![t] = <<r>>]
    /\ state' = [state EXCEPT ![t] = IF @ = "waiting" THEN "done" ELSE @]
    /\ UNCHANGED opinion

Next == \E t \in Tokens : Raise(t) \/ Leave(t) \/ Decide(t) \/ Reply(t)

Safe == Init /\ [][Next]_vars
\* Nobody waits for ever.
Spec == Safe /\ \A t \in Tokens : WF_vars(state[t] = "waiting" /\ Reply(t))
=============================================================================
