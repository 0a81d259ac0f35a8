-------------------------- MODULE InterviewAttempt --------------------------
(***************************************************************************)
(* What an interview attempt promises its candidate, without requests,     *)
(* statements or locks: the service accepts selections, the attempt ends   *)
(* once, by hand or by the deadline, with one result made only of accepted *)
(* selections, and whoever is told a result is told that one.              *)
(***************************************************************************)
EXTENDS Naturals

CONSTANTS Clients, Questions, Options, ExpiresAt, MaxClock, Null

Outcomes == [answers : [Questions -> SUBSET Options],
             flags : [Questions -> BOOLEAN],
             at : 0 .. ExpiresAt, byExpiry : BOOLEAN]

VARIABLES
    clock,
    status,    \* "active", "expired" or "submitted"
    accepted,  \* the question-selection pairs a result may be made of
    result,    \* the result of the attempt, Null while it has none
    told       \* client -> the result it was told, or Null

vars == <<clock, status, accepted, result, told>>

Init ==
    /\ clock = 0 /\ status = "active" /\ accepted = {}
    /\ result = Null /\ told = [c \in Clients |-> Null]

Tick ==
    /\ clock < MaxClock /\ clock' = clock + 1
    /\ UNCHANGED <<status, accepted, result, told>>

\* A selection is accepted; it may displace earlier ones of its question.
Accept ==
    /\ \E q \in Questions, selection \in SUBSET Options :
          /\ accepted' \subseteq accepted \cup {<<q, selection>>}
          /\ accepted \ ({q} \X SUBSET Options) \subseteq accepted'
    /\ UNCHANGED <<clock, status, result, told>>

Expire ==
    /\ status = "active" /\ clock >= ExpiresAt
    /\ status' = "expired"
    /\ UNCHANGED <<clock, accepted, result, told>>

\* A result is honest when it holds accepted selections only and claims
\* neither a future time nor an expiry that has not happened.
Honest(res) ==
    /\ \A q \in Questions :
          res.answers[q] # {} => <<q, res.answers[q]>> \in accepted
    /\ res.at <= clock
    /\ res.byExpiry => clock >= ExpiresAt
    /\ ~res.byExpiry => res.at < ExpiresAt

\* The attempt ends; the client that ended it may or may not hear of it.
Close ==
    /\ status # "submitted"
    /\ result' \in Outcomes /\ Honest(result')
    /\ status' = "submitted"
    /\ \/ told' = told
       \/ \E c \in Clients : told' = [told EXCEPT ![c] = result']
    /\ UNCHANGED <<clock, accepted>>

Tell ==
    /\ status = "submitted"
    /\ \E c \in Clients : told' = [told EXCEPT ![c] = result]
    /\ UNCHANGED <<clock, status, accepted, result>>

Next == Tick \/ Accept \/ Expire \/ Close \/ Tell

Spec == Init /\ [][Next]_vars
=============================================================================
