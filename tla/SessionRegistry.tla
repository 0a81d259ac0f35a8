--------------------------- MODULE SessionRegistry ---------------------------
(***************************************************************************)
(* What creating sessions promises its callers, without lookups, unique    *)
(* indexes, transactions, limits or restarts: a key is given a session     *)
(* once, for one body; whoever asks the same again may be let in to that   *)
(* session; no session is changed and no token withdrawn; and a caller is  *)
(* only ever told of a session that its own token opens.                   *)
(***************************************************************************)

CONSTANTS Clients, Keys, Bodies, Ids, Null

Asked == [key : Keys \cup {Null}, body : Bodies]

VARIABLES
    asked,      \* client -> what it asks for, Null before it does
    sessions,   \* identity -> the request it was created for, or Null
    valid,      \* the tokens that open a session: <<identity, client>>
    told        \* client -> the session it was answered with, or Null

vars == <<asked, sessions, valid, told>>

Init ==
    /\ asked = [c \in Clients |-> Null] /\ told = [c \in Clients |-> Null]
    /\ sessions = [i \in Ids |-> Null] /\ valid = {}

Ask(c) ==
    /\ asked[c] = Null
    /\ \E a \in Asked : asked' = [asked EXCEPT ![c] = a]
    /\ UNCHANGED <<sessions, valid, told>>

\* A client is given one token, for one session, in its life.
Empty(c) == asked[c] # Null /\ \A i \in Ids : <<i, c>> \notin valid

\* The session is made with its first token, and the key never had another.
Create(c, i) ==
    /\ Empty(c) /\ sessions[i] = Null
    /\ asked[c].key # Null =>
          \A j \in Ids : sessions[j] # Null => sessions[j].key # asked[c].key
    /\ sessions' = [sessions EXCEPT ![i] = asked[c]]
    /\ valid' = valid \cup {<<i, c>>}
    /\ UNCHANGED <<asked, told>>

\* A session is opened to another client for its key and its body only.
Admit(c, i) ==
    /\ Empty(c) /\ asked[c].key # Null /\ sessions[i] = asked[c]
    /\ valid' = valid \cup {<<i, c>>}
    /\ UNCHANGED <<asked, sessions, told>>

Answer(c, i) ==
    /\ <<i, c>> \in valid /\ told[c] = Null
    /\ told' = [told EXCEPT ![c] = i]
    /\ UNCHANGED <<asked, sessions, valid>>

Next ==
    \E c \in Clients :
        Ask(c) \/ \E i \in Ids : Create(c, i) \/ Admit(c, i) \/ Answer(c, i)

Spec == Init /\ [][Next]_vars
=============================================================================
