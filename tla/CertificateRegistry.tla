------------------------- MODULE CertificateRegistry -------------------------
(***************************************************************************)
(* What the certificate registry promises, without claims, requests, row   *)
(* locks, savepoints or emails: a token stands for one claim and is spent  *)
(* once; spending it makes the address's certificate or, if there is one,  *)
(* answers with that; certificates are never changed; a claimant is let in *)
(* to the certificate it was answered with, and the owner hears of a       *)
(* certificate from the request that made it.                              *)
(***************************************************************************)

CONSTANTS Clients, Claims, Emails, Names, Tokens, Null

Grounds == [claim : Claims, email : Emails, name : Names]

VARIABLES
    stands,     \* token -> the claim it stands for, Null before it is minted
    spent,      \* the tokens that have confirmed
    certs,      \* the certificates issued
    told,       \* client -> the certificate it was answered with, or Null
    access,     \* who was let in to which certificate: <<client, identity>>
    heard       \* the clients whose issuing was announced to the owner

vars == <<stands, spent, certs, told, access, heard>>

Init ==
    /\ stands = [t \in Tokens |-> Null] /\ told = [c \in Clients |-> Null]
    /\ spent = {} /\ certs = {} /\ access = {} /\ heard = {}

Mint(t) ==
    /\ stands[t] = Null
    /\ \E g \in Grounds : stands' = [stands EXCEPT ![t] = g]
    /\ UNCHANGED <<spent, certs, told, access, heard>>

Spend(c, t) ==
    /\ told[c] = Null /\ stands[t] # Null /\ t \notin spent
    /\ spent' = spent \cup {t}
    /\ UNCHANGED <<stands, access, heard>>

\* A certificate is issued on the token's own claim, to an address that has
\* none, and is known by the client that confirmed.
Issue(c, t) ==
    /\ Spend(c, t)
    /\ \A d \in certs : d.email # stands[t].email
    /\ LET new == [id |-> c, claim |-> stands[t].claim,
                   email |-> stands[t].email, name |-> stands[t].name]
       IN  certs' = certs \cup {new} /\ told' = [told EXCEPT ![c] = new]

Recover(c, t) ==
    /\ Spend(c, t)
    /\ \E d \in certs : d.email = stands[t].email /\ told' = [told EXCEPT ![c] = d]
    /\ UNCHANGED certs

LetIn(c) ==
    /\ told[c] # Null
    /\ access' = access \cup {<<c, told[c].id>>}
    /\ UNCHANGED <<stands, spent, certs, told, heard>>

Announce(c) ==
    /\ told[c] # Null /\ told[c].id = c
    /\ heard' = heard \cup {c}
    /\ UNCHANGED <<stands, spent, certs, told, access>>

Next ==
    \/ \E t \in Tokens : Mint(t) \/ \E c \in Clients : Issue(c, t) \/ Recover(c, t)
    \/ \E c \in Clients : LetIn(c) \/ Announce(c)

Spec == Init /\ [][Next]_vars
=============================================================================
