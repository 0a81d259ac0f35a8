----------------------- MODULE CertificateClaimsProofs -----------------------
(***************************************************************************)
(* Theorems about CertificateClaims, for any requests, calls, addresses,   *)
(* names, keys and tokens.                                                 *)
(***************************************************************************)
EXTENDS CertificateClaims, TLAPS

(* Types, with what a request holds at each place: a call once it has       *)
(* arrived, a claim to mail about, a token to confirm, a certificate.       *)

Mailing    == {"enqueue", "attempt", "requeue"}
Confirms   == {"lockToken"} \cup InTransaction
Resolved   == {"mintRetrieval", "enqueueOwner"}

TypeInv ==
    /\ TypeOK
    /\ \A r \in Reqs :
          /\ pc[r] # "idle" => call[r] \in CallRec
          /\ pc[r] \in Mailing => target[r] \in Reqs
          /\ pc[r] \in Confirms => token[r] \in Tokens
          /\ pc[r] \in InTransaction => tokens[token[r]] # Null
          /\ pc[r] \in Resolved => got[r] \in Cert
    /\ \A t \in Tokens : tokens[t] # Null => claims[tokens[t].claim] # Null
    /\ \A c \in verify : claims[c] # Null
    /\ \A r \in Reqs : pc[r] \in Mailing => claims[target[r]] # Null
    /\ \A r \in Reqs :
          pc[r] \in {"idle", "findKey", "findCert", "findPending", "insert"}
             => claims[r] = Null

LEMMA TypeInit == Init => TypeInv
  BY NullAssumption
     DEF Init, TypeInv, TypeOK, PCs, Replies, Mailing, Confirms, Resolved, InTransaction

LEMMA Minting ==
    ASSUME TypeInv, NEW c \in Reqs, MintFor(c)
    PROVE  /\ tokens' \in [Tokens -> Token \cup {Null}]
           /\ \A t \in Tokens : tokens[t] # Null => tokens'[t] = tokens[t]
           /\ \A t \in Tokens : tokens[t] = Null /\ tokens'[t] # Null
                 => tokens'[t].claim = c /\ ~tokens'[t].used
  BY DEF MintFor, TypeInv, TypeOK, Token

LEMMA OwnClaim ==
    ASSUME TypeInv, NEW r \in Reqs, pc[r] \in InTransaction
    PROVE  /\ token[r] \in Tokens /\ tokens[token[r]] \in Token
           /\ tokens[token[r]].claim \in Reqs
           /\ Own(r) \in Claim /\ Own(r) # Null /\ Written(r) \in Cert
<1>1. token[r] \in Tokens /\ tokens[token[r]] \in Token
    BY DEF TypeInv, TypeOK, Confirms
<1>2. tokens[token[r]].claim \in Reqs /\ Own(r) # Null
    BY <1>1, NullAssumption DEF TypeInv, Token, Own
<1>3. Own(r) \in Claim
    BY <1>2 DEF TypeInv, TypeOK, Own
<1>4. QED
    BY <1>1, <1>2, <1>3, NullAssumption DEF Written, Claim, Cert

LEMMA TypeStep == TypeInv /\ [Next]_vars => TypeInv'
<1> SUFFICES ASSUME TypeInv, [Next]_vars PROVE TypeInv'
    OBVIOUS
<1> USE NullAssumption
    DEF Goto, Respond, Reads, tableVars, inputVars, localVars, PCs, Replies,
        Mailing, Confirms, Resolved, InTransaction
<1>1. CASE UNCHANGED vars
    BY <1>1 DEF vars, TypeInv, TypeOK
<1>2. ASSUME NEW c \in verify, MintFor(c), UNCHANGED <<claims, certs, access, verify,
             notices, pc, reply, inputVars, localVars>>
      PROVE  TypeInv'
    <2>1. c \in Reqs /\ claims[c] # Null
        BY DEF TypeInv, TypeOK
    <2>2. QED
        BY <1>2, <2>1, Minting DEF TypeInv, TypeOK
<1>3. ASSUME NEW t \in Tokens, Expire(t) PROVE TypeInv'
    <2>1. tokens[t] \in Token
        BY <1>3 DEF Expire, TypeInv, TypeOK
    <2>2. /\ tokens'[t] \in Token /\ tokens'[t].claim = tokens[t].claim
          /\ tokens' \in [Tokens -> Token \cup {Null}]
          /\ \A u \in Tokens : u # t => tokens'[u] = tokens[u]
        BY <1>3, <2>1 DEF Expire, Token, TypeInv, TypeOK
    <2>3. \A u \in Tokens : /\ tokens'[u] # Null <=> tokens[u] # Null
                            /\ tokens[u] # Null => tokens'[u].claim = tokens[u].claim
        BY <1>3, <2>1, <2>2 DEF Expire
    <2>4. UNCHANGED <<claims, certs, access, verify, notices, pc, reply, inputVars,
                      localVars>>
        BY <1>3 DEF Expire
    <2>5. TypeOK'
        BY <2>2, <2>4 DEF TypeInv, TypeOK
    <2>6. QED
        BY <2>3, <2>4, <2>5 DEF TypeInv
<1>4. ASSUME NEW r \in Reqs, Arrive(r) PROVE TypeInv'
    <2>1. PICK c \in Calls, t \in Tokens :
              /\ call' = [call EXCEPT ![r] = c]
              /\ Goto(r, FirstStep(c.op))
              /\ IF c.op = "confirm"
                 THEN /\ token' = [token EXCEPT ![r] = t]
                      /\ fresh' = [fresh EXCEPT ![r] = tokens[t] = Null \/ tokens[t].live]
                 ELSE UNCHANGED <<token, fresh>>
        BY <1>4 DEF Arrive
    <2>2. c \in CallRec
        BY CallsAssumption
    <2>3. /\ FirstStep(c.op) \in {"findKey", "findClaim", "lockToken"}
          /\ FirstStep(c.op) = "lockToken" => c.op = "confirm"
        BY <2>2 DEF FirstStep, CallRec, Ops
    <2>4. /\ token' \in [Reqs -> Tokens \cup {Null}]
          /\ c.op = "confirm" => token'[r] \in Tokens
          /\ \A x \in Reqs : x # r => token'[x] = token[x]
        BY <2>1 DEF TypeInv, TypeOK
    <2>5. tokens[t] # Null => tokens[t].live \in BOOLEAN
        BY DEF TypeInv, TypeOK, Token
    <2>6. (tokens[t] = Null \/ tokens[t].live) \in BOOLEAN
        BY <2>5
    <2>7. fresh' \in [Reqs -> BOOLEAN]
        <3>1. fresh' = fresh \/ \E b \in BOOLEAN : fresh' = [fresh EXCEPT ![r] = b]
            BY <2>1, <2>6, Zenon
        <3>2. QED
            BY <3>1 DEF TypeInv, TypeOK
    <2>8. pc[r] = "idle" /\ UNCHANGED <<tableVars, localVars, reply>>
        BY <1>4, <2>1 DEF Arrive
    <2>9. TypeOK'
        BY <2>1, <2>3, <2>4, <2>7, <2>8 DEF TypeInv, TypeOK
    <2>10. QED
        BY <2>1, <2>2, <2>3, <2>4, <2>8, <2>9 DEF TypeInv, TypeOK
<1>5. ASSUME NEW r \in Reqs,
             FindKey(r) \/ Replay(r) \/ FindCert(r) \/ FindPending(r)
             \/ InsertViolates(r) \/ Reread(r) \/ Requeue(r) \/ RefuseToken(r)
             \/ Fail(r)
      PROVE  TypeInv'
    <2>1. /\ UNCHANGED <<tableVars, inputVars, target, got, alerted>>
          /\ recov' \in [Reqs -> BOOLEAN]
        BY <1>5 DEF FindKey, Replay, FindCert, FindPending, InsertViolates, Reread,
                    Requeue, RefuseToken, Fail, TypeInv, TypeOK
    <2>2. CASE FindKey(r) \/ FindCert(r) \/ FindPending(r)
        <3>1. /\ pc[r] \in {"findKey", "findCert", "findPending"}
              /\ \/ \E next \in {"findCert", "findPending", "insert"} : Goto(r, next)
                 \/ Respond(r, "pendingVerification")
            BY <2>2 DEF FindKey, FindCert, FindPending
        <3>2. QED
            BY <2>1, <3>1 DEF TypeInv, TypeOK
    <2>3. CASE InsertViolates(r)
        BY <2>1, <2>3 DEF InsertViolates, TypeInv, TypeOK
    <2>4. CASE Replay(r) \/ Reread(r) \/ RefuseToken(r) \/ Fail(r)
        <3>1. pc[r] # "idle" /\ \E kind \in Replies : Respond(r, kind)
            BY <2>4 DEF Replay, Reread, RefuseToken, Fail, InFlight
        <3>2. QED
            BY <2>1, <3>1 DEF TypeInv, TypeOK
    <2>5. CASE Requeue(r)
        BY <2>1, <2>5 DEF Requeue, TypeInv, TypeOK
    <2>6. QED
        BY <1>5, <2>2, <2>3, <2>4, <2>5
<1>6. ASSUME NEW r \in Reqs, InsertClaim(r) PROVE TypeInv'
    <2>1. call[r] \in CallRec /\ claims[r] = Null
        BY <1>6 DEF InsertClaim, TypeInv
    <2>2. [email |-> call[r].email, name |-> call[r].name, key |-> call[r].key,
           status |-> "pending"] \in Claim
        BY <2>1 DEF CallRec, Claim
    <2>3. QED
        BY <1>6, <2>1, <2>2 DEF InsertClaim, StoreClaim, TypeInv, TypeOK
<1>7. ASSUME NEW r \in Reqs, Enqueue(r) PROVE TypeInv'
    BY <1>7 DEF Enqueue, TypeInv, TypeOK
<1>8. ASSUME NEW r \in Reqs, FindClaim(r) PROVE TypeInv'
    BY <1>8 DEF FindClaim, PendingFor, TypeInv, TypeOK
<1>9. ASSUME NEW r \in Reqs, Attempt(r) PROVE TypeInv'
    <2>1. target[r] \in Reqs /\ claims[target[r]] # Null
        BY <1>9 DEF Attempt, TypeInv
    <2>2. /\ tokens' \in [Tokens -> Token \cup {Null}]
          /\ \A t \in Tokens : tokens[t] # Null => tokens'[t] = tokens[t]
          /\ \A t \in Tokens : tokens[t] = Null /\ tokens'[t] # Null
                 => tokens'[t].claim = target[r]
        BY <1>9, <2>1, Minting DEF Attempt, TypeInv, TypeOK
    <2>3. QED
        BY <1>9, <2>1, <2>2 DEF Attempt, TypeInv, TypeOK
<1>10. ASSUME NEW r \in Reqs, LockToken(r) PROVE TypeInv'
    BY <1>10 DEF LockToken, Usable, TypeInv, TypeOK
<1>11. ASSUME NEW r \in Reqs, LockClaim(r) \/ InsertCert(r) \/ InsertCertLoses(r)
      PROVE  TypeInv'
    BY <1>11 DEF LockClaim, InsertCert, InsertCertLoses, TypeInv, TypeOK
<1>12. ASSUME NEW r \in Reqs, CommitNew(r) \/ CommitOld(r) PROVE TypeInv'
    <2>1. pc[r] \in InTransaction
        BY <1>12 DEF CommitNew, CommitOld
    <2> DEFINE own == tokens[token[r]].claim
    <2>2. /\ token[r] \in Tokens /\ tokens[token[r]] \in Token
          /\ own \in Reqs /\ claims[own] \in Claim /\ claims[own] # Null
          /\ Written(r) \in Cert
        BY <2>1, OwnClaim DEF Own
    <2>3. /\ tokens' = [tokens EXCEPT ![token[r]].used = TRUE]
          /\ claims' = [claims EXCEPT ![own].status = "verified"]
          /\ Goto(r, "mintRetrieval")
          /\ UNCHANGED <<access, verify, notices, inputVars, recov, target, alerted>>
        BY <1>12 DEF CommitNew, CommitOld, Publish
    <2>4. \E c \in Cert : got' = [got EXCEPT ![r] = c]
        BY <1>12, <2>2 DEF CommitNew, CommitOld, CertFor, TypeInv, TypeOK
    <2>5. certs' \subseteq Cert
        BY <1>12, <2>2 DEF CommitNew, CommitOld, TypeInv, TypeOK
    <2>6. /\ tokens' \in [Tokens -> Token \cup {Null}]
          /\ \A t \in Tokens : tokens'[t] # Null <=> tokens[t] # Null
          /\ \A t \in Tokens : tokens[t] # Null => tokens'[t].claim = tokens[t].claim
        BY <2>2, <2>3 DEF TypeInv, TypeOK, Token
    <2>7. /\ claims' \in [Reqs -> Claim \cup {Null}]
          /\ \A c \in Reqs : claims'[c] # Null <=> claims[c] # Null
        BY <2>2, <2>3 DEF TypeInv, TypeOK, Claim
    <2>8. QED
        BY <2>1, <2>2, <2>3, <2>4, <2>5, <2>6, <2>7 DEF TypeInv, TypeOK
<1>13. ASSUME NEW r \in Reqs, MintRetrieval(r) \/ EnqueueOwner(r) PROVE TypeInv'
    <2>1. got[r].id \in Reqs
        BY <1>13 DEF MintRetrieval, EnqueueOwner, TypeInv, Cert
    <2>2. CASE MintRetrieval(r)
        BY <2>1, <2>2 DEF MintRetrieval, TypeInv, TypeOK
    <2>3. CASE EnqueueOwner(r)
        BY <2>1, <2>3 DEF EnqueueOwner, TypeInv, TypeOK
    <2>4. QED
        BY <1>13, <2>2, <2>3
<1>14. QED
    BY <1>1, <1>2, <1>3, <1>4, <1>5, <1>6, <1>7, <1>8, <1>9, <1>10, <1>11, <1>12, <1>13
       DEF Next, Step, Poll

-----------------------------------------------------------------------------
(* One certificate.  A confirm holds its token, still unused, alone; where  *)
(* it is about to publish a new certificate there is none for the address   *)
(* and no other confirm is about to publish one either.                     *)

Txn(r) ==
    /\ pc[r] \in InTransaction =>
          /\ ~tokens[token[r]].used
          /\ \A x \in Reqs \ {r} : pc[x] \in InTransaction => token[x] # token[r]
    /\ pc[r] = "commitNew" =>
          /\ CertFor(Own(r).email) = {}
          /\ \A x \in Reqs \ {r} : pc[x] = "commitNew" => Own(x).email # Own(r).email

\* What a confirm was told is stored, and its token spent; whoever alerts the
\* owner issued the certificate itself.
Told(r) ==
    /\ pc[r] = "idle" => got[r] = Null
    /\ got[r] # Null => /\ got[r] \in certs /\ token[r] \in Tokens
                        /\ tokens[token[r]] # Null /\ tokens[token[r]].used
    /\ pc[r] = "enqueueOwner" \/ alerted[r] => got[r] # Null /\ got[r].id = r

CertInv ==
    /\ OneCertificatePerEmail /\ SpentMeansCertified
    /\ \A r \in Reqs : Txn(r) /\ Told(r)

LEMMA CertInit == Init => CertInv
  BY NullAssumption
     DEF Init, CertInv, OneCertificatePerEmail, SpentMeansCertified, Txn, Told,
         InTransaction

\* Rows are only added: a new token unused, a new claim pending.
Grows ==
    /\ certs' = certs
    /\ \A t \in Tokens :
          IF tokens[t] # Null
          THEN /\ tokens'[t] # Null /\ tokens'[t].claim = tokens[t].claim
               /\ tokens'[t].used = tokens[t].used
          ELSE tokens'[t] = Null \/ ~tokens'[t].used
    /\ \A c \in Reqs :
          IF claims[c] # Null THEN claims'[c] = claims[c]
          ELSE claims'[c] = Null \/ claims'[c].status = "pending"

\* While rows are only added, a request that stays where it is keeps its part,
\* and one that moves outside the transaction disturbs no other.
LEMMA GrowFrame ==
    ASSUME TypeInv, TypeInv', CertInv, Grows,
           \A x \in Reqs :
              \/ /\ pc'[x] = pc[x] /\ token'[x] = token[x] /\ got'[x] = got[x]
                 /\ alerted'[x] = alerted[x]
              \/ pc'[x] \notin InTransaction /\ Told(x)'
    PROVE  CertInv'
<1> USE NullAssumption
<1>1. OneCertificatePerEmail'
    BY DEF CertInv, Grows, OneCertificatePerEmail
<1>2. SpentMeansCertified'
  <2>1. ASSUME NEW t \in Tokens, tokens'[t] # Null, tokens'[t].used
        PROVE  claims'[tokens'[t].claim].status = "verified"
      <3>1. tokens[t] # Null /\ tokens[t].used /\ tokens'[t].claim = tokens[t].claim
          BY <2>1 DEF Grows
      <3>2. claims[tokens[t].claim].status = "verified" /\ claims[tokens[t].claim] # Null
            /\ tokens[t].claim \in Reqs
          BY <3>1 DEF CertInv, SpentMeansCertified, TypeInv, TypeOK, Token
      <3>3. QED
          BY <3>1, <3>2 DEF Grows
  <2>2. ASSUME NEW c \in Reqs, claims'[c] # Null, claims'[c].status = "verified"
        PROVE  CertFor(claims[c].email)' # {}
      <3>1. claims[c] # Null /\ claims'[c] = claims[c]
          BY <2>2 DEF Grows
      <3>2. CertFor(claims[c].email) # {}
          BY <2>2, <3>1 DEF CertInv, SpentMeansCertified
      <3>3. QED
          BY <3>1, <3>2 DEF Grows, CertFor
  <2>3. QED
      BY <2>1, <2>2 DEF SpentMeansCertified
<1>3. ASSUME NEW x \in Reqs PROVE Told(x)'
    BY DEF CertInv, Told, Grows
<1>4. ASSUME NEW x \in Reqs, pc'[x] \in InTransaction
      PROVE  /\ pc'[x] = pc[x] /\ token'[x] = token[x] /\ token[x] \in Tokens
             /\ tokens[token[x]] # Null /\ tokens'[token[x]].used = tokens[token[x]].used
             /\ Own(x)' = Own(x)
    <2>1. pc'[x] = pc[x] /\ token'[x] = token[x]
        BY <1>4
    <2>2. /\ token[x] \in Tokens /\ tokens[token[x]] # Null
          /\ tokens[token[x]].claim \in Reqs /\ Own(x) # Null
        BY <1>4, <2>1, OwnClaim DEF TypeInv
    <2>3. QED
        BY <2>1, <2>2 DEF Grows, Own
<1>5. ASSUME NEW x \in Reqs PROVE Txn(x)'
    BY <1>4 DEF CertInv, Txn, Grows, CertFor, InTransaction
<1>6. QED
    BY <1>1, <1>2, <1>3, <1>5 DEF CertInv

\* A request's step moves that request only.
LEMMA OthersStay ==
    ASSUME TypeInv, NEW r \in Reqs, Arrive(r) \/ Step(r) \/ Fail(r)
    PROVE  \A x \in Reqs : x # r =>
              /\ pc'[x] = pc[x] /\ token'[x] = token[x] /\ got'[x] = got[x]
              /\ alerted'[x] = alerted[x]
<1> USE DEF TypeInv, TypeOK, Goto, Respond, Reads, inputVars, localVars
<1>1. CASE Arrive(r) \/ FindKey(r) \/ Replay(r) \/ FindCert(r) \/ FindPending(r)
    BY <1>1 DEF Arrive, FindKey, Replay, FindCert, FindPending
<1>2. CASE InsertClaim(r) \/ InsertViolates(r) \/ Reread(r) \/ Enqueue(r) \/ FindClaim(r)
           \/ Requeue(r) \/ Attempt(r) \/ Fail(r)
    BY <1>2 DEF InsertClaim, StoreClaim, InsertViolates, Reread, Enqueue, FindClaim,
                Requeue, Attempt, Fail
<1>3. CASE RefuseToken(r) \/ LockToken(r) \/ LockClaim(r) \/ InsertCert(r)
           \/ InsertCertLoses(r)
    BY <1>3 DEF RefuseToken, LockToken, LockClaim, InsertCert, InsertCertLoses
<1>4. CASE CommitNew(r) \/ CommitOld(r) \/ MintRetrieval(r) \/ EnqueueOwner(r)
    BY <1>4 DEF CommitNew, CommitOld, Publish, MintRetrieval, EnqueueOwner
<1>5. QED
    BY <1>1, <1>2, <1>3, <1>4 DEF Step

\* The commit publishes the token, the claim and the certificate together.
LEMMA PublishStep ==
    ASSUME TypeInv, TypeInv', CertInv, NEW r \in Reqs, CommitNew(r) \/ CommitOld(r)
    PROVE  CertInv'
<1> USE NullAssumption
<1> DEFINE tok == token[r]
           own == tokens[token[r]].claim
<1>1. /\ pc[r] \in {"commitNew", "commitOld"} /\ pc[r] \in InTransaction
      /\ tokens' = [tokens EXCEPT ![tok].used = TRUE]
      /\ claims' = [claims EXCEPT ![own].status = "verified"]
      /\ UNCHANGED <<token, alerted>> /\ pc'[r] = "mintRetrieval"
    BY DEF CommitNew, CommitOld, Publish, Goto, inputVars, InTransaction, TypeInv, TypeOK
<1>2. /\ tok \in Tokens /\ tokens[tok] \in Token /\ own \in Reqs
      /\ claims[own] \in Claim /\ claims[own] # Null /\ claims[own] = Own(r)
      /\ Written(r) \in Cert /\ tokens[tok] # Null
    BY <1>1, OwnClaim DEF Own, TypeInv
<1>3. /\ tokens'[tok].used = TRUE /\ tokens'[tok].claim = own /\ tokens'[tok] # Null
      /\ \A t \in Tokens : t # tok => tokens'[t] = tokens[t]
    <2>1. /\ tokens'[tok] = [tokens[tok] EXCEPT !.used = TRUE]
          /\ \A t \in Tokens : t # tok => tokens'[t] = tokens[t]
        BY <1>1, <1>2 DEF TypeInv, TypeOK
    <2>2. [tokens[tok] EXCEPT !.used = TRUE] \in Token
        BY <1>2 DEF Token
    <2>3. /\ tokens'[tok].used = TRUE /\ tokens'[tok].claim = own
        BY <1>2, <2>1 DEF Token
    <2>4. QED
        BY <2>1, <2>2, <2>3
<1>4. /\ claims'[own].status = "verified"
      /\ \A c \in Reqs : claims'[c].email = claims[c].email \/ claims[c] = Null
      /\ \A c \in Reqs : c # own => claims'[c] = claims[c]
    BY <1>1, <1>2 DEF TypeInv, TypeOK, Claim
<1>5. /\ \/ certs' = certs
         \/ certs' = certs \cup {Written(r)} /\ pc[r] = "commitNew"
      /\ \E c \in certs' : c.email = Own(r).email /\ got' = [got EXCEPT ![r] = c]
    <2>1. CASE CommitNew(r)
        <3>1. Written(r).email = Own(r).email
            BY DEF Written
        <3>2. QED
            BY <2>1, <3>1 DEF CommitNew
    <2>2. CASE CommitOld(r)
        BY <2>2 DEF CommitOld, CertFor
    <2>3. QED
        BY <2>1, <2>2
<1>6. certs \subseteq certs' /\ \A e \in Emails : CertFor(e) # {} => CertFor(e)' # {}
    BY <1>5 DEF CertFor
<1>7. OneCertificatePerEmail'
    <2>1. CASE certs' = certs
        BY <2>1 DEF CertInv, OneCertificatePerEmail
    <2>2. CASE certs' = certs \cup {Written(r)} /\ pc[r] = "commitNew"
        <3>1. CertFor(Own(r).email) = {}
            BY <2>2 DEF CertInv, Txn
        <3>2. \A c \in certs : c.email # Written(r).email
            BY <3>1 DEF CertFor, Written
        <3>3. QED
            BY <2>2, <3>2 DEF CertInv, OneCertificatePerEmail
    <2>3. QED
        BY <1>5, <2>1, <2>2
<1>8. SpentMeansCertified'
    <2>1. ASSUME NEW t \in Tokens, tokens'[t] # Null, tokens'[t].used
          PROVE  claims'[tokens'[t].claim].status = "verified"
        <3>1. CASE t = tok
            BY <3>1, <1>3, <1>4
        <3>2. CASE t # tok
            <4>1. tokens'[t] = tokens[t] /\ tokens[t].claim \in Reqs
                BY <3>2, <2>1, <1>3 DEF TypeInv, TypeOK, Token
            <4>2. claims[tokens[t].claim].status = "verified"
                BY <4>1, <2>1 DEF CertInv, SpentMeansCertified
            <4>3. QED
                BY <4>1, <4>2, <1>4
        <3>3. QED
            BY <3>1, <3>2
    <2>2. ASSUME NEW c \in Reqs, claims'[c] # Null, claims'[c].status = "verified"
          PROVE  CertFor(claims[c].email)' # {}
        <3>1. CASE c = own
            <4>1. claims'[c].email = Own(r).email
                BY <3>1, <1>2, <1>4
            <4>2. QED
                BY <4>1, <1>5 DEF CertFor
        <3>2. CASE c # own
            <4>1. claims'[c] = claims[c] /\ claims[c].email \in Emails
                BY <3>2, <2>2, <1>4 DEF TypeInv, TypeOK, Claim
            <4>2. CertFor(claims[c].email) # {}
                BY <4>1, <2>2 DEF CertInv, SpentMeansCertified
            <4>3. QED
                BY <4>1, <4>2, <1>5 DEF CertFor
        <3>3. QED
            BY <3>1, <3>2
    <2>3. QED
        BY <2>1, <2>2 DEF SpentMeansCertified
<1>9. ~tokens[tok].used /\ got[r] = Null /\ ~alerted[r]
    BY <1>1, <1>2 DEF CertInv, Txn, Told
<1>10. Txn(r)' /\ Told(r)'
    <2>1. got'[r] \in certs' /\ got'[r] # Null
        BY <1>5 DEF TypeInv, TypeOK
    <2>2. QED
        BY <1>1, <1>2, <1>3, <1>9, <2>1 DEF Txn, Told, InTransaction
<1>11. ASSUME NEW x \in Reqs, x # r PROVE Txn(x)' /\ Told(x)'
    <2>1. /\ pc'[x] = pc[x] /\ token'[x] = token[x] /\ got'[x] = got[x]
          /\ alerted'[x] = alerted[x]
        BY <1>11, OthersStay DEF Step
    <2>2. Told(x)'
        BY <1>3, <1>6, <2>1 DEF CertInv, Told
    <2>3. \A y \in Reqs : pc'[y] \in InTransaction =>
              /\ y # r /\ pc'[y] = pc[y] /\ token'[y] = token[y]
              /\ Own(y).email' = Own(y).email
        <3> SUFFICES ASSUME NEW y \in Reqs, pc'[y] \in InTransaction
                     PROVE  /\ y # r /\ pc'[y] = pc[y] /\ token'[y] = token[y]
                            /\ Own(y).email' = Own(y).email
            OBVIOUS
        <3>1. y # r
            BY <1>1 DEF InTransaction
        <3>2. pc'[y] = pc[y] /\ token'[y] = token[y]
            BY <3>1, OthersStay DEF Step
        <3>3. /\ token[y] \in Tokens /\ tokens[token[y]].claim \in Reqs
              /\ claims[tokens[token[y]].claim] # Null
            BY <3>2, OwnClaim DEF Own
        <3>4. tokens'[token[y]].claim = tokens[token[y]].claim
            BY <1>3, <3>3
        <3>5. QED
            BY <1>4, <3>1, <3>2, <3>3, <3>4 DEF Own
    <2>4. pc[x] \in InTransaction => ~tokens'[token'[x]].used
        <3> SUFFICES ASSUME pc[x] \in InTransaction PROVE ~tokens'[token'[x]].used
            OBVIOUS
        <3>1. token[x] # tok /\ ~tokens[token[x]].used /\ token[x] \in Tokens
            BY <1>1, <1>11 DEF CertInv, Txn, TypeInv, Confirms
        <3>2. QED
            BY <1>3, <2>1, <3>1
    <2>5. pc[x] = "commitNew" => CertFor(Own(x).email)' = {}
        <3> SUFFICES ASSUME pc[x] = "commitNew" PROVE CertFor(Own(x).email)' = {}
            OBVIOUS
        <3>1. CertFor(Own(x).email) = {} /\ Own(x).email' = Own(x).email
            BY <2>1, <2>3 DEF CertInv, Txn, InTransaction
        <3>2. pc[r] = "commitNew" => Written(r).email # Own(x).email
            BY <1>11 DEF CertInv, Txn, Written
        <3>3. QED
            BY <1>5, <3>1, <3>2 DEF CertFor
    <2>6. Txn(x)'
        BY <2>1, <2>3, <2>4, <2>5 DEF CertInv, Txn, InTransaction
    <2>7. QED
        BY <2>2, <2>6
<1>12. QED
    BY <1>7, <1>8, <1>10, <1>11 DEF CertInv

\* Steps inside the transaction before its commit: r keeps its token, alone.
LEMMA InsideStep ==
    ASSUME TypeInv, CertInv, NEW r \in Reqs,
           LockToken(r) \/ LockClaim(r) \/ InsertCert(r) \/ InsertCertLoses(r)
    PROVE  CertInv'
<1>1. /\ UNCHANGED <<claims, tokens, certs, token, got, alerted>>
      /\ pc'[r] \in {"lockClaim", "insertCert", "commitNew", "commitOld"}
      /\ pc[r] \in {"lockToken", "lockClaim", "insertCert"}
    BY DEF LockToken, LockClaim, InsertCert, InsertCertLoses, Goto, Reads, tableVars,
           inputVars, localVars, TypeInv, TypeOK
<1>2. \A x \in Reqs : x # r => pc'[x] = pc[x]
    BY OthersStay DEF Step
<1>3. /\ token[r] \in Tokens /\ ~tokens[token[r]].used
      /\ \A x \in Reqs \ {r} : pc[x] \in InTransaction => token[x] # token[r]
    <2>1. CASE LockToken(r)
        <3>1. token[r] \in Tokens /\ Usable(r) /\ ~TokenHeld(r)
            BY <2>1 DEF LockToken, TypeInv, Confirms
        <3>2. \A x \in Reqs : pc[x] \in InTransaction
                 => token[x] # Null /\ tokens[token[x]] # Null
            BY NullAssumption DEF TypeInv, Confirms
        <3>3. QED
            BY <3>1, <3>2 DEF Usable, TokenHeld, Confirming
    <2>2. CASE LockClaim(r) \/ InsertCert(r) \/ InsertCertLoses(r)
        BY <2>2 DEF LockClaim, InsertCert, InsertCertLoses, CertInv, Txn, InTransaction,
                    TypeInv, Confirms
    <2>3. QED
        BY <2>1, <2>2
<1>4. pc'[r] = "commitNew" => CertFor(Own(r).email) = {} /\ ~CertInFlight(r)
    BY <1>1 DEF LockToken, LockClaim, InsertCert, InsertCertLoses, Goto, TypeInv, TypeOK
<1>5. \A x \in Reqs : pc[x] = "commitNew" => Confirming(x, {"commitNew"})
    BY NullAssumption DEF Confirming, TypeInv, Confirms, InTransaction
<1>6. \A x \in Reqs : Own(x)' = Own(x) /\ CertFor(Own(x).email)' = CertFor(Own(x).email)
    BY <1>1 DEF Own, CertFor
<1>7. ASSUME NEW x \in Reqs PROVE Txn(x)'
    <2>1. pc'[x] \in InTransaction =>
              /\ ~tokens'[token'[x]].used
              /\ \A y \in Reqs \ {x} : pc'[y] \in InTransaction => token'[y] # token'[x]
        BY <1>1, <1>2, <1>3 DEF CertInv, Txn
    <2>2. pc'[x] = "commitNew" =>
              /\ CertFor(Own(x).email)' = {}
              /\ \A y \in Reqs \ {x} : pc'[y] = "commitNew" => Own(y).email' # Own(x).email'
        <3>1. CASE x = r
            BY <3>1, <1>1, <1>2, <1>4, <1>5, <1>6 DEF CertInFlight
        <3>2. CASE x # r
            BY <3>2, <1>1, <1>2, <1>4, <1>5, <1>6 DEF CertInFlight, CertInv, Txn
        <3>3. QED
            BY <3>1, <3>2
    <2>3. QED
        BY <2>1, <2>2 DEF Txn
<1>8. ASSUME NEW x \in Reqs PROVE Told(x)'
    BY <1>1, <1>2 DEF CertInv, Told
<1>9. OneCertificatePerEmail' /\ SpentMeansCertified'
    BY <1>1 DEF CertInv, OneCertificatePerEmail, SpentMeansCertified, CertFor
<1>10. QED
    BY <1>7, <1>8, <1>9 DEF CertInv

LEMMA CertStep == TypeInv /\ TypeInv' /\ CertInv /\ [Next]_vars => CertInv'
<1> SUFFICES ASSUME TypeInv, TypeInv', CertInv, [Next]_vars PROVE CertInv'
    OBVIOUS
<1> USE NullAssumption DEF tableVars, inputVars, localVars
<1>1. CASE UNCHANGED vars
    <2>1. Grows
        BY <1>1 DEF vars, Grows
    <2>2. QED
        BY <1>1, <2>1, GrowFrame DEF vars
<1>2. CASE Poll
    <2>1. PICK c \in verify : MintFor(c)
        BY <1>2 DEF Poll
    <2>2. c \in Reqs
        BY DEF TypeInv, TypeOK
    <2>3. Grows /\ UNCHANGED <<pc, token, got, alerted>>
        BY <1>2, <2>1, <2>2, Minting DEF Poll, Grows
    <2>4. QED
        BY <2>3, GrowFrame
<1>3. ASSUME NEW t \in Tokens, Expire(t) PROVE CertInv'
    <2>1. /\ tokens[t] \in Token /\ UNCHANGED <<pc, token, got, alerted, claims, certs>>
          /\ tokens' = [tokens EXCEPT ![t].live = FALSE]
        BY <1>3 DEF Expire, TypeInv, TypeOK
    <2>2. \A u \in Tokens : tokens[u] # Null =>
              /\ tokens'[u] # Null /\ tokens'[u].claim = tokens[u].claim
              /\ tokens'[u].used = tokens[u].used
        <3>1. tokens'[t] = [tokens[t] EXCEPT !.live = FALSE]
            BY <2>1 DEF TypeInv, TypeOK
        <3>2. /\ tokens'[t] \in Token /\ tokens'[t].claim = tokens[t].claim
              /\ tokens'[t].used = tokens[t].used
            BY <2>1, <3>1 DEF Token
        <3>3. \A u \in Tokens : u # t => tokens'[u] = tokens[u]
            BY <2>1 DEF TypeInv, TypeOK
        <3>4. QED
            BY <3>2, <3>3
    <2>3. \A u \in Tokens : tokens[u] = Null => tokens'[u] = Null
        BY <2>1 DEF TypeInv, TypeOK
    <2>4. Grows
        BY <2>1, <2>2, <2>3 DEF Grows
    <2>5. QED
        BY <2>1, <2>4, GrowFrame
<1>4. ASSUME NEW r \in Reqs, Arrive(r) PROVE CertInv'
    <2>1. got[r] = Null /\ ~alerted[r]
        BY <1>4 DEF Arrive, CertInv, Told
    <2>2. Grows /\ Told(r)' /\ pc'[r] \notin InTransaction
        BY <1>4, <2>1, CallsAssumption DEF Arrive, Goto, FirstStep, Grows, Told, TypeInv, TypeOK,
           InTransaction, CallRec, Ops
    <2>3. QED
        BY <1>4, <2>2, OthersStay, GrowFrame
<1>5. ASSUME NEW r \in Reqs,
             \/ FindKey(r) \/ Replay(r) \/ FindCert(r) \/ FindPending(r)
             \/ InsertViolates(r) \/ Reread(r) \/ Enqueue(r) \/ FindClaim(r)
             \/ Requeue(r) \/ RefuseToken(r) \/ Fail(r)
      PROVE  CertInv'
    <2>1. /\ UNCHANGED <<claims, tokens, certs, token, got, alerted>>
          /\ pc'[r] \notin InTransaction \cup {"idle", "enqueueOwner"}
        BY <1>5 DEF FindKey, Replay, FindCert, FindPending, InsertViolates, Reread,
           Enqueue, FindClaim, Requeue, RefuseToken, Fail, Goto, Respond, Reads,
           InTransaction, TypeInv, TypeOK
    <2>2. Grows
        BY <2>1 DEF Grows
    <2>3. Told(r)'
        BY <2>1 DEF CertInv, Told
    <2>4. QED
        BY <1>5, <2>1, <2>2, <2>3, OthersStay, GrowFrame DEF Step
<1>6. ASSUME NEW r \in Reqs, InsertClaim(r) PROVE CertInv'
    <2>1. /\ UNCHANGED <<tokens, certs, token, got, alerted>> /\ pc'[r] = "enqueue"
          /\ claims[r] = Null /\ claims'[r].status = "pending"
          /\ \A c \in Reqs : c # r => claims'[c] = claims[c]
        BY <1>6 DEF InsertClaim, StoreClaim, Goto, TypeInv, TypeOK
    <2>2. Grows
        BY <2>1 DEF Grows
    <2>3. Told(r)'
        BY <2>1 DEF CertInv, Told
    <2>4. QED
        BY <1>6, <2>1, <2>2, <2>3, OthersStay, GrowFrame DEF Step, InTransaction
<1>7. ASSUME NEW r \in Reqs, Attempt(r) PROVE CertInv'
    <2>1. /\ UNCHANGED <<claims, certs, token, got, alerted>> /\ pc'[r] = "done"
          /\ target[r] \in Reqs
        BY <1>7 DEF Attempt, Respond, TypeInv, TypeOK, Mailing
    <2>2. Grows
        <3>1. CASE MintFor(target[r])
            BY <2>1, <3>1, Minting DEF Grows
        <3>2. CASE tokens' = tokens
            BY <2>1, <3>2 DEF Grows
        <3>3. QED
            BY <1>7, <3>1, <3>2 DEF Attempt
    <2>3. Told(r)'
        BY <2>1, <2>2 DEF CertInv, Told, Grows
    <2>4. QED
        BY <1>7, <2>1, <2>2, <2>3, OthersStay, GrowFrame DEF Step, InTransaction
<1>8. ASSUME NEW r \in Reqs,
             LockToken(r) \/ LockClaim(r) \/ InsertCert(r) \/ InsertCertLoses(r)
      PROVE  CertInv'
    BY <1>8, InsideStep
<1>9. ASSUME NEW r \in Reqs, CommitNew(r) \/ CommitOld(r) PROVE CertInv'
    BY <1>9, PublishStep
<1>10. ASSUME NEW r \in Reqs, MintRetrieval(r) \/ EnqueueOwner(r) PROVE CertInv'
    <2>1. got[r] # Null /\ got[r] \in Cert
        BY <1>10 DEF MintRetrieval, EnqueueOwner, TypeInv, Resolved
    <2>2. /\ UNCHANGED <<claims, tokens, certs, token, got>>
          /\ pc'[r] \in {"enqueueOwner", "done"}
          /\ pc'[r] = "enqueueOwner" => got[r].id = r
          /\ alerted'[r] => alerted[r] \/ pc[r] = "enqueueOwner"
        BY <1>10 DEF MintRetrieval, EnqueueOwner, Goto, Respond, TypeInv, TypeOK
    <2>3. Grows
        BY <2>2 DEF Grows
    <2>4. Told(r)'
        BY <2>1, <2>2 DEF CertInv, Told
    <2>5. QED
        BY <1>10, <2>2, <2>3, <2>4, OthersStay, GrowFrame DEF Step, InTransaction
<1>11. QED
    BY <1>1, <1>2, <1>3, <1>4, <1>5, <1>6, <1>7, <1>8, <1>9, <1>10 DEF Next, Step

-----------------------------------------------------------------------------
(* One pending claim.  Only InsertClaim makes a claim pending, and the      *)
(* partial unique index lets it only where the address has none.            *)

LEMMA PendingStep ==
    TypeInv /\ OnePendingPerEmail /\ [Next]_vars => OnePendingPerEmail'
<1> SUFFICES ASSUME TypeInv, OnePendingPerEmail, [Next]_vars PROVE OnePendingPerEmail'
    OBVIOUS
<1> USE NullAssumption DEF tableVars, Reads
<1>1. CASE claims' = claims
    BY <1>1 DEF OnePendingPerEmail, PendingFor
<1>2. ASSUME NEW r \in Reqs, InsertClaim(r) PROVE OnePendingPerEmail'
    <2>1. /\ PendingFor(call[r].email) = {} /\ claims'[r].email = call[r].email
          /\ \A c \in Reqs : c # r => claims'[c] = claims[c]
        BY <1>2 DEF InsertClaim, StoreClaim, Duplicate, TypeInv, TypeOK
    <2>2. QED
        BY <2>1 DEF OnePendingPerEmail, PendingFor
<1>3. ASSUME NEW r \in Reqs, CommitNew(r) \/ CommitOld(r) PROVE OnePendingPerEmail'
    <2> DEFINE own == tokens[token[r]].claim
    <2>1. /\ own \in Reqs /\ claims[own] \in Claim
          /\ claims' = [claims EXCEPT ![own].status = "verified"]
        BY <1>3, OwnClaim DEF CommitNew, CommitOld, Publish, InTransaction, Own
    <2>2. /\ claims'[own].status = "verified"
          /\ \A c \in Reqs : c # own => claims'[c] = claims[c]
        BY <2>1 DEF TypeInv, TypeOK, Claim
    <2>3. QED
        BY <2>2 DEF OnePendingPerEmail, PendingFor
<1>4. CASE ~(\E r \in Reqs : InsertClaim(r) \/ CommitNew(r) \/ CommitOld(r))
    <2>1. claims' = claims
        BY <1>4 DEF vars, Next, Poll, Expire, Arrive, Step, Fail, FindKey, Replay,
           FindCert, FindPending, InsertViolates, Reread, Enqueue, FindClaim, Requeue,
           Attempt, RefuseToken, LockToken, LockClaim, InsertCert, InsertCertLoses,
           MintRetrieval, EnqueueOwner
    <2>2. QED
        BY <1>1, <2>1
<1>5. QED
    BY <1>2, <1>3, <1>4

LEMMA PendingInit == Init => OnePendingPerEmail
  BY NullAssumption DEF Init, OnePendingPerEmail, PendingFor

LEMMA ClaimsAlways == Spec => [](TypeInv /\ CertInv /\ OnePendingPerEmail)
<1>1. Init => TypeInv /\ CertInv /\ OnePendingPerEmail
    BY TypeInit, CertInit, PendingInit
<1>2. TypeInv /\ CertInv /\ OnePendingPerEmail /\ [Next]_vars
         => (TypeInv /\ CertInv /\ OnePendingPerEmail)'
    BY TypeStep, CertStep, PendingStep
<1>3. QED
    BY <1>1, <1>2, PTL DEF Spec

\* Every variable keeps its type: no request mails about, confirms or issues
\* what is not there.
THEOREM ClaimTypes == Spec => []TypeOK
<1>1. TypeInv => TypeOK
    BY DEF TypeInv
<1>2. QED
    BY <1>1, ClaimsAlways, PTL

\* One certificate per email, ever, whatever tokens of whatever claims of the
\* address are confirmed concurrently.
THEOREM EmailHasOneCertificate == Spec => []OneCertificatePerEmail
<1>1. CertInv => OneCertificatePerEmail
    BY DEF CertInv
<1>2. QED
    BY <1>1, ClaimsAlways, PTL

\* Racing submissions never leave two pending claims for one email.
THEOREM EmailHasOnePending == Spec => []OnePendingPerEmail
  BY ClaimsAlways, PTL

\* Every confirm that resolved was told the certificate that is stored.
THEOREM ToldIsStored == Spec => []ConfirmTellsStored
<1>1. CertInv => ConfirmTellsStored
    BY DEF CertInv, Told, ConfirmTellsStored
<1>2. QED
    BY <1>1, ClaimsAlways, PTL

\* A token is spent and a claim verified only together with a certificate.
THEOREM NothingSpentForNothing == Spec => []SpentMeansCertified
<1>1. CertInv => SpentMeansCertified
    BY DEF CertInv
<1>2. QED
    BY <1>1, ClaimsAlways, PTL

\* At most one confirm per email notifies the owner: whoever does issued the
\* certificate of the email, and there is one.
THEOREM OwnerHearsOnce == Spec => []OwnerAlertedOnce
<1>1. CertInv => OwnerAlertedOnce
    BY DEF CertInv, Told, OneCertificatePerEmail, OwnerAlertedOnce
<1>2. QED
    BY <1>1, ClaimsAlways, PTL

\* A token names one confirm: the one that spends it held it alone, and whoever
\* was answered with it before would have spent it.
LEMMA ConfirmsStep ==
    TypeInv /\ CertInv /\ TokenConfirmsOnce /\ [Next]_vars => TokenConfirmsOnce'
<1> SUFFICES ASSUME TypeInv, CertInv, TokenConfirmsOnce, [Next]_vars
             PROVE  TokenConfirmsOnce'
    OBVIOUS
<1>1. CASE UNCHANGED <<got, token>>
    BY <1>1 DEF TokenConfirmsOnce
<1>2. ASSUME NEW r \in Reqs, Arrive(r) PROVE TokenConfirmsOnce'
    <2>1. got[r] = Null /\ got' = got
        BY <1>2 DEF Arrive, localVars, CertInv, Told
    <2>2. QED
        BY <1>2, <2>1, OthersStay DEF TokenConfirmsOnce
<1>3. ASSUME NEW r \in Reqs, CommitNew(r) \/ CommitOld(r) PROVE TokenConfirmsOnce'
    <2>1. token' = token /\ ~tokens[token[r]].used
        BY <1>3 DEF CommitNew, CommitOld, Publish, inputVars, CertInv, Txn, InTransaction
    <2>2. \A x \in Reqs : x # r => got'[x] = got[x]
        BY <1>3, OthersStay DEF Step
    <2>3. \A x \in Reqs : got[x] # Null => token[x] # token[r]
        BY <2>1 DEF CertInv, Told
    <2>4. QED
        BY <2>1, <2>2, <2>3 DEF TokenConfirmsOnce
<1>4. CASE ~(\E r \in Reqs : Arrive(r) \/ CommitNew(r) \/ CommitOld(r))
    <2>1. UNCHANGED <<got, token>>
        BY <1>4 DEF vars, inputVars, localVars, Reads, Next, Poll, Expire, Step, Fail,
           FindKey, Replay, FindCert, FindPending, InsertClaim, StoreClaim,
           InsertViolates, Reread, Enqueue, FindClaim, Requeue, Attempt, RefuseToken,
           LockToken, LockClaim, InsertCert, InsertCertLoses, MintRetrieval, EnqueueOwner
    <2>2. QED
        BY <1>1, <2>1
<1>5. QED
    BY <1>2, <1>3, <1>4

\* A verification token confirms at most once.
THEOREM TokenSpentOnce == Spec => []TokenConfirmsOnce
<1>1. Init => TokenConfirmsOnce
    BY DEF Init, TokenConfirmsOnce
<1>2. TypeInv /\ CertInv /\ TokenConfirmsOnce /\ [Next]_vars => TokenConfirmsOnce'
    BY ConfirmsStep
<1>3. QED
    BY <1>1, <1>2, ClaimsAlways, PTL DEF Spec

-----------------------------------------------------------------------------
(* The refinement of CertificateRegistry.  Beyond CertInv it needs that a   *)
(* request is told nothing before its transaction commits.                  *)

Untold == \A r \in Reqs : got[r] # Null => pc[r] \in Resolved \cup {"done"}

LEMMA UntoldInit == Init => Untold
  BY DEF Init, Untold

LEMMA UntoldStep == TypeInv /\ CertInv /\ Untold /\ [Next]_vars => Untold'
<1> SUFFICES ASSUME TypeInv, CertInv, Untold, [Next]_vars PROVE Untold'
    OBVIOUS
<1> USE DEF Untold, Resolved
<1>1. CASE UNCHANGED <<got, pc>>
    BY <1>1
<1>2. ASSUME NEW r \in Reqs, CommitNew(r) \/ CommitOld(r) PROVE Untold'
    <2>1. pc'[r] = "mintRetrieval"
        BY <1>2 DEF CommitNew, CommitOld, Publish, Goto, TypeInv, TypeOK
    <2>2. QED
        BY <1>2, <2>1, OthersStay DEF Step
<1>3. ASSUME NEW r \in Reqs, Arrive(r) \/ Step(r) \/ Fail(r),
             ~CommitNew(r), ~CommitOld(r)
      PROVE  Untold'
    <2>1. got' = got
        BY <1>3 DEF Arrive, Fail, Step, FindKey, Replay, FindCert, FindPending,
           InsertClaim, StoreClaim, InsertViolates, Reread, Enqueue, FindClaim, Requeue,
           Attempt, RefuseToken, LockToken, LockClaim, InsertCert, InsertCertLoses,
           MintRetrieval, EnqueueOwner, localVars
    <2>2. got[r] # Null => pc'[r] \in Resolved \cup {"done"}
        <3> SUFFICES ASSUME got[r] # Null, pc[r] \in Resolved \cup {"done"}
                     PROVE  pc'[r] \in Resolved \cup {"done"}
            OBVIOUS
        <3>1. MintRetrieval(r) \/ EnqueueOwner(r) \/ Fail(r)
            BY <1>3 DEF Arrive, Fail, Step, FindKey, Replay, FindCert, FindPending,
               InsertClaim, InsertViolates, Reread, Enqueue, FindClaim, Requeue,
               Attempt, RefuseToken, LockToken, LockClaim, InsertCert, InsertCertLoses
        <3>2. QED
            BY <3>1 DEF MintRetrieval, EnqueueOwner, Fail, Goto, Respond, TypeInv, TypeOK
    <2>3. QED
        BY <1>3, <2>1, <2>2, OthersStay
<1>4. CASE UNCHANGED vars \/ Poll \/ \E t \in Tokens : Expire(t)
    BY <1>1, <1>4 DEF vars, Poll, Expire, localVars
<1>5. QED
    BY <1>2, <1>3, <1>4 DEF Next

\* What the tokens stand for, while claims are only added and tokens keep theirs.
LEMMA StandingKept ==
    ASSUME TypeInv,
           \A t \in Tokens : /\ tokens'[t] = Null <=> tokens[t] = Null
                             /\ tokens[t] # Null => tokens'[t].claim = tokens[t].claim,
           \A c \in Reqs : claims[c] # Null => /\ claims'[c].email = claims[c].email
                                               /\ claims'[c].name = claims[c].name
    PROVE  Standing' = Standing
<1>1. \A t \in Tokens : tokens[t] # Null =>
          tokens[t].claim \in Reqs /\ claims[tokens[t].claim] # Null
    BY DEF TypeInv, TypeOK, Token
<1>2. QED
    BY <1>1 DEF Standing

LEMMA SpentKept ==
    ASSUME \A t \in Tokens : /\ tokens'[t] = Null <=> tokens[t] = Null
                             /\ tokens[t] # Null => tokens'[t].used = tokens[t].used
    PROVE  Spent' = Spent
  BY DEF Spent

LEMMA RegistryInit == Init => Registry!Init
  BY DEF Init, Registry!Init, Standing, Spent, Alerting

LEMMA RegistryMints ==
    ASSUME TypeInv, NEW c \in Reqs, claims[c] # Null, MintFor(c),
           UNCHANGED <<claims, certs, access, got, alerted>>
    PROVE  Registry!Next
<1>1. PICK t \in Tokens :
          /\ tokens[t] = Null
          /\ tokens' = [tokens EXCEPT ![t] = [claim |-> c, used |-> FALSE, live |-> TRUE]]
    BY DEF MintFor
<1>2. claims[c] \in Claim
    BY DEF TypeInv, TypeOK
<1> DEFINE g == [claim |-> c, email |-> claims[c].email, name |-> claims[c].name]
<1>3. g \in Grounds /\ Grounds = Registry!Grounds
    BY <1>2 DEF Claim, Grounds, Registry!Grounds
<1>4. /\ tokens'[t] # Null /\ tokens'[t].claim = c /\ ~tokens'[t].used
      /\ \A u \in Tokens : u # t => tokens'[u] = tokens[u]
    <2>1. [claim |-> c, used |-> FALSE, live |-> TRUE] \in Token
        BY DEF Token
    <2>2. QED
        BY <1>1, <2>1, NullAssumption DEF TypeInv, TypeOK
<1>5. Standing[t] = Null /\ Standing' = [Standing EXCEPT ![t] = g]
    BY <1>1, <1>4 DEF Standing
<1>6. Spent' = Spent
    BY <1>1, <1>4 DEF Spent
<1>7. Alerting' = Alerting
    BY DEF Alerting
<1>8. Registry!Mint(t)
    BY <1>3, <1>5, <1>6, <1>7 DEF Registry!Mint
<1>9. QED
    BY <1>8 DEF Registry!Next

\* The commit of a confirm is the registry's one step.
LEMMA RegistryConfirms ==
    ASSUME TypeInv, CertInv, Untold, NEW r \in Reqs, CommitNew(r) \/ CommitOld(r)
    PROVE  Registry!Next
<1> DEFINE t == token[r]  own == tokens[t].claim
<1>1. pc[r] \in InTransaction
    BY DEF CommitNew, CommitOld, InTransaction
<1>2. /\ t \in Tokens /\ tokens[t] \in Token /\ tokens[t] # Null
      /\ own \in Reqs /\ claims[own] \in Claim /\ claims[own] # Null
    BY <1>1, OwnClaim, NullAssumption DEF Own
<1>3. /\ tokens' = [tokens EXCEPT ![t].used = TRUE]
      /\ claims' = [claims EXCEPT ![own].status = "verified"]
      /\ access' = access /\ alerted' = alerted
    BY DEF CommitNew, CommitOld, Publish
<1>4. /\ tokens'[t] # Null /\ tokens'[t].claim = own /\ tokens'[t].used
      /\ \A u \in Tokens : u # t => tokens'[u] = tokens[u]
    <2>1. tokens'[t] \in Token /\ tokens'[t].claim = own /\ tokens'[t].used
        BY <1>2, <1>3 DEF TypeInv, TypeOK, Token
    <2>2. QED
        BY <1>3, <2>1, NullAssumption DEF TypeInv, TypeOK
<1>5. /\ claims'[own].email = claims[own].email /\ claims'[own].name = claims[own].name
      /\ \A c \in Reqs : c # own => claims'[c] = claims[c]
    BY <1>2, <1>3 DEF TypeInv, TypeOK, Claim
<1>6. Standing' = Standing
    BY <1>2, <1>4, <1>5, StandingKept
<1>7. Standing[t] = [claim |-> own, email |-> claims[own].email, name |-> claims[own].name]
    BY <1>2 DEF Standing
<1>8. Standing[t] # Null
    <2>1. Standing[t] \in Grounds
        BY <1>2, <1>7 DEF Claim, Grounds
    <2>2. QED
        BY <2>1, NullAssumption
<1>9. t \notin Spent /\ Spent' = Spent \cup {t}
    BY <1>1, <1>2, <1>4 DEF Spent, CertInv, Txn
<1>10. got[r] = Null
    BY <1>1 DEF Untold, Resolved, InTransaction
<1>11. Alerting' = Alerting
    BY <1>3 DEF Alerting
<1>12. Registry!Spend(r, t)
    BY <1>3, <1>6, <1>8, <1>9, <1>10, <1>11 DEF Registry!Spend
<1>13. CASE CommitNew(r)
    <2>1. /\ certs' = certs \cup {Written(r)} /\ got' = [got EXCEPT ![r] = Written(r)]
          /\ CertFor(Own(r).email) = {}
        BY <1>13 DEF CommitNew, CertInv, Txn
    <2>2. Written(r) = [id |-> r, claim |-> Standing[t].claim, email |-> Standing[t].email,
                        name |-> Standing[t].name]
        BY <1>7 DEF Written, Own
    <2>3. \A d \in certs : d.email # Standing[t].email
        BY <1>7, <2>1 DEF CertFor, Own
    <2>4. Registry!Issue(r, t)
        BY <1>12, <2>1, <2>2, <2>3 DEF Registry!Issue
    <2>5. QED
        BY <1>2, <2>4 DEF Registry!Next
<1>14. CASE CommitOld(r)
    <2>1. certs' = certs /\ \E c \in CertFor(Own(r).email) : got' = [got EXCEPT ![r] = c]
        BY <1>14 DEF CommitOld
    <2>2. \E d \in certs : d.email = Standing[t].email /\ got' = [got EXCEPT ![r] = d]
        <3>1. Own(r).email = Standing[t].email
            BY <1>7 DEF Own
        <3>2. QED
            BY <2>1, <3>1 DEF CertFor
    <2> HIDE DEF t
    <2>3. Registry!Recover(r, t)
        BY <1>12, <2>1, <2>2 DEF Registry!Recover
    <2>4. QED
        BY <1>2, <2>3 DEF Registry!Next
<1>15. QED
    BY <1>13, <1>14

LEMMA RegistryStep ==
    TypeInv /\ CertInv /\ Untold /\ [Next]_vars => [Registry!Next]_(Registry!vars)
<1> SUFFICES ASSUME TypeInv, CertInv, Untold, [Next]_vars
             PROVE  [Registry!Next]_(Registry!vars)
    OBVIOUS
<1> USE DEF tableVars, localVars, inputVars
<1>1. ASSUME UNCHANGED <<tokens, claims, certs, access, got, alerted>>
      PROVE  UNCHANGED Registry!vars
    BY <1>1 DEF Registry!vars, Standing, Spent, Alerting
<1>2. CASE UNCHANGED vars
    BY <1>1, <1>2 DEF vars
<1>3. CASE Poll
    <2>1. PICK c \in verify : MintFor(c)
        BY <1>3 DEF Poll
    <2>2. c \in Reqs /\ claims[c] # Null
        BY DEF TypeInv, TypeOK
    <2>3. QED
        BY <1>3, <2>1, <2>2, RegistryMints DEF Poll
<1>4. ASSUME NEW t \in Tokens, Expire(t) PROVE UNCHANGED Registry!vars
    <2>1. /\ tokens[t] \in Token /\ UNCHANGED <<claims, certs, access, got, alerted>>
          /\ tokens' = [tokens EXCEPT ![t].live = FALSE] /\ tokens[t] # Null
        BY <1>4 DEF Expire, TypeInv, TypeOK
    <2>2. /\ tokens'[t] \in Token /\ tokens'[t].claim = tokens[t].claim
          /\ tokens'[t].used = tokens[t].used
          /\ \A u \in Tokens : u # t => tokens'[u] = tokens[u]
        BY <2>1 DEF TypeInv, TypeOK, Token
    <2>3. tokens'[t] # Null
        BY <2>2, NullAssumption
    <2>4. Standing' = Standing /\ Spent' = Spent
        BY <2>1, <2>2, <2>3, StandingKept, SpentKept
    <2>5. QED
        BY <2>1, <2>4 DEF Registry!vars, Alerting
<1>5. ASSUME NEW r \in Reqs, InsertClaim(r) PROVE UNCHANGED Registry!vars
    <2>1. /\ UNCHANGED <<tokens, certs, access, got, alerted>> /\ claims[r] = Null
          /\ \A c \in Reqs : c # r => claims'[c] = claims[c]
        BY <1>5 DEF InsertClaim, StoreClaim, TypeInv, TypeOK
    <2>2. Standing' = Standing
        BY <2>1, StandingKept
    <2>3. QED
        BY <2>1, <2>2 DEF Registry!vars, Spent, Alerting
<1>6. ASSUME NEW r \in Reqs, Attempt(r) PROVE Registry!Next \/ UNCHANGED Registry!vars
    <2>1. /\ target[r] \in Reqs /\ claims[target[r]] # Null
          /\ UNCHANGED <<claims, certs, access, got, alerted>>
        BY <1>6 DEF Attempt, TypeInv, Mailing
    <2>2. CASE MintFor(target[r])
        BY <2>1, <2>2, RegistryMints
    <2>3. CASE tokens' = tokens
        BY <1>1, <2>1, <2>3
    <2>4. QED
        BY <1>6, <2>2, <2>3 DEF Attempt
<1>7. ASSUME NEW r \in Reqs, CommitNew(r) \/ CommitOld(r) PROVE Registry!Next
    BY <1>7, RegistryConfirms
<1>8. ASSUME NEW r \in Reqs, MintRetrieval(r) PROVE Registry!Next
    <2>1. /\ UNCHANGED <<tokens, claims, certs, got, alerted>>
          /\ access' = access \cup {<<r, got[r].id>>}
          /\ got[r] # Null
        BY <1>8, NullAssumption DEF MintRetrieval, TypeInv, Resolved
    <2>2. Registry!LetIn(r)
        BY <2>1 DEF Registry!LetIn, Standing, Spent, Alerting
    <2>3. QED
        BY <2>2 DEF Registry!Next
<1>9. ASSUME NEW r \in Reqs, EnqueueOwner(r) PROVE Registry!Next
    <2>1. /\ UNCHANGED <<tokens, claims, certs, got, access>>
          /\ alerted' = [alerted EXCEPT ![r] = TRUE]
          /\ got[r] # Null /\ got[r].id = r
        BY <1>9 DEF EnqueueOwner, CertInv, Told
    <2>2. Alerting' = Alerting \cup {r}
        BY <2>1 DEF Alerting, TypeInv, TypeOK
    <2>3. Registry!Announce(r)
        BY <2>1, <2>2 DEF Registry!Announce, Standing, Spent
    <2>4. QED
        BY <2>3 DEF Registry!Next
<1>10. ASSUME NEW r \in Reqs, Arrive(r) \/ Step(r) \/ Fail(r),
              ~(\/ InsertClaim(r) \/ Attempt(r) \/ CommitNew(r) \/ CommitOld(r)
                \/ MintRetrieval(r) \/ EnqueueOwner(r))
      PROVE  UNCHANGED Registry!vars
    BY <1>1, <1>10 DEF Arrive, Fail, Step, FindKey, Replay, FindCert, FindPending,
       InsertViolates, Reread, Enqueue, FindClaim, Requeue, RefuseToken, LockToken,
       LockClaim, InsertCert, InsertCertLoses, Reads
<1>11. QED
    BY <1>2, <1>3, <1>4, <1>5, <1>6, <1>7, <1>8, <1>9, <1>10 DEF Next

\* Submissions, resends and confirms implement the registry: a token is spent
\* once, an address has one certificate, never changed, every confirm is answered
\* with it, and only the request that issued it announces it.
THEOREM ClaimsImplementRegistry == Spec => ImplementsRegistry
<1>1. Init => Untold /\ Registry!Init
    BY UntoldInit, RegistryInit
<1>2. TypeInv /\ CertInv /\ Untold /\ [Next]_vars
         => Untold' /\ [Registry!Next]_(Registry!vars)
    BY UntoldStep, RegistryStep
<1>3. QED
    BY <1>1, <1>2, ClaimsAlways, PTL DEF Spec, ImplementsRegistry, Registry!Spec

-----------------------------------------------------------------------------
(* Nobody waits in a circle.  A statement waits only for requests further   *)
(* on in the same transaction, and the commits wait for nobody.             *)

\* A request that does not wait finds what its statement needs: the loser of a
\* race finds the certificate it lost to.
Ready(r) ==
    /\ InFlight(r) /\ ~Waits(r)
    /\ pc[r] = "commitOld" => CertFor(Own(r).email) # {}

SomeoneReady == (\E r \in Reqs : InFlight(r)) => \E r \in Reqs : Ready(r)

LosersInv == \A r \in Reqs : pc[r] = "commitOld" => CertFor(Own(r).email) # {}

\* What a confirm's token stands for does not change under it: the registry's
\* steps only make tokens stand for something.
LEMMA OwnKept ==
    ASSUME TypeInv, TypeInv', CertInv, Untold, [Next]_vars, NEW x \in Reqs,
           pc[x] \in InTransaction, pc'[x] \in InTransaction
    PROVE  Own(x)'.email = Own(x).email
<1>1. token'[x] = token[x]
    <2>1. CASE UNCHANGED token
        BY <2>1
    <2>2. ASSUME NEW r \in Reqs, Arrive(r) PROVE token'[x] = token[x]
        BY <2>2, OthersStay DEF Arrive, InTransaction
    <2>3. CASE ~(\E r \in Reqs : Arrive(r))
        BY <2>1, <2>3 DEF vars, inputVars, Reads, Next, Poll, Expire, Fail, Step, FindKey,
           Replay, FindCert, FindPending, InsertClaim, StoreClaim, InsertViolates, Reread,
           Enqueue, FindClaim, Requeue, Attempt, RefuseToken, LockToken, LockClaim,
           InsertCert, InsertCertLoses, CommitNew, CommitOld, Publish, MintRetrieval,
           EnqueueOwner
    <2>4. QED
        BY <2>2, <2>3
<1>2. token[x] \in Tokens /\ tokens[token[x]] # Null /\ tokens'[token[x]] # Null
    BY <1>1 DEF TypeInv, Confirms
<1>3. /\ Standing[token[x]].email = Own(x).email
      /\ Standing'[token[x]].email = Own(x)'.email
    BY <1>1, <1>2 DEF Standing, Own
<1>4. Standing[token[x]] # Null
    <2>1. Own(x) \in Claim /\ tokens[token[x]].claim \in Reqs
        BY OwnClaim
    <2>2. Standing[token[x]] \in Grounds
        BY <1>2, <2>1 DEF Standing, Own, Claim, Grounds
    <2>3. QED
        BY <2>2, NullAssumption
<1>5. Standing'[token[x]] = Standing[token[x]]
    <2>1. [Registry!Next]_(Registry!vars)
        BY RegistryStep
    <2>2. \/ Standing' = Standing
          \/ \E t \in Tokens : Standing[t] = Null /\ \E g : Standing' = [Standing EXCEPT ![t] = g]
        BY <2>1 DEF Registry!vars, Registry!Next, Registry!Mint, Registry!Issue,
           Registry!Recover, Registry!Spend, Registry!LetIn, Registry!Announce
    <2>3. QED
        BY <1>2, <1>4, <2>2 DEF Standing
<1>6. QED
    BY <1>3, <1>5

LEMMA OnlyLosersRecover ==
    ASSUME TypeInv, [Next]_vars, NEW x \in Reqs, pc[x] # "commitOld", pc'[x] = "commitOld"
    PROVE  InsertCertLoses(x)
<1>1. PICK r \in Reqs : Arrive(r) \/ Step(r) \/ Fail(r)
    BY DEF vars, Next, Poll, Expire
<1>2. x = r
    BY <1>1, OthersStay
<1>3. CASE Arrive(r)
    <2>1. \E c \in Calls : pc'[r] = FirstStep(c.op)
        BY <1>3 DEF Arrive, Goto, TypeInv, TypeOK
    <2>2. QED
        BY <1>2, <2>1, CallsAssumption DEF FirstStep, CallRec, Ops
<1>4. CASE Step(r) \/ Fail(r)
    BY <1>2, <1>4 DEF Fail, Step, FindKey, Replay, FindCert, FindPending, InsertClaim,
       StoreClaim, InsertViolates, Reread, Enqueue, FindClaim, Requeue, Attempt, RefuseToken,
       LockToken, LockClaim, InsertCert, CommitNew, CommitOld, Publish, MintRetrieval,
       EnqueueOwner, Goto, Respond, TypeInv, TypeOK
<1>5. QED
    BY <1>1, <1>3, <1>4

LEMMA LosersStep == TypeInv /\ TypeInv' /\ CertInv /\ Untold /\ LosersInv /\ [Next]_vars => LosersInv'
<1> SUFFICES ASSUME TypeInv, TypeInv', CertInv, Untold, LosersInv, [Next]_vars, NEW x \in Reqs,
                    pc'[x] = "commitOld"
             PROVE  CertFor(Own(x).email)' # {}
    BY DEF LosersInv
<1>1. CASE pc[x] = "commitOld"
    <2>1. certs \subseteq certs'
        BY DEF vars, tableVars, Reads, Next, Poll, Expire, Arrive, Fail, Step, FindKey,
           Replay, FindCert, FindPending, InsertClaim, StoreClaim, InsertViolates, Reread,
           Enqueue, FindClaim, Requeue, Attempt, RefuseToken, LockToken, LockClaim,
           InsertCert, InsertCertLoses, CommitNew, CommitOld, MintRetrieval, EnqueueOwner
    <2>2. Own(x)'.email = Own(x).email
        BY <1>1, OwnKept DEF InTransaction
    <2>3. QED
        BY <1>1, <2>1, <2>2 DEF LosersInv, CertFor
<1>2. CASE pc[x] # "commitOld"
    <2>1. InsertCertLoses(x)
        BY <1>2, OnlyLosersRecover
    <2>2. UNCHANGED <<certs, tokens, claims, token>> /\ CertFor(Own(x).email) # {}
        BY <2>1 DEF InsertCertLoses, Reads, tableVars, inputVars
    <2>3. QED
        BY <2>2 DEF CertFor, Own
<1>3. QED
    BY <1>1, <1>2

\* Whatever locks and uncommitted rows are about: with a request in flight there
\* is one that can go on.
LEMMA SomeoneGoesOn == ASSUME LosersInv PROVE SomeoneReady
<1> SUFFICES ASSUME NEW r \in Reqs, InFlight(r) PROVE \E x \in Reqs : Ready(x)
    BY DEF SomeoneReady
<1> USE DEF Ready, InFlight, Waits, LosersInv
<1>1. CASE \E x \in Reqs : pc[x] \in {"commitNew", "commitOld"}
    BY <1>1
<1>2. CASE /\ \A x \in Reqs : pc[x] \notin {"commitNew", "commitOld"}
           /\ \E x \in Reqs : pc[x] = "insertCert"
    BY <1>2 DEF CertInFlight, Confirming
<1>3. CASE /\ \A x \in Reqs : pc[x] \notin {"commitNew", "commitOld", "insertCert"}
           /\ \E x \in Reqs : pc[x] = "lockClaim"
    BY <1>3 DEF ClaimHeld, Confirming
<1>4. CASE \A x \in Reqs : pc[x] \notin InTransaction
    <2>1. ~InsertWaits(r) /\ ~TokenHeld(r)
        BY <1>4 DEF InsertWaits, TokenHeld, Confirming, InTransaction
    <2>2. QED
        BY <1>4, <2>1 DEF InTransaction
<1>5. QED
    BY <1>1, <1>2, <1>3, <1>4 DEF InTransaction

\* The row locks of concurrent confirms and the waits on the unique indexes never
\* close into a deadlock: while a request is in flight, the statement of some
\* request in flight can run.
THEOREM LocksNeverClose == Spec => [](SomeoneReady /\ SomeoneUnblocked)
<1> DEFINE Inv == TypeInv /\ CertInv /\ Untold /\ LosersInv
<1>1. Init => Inv
    BY TypeInit, CertInit, UntoldInit DEF Init, LosersInv
<1>2. Inv /\ [Next]_vars => Inv'
    BY TypeStep, CertStep, UntoldStep, LosersStep
<1>3. Inv => SomeoneReady /\ SomeoneUnblocked
    BY SomeoneGoesOn DEF SomeoneReady, SomeoneUnblocked, Ready
<1> HIDE DEF Inv
<1>4. QED
    BY <1>1, <1>2, <1>3, PTL DEF Spec

-----------------------------------------------------------------------------
(* Every request runs out of statements: a bound on those it has left.      *)

LeftAt(place) ==
    CASE place = "done" -> 0
      [] place \in {"attempt", "reread", "enqueueOwner"}   -> 1
      [] place \in {"enqueue", "requeue", "mintRetrieval"} -> 2
      [] place \in {"insert", "findClaim", "commitNew", "commitOld"} -> 3
      [] place \in {"findPending", "insertCert"}           -> 4
      [] place \in {"findCert", "lockClaim"}               -> 5
      [] place \in {"findKey", "lockToken"}                -> 6
      [] place = "idle" -> 7

Left(r) == LeftAt(pc[r])

\* No step sends a request back, and its own bring it nearer to its answer.
Nearer ==
    \A r \in Reqs : /\ Left(r)' <= Left(r)
                    /\ Arrive(r) \/ Step(r) \/ Fail(r) => Left(r)' < Left(r)

LEMMA LeftNat ==
    ASSUME NEW place \in PCs
    PROVE  LeftAt(place) \in 0 .. 7 /\ (place # "done" => LeftAt(place) > 0)
<1>1. CASE place \in {"done"}
    BY <1>1 DEF LeftAt
<1>2. CASE place \in {"attempt", "reread", "enqueueOwner"}
    BY <1>2 DEF LeftAt
<1>3. CASE place \in {"enqueue", "requeue", "mintRetrieval"}
    BY <1>3 DEF LeftAt
<1>4. CASE place \in {"insert", "findClaim", "commitNew", "commitOld"}
    BY <1>4 DEF LeftAt
<1>5. CASE place \in {"findPending", "insertCert"}
    BY <1>5 DEF LeftAt
<1>6. CASE place \in {"findCert", "lockClaim"}
    BY <1>6 DEF LeftAt
<1>7. CASE place \in {"findKey", "lockToken"}
    BY <1>7 DEF LeftAt
<1>8. CASE place \in {"idle"}
    BY <1>8 DEF LeftAt
<1>9. QED
    BY <1>1, <1>2, <1>3, <1>4, <1>5, <1>6, <1>7, <1>8 DEF PCs

LEMMA OwnStepNearer ==
    ASSUME TypeInv, NEW r \in Reqs, Arrive(r) \/ Step(r) \/ Fail(r)
    PROVE  Left(r)' < Left(r)
<1> USE DEF Goto, Respond, TypeInv, TypeOK
<1>1. ASSUME pc'[r] = "done", pc[r] # "done" PROVE Left(r)' < Left(r)
    <2>1. Left(r) \in 0 .. 7 /\ Left(r) > 0
        BY <1>1, LeftNat DEF Left
    <2>2. Left(r)' = 0
        BY <1>1 DEF Left, LeftAt
    <2>3. QED
        BY <2>1, <2>2
<1>2. CASE \/ Replay(r) \/ Reread(r) \/ Attempt(r) \/ RefuseToken(r) \/ EnqueueOwner(r)
           \/ Fail(r)
    BY <1>1, <1>2 DEF Replay, Reread, Attempt, RefuseToken, EnqueueOwner, Fail, InFlight
<1>3. CASE Arrive(r)
    <2>1. pc[r] = "idle" /\ \E c \in Calls : pc'[r] = FirstStep(c.op)
        BY <1>3 DEF Arrive
    <2>2. pc'[r] \in {"findKey", "findClaim", "lockToken"}
        BY <2>1, CallsAssumption DEF FirstStep, CallRec, Ops
    <2>3. QED
        BY <2>1, <2>2 DEF Left, LeftAt
<1>4. CASE FindKey(r) \/ FindCert(r) \/ FindPending(r)
    <2>1. \/ pc[r] = "findKey" /\ pc'[r] = "findCert"
          \/ pc[r] = "findCert" /\ pc'[r] \in {"insert", "findPending"}
          \/ pc[r] = "findPending" /\ pc'[r] \in {"insert", "done"}
        BY <1>4 DEF FindKey, FindCert, FindPending
    <2>2. QED
        BY <2>1 DEF Left, LeftAt
<1>5. CASE InsertClaim(r) \/ InsertViolates(r) \/ Enqueue(r) \/ FindClaim(r) \/ Requeue(r)
    <2>1. \/ pc[r] = "insert" /\ pc'[r] \in {"enqueue", "reread", "done"}
          \/ pc[r] = "enqueue" /\ pc'[r] = "attempt"
          \/ pc[r] = "findClaim" /\ pc'[r] \in {"requeue", "done"}
          \/ pc[r] = "requeue" /\ pc'[r] = "attempt"
        BY <1>5 DEF InsertClaim, StoreClaim, InsertViolates, Enqueue, FindClaim, Requeue
    <2>2. QED
        BY <2>1 DEF Left, LeftAt
<1>6. CASE \/ LockToken(r) \/ LockClaim(r) \/ InsertCert(r) \/ InsertCertLoses(r)
           \/ CommitNew(r) \/ CommitOld(r) \/ MintRetrieval(r)
    <2>1. \/ pc[r] = "lockToken" /\ pc'[r] = "lockClaim"
          \/ pc[r] = "lockClaim" /\ pc'[r] = "insertCert"
          \/ pc[r] = "insertCert" /\ pc'[r] \in {"commitNew", "commitOld"}
          \/ pc[r] \in {"commitNew", "commitOld"} /\ pc'[r] = "mintRetrieval"
          \/ pc[r] = "mintRetrieval" /\ pc'[r] \in {"enqueueOwner", "done"}
        BY <1>6 DEF LockToken, LockClaim, InsertCert, InsertCertLoses, CommitNew,
           CommitOld, Publish, MintRetrieval
    <2>2. QED
        BY <2>1 DEF Left, LeftAt
<1>7. QED
    BY <1>2, <1>3, <1>4, <1>5, <1>6 DEF Step

\* A request takes seven steps at most, so with one always ready to run each is
\* answered: nothing sends a submission, a resend or a confirm round again.
THEOREM RequestsRunOut == Spec => [][Nearer]_vars
<1>1. TypeInv /\ TypeInv' /\ [Next]_vars => [Nearer]_vars
    <2> SUFFICES ASSUME TypeInv, TypeInv', Next, NEW x \in Reqs
                 PROVE  /\ Left(x)' <= Left(x)
                        /\ Arrive(x) \/ Step(x) \/ Fail(x) => Left(x)' < Left(x)
        BY DEF Nearer
    <2>1. Left(x) \in 0 .. 7 /\ Left(x)' \in 0 .. 7
        BY LeftNat DEF Left, TypeInv, TypeOK
    <2>2. Arrive(x) \/ Step(x) \/ Fail(x) => Left(x)' < Left(x)
        BY OwnStepNearer
    <2>3. pc'[x] = pc[x] => Left(x)' <= Left(x)
        BY <2>1 DEF Left
    <2>4. CASE Poll \/ \E t \in Tokens : Expire(t)
        BY <2>2, <2>3, <2>4 DEF Poll, Expire
    <2>5. ASSUME NEW r \in Reqs, Arrive(r) \/ Step(r) \/ Fail(r)
          PROVE  Left(x)' <= Left(x)
        BY <2>1, <2>2, <2>3, <2>5, OthersStay
    <2>6. QED
        BY <2>2, <2>4, <2>5 DEF Next
<1>2. QED
    BY <1>1, ClaimsAlways, PTL DEF Spec

-----------------------------------------------------------------------------
(* The rows the statements rely on, and the owner's notice.                 *)

\* The rows that r's next statement takes for granted are there: the claim a
\* mail is about, the token and the claim of an open transaction, the winner's
\* certificate for the loser of a race, the certificate of a resolved confirm.
FindsItsRows(r) ==
    /\ pc[r] \in Mailing => target[r] \in Reqs /\ claims[target[r]] # Null
    /\ pc[r] \in InTransaction => tokens[token[r]] # Null /\ Own(r) # Null
    /\ pc[r] = "commitOld" => CertFor(Own(r).email) # {}
    /\ pc[r] \in Resolved => got[r] \in certs

AllFindTheirRows == \A r \in Reqs : FindsItsRows(r)

\* No interleaving of submissions, resends, confirms and expiries takes a row
\* away between the statement that saw it and the one that relies on it: only a
\* lock or an index can hold up a request, never a row that is missing.
THEOREM RowsAreFound == Spec => []AllFindTheirRows
<1> DEFINE Inv == TypeInv /\ CertInv /\ Untold /\ LosersInv
<1>1. Init => Inv
    BY TypeInit, CertInit, UntoldInit DEF Init, LosersInv
<1>2. Inv /\ [Next]_vars => Inv'
    BY TypeStep, CertStep, UntoldStep, LosersStep
<1>3. Inv => AllFindTheirRows
    <2> SUFFICES ASSUME Inv, NEW r \in Reqs PROVE FindsItsRows(r)
        BY DEF AllFindTheirRows
    <2>1. pc[r] \in Mailing => target[r] \in Reqs /\ claims[target[r]] # Null
        BY DEF TypeInv
    <2>2. pc[r] \in InTransaction => tokens[token[r]] # Null /\ Own(r) # Null
        BY OwnClaim DEF TypeInv
    <2>3. pc[r] \in Resolved => got[r] \in certs
        BY NullAssumption DEF TypeInv, CertInv, Told
    <2>4. QED
        BY <2>1, <2>2, <2>3 DEF FindsItsRows, LosersInv
<1> HIDE DEF Inv
<1>4. QED
    BY <1>1, <1>2, <1>3, PTL DEF Spec

\* Who is answered "confirmed" has its certificate and, having issued it, has
\* put the owner's notice into the outbox.
NoticeKept ==
    \A r \in Reqs :
        reply[r] = "confirmed" =>
            /\ pc[r] = "done" /\ got[r] # Null
            /\ got[r].id = r => r \in notices

LEMMA NoticeStep ==
    TypeInv /\ TypeInv' /\ CertInv /\ NoticeKept /\ [Next]_vars => NoticeKept'
<1> SUFFICES ASSUME TypeInv, TypeInv', CertInv, NoticeKept, [Next]_vars PROVE NoticeKept'
    OBVIOUS
<1>1. notices \subseteq notices'
    BY DEF vars, tableVars, Reads, Next, Poll, Expire, Arrive, Fail, Step, FindKey,
       Replay, FindCert, FindPending, InsertClaim, StoreClaim, InsertViolates, Reread,
       Enqueue, FindClaim, Requeue, Attempt, RefuseToken, LockToken, LockClaim,
       InsertCert, InsertCertLoses, CommitNew, CommitOld, Publish, MintRetrieval,
       EnqueueOwner
<1>2. ASSUME NEW x \in Reqs, UNCHANGED <<reply[x], pc[x], got[x]>>,
             reply'[x] = "confirmed"
      PROVE  pc'[x] = "done" /\ got'[x] # Null /\ (got'[x].id = x => x \in notices')
    BY <1>1, <1>2 DEF NoticeKept
<1>3. CASE UNCHANGED <<pc, reply, got>>
    BY <1>2, <1>3 DEF NoticeKept
<1>4. ASSUME NEW r \in Reqs, Arrive(r) \/ Step(r) \/ Fail(r) PROVE NoticeKept'
    <2>1. \A x \in Reqs : x # r => UNCHANGED <<reply[x], pc[x], got[x]>>
      <3>1. \A x \in Reqs : x # r => pc'[x] = pc[x] /\ got'[x] = got[x]
          BY <1>4, OthersStay
      <3>2. \A x \in Reqs : x # r => reply'[x] = reply[x]
          BY <1>4 DEF TypeInv, TypeOK, Goto, Respond, Arrive, Fail, Step, FindKey, Replay,
             FindCert, FindPending, InsertClaim, StoreClaim, InsertViolates, Reread,
             Enqueue, FindClaim, Requeue, Attempt, RefuseToken, LockToken, LockClaim,
             InsertCert, InsertCertLoses, CommitNew, CommitOld, Publish, MintRetrieval,
             EnqueueOwner
      <3>3. QED
          BY <3>1, <3>2
    <2>2. pc[r] # "done" /\ reply[r] # "confirmed"
      <3>1. pc[r] # "done"
          BY <1>4 DEF Arrive, Fail, InFlight, Step, FindKey, Replay, FindCert, FindPending,
             InsertClaim, InsertViolates, Reread, Enqueue, FindClaim, Requeue, Attempt,
             RefuseToken, LockToken, LockClaim, InsertCert, InsertCertLoses, CommitNew,
             CommitOld, MintRetrieval, EnqueueOwner
      <3>2. QED
          BY <3>1 DEF NoticeKept
    <2>3. CASE MintRetrieval(r)
      <3>1. got[r] \in Cert /\ got' = got
          BY <2>3 DEF MintRetrieval, TypeInv, Resolved, localVars
      <3>2. reply'[r] = "confirmed" => got[r].id # r /\ pc'[r] = "done"
          BY <2>2, <2>3 DEF MintRetrieval, Goto, Respond, TypeInv, TypeOK
      <3>3. QED
          BY <1>2, <2>1, <3>1, <3>2, NullAssumption DEF NoticeKept
    <2>4. CASE EnqueueOwner(r)
      <3>1. got[r] # Null /\ got[r].id = r /\ got' = got
          BY <2>4 DEF EnqueueOwner, CertInv, Told
      <3>2. pc'[r] = "done" /\ r \in notices'
          BY <2>4, <3>1 DEF EnqueueOwner, Respond, TypeInv, TypeOK
      <3>3. QED
          BY <1>2, <2>1, <3>1, <3>2 DEF NoticeKept
    <2>5. CASE ~MintRetrieval(r) /\ ~EnqueueOwner(r)
      <3>1. reply'[r] # "confirmed"
        <4>1. CASE Arrive(r) \/ FindKey(r) \/ Replay(r) \/ FindCert(r) \/ FindPending(r)
            BY <2>2, <4>1 DEF Arrive, FindKey, Replay, FindCert, FindPending, Goto,
               Respond, Reads, TypeInv, TypeOK
        <4>2. CASE InsertClaim(r) \/ InsertViolates(r) \/ Reread(r) \/ Enqueue(r)
                   \/ FindClaim(r) \/ Requeue(r) \/ Attempt(r) \/ Fail(r)
            BY <2>2, <4>2 DEF InsertClaim, StoreClaim, InsertViolates, Reread, Enqueue,
               FindClaim, Requeue, Attempt, Fail, Goto, Respond, Reads, TypeInv, TypeOK
        <4>3. CASE RefuseToken(r)
            BY <2>2, <4>3 DEF RefuseToken, Respond, TypeInv, TypeOK
        <4>4. CASE LockToken(r) \/ LockClaim(r) \/ InsertCert(r) \/ InsertCertLoses(r)
                   \/ CommitNew(r) \/ CommitOld(r)
            BY <2>2, <4>4 DEF LockToken, LockClaim, InsertCert, InsertCertLoses,
               CommitNew, CommitOld, Publish, Goto, Reads, TypeInv, TypeOK
        <4>5. QED
            BY <1>4, <2>5, <4>1, <4>2, <4>3, <4>4 DEF Step
      <3>2. QED
          BY <1>2, <2>1, <3>1 DEF NoticeKept
    <2>6. QED
        BY <2>3, <2>4, <2>5
<1>5. QED
    BY <1>3, <1>4 DEF Next, Poll, Expire, vars, localVars

\* The event and its notice part only when a call dies in between: whoever was
\* answered "confirmed" for a certificate it issued has enqueued the notice.
THEOREM ConfirmedMeansNoticed == Spec => []NoticeKept
<1>1. Init => NoticeKept
    BY DEF Init, NoticeKept
<1>2. TypeInv /\ TypeInv' /\ CertInv /\ NoticeKept /\ [Next]_vars => NoticeKept'
    BY NoticeStep
<1>3. QED
    BY <1>1, <1>2, ClaimsAlways, PTL DEF Spec

=============================================================================
