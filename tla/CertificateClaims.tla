-------------------------- MODULE CertificateClaims --------------------------
(***************************************************************************)
(* Certificate claims of the Node backend: submitting a claim, asking for  *)
(* the verification email again, and confirming a verification token       *)
(* (CertificateClaimService over CertificateClaimRepository).              *)
(*                                                                         *)
(* Every statement outside a transaction commits on its own, so it is a    *)
(* step.  confirmVerificationToken is one transaction: what it writes is   *)
(* private, and its row locks held, from the step that takes the lock to   *)
(* the commit step.  Generated identities are named by the request that    *)
(* generates them.  Sending and retrying the emails is                     *)
(* NotificationOutbox's part: here a dispatch mints a token or does not.   *)
(***************************************************************************)
EXTENDS Naturals

CONSTANTS
    Reqs,     \* the requests clients will send
    Calls,    \* what a request may ask (a subset of CallRec)
    Emails,   \* normalised addresses
    Names,    \* claimed names
    Keys,     \* idempotency keys (their hashes)
    Tokens,   \* verification tokens that can be minted
    Null      \* SQL NULL: no row, no key

Ops     == {"submit", "resend", "confirm"}
CallRec == [op : Ops, email : Emails, name : Names, key : Keys \cup {Null}]
Claim   == [email : Emails, name : Names, key : Keys \cup {Null},
            status : {"pending", "verified"}]
Token   == [claim : Reqs, used : BOOLEAN, live : BOOLEAN]
Cert    == [id : Reqs, claim : Reqs, email : Emails, name : Names]
Grounds == [claim : Reqs, email : Emails, name : Names]

ASSUME CallsAssumption == Calls \subseteq CallRec
ASSUME NullAssumption  == /\ Null \notin Claim /\ Null \notin Token
                          /\ Null \notin Cert /\ Null \notin Keys
                          /\ Null \notin Reqs /\ Null \notin Tokens
                          /\ Null \notin Calls /\ Null \notin Grounds

VARIABLES
    claims,   \* certificate_claims: id -> row
    tokens,   \* certificate_verification_tokens; live: expires_at > now
    certs,    \* issued_certificates
    access,   \* certificate_retrieval_tokens: <<token, certificate id>>
    verify,   \* claim ids with a claimant_verify outbox row
    notices,  \* certificate ids with an owner_claim_notice outbox row
    pc,       \* request -> its next statement
    call,     \* request -> what the client asked
    token,    \* request -> the token a confirm presents
    fresh,    \* request -> the token had not expired at the captured `now`
    recov,    \* request -> createClaim found a certificate for the email
    target,   \* request -> the claim its email is about
    got,      \* request -> the certificate its confirm resolved to
    reply,    \* request -> how it was answered
    alerted   \* observation: issueOwnerNotification was called

tableVars == <<claims, tokens, certs, access, verify, notices>>
inputVars == <<call, token, fresh>>
localVars == <<recov, target, got, alerted>>
vars      == <<tableVars, pc, reply, inputVars, localVars>>

PCs == {"idle", "findKey", "findCert", "findPending", "insert", "reread",
        "enqueue", "attempt", "findClaim", "requeue", "lockToken",
        "lockClaim", "insertCert", "commitNew", "commitOld",
        "mintRetrieval", "enqueueOwner", "done"}
Replies == {"none", "pendingVerification", "badKey", "internal", "invalid",
            "expired", "alreadyUsed", "confirmed", "error"}

Init ==
    /\ claims = [c \in Reqs |-> Null]
    /\ tokens = [t \in Tokens |-> Null]
    /\ certs = {} /\ access = {} /\ verify = {} /\ notices = {}
    /\ pc = [r \in Reqs |-> "idle"] /\ reply = [r \in Reqs |-> "none"]
    /\ call = [r \in Reqs |-> Null]
    /\ token = [r \in Reqs |-> Null]
    /\ fresh = [r \in Reqs |-> FALSE]
    /\ recov = [r \in Reqs |-> FALSE]
    /\ target = [r \in Reqs |-> Null] /\ got = [r \in Reqs |-> Null]
    /\ alerted = [r \in Reqs |-> FALSE]

Goto(r, next) == pc' = [pc EXCEPT ![r] = next] /\ reply' = reply

Respond(r, kind) ==
    /\ pc' = [pc EXCEPT ![r] = "done"]
    /\ reply' = [reply EXCEPT ![r] = kind]

Reads == UNCHANGED <<tableVars, inputVars>>

FirstStep(op) == CASE op = "submit" -> "findKey"
                   [] op = "resend" -> "findClaim"
                   [] op = "confirm" -> "lockToken"

\* A request arrives; a confirm presents a token and captures `now`.
Arrive(r) ==
    /\ pc[r] = "idle"
    /\ \E c \in Calls, t \in Tokens :
          /\ call' = [call EXCEPT ![r] = c]
          /\ Goto(r, FirstStep(c.op))
          /\ IF c.op = "confirm"
             THEN /\ token' = [token EXCEPT ![r] = t]
                  /\ fresh' = [fresh EXCEPT ![r] =
                                  tokens[t] = Null \/ tokens[t].live]
             ELSE UNCHANGED <<token, fresh>>
    /\ UNCHANGED <<tableVars, localVars>>

-----------------------------------------------------------------------------
(* createClaim                                                              *)

KeyedBy(k)    == {c \in Reqs : claims[c] # Null /\ k # Null /\ claims[c].key = k}
PendingFor(e) == {c \in Reqs : claims[c] # Null /\ claims[c].email = e
                                               /\ claims[c].status = "pending"}
CertFor(e)    == {c \in certs : c.email = e}

FindKey(r) ==
    /\ pc[r] = "findKey" /\ KeyedBy(call[r].key) = {}
    /\ Goto(r, "findCert")
    /\ UNCHANGED localVars /\ Reads

\* The stored fingerprint covers the name and the normalised email.
Replay(r) ==
    /\ pc[r] = "findKey"
    /\ \E c \in KeyedBy(call[r].key) :
          Respond(r, IF /\ claims[c].name = call[r].name
                        /\ claims[c].email = call[r].email
                     THEN "pendingVerification" ELSE "badKey")
    /\ UNCHANGED localVars /\ Reads

\* A certificate for the email makes this a recovery, which skips the
\* pending-claim lookup.
FindCert(r) ==
    /\ pc[r] = "findCert"
    /\ recov' = [recov EXCEPT ![r] = CertFor(call[r].email) # {}]
    /\ Goto(r, IF CertFor(call[r].email) # {} THEN "insert" ELSE "findPending")
    /\ UNCHANGED <<target, got, alerted>> /\ Reads

FindPending(r) ==
    /\ pc[r] = "findPending"
    /\ IF PendingFor(call[r].email) # {}
       THEN Respond(r, "pendingVerification")
       ELSE Goto(r, "insert")
    /\ UNCHANGED localVars /\ Reads

Confirming(x, states) ==
    pc[x] \in states /\ token[x] # Null /\ tokens[token[x]] # Null

\* A confirm in flight has marked the email's pending claim verified: the
\* INSERT must wait to learn whether the partial unique index is free.
InsertWaits(r) ==
    \E x \in Reqs :
        /\ Confirming(x, {"insertCert", "commitNew", "commitOld"})
        /\ tokens[token[x]].claim \in PendingFor(call[r].email)

Duplicate(r) ==
    PendingFor(call[r].email) # {} \/ KeyedBy(call[r].key) # {}

StoreClaim(r) ==
    /\ claims' = [claims EXCEPT ![r] =
          [email |-> call[r].email, name |-> call[r].name,
           key |-> call[r].key, status |-> "pending"]]
    /\ target' = [target EXCEPT ![r] = r]
    /\ Goto(r, "enqueue")
    /\ UNCHANGED <<tokens, certs, access, verify, notices, inputVars, recov,
                   got, alerted>>

InsertClaim(r) ==
    /\ pc[r] = "insert" /\ ~InsertWaits(r) /\ ~Duplicate(r)
    /\ StoreClaim(r)

\* 23505: only a first claim is re-read; a recovery rethrows.
InsertViolates(r) ==
    /\ pc[r] = "insert" /\ ~InsertWaits(r) /\ Duplicate(r)
    /\ IF recov[r] THEN Respond(r, "internal") ELSE Goto(r, "reread")
    /\ UNCHANGED localVars /\ Reads

Reread(r) ==
    /\ pc[r] = "reread"
    /\ Respond(r, IF PendingFor(call[r].email) # {}
                  THEN "pendingVerification" ELSE "internal")
    /\ UNCHANGED localVars /\ Reads

-----------------------------------------------------------------------------
(* issueVerificationEmail, after a new claim and for a resend               *)

Enqueue(r) ==
    /\ pc[r] = "enqueue"
    /\ verify' = verify \cup {target[r]}
    /\ Goto(r, "attempt")
    /\ UNCHANGED <<claims, tokens, certs, access, notices, inputVars, localVars>>

FindClaim(r) ==
    /\ pc[r] = "findClaim"
    /\ \/ /\ PendingFor(call[r].email) = {}
          /\ Respond(r, "pendingVerification") /\ target' = target
       \/ \E c \in PendingFor(call[r].email) :
             /\ target' = [target EXCEPT ![r] = c]
             /\ Goto(r, "requeue")
    /\ UNCHANGED <<recov, got, alerted>> /\ Reads

\* requeueForResend: an UPDATE, which creates no row; the attempt that
\* follows does not depend on it.
Requeue(r) ==
    /\ pc[r] = "requeue"
    /\ Goto(r, "attempt")
    /\ UNCHANGED localVars /\ Reads

\* buildEmail mints a token for the claim, whatever the claim's status.
MintFor(c) ==
    \E t \in Tokens :
        /\ tokens[t] = Null
        /\ tokens' = [tokens EXCEPT ![t] =
                         [claim |-> c, used |-> FALSE, live |-> TRUE]]

\* attemptImmediately never throws: the response is the same either way.
Attempt(r) ==
    /\ pc[r] = "attempt"
    /\ Respond(r, "pendingVerification")
    /\ MintFor(target[r]) \/ tokens' = tokens
    /\ UNCHANGED <<claims, certs, access, verify, notices, inputVars, localVars>>

\* The poller dispatches an outbox row.
Poll ==
    /\ \E c \in verify : MintFor(c)
    /\ UNCHANGED <<claims, certs, access, verify, notices, pc, reply,
                   inputVars, localVars>>

Expire(t) ==
    /\ tokens[t] # Null /\ tokens[t].live
    /\ tokens' = [tokens EXCEPT ![t].live = FALSE]
    /\ UNCHANGED <<claims, certs, access, verify, notices, pc, reply,
                   inputVars, localVars>>

-----------------------------------------------------------------------------
(* confirmVerificationToken, then the rest of confirmToken                  *)

InTransaction == {"lockClaim", "insertCert", "commitNew", "commitOld"}

TokenHeld(r) == \E x \in Reqs \ {r} :
    Confirming(x, InTransaction) /\ token[x] = token[r]

Usable(r) == tokens[token[r]] # Null /\ ~tokens[token[r]].used /\ fresh[r]

RefuseToken(r) ==
    /\ pc[r] = "lockToken" /\ ~TokenHeld(r) /\ ~Usable(r)
    /\ Respond(r, CASE tokens[token[r]] = Null -> "invalid"
                    [] tokens[token[r]] # Null /\ tokens[token[r]].used
                          -> "alreadyUsed"
                    [] OTHER -> "expired")
    /\ UNCHANGED localVars /\ Reads

LockTokenShared(r) ==                 \* mutant: no FOR UPDATE on the token
    /\ pc[r] = "lockToken" /\ Usable(r)
    /\ Goto(r, "lockClaim")
    /\ UNCHANGED localVars /\ Reads

LockToken(r) ==
    /\ pc[r] = "lockToken" /\ ~TokenHeld(r) /\ Usable(r)
    /\ Goto(r, "lockClaim")
    /\ UNCHANGED localVars /\ Reads

Own(r) == claims[tokens[token[r]].claim]   \* the claim the token is for

MarkOutside(r) ==                     \* mutant: MARK_* outside the transaction
    /\ pc[r] = "lockClaim"
    /\ claims' = [claims EXCEPT ![tokens[token[r]].claim].status = "verified"]
    /\ tokens' = [tokens EXCEPT ![token[r]].used = TRUE]
    /\ Goto(r, "insertCert")
    /\ UNCHANGED <<certs, access, verify, notices, inputVars, localVars>>

ClaimHeld(r) == \E x \in Reqs \ {r} :
    /\ Confirming(x, {"insertCert", "commitNew", "commitOld"})
    /\ tokens[token[x]].claim = tokens[token[r]].claim

\* SELECT_CLAIM_FOR_UPDATE, and the private MARK_TOKEN_USED and
\* MARK_CLAIM_VERIFIED that follow it on rows already locked.
LockClaim(r) ==
    /\ pc[r] = "lockClaim" /\ ~ClaimHeld(r)
    /\ Goto(r, "insertCert")
    /\ UNCHANGED localVars /\ Reads

\* The unique index on the email: wait for an uncommitted certificate.
CertInFlight(r) == \E x \in Reqs :
    Confirming(x, {"commitNew"}) /\ Own(x).email = Own(r).email

InsertCertUnindexed(r) ==             \* mutant: no unique index on the email
    /\ pc[r] = "insertCert"
    /\ Goto(r, "commitNew")
    /\ UNCHANGED localVars /\ Reads

InsertCert(r) ==
    /\ pc[r] = "insertCert" /\ ~CertInFlight(r) /\ CertFor(Own(r).email) = {}
    /\ Goto(r, "commitNew")
    /\ UNCHANGED localVars /\ Reads

InsertCertAborts(r) ==                \* mutant: no SAVEPOINT, nothing re-read
    /\ pc[r] = "insertCert" /\ ~CertInFlight(r) /\ CertFor(Own(r).email) # {}
    /\ UNCHANGED <<pc, reply, localVars>> /\ Reads

\* 23505 after the SAVEPOINT: the winner's row is authoritative.
InsertCertLoses(r) ==
    /\ pc[r] = "insertCert" /\ ~CertInFlight(r) /\ CertFor(Own(r).email) # {}
    /\ Goto(r, "commitOld")
    /\ UNCHANGED localVars /\ Reads

Written(r) == [id |-> r, claim |-> tokens[token[r]].claim,
               email |-> Own(r).email, name |-> Own(r).name]

Publish(r) ==
    /\ tokens' = [tokens EXCEPT ![token[r]].used = TRUE]
    /\ claims' = [claims EXCEPT ![tokens[token[r]].claim].status = "verified"]
    /\ Goto(r, "mintRetrieval")
    /\ UNCHANGED <<access, verify, notices, inputVars, recov, target,
                   alerted>>

CommitNew(r) ==
    /\ pc[r] = "commitNew"
    /\ certs' = certs \cup {Written(r)}
    /\ got' = [got EXCEPT ![r] = Written(r)]
    /\ Publish(r)

CommitRename(r) ==                    \* mutant: ON CONFLICT DO UPDATE the name
    /\ pc[r] = "commitOld"
    /\ \E c \in CertFor(Own(r).email) :
          /\ certs' = (certs \ {c}) \cup {[c EXCEPT !.name = Own(r).name]}
          /\ got' = [got EXCEPT ![r] = [c EXCEPT !.name = Own(r).name]]
    /\ Publish(r)

CommitOld(r) ==
    /\ pc[r] = "commitOld"
    /\ \E c \in CertFor(Own(r).email) : got' = [got EXCEPT ![r] = c]
    /\ certs' = certs
    /\ Publish(r)

\* mintRetrievalToken; only a new issuance goes on to notify the owner.
MintRetrieval(r) ==
    /\ pc[r] = "mintRetrieval"
    /\ access' = access \cup {<<r, got[r].id>>}
    /\ IF got[r].id = r THEN Goto(r, "enqueueOwner") ELSE Respond(r, "confirmed")
    /\ UNCHANGED <<claims, tokens, certs, verify, notices, inputVars, localVars>>

\* issueOwnerNotification: enqueue and attempt, after the commit.
EnqueueOwner(r) ==
    /\ pc[r] = "enqueueOwner"
    /\ notices' = notices \cup {got[r].id}
    /\ alerted' = [alerted EXCEPT ![r] = TRUE]
    /\ Respond(r, "confirmed")
    /\ UNCHANGED <<claims, tokens, certs, access, verify, inputVars, recov,
                   target, got>>

-----------------------------------------------------------------------------

InFlight(r) == pc[r] \notin {"idle", "done"}

\* A statement fails or the process dies: an open transaction rolls back,
\* what earlier statements committed stays.
Fail(r) ==
    /\ InFlight(r)
    /\ Respond(r, "error")
    /\ UNCHANGED localVars /\ Reads

Step(r) ==
    \/ FindKey(r) \/ Replay(r) \/ FindCert(r) \/ FindPending(r)
    \/ InsertClaim(r) \/ InsertViolates(r) \/ Reread(r)
    \/ Enqueue(r) \/ FindClaim(r) \/ Requeue(r) \/ Attempt(r)
    \/ RefuseToken(r) \/ LockToken(r) \/ LockClaim(r)
    \/ InsertCert(r) \/ InsertCertLoses(r) \/ CommitNew(r) \/ CommitOld(r)
    \/ MintRetrieval(r) \/ EnqueueOwner(r)

Next ==
    \/ Poll
    \/ \E t \in Tokens : Expire(t)
    \/ \E r \in Reqs : Arrive(r) \/ Step(r) \/ Fail(r)

Spec == Init /\ [][Next]_vars

-----------------------------------------------------------------------------
(* Properties                                                               *)

\* Every variable keeps its type.
TypeOK ==
    /\ claims \in [Reqs -> Claim \cup {Null}]
    /\ tokens \in [Tokens -> Token \cup {Null}]
    /\ certs \subseteq Cert
    /\ access \subseteq Reqs \X Reqs
    /\ verify \subseteq Reqs /\ notices \subseteq Reqs
    /\ pc \in [Reqs -> PCs] /\ reply \in [Reqs -> Replies]
    /\ call \in [Reqs -> Calls \cup {Null}]
    /\ token \in [Reqs -> Tokens \cup {Null}]
    /\ fresh \in [Reqs -> BOOLEAN] /\ recov \in [Reqs -> BOOLEAN]
    /\ target \in [Reqs -> Reqs \cup {Null}]
    /\ got \in [Reqs -> Cert \cup {Null}]
    /\ alerted \in [Reqs -> BOOLEAN]

\* One certificate per email, ever: whatever tokens of whatever claims of an
\* address are confirmed concurrently, one certificate comes out.
OneCertificatePerEmail ==
    \A a, b \in certs : a.email = b.email => a = b

\* A verification token confirms at most once.
TokenConfirmsOnce ==
    \A r, x \in Reqs :
        got[r] # Null /\ got[x] # Null /\ token[r] = token[x] => r = x

\* Every confirm that resolved was told the certificate that is stored, also
\* the loser of a race and a recovery under another name, and it stays that:
\* no later step withdraws, reissues or renames it.
ConfirmTellsStored == \A r \in Reqs : got[r] # Null => got[r] \in certs

\* A token is spent and a claim verified only together with a certificate
\* for the email: no crash leaves a claimant with neither.
SpentMeansCertified ==
    /\ \A t \in Tokens : tokens[t] # Null /\ tokens[t].used =>
          claims[tokens[t].claim].status = "verified"
    /\ \A c \in Reqs : claims[c] # Null /\ claims[c].status = "verified" =>
          CertFor(claims[c].email) # {}

\* Racing submissions never leave two pending claims for one email.
OnePendingPerEmail ==
    \A c, d \in Reqs : \A e \in Emails :
        c \in PendingFor(e) /\ d \in PendingFor(e) => c = d

\* At most one confirm per email notifies the owner: a recovery never
\* generates a second owner notification.
OwnerAlertedOnce ==
    \A r, x \in Reqs :
        alerted[r] /\ alerted[x] /\ got[r].email = got[x].email => r = x

\* What a request's statement may have to wait for: the row locks of other
\* confirms, and the uncommitted rows its INSERT meets in a unique index.
Waits(r) ==
    \/ pc[r] = "insert" /\ InsertWaits(r)
    \/ pc[r] = "lockToken" /\ TokenHeld(r)
    \/ pc[r] = "lockClaim" /\ ClaimHeld(r)
    \/ pc[r] = "insertCert" /\ CertInFlight(r)

\* A request in flight that waits for nobody can go on: no statement finds the
\* rows in a shape the code has no answer for, the loser of a race included.
UnblockedGoOn ==
    \A r \in Reqs : InFlight(r) /\ ~Waits(r) => ENABLED <<Step(r)>>_vars

\* Whenever a request is in flight, one waits for nobody: the row locks of
\* concurrent confirms and the waits on the unique indexes cannot close into a
\* deadlock.  With UnblockedGoOn, and as a request takes finitely many steps,
\* each is answered.
SomeoneUnblocked ==
    (\E r \in Reqs : InFlight(r)) => \E r \in Reqs : InFlight(r) /\ ~Waits(r)

\* "The event and the intent to notify about it either both commit or
\* neither does": a certificate has its owner notice, or the request that
\* issued it is still on its way to enqueue it.
OwnerNoticeNeverLost ==
    \A c \in certs :
        c.id \in notices \/ pc[c.id] \in {"mintRetrieval", "enqueueOwner"}

\* The claim a minted token stands for, as the confirm will find it.
Standing == [t \in Tokens |->
    IF tokens[t] = Null THEN Null
    ELSE [claim |-> tokens[t].claim, email |-> claims[tokens[t].claim].email,
          name |-> claims[tokens[t].claim].name]]
Spent    == {t \in Tokens : tokens[t] # Null /\ tokens[t].used}
Alerting == {r \in Reqs : alerted[r]}

Registry == INSTANCE CertificateRegistry WITH
    Clients <- Reqs, Claims <- Reqs, stands <- Standing, spent <- Spent,
    told <- got, heard <- Alerting

\* Submissions, resends and confirms, racing on the rows and their locks and
\* dying anywhere, implement the registry of certificates.
ImplementsRegistry == Registry!Spec

=============================================================================
