------------------------- MODULE NotificationOutbox -------------------------
(***************************************************************************)
(* The delivery of one claimant_verify row of the notification outbox      *)
(* (NotificationDispatcher over the outbox part of                         *)
(* CertificateClaimRepository): the poller's runOnce calls, which overlap  *)
(* because nothing awaits the previous one, the immediate attempt of the   *)
(* request that enqueued or requeued the row, and the user's resends.      *)
(*                                                                         *)
(* Every repository call and every send is awaited, so each is a step.     *)
(* next_attempt_at is kept as the time left until it is reached, which     *)
(* lets time run without a bound.                                          *)
(***************************************************************************)
EXTENDS Naturals, FiniteSets

CONSTANTS
    Pollers,      \* runOnce calls that can be in progress at once
    Attempts,     \* attemptImmediately calls the clients will cause
    Tokens,       \* verification tokens that can be minted
    MaxAttempts,  \* MAX_NOTIFICATION_ATTEMPTS
    MaxTokens,    \* MAX_OUTSTANDING_TOKENS_PER_CLAIM
    Lease,        \* NOTIFICATION_PROCESSING_LEASE_MS, in clock units
    MaxBackoff,   \* backoff of the last tier, in clock units
    MaxCrashes,   \* bound on crashes of a worker
    MaxRotations, \* bound on rotations of the payload encryption key
    Null

Workers  == Pollers \cup Attempts
Longest  == IF Lease > MaxBackoff THEN Lease ELSE MaxBackoff
Payload  == [token : Tokens, key : 0 .. MaxRotations, gen : 0 .. Cardinality(Attempts)]
Gens     == 0 .. Cardinality(Attempts)
Job      == [gen : Gens, attempts : Nat, payload : Payload \cup {Null},
             token : Tokens \cup {Null}]

ASSUME WorkersAssumption ==
    /\ IsFiniteSet(Attempts) /\ Pollers \cap Attempts = {}
    /\ Null \notin Payload /\ Null \notin Tokens /\ Null \notin Job
ASSUME LimitsAssumption ==
    /\ MaxAttempts \in Nat \ {0} /\ MaxTokens \in Nat \ {0}
    /\ Lease \in Nat \ {0} /\ MaxBackoff \in Nat \ {0}
    /\ MaxCrashes \in Nat /\ MaxRotations \in Nat

VARIABLES
    status,    \* the row's status
    attempts,  \* the row's attempts
    gen,       \* the row's generation
    wait,      \* time until next_attempt_at; 0: the row is due
    payload,   \* the row's encrypted_payload
    minted,    \* unused tokens of the claim that have not expired
    cipher,    \* the encryption key the process is configured with
    pc,        \* worker -> its next await
    job,       \* worker -> what it has read and built
    mail,      \* emails the SMTP server accepted: <<generation, token>>
    crashes,   \* observation: workers lost so far
    lease,     \* observation: poller -> what is left of its lease
    shared,    \* observation: generations taken up beside a busy worker
    overrun    \* observation: a runOnce call has outlived its lease

rowVars == <<status, attempts, gen, wait, payload>>
vars    == <<rowVars, minted, cipher, pc, job, mail, crashes, lease, shared,
             overrun>>

PCs == {"idle", "fetch", "build", "mint", "persist", "send", "markSent",
        "markFailed", "giveUp", "done"}
NoJob == [gen |-> 0, attempts |-> 0, payload |-> Null, token |-> Null]
Busy(w) == pc[w] \notin {"idle", "done"}

\* The row has just been enqueued and its immediate attempt begins.
Init ==
    /\ status = "pending" /\ attempts = 0 /\ gen = 0 /\ wait = 0
    /\ payload = Null /\ minted = {} /\ cipher = 0 /\ mail = {} /\ crashes = 0
    /\ \E a \in Attempts :
          pc = [w \in Workers |-> IF w = a THEN "fetch" ELSE "idle"]
    /\ job = [w \in Workers |-> NoJob]
    /\ lease = [p \in Pollers |-> 0] /\ shared = {} /\ overrun = FALSE

Goto(w, next) == pc' = [pc EXCEPT ![w] = next]

Less(n) == IF n = 0 THEN 0 ELSE n - 1

\* Time passes: next_attempt_at and every lease come nearer.
Tick ==
    /\ wait > 0 \/ \E p \in Pollers : lease[p] > 0
    /\ wait' = Less(wait)
    /\ lease' = [p \in Pollers |-> Less(lease[p])]
    /\ overrun' = (overrun \/ \E p \in Pollers : lease[p] = 1)
    /\ UNCHANGED <<status, attempts, gen, payload, minted, cipher, pc, job,
                   mail, crashes, shared>>

\* A verification token expires or is confirmed.
Retire(t) ==
    /\ t \in minted /\ minted' = minted \ {t}
    /\ UNCHANGED <<rowVars, cipher, pc, job, mail, crashes, lease, shared, overrun>>

\* CERTIFICATE_OUTBOX_ENCRYPTION_KEY is rotated.
Rotate ==
    /\ cipher < MaxRotations /\ cipher' = cipher + 1
    /\ UNCHANGED <<rowVars, minted, pc, job, mail, crashes, lease, shared, overrun>>

\* Another worker, of this generation or of one before, is busy when w takes
\* generation g up.
Share(w, g) ==
    shared' = IF \E x \in Workers \ {w} : Busy(x) THEN shared \cup {g} ELSE shared

-----------------------------------------------------------------------------
(* Taking the row up                                                        *)

\* resendClaim: REQUEUE_FOR_RESEND, then the attempt for the new generation.
Resend(a) ==
    /\ pc[a] = "idle"
    /\ gen < Cardinality(Attempts)
    /\ status' = "pending" /\ attempts' = 0 /\ gen' = gen + 1
    /\ wait' = 0 /\ payload' = Null
    /\ job' = [job EXCEPT ![a] = [NoJob EXCEPT !.gen = gen + 1]]
    /\ Goto(a, "fetch") /\ Share(a, gen + 1)
    /\ UNCHANGED <<minted, cipher, mail, crashes, lease, overrun>>

\* getNotificationPayload, scoped by the generation.
Fetch(a) ==
    /\ pc[a] = "fetch"
    /\ job' = [job EXCEPT ![a].payload = IF gen = job[a].gen THEN payload ELSE Null]
    /\ Goto(a, "build")
    /\ UNCHANGED <<rowVars, minted, cipher, mail, crashes, lease, shared, overrun>>

ClaimWith(p, next) ==
    /\ pc[p] = "idle"
    /\ status = "pending" /\ wait = 0
    /\ wait' = next
    /\ lease' = [lease EXCEPT ![p] = Lease]
    /\ job' = [job EXCEPT ![p] = [gen |-> gen, attempts |-> attempts,
                                  payload |-> payload, token |-> Null]]
    /\ Goto(p, "build") /\ Share(p, gen)
    /\ UNCHANGED <<status, attempts, gen, payload, minted, cipher, mail, crashes,
                   overrun>>

ClaimWithoutLease(p) == ClaimWith(p, 0)   \* mutant: only the row lock

\* claimDueNotifications: FOR UPDATE SKIP LOCKED and the lease, atomically.
Claim(p) == ClaimWith(p, Lease)

-----------------------------------------------------------------------------
(* buildEmail                                                               *)

Stored(w) == job[w].payload # Null /\ job[w].payload.key = cipher

\* A stored payload that still decrypts is resent as it is.
Reuse(w) ==
    /\ pc[w] = "build" /\ Stored(w)
    /\ job' = [job EXCEPT ![w].token = job[w].payload.token]
    /\ Goto(w, "send")
    /\ UNCHANGED <<rowVars, minted, cipher, mail, crashes, lease, shared, overrun>>

\* COUNT_OUTSTANDING_TOKENS, and in a later statement the INSERT.
Count(w) ==
    /\ pc[w] = "build" /\ ~Stored(w) /\ Cardinality(minted) < MaxTokens
    /\ Goto(w, "mint")
    /\ UNCHANGED <<rowVars, minted, cipher, job, mail, crashes, lease, shared, overrun>>

\* limitReached makes buildEmail return null: the poller marks the row sent,
\* the immediate attempt just returns.
LimitReached(w) ==
    /\ pc[w] = "build" /\ ~Stored(w) /\ Cardinality(minted) >= MaxTokens
    /\ Goto(w, IF w \in Pollers THEN "giveUp" ELSE "done")
    /\ UNCHANGED <<rowVars, minted, cipher, job, mail, crashes, lease, shared, overrun>>

\* A name no row or worker holds stands for a new token.
Spare == Tokens \ (minted \cup {job[x].token : x \in Workers}
                          \cup (IF payload = Null THEN {} ELSE {payload.token}))

Mint(w) ==
    /\ pc[w] = "mint"
    /\ \E t \in Spare :
          /\ minted' = minted \cup {t}
          /\ job' = [job EXCEPT ![w].token = t]
    /\ Goto(w, "persist")
    /\ UNCHANGED <<rowVars, cipher, mail, crashes, lease, shared, overrun>>

Sealed(w) == [token |-> job[w].token, key |-> cipher, gen |-> job[w].gen]

PersistUnscoped(w) ==                 \* mutant: no AND generation = $3
    /\ pc[w] = "persist"
    /\ payload' = Sealed(w)
    /\ Goto(w, "send")
    /\ UNCHANGED <<status, attempts, gen, wait, minted, cipher, job, mail,
                   crashes, lease, shared, overrun>>

PersistNothing(w) ==                  \* mutant: sent before it is persisted
    /\ pc[w] = "persist"
    /\ Goto(w, "send")
    /\ UNCHANGED <<rowVars, minted, cipher, job, mail, crashes, lease, shared, overrun>>

\* setNotificationPayload: scoped by the generation, whatever the status.
Persist(w) ==
    /\ pc[w] = "persist"
    /\ payload' = IF gen = job[w].gen THEN Sealed(w) ELSE payload
    /\ Goto(w, "send")
    /\ UNCHANGED <<status, attempts, gen, wait, minted, cipher, job, mail,
                   crashes, lease, shared, overrun>>

-----------------------------------------------------------------------------
(* Sending and marking                                                      *)

Send(w) ==
    /\ pc[w] = "send"
    /\ mail' = mail \cup {<<job[w].gen, job[w].token>>}
    /\ Goto(w, "markSent")
    /\ UNCHANGED <<rowVars, minted, cipher, job, crashes, lease, shared, overrun>>

\* The provider declines: the poller books it, an immediate attempt does not.
Declined(w) ==
    /\ pc[w] = "send"
    /\ Goto(w, IF w \in Pollers THEN "markFailed" ELSE "done")
    /\ UNCHANGED <<rowVars, minted, cipher, job, mail, crashes, lease, shared, overrun>>

Finished(w) ==
    /\ Goto(w, IF w \in Pollers THEN "idle" ELSE "done")
    /\ job' = [job EXCEPT ![w] = NoJob]
    /\ lease' = [p \in Pollers |-> IF p = w THEN 0 ELSE lease[p]]

\* MARK_NOTIFICATION_SENT, scoped neither by generation nor by status.
MarkSent(w) ==
    /\ pc[w] \in {"markSent", "giveUp"}
    /\ status' = "sent" /\ attempts' = attempts + 1 /\ payload' = Null
    /\ Finished(w)
    /\ UNCHANGED <<gen, wait, minted, cipher, mail, crashes, shared, overrun>>

\* backoffFor grows with the attempts of the row as claimed.
Backoff(n) == IF n + 1 < MaxBackoff THEN n + 1 ELSE MaxBackoff

MarkFailedForever(p) ==               \* mutant: never permanently failed
    /\ pc[p] = "markFailed"
    /\ status' = "pending"
    /\ attempts' = IF attempts < MaxAttempts THEN attempts + 1 ELSE attempts
    /\ wait' = Backoff(job[p].attempts)
    /\ payload' = payload
    /\ Finished(p)
    /\ UNCHANGED <<gen, minted, cipher, mail, crashes, shared, overrun>>

\* MARK_NOTIFICATION_FAILED, likewise unscoped.
MarkFailed(p) ==
    /\ pc[p] = "markFailed"
    /\ attempts' = attempts + 1
    /\ status' = IF attempts + 1 >= MaxAttempts THEN "failed" ELSE "pending"
    /\ payload' = IF attempts + 1 >= MaxAttempts THEN Null ELSE payload
    /\ wait' = Backoff(job[p].attempts)
    /\ Finished(p)
    /\ UNCHANGED <<gen, minted, cipher, mail, crashes, shared, overrun>>

\* A call throws.  runOnce books a failure, also when the email was sent and
\* only markNotificationSent failed; attemptImmediately swallows it.
Throw(w) ==
    /\ pc[w] \in {"fetch", "build", "mint", "persist", "send", "markSent", "giveUp"}
    /\ Goto(w, IF w \in Pollers THEN "markFailed" ELSE "done")
    /\ UNCHANGED <<rowVars, minted, cipher, job, mail, crashes, lease, shared, overrun>>

\* The process dies with the worker in it.
Crash(w) ==
    /\ Busy(w) /\ crashes < MaxCrashes /\ crashes' = crashes + 1
    /\ Finished(w)
    /\ UNCHANGED <<rowVars, minted, cipher, mail, shared, overrun>>

Work(w) ==
    \/ Reuse(w) \/ Count(w) \/ LimitReached(w) \/ Mint(w) \/ Persist(w)
    \/ Send(w) \/ Declined(w) \/ MarkSent(w) \/ Throw(w)
Poll(p) == Claim(p) \/ Work(p) \/ MarkFailed(p)
Try(a)  == Fetch(a) \/ Work(a)

Next ==
    \/ Tick \/ Rotate
    \/ \E t \in Tokens : Retire(t)
    \/ \E p \in Pollers : Poll(p)
    \/ \E a \in Attempts : Resend(a) \/ Try(a)
    \/ \E w \in Workers : Crash(w)

Spec == Init /\ [][Next]_vars

\* The poller's interval keeps firing and time keeps passing.
FairSpec == Spec /\ WF_vars(Tick) /\ \A p \in Pollers : WF_vars(Poll(p))

-----------------------------------------------------------------------------
(* Properties                                                               *)

\* Every variable keeps its type.
TypeOK ==
    /\ status \in {"pending", "sent", "failed"}
    /\ attempts \in Nat
    /\ gen \in Gens /\ wait \in 0 .. Longest
    /\ payload \in Payload \cup {Null}
    /\ minted \subseteq Tokens /\ cipher \in 0 .. MaxRotations
    /\ pc \in [Workers -> PCs]
    /\ job \in [Workers -> Job]
    /\ mail \subseteq Gens \X Tokens
    /\ crashes \in 0 .. MaxCrashes
    /\ lease \in [Pollers -> 0 .. Lease]
    /\ shared \subseteq Gens /\ overrun \in BOOLEAN

\* A row that can still be polled has an attempt left, however many workers
\* book their outcome late: nothing is retried past the cap.
PendingBelowCap == status = "pending" => attempts < MaxAttempts

\* The stored payload is the current generation's: what a superseded
\* generation built never becomes the email of the resend that followed.
PayloadOfGeneration == payload # Null => payload.gen = gen

\* As long as every runOnce call keeps within its lease and the user has not
\* asked for a resend, no two of them handle the row at once, whatever the
\* immediate attempt does to it and wherever one crashes.
LeaseExcludes ==
    ~overrun /\ gen = 0 =>
        \A p, q \in Pollers : Busy(p) /\ Busy(q) => p = q

\* As long as the key was not rotated, all emails of a generation carry the
\* same link, also after a crash or an error between the send and its
\* bookkeeping; a worker taken up beside another may still send its own.
RetriesKeepTheLink ==
    cipher = 0 =>
        \A a, b \in mail : a[1] = b[1] /\ a[1] \notin shared => a[2] = b[2]

\* A pending notification is eventually sent or given up.
NotificationSettles == status = "pending" ~> status # "pending"

=============================================================================
