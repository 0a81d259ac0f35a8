---------------------------- MODULE SessionCreate ----------------------------
(***************************************************************************)
(* POST /interview-sessions with an optional Idempotency-Key               *)
(* (InterviewSessionService.createSession): concurrent first attempts,     *)
(* retries after a lost response, the replay window, the replay rate       *)
(* limiter and the additional bearer tokens a replay mints.                *)
(*                                                                         *)
(* A request hands its caller at most one bearer token, so the token is    *)
(* named by the request.  One clock unit is the time the limiter takes to  *)
(* refill one permit (30 s in the code).                                   *)
(***************************************************************************)
EXTENDS Naturals, FiniteSets

CONSTANTS
    Reqs,          \* the create requests clients will send
    Keys,          \* idempotency keys (their hashes)
    Bodies,        \* request fingerprints (hashRequest)
    Ids,           \* session identities the generator may draw
    MaxAttempts,   \* MAX_IDENTITY_ATTEMPTS
    MaxExtra,      \* MAX_EXTRA_TOKENS_PER_SESSION
    Capacity,      \* permits of IdempotencyReplayRateLimiter
    ReplayWindow,  \* REPLAY_WINDOW_MS, in clock units
    MaxClock,      \* bound on the clock
    MaxRestarts,   \* bound on process restarts
    MaxClears,     \* bound on clearings of the limiter's buckets
    Null           \* SQL NULL: no key, no row

Asked  == [key : Keys \cup {Null}, body : Bodies]
Row    == [key : Keys \cup {Null}, body : Bodies, created : 0 .. MaxClock,
           token : Reqs]
Bucket == [permits : 0 .. Capacity, last : 0 .. MaxClock]

ASSUME LimitsAssumption ==
    /\ MaxAttempts \in Nat \ {0} /\ MaxExtra \in Nat
    /\ Capacity \in Nat \ {0} /\ ReplayWindow \in Nat
    /\ MaxClock \in Nat /\ MaxRestarts \in Nat /\ MaxClears \in Nat
ASSUME CreateNullAssumption ==
    Null \notin Keys /\ Null \notin Row /\ Null \notin Ids /\ Null \notin Asked

VARIABLES
    clock,
    restarts,   \* observation: how often the process has restarted
    clears,     \* observation: how often the limiter has cleared its buckets
    sessions,   \* identity -> committed interview_sessions row, or Null
    extra,      \* interview_session_extra_tokens: <<identity, token>>
    buckets,    \* key -> the limiter's bucket, in this process's memory
    pc,         \* request -> its next statement
    ask,        \* request -> [key, body] the client sent
    mine,       \* request -> the identity it works on, or Null
    born,       \* request -> the createdAt captured before its INSERT
    attempt,    \* request -> the identity attempt it is in
    reply,      \* request -> how it was answered
    raced       \* request -> it has lost the key's uniqueness race

tableVars == <<sessions, extra>>
reqVars   == <<pc, ask, mine, born, attempt, reply, raced>>
vars      == <<clock, restarts, clears, buckets, tableVars, reqVars>>

PCs == {"idle", "find", "admit", "count", "mint", "readBack", "build",
        "insert", "insertCommit", "done"}
Replies == {"none", "created", "conflict", "stale", "throttled", "exhausted",
            "internal", "unresolved", "lost", "error"}
NoAsk == [key |-> Null, body |-> Null]

Init ==
    /\ clock = 0 /\ restarts = 0 /\ clears = 0
    /\ sessions = [i \in Ids |-> Null] /\ extra = {}
    /\ buckets = [k \in Keys |-> [permits |-> Capacity, last |-> 0]]
    /\ pc = [r \in Reqs |-> "idle"]
    /\ ask = [r \in Reqs |-> NoAsk]
    /\ mine = [r \in Reqs |-> Null]
    /\ born = [r \in Reqs |-> 0]
    /\ attempt = [r \in Reqs |-> 1]
    /\ reply = [r \in Reqs |-> "none"]
    /\ raced = [r \in Reqs |-> FALSE]

Goto(r, next) == pc' = [pc EXCEPT ![r] = next]

Respond(r, kind) ==
    /\ Goto(r, "done")
    /\ reply' = [reply EXCEPT ![r] = kind]
    /\ UNCHANGED <<ask, mine, born, attempt, raced>>

Proceed(r, next) ==
    Goto(r, next) /\ UNCHANGED <<ask, mine, born, attempt, reply, raced>>

NoWrite == UNCHANGED <<clock, restarts, clears, buckets, tableVars>>

Tick ==
    /\ clock < MaxClock /\ clock' = clock + 1
    /\ UNCHANGED <<restarts, clears, buckets, tableVars, reqVars>>

\* A request without a key never looks for an earlier session.
Arrive(r) ==
    /\ pc[r] = "idle"
    /\ \E k \in Keys \cup {Null}, b \in Bodies :
          /\ ask' = [ask EXCEPT ![r] = [key |-> k, body |-> b]]
          /\ Goto(r, IF k = Null THEN "build" ELSE "find")
    /\ UNCHANGED <<mine, born, attempt, reply, raced>>
    /\ NoWrite

-----------------------------------------------------------------------------
(* tryReturnExisting                                                        *)

Holds(i, k) == sessions[i] # Null /\ sessions[i].key = k

\* Nothing committed under the key: create, unless the INSERT has just said
\* otherwise, which is the orElseThrow of the race path.
FindNothing(r) ==
    /\ pc[r] = "find" /\ \A i \in Ids : ~Holds(i, ask[r].key)
    /\ IF raced[r] THEN Respond(r, "unresolved") ELSE Proceed(r, "build")
    /\ NoWrite

FindMismatch(r) ==
    /\ pc[r] = "find"
    /\ \E i \in Ids : Holds(i, ask[r].key) /\ sessions[i].body # ask[r].body
    /\ Respond(r, "conflict")
    /\ NoWrite

FindAnyBody(r) ==                     \* mutant: the fingerprint is not compared
    /\ pc[r] = "find"
    /\ \E i \in Ids : Holds(i, ask[r].key) /\ mine' = [mine EXCEPT ![r] = i]
    /\ Goto(r, "admit")
    /\ UNCHANGED <<ask, born, attempt, reply, raced>>
    /\ NoWrite

FindMatch(r) ==
    /\ pc[r] = "find"
    /\ \E i \in Ids : /\ Holds(i, ask[r].key) /\ sessions[i].body = ask[r].body
                      /\ mine' = [mine EXCEPT ![r] = i]
    /\ Goto(r, "admit")
    /\ UNCHANGED <<ask, born, attempt, reply, raced>>
    /\ NoWrite

RejectStale(r) ==
    /\ pc[r] = "admit" /\ clock - sessions[mine[r]].created > ReplayWindow
    /\ Respond(r, "stale")
    /\ NoWrite

FullBuckets == [k \in Keys |-> [permits |-> Capacity, last |-> clock]]

\* TokenBucketRateLimiter.tryConsume: refill by elapsed time, then take one.  A
\* key that is not held has a full bucket.
Lesser(a, b) == IF a < b THEN a ELSE b
Refilled(k)  == Lesser(Capacity, buckets[k].permits + (clock - buckets[k].last))

\* A key the limiter does not hold yet, of this traffic or of any other, finds
\* MAX_BUCKETS keys held: every bucket is dropped, in the middle of a process
\* life.  Dropping none but full buckets is no step, nothing can tell.
ClearBuckets ==
    /\ clears < MaxClears /\ clears' = clears + 1
    /\ \E k \in Keys : Refilled(k) < Capacity
    /\ buckets' = FullBuckets
    /\ UNCHANGED <<clock, restarts, tableVars, reqVars>>

Throttle(r) ==
    /\ pc[r] = "admit" /\ clock - sessions[mine[r]].created <= ReplayWindow
    /\ Refilled(ask[r].key) < 1
    /\ buckets' = [buckets EXCEPT ![ask[r].key] =
                      [permits |-> Refilled(ask[r].key), last |-> clock]]
    /\ Respond(r, "throttled")
    /\ UNCHANGED <<clock, restarts, clears, tableVars>>

AdmitForFree(r) ==                    \* mutant: refilled but never consumed
    /\ pc[r] = "admit" /\ clock - sessions[mine[r]].created <= ReplayWindow
    /\ Refilled(ask[r].key) >= 1
    /\ buckets' = [buckets EXCEPT ![ask[r].key] =
                      [permits |-> Refilled(ask[r].key), last |-> clock]]
    /\ Proceed(r, "count")
    /\ UNCHANGED <<clock, restarts, clears, tableVars>>

Admit(r) ==
    /\ pc[r] = "admit" /\ clock - sessions[mine[r]].created <= ReplayWindow
    /\ Refilled(ask[r].key) >= 1
    /\ buckets' = [buckets EXCEPT ![ask[r].key] =
                      [permits |-> Refilled(ask[r].key) - 1, last |-> clock]]
    /\ Proceed(r, "count")
    /\ UNCHANGED <<clock, restarts, clears, tableVars>>

ExtraOf(i) == {e \in extra : e[1] = i}

\* COUNT_EXTRA_TOKENS, and in a later statement INSERT_EXTRA_TOKEN.
Exhausted(r) ==
    /\ pc[r] = "count" /\ Cardinality(ExtraOf(mine[r])) >= MaxExtra
    /\ Respond(r, "exhausted")
    /\ NoWrite

Count(r) ==
    /\ pc[r] = "count" /\ Cardinality(ExtraOf(mine[r])) < MaxExtra
    /\ Proceed(r, "mint")
    /\ NoWrite

RotateToken(r) ==                     \* mutant: overwrite the session's token
    /\ pc[r] = "mint"
    /\ sessions' = [sessions EXCEPT ![mine[r]].token = r]
    /\ Proceed(r, "readBack")
    /\ UNCHANGED <<clock, restarts, clears, buckets, extra>>

Mint(r) ==
    /\ pc[r] = "mint"
    /\ extra' = extra \cup {<<mine[r], r>>}
    /\ Proceed(r, "readBack")
    /\ UNCHANGED <<clock, restarts, clears, buckets, sessions>>

\* getSessionSnapshot, then the response, which may be lost on its way.
ReadBack(r) ==
    /\ pc[r] = "readBack"
    /\ \/ sessions[mine[r]] = Null /\ Respond(r, "internal")
       \/ sessions[mine[r]] # Null /\ Respond(r, "created")
       \/ sessions[mine[r]] # Null /\ Respond(r, "lost")
    /\ NoWrite

-----------------------------------------------------------------------------
(* resolveAssessment, persistWithIdentityRetry and createSessionSnapshot    *)

Draw(r, i) == mine' = [mine EXCEPT ![r] = i]

Build(r) ==
    /\ pc[r] = "build"
    /\ born' = [born EXCEPT ![r] = clock]
    /\ \E i \in Ids : Draw(r, i)
    /\ Goto(r, "insert")
    /\ UNCHANGED <<ask, attempt, reply, raced>>
    /\ NoWrite

\* Uncommitted rows of other transactions: an INSERT that meets one in a
\* unique index waits for that transaction to end.
InsertWaits(r) ==
    \E x \in Reqs \ {r} :
        /\ pc[x] = "insertCommit"
        /\ mine[x] = mine[r] \/ (ask[r].key # Null /\ ask[x].key = ask[r].key)

KeyTaken(r) == ask[r].key # Null /\ \E i \in Ids : Holds(i, ask[r].key)

InsertUnindexed(r) ==                 \* mutant: no unique index on the key
    /\ pc[r] = "insert" /\ sessions[mine[r]] = Null
    /\ \A x \in Reqs \ {r} : pc[x] = "insertCommit" => mine[x] # mine[r]
    /\ Proceed(r, "insertCommit")
    /\ NoWrite

\* INSERT_SESSION with the question and option batches, one transaction.
InsertSession(r) ==
    /\ pc[r] = "insert" /\ ~InsertWaits(r)
    /\ ~KeyTaken(r) /\ sessions[mine[r]] = Null
    /\ Proceed(r, "insertCommit")
    /\ NoWrite

\* ON CONFLICT DO NOTHING affected no row: read back the winner.
InsertLosesRace(r) ==
    /\ pc[r] = "insert" /\ ~InsertWaits(r) /\ KeyTaken(r)
    /\ raced' = [raced EXCEPT ![r] = TRUE]
    /\ mine' = [mine EXCEPT ![r] = Null]
    /\ Goto(r, "find")
    /\ UNCHANGED <<ask, born, attempt, reply>>
    /\ NoWrite

\* A primary-key collision rolls back and draws a new identity, if any
\* attempt is left.
InsertCollides(r) ==
    /\ pc[r] = "insert" /\ ~InsertWaits(r)
    /\ ~KeyTaken(r) /\ sessions[mine[r]] # Null
    /\ IF attempt[r] = MaxAttempts
       THEN Respond(r, "internal")
       ELSE /\ \E i \in Ids : Draw(r, i)
            /\ attempt' = [attempt EXCEPT ![r] = @ + 1]
            /\ UNCHANGED <<pc, ask, born, reply, raced>>
    /\ NoWrite

InsertCommit(r) ==
    /\ pc[r] = "insertCommit"
    /\ sessions' = [sessions EXCEPT ![mine[r]] =
          [key |-> ask[r].key, body |-> ask[r].body, created |-> born[r],
           token |-> r]]
    /\ Proceed(r, "readBack")
    /\ UNCHANGED <<clock, restarts, clears, buckets, extra>>

-----------------------------------------------------------------------------
(* Failures                                                                 *)

InFlight(r) == pc[r] \notin {"idle", "done"}

\* A statement or a connection fails; an open transaction rolls back.
Fail(r) ==
    /\ InFlight(r)
    /\ Respond(r, "error")
    /\ NoWrite

\* The process restarts: in-flight requests and the limiter's memory are gone.
Restart ==
    /\ restarts < MaxRestarts /\ restarts' = restarts + 1
    /\ buckets' = FullBuckets
    /\ pc' = [r \in Reqs |-> IF InFlight(r) THEN "done" ELSE pc[r]]
    /\ reply' = [r \in Reqs |-> IF InFlight(r) THEN "error" ELSE reply[r]]
    /\ UNCHANGED <<clock, clears, tableVars, ask, mine, born, attempt, raced>>

Step(r) ==
    \/ FindNothing(r) \/ FindMismatch(r) \/ FindMatch(r)
    \/ RejectStale(r) \/ Throttle(r) \/ Admit(r)
    \/ Exhausted(r) \/ Count(r) \/ Mint(r) \/ ReadBack(r)
    \/ Build(r) \/ InsertSession(r) \/ InsertLosesRace(r)
    \/ InsertCollides(r) \/ InsertCommit(r)

Next ==
    \/ Tick \/ Restart \/ ClearBuckets
    \/ \E r \in Reqs : Arrive(r) \/ Step(r) \/ Fail(r)

Spec == Init /\ [][Next]_vars

-----------------------------------------------------------------------------
(* Properties                                                               *)

\* Every variable keeps its type.
TypeOK ==
    /\ clock \in 0 .. MaxClock
    /\ restarts \in 0 .. MaxRestarts /\ clears \in 0 .. MaxClears
    /\ sessions \in [Ids -> Row \cup {Null}]
    /\ extra \subseteq Ids \X Reqs
    /\ buckets \in [Keys -> Bucket]
    /\ pc \in [Reqs -> PCs]
    /\ ask \in [Reqs -> Asked \cup {NoAsk}]
    /\ mine \in [Reqs -> Ids \cup {Null}]
    /\ born \in [Reqs -> 0 .. MaxClock]
    /\ attempt \in [Reqs -> 1 .. MaxAttempts]
    /\ reply \in [Reqs -> Replies]
    /\ raced \in [Reqs -> BOOLEAN]

Answered(r) == reply[r] \in {"created", "lost"}

\* However many requests race or retry under one idempotency key, at most
\* one session is ever committed for it.
OneSessionPerKey ==
    \A i, j \in Ids : \A k \in Keys : Holds(i, k) /\ Holds(j, k) => i = j

\* Every successful response to a key names the same session, and one that
\* was created for exactly the request that is being answered.
RetriesConverge ==
    \A r \in Reqs : Answered(r) =>
        /\ sessions[mine[r]] # Null
        /\ sessions[mine[r]].key = ask[r].key
        /\ sessions[mine[r]].body = ask[r].body

\* A request that sent no key gets a session of its own.
NoKeyNoSharing ==
    \A r, x \in Reqs :
        /\ Answered(r) /\ Answered(x) /\ r # x /\ ask[r].key = Null
        => mine[r] # mine[x]

Authenticates(r, i) == sessions[i].token = r \/ <<i, r>> \in extra

\* Every token a response ever carried keeps authenticating for its session,
\* whichever of several racing responses reaches a live caller.
TokensKeepWorking ==
    \A r \in Reqs : Answered(r) => Authenticates(r, mine[r])

\* The request that lost the uniqueness race always finds the winner: the
\* orElseThrow on that path is dead.
RaceAlwaysResolves == \A r \in Reqs : reply[r] # "unresolved"

\* What the limiter really guarantees: the tokens minted for a session never
\* exceed a full bucket per process life and per clearing of the buckets, plus
\* one per refill.
LimiterBoundsTokens ==
    \A i \in Ids :
        Cardinality(ExtraOf(i)) <= Capacity * (restarts + clears + 1) + clock

Asking   == [r \in Reqs |-> IF pc[r] = "idle" THEN Null ELSE ask[r]]
Demanded == [i \in Ids |->
    IF sessions[i] = Null THEN Null
    ELSE [key |-> sessions[i].key, body |-> sessions[i].body]]
Opening  == {e \in Ids \X Reqs :
                sessions[e[1]] # Null /\ Authenticates(e[2], e[1])}
ToldOf   == [r \in Reqs |-> IF Answered(r) THEN mine[r] ELSE Null]

\* What the registry of sessions promises: a token opens a session as its row's
\* own or as an additional one.
Registry == INSTANCE SessionRegistry WITH
    Clients <- Reqs, asked <- Asking, sessions <- Demanded,
    valid <- Opening, told <- ToldOf

\* Racing, retried, throttled and interrupted creations implement the registry:
\* whatever a caller is told is its key's one session, opened by its own token.
ImplementsRegistry == Registry!Spec

=============================================================================
