-------------------------- MODULE InterviewSession --------------------------
(***************************************************************************)
(* One timed interview session of the Spring backend and the HTTP requests *)
(* that race on it: PUT answers, PUT review, POST submit, GET result and   *)
(* GET resume (InterviewSessionService and InterviewSessionRepository).    *)
(*                                                                         *)
(* The database runs at READ COMMITTED and the session row is never locked *)
(* by a read, so each SQL statement of a request is a step of its own.     *)
(* pc[r] names the next statement of request r.  A write made inside a     *)
(* transaction stays private, and holds its row, until the commit step;    *)
(* who holds which row follows from pc.                                    *)
(***************************************************************************)
EXTENDS Naturals

CONSTANTS
    Reqs,         \* the requests clients will send, each of them once
    Calls,        \* the calls a request may carry (a subset of CallRec)
    Questions,    \* the questions of the frozen snapshot
    QuestionIds,  \* the question ids a client may name, Questions included
    Multiple,     \* the questions whose type is 'multiple'
    Options,      \* option ids
    Owned,        \* question -> the option ids of its frozen snapshot
    ExpiresAt,    \* expires_at, in clock units
    MaxClock,     \* bound on the clock
    Null          \* SQL NULL

Ops      == {"save", "flag", "submit", "result", "resume"}
Writes   == {"save", "flag"}
CallRec  == [op : Ops, q : QuestionIds, sel : SUBSET Options, on : BOOLEAN,
             own : BOOLEAN]         \* own: the bearer token is the session's
Answers  == [Questions -> SUBSET Options]   \* {} : no session_answers row
Flags    == [Questions -> BOOLEAN]
View     == [answers : Answers, flags : Flags]
Result   == [answers : Answers, flags : Flags, at : 0 .. ExpiresAt,
             byExpiry : BOOLEAN]
Statuses == {"active", "expired", "submitted"}

ASSUME CallsAssumption    == Calls \subseteq CallRec
ASSUME QuestionAssumption == /\ Questions \subseteq QuestionIds
                             /\ Multiple \subseteq Questions
                             /\ Owned \in Answers
ASSUME ClockAssumption    == ExpiresAt \in Nat \ {0} /\ MaxClock \in Nat
ASSUME NullAssumption     == Null \notin Result /\ Null \notin Reqs /\ Null \notin Calls

VARIABLES
    clock,    \* System.currentTimeMillis, shared by all replicas
    status,   \* interview_sessions.status
    result,   \* interview_sessions.result_json, with the submitted_* columns
    answers,  \* committed rows of session_answers
    flags,    \* committed session_questions.flagged
    pc,       \* request -> its next statement
    call,     \* request -> what the client asked
    at,       \* request -> the `now` the service captured
    seen,     \* request -> the status its last session SELECT returned
    view,     \* request -> the questions and answers it has loaded
    reply,    \* request -> how it was answered
    told,     \* request -> the result its response carried
    born,     \* observation: clock and status when the request arrived
    quiet,    \* observation: rows no commit has touched since it arrived
    winner    \* observation: the request whose result was stored

rowVars  == <<status, result, winner>>
dataVars == <<answers, flags, quiet>>
reqVars  == <<pc, call, at, seen, view, reply, told, born>>
vars     == <<clock, rowVars, dataVars, reqVars>>

PCs     == {"idle", "authenticate", "check", "write", "commit", "commitEmpty",
            "expireNow", "lookup", "decide", "expireIfDue", "readStored",
            "finalize", "loadQuestions", "loadAnswers", "store",
            "storeCommit", "readWinner", "done"}
Replies == {"none", "unauthorized", "notActive", "expired", "badRequest",
            "saved", "snapshot", "conflict", "result", "corrupt", "lost",
            "error"}
Accepted == {"saved", "snapshot"}

NoView == [answers |-> [q \in Questions |-> {}],
           flags   |-> [q \in Questions |-> FALSE]]

Init ==
    /\ clock = 0
    /\ status = "active" /\ result = Null /\ winner = Null
    /\ answers = NoView.answers /\ flags = NoView.flags
    /\ pc = [r \in Reqs |-> "idle"]
    /\ call = [r \in Reqs |-> Null]
    /\ at = [r \in Reqs |-> 0]
    /\ seen = [r \in Reqs |-> "active"]
    /\ view = [r \in Reqs |-> NoView]
    /\ reply = [r \in Reqs |-> "none"]
    /\ told = [r \in Reqs |-> Null]
    /\ born = [r \in Reqs |-> [clock |-> 0, status |-> "active"]]
    /\ quiet = [r \in Reqs |-> {}]

-----------------------------------------------------------------------------
(* Locks and replies                                                        *)

\* A transaction that has written the session row holds it until it commits.
SessionRowHeld == \E r \in Reqs : pc[r] = "storeCommit"

\* Likewise for the row of question q that a save or a flag has written.
QuestionRowHeld(op, q) ==
    \E r \in Reqs : pc[r] = "commit" /\ call[r].op = op /\ call[r].q = q

Goto(r, next) == pc' = [pc EXCEPT ![r] = next]

Respond(r, kind, res) ==
    /\ Goto(r, "done")
    /\ reply' = [reply EXCEPT ![r] = kind]
    /\ told' = [told EXCEPT ![r] = res]
    /\ UNCHANGED <<call, at, seen, view, born>>

Proceed(r, next) ==
    /\ Goto(r, next)
    /\ UNCHANGED <<call, at, seen, view, reply, told, born>>

NoWrite == UNCHANGED <<clock, rowVars, dataVars>>

-----------------------------------------------------------------------------
(* Arrival and authentication                                               *)

Tick ==
    /\ clock < MaxClock
    /\ clock' = clock + 1
    /\ UNCHANGED <<rowVars, dataVars, reqVars>>

Arrive(r) ==
    /\ pc[r] = "idle"
    /\ \E c \in Calls : call' = [call EXCEPT ![r] = c]
    /\ born' = [born EXCEPT ![r] = [clock |-> clock, status |-> status]]
    /\ quiet' = [quiet EXCEPT ![r] = Writes \X Questions]
    /\ Goto(r, "authenticate")
    /\ UNCHANGED <<clock, rowVars, answers, flags, at, seen, view, reply, told>>

\* authenticate, after which a save, a flag and a submit capture `now` once.
RejectToken(r) ==
    /\ pc[r] = "authenticate" /\ ~call[r].own
    /\ Respond(r, "unauthorized", Null)
    /\ NoWrite

AfterToken(op) == CASE op \in Writes  -> "check"
                    [] op = "submit"  -> "finalize"
                    [] OTHER          -> "lookup"

AcceptToken(r) ==
    /\ pc[r] = "authenticate" /\ call[r].own
    /\ at' = [at EXCEPT ![r] =
                IF call[r].op \in Writes \cup {"submit"} THEN clock ELSE @]
    /\ Goto(r, AfterToken(call[r].op))
    /\ UNCHANGED <<call, seen, view, reply, told, born>>
    /\ NoWrite

-----------------------------------------------------------------------------
(* saveAnswer and setFlagged                                                *)

\* checkActiveAndUnexpired: a plain SELECT, so its verdict can go stale.
CheckSubmitted(r) ==
    /\ pc[r] = "check" /\ status = "submitted"
    /\ Respond(r, "notActive", Null)
    /\ NoWrite

CheckExpired(r) ==
    /\ pc[r] = "check" /\ status # "submitted"
    /\ status = "expired" \/ at[r] >= ExpiresAt
    /\ Proceed(r, "expireNow")
    /\ NoWrite

CheckStatusOnly(r) ==                 \* mutant: the deadline is not compared
    /\ pc[r] = "check" /\ status = "active"
    /\ Proceed(r, "write")
    /\ NoWrite

CheckPasses(r) ==
    /\ pc[r] = "check" /\ status = "active" /\ at[r] < ExpiresAt
    /\ Proceed(r, "write")
    /\ NoWrite

\* The question must be in the snapshot and a selection non-empty only with
\* options of that question, exactly one unless the question is multiple.
ValidSelection(q, sel) ==
    /\ sel \subseteq Owned[q]
    /\ q \in Multiple \/ sel = {} \/ \E o \in Options : sel = {o}

Acceptable(c) ==
    /\ c.q \in Questions
    /\ c.op = "save" => ValidSelection(c.q, c.sel)

RejectWrite(r) ==
    /\ pc[r] = "write" /\ ~Acceptable(call[r])
    /\ Respond(r, "badRequest", Null)
    /\ NoWrite

ClearsNothing(r) ==
    call[r].op = "save" /\ call[r].sel = {} /\ answers[call[r].q] = {}

\* DELETE_ANSWER that finds no committed row: nothing to lock, nothing to do.
ClearMissing(r) ==
    /\ pc[r] = "write" /\ Acceptable(call[r]) /\ ClearsNothing(r)
    /\ Proceed(r, "commitEmpty")
    /\ NoWrite

\* UPSERT_ANSWER, DELETE_ANSWER or UPDATE_FLAGGED, waiting for the row.
Write(r) ==
    /\ pc[r] = "write" /\ Acceptable(call[r]) /\ ~ClearsNothing(r)
    /\ ~QuestionRowHeld(call[r].op, call[r].q)
    /\ Proceed(r, "commit")
    /\ NoWrite

\* The commit publishes the write; the response may still be lost.
Commit(r) ==
    /\ pc[r] = "commit"
    /\ \/ /\ call[r].op = "save"
          /\ answers' = [answers EXCEPT ![call[r].q] = call[r].sel]
          /\ flags' = flags
       \/ /\ call[r].op = "flag"
          /\ flags' = [flags EXCEPT ![call[r].q] = call[r].on]
          /\ answers' = answers
    /\ quiet' = [x \in Reqs |-> quiet[x] \ {<<call[r].op, call[r].q>>}]
    /\ \E kind \in {"saved", "lost"} : Respond(r, kind, Null)
    /\ UNCHANGED <<clock, rowVars>>

CommitEmpty(r) ==
    /\ pc[r] = "commitEmpty"
    /\ \E kind \in {"saved", "lost"} : Respond(r, kind, Null)
    /\ NoWrite

\* EXPIRE_NOW, a statement of its own once the transaction has rolled back.
ExpireNow(r) ==
    /\ pc[r] = "expireNow" /\ ~SessionRowHeld
    /\ status' = IF status = "active" THEN "expired" ELSE status
    /\ Respond(r, "expired", Null)
    /\ UNCHANGED <<clock, result, winner, dataVars>>

-----------------------------------------------------------------------------
(* resumeSession and getResult up to their decision                         *)

Lookup(r) ==
    /\ pc[r] = "lookup"
    /\ seen' = [seen EXCEPT ![r] = status]
    /\ Goto(r, "decide")
    /\ UNCHANGED <<call, at, view, reply, told, born>>
    /\ NoWrite

FinalizeFlippedOnly(op, stat, now) ==   \* mutant: getResult trusts 'active'
    IF op = "resume"
    THEN CASE stat = "active" /\ ExpiresAt <= now -> "expireIfDue"
           [] stat = "active" /\ ExpiresAt > now  -> "loadQuestions"
           [] OTHER                               -> "done"
    ELSE CASE stat = "submitted" -> "readStored"
           [] stat = "expired"   -> "finalize"
           [] OTHER              -> "done"

\* `now` is read after the row, and compared with the status read before it.
AfterLookup(op, stat, now) ==
    IF op = "resume"
    THEN CASE stat = "active" /\ ExpiresAt <= now -> "expireIfDue"
           [] stat = "active" /\ ExpiresAt > now  -> "loadQuestions"
           [] OTHER                               -> "done"
    ELSE CASE stat = "submitted"                  -> "readStored"
           [] stat = "expired" \/ ExpiresAt <= now -> "finalize"
           [] OTHER                               -> "done"

Refusal(op, stat) ==
    IF op = "resume" /\ stat = "expired" THEN "expired" ELSE "conflict"

Decide(r) ==
    /\ pc[r] = "decide"
    /\ at' = [at EXCEPT ![r] = clock]
    /\ LET next == AfterLookup(call[r].op, seen[r], clock)
       IN /\ Goto(r, next)
          /\ reply' = [reply EXCEPT ![r] =
                IF next = "done" THEN Refusal(call[r].op, seen[r]) ELSE @]
    /\ UNCHANGED <<call, seen, view, told, born>>
    /\ NoWrite

\* markExpiredIfDue: EXPIRE_IF_DUE checks status and deadline again.
ExpireIfDue(r) ==
    /\ pc[r] = "expireIfDue" /\ ~SessionRowHeld
    /\ status' = IF status = "active" /\ ExpiresAt <= at[r]
                 THEN "expired" ELSE status
    /\ Respond(r, "expired", Null)
    /\ UNCHANGED <<clock, result, winner, dataVars>>

\* getSubmittedResult, and the two other SELECTs that expect a stored result.
TellStored(r) ==
    /\ IF status = "submitted" /\ result # Null
       THEN Respond(r, "result", result)
       ELSE Respond(r, "corrupt", Null)
    /\ NoWrite

ReadStored(r) == pc[r] = "readStored" /\ TellStored(r)

-----------------------------------------------------------------------------
(* finalizeSession, and the snapshot reads resume shares with it            *)

FinalizeSubmitted(r) ==
    /\ pc[r] = "finalize" /\ status = "submitted"
    /\ TellStored(r)

FinalizeOpen(r) ==
    /\ pc[r] = "finalize" /\ status # "submitted"
    /\ seen' = [seen EXCEPT ![r] = status]
    /\ Goto(r, "loadQuestions")
    /\ UNCHANGED <<call, at, view, reply, told, born>>
    /\ NoWrite

LoadWithoutFlags(r) ==                \* mutant: flagged is not selected
    /\ pc[r] = "loadQuestions"
    /\ view' = [view EXCEPT ![r].flags = NoView.flags]
    /\ Goto(r, "loadAnswers")
    /\ UNCHANGED <<call, at, seen, reply, told, born>>
    /\ NoWrite

LoadQuestions(r) ==
    /\ pc[r] = "loadQuestions"
    /\ view' = [view EXCEPT ![r].flags = flags]
    /\ Goto(r, "loadAnswers")
    /\ UNCHANGED <<call, at, seen, reply, told, born>>
    /\ NoWrite

LoadUnlessExpired(r) ==               \* mutant: an expired session scores blank
    /\ pc[r] = "loadAnswers"
    /\ view' = [view EXCEPT ![r].answers =
                   IF at[r] >= ExpiresAt THEN NoView.answers ELSE answers]
    /\ IF call[r].op = "resume"
       THEN Goto(r, "done") /\ reply' = [reply EXCEPT ![r] = "snapshot"]
       ELSE Goto(r, "store") /\ reply' = reply
    /\ UNCHANGED <<call, at, seen, told, born>>
    /\ NoWrite

LoadAnswers(r) ==
    /\ pc[r] = "loadAnswers"
    /\ view' = [view EXCEPT ![r].answers = answers]
    /\ IF call[r].op = "resume"
       THEN Goto(r, "done") /\ reply' = [reply EXCEPT ![r] = "snapshot"]
       ELSE Goto(r, "store") /\ reply' = reply
    /\ UNCHANGED <<call, at, seen, told, born>>
    /\ NoWrite

Earlier(a, b) == IF a < b THEN a ELSE b

FrozenByStatus(r) ==                  \* mutant: expiry read off the status only
    [answers  |-> view[r].answers,
     flags    |-> view[r].flags,
     at       |-> Earlier(at[r], ExpiresAt),
     byExpiry |-> seen[r] = "expired"]

\* The scored result: the loaded view, and how and when the attempt ended.
Frozen(r) ==
    [answers  |-> view[r].answers,
     flags    |-> view[r].flags,
     at       |-> Earlier(at[r], ExpiresAt),
     byExpiry |-> at[r] >= ExpiresAt \/ seen[r] = "expired"]

StoreUnguarded(r) ==                  \* mutant: no WHERE status <> 'submitted'
    /\ pc[r] = "store" /\ ~SessionRowHeld
    /\ Proceed(r, "storeCommit")
    /\ NoWrite

StoreOrWait(r) ==                     \* mutant: the loser is not told apart
    /\ pc[r] = "store" /\ ~SessionRowHeld /\ status # "submitted"
    /\ Proceed(r, "storeCommit")
    /\ NoWrite

\* WRITE_RESULT ... WHERE status <> 'submitted', once the row is free.
Store(r) ==
    /\ pc[r] = "store" /\ ~SessionRowHeld
    /\ Proceed(r, IF status # "submitted" THEN "storeCommit" ELSE "readWinner")
    /\ NoWrite

StoreCommit(r) ==
    /\ pc[r] = "storeCommit"
    /\ status' = "submitted" /\ result' = Frozen(r) /\ winner' = r
    /\ \/ Respond(r, "result", Frozen(r))
       \/ Respond(r, "lost", Null)
    /\ UNCHANGED <<clock, dataVars>>

ReturnOwnResult(r) ==                 \* mutant: the loser answers what it scored
    /\ pc[r] = "readWinner"
    /\ Respond(r, "result", Frozen(r))
    /\ NoWrite

\* Zero rows affected: SELECT_RESULT returns what the winner stored.
ReadWinner(r) == pc[r] = "readWinner" /\ TellStored(r)

-----------------------------------------------------------------------------
(* A statement fails, a connection drops or the process dies: the request's *)
(* transaction rolls back, so its private write is gone with it.            *)
Fail(r) ==
    /\ pc[r] \notin {"idle", "done"}
    /\ Respond(r, "error", Null)
    /\ NoWrite

Step(r) ==
    \/ RejectToken(r) \/ AcceptToken(r)
    \/ CheckSubmitted(r) \/ CheckExpired(r) \/ CheckPasses(r)
    \/ RejectWrite(r) \/ ClearMissing(r) \/ Write(r)
    \/ Commit(r) \/ CommitEmpty(r) \/ ExpireNow(r)
    \/ Lookup(r) \/ Decide(r) \/ ExpireIfDue(r) \/ ReadStored(r)
    \/ FinalizeSubmitted(r) \/ FinalizeOpen(r)
    \/ LoadQuestions(r) \/ LoadAnswers(r)
    \/ Store(r) \/ StoreCommit(r) \/ ReadWinner(r)

Next == Tick \/ \E r \in Reqs : Arrive(r) \/ Step(r) \/ Fail(r)

Spec == Init /\ [][Next]_vars

\* Every request thread keeps running until it has answered.
FairSpec == Spec /\ \A r \in Reqs : WF_vars(Step(r))

-----------------------------------------------------------------------------
(* Properties                                                               *)

\* Every variable keeps its type, and the columns their CHECK constraints.
TypeOK ==
    /\ clock \in 0 .. MaxClock
    /\ status \in Statuses
    /\ result \in Result \cup {Null}
    /\ answers \in Answers /\ flags \in Flags
    /\ pc \in [Reqs -> PCs]
    /\ call \in [Reqs -> Calls \cup {Null}]
    /\ \A r \in Reqs : pc[r] # "idle" => call[r] \in Calls
    /\ at \in [Reqs -> 0 .. MaxClock]
    /\ seen \in [Reqs -> Statuses]
    /\ view \in [Reqs -> View]
    /\ reply \in [Reqs -> Replies]
    /\ told \in [Reqs -> Result \cup {Null}]
    /\ born \in [Reqs -> [clock : 0 .. MaxClock, status : Statuses]]
    /\ quiet \in [Reqs -> SUBSET (Writes \X Questions)]
    /\ winner \in Reqs \cup {Null}

\* A session has a result exactly when it is submitted, and it is expired
\* only once its deadline has really passed: however the late EXPIRE
\* statements and the finalizers interleave, the lifecycle stays honest.
LifecycleHonest ==
    /\ status = "submitted" <=> result # Null
    /\ status = "expired" => clock >= ExpiresAt

\* The frozen result never claims an expiry that has not happened, a hand-in
\* at or after the deadline, or a hand-in later than now.
ResultTruthful ==
    result # Null =>
        /\ result.byExpiry => clock >= ExpiresAt
        /\ ~result.byExpiry => result.at < ExpiresAt
        /\ result.at <= clock

\* All responses that carry a result carry the stored one: of any number of
\* submits and result reads that finalize concurrently one wins, and the
\* losers return what the winner stored.
OneResultForAll ==
    \A r \in Reqs : told[r] # Null => status = "submitted" /\ told[r] = result

\* No interleaving reaches the "left no result" branches of finalizeSession
\* and getResult: a reader that sees 'submitted' always finds the result.
NeverCorrupt == \A r \in Reqs : reply[r] # "corrupt"

\* A save, flag or resume that arrives at or after the deadline, or after
\* the session was submitted, is never accepted.
LateRequestsRefused ==
    \A r \in Reqs :
        /\ pc[r] = "done" /\ call[r].op \in Writes \cup {"resume"}
        /\ born[r].status = "submitted" \/ born[r].clock >= ExpiresAt
        => reply[r] \notin Accepted \cup {"lost"}

\* The result scores every selection and flag that was acknowledged before
\* the finalizing request arrived: where no later write has touched the row,
\* the frozen value is the stored one.
AcknowledgedIsScored ==
    winner # Null =>
        \A q \in Questions :
            /\ <<"save", q>> \in quiet[winner] => result.answers[q] = answers[q]
            /\ <<"flag", q>> \in quiet[winner] => result.flags[q] = flags[q]

\* A resume response shows every selection and flag that was acknowledged
\* before it was requested.
AcknowledgedIsResumed ==
    \A r \in Reqs : reply[r] = "snapshot" =>
        \A q \in Questions :
            /\ <<"save", q>> \in quiet[r] => view[r].answers[q] = answers[q]
            /\ <<"flag", q>> \in quiet[r] => view[r].flags[q] = flags[q]

\* Once submitted, the status and the result never change again: no late
\* finalizer, expiry flip or save reopens, expires or rescores the session.
ResultFrozen ==
    [][status = "submitted" => UNCHANGED <<status, result>>]_vars

\* Every request is answered: waiting for the session row or a question row
\* can neither deadlock nor starve.
EveryRequestAnswered ==
    \A r \in Reqs : pc[r] = "authenticate" ~> pc[r] = "done"

\* A candidate whose tab was closed at the deadline still gets a result: a
\* result request that decides after it either fails or leaves the session
\* submitted.
ResultReachable ==
    \A r \in Reqs :
        (pc[r] = "decide" /\ call[r].op = "result" /\ clock >= ExpiresAt)
            ~> (status = "submitted" \/ reply[r] = "error")

\* A save of r that was stored, acknowledged or not.
Wrote(r, q, sel) ==
    /\ call[r] # Null /\ call[r].op = "save"
    /\ call[r].q = q /\ call[r].sel = sel
    /\ reply[r] \in {"saved", "lost"}

\* What the attempt promises: the pairs accepted are those of the saves
\* whose transaction committed.
AcceptedPairs ==
    {pair \in Questions \X SUBSET Options :
        \E r \in Reqs : Wrote(r, pair[1], pair[2])}

Attempt == INSTANCE InterviewAttempt WITH
    Clients <- Reqs, accepted <- AcceptedPairs

\* The requests racing on the session implement the abstract attempt.
ImplementsAttempt == Attempt!Spec

=============================================================================
