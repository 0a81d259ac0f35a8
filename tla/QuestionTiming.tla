--------------------------- MODULE QuestionTiming ---------------------------
(***************************************************************************)
(* The clock of a topic-quiz question: TopicQuizAttemptService asks the    *)
(* server for a question's receipt and caches the answer, while            *)
(* QuestionTimingService hands its deadline to the one TimerService, which *)
(* counts down for whatever question it was last restarted for.            *)
(*                                                                         *)
(* Answers to /questions/start come in any order, late, or not at all, and *)
(* navigation, restarts and expiry go on meanwhile.  Time is counted in    *)
(* units of which a question gets Duration; the server starts counting     *)
(* when it issues the receipt, the browser when the receipt arrives.       *)
(***************************************************************************)
EXTENDS Naturals, Sequences, FiniteSets

CONSTANTS
    N,          \* questions, in display order
    Duration,   \* QUESTION_DURATION
    MaxTime,    \* bound on the clock
    MaxStarts,  \* bound on the start requests
    MaxRuns     \* bound on the restarts

ASSUME QuestionTimingAssumption ==
    /\ N \in Nat \ {0} /\ Duration \in Nat \ {0}
    /\ MaxTime \in Nat /\ MaxStarts \in Nat /\ MaxRuns \in Nat

VARIABLES
    now,
    shown,      \* QuizService.currentQuestionIndex
    arriving,   \* the index is set, the question is still loading
    correct,    \* questions whose verdict is resolved correct
    starts,     \* the start requests ever made
    cache,      \* questionReceipts: question -> its request, 0 if none
    waiting,    \* requests whose answer activateQuestionTiming waits for
    deadline,   \* _deadlineByQuestion, 0 if none
    timer,      \* TimerService
    run,        \* observation: restarts so far
    runStart,   \* observation: when this run began
    crossed     \* observation: a request of an earlier run was answered since

askVars == <<starts, cache, waiting>>
runVars == <<run, runStart, crossed>>
vars == <<now, shown, arriving, correct, askVars, deadline, timer, runVars>>

Questions == 1 .. N
Start == [q : Questions, run : Nat, state : {"sent", "issued", "ready", "failed"},
          issued : Nat, deadline : Nat]
\* The question it counts for (0 none), whether it ticks and until when,
\* hasExpiredForRun, expiredForQuestionIndexSig, stoppedForQuestion.
Timer == [for : 0 .. N, running : BOOLEAN, until : Nat, expired : BOOLEAN,
          expiredFor : 0 .. N, stopped : SUBSET Questions]

NewTimer == [for |-> 0, running |-> FALSE, until |-> 0, expired |-> FALSE,
             expiredFor |-> 0, stopped |-> {}]

Init ==
    /\ now = 0 /\ shown = 1 /\ arriving = TRUE /\ correct = {}
    /\ starts = <<>> /\ cache = [q \in Questions |-> 0] /\ waiting = {}
    /\ deadline = [q \in Questions |-> 0]
    /\ timer = NewTimer
    /\ run = 0 /\ runStart = 0 /\ crossed = FALSE

-----------------------------------------------------------------------------
(* TimerService.                                                           *)

\* Mutant: the countdown of the question left behind goes on.
FrozenInPlace(t, q) ==
    [t EXCEPT !.for = q, !.expired = FALSE, !.stopped = @ \cup {q}]

\* freezeAtRecordedTime: an answered question does not tick.
Frozen(t, q) ==
    [t EXCEPT !.for = q, !.running = FALSE, !.expired = FALSE,
              !.stopped = @ \cup {q}]

\* attemptStopTimerForQuestion: the countdown of this question is stopped.
Stopped(t, q) == [t EXCEPT !.running = FALSE, !.stopped = @ \cup {q}]

\* startTimerUntil: what is left of the deadline, or expireImmediately.
RunUntil(t, due) ==
    IF due <= now
    THEN [t EXCEPT !.running = FALSE, !.expired = TRUE, !.expiredFor = shown]
    ELSE [t EXCEPT !.running = TRUE, !.until = due]

\* Mutant: a question comes back with its full time.
RestartedAfresh(t, q, due) ==
    IF q \in correct THEN Frozen(t, q)
    ELSE [t EXCEPT !.for = q, !.running = TRUE, !.until = now + Duration,
                   !.expired = FALSE, !.expiredFor = 0]

\* restartForQuestion, with the question's deadline (0 for none).
Restarted(t, q, due) ==
    LET busy  == t.for = q /\ (t.running \/ t.expired \/ q \in t.stopped)
        fresh == [t EXCEPT !.for = q, !.running = FALSE, !.expired = FALSE,
                           !.expiredFor = 0, !.stopped = @ \ {q}] IN
    CASE busy                                        -> t
      [] ~busy /\ q \in correct                      -> Frozen(t, q)
      [] ~busy /\ q \notin correct /\ t.expiredFor = q -> t
      [] ~busy /\ q \notin correct /\ t.expiredFor # q ->
             IF due = 0 THEN fresh ELSE RunUntil(fresh, due)

\* The tick that reaches the duration: what expires is what is displayed.
Expire ==
    /\ timer.running /\ timer.until <= now
    /\ timer' = [timer EXCEPT !.running = FALSE, !.expired = TRUE,
                              !.expiredFor = shown]
    /\ UNCHANGED <<now, shown, arriving, correct, askVars, deadline, runVars>>

Tick ==
    /\ now < MaxTime /\ ~(timer.running /\ timer.until <= now)
    /\ now' = now + 1
    /\ UNCHANGED <<shown, arriving, correct, askVars, deadline, timer, runVars>>

-----------------------------------------------------------------------------
(* TopicQuizAttemptService and QuestionTimingService.                      *)

Ready(id)   == id # 0 /\ starts[id].state = "ready"
Pending(id) == id # 0 /\ starts[id].state \in {"sent", "issued"}

\* A request for the question's receipt, cached while it is out.
AskFor(q) ==
    /\ Len(starts) < MaxStarts
    /\ starts' = Append(starts, [q |-> q, run |-> run, state |-> "sent",
                                 issued |-> 0, deadline |-> 0])
    /\ cache' = [cache EXCEPT ![q] = Len(starts) + 1]

\* Mutant: every activation anchors the duration anew.
AuthorizeAnew(q, due, t) ==
    /\ deadline' = [deadline EXCEPT ![q] = now + Duration]
    /\ timer' = IF q \in correct THEN Frozen(t, q) ELSE Restarted(t, q, due)

\* The deadline is kept, then the timer restarted for it, or frozen if the
\* question was answered meanwhile.
Authorize(q, due, t) ==
    /\ deadline' = [deadline EXCEPT ![q] = due]
    /\ timer' = IF q \in correct THEN Frozen(t, q) ELSE Restarted(t, q, due)

\* The displayed question has loaded: the timer is restarted for it, and its
\* timing is activated - from the cache, or once its receipt arrives.
Arrive ==
    LET t  == Restarted(timer, shown, deadline[shown])
        id == cache[shown] IN
    /\ arriving /\ arriving' = FALSE
    /\ \/ /\ shown \in correct
          /\ timer' = Frozen(t, shown) /\ UNCHANGED <<askVars, deadline>>
       \/ /\ shown \notin correct /\ Ready(id)
          /\ Authorize(shown, starts[id].deadline, t) /\ UNCHANGED askVars
       \/ /\ shown \notin correct /\ Pending(id)
          /\ waiting' = waiting \cup {id} /\ timer' = t
          /\ UNCHANGED <<starts, cache, deadline>>
       \/ /\ shown \notin correct /\ id = 0
          /\ AskFor(shown) /\ waiting' = waiting \cup {Len(starts) + 1}
          /\ timer' = t /\ UNCHANGED deadline
    /\ UNCHANGED <<now, shown, correct, runVars>>

\* The server issues the receipt.
Issue(id) ==
    /\ starts[id].state = "sent"
    /\ starts' = [starts EXCEPT ![id].state = "issued", ![id].issued = now]
    /\ UNCHANGED <<now, shown, arriving, correct, cache, waiting, deadline,
                   timer, runVars>>

\* The receipt arrives; the browser anchors the duration here.
Receive(id) ==
    LET due == now + Duration
        q   == starts[id].q IN
    /\ starts[id].state = "issued"
    /\ starts' = [starts EXCEPT ![id].state = "ready", ![id].deadline = due]
    /\ waiting' = waiting \ {id}
    /\ IF id \in waiting THEN Authorize(q, due, timer)
       ELSE UNCHANGED <<deadline, timer>>
    /\ crossed' = (crossed \/ starts[id].run # run)
    /\ UNCHANGED <<now, shown, arriving, correct, cache, run, runStart>>

\* It does not: whatever entry the question has is dropped, so that it can
\* be asked for again.
StartFails(id) ==
    /\ starts[id].state \in {"sent", "issued"}
    /\ starts' = [starts EXCEPT ![id].state = "failed"]
    /\ cache' = [cache EXCEPT ![starts[id].q] = 0]
    /\ waiting' = waiting \ {id}
    /\ crossed' = (crossed \/ starts[id].run # run)
    /\ UNCHANGED <<now, shown, arriving, correct, deadline, timer, run, runStart>>

-----------------------------------------------------------------------------
(* The player.                                                             *)

\* The server judges by its own clock, from the receipt.
InTime(id) == now < starts[id].issued + Duration

Answerable ==
    /\ ~arriving /\ shown \notin correct /\ timer.expiredFor # shown

\* The displayed question is answered right.  The step stands for the arrival
\* of the verdict: an effect that reads the verdicts stops the timer with it
\* (stopTimerOnVerdictComplete).
AnswerRight ==
    /\ Answerable /\ Ready(cache[shown]) /\ InTime(cache[shown])
    /\ correct' = correct \cup {shown}
    /\ timer' = Stopped(timer, shown)
    /\ UNCHANGED <<now, shown, arriving, askVars, deadline, runVars>>

\* A pick on a question without a receipt asks for one (withQuestionReceipt).
PickUnstarted ==
    /\ Answerable /\ cache[shown] = 0
    /\ AskFor(shown)
    /\ UNCHANGED <<now, shown, arriving, correct, waiting, deadline, timer,
                   runVars>>

\* The question is over: right, out of time here, or found so by the server.
Over(q) ==
    \/ q \in correct \/ timer.expiredFor = q
    \/ Ready(cache[q]) /\ ~InTime(cache[q])

GoTo(q) ==
    /\ q \in Questions \ {shown}
    /\ q > shown => q = shown + 1 /\ Over(shown)
    /\ shown' = q /\ arriving' = TRUE
    /\ timer' = [timer EXCEPT !.stopped = @ \ {q}]
    /\ UNCHANGED <<now, correct, askVars, deadline, runVars>>

NewRun ==
    /\ run < MaxRuns /\ run' = run + 1 /\ runStart' = now /\ UNCHANGED crossed
    /\ shown' = 1 /\ arriving' = TRUE /\ correct' = {}
    /\ UNCHANGED <<now, starts, waiting>>

\* Restart in the quiz or on Results: clearTiming and beginNewRun.
Restart ==
    /\ NewRun
    /\ cache' = [q \in Questions |-> 0]
    /\ deadline' = [q \in Questions |-> 0] /\ timer' = NewTimer

\* Start from the introduction, of the quiz that was just left.
FreshStart ==
    /\ NewRun /\ UNCHANGED <<cache, deadline, timer>>

Next ==
    \/ Tick \/ Expire \/ Arrive
    \/ \E id \in 1 .. Len(starts) : Issue(id) \/ Receive(id) \/ StartFails(id)
    \/ AnswerRight \/ PickUnstarted
    \/ \E q \in Questions : GoTo(q)
    \/ Restart \/ FreshStart

Spec == Init /\ [][Next]_vars

-----------------------------------------------------------------------------
(* Properties.                                                             *)

\* Every variable is of its type.
TypeOK ==
    /\ now \in Nat /\ shown \in Questions /\ arriving \in BOOLEAN
    /\ correct \subseteq Questions
    /\ starts \in Seq(Start)
    /\ cache \in [Questions -> 0 .. Len(starts)]
    /\ waiting \subseteq 1 .. Len(starts)
    /\ deadline \in [Questions -> Nat]
    /\ timer \in Timer
    /\ run \in Nat /\ runStart \in Nat /\ crossed \in BOOLEAN

\* The countdown on the screen is that of the question it counts for, up to
\* the deadline its receipt brought, however often the question was left and
\* come back to and in whatever order the receipts arrived, and it does not
\* end before the server's.  Only a receipt asked for before a restart and
\* answered after it parts them (setAuthorizedDeadline, restartForQuestion's
\* re-entry guard); no order of things grants more than the full duration.
CountsToItsDeadline ==
    timer.running =>
        /\ timer.until <= now + Duration
        /\ ~crossed =>
               LET id == cache[timer.for] IN
               /\ timer.until = deadline[timer.for] /\ Ready(id)
               /\ starts[id].issued + Duration <= timer.until

\* Navigating away and back buys no time: within a run a question's deadline,
\* once given, does not move - with the same exception (the receipt cache of
\* ensureQuiz and startQuestion).
RevisitBuysNoTime ==
    [][\A q \in Questions :
           deadline[q] # 0 /\ run' = run /\ ~crossed' =>
               deadline'[q] = deadline[q]]_vars

\* No clock ticks for a question that was answered right, whatever receipt or
\* revisit comes later (freezeAtRecordedTime, activateQuestionTiming).
RightAnswerStopsTheClock == timer.running => timer.for \notin correct
=============================================================================
