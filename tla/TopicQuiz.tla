------------------------------ MODULE TopicQuiz ------------------------------
(***************************************************************************)
(* One topic quiz in the browser: a pick is submitted for judgement, the   *)
(* verdict lands in QuestionVerdictService, the point is credited, and the *)
(* progression gate, the unlocked range and the Results button read it.    *)
(*                                                                         *)
(* Requests are answered in any order, or never; a superseded one is told  *)
(* from the newest by the question's generation.  A run ends with Restart  *)
(* (in the quiz, on Results, from the introduction); a reload keeps only   *)
(* what session and local storage hold.                                    *)
(***************************************************************************)
EXTENDS AnswerCheck, FiniteSets

CONSTANTS
    MaxGen,      \* bounds on the submissions per question in a page's life, of
                 \* which one at least holds
    MaxFlight,   \* bound on the requests in flight
    MaxBreaks    \* bound on restarts and page reloads together

ASSUME TopicQuizBounds ==
    MaxGen \subseteq [Questions -> Nat] /\ MaxFlight \in Nat /\ MaxBreaks \in Nat

VARIABLES
    verdict,   \* QuestionVerdictService._states
    gens,      \* QuestionVerdictService.generations
    earned,    \* earnedVerdicts in sessionStorage, as they would be restored
    flight,    \* requests to /check without a settled response
    ui,        \* uiSelectedTexts: the selection last published per question
    history,   \* _selectionHistory: the picks since a question was entered,
    remembered,\* _revisitDisplayByQuestion: those when it was last left, both
               \* kept for multiple questions, whose publications use them
    cur,       \* the displayed question
    arrived,   \* its options have just been rebuilt by a navigation
    page,      \* "quiz" or "results"
    late,      \* questions whose receipt's deadline has passed, on the server
    clockOut,  \* questions whose deadline has passed on the client's timer
    scored,    \* questionCorrectness: the questions credited
    complete,  \* _multiAnswerCompletion (and _questionResolved)
    perfect,   \* _multiAnswerPerfect
    furthest,  \* the furthest-unlocked marker
    run, reloads,
    asked,     \* observation: questions submitted or timed out in this run
    ranOut     \* observation: questions found out of time in this run

checkVars == <<verdict, gens, earned, flight>>
scoreVars == <<scored, complete, perfect>>
timeVars  == <<late, clockOut, ranOut>>
pickVars  == <<ui, history, remembered>>
viewVars  == <<cur, arrived, page, furthest>>
runVars   == <<run, reloads>>
vars == <<checkVars, scoreVars, timeVars, pickVars, viewVars, runVars, asked>>

Phases == {"idle", "checking", "incomplete", "resolved", "expired", "error"}
State  == [phase : Phases, selected : SUBSET Options,
           verdicts : [Options -> {"unknown", "right", "wrong"}],
           reveal : SUBSET Options, right : {"unknown", "yes", "no"}]
Request == [q : Questions, kind : {"check", "reveal"}, gen : Nat,
            picked : SUBSET Options, due : BOOLEAN, run : Nat]

Idle == [phase |-> "idle", selected |-> {}, verdicts |-> Unjudged,
         reveal |-> {}, right |-> "unknown"]

Init ==
    /\ verdict = [q \in Questions |-> Idle]
    /\ gens = [q \in Questions |-> 0]
    /\ earned = [q \in Questions |-> Idle]
    /\ flight = {}
    /\ ui = [q \in Questions |-> {}]
    /\ history = [q \in Questions |-> {}]
    /\ remembered = [q \in Questions |-> {}]
    /\ cur = 1 /\ arrived = FALSE /\ page = "quiz"
    /\ late = {} /\ clockOut = {} /\ ranOut = {}
    /\ scored = {} /\ complete = {} /\ perfect = {}
    /\ furthest = 1
    /\ run = 0 /\ reloads = 0 /\ asked = {}

-----------------------------------------------------------------------------
(* QuestionVerdictService: writes, generations and the stored snapshot.    *)

Terminal(s) == s.phase \in {"resolved", "expired"}

\* A terminal verdict as a reload restores it: the picks are those judged.
Restorable(s) ==
    [s EXCEPT !.selected = {o \in Options : s.verdicts[o] # "unknown"}]

\* `write`: a terminal phase is also saved to sessionStorage.
Write(q, s) ==
    /\ verdict' = [verdict EXCEPT ![q] = s]
    /\ earned' = IF Terminal(s)
                 THEN [earned EXCEPT ![q] = Restorable(s)] ELSE earned

\* Mutant: every answer counts as the newest.
CurrentAlways(r) == TRUE

Current(r) == gens[r.q] = r.gen

\* The bound on the submissions.
MayAsk(q) ==
    \E most \in MaxGen :
        gens[q] < most[q] /\ \A p \in Questions \ {q} : gens[p] <= most[p]

\* Mutant: a request sent while another is out shares its generation.
SendShared(q, kind, picked) ==
    /\ MayAsk(q) /\ Cardinality(flight) < MaxFlight
    /\ gens' = IF \E r \in flight : r.q = q THEN gens
               ELSE [gens EXCEPT ![q] = @ + 1]
    /\ flight' = flight \cup
           {[q |-> q, kind |-> kind, gen |-> gens'[q], picked |-> picked,
             due |-> q \in late, run |-> run]}
    /\ asked' = asked \cup {q}

\* Claims the next generation and sends the request.
Send(q, kind, picked) ==
    /\ MayAsk(q) /\ Cardinality(flight) < MaxFlight
    /\ gens' = [gens EXCEPT ![q] = @ + 1]
    /\ flight' = flight \cup
           {[q |-> q, kind |-> kind, gen |-> gens[q] + 1, picked |-> picked,
             due |-> q \in late, run |-> run]}
    /\ asked' = asked \cup {q}

\* checkAnswer up to the request: the selection shows at once, as checking.
CheckAnswer(q, picked) ==
    /\ Send(q, "check", picked)
    /\ Write(q, [verdict[q] EXCEPT !.phase = "checking", !.selected = picked])

Failed(s) == [s EXCEPT !.phase = "error"]

\* The newer verdicts over those already stated.
Merge(old, new) ==
    [o \in Options |-> IF new[o] = "unknown" THEN old[o] ELSE new[o]]

\* Mutant: an incomplete answer leaves the earlier judgement standing.
AppliedLoosely(s, q, picked, status) ==
    CASE status = "resolved" ->
           [phase |-> "resolved", selected |-> picked,
            verdicts |-> Verdicts(q, picked), reveal |-> CorrectOf[q],
            right |-> IF JudgedCorrect(q, picked) THEN "yes" ELSE "no"]
      [] status = "expired" ->
           [s EXCEPT !.phase = "expired", !.selected = picked,
                     !.reveal = CorrectOf[q]]
      [] OTHER ->
           [s EXCEPT !.phase = "incomplete", !.selected = picked,
                     !.verdicts = Merge(@, IncompleteVerdicts(q, picked))]

\* applyResult, on the state it finds.
Applied(s, q, picked, status) ==
    CASE status = "resolved" ->
           [phase |-> "resolved", selected |-> picked,
            verdicts |-> Verdicts(q, picked), reveal |-> CorrectOf[q],
            right |-> IF JudgedCorrect(q, picked) THEN "yes" ELSE "no"]
      [] status = "expired" ->
           [s EXCEPT !.phase = "expired", !.selected = picked,
                     !.reveal = CorrectOf[q]]
      [] status = "incomplete" /\ picked = {} /\ s.right = "yes" ->
           [s EXCEPT !.phase = "resolved"]
      [] OTHER ->
           [s EXCEPT !.phase = "incomplete", !.selected = picked,
                     !.verdicts = Merge(@, IncompleteVerdicts(q, picked)),
                     !.right = "unknown"]

\* Mutant: the deadline of the receipt is not looked at.
AnswersEarly(r, expired) == TRUE

\* What the server may have answered by now.  The receipt is that of the
\* run the request was sent in.
Answers(r, expired) ==
    IF expired THEN r.due \/ r.run # run \/ r.q \in late ELSE ~r.due

-----------------------------------------------------------------------------
(* SelectedOptionService and QuizScoringService: what an answer credits.   *)

\* Mutant: a complete answer with a wrong extra earns nothing.
CreditsPerfect(r, status) ==
    /\ r.kind = "check" /\ status = "resolved"
    /\ r.picked \subseteq CorrectOf[r.q]

Credits(r, status) ==
    /\ r.kind = "check" /\ status = "resolved"
    /\ JudgedCorrect(r.q, r.picked)

\* applyAuthorizedMultiCompletion: more than one correct text was revealed.
Completes(r, status) ==
    /\ r.kind = "check" /\ status = "resolved"
    /\ \A o \in Options : CorrectOf[r.q] # {o}

\* A /check answer arrives.  A superseded one leaves the verdict alone; the
\* submitter's own handler runs either way.
Deliver(r, expired) ==
    LET status == Status(r.q, r.picked, expired)
        s      == verdict[r.q] IN
    /\ r \in flight /\ r.kind = "check" /\ Answers(r, expired)
    /\ status # "rejected"
    /\ flight' = flight \ {r}
    /\ IF Current(r) THEN Write(r.q, Applied(s, r.q, r.picked, status))
       ELSE UNCHANGED <<verdict, earned>>
    /\ scored' = IF Credits(r, status) THEN scored \cup {r.q} ELSE scored
    /\ complete' = IF Completes(r, status)
                   THEN complete \cup {r.q} ELSE complete
    /\ perfect' = IF Completes(r, status) /\ r.picked \subseteq CorrectOf[r.q]
                  THEN perfect \cup {r.q} ELSE perfect
    /\ ranOut' = IF Current(r) /\ status = "expired"
                 THEN ranOut \cup {r.q} ELSE ranOut
    /\ UNCHANGED <<gens, late, clockOut, pickVars, viewVars, runVars,
                   asked>>

\* A reveal is taken only from an expired answer.
DeliverReveal(r) ==
    /\ r \in flight /\ r.kind = "reveal" /\ Answers(r, TRUE)
    /\ flight' = flight \ {r}
    /\ IF Current(r)
       THEN Write(r.q, [verdict[r.q] EXCEPT !.phase = "expired",
                                            !.reveal = CorrectOf[r.q]])
       ELSE UNCHANGED <<verdict, earned>>
    /\ UNCHANGED <<gens, scoreVars, timeVars, pickVars, viewVars, runVars,
                   asked>>

\* The network, a rejection, the 20 s timeout, or a reveal that came back
\* as anything but expired.
Fail(r) ==
    /\ r \in flight
    /\ flight' = flight \ {r}
    /\ IF Current(r) THEN Write(r.q, Failed(verdict[r.q]))
       ELSE UNCHANGED <<verdict, earned>>
    /\ UNCHANGED <<gens, scoreVars, timeVars, pickVars, viewVars, runVars,
                   asked>>

-----------------------------------------------------------------------------
(* The options of the displayed question.                                  *)

\* The verdict says every correct option is selected.
FoundAll(q) == verdict[q].phase = "resolved" /\ verdict[q].right = "yes"

\* OptionLockPolicyService: a perfect answer disables every option, a
\* complete one with wrong extras every unselected one.
Locked(q, o) ==
    FoundAll(q) /\ (ui[q] \subseteq verdict[q].reveal \/ o \notin ui[q])

\* The next selection of a click: a single-select pick replaces the old one,
\* a repeated click takes the option off again.
Clicked(q, o) ==
    IF o \in ui[q] THEN ui[q] \ {o}
    ELSE IF q \in Multiple THEN ui[q] \cup {o} ELSE {o}

\* What the rebuilt bindings of a revisited question publish: its picks when
\* it was last left, those taken off again included; a single-select question
\* starts without a pick.
Rebuilt(q) == IF q \in Multiple THEN remembered[q] ELSE {}

\* A click on a rendered option: not on a question whose time is up, and a
\* correct option of a multiple question cannot be taken off once judged.
\* The remembered picks stay in the set: a click on one of them publishes
\* nothing new.  (On a single-select question the click is first submitted
\* with the remembered picks and in the same turn, when the bindings are
\* published, by itself: only the second request is modelled.)
Pick(o) ==
    LET picked == Clicked(cur, o) \cup Rebuilt(cur) IN
    /\ page = "quiz" /\ cur \notin clockOut /\ o \in OptionsOf[cur]
    /\ arrived => ui[cur] = Rebuilt(cur)
    /\ verdict[cur].phase # "expired" /\ ~Locked(cur, o)
    /\ ~(cur \in Multiple /\ o \in ui[cur] /\ verdict[cur].verdicts[o] = "right")
    /\ picked # ui[cur]
    /\ ui' = [ui EXCEPT ![cur] = picked]
    /\ history' = IF cur \in Multiple
                  THEN [history EXCEPT ![cur] = @ \cup {o}] ELSE history
    /\ CheckAnswer(cur, picked)
    /\ arrived' = FALSE
    /\ UNCHANGED <<remembered, scoreVars, timeVars, cur, page, furthest, runVars>>

\* The rebuilt bindings are published, and the selection is sent if it is not
\* the one published before.
RevisitRender ==
    /\ page = "quiz" /\ arrived /\ arrived' = FALSE
    /\ ui[cur] # Rebuilt(cur)
    /\ ui' = [ui EXCEPT ![cur] = Rebuilt(cur)]
    /\ CheckAnswer(cur, Rebuilt(cur))
    /\ UNCHANGED <<history, remembered, scoreVars, timeVars, cur, page, furthest,
                   runVars>>

\* The failed check is sent again, with the selection it carried.
RetryVerdict ==
    /\ page = "quiz" /\ verdict[cur].phase = "error"
    /\ CheckAnswer(cur, verdict[cur].selected)
    /\ UNCHANGED <<scoreVars, timeVars, pickVars, viewVars, runVars>>

-----------------------------------------------------------------------------
(* Time.                                                                   *)

\* The countdown of the displayed question ends: its answer is asked for.
\* A question recorded correct has had its timer stopped.
TimerRunsOut ==
    /\ page = "quiz" /\ cur \notin clockOut /\ verdict[cur].right # "yes"
    /\ Send(cur, "reveal", {})
    /\ clockOut' = clockOut \cup {cur} /\ ranOut' = ranOut \cup {cur}
    /\ UNCHANGED <<verdict, earned, late, scoreVars, pickVars, viewVars, runVars>>

\* A deadline passes while its question is not displayed: on arrival it is
\* found expired and nothing is revealed.
RunsOutAway(q) ==
    /\ q \in 1 .. furthest /\ q \notin clockOut
    /\ page = "results" \/ q # cur
    /\ verdict[q].right # "yes"
    /\ clockOut' = clockOut \cup {q} /\ ranOut' = ranOut \cup {q}
    /\ UNCHANGED <<checkVars, late, scoreVars, pickVars, viewVars, runVars,
                   asked>>

\* The server's own deadline of a started question.
ServerDeadline(q) ==
    /\ q \in 1 .. furthest /\ q \notin late
    /\ late' = late \cup {q}
    /\ UNCHANGED <<checkVars, clockOut, ranOut, scoreVars, pickVars, viewVars,
                   runVars, asked>>

-----------------------------------------------------------------------------
(* Progression and Results.                                                *)

\* Mutant: any judgement opens the way, of an incomplete answer too.
BlocksUntilJudged(s) == s.phase \notin {"incomplete", "resolved", "expired"}

\* blocksIntermediateProgression.
Blocks(s) ==
    CASE s.phase = "expired"  -> FALSE
      [] s.phase = "resolved" -> s.right # "yes"
      [] OTHER                -> TRUE

\* canSubmitFinalQuestion.
CanSubmitFinal(s) ==
    \/ s.phase = "expired"
    \/ s.selected # {} /\ s.phase \in {"resolved", "incomplete"}

\* currentVerdictBlocksProgression, with its expiry carve-out.
MayMoveOn == cur \in clockOut \/ ~Blocks(verdict[cur])

\* finalQuestionCanSubmit, likewise.
FinalCanSubmit == cur \in clockOut \/ CanSubmitFinal(verdict[cur])

\* hasBlockingVerdicts: some check is in flight or has failed.
BlockingVerdict == \E q \in Questions : verdict[q].phase \in {"checking", "error"}

\* unlockThrough: at most one past the marker, never lower, never past N.
UnlockThrough(i) ==
    IF i > furthest /\ furthest < N THEN furthest + 1 ELSE furthest

\* A navigation remembers the picks of the question it leaves, unless there
\* are none.
Remember(from) ==
    LET picks == ui[from] \cup history[from] IN
    remembered' = IF from \in Multiple /\ picks # {}
                  THEN [remembered EXCEPT ![from] = picks] ELSE remembered

\* clearStaleNavigationState: the answer state and the history of both ends
\* of a navigation go, unless the question is scored.
LeaveStale(from, to) ==
    LET stale == {from, to} \ scored IN
    /\ complete' = complete \ stale
    /\ perfect' = perfect \ stale
    /\ history' = [q \in Questions |-> IF q \in stale THEN {} ELSE history[q]]

\* Next, the keyboard, or a dot further on: the marker moves one question,
\* and the route guard sends a longer jump back to it.
Forward(i) ==
    /\ page = "quiz" /\ i > cur /\ MayMoveOn
    /\ furthest' = UnlockThrough(cur + 1)
    /\ cur' = IF i <= furthest' THEN i ELSE furthest'
    /\ arrived' = TRUE /\ Remember(cur) /\ LeaveStale(cur, cur')
    /\ UNCHANGED <<checkVars, ui, scored, timeVars, page, runVars, asked>>

\* Previous, or a dot further back.
Backward(i) ==
    /\ page = "quiz" /\ i < cur
    /\ cur' = i /\ arrived' = TRUE /\ Remember(cur) /\ LeaveStale(cur, i)
    /\ UNCHANGED <<checkVars, ui, scored, timeVars, page, furthest, runVars,
                   asked>>

\* Show Results, from the last question.
AdvanceToResults ==
    /\ page = "quiz" /\ cur = N
    /\ ~BlockingVerdict /\ FinalCanSubmit
    /\ page' = "results" /\ arrived' = FALSE
    /\ UNCHANGED <<checkVars, scoreVars, timeVars, pickVars, cur, furthest,
                   runVars, asked>>

\* The browser's Back, from Results to the last question.
BackToQuiz ==
    /\ page = "results"
    /\ page' = "quiz" /\ arrived' = TRUE
    /\ UNCHANGED <<checkVars, scoreVars, timeVars, pickVars, cur, furthest,
                   runVars, asked>>

-----------------------------------------------------------------------------
(* A new run, and a reload.                                                *)

\* Mutant: the states are dropped, the counters left alone.
ClearStates ==
    /\ verdict' = [q \in Questions |-> Idle]
    /\ gens' = gens

\* clearAll: every generation ever claimed is bumped, every state dropped.
ClearAll ==
    /\ gens' = [q \in Questions |-> IF gens[q] > 0 THEN gens[q] + 1 ELSE 0]
    /\ verdict' = [q \in Questions |-> Idle]

\* What the three ways to a new run have in common: score, answer state,
\* verdicts and their stored copies, selections and the marker go.  Requests
\* in flight stay.
NewRun ==
    /\ run + reloads < MaxBreaks /\ run' = run + 1
    /\ ClearAll /\ earned' = [q \in Questions |-> Idle]
    /\ scored' = {} /\ complete' = {} /\ perfect' = {}
    /\ ui' = [q \in Questions |-> {}]
    /\ history' = [q \in Questions |-> {}]
    /\ remembered' = [q \in Questions |-> {}]
    /\ cur' = 1 /\ furthest' = 1 /\ page' = "quiz" /\ arrived' = FALSE
    /\ asked' = {}
    /\ UNCHANGED <<flight, reloads>>

\* Restart in the quiz, past the first question: the receipts go too.
RestartQuiz ==
    /\ page = "quiz" /\ cur > 1
    /\ NewRun /\ late' = {} /\ clockOut' = {} /\ ranOut' = {}

\* Restart on the Results page.
RestartFromResults ==
    /\ page = "results"
    /\ NewRun /\ late' = {} /\ clockOut' = {} /\ ranOut' = {}

\* Start from the introduction, after leaving the quiz: the receipts of the
\* questions already started are kept, and so are their deadlines.
FreshStart ==
    /\ NewRun /\ ranOut' = clockOut /\ UNCHANGED <<late, clockOut>>

\* A reload: memory is gone, storage is read back, and every question gets a
\* new receipt when it is next shown.  (The picks that storage still holds
\* are left out: they colour the options and join the next snapshot.)
Reload ==
    /\ run + reloads < MaxBreaks /\ reloads' = reloads + 1
    /\ verdict' = earned /\ gens' = [q \in Questions |-> 0] /\ flight' = {}
    /\ ui' = [q \in Questions |-> {}]
    /\ history' = [q \in Questions |-> {}]
    /\ remembered' = [q \in Questions |-> {}]
    /\ complete' = {} /\ perfect' = {}
    /\ late' = {} /\ clockOut' = {} /\ arrived' = FALSE
    /\ UNCHANGED <<earned, scored, ranOut, cur, page, furthest, run, asked>>

Next ==
    \/ \E o \in Options : Pick(o)
    \/ RevisitRender \/ RetryVerdict
    \/ \E r \in flight : \/ \E e \in BOOLEAN : Deliver(r, e)
                         \/ DeliverReveal(r) \/ Fail(r)
    \/ TimerRunsOut
    \/ \E q \in Questions : RunsOutAway(q) \/ ServerDeadline(q)
    \/ \E i \in Questions : Forward(i) \/ Backward(i)
    \/ AdvanceToResults \/ BackToQuiz
    \/ RestartQuiz \/ RestartFromResults \/ FreshStart
    \/ Reload

Spec == Init /\ [][Next]_vars

-----------------------------------------------------------------------------
(* Properties.                                                             *)

\* Every variable is of its type.
TypeOK ==
    /\ verdict \in [Questions -> State] /\ earned \in [Questions -> State]
    /\ gens \in [Questions -> Nat]
    /\ flight \subseteq Request
    /\ ui \in [Questions -> SUBSET Options]
    /\ history \in [Questions -> SUBSET Options]
    /\ remembered \in [Questions -> SUBSET Options]
    /\ cur \in Questions /\ furthest \in Questions
    /\ arrived \in BOOLEAN /\ page \in {"quiz", "results"}
    /\ late \subseteq Questions /\ clockOut \subseteq Questions
    /\ scored \subseteq Questions /\ complete \subseteq Questions
    /\ perfect \subseteq Questions
    /\ run \in Nat /\ reloads \in Nat
    /\ asked \subseteq Questions /\ ranOut \subseteq Questions

\* What a question shows is what the server said of its current selection:
\* no right pick is stated wrong and no wrong one right, the answer is
\* revealed only with a resolution, an expiry, or from one still standing,
\* and a standing judgement is that of the picks shown - whatever order the
\* answers, failures, revisits and reloads came in (applyResult, isCurrent).
VerdictIsTheServers ==
    \A q \in Questions :
        LET s == verdict[q] IN
        /\ \A o \in Options : s.verdicts[o] = "right" => o \in CorrectOf[q]
        /\ \A o \in CorrectOf[q] : s.verdicts[o] # "wrong"
        /\ s.reveal \in {{}, CorrectOf[q]}
        /\ Terminal(s) => s.reveal = CorrectOf[q]
        /\ s.phase = "incomplete" =>
               s.right = "unknown" /\ ~Resolves(q, s.selected)
        /\ s.phase = "resolved" /\ s.selected # {} =>
               /\ Resolves(q, s.selected)
               /\ s.right = IF JudgedCorrect(q, s.selected) THEN "yes" ELSE "no"
        /\ s.phase = "resolved" /\ s.selected = {} => s.right = "yes"

\* A question waiting for a judgement has a request out whose answer will be
\* taken, and the newest check of a question that has one is what it waits
\* for: no generation is ever lost between clicks, expiry, restart and reload
\* (nextGeneration, isCurrent, clearAll).
NobodyWaitsForNothing ==
    /\ \A q \in Questions : verdict[q].phase = "checking" =>
           \E r \in flight : r.q = q /\ Current(r)
    /\ \A r \in flight : Current(r) /\ r.kind = "check" =>
           verdict[r.q].phase = "checking" /\ verdict[r.q].selected = r.picked

\* A new run starts blank and stays so: no answer to a question of an earlier
\* run, still in flight at the restart, shows in this one or is stored for a
\* reload (clearAll, clearEarned).
RestartIsClean ==
    \A q \in Questions : verdict[q] # Idle \/ earned[q] # Idle => q \in asked

\* A question shown correct has its point: neither a failed or superseded
\* check, nor a reload, a revisit or a restart parts the two
\* (creditResolvedQuestion in the subscriber, the verdict in applyResult).
CorrectIsCredited ==
    \A q \in Questions : verdict[q].right = "yes" => q \in scored

\* A question is only left behind the unlocked range answered correctly or
\* out of time, and Results only shows after all of them but the last were:
\* gates, dots, reloads and restarts leave no way around one
\* (blocksIntermediateProgression, unlockThrough, the route guard).
PassedInOrder ==
    /\ \A q \in 1 .. furthest - 1 :
           q \in scored \cup ranOut
    /\ page = "results" => furthest = N
    /\ cur <= furthest

\* What is judged is what is selected: the verdict that settles describes the
\* selection on the screen (uiSelectedTexts), not an older one.
JudgedIsShown ==
    \A q \in Questions :
        verdict[q].phase \in {"resolved", "incomplete"} /\ ui[q] # {} =>
            verdict[q].selected = ui[q]

\* What the quiz promises of it: the checks in flight, the selections a
\* question waits for, and what the verdicts on the screen tell.
Unanswered == {<<r.q, r.picked>> : r \in {x \in flight : x.kind = "check"}}
Waiting    == {q \in Questions : verdict[q].phase = "checking"}

Quiz == INSTANCE QuizRun WITH
    pending  <- Unanswered,
    awaited  <- {<<q, verdict[q].selected>> : q \in Waiting},
    over     <- ranOut,
    revealed <- {q \in Questions : verdict[q].reveal # {}},
    right    <- {q \in Questions : verdict[q].right = "yes"},
    points   <- scored,
    unlocked <- furthest

\* Requests, generations, storage, revisits, restarts and reloads implement
\* the abstract quiz: the correct options are told only for a complete answer
\* or after the deadline, a point is for a submitted correct one, and neither
\* a stale answer nor a reload shows, credits or unlocks anything else.
ImplementsQuiz == Quiz!Spec
=============================================================================
