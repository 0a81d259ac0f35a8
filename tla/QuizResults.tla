----------------------------- MODULE QuizResults -----------------------------
(***************************************************************************)
(* What a finished topic quiz leaves behind: the attempt id, the marker    *)
(* that Results was reached, the result snapshot in sessionStorage and the *)
(* high scores, through every way of starting, finishing, restarting and   *)
(* leaving a quiz, the browser's history and reloads.                      *)
(*                                                                         *)
(* How a question comes to be answered is TopicQuiz's matter; here it is   *)
(* right, or missed (out of time, or the last one judged otherwise).       *)
(* Attempt ids are numbered as they are minted.  Of the rows' dates the    *)
(* model keeps which are past the seven days after which a row is dropped: *)
(* the list is sorted by date, so these are its last ones.  Typed          *)
(* addresses of other quizzes' questions are left out.                     *)
(***************************************************************************)
EXTENDS Naturals, FiniteSets, Sequences

CONSTANTS
    Quizzes,
    N,            \* questions of each quiz
    MaxRows,      \* MAX_HIGH_SCORES
    MaxAttempts,  \* bound on the attempt ids minted
    MaxRuns,      \* bound on the runs
    None          \* no quiz, no marker, no snapshot

Questions == 1 .. N
Marker    == [quiz : Quizzes, attempt : Nat]
Snapshot  == [quiz : Quizzes, correct : Nat]
Row       == [quiz : Quizzes, correct : Nat, attempt : Nat]
Finished  == [quiz : Quizzes, correct : Nat, attempt : Nat]

ASSUME QuizResultsAssumption ==
    /\ N \in Nat \ {0} /\ MaxRows \in Nat \ {0}
    /\ MaxAttempts \in Nat /\ MaxRuns \in Nat
    /\ None \notin Quizzes /\ None \notin Marker /\ None \notin Snapshot

VARIABLES
    page,      \* "select", "quiz" or "results"
    quiz,      \* QuizService.quizId
    position,  \* the displayed question
    answered,  \* questions right or missed in this run
    credited,  \* questionCorrectness
    count,     \* correctAnswersCount
    loaded,    \* totalQuestions > 0
    attempt,   \* currentAttemptId, 0 before the first
    marker,    \* SK_RESULTS_REACHED_ATTEMPT
    snapshot,  \* finalResult in sessionStorage
    rows,      \* highScoresLocal, newest first
    fresh,     \* how many of them, from the first, are within seven days
    run,       \* observation: runs started
    done       \* observation: what each finished run had right

quizVars   == <<position, answered, credited>>
scoreVars  == <<rows, fresh>>
resultVars == <<marker, snapshot, scoreVars>>
vars == <<page, quiz, quizVars, count, loaded, attempt, resultVars, run, done>>

Init ==
    /\ page = "select" /\ quiz = None
    /\ position = 1 /\ answered = {} /\ credited = {} /\ count = 0
    /\ loaded = FALSE /\ attempt = 0
    /\ marker = None /\ snapshot = None
    /\ rows = <<>> /\ fresh = 0
    /\ run = 0 /\ done = {}

-----------------------------------------------------------------------------
(* The quiz itself.                                                        *)

AnswerRight ==
    /\ page = "quiz" /\ position \notin credited
    /\ position \in answered => position = N
    /\ answered' = answered \cup {position}
    /\ credited' = credited \cup {position} /\ count' = count + 1
    /\ UNCHANGED <<page, quiz, position, loaded, attempt, resultVars, run, done>>

\* Out of time, or the last question judged without being right.
Miss ==
    /\ page = "quiz" /\ position \notin answered
    /\ answered' = answered \cup {position}
    /\ UNCHANGED <<page, quiz, position, credited, count, loaded, attempt,
                   resultVars, run, done>>

Move(i) ==
    /\ page = "quiz" /\ i \in Questions
    /\ i = position + 1 => position \in answered
    /\ i \in {position - 1, position + 1}
    /\ position' = i
    /\ UNCHANGED <<page, quiz, answered, credited, count, loaded, attempt,
                   resultVars, run, done>>

-----------------------------------------------------------------------------
(* Results.                                                                *)

\* Mutant: any quiz's snapshot will do.
HasAnyResult(q, m) ==
    IF snapshot # None THEN TRUE
    ELSE loaded /\ attempt > 0 /\ m = [quiz |-> q, attempt |-> attempt]

\* hasValidResultFor, with the marker m: a snapshot decides by its own quiz,
\* and without one the marker must name this quiz and the current attempt.
HasValidResultFor(q, m) ==
    IF snapshot # None THEN snapshot.quiz = q
    ELSE loaded /\ attempt > 0 /\ m = [quiz |-> q, attempt |-> attempt]

\* The snapshot a Results page shows: the stored one, or one built now.
ShownResult(q) ==
    IF snapshot # None THEN snapshot ELSE [quiz |-> q, correct |-> count]

FreshRows == SubSeq(rows, 1, fresh)

\* The list without the rows past MAX_HIGH_SCORES.
Cut(list) == IF Len(list) > MaxRows THEN SubSeq(list, 1, MaxRows) ELSE list

\* A row that is not known yet is put first; the rows older than seven days
\* go, the row that made this one known among them.
Keep(row, known) ==
    /\ rows' = Cut(IF known THEN FreshRows ELSE <<row>> \o FreshRows)
    /\ fresh' = Len(rows')

Scored(q, correct) == [quiz |-> q, correct |-> correct, attempt |-> attempt]
Listed(test(_))    == \E i \in 1 .. Len(rows) : test(rows[i])

\* Mutants: every opening records; a row is known by its score; or by all.
RecordAlways(q, correct) == Keep(Scored(q, correct), FALSE)

RecordByScore(q, correct) ==
    LET same(r) == r.quiz = q /\ r.correct = correct
    IN  Keep(Scored(q, correct), Listed(same))

RecordByContent(q, correct) ==
    LET same(r) == r = Scored(q, correct)
    IN  Keep(Scored(q, correct), Listed(same))

\* recordCompletedQuizScore: one row per attempt.
Record(q, correct) ==
    LET same(r) == r.attempt = attempt
    IN  Keep(Scored(q, correct), attempt = 0 \/ Listed(same))

\* sendCorrectCountToResults: a zero does not overwrite credited questions.
SentCount(value) ==
    IF value = 0 THEN Cardinality(credited) ELSE value

\* The Results page of quiz q comes up: the marker, the snapshot, the count
\* and the row.
Open(q) ==
    /\ page' = "results" /\ quiz' = q /\ loaded' = TRUE
    /\ marker' = [quiz |-> q, attempt |-> attempt]
    /\ snapshot' = ShownResult(q)
    /\ count' = SentCount(snapshot'.correct)
    /\ Record(q, snapshot'.correct)
    /\ UNCHANGED <<quizVars, attempt, run>>

\* Show Results on the last question marks Results as reached, then goes.
ShowResults ==
    /\ page = "quiz" /\ position = N /\ N \in answered
    /\ HasValidResultFor(quiz, [quiz |-> quiz, attempt |-> attempt])
    /\ Open(quiz)
    /\ done' = done \cup {[quiz |-> quiz, correct |-> Cardinality(credited),
                           attempt |-> attempt]}

\* The address of a Results page, from the history or typed.
OpenResults(q) ==
    /\ HasValidResultFor(q, marker)
    /\ Open(q) /\ UNCHANGED done

BackToQuiz ==
    /\ page = "results" /\ page' = "quiz" /\ position' = N
    /\ UNCHANGED <<quiz, answered, credited, count, loaded, attempt,
                   resultVars, run, done>>

-----------------------------------------------------------------------------
(* Starting, restarting, leaving.                                          *)

MintAttempt == attempt < MaxAttempts /\ attempt' = attempt + 1

\* Mutant: the answers go, the score stays.
ClearAnswersOnly ==
    /\ position' = 1 /\ answered' = {} /\ credited' = {}
    /\ UNCHANGED count

\* resetAll and resetScore.
ClearRun ==
    /\ position' = 1 /\ answered' = {} /\ credited' = {}
    /\ count' = 0

\* Start from the introduction: everything of an earlier run goes.
StartQuiz(q) ==
    /\ page = "select" /\ run < MaxRuns
    /\ MintAttempt /\ ClearRun /\ snapshot' = None
    /\ page' = "quiz" /\ quiz' = q /\ loaded' = TRUE /\ run' = run + 1
    /\ UNCHANGED <<marker, scoreVars, done>>

\* The questions could not be loaded: the resets have happened.
StartFails(q) ==
    /\ page = "select"
    /\ MintAttempt /\ ClearRun /\ snapshot' = None /\ quiz' = q
    /\ UNCHANGED <<page, loaded, marker, scoreVars, run, done>>

\* Restart in the quiz, past its first question.
InQuizRestart ==
    /\ page = "quiz" /\ position > 1 /\ run < MaxRuns
    /\ MintAttempt /\ ClearRun /\ run' = run + 1
    /\ UNCHANGED <<page, quiz, loaded, resultVars, done>>

\* Restart on Results: the attempt id is kept.
ReturnRestart ==
    /\ page = "results" /\ run < MaxRuns
    /\ ClearRun /\ snapshot' = None
    /\ page' = "quiz" /\ run' = run + 1
    /\ UNCHANGED <<quiz, loaded, attempt, marker, scoreVars, done>>

\* Select another quiz, from the header of Results: the snapshot goes, the
\* count stays.
ResultsSelectQuiz ==
    /\ page = "results" /\ page' = "select"
    /\ snapshot' = None
    /\ position' = 1 /\ answered' = {} /\ credited' = {}
    /\ UNCHANGED <<quiz, count, loaded, attempt, marker, scoreVars, run, done>>

\* The same, from the foot of Results: the snapshot stays too.
ReturnSelectQuiz ==
    /\ page = "results" /\ page' = "select"
    /\ position' = 1 /\ answered' = {} /\ credited' = {}
    /\ UNCHANGED <<quiz, count, loaded, attempt, resultVars, run, done>>

\* Memory is gone: Results re-opens from storage, a quiz loads its questions
\* again, the selection page knows none.
Reload ==
    \/ page = "results" /\ OpenResults(quiz)
    \/ /\ page = "select" /\ loaded' = FALSE
       /\ UNCHANGED <<page, quiz, quizVars, count, attempt, resultVars, run,
                      done>>

\* Time passes: of the rows within seven days, the oldest are not any more.
Age ==
    /\ fresh' \in 0 .. fresh - 1
    /\ UNCHANGED <<page, quiz, quizVars, count, loaded, attempt, marker,
                   snapshot, rows, run, done>>

Next ==
    \/ AnswerRight \/ Miss \/ Age
    \/ \E i \in Questions : Move(i)
    \/ ShowResults \/ BackToQuiz
    \/ \E q \in Quizzes : OpenResults(q) \/ StartQuiz(q) \/ StartFails(q)
    \/ InQuizRestart \/ ReturnRestart
    \/ ResultsSelectQuiz \/ ReturnSelectQuiz
    \/ Reload

Spec == Init /\ [][Next]_vars

-----------------------------------------------------------------------------
(* Properties.                                                             *)

\* Every variable is of its type.
TypeOK ==
    /\ page \in {"select", "quiz", "results"} /\ quiz \in Quizzes \cup {None}
    /\ position \in Questions
    /\ answered \subseteq Questions /\ credited \subseteq Questions
    /\ count \in Nat /\ loaded \in BOOLEAN /\ attempt \in Nat
    /\ marker \in Marker \cup {None} /\ snapshot \in Snapshot \cup {None}
    /\ rows \in Seq(Row) /\ Len(rows) <= MaxRows
    /\ fresh \in 0 .. Len(rows)
    /\ run \in Nat /\ done \subseteq Finished
    /\ page # "select" => quiz \in Quizzes

\* However often an attempt's Results are opened, refreshed or reached again
\* after a restart, it has one row at most (recordCompletedQuizScore).
OneRowPerAttempt ==
    \A i, j \in 1 .. Len(rows) : rows[i].attempt = rows[j].attempt => i = j

\* Results of a quiz only show if a run of that quiz was finished: no start,
\* failed start, restart, quiz change or address in the history leaves a
\* marker or snapshot that lets another one through (hasValidResultFor).
ResultsWereReached ==
    page = "results" => \E d \in done : d.quiz = quiz

OwnRow(i) == rows[i].attempt = attempt

\* The attempt whose Results come up is in the high scores, under the quiz it
\* was of (finalization in ngOnInit) - unless its row was more than a week old:
\* known, and so not entered, but dropped.
CurrentAttemptListed ==
    [][page' = "results" /\ ~Age =>
           \/ \E i \in 1 .. Len(rows') : OwnRow(i)' /\ rows'[i].quiz = quiz'
           \/ \E i \in fresh + 1 .. Len(rows) : OwnRow(i)]_vars

\* No result is above all questions right, although the count itself can be:
\* it is credited on top of what an opened snapshot put there
\* (applyFinalResultSnapshot, resetScore).
ScoresInRange ==
    /\ \A i \in 1 .. Len(rows) : rows[i].correct <= N
    /\ snapshot # None => snapshot.correct <= N

\* Refreshing Results changes neither marker, snapshot nor count, and of the
\* high scores only drops what is more than a week old, unless the opening
\* before dropped the attempt's own row: then the refresh enters it anew
\* (getFinalResultSnapshot, recordCompletedQuizScore).
RefreshChangesNothing ==
    [][page = "results" /\ page' = "results" /\ quiz' = quiz =>
           /\ UNCHANGED <<marker, snapshot, count>>
           /\ \/ rows' \in {rows, FreshRows}
              \/ \A i \in 1 .. Len(rows) : ~OwnRow(i)]_vars

\* A row states what its own attempt scored: Restart in the quiz is "a NEW
\* attempt", whose row is the retake's own.
RowsAreOfTheirAttempt ==
    \A i \in 1 .. Len(rows) :
        \E d \in done : /\ d.attempt = rows[i].attempt
                        /\ d.quiz = rows[i].quiz
                        /\ d.correct = rows[i].correct

Entries(list) == {list[i] : i \in 1 .. Len(list)}
Stale         == {rows[i] : i \in fresh + 1 .. Len(rows)}
Completed     == {d.quiz : d \in done}
Showing       == IF page = "results" THEN quiz ELSE None

Book == INSTANCE ScoreBook WITH
    finished <- Completed, showing <- Showing, book <- Entries(rows), old <- Stale

\* Markers, snapshots, restarts, the history and reloads implement the book of
\* scores: Results only of a finished quiz, one entry per attempt, made when its
\* Results show without one, never changed, and lost only past seven days or as
\* the oldest of a full list.
ImplementsBook == Book!Spec
=============================================================================
