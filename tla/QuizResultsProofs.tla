-------------------------- MODULE QuizResultsProofs --------------------------
(***************************************************************************)
(* Theorems about QuizResults, for any quizzes, questions, attempts, runs  *)
(* and length of the high scores.                                          *)
(***************************************************************************)
EXTENDS QuizResults, FiniteSetTheorems, TLAPS

\* No row is of an attempt to come, or of another quiz under this attempt.
RowsBelong ==
    \A i \in 1 .. Len(rows) :
        /\ rows[i].attempt <= attempt
        /\ rows[i].attempt = attempt => rows[i].quiz = quiz

\* Whatever survives of an attempt - the snapshot, its marker, its row - is of
\* the quiz that is open, until the next attempt is minted; and all of it is
\* of a quiz some run of which was finished.
OfThisQuiz ==
    /\ page # "select" \/ snapshot # None \/ marker # None => attempt > 0
    /\ snapshot # None => snapshot.quiz = quiz
    /\ marker # None => marker.attempt <= attempt
    /\ marker # None /\ marker.attempt = attempt => marker.quiz = quiz
    /\ RowsBelong

Reached ==
    /\ snapshot # None => \E d \in done : d.quiz = snapshot.quiz
    /\ marker # None => \E d \in done : d.quiz = marker.quiz

\* The count is that of the credited questions unless a snapshot stands; it is
\* within range wherever a snapshot may be made of it.
Counted ==
    /\ snapshot = None => count <= N
    /\ snapshot = None /\ page = "quiz" => count = Cardinality(credited)
    /\ page = "results" =>
          /\ marker = [quiz |-> quiz, attempt |-> attempt]
          /\ snapshot # None /\ count = SentCount(snapshot.correct)
          /\ count <= N

ResultsInv ==
    /\ TypeOK /\ OneRowPerAttempt /\ OfThisQuiz /\ Reached
    /\ ResultsWereReached /\ Counted /\ ScoresInRange

-----------------------------------------------------------------------------
(* The high scores.                                                        *)

LEMMA RowsOf ==
    ASSUME rows \in Seq(Row)
    PROVE  \A i \in 1 .. Len(rows) :
               rows[i].quiz \in Quizzes /\ rows[i].correct \in Nat /\ rows[i].attempt \in Nat
<1> SUFFICES ASSUME NEW i \in 1 .. Len(rows)
             PROVE  rows[i].quiz \in Quizzes /\ rows[i].correct \in Nat
                        /\ rows[i].attempt \in Nat
    OBVIOUS
<1>1. rows[i] \in Row
    OBVIOUS
<1>2. QED
    BY <1>1 DEF Row

\* Cutting keeps the first rows, and all of a list that is not too long.
LEMMA CutList ==
    ASSUME NEW list \in Seq(Row)
    PROVE  /\ Cut(list) \in Seq(Row) /\ Len(Cut(list)) \in Nat
           /\ Len(Cut(list)) <= MaxRows /\ Len(Cut(list)) <= Len(list)
           /\ \A i \in 1 .. Len(Cut(list)) : Cut(list)[i] = list[i]
           /\ Len(Cut(list)) # Len(list) => Len(Cut(list)) = MaxRows
           /\ Len(list) <= MaxRows => Cut(list) = list
<1>1. Len(list) \in Nat /\ MaxRows \in Nat
    BY QuizResultsAssumption
<1>2. CASE Len(list) > MaxRows
    <2>1. Cut(list) = SubSeq(list, 1, MaxRows)
        BY <1>2 DEF Cut
    <2>2. /\ SubSeq(list, 1, MaxRows) \in Seq(Row)
          /\ Len(SubSeq(list, 1, MaxRows)) = MaxRows
          /\ \A i \in 1 .. MaxRows : SubSeq(list, 1, MaxRows)[i] = list[i]
        BY <1>1, <1>2
    <2>3. QED
        BY <1>1, <1>2, <2>1, <2>2
<1>3. CASE ~(Len(list) > MaxRows)
    <2>1. Cut(list) = list
        BY <1>3 DEF Cut
    <2>2. QED
        BY <1>1, <1>3, <2>1
<1>4. QED
    BY <1>2, <1>3

LEMMA FreshList ==
    ASSUME TypeOK
    PROVE  /\ FreshRows \in Seq(Row) /\ Len(FreshRows) = fresh
           /\ fresh \in Nat /\ Len(rows) \in Nat /\ fresh <= Len(rows)
           /\ \A i \in 1 .. fresh : i \in 1 .. Len(rows) /\ FreshRows[i] = rows[i]
<1>1. rows \in Seq(Row) /\ Len(rows) \in Nat /\ fresh \in 0 .. Len(rows)
    BY DEF TypeOK
<1>2. QED
    BY <1>1 DEF FreshRows

\* An opening adds a row for an attempt that has none, in front, and keeps the
\* fresh ones behind it, none but the last of which is lost.
Known   == \E i \in 1 .. Len(rows) : OwnRow(i)
Led(by) ==
    /\ Len(rows') \in 1 .. fresh + 1 /\ rows'[1] = by
    /\ \A i \in 2 .. Len(rows') :
          i - 1 \in 1 .. fresh /\ i - 1 \in 1 .. Len(rows) /\ rows'[i] = rows[i - 1]
    /\ Len(rows') # fresh + 1 => Len(rows') = MaxRows

LEMMA Recorded ==
    ASSUME TypeOK, NEW q \in Quizzes, NEW correct \in Nat, attempt > 0,
           Record(q, correct)
    PROVE  /\ rows' \in Seq(Row) /\ Len(rows') <= MaxRows /\ Len(rows') \in Nat
           /\ fresh' = Len(rows')
           /\ \/ Known /\ rows' = FreshRows
              \/ ~Known /\ Led(Scored(q, correct))
<1>1. /\ rows' = Cut(IF Known THEN FreshRows ELSE <<Scored(q, correct)>> \o FreshRows)
      /\ fresh' = Len(rows')
    <2>1. attempt # 0
        BY DEF TypeOK
    <2>2. QED
        BY <2>1 DEF Record, Keep, Listed, Known, OwnRow
<1>2. FreshRows \in Seq(Row) /\ Len(FreshRows) = fresh /\ fresh <= MaxRows
          /\ fresh \in Nat /\ MaxRows \in Nat /\ MaxRows > 0
    <2>1. Len(rows) <= MaxRows
        BY DEF TypeOK
    <2>2. QED
        BY <2>1, FreshList, QuizResultsAssumption
<1>3. CASE Known
    <2>1. rows' = FreshRows
        BY <1>1, <1>2, <1>3, CutList
    <2>2. QED
        BY <1>1, <1>2, <1>3, <2>1
<1>4. CASE ~Known
    <2> DEFINE row    == Scored(q, correct)
               longer == <<row>> \o FreshRows
    <2>1. row \in Row
        BY DEF Scored, Row, TypeOK
    <2> HIDE DEF row
    <2>2. /\ longer \in Seq(Row) /\ Len(longer) = fresh + 1 /\ longer[1] = row
          /\ \A i \in 2 .. fresh + 1 : longer[i] = FreshRows[i - 1]
        BY <1>2, <2>1
    <2>3. rows' = Cut(longer)
        BY <1>1, <1>4 DEF row
    <2> HIDE DEF longer
    <2>4. /\ rows' \in Seq(Row) /\ Len(rows') \in Nat
          /\ Len(rows') <= MaxRows /\ Len(rows') <= fresh + 1
          /\ \A i \in 1 .. Len(rows') : rows'[i] = longer[i]
          /\ Len(rows') # fresh + 1 => Len(rows') = MaxRows
        BY <2>2, <2>3, CutList
    <2>5. Len(rows') \in 1 .. fresh + 1 /\ rows'[1] = row
        BY <1>2, <2>2, <2>4
    <2>6. ASSUME NEW i \in 2 .. Len(rows')
          PROVE  i - 1 \in 1 .. fresh /\ i - 1 \in 1 .. Len(rows) /\ rows'[i] = rows[i - 1]
        <3>1. i \in 1 .. Len(rows') /\ i \in 2 .. fresh + 1 /\ i - 1 \in 1 .. fresh
            BY <1>2, <2>4
        <3>2. rows'[i] = FreshRows[i - 1]
            BY <2>2, <2>4, <3>1
        <3>3. QED
            BY <3>1, <3>2, FreshList
    <2>7. Led(row)
        BY <2>4, <2>5, <2>6 DEF Led
    <2>8. QED
        BY <1>1, <1>4, <2>4, <2>7 DEF row
<1>5. QED
    BY <1>3, <1>4

LEMMA CreditedCount ==
    ASSUME credited \subseteq Questions
    PROVE  /\ IsFiniteSet(credited)
           /\ Cardinality(credited) \in Nat /\ Cardinality(credited) <= N
<1>1. N \in Nat
    BY QuizResultsAssumption
<1>2. IsFiniteSet(Questions) /\ Cardinality(Questions) = N
    BY <1>1, FS_Interval DEF Questions
<1>3. QED
    BY <1>2, FS_Subset, FS_CardinalityType

LEMMA ResultsInit == Init => ResultsInv
<1> SUFFICES ASSUME Init PROVE ResultsInv
    OBVIOUS
<1> USE QuizResultsAssumption DEF Init
<1>1. 1 \in Questions /\ rows = <<>> /\ Len(rows) = 0
    BY DEF Questions
<1>2. Cardinality({}) = 0
    BY FS_EmptySet
<1>3. TypeOK
    <2>1. rows \in Seq(Row) /\ Len(rows) <= MaxRows /\ fresh \in 0 .. Len(rows)
        BY <1>1
    <2>2. /\ page \in {"select", "quiz", "results"} /\ quiz \in Quizzes \cup {None}
          /\ loaded \in BOOLEAN /\ attempt \in Nat /\ count \in Nat /\ run \in Nat
        BY DEF Init
    <2>3. QED
        BY <1>1, <2>1, <2>2 DEF TypeOK
<1>4. OneRowPerAttempt /\ OfThisQuiz /\ Reached
    BY <1>1 DEF OneRowPerAttempt, OfThisQuiz, RowsBelong, Reached
<1>5. ResultsWereReached /\ Counted /\ ScoresInRange
    BY <1>1, <1>2 DEF ResultsWereReached, Counted, ScoresInRange
<1>6. QED
    BY <1>3, <1>4, <1>5 DEF ResultsInv

-----------------------------------------------------------------------------
(* Opening Results.                                                        *)

\* The marker that lets Results open, and what was finished by then.
Opens(q, m) ==
    /\ q \in Quizzes /\ HasValidResultFor(q, m) /\ Open(q)
    /\ m \in {marker, [quiz |-> quiz, attempt |-> attempt]}
    /\ m # marker => page = "quiz" /\ q = quiz
    /\ done \subseteq done' /\ done' \subseteq Finished
    /\ m # marker => \E d \in done' : d.quiz = q

\* Only the open quiz's Results open, and an attempt was minted for it.
LEMMA OpensThisQuiz ==
    ASSUME ResultsInv, NEW q, NEW m, Opens(q, m)
    PROVE  /\ q = quiz /\ attempt > 0
           /\ \E d \in done' : d.quiz = q
           /\ attempt \in Nat
<1>1. attempt \in Nat /\ (marker # None => marker \in Marker)
      /\ (snapshot # None => snapshot \in Snapshot)
    BY DEF ResultsInv, TypeOK
<1>2. CASE snapshot # None
    <2>1. snapshot.quiz = q
        BY <1>2 DEF Opens, HasValidResultFor
    <2>2. QED
        BY <1>1, <1>2, <2>1 DEF ResultsInv, OfThisQuiz, Reached, Opens
<1>3. CASE snapshot = None
    <2>1. attempt > 0 /\ m = [quiz |-> q, attempt |-> attempt]
        BY <1>3 DEF Opens, HasValidResultFor
    <2>2. CASE m # marker
        BY <1>1, <2>1, <2>2 DEF Opens
    <2>3. CASE m = marker
        <3>1. marker.quiz = q /\ marker.attempt = attempt
            BY <2>1, <2>3
        <3>2. marker # None
            <4>1. m \in Marker
                BY <1>1, <2>1 DEF Opens, Marker
            <4>2. QED
                BY <2>3, <4>1, QuizResultsAssumption
        <3>3. QED
            BY <1>1, <2>1, <3>1, <3>2 DEF ResultsInv, OfThisQuiz, Reached, Opens
    <2>4. QED
        BY <2>2, <2>3
<1>4. QED
    BY <1>2, <1>3

\* What an opening leaves behind.
LEMMA Opened ==
    ASSUME ResultsInv, NEW q, NEW m, Opens(q, m)
    PROVE  ResultsInv'
<1> USE DEF quizVars
<1>1. /\ q = quiz /\ q \in Quizzes /\ attempt \in Nat /\ attempt > 0
      /\ \E d \in done' : d.quiz = q
    BY OpensThisQuiz DEF Opens
<1>2. /\ page' = "results" /\ quiz' = quiz /\ loaded' = TRUE
      /\ marker' = [quiz |-> quiz, attempt |-> attempt]
      /\ snapshot' = ShownResult(quiz) /\ count' = SentCount(snapshot'.correct)
      /\ Record(quiz, snapshot'.correct)
      /\ UNCHANGED <<position, answered, credited, attempt, run>>
    BY <1>1 DEF Opens, Open
<1>3. /\ rows \in Seq(Row) /\ count \in Nat /\ credited \subseteq Questions
      /\ snapshot \in Snapshot \cup {None} /\ N \in Nat
    BY QuizResultsAssumption DEF ResultsInv, TypeOK
<1>4. /\ marker' \in Marker /\ marker' # None
      /\ marker'.quiz = quiz' /\ marker'.attempt = attempt'
    BY <1>1, <1>2, QuizResultsAssumption DEF Marker
<1>5. /\ snapshot' \in Snapshot /\ snapshot' # None
      /\ snapshot'.quiz = quiz' /\ snapshot'.correct \in Nat /\ snapshot'.correct <= N
    <2>1. CASE snapshot # None
        <3>1. snapshot' = snapshot
            BY <1>2, <2>1 DEF ShownResult
        <3>2. QED
            BY <1>2, <1>3, <2>1, <3>1 DEF Snapshot, ResultsInv, OfThisQuiz, ScoresInRange
    <2>2. CASE snapshot = None
        <3>1. snapshot' = [quiz |-> quiz, correct |-> count] /\ count <= N
            BY <1>2, <2>2 DEF ShownResult, ResultsInv, Counted
        <3>2. QED
            BY <1>1, <1>2, <1>3, <3>1, QuizResultsAssumption DEF Snapshot
    <2>3. QED
        BY <2>1, <2>2
<1>6. count' \in Nat /\ count' <= N
    BY <1>2, <1>3, <1>5, CreditedCount DEF SentCount
<1>7. /\ TypeOK' /\ OneRowPerAttempt' /\ RowsBelong'
      /\ \A i \in 1 .. Len(rows') : rows'[i].correct <= N
    <2> DEFINE row == Scored(quiz, snapshot'.correct)
    <2>1. /\ rows' \in Seq(Row) /\ Len(rows') <= MaxRows /\ Len(rows') \in Nat
          /\ fresh' = Len(rows')
          /\ (Known /\ rows' = FreshRows) \/ (~Known /\ Led(row))
        BY <1>1, <1>2, <1>5, Recorded DEF ResultsInv
    <2>2. TypeOK'
        <3>1. fresh' \in 0 .. Len(rows')
            BY <2>1
        <3>2. QED
            BY <1>1, <1>2, <1>3, <1>4, <1>5, <1>6, <2>1, <3>1 DEF ResultsInv, TypeOK, Opens
    <2>3. /\ \A i \in 1 .. fresh : i \in 1 .. Len(rows) /\ FreshRows[i] = rows[i]
          /\ Len(FreshRows) = fresh /\ fresh \in Nat
        BY FreshList DEF ResultsInv
    <2>4. /\ row.quiz = quiz /\ row.attempt = attempt /\ row.correct = snapshot'.correct
        BY DEF Scored
    <2> HIDE DEF row
    <2>5. CASE Known /\ rows' = FreshRows
        <3>1. Len(rows') = fresh /\ \A i \in 1 .. fresh : rows'[i] = rows[i]
            BY <2>3, <2>5
        <3>2. OneRowPerAttempt'
            BY <2>3, <3>1 DEF ResultsInv, OneRowPerAttempt
        <3>3. RowsBelong'
            BY <1>2, <2>3, <3>1 DEF ResultsInv, OfThisQuiz, RowsBelong
        <3>4. \A i \in 1 .. Len(rows') : rows'[i].correct <= N
            BY <2>3, <3>1 DEF ResultsInv, ScoresInRange
        <3>5. QED
            BY <2>2, <3>2, <3>3, <3>4
    <2>6. CASE ~Known /\ Led(row)
        <3>1. /\ Len(rows') \in 1 .. fresh + 1 /\ rows'[1] = row
              /\ \A i \in 2 .. Len(rows') : i - 1 \in 1 .. Len(rows) /\ rows'[i] = rows[i - 1]
              /\ \A i \in 1 .. Len(rows) : rows[i].attempt # attempt
            BY <2>6 DEF Led, Known, OwnRow
        <3>2. ASSUME NEW i \in 1 .. Len(rows')
              PROVE  i = 1 \/ i \in 2 .. Len(rows')
            BY <2>1
        <3>3. OneRowPerAttempt'
            <4> SUFFICES ASSUME NEW i \in 1 .. Len(rows'), NEW j \in 1 .. Len(rows'),
                                rows'[i].attempt = rows'[j].attempt
                         PROVE  i = j
                BY DEF OneRowPerAttempt
            <4>1. CASE i = 1 \/ j = 1
                BY <2>4, <3>1, <3>2, <4>1
            <4>2. CASE i # 1 /\ j # 1
                <5>1. /\ i - 1 \in 1 .. Len(rows) /\ rows'[i] = rows[i - 1]
                      /\ j - 1 \in 1 .. Len(rows) /\ rows'[j] = rows[j - 1]
                    BY <3>1, <3>2, <4>2
                <5>2. i - 1 = j - 1
                    BY <5>1 DEF ResultsInv, OneRowPerAttempt
                <5>3. QED
                    BY <2>1, <5>2
            <4>3. QED
                BY <4>1, <4>2
        <3>4. ASSUME NEW i \in 1 .. Len(rows')
              PROVE  /\ rows'[i].attempt <= attempt' /\ rows'[i].correct <= N
                     /\ rows'[i].attempt = attempt' => rows'[i].quiz = quiz'
            <4>1. CASE i = 1
                BY <1>1, <1>2, <1>5, <2>4, <3>1, <4>1
            <4>2. CASE i # 1
                <5>1. i - 1 \in 1 .. Len(rows) /\ rows'[i] = rows[i - 1]
                    BY <3>1, <3>2, <4>2
                <5>2. QED
                    BY <1>2, <5>1 DEF ResultsInv, OfThisQuiz, RowsBelong, ScoresInRange
            <4>3. QED
                BY <4>1, <4>2
        <3>5. QED
            BY <2>2, <3>3, <3>4 DEF RowsBelong
    <2>7. QED
        BY <2>1, <2>5, <2>6
<1>8. ScoresInRange'
    <2>1. \A i \in 1 .. Len(rows') : rows'[i].correct <= N
        BY <1>7
    <2>2. snapshot'.correct <= N
        BY <1>5
    <2>3. QED
        BY <2>1, <2>2 DEF ScoresInRange
<1>9. ResultsWereReached'
    BY <1>1, <1>2 DEF ResultsWereReached
<1>10. Reached'
    BY <1>1, <1>2, <1>4, <1>5 DEF Reached
<1>11. Counted'
    BY <1>2, <1>4, <1>5, <1>6 DEF Counted, SentCount
<1>12. OfThisQuiz'
    <2>1. attempt' > 0 /\ attempt' = attempt /\ attempt \in Nat
        BY <1>1, <1>2
    <2>2. QED
        <3>1. RowsBelong'
            BY <1>7
        <3>2. /\ marker'.attempt = attempt' /\ marker'.quiz = quiz'
              /\ snapshot'.quiz = quiz'
            BY <1>4, <1>5
        <3>3. QED
            BY <2>1, <3>1, <3>2 DEF OfThisQuiz
<1>13. QED
    BY <1>7, <1>8, <1>9, <1>10, <1>11, <1>12 DEF ResultsInv

\* Show Results, the history and a reload of Results all open them.
LEMMA ResultsOpen ==
    ASSUME ResultsInv,
           ShowResults \/ (\E q \in Quizzes : OpenResults(q))
                       \/ (page = "results" /\ OpenResults(quiz))
    PROVE  \E q, m : Opens(q, m)
<1>1. /\ done \subseteq Finished /\ attempt \in Nat /\ run \in Nat
      /\ credited \subseteq Questions /\ (page # "select" => quiz \in Quizzes)
    BY DEF ResultsInv, TypeOK
<1>2. ASSUME ShowResults
      PROVE  Opens(quiz, [quiz |-> quiz, attempt |-> attempt])
    <2> DEFINE d == [quiz |-> quiz, correct |-> Cardinality(credited),
                     attempt |-> attempt]
    <2>1. d \in Finished /\ d.quiz = quiz
        BY <1>1, <1>2, CreditedCount DEF Finished, ShowResults
    <2>2. done' = done \cup {d}
        BY <1>2 DEF ShowResults
    <2> HIDE DEF d
    <2>3. QED
        BY <1>1, <1>2, <2>1, <2>2 DEF ShowResults, Opens
<1>3. ASSUME NEW q \in Quizzes, OpenResults(q)
      PROVE  Opens(q, marker)
    BY <1>1, <1>3 DEF OpenResults, Opens
<1>4. QED
    BY <1>1, <1>2, <1>3

-----------------------------------------------------------------------------
(* Everything else.                                                        *)

\* A step that stays in the attempt and does not open Results, and one that
\* mints the next: what survives is still of the open quiz.
LEMMA StaysInAttempt ==
    ASSUME ResultsInv, TypeOK', Counted',
           UNCHANGED <<quiz, attempt, marker, rows, done>>,
           snapshot' \in {snapshot, None},
           page' # "results", page' = "select" \/ page # "select"
    PROVE  ResultsInv'
<1>1. OneRowPerAttempt' /\ ResultsWereReached'
    BY DEF ResultsInv, OneRowPerAttempt, ResultsWereReached
<1>2. OfThisQuiz'
    BY DEF ResultsInv, OfThisQuiz, RowsBelong
<1>3. Reached' /\ ScoresInRange'
    BY DEF ResultsInv, Reached, ScoresInRange
<1>4. QED
    BY <1>1, <1>2, <1>3 DEF ResultsInv

LEMMA MintsTheNext ==
    ASSUME ResultsInv, TypeOK', Counted',
           attempt' = attempt + 1, UNCHANGED <<marker, rows, done>>,
           snapshot' = None \/ (snapshot' = snapshot /\ quiz' = quiz),
           page' # "results"
    PROVE  ResultsInv'
<1>1. /\ attempt \in Nat /\ rows \in Seq(Row)
      /\ (marker # None => marker \in Marker)
    BY DEF ResultsInv, TypeOK
<1>2. OneRowPerAttempt' /\ ResultsWereReached'
    BY DEF ResultsInv, OneRowPerAttempt, ResultsWereReached
<1>3. OfThisQuiz'
    <2>1. RowsBelong'
        BY <1>1, RowsOf DEF ResultsInv, OfThisQuiz, RowsBelong
    <2>2. marker # None => marker.attempt < attempt' /\ marker.attempt \in Nat
        BY <1>1 DEF ResultsInv, OfThisQuiz, Marker
    <2>3. snapshot' # None => snapshot'.quiz = quiz'
        BY DEF ResultsInv, OfThisQuiz
    <2>4. QED
        BY <1>1, <2>1, <2>2, <2>3 DEF OfThisQuiz
<1>4. Reached' /\ ScoresInRange'
    BY DEF ResultsInv, Reached, ScoresInRange
<1>5. QED
    BY <1>2, <1>3, <1>4 DEF ResultsInv

LEMMA StepKeeps == ResultsInv /\ [Next]_vars => ResultsInv'
<1> SUFFICES ASSUME ResultsInv, [Next]_vars PROVE ResultsInv'
    OBVIOUS
<1> USE DEF quizVars, resultVars, scoreVars
<1>1. /\ TypeOK /\ Counted
      /\ 1 \in Questions /\ N \in Nat /\ N \in Questions /\ Questions \subseteq Nat
      /\ Cardinality({}) = 0 /\ {} \subseteq Questions
    BY QuizResultsAssumption, FS_EmptySet DEF ResultsInv, Questions
<1>2. CASE AnswerRight
    <2>1. /\ page = "quiz" /\ position \notin credited /\ position \in Questions
          /\ credited' = credited \cup {position} /\ count' = count + 1
          /\ UNCHANGED <<page, quiz, attempt, marker, snapshot, rows, done>>
        BY <1>1, <1>2 DEF AnswerRight, TypeOK
    <2>2. TypeOK'
        BY <1>1, <1>2 DEF AnswerRight, TypeOK
    <2>3. Cardinality(credited') = Cardinality(credited) + 1 /\ credited' \subseteq Questions
        BY <1>1, <2>1, CreditedCount, FS_AddElement DEF TypeOK
    <2>4. Cardinality(credited') <= N
        <3>1. IsFiniteSet(Questions) /\ Cardinality(Questions) = N
            BY <1>1, FS_Interval DEF Questions
        <3>2. QED
            BY <2>3, <3>1, FS_Subset
    <2>5. Counted'
        BY <1>1, <2>1, <2>3, <2>4 DEF Counted
    <2>6. QED
        BY <2>1, <2>2, <2>5, StaysInAttempt
<1>3. CASE Miss \/ \E i \in Questions : Move(i)
    <2>1. /\ page = "quiz"
          /\ UNCHANGED <<page, quiz, credited, count, attempt, marker, snapshot, rows,
                         done>>
        BY <1>3 DEF Miss, Move
    <2>2. TypeOK'
        BY <1>1, <1>3 DEF Miss, Move, TypeOK
    <2>3. Counted'
        BY <1>1, <2>1 DEF Counted
    <2>4. QED
        BY <2>1, <2>2, <2>3, StaysInAttempt
<1>4. CASE BackToQuiz
    <2>1. TypeOK' /\ Counted'
        BY <1>1, <1>4 DEF BackToQuiz, TypeOK, Counted
    <2>2. QED
        BY <1>4, <2>1, StaysInAttempt DEF BackToQuiz
<1>5. CASE ReturnRestart
    <2>1. TypeOK' /\ Counted'
        BY <1>1, <1>5 DEF ReturnRestart, ClearRun, TypeOK, Counted
    <2>2. QED
        BY <1>5, <2>1, StaysInAttempt DEF ReturnRestart
<1>6. CASE ResultsSelectQuiz \/ ReturnSelectQuiz
    <2>1. TypeOK' /\ Counted'
        BY <1>1, <1>6 DEF ResultsSelectQuiz, ReturnSelectQuiz, TypeOK, Counted
    <2>2. QED
        BY <1>6, <2>1, StaysInAttempt DEF ResultsSelectQuiz, ReturnSelectQuiz
<1>7. CASE \E q \in Quizzes : StartQuiz(q) \/ StartFails(q)
    <2>1. PICK q \in Quizzes : StartQuiz(q) \/ StartFails(q)
        BY <1>7
    <2>2. TypeOK' /\ Counted'
        <3>1. CASE StartQuiz(q)
            BY <1>1, <3>1 DEF StartQuiz, MintAttempt, ClearRun, TypeOK, Counted
        <3>2. CASE StartFails(q)
            BY <1>1, <3>2 DEF StartFails, MintAttempt, ClearRun, TypeOK, Counted
        <3>3. QED
            BY <2>1, <3>1, <3>2
    <2>3. QED
        BY <2>1, <2>2, MintsTheNext DEF StartQuiz, StartFails, MintAttempt
<1>8. CASE InQuizRestart
    <2>1. TypeOK' /\ Counted'
        BY <1>1, <1>8 DEF InQuizRestart, MintAttempt, ClearRun, TypeOK, Counted
    <2>2. QED
        BY <1>8, <2>1, MintsTheNext DEF InQuizRestart, MintAttempt
<1>9. CASE /\ page = "select" /\ loaded' = FALSE
           /\ UNCHANGED <<page, quiz, quizVars, count, attempt, resultVars, run, done>>
    <2>1. TypeOK' /\ Counted'
        BY <1>1, <1>9 DEF TypeOK, Counted
    <2>2. QED
        BY <1>9, <2>1, StaysInAttempt
<1>10. CASE ShowResults \/ (\E q \in Quizzes : OpenResults(q))
               \/ (page = "results" /\ OpenResults(quiz))
    BY <1>10, ResultsOpen, Opened
<1>11. CASE UNCHANGED vars
    <2>1. TypeOK'
        BY <1>1, <1>11 DEF TypeOK, vars
    <2>2. QED
        BY <1>11 DEF ResultsInv, TypeOK, OneRowPerAttempt, OfThisQuiz, RowsBelong,
                     Reached, ResultsWereReached, Counted, SentCount, ScoresInRange,
                     vars
<1>12. CASE Age
    <2>1. UNCHANGED <<page, quiz, position, answered, credited, count, loaded, attempt,
                      marker, snapshot, rows, run, done>>
        BY <1>12 DEF Age
    <2>2. TypeOK'
        <3>1. fresh' \in 0 .. Len(rows)
            BY <1>12, FreshList DEF Age, ResultsInv
        <3>2. QED
            BY <1>1, <2>1, <3>1 DEF TypeOK
    <2>3. QED
        BY <2>1, <2>2
           DEF ResultsInv, OneRowPerAttempt, OfThisQuiz, RowsBelong, Reached,
               ResultsWereReached, Counted, SentCount, ScoresInRange
<1>13. QED
    BY <1>2, <1>3, <1>4, <1>5, <1>6, <1>7, <1>8, <1>9, <1>10, <1>11, <1>12
       DEF Next, Reload

LEMMA ResultsInvAlways == Spec => []ResultsInv
<1>1. QED
    BY ResultsInit, StepKeeps, PTL DEF Spec

-----------------------------------------------------------------------------
(* The theorems.                                                           *)

\* Every variable keeps its type.
THEOREM ResultTypes == Spec => []TypeOK
BY ResultsInvAlways, PTL DEF ResultsInv

\* An attempt never has a second row of the high scores.
THEOREM AttemptHasOneRow == Spec => []OneRowPerAttempt
BY ResultsInvAlways, PTL DEF ResultsInv

\* No Results page shows for a quiz no run of which was finished.
THEOREM ResultsOnlyWhenReached == Spec => []ResultsWereReached
BY ResultsInvAlways, PTL DEF ResultsInv

\* No stored result is above the number of questions.
THEOREM ScoresStayInRange == Spec => []ScoresInRange
BY ResultsInvAlways, PTL DEF ResultsInv

\* Every step but the passing of time that shows Results opens them.
LEMMA ShowingOpens ==
    ASSUME ResultsInv, Next, ~Age, page' = "results"
    PROVE  \E q, m : Opens(q, m)
<1>1. \/ ShowResults \/ (\E q \in Quizzes : OpenResults(q))
      \/ page = "results" /\ OpenResults(quiz)
    BY DEF Next, AnswerRight, Miss, Move, BackToQuiz, StartQuiz, StartFails,
           InQuizRestart, ReturnRestart, ResultsSelectQuiz, ReturnSelectQuiz, Reload
<1>2. QED
    BY <1>1, ResultsOpen

\* What an opening does to the high scores.
LEMMA OpeningRecords ==
    ASSUME ResultsInv, ResultsInv', NEW q, NEW m, Opens(q, m)
    PROVE  /\ q = quiz /\ quiz' = quiz /\ attempt' = attempt /\ q \in Quizzes
           /\ snapshot'.correct \in 0 .. N /\ attempt \in Nat
           /\ Len(rows') \in Nat /\ fresh' = Len(rows')
           /\ \/ Known /\ rows' = FreshRows
              \/ ~Known /\ Led(Scored(q, snapshot'.correct))
<1>1. /\ q = quiz /\ q \in Quizzes /\ attempt \in Nat /\ attempt > 0
    BY OpensThisQuiz DEF Opens
<1>2. /\ page' = "results" /\ quiz' = q /\ attempt' = attempt
      /\ Record(q, snapshot'.correct)
    BY DEF Opens, Open
<1>3. snapshot'.correct \in 0 .. N
    <2>1. snapshot' \in Snapshot /\ snapshot'.correct <= N /\ N \in Nat
        BY <1>2, QuizResultsAssumption DEF ResultsInv, TypeOK, Counted, ScoresInRange
    <2>2. QED
        BY <2>1 DEF Snapshot
<1>4. QED
    BY <1>1, <1>2, <1>3, Recorded DEF ResultsInv

\* The attempt whose Results come up is in the high scores, under its quiz,
\* unless its row was more than a week old.
THEOREM AttemptIsListed == Spec => CurrentAttemptListed
<1>1. ASSUME ResultsInv, ResultsInv', Next, ~Age, page' = "results"
      PROVE  \/ \E i \in 1 .. Len(rows') : OwnRow(i)' /\ rows'[i].quiz = quiz'
             \/ \E i \in fresh + 1 .. Len(rows) : OwnRow(i)
    <2>1. PICK q, m : Opens(q, m)
        BY <1>1, ShowingOpens
    <2>2. /\ quiz' = quiz /\ q = quiz /\ attempt' = attempt
          /\ \/ Known /\ rows' = FreshRows
             \/ ~Known /\ Led(Scored(q, snapshot'.correct))
        BY <1>1, <2>1, OpeningRecords
    <2>3. CASE Known /\ rows' = FreshRows
        <3>1. PICK i \in 1 .. Len(rows) : OwnRow(i)
            BY <2>3 DEF Known
        <3>2. rows[i].quiz = quiz
            BY <1>1, <3>1 DEF ResultsInv, OfThisQuiz, RowsBelong, OwnRow
        <3>3. CASE i \in 1 .. fresh
            <4>1. i \in 1 .. Len(rows') /\ rows'[i] = rows[i]
                BY <1>1, <2>3, <3>3, FreshList DEF ResultsInv
            <4>2. QED
                BY <2>2, <3>1, <3>2, <4>1 DEF OwnRow
        <3>4. CASE i \notin 1 .. fresh
            <4>1. i \in fresh + 1 .. Len(rows)
                BY <1>1, <3>4, FreshList DEF ResultsInv
            <4>2. QED
                BY <3>1, <4>1
        <3>5. QED
            BY <3>3, <3>4
    <2>4. CASE ~Known /\ Led(Scored(q, snapshot'.correct))
        <3>1. 1 \in 1 .. Len(rows') /\ rows'[1] = Scored(q, snapshot'.correct)
            BY <1>1, <2>4, FreshList DEF Led, ResultsInv
        <3>2. OwnRow(1)' /\ rows'[1].quiz = quiz'
            BY <2>2, <3>1 DEF OwnRow, Scored
        <3>3. QED
            BY <3>1, <3>2
    <2>5. QED
        BY <2>2, <2>3, <2>4
<1>2. QED
    BY <1>1, ResultsInvAlways, PTL DEF Spec, CurrentAttemptListed

\* A refresh of Results changes neither marker, snapshot nor count, and no high
\* score, save dropping those more than a week old - or entering the attempt
\* again, once its own was dropped so.
THEOREM RefreshIsIdle == Spec => RefreshChangesNothing
<1>1. ASSUME ResultsInv, ResultsInv', [Next]_vars,
             page = "results", page' = "results", quiz' = quiz
      PROVE  /\ UNCHANGED <<marker, snapshot, count>>
             /\ \/ rows' \in {rows, FreshRows}
                \/ \A i \in 1 .. Len(rows) : ~OwnRow(i)
    <2>1. CASE UNCHANGED vars \/ Age
        BY <2>1 DEF vars, resultVars, scoreVars, Age
    <2>2. CASE Next /\ ~Age
        <3>1. PICK q, m : Opens(q, m)
            BY <1>1, <2>2, ShowingOpens
        <3>2. q = quiz /\ (rows' = FreshRows \/ ~Known)
            BY <1>1, <3>1, OpeningRecords
        <3>3. /\ marker = [quiz |-> quiz, attempt |-> attempt]
              /\ snapshot # None /\ count = SentCount(snapshot.correct)
            BY <1>1 DEF ResultsInv, Counted
        <3>4. /\ marker' = [quiz |-> quiz, attempt |-> attempt]
              /\ snapshot' = snapshot /\ count' = SentCount(snapshot.correct)
            BY <3>1, <3>2, <3>3 DEF Opens, Open, ShownResult
        <3>5. QED
            BY <3>2, <3>3, <3>4 DEF Known
    <2>3. QED
        BY <1>1, <2>1, <2>2
<1>2. QED
    BY <1>1, ResultsInvAlways, PTL DEF Spec, RefreshChangesNothing

-----------------------------------------------------------------------------
(* The refinement of ScoreBook.  A set of entries forgets the order of the  *)
(* list; that what falls off its end is the oldest needs the rows to be in  *)
(* the order of their attempts, which no step states.                       *)

Descending(list) ==
    \A i, j \in 1 .. Len(list) : i < j => list[i].attempt > list[j].attempt

NewestFirst == Len(rows) <= MaxRows /\ Descending(rows)

\* A row of a later attempt than any on the list keeps the order.
LEMMA LedDescends ==
    ASSUME TypeOK, Descending(rows), NEW by, by.attempt \in Nat, Led(by),
           \A i \in 1 .. Len(rows) : rows[i].attempt < by.attempt
    PROVE  Descending(rows')
<1> SUFFICES ASSUME NEW i \in 1 .. Len(rows'), NEW j \in 1 .. Len(rows'), i < j
             PROVE  rows'[i].attempt > rows'[j].attempt
    BY DEF Descending
<1>1. /\ Len(rows') \in Nat /\ rows'[1] = by
      /\ \A k \in 2 .. Len(rows') : k - 1 \in 1 .. Len(rows) /\ rows'[k] = rows[k - 1]
    <2>1. fresh \in Nat /\ Len(rows') \in 1 .. fresh + 1
        BY FreshList DEF Led
    <2>2. QED
        BY <2>1 DEF Led
<1>2. \A k \in 1 .. Len(rows) : rows[k].attempt \in Nat
    BY RowsOf DEF TypeOK
<1>3. j - 1 \in 1 .. Len(rows) /\ rows'[j] = rows[j - 1]
    BY <1>1
<1>4. CASE i = 1
    BY <1>1, <1>2, <1>3, <1>4
<1>5. CASE i # 1
    <2>1. i - 1 \in 1 .. Len(rows) /\ rows'[i] = rows[i - 1] /\ i - 1 < j - 1
        BY <1>1, <1>5
    <2>2. QED
        BY <1>3, <2>1 DEF Descending
<1>6. QED
    BY <1>4, <1>5

LEMMA FreshDescends ==
    ASSUME TypeOK, Descending(rows)
    PROVE  Descending(FreshRows)
  BY FreshList DEF Descending

\* The entries that have not grown old are those of the fresh rows.
LEMMA YoungEntries ==
    ASSUME TypeOK, Descending(rows)
    PROVE  Entries(rows) \ Stale = Entries(FreshRows)
<1>1. /\ Len(FreshRows) = fresh /\ fresh \in Nat /\ Len(rows) \in Nat
      /\ fresh <= Len(rows)
      /\ \A i \in 1 .. fresh : i \in 1 .. Len(rows) /\ FreshRows[i] = rows[i]
    BY FreshList
<1>2. \A i \in 1 .. Len(rows) : rows[i].attempt \in Nat
    BY RowsOf DEF TypeOK
<1>3. ASSUME NEW e \in Entries(rows) \ Stale PROVE e \in Entries(FreshRows)
    <2>1. PICK i \in 1 .. Len(rows) : e = rows[i]
        BY DEF Entries
    <2>2. i \notin fresh + 1 .. Len(rows)
        BY <1>3, <2>1 DEF Stale
    <2>3. i \in 1 .. fresh
        BY <1>1, <2>2
    <2>4. QED
        BY <1>1, <2>1, <2>3 DEF Entries
<1>4. ASSUME NEW e \in Entries(FreshRows) PROVE e \in Entries(rows) \ Stale
    <2>1. PICK i \in 1 .. fresh : e = rows[i] /\ i \in 1 .. Len(rows)
        BY <1>1 DEF Entries
    <2>2. ASSUME NEW k \in fresh + 1 .. Len(rows) PROVE rows[k] # e
        <3>1. i < k /\ k \in 1 .. Len(rows)
            BY <1>1
        <3>2. rows[i].attempt > rows[k].attempt
            BY <2>1, <3>1 DEF Descending
        <3>3. QED
            BY <1>2, <2>1, <3>1, <3>2
    <2>3. QED
        BY <2>1, <2>2 DEF Entries, Stale
<1>5. QED
    BY <1>3, <1>4

LEMMA EntriesCount ==
    ASSUME NEW list \in Seq(Row), Descending(list)
    PROVE  Cardinality(Entries(list)) = Len(list)
<1>1. Len(list) \in Nat /\ list \in [1 .. Len(list) -> Entries(list)]
    BY DEF Entries
<1>2. \A i \in 1 .. Len(list) : list[i].attempt \in Nat
    <2>1. \A i \in 1 .. Len(list) : list[i] \in Row
        OBVIOUS
    <2>2. QED
        BY <2>1 DEF Row
<1>3. ASSUME NEW i \in 1 .. Len(list), NEW j \in 1 .. Len(list), list[i] = list[j]
      PROVE  i = j
    BY <1>1, <1>2, <1>3 DEF Descending
<1>4. \A e \in Entries(list) : \E i \in 1 .. Len(list) : list[i] = e
    BY DEF Entries
<1>5. list \in Bijection(1 .. Len(list), Entries(list))
    BY <1>1, <1>3, <1>4 DEF Bijection, Injection, Surjection, IsInjective
<1>6. ExistsBijection(1 .. Len(list), Entries(list))
    BY <1>5 DEF ExistsBijection
<1>7. QED
    BY <1>1, <1>6, FS_CountingElements

\* The list with a new row is the newest part of the young entries with it.
LEMMA LedIsNewest ==
    ASSUME TypeOK, NewestFirst, NEW by \in Row, Led(by),
           rows' \in Seq(Row), Len(rows') <= MaxRows,
           \A i \in 1 .. Len(rows) : rows[i].attempt < by.attempt
    PROVE  Book!Newest(Entries(rows'), (Entries(rows) \ Stale) \cup {by})
<1> DEFINE list == rows'
           all  == (Entries(rows) \ Stale) \cup {by}
<1>1. /\ list \in Seq(Row) /\ Len(list) \in Nat /\ Len(rows) \in Nat /\ fresh \in Nat
      /\ Len(list) \in 1 .. fresh + 1 /\ list[1] = by /\ fresh <= Len(rows)
      /\ \A k \in 2 .. Len(list) :
             k - 1 \in 1 .. fresh /\ k - 1 \in 1 .. Len(rows) /\ list[k] = rows[k - 1]
      /\ Len(list) <= MaxRows /\ (Len(list) # fresh + 1 => Len(list) = MaxRows)
    BY FreshList DEF Led
<1>2. Entries(rows) \ Stale = {rows[i] : i \in 1 .. fresh}
    <2>1. Entries(FreshRows) = {rows[i] : i \in 1 .. fresh}
        BY FreshList DEF Entries
    <2>2. QED
        BY <2>1, YoungEntries DEF NewestFirst
<1>3. Cardinality(Entries(list)) = Len(list)
    <2>1. by.attempt \in Nat
        BY DEF Row
    <2>2. Descending(list)
        BY <2>1, LedDescends DEF NewestFirst
    <2>3. QED
        BY <1>1, <2>2, EntriesCount
<1> HIDE DEF list
<1>4. Entries(list) \subseteq all
    <2> SUFFICES ASSUME NEW i \in 1 .. Len(list) PROVE list[i] \in all
        BY DEF Entries
    <2>1. CASE i = 1
        BY <1>1, <2>1
    <2>2. CASE i # 1
        BY <1>1, <1>2, <2>2
    <2>3. QED
        BY <2>1, <2>2
\* What is lost stood past the end.
<1>5. ASSUME NEW s \in all \ Entries(list)
      PROVE  \E k \in 1 .. fresh : s = rows[k] /\ k + 1 > Len(list)
    <2>1. by \in Entries(list)
        BY <1>1 DEF Entries
    <2>2. PICK k \in 1 .. fresh : s = rows[k]
        BY <1>2, <1>5, <2>1
    <2>3. ASSUME k + 1 <= Len(list) PROVE FALSE
        <3>1. k + 1 \in 2 .. Len(list) /\ k + 1 \in 1 .. Len(list) /\ k + 1 - 1 = k
            BY <1>1, <2>3
        <3>2. list[k + 1] = s
            BY <1>1, <2>2, <3>1
        <3>3. QED
            BY <1>5, <3>1, <3>2 DEF Entries
    <2>4. QED
        BY <1>1, <2>2, <2>3
<1>6. Entries(list) # all => Cardinality(Entries(list)) = MaxRows
    <2>1. ASSUME Entries(list) # all PROVE Len(list) # fresh + 1
        <3>1. PICK s \in all \ Entries(list) : TRUE
            BY <1>4, <2>1
        <3>2. QED
            BY <1>1, <1>5
    <2>2. QED
        BY <1>1, <1>3, <2>1
<1>7. ASSUME NEW r \in Entries(list), NEW s \in all \ Entries(list)
      PROVE  r.attempt > s.attempt
    <2>1. PICK k \in 1 .. fresh : s = rows[k] /\ k + 1 > Len(list)
        BY <1>5
    <2>2. PICK i \in 1 .. Len(list) : r = list[i]
        BY DEF Entries
    <2>3. k \in 1 .. Len(rows)
        BY <1>1
    <2>4. rows[k].attempt \in Nat /\ by.attempt \in Nat
        BY <2>3, RowsOf DEF Row, TypeOK
    <2>5. CASE i = 1
        BY <1>1, <2>1, <2>2, <2>3, <2>4, <2>5
    <2>6. CASE i # 1
        <3>1. i - 1 \in 1 .. Len(rows) /\ r = rows[i - 1] /\ i - 1 < k
            BY <1>1, <2>1, <2>2, <2>6
        <3>2. QED
            BY <2>1, <2>3, <3>1 DEF NewestFirst, Descending
    <2>7. QED
        BY <2>5, <2>6
<1> HIDE DEF all
<1>8. Book!Newest(Entries(list), all)
    <2>1. Cardinality(Entries(list)) <= MaxRows
        BY <1>1, <1>3
    <2>2. Book!Cardinality(Entries(list)) = Cardinality(Entries(list))
        BY DEF Book!Cardinality, Cardinality
    <2>3. QED
        BY <1>4, <1>6, <1>7, <2>1, <2>2 DEF Book!Newest
<1>9. QED
    BY <1>8 DEF list, all

\* An opening enters the attempt, unless it is entered, under the quiz shown.
LEMMA OpenEnters ==
    ASSUME ResultsInv, ResultsInv', NewestFirst, NEW q, NEW m, Opens(q, m)
    PROVE  /\ Book!Enter(q) /\ NewestFirst'
           /\ q \in Quizzes /\ Showing' = q /\ q \in Completed' /\ attempt' = attempt
<1> DEFINE c  == snapshot'.correct
           by == [quiz |-> q, correct |-> c, attempt |-> attempt]
<1>1. /\ q = quiz /\ quiz' = quiz /\ attempt' = attempt /\ q \in Quizzes
      /\ c \in 0 .. N /\ attempt \in Nat
      /\ Len(rows') \in Nat /\ fresh' = Len(rows')
      /\ (Known /\ rows' = FreshRows) \/ (~Known /\ Led(by))
    BY OpeningRecords DEF Scored
<1> HIDE DEF c
<1>2. /\ TypeOK /\ rows' \in Seq(Row) /\ Len(rows') <= MaxRows
    BY DEF ResultsInv, TypeOK
<1>3. Stale' = {}
    BY <1>1 DEF Stale
<1>4. q \in Quizzes /\ Showing' = q /\ q \in Completed' /\ attempt' = attempt
    <2>1. page' = "results" /\ \E d \in done' : d.quiz = q
        BY OpensThisQuiz DEF Opens, Open
    <2>2. QED
        BY <1>1, <2>1 DEF Showing, Completed
<1>5. CASE Known /\ rows' = FreshRows
    <2>1. \E r \in Book!Entered : r.quiz = q
        <3>1. PICK i \in 1 .. Len(rows) : rows[i].attempt = attempt
            BY <1>5 DEF Known, OwnRow
        <3>2. rows[i].quiz = q
            BY <1>1, <3>1 DEF ResultsInv, OfThisQuiz, RowsBelong
        <3>3. QED
            BY <3>1, <3>2 DEF Book!Entered, Entries
    <2>2. Entries(rows') = Entries(rows) \ Stale
        BY <1>2, <1>5, YoungEntries DEF NewestFirst
    <2>3. Book!Enter(q)
        BY <1>3, <2>1, <2>2 DEF Book!Enter, Book!Young
    <2>4. NewestFirst'
        BY <1>2, <1>5, FreshDescends DEF NewestFirst
    <2>5. QED
        BY <1>4, <2>3, <2>4
<1>6. CASE ~Known /\ Led(by)
    <2>1. by \in Row /\ by.attempt = attempt
        BY <1>1 DEF Row
    <2>2. \A i \in 1 .. Len(rows) : rows[i].attempt < by.attempt
        <3>1. ASSUME NEW i \in 1 .. Len(rows) PROVE rows[i].attempt < attempt
            <4>1. rows[i].attempt \in Nat /\ rows[i].attempt <= attempt
                BY <1>2, RowsOf DEF ResultsInv, OfThisQuiz, RowsBelong, TypeOK
            <4>2. rows[i].attempt # attempt
                BY <1>6 DEF Known, OwnRow
            <4>3. QED
                BY <1>1, <4>1, <4>2
        <3>2. QED
            BY <2>1, <3>1
    <2>3. Book!Entered = {}
        BY <1>6 DEF Book!Entered, Entries, Known, OwnRow
    <2>4. Book!Newest(Entries(rows'), (Entries(rows) \ Stale) \cup {by})
        BY <1>2, <1>6, <2>1, <2>2, LedIsNewest
    <2>5. Book!Enter(q)
        BY <1>1, <1>3, <2>3, <2>4 DEF Book!Enter, Book!Young
    <2>6. NewestFirst'
        BY <1>1, <1>2, <1>6, <2>1, <2>2, LedDescends DEF NewestFirst
    <2>7. QED
        BY <1>4, <2>5, <2>6
<1>7. QED
    BY <1>1, <1>5, <1>6

\* Where the border of the fresh rows moves to the front.
LEMMA BorderMoves ==
    ASSUME NEW len \in Nat, NEW f \in Nat, NEW g \in 0 .. f - 1
    PROVE  /\ \A i \in f + 1 .. len : i \in g + 1 .. len
           /\ \A i \in g + 1 .. len : i \in 1 .. len
           /\ \A i \in 1 .. len : \A j \in g + 1 .. len : i \notin g + 1 .. len => i < j
  OBVIOUS

LEMMA BookStep ==
    ResultsInv /\ ResultsInv' /\ NewestFirst /\ [Next]_vars
        => NewestFirst' /\ [Book!Next]_(Book!vars)
<1> SUFFICES ASSUME ResultsInv, ResultsInv', NewestFirst, [Next]_vars
             PROVE  NewestFirst' /\ [Book!Next]_(Book!vars)
    OBVIOUS
<1> USE DEF resultVars, scoreVars
<1>1. CASE UNCHANGED vars
    BY <1>1 DEF vars, NewestFirst, Book!vars, Completed, Showing, Stale
<1>2. CASE \/ AnswerRight \/ Miss \/ (\E i \in Questions : Move(i)) \/ BackToQuiz
           \/ ReturnRestart \/ ResultsSelectQuiz \/ ReturnSelectQuiz
           \/ /\ page = "select" /\ loaded' = FALSE
              /\ UNCHANGED <<page, quiz, quizVars, count, attempt, resultVars, run, done>>
    <2>1. page' # "results" /\ UNCHANGED <<attempt, rows, fresh, done>>
        BY <1>2 DEF AnswerRight, Miss, Move, BackToQuiz, ReturnRestart,
           ResultsSelectQuiz, ReturnSelectQuiz
    <2>2. NewestFirst' /\ Book!Leave
        BY <2>1 DEF NewestFirst, Book!Leave, Showing, Completed, Stale
    <2>3. QED
        BY <2>2 DEF Book!Next
<1>3. CASE (\E q \in Quizzes : StartQuiz(q) \/ StartFails(q)) \/ InQuizRestart
    <2>1. /\ page # "results" /\ page' # "results" /\ attempt' = attempt + 1
          /\ UNCHANGED <<rows, fresh, done>>
        BY <1>3 DEF StartQuiz, StartFails, InQuizRestart, MintAttempt
    <2>2. NewestFirst' /\ Book!Begin
        BY <2>1 DEF NewestFirst, Book!Begin, Showing, Completed, Stale
    <2>3. QED
        BY <2>2 DEF Book!Next
<1>4. CASE ShowResults
    <2>1. PICK q, m : Opens(q, m)
        BY <1>4, ResultsOpen
    <2>2. /\ Book!Enter(q) /\ NewestFirst'
          /\ q \in Quizzes /\ Showing' = q /\ q \in Completed' /\ attempt' = attempt
        BY <2>1, OpenEnters
    <2>3. Completed' = Completed \cup {q} /\ Showing = None
        <3>1. q = quiz
            BY <2>1, OpensThisQuiz
        <3>2. PICK d : d.quiz = q /\ done' = done \cup {d}
            BY <1>4, <3>1 DEF ShowResults
        <3>3. Completed' = Completed \cup {q}
            BY <3>2 DEF Completed
        <3>4. QED
            BY <1>4, <3>3 DEF ShowResults, Showing
    <2>4. QED
        BY <2>2, <2>3 DEF Book!Next, Book!Finish, Book!Show
<1>5. CASE (\E q \in Quizzes : OpenResults(q)) \/ (page = "results" /\ OpenResults(quiz))
    <2>1. PICK q, m : Opens(q, m)
        BY <1>5, ResultsOpen
    <2>2. /\ Book!Enter(q) /\ NewestFirst'
          /\ q \in Quizzes /\ Showing' = q /\ q \in Completed' /\ attempt' = attempt
        BY <2>1, OpenEnters
    <2>3. Completed' = Completed
        BY <1>5 DEF OpenResults, Completed
    <2>4. QED
        BY <2>2, <2>3 DEF Book!Next, Book!Reopen, Book!Show
<1>6. CASE Age
    <2>1. /\ UNCHANGED <<page, quiz, attempt, rows, done>>
          /\ fresh' \in 0 .. fresh - 1 /\ fresh \in Nat /\ Len(rows) \in Nat
        BY <1>6, FreshList DEF Age, ResultsInv
    <2>0. /\ Stale' = {rows[i] : i \in fresh' + 1 .. Len(rows)}
          /\ \A i \in fresh + 1 .. Len(rows) : i \in fresh' + 1 .. Len(rows)
          /\ \A i \in fresh' + 1 .. Len(rows) : i \in 1 .. Len(rows)
          /\ \A i \in 1 .. Len(rows) : \A j \in fresh' + 1 .. Len(rows) :
                 i \notin fresh' + 1 .. Len(rows) => i < j
        <3>1. Stale' = {rows[i] : i \in fresh' + 1 .. Len(rows)}
            BY <2>1 DEF Stale
        <3>2. QED
            BY <2>1, <3>1, BorderMoves
    <2>2. Stale \subseteq Stale' /\ Stale' \subseteq Entries(rows)
        BY <2>0 DEF Stale, Entries
    <2>3. ASSUME NEW r \in Entries(rows) \ Stale', NEW s \in Stale'
          PROVE  r.attempt > s.attempt
        <3>1. PICK i \in 1 .. Len(rows) : r = rows[i]
            BY DEF Entries
        <3>2. PICK j \in fresh' + 1 .. Len(rows) : s = rows[j]
            BY <2>0
        <3>3. i \notin fresh' + 1 .. Len(rows)
            BY <2>0, <2>3, <3>1
        <3>4. i < j /\ j \in 1 .. Len(rows)
            BY <2>0, <3>2, <3>3
        <3>5. QED
            BY <3>1, <3>2, <3>4 DEF NewestFirst, Descending
    <2>4. NewestFirst' /\ Book!Age
        BY <2>1, <2>2, <2>3 DEF NewestFirst, Book!Age, Showing, Completed
    <2>5. QED
        BY <2>4 DEF Book!Next
<1>7. QED
    BY <1>1, <1>2, <1>3, <1>4, <1>5, <1>6 DEF Next, Reload

LEMMA BookInit == Init => NewestFirst /\ Book!Init
<1> SUFFICES ASSUME Init PROVE NewestFirst /\ Book!Init
    OBVIOUS
<1>1. Len(rows) = 0 /\ fresh = 0 /\ done = {} /\ page = "select" /\ attempt = 0
    BY DEF Init
<1>2. QED
    <2>1. Entries(rows) = {} /\ Stale = {}
        BY <1>1 DEF Entries, Stale
    <2>2. QED
        BY <1>1, <2>1, QuizResultsAssumption
           DEF NewestFirst, Descending, Book!Init, Completed, Showing

\* Markers, snapshots, restarts and the history implement the book of scores: an
\* attempt is entered when Results of a finished quiz show and no entry of it
\* stands, and entries are lost only as old or as the oldest of a full list.
THEOREM ResultsImplementBook == Spec => ImplementsBook
<1>1. ResultsInv /\ ResultsInv' /\ NewestFirst /\ [Next]_vars
          => NewestFirst' /\ [Book!Next]_(Book!vars)
    BY BookStep
<1>2. Init => NewestFirst /\ Book!Init
    BY BookInit
<1>3. QED
    BY <1>1, <1>2, ResultsInvAlways, PTL DEF Spec, ImplementsBook, Book!Spec

\* The high scores stand in the order of their attempts, so that the list, when
\* it is cut at its end, loses the oldest.
THEOREM ScoresNewestFirst == Spec => []NewestFirst
<1>1. ResultsInv /\ ResultsInv' /\ NewestFirst /\ [Next]_vars => NewestFirst'
    BY BookStep
<1>2. Init => NewestFirst
    BY BookInit
<1>3. QED
    BY <1>1, <1>2, ResultsInvAlways, PTL DEF Spec
=============================================================================
