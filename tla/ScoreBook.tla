----------------------------- MODULE ScoreBook -----------------------------
(***************************************************************************)
(* What Results and the high scores promise, without markers, snapshots,   *)
(* counts, storage or the browser's history: Results show only for a quiz  *)
(* that was finished; showing them enters the attempt once, under the quiz *)
(* on the screen and with a score within it, unless an entry of it stands; *)
(* and no entry is changed or lost, except those that have grown old (more *)
(* than seven days), at the next showing, and the oldest of a book that is *)
(* full.                                                                   *)
(*                                                                         *)
(* It does not promise that the score is that of the attempt: see          *)
(* RowsAreOfTheirAttempt in QuizResults.                                   *)
(***************************************************************************)
EXTENDS Naturals, FiniteSets

CONSTANTS Quizzes, N, MaxRows, None

VARIABLES
    attempt,    \* the attempts begun
    finished,   \* the quizzes of which a run was finished
    showing,    \* the quiz whose Results are on the screen, or None
    book,       \* the high scores
    old         \* those of them that have grown old

vars == <<attempt, finished, showing, book, old>>

Init ==
    attempt = 0 /\ finished = {} /\ showing = None /\ book = {} /\ old = {}

Begin ==
    /\ showing = None /\ attempt' = attempt + 1
    /\ UNCHANGED <<finished, showing, book, old>>

Leave == showing' = None /\ UNCHANGED <<attempt, finished, book, old>>

\* An entry grows old before every later one.
Age ==
    /\ old \subseteq old' /\ old' \subseteq book
    /\ \A r \in book \ old', s \in old' : r.attempt > s.attempt
    /\ UNCHANGED <<attempt, finished, showing, book>>

\* What a full book loses is older than what it keeps.
Newest(kept, all) ==
    /\ kept \subseteq all /\ Cardinality(kept) <= MaxRows
    /\ kept # all => Cardinality(kept) = MaxRows
    /\ \A r \in kept, s \in all \ kept : r.attempt > s.attempt

Entered == {r \in book : r.attempt = attempt}

Young   == book \ old

Enter(q) ==
    /\ old' = {}
    /\ \/ /\ Entered = {}
          /\ \E c \in 0 .. N :
                Newest(book', Young \cup {[quiz |-> q, correct |-> c, attempt |-> attempt]})
       \/ /\ \E r \in Entered : r.quiz = q
          /\ book' = Young

Show(q) == showing' = q /\ q \in finished' /\ Enter(q) /\ UNCHANGED attempt

\* Results of a run just finished, and those of an earlier one.
Finish(q) == showing = None /\ finished' = finished \cup {q} /\ Show(q)
Reopen(q) == UNCHANGED finished /\ Show(q)

Next == Begin \/ Leave \/ Age \/ \E q \in Quizzes : Finish(q) \/ Reopen(q)

Spec == Init /\ [][Next]_vars
=============================================================================
