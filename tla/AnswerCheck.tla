----------------------------- MODULE AnswerCheck -----------------------------
(***************************************************************************)
(* How the quiz backend judges one submission for one topic-quiz question  *)
(* (AnswerCheck.checkAnswer behind POST /quizzes/{id}/check).              *)
(*                                                                         *)
(* A question and its options are model values: the canonical text that    *)
(* identifies them on the wire.  Duplicate, unknown and non-string texts   *)
(* are rejected like a surplus selection and are not sent by the client.   *)
(***************************************************************************)
EXTENDS Naturals

CONSTANTS
    N,          \* questions of the quiz, in display order 1 .. N
    Options,    \* option texts
    OptionsOf,  \* question -> its options
    CorrectOf,  \* question -> its correct options
    Multiple    \* the questions of type "multiple"

Questions == 1 .. N

ASSUME QuizAssumption ==
    /\ N \in Nat \ {0}
    /\ OptionsOf \in [Questions -> SUBSET Options]
    /\ CorrectOf \in [Questions -> (SUBSET Options) \ {{}}]
    /\ \A q \in Questions : CorrectOf[q] \subseteq OptionsOf[q]
    /\ Multiple \subseteq Questions
    /\ \A q \in Questions \ Multiple : \E o \in Options : CorrectOf[q] = {o}

\* More than one selection on a question that permits one.
Rejects(q, picked) ==
    /\ q \notin Multiple
    /\ \A o \in Options : ~(picked \subseteq {o})

\* A single-select question resolves on any pick; a multiple one once every
\* correct option is among the picks, wrong extras notwithstanding.
Resolves(q, picked) ==
    /\ picked # {}
    /\ q \in Multiple => CorrectOf[q] \subseteq picked

\* The `correct` flag of a resolved answer.
JudgedCorrect(q, picked) == q \in Multiple \/ picked \subseteq CorrectOf[q]

Status(q, picked, expired) ==
    CASE Rejects(q, picked) -> "rejected"
      [] ~Rejects(q, picked) /\ expired -> "expired"
      [] ~Rejects(q, picked) /\ ~expired /\ Resolves(q, picked) -> "resolved"
      [] OTHER -> "incomplete"

\* What is said about each option: only picked ones are judged.
Verdicts(q, picked) ==
    [o \in Options |-> IF o \notin picked THEN "unknown"
                       ELSE IF o \in CorrectOf[q] THEN "right" ELSE "wrong"]

Unjudged == [o \in Options |-> "unknown"]

\* The verdict list of an incomplete answer is empty on a single-select
\* question, and covers the picks on a multiple one.
IncompleteVerdicts(q, picked) ==
    IF q \in Multiple THEN Verdicts(q, picked) ELSE Unjudged
=============================================================================
