---------------------------- MODULE MCQuizResults ----------------------------
(***************************************************************************)
(* QuizResults for TLC: two quizzes of two questions, and a list of two    *)
(* high scores that three attempts can overflow.                           *)
(***************************************************************************)
EXTENDS QuizResults, TLC

MCSymmetry == Permutations(Quizzes)
=============================================================================
