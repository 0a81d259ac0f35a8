-------------------------- MODULE MCQuestionTiming --------------------------
(***************************************************************************)
(* QuestionTiming for TLC: two questions of two time units, one restart    *)
(* and three start requests, so that one can be asked for again and one    *)
(* can cross the restart.                                                  *)
(***************************************************************************)
EXTENDS QuestionTiming
=============================================================================
