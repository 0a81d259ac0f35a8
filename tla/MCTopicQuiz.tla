---------------------------- MODULE MCTopicQuiz ----------------------------
(***************************************************************************)
(* TopicQuiz for TLC: a multiple question with two correct options and a   *)
(* wrong extra, and a single-select one.  The two correct options of the   *)
(* multiple question are interchangeable.  Of submissions and restarts the *)
(* multiple question sees three and the other one, or both two, or the     *)
(* multiple one and the other three.                                       *)
(***************************************************************************)
EXTENDS TopicQuiz, TLC

CONSTANTS a, b, c, d

MCOptions == {a, b, c, d}
MCOptionsOf == (1 :> {a, b, c}) @@ (2 :> {c, d})
MCCorrectOf == (1 :> {a, b}) @@ (2 :> {d})
MCMultiple == {1}
MCMaxGen == {(1 :> 3) @@ (2 :> 1), (1 :> 2) @@ (2 :> 2), (1 :> 1) @@ (2 :> 3)}
MCSymmetry == Permutations({a, b})
=============================================================================
