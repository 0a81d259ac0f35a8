------------------------- MODULE MCInterviewSession -------------------------
(***************************************************************************)
(* Small instances of InterviewSession: a single-choice and a multiple-    *)
(* choice question, an id of neither, and the calls made.                  *)
(***************************************************************************)
EXTENDS InterviewSession, TLC

CONSTANTS q1, q2, other, o1, o2

MCQuestions   == {q1, q2}
MCQuestionIds == {q1, q2, other}
MCMultiple    == {q2}
MCOptions     == {o1, o2}
MCOwned       == (q1 :> {o1, o2}) @@ (q2 :> {o1, o2})

Save(q, sel) == [op |-> "save", q |-> q, sel |-> sel, on |-> FALSE, own |-> TRUE]
Flag(q, on)  == [op |-> "flag", q |-> q, sel |-> {}, on |-> on, own |-> TRUE]
Bare(op)     == [op |-> op, q |-> q1, sel |-> {}, on |-> FALSE, own |-> TRUE]
Stranger     == [Bare("submit") EXCEPT !.own = FALSE]

\* Valid, cleared and invalid saves and one of each other operation.
MCCalls == {Save(q1, {o1}), Save(q1, {}), Save(q1, {o1, o2}),
            Save(other, {o1}), Save(q2, {o1, o2}), Flag(q1, TRUE), Stranger}
           \cup {Bare(op) : op \in {"submit", "result", "resume"}}
=============================================================================
