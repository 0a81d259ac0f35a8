------------------------------ MODULE QuizRun ------------------------------
(***************************************************************************)
(* What a topic quiz promises, without requests, generations, storage or   *)
(* screens: a question shows the judgement of the selection it waits for,  *)
(* its correct options are told only for an answer that resolves it or     *)
(* after the server's deadline, a point is for a submitted correct answer, *)
(* and the next question opens only behind one credited or out of time.    *)
(***************************************************************************)
EXTENDS AnswerCheck

VARIABLES
    pending,   \* selections submitted and not answered: <<question, picks>>
    awaited,   \* those the questions of this run wait for, at most one each
    late,      \* the questions whose deadline has passed on the server
    over,      \* the questions found out of time in this run
    revealed,  \* the questions whose correct options the client was told
    right,     \* the questions shown as answered correctly
    points,    \* the questions credited
    unlocked   \* the furthest question that may be displayed

shown == <<awaited, revealed, right>>
vars  == <<pending, shown, late, over, points, unlocked>>

Init ==
    /\ pending = {} /\ awaited = {} /\ late = {} /\ over = {}
    /\ revealed = {} /\ right = {} /\ points = {} /\ unlocked = 1

NotOf(q) == {s \in awaited : s[1] # q}

Submissions == Questions \X SUBSET Options

Submit(s) ==
    /\ awaited' = NotOf(s[1]) \cup {s} /\ pending' = pending \cup {s}
    /\ UNCHANGED <<revealed, right, late, over, points, unlocked>>

\* The point is for the answer; the judgement shows if it is still awaited.
Resolve(q, picked) ==
    /\ ~Rejects(q, picked) /\ Resolves(q, picked)
    /\ points' = IF JudgedCorrect(q, picked) THEN points \cup {q} ELSE points
    /\ \/ UNCHANGED shown
       \/ /\ <<q, picked>> \in awaited /\ awaited' = NotOf(q)
          /\ revealed' = revealed \cup {q}
          /\ right' = IF JudgedCorrect(q, picked)
                      THEN right \cup {q} ELSE right \ {q}
    /\ pending' \subseteq pending /\ UNCHANGED <<late, over, unlocked>>

\* Only an incomplete selection that is not empty takes a right answer back.
Incomplete(q, picked) ==
    /\ <<q, picked>> \in awaited /\ ~Resolves(q, picked)
    /\ awaited' = NotOf(q)
    /\ right' = IF picked = {} THEN right ELSE right \ {q}
    /\ pending' \subseteq pending
    /\ UNCHANGED <<revealed, late, over, points, unlocked>>

\* The server tells the answer of a question that is late.
Expire(q) ==
    /\ q \in late /\ pending' \subseteq pending
    /\ awaited' = NotOf(q)
    /\ revealed' = revealed \cup {q} /\ over' = over \cup {q}
    /\ UNCHANGED <<right, late, points, unlocked>>

\* A submission fails, or its answer comes too late to be shown.
Drop(q) ==
    /\ pending' \subseteq pending /\ awaited' \in {awaited, NotOf(q)}
    /\ UNCHANGED <<revealed, right, late, over, points, unlocked>>

RunOut(q) ==
    /\ q <= unlocked /\ q \notin right
    /\ over' = over \cup {q}
    /\ UNCHANGED <<pending, shown, late, points, unlocked>>

Deadline(q) ==
    /\ q <= unlocked /\ late' = late \cup {q}
    /\ UNCHANGED <<pending, shown, over, points, unlocked>>

Unlock ==
    /\ unlocked < N /\ unlocked \in points \cup over
    /\ unlocked' = unlocked + 1
    /\ UNCHANGED <<pending, shown, late, over, points>>

\* A new run: only what was submitted before, and deadlines, may outlive it.
Restart ==
    /\ awaited' = {} /\ revealed' = {} /\ right' = {}
    /\ points' = {} /\ unlocked' = 1
    /\ late' \in {late, {}} /\ over' \subseteq over
    /\ UNCHANGED pending

\* A reload loses what was submitted and no answer, and invents none.
Reload ==
    /\ pending' = {} /\ awaited' = {} /\ late' = {}
    /\ right \subseteq right' /\ right' \subseteq points
    /\ UNCHANGED <<revealed, over, points, unlocked>>

Next ==
    \/ \E s \in Submissions \cap awaited' : Submit(s)
    \/ \E s \in pending : Resolve(s[1], s[2]) \/ Incomplete(s[1], s[2])
    \/ \E q \in Questions : Expire(q) \/ Drop(q) \/ RunOut(q) \/ Deadline(q)
    \/ Unlock \/ Restart \/ Reload

Spec == Init /\ [][Next]_vars
=============================================================================
