--------------------------- MODULE TopicQuizProofs ---------------------------
(***************************************************************************)
(* Theorems about TopicQuiz: its six properties, for any quiz, any number  *)
(* of submissions, requests in flight, restarts and reloads.               *)
(***************************************************************************)
EXTENDS TopicQuiz, TLAPS

Judged(s) == {o \in Options : s.verdicts[o] # "unknown"}

\* What VerdictIsTheServers says of one state, and what it rests on: a right
\* answer is one the stated verdicts show, also when the selection is gone.
Truthful(q, s) ==
    /\ \A o \in Options : s.verdicts[o] = "right" => o \in CorrectOf[q]
    /\ \A o \in CorrectOf[q] : s.verdicts[o] # "wrong"
    /\ s.reveal \in {{}, CorrectOf[q]}
    /\ Terminal(s) => s.reveal = CorrectOf[q]
    /\ s.phase = "incomplete" => s.right = "unknown" /\ ~Resolves(q, s.selected)
    /\ s.phase = "resolved" /\ s.selected # {} =>
           /\ Resolves(q, s.selected)
           /\ s.right = IF JudgedCorrect(q, s.selected) THEN "yes" ELSE "no"
    /\ s.phase = "resolved" /\ s.selected = {} => s.right = "yes"
    /\ s.right = "yes" =>
           /\ s.reveal = CorrectOf[q]
           /\ Resolves(q, Judged(s)) /\ JudgedCorrect(q, Judged(s))
    /\ s.phase = "resolved" /\ s.right = "no" => s.selected = Judged(s)

AllTruthful ==
    \A q \in Questions : Truthful(q, verdict[q]) /\ Truthful(q, earned[q])

\* A request's generation was claimed and is its own; the newest was sent in
\* this run, and a reveal is only asked for out of time.
Requests ==
    /\ \A r \in flight : r.gen > 0 /\ r.gen <= gens[r.q]
    /\ \A r, x \in flight : r.q = x.q /\ r.gen = x.gen => r = x
    /\ \A r \in flight : Current(r) => r.q \in asked
    /\ \A r \in flight : Current(r) /\ r.kind = "reveal" => r.q \in ranOut

Credited ==
    \A q \in Questions :
        verdict[q].right = "yes" \/ earned[q].right = "yes" => q \in scored

OutOfTime ==
    /\ clockOut \subseteq ranOut
    /\ \A q \in Questions :
           verdict[q].phase = "expired" \/ earned[q].phase = "expired"
               => q \in ranOut

\* What a reload reads back waits for nothing.
StoredIsSettled ==
    \A q \in Questions : earned[q].phase \in {"idle", "resolved", "expired"}

Shown == \A q \in Questions : ui[q] # {} => verdict[q].selected = ui[q]

TopicInv ==
    /\ TypeOK /\ Requests /\ NobodyWaitsForNothing
    /\ AllTruthful /\ StoredIsSettled /\ Shown
    /\ RestartIsClean /\ Credited
    /\ OutOfTime /\ PassedInOrder

-----------------------------------------------------------------------------
(* What an answer makes of a state.                                        *)

LEMMA IdleState == Idle \in State /\ \A q \in Questions : Truthful(q, Idle)
<1>1. /\ Idle.phase = "idle" /\ Idle.selected = {} /\ Idle.reveal = {}
      /\ Idle.right = "unknown" /\ \A o \in Options : Idle.verdicts[o] = "unknown"
    BY DEF Idle, Unjudged
<1>2. Idle \in State
    BY DEF Idle, State, Phases, Unjudged
<1>3. \A q \in Questions : \A o \in CorrectOf[q] : o \in Options
    BY QuizAssumption
<1>4. \A q \in Questions : Truthful(q, Idle)
    BY <1>1, <1>3 DEF Truthful, Terminal
<1>5. QED
    BY <1>2, <1>4

LEMMA RestorableState ==
    ASSUME NEW s \in State
    PROVE  /\ Restorable(s) \in State
           /\ Restorable(s).phase = s.phase /\ Restorable(s).right = s.right
  BY DEF Restorable, State

LEMMA RestorableTruthful ==
    ASSUME NEW q \in Questions, NEW s \in State, Truthful(q, s), Terminal(s)
    PROVE  Truthful(q, Restorable(s))
<1> DEFINE t == Restorable(s)
<1>1. /\ t.phase = s.phase /\ t.right = s.right /\ t.verdicts = s.verdicts
      /\ t.reveal = s.reveal /\ t.selected = Judged(s)
    BY DEF Restorable, State, Judged
<1>2. Judged(t) = Judged(s) /\ (Terminal(t) <=> Terminal(s))
    BY <1>1 DEF Judged, Terminal
<1>3. s.phase # "incomplete"
    BY DEF Terminal
<1>4. s.phase = "resolved" => s.right \in {"yes", "no"}
    BY DEF Truthful
<1>5. s.phase = "resolved" /\ s.right = "yes" =>
          Judged(s) # {} /\ Resolves(q, Judged(s)) /\ JudgedCorrect(q, Judged(s))
    BY DEF Truthful, Resolves
<1>6. s.phase = "resolved" /\ s.right = "no" =>
          /\ Judged(s) = s.selected /\ s.selected # {}
          /\ Resolves(q, Judged(s)) /\ ~JudgedCorrect(q, Judged(s))
    BY DEF Truthful
<1> HIDE DEF t
<1>7. Truthful(q, t)
    BY <1>1, <1>2, <1>3, <1>4, <1>5, <1>6 DEF Truthful
<1>8. QED
    BY <1>7 DEF t

LEMMA VerdictsOfPicks ==
    ASSUME NEW q \in Questions, NEW picked \in SUBSET Options
    PROVE  /\ Verdicts(q, picked) \in [Options -> {"unknown", "right", "wrong"}]
           /\ {o \in Options : Verdicts(q, picked)[o] # "unknown"} = picked
           /\ \A o \in Options : Verdicts(q, picked)[o] = "right" => o \in CorrectOf[q]
           /\ \A o \in Options : o \in CorrectOf[q] => Verdicts(q, picked)[o] # "wrong"
  BY DEF Verdicts

LEMMA MergedVerdicts ==
    ASSUME NEW q \in Questions, NEW picked \in SUBSET Options, NEW s \in State,
           Truthful(q, s)
    PROVE  LET m == Merge(s.verdicts, IncompleteVerdicts(q, picked)) IN
           /\ m \in [Options -> {"unknown", "right", "wrong"}]
           /\ \A o \in Options : m[o] = "right" => o \in CorrectOf[q]
           /\ \A o \in Options : o \in CorrectOf[q] => m[o] # "wrong"
<1> DEFINE v == IncompleteVerdicts(q, picked)
           m == Merge(s.verdicts, v)
<1>1. /\ v \in [Options -> {"unknown", "right", "wrong"}]
      /\ \A o \in Options : v[o] = "right" => o \in CorrectOf[q]
      /\ \A o \in Options : o \in CorrectOf[q] => v[o] # "wrong"
    BY VerdictsOfPicks DEF IncompleteVerdicts, Unjudged
<1>2. /\ s.verdicts \in [Options -> {"unknown", "right", "wrong"}]
      /\ \A o \in Options : s.verdicts[o] = "right" => o \in CorrectOf[q]
      /\ \A o \in Options : o \in CorrectOf[q] => s.verdicts[o] # "wrong"
    BY DEF State, Truthful
<1> HIDE DEF v
<1>3. \A o \in Options : m[o] = IF v[o] = "unknown" THEN s.verdicts[o] ELSE v[o]
    BY DEF Merge
<1>4. m \in [Options -> {"unknown", "right", "wrong"}]
    BY <1>1, <1>2 DEF Merge
<1> HIDE DEF m
<1>5. QED
    BY <1>1, <1>2, <1>3, <1>4 DEF m, v

LEMMA StatusCases ==
    ASSUME NEW q, NEW picked, NEW expired
    PROVE  /\ Status(q, picked, expired) \in
                  {"rejected", "expired", "resolved", "incomplete"}
           /\ Status(q, picked, expired) = "resolved" => Resolves(q, picked)
           /\ Status(q, picked, expired) = "incomplete" => ~Resolves(q, picked)
  BY DEF Status

LEMMA CorrectOptions ==
    \A q \in Questions : CorrectOf[q] \subseteq Options
  BY QuizAssumption

\* Every answer that is taken leaves a truthful state, with the selection it
\* was sent for, and calls an answer right only if the submitter credits it.
LEMMA AppliedState ==
    ASSUME NEW q \in Questions, NEW s \in State, NEW picked \in SUBSET Options,
           NEW expired \in BOOLEAN, Truthful(q, s), s.selected = picked,
           Status(q, picked, expired) # "rejected"
    PROVE  LET status == Status(q, picked, expired)
               t      == Applied(s, q, picked, status) IN
           /\ t \in State /\ Truthful(q, t)
           /\ t.selected = picked
           /\ t.phase \in {"resolved", "expired", "incomplete"}
           /\ t.phase = "expired" => status = "expired"
           /\ t.right = "yes" =>
                 s.right = "yes" \/ (status = "resolved" /\ JudgedCorrect(q, picked))
<1> DEFINE status == Status(q, picked, expired)
           t      == Applied(s, q, picked, status)
<1>1. CASE status = "resolved"
    <2>1. t = [phase |-> "resolved", selected |-> picked,
               verdicts |-> Verdicts(q, picked), reveal |-> CorrectOf[q],
               right |-> IF JudgedCorrect(q, picked) THEN "yes" ELSE "no"]
        BY <1>1 DEF Applied
    <2>2. t \in State
        BY <2>1, VerdictsOfPicks, CorrectOptions DEF State, Phases
    <2>3. Judged(t) = picked
        BY <2>1, VerdictsOfPicks DEF Judged
    <2>4. Resolves(q, picked) /\ picked # {}
        BY <1>1, StatusCases DEF Resolves
    <2>5. Truthful(q, t)
        BY <2>1, <2>3, <2>4, VerdictsOfPicks, CorrectOptions DEF Truthful, Terminal
    <2>6. QED
        BY <1>1, <2>1, <2>2, <2>5
<1>2. CASE status = "expired"
    <2>1. t = [s EXCEPT !.phase = "expired", !.selected = picked,
                        !.reveal = CorrectOf[q]]
        BY <1>2 DEF Applied
    <2>2. /\ t \in State /\ t.phase = "expired" /\ t.reveal = CorrectOf[q]
          /\ t.selected = picked /\ t.verdicts = s.verdicts /\ t.right = s.right
        BY <2>1, CorrectOptions DEF State, Phases
    <2>3. Judged(t) = Judged(s)
        BY <2>2 DEF Judged
    <2>4. Truthful(q, t)
        BY <2>2, <2>3 DEF Truthful
    <2>5. QED
        BY <1>2, <2>2, <2>4
<1>3. CASE status = "incomplete" /\ picked = {} /\ s.right = "yes"
    <2>1. t = [s EXCEPT !.phase = "resolved"]
        BY <1>3 DEF Applied
    <2>2. /\ t \in State /\ t.phase = "resolved" /\ t.reveal = s.reveal
          /\ t.selected = {} /\ t.verdicts = s.verdicts /\ t.right = "yes"
        BY <2>1, <1>3 DEF State, Phases
    <2>3. Judged(t) = Judged(s)
        BY <2>2 DEF Judged
    <2>4. Truthful(q, t)
        BY <1>3, <2>2, <2>3 DEF Truthful
    <2>5. QED
        BY <1>3, <2>2, <2>4
<1>4. CASE status = "incomplete" /\ ~(picked = {} /\ s.right = "yes")
    <2> DEFINE m == Merge(s.verdicts, IncompleteVerdicts(q, picked))
    <2>1. t = [s EXCEPT !.phase = "incomplete", !.selected = picked,
                        !.verdicts = m, !.right = "unknown"]
        BY <1>4 DEF Applied
    <2>2. /\ m \in [Options -> {"unknown", "right", "wrong"}]
          /\ \A o \in Options : m[o] = "right" => o \in CorrectOf[q]
          /\ \A o \in Options : o \in CorrectOf[q] => m[o] # "wrong"
        BY MergedVerdicts
    <2> HIDE DEF m
    <2>3. /\ t \in State /\ t.phase = "incomplete" /\ t.reveal = s.reveal
          /\ t.selected = picked /\ t.verdicts = m /\ t.right = "unknown"
        BY <2>1, <2>2 DEF State, Phases
    <2>4. ~Resolves(q, picked)
        BY <1>4, StatusCases
    <2>5. Truthful(q, t)
        BY <2>2, <2>3, <2>4, CorrectOptions DEF Truthful, Terminal
    <2>6. QED
        BY <1>4, <2>3, <2>5
<1>5. QED
    BY <1>1, <1>2, <1>3, <1>4, StatusCases

\* Checking, failing and revealing keep a state truthful.
LEMMA PhaseState ==
    ASSUME NEW q \in Questions, NEW s \in State, Truthful(q, s),
           NEW picked \in SUBSET Options
    PROVE  /\ LET t == [s EXCEPT !.phase = "checking", !.selected = picked] IN
              t \in State /\ Truthful(q, t) /\ ~Terminal(t)
           /\ Failed(s) \in State /\ Truthful(q, Failed(s)) /\ ~Terminal(Failed(s))
           /\ LET t == [s EXCEPT !.phase = "expired", !.reveal = CorrectOf[q]] IN
              t \in State /\ Truthful(q, t) /\ Terminal(t)
<1>1. ASSUME NEW t,
             \/ t = [s EXCEPT !.phase = "checking", !.selected = picked]
             \/ t = [s EXCEPT !.phase = "error"]
      PROVE  t \in State /\ Truthful(q, t) /\ ~Terminal(t)
    <2>1. /\ t \in State /\ t.phase \in {"checking", "error"}
          /\ t.reveal = s.reveal /\ t.verdicts = s.verdicts /\ t.right = s.right
        BY <1>1 DEF State, Phases
    <2>2. Judged(t) = Judged(s)
        BY <2>1 DEF Judged
    <2>3. QED
        BY <2>1, <2>2 DEF Truthful, Terminal
<1>2. ASSUME NEW t, t = [s EXCEPT !.phase = "expired", !.reveal = CorrectOf[q]]
      PROVE  t \in State /\ Truthful(q, t) /\ Terminal(t)
    <2>1. /\ t \in State /\ t.phase = "expired" /\ t.reveal = CorrectOf[q]
          /\ t.verdicts = s.verdicts /\ t.right = s.right
        BY <1>2, CorrectOptions DEF State, Phases
    <2>2. Judged(t) = Judged(s)
        BY <2>1 DEF Judged
    <2>3. QED
        BY <2>1, <2>2 DEF Truthful, Terminal
<1>3. QED
    BY <1>1, <1>2 DEF Failed

-----------------------------------------------------------------------------
(* The steps, by what they do to requests and verdicts.                    *)

\* A selection is submitted: a click, a revisit or a retry.
Submits(q, picked) ==
    /\ CheckAnswer(q, picked)
    /\ \/ ui' = [ui EXCEPT ![q] = picked]
       \/ ui' = ui /\ picked = verdict[q].selected
    /\ history' \in [Questions -> SUBSET Options]
    /\ cur' = cur /\ arrived' \in BOOLEAN
    /\ UNCHANGED <<remembered, scoreVars, timeVars, page, furthest, runVars>>

\* The quiz moves on, or time passes away from the displayed question.
Moves ==
    /\ \/ \E q \in Questions : RunsOutAway(q) \/ ServerDeadline(q)
       \/ \E i \in Questions : Forward(i) \/ Backward(i)
       \/ AdvanceToResults \/ BackToQuiz
       \/ UNCHANGED vars
    /\ UNCHANGED <<checkVars, scored, runVars, ui, asked>>

Restarts ==
    /\ NewRun
    /\ \/ late' = {} /\ clockOut' = {} /\ ranOut' = {}
       \/ ranOut' = clockOut /\ UNCHANGED <<late, clockOut>>

LEMMA Steps ==
    ASSUME TypeOK, [Next]_vars
    PROVE  \/ \E q \in Questions, picked \in SUBSET Options : Submits(q, picked)
           \/ \E r \in flight, e \in BOOLEAN : Deliver(r, e)
           \/ \E r \in flight : DeliverReveal(r) \/ Fail(r)
           \/ TimerRunsOut \/ Moves \/ Restarts \/ Reload
<1>1. CASE UNCHANGED vars
    BY <1>1 DEF Moves, vars, checkVars, scoreVars, pickVars, runVars
<1>2. ASSUME NEW o \in Options, Pick(o)
      PROVE  \E q \in Questions, picked \in SUBSET Options : Submits(q, picked)
    <2>1. cur \in Questions /\ o \in Options
        BY <1>2 DEF TypeOK
    <2>2. PICK picked : picked = Clicked(cur, o) \cup Rebuilt(cur)
        OBVIOUS
    <2>3. picked \in SUBSET Options
        BY <2>1, <2>2 DEF Clicked, Rebuilt, TypeOK
    <2>4. history' \in [Questions -> SUBSET Options]
        BY <1>2, <2>1 DEF Pick, TypeOK
    <2>5. Submits(cur, picked)
        BY <1>2, <2>2, <2>4 DEF Pick, Submits
    <2>6. QED
        BY <2>1, <2>3, <2>5
<1>3. ASSUME RevisitRender
      PROVE  \E q \in Questions, picked \in SUBSET Options : Submits(q, picked)
    <2>1. PICK picked : picked = Rebuilt(cur)
        OBVIOUS
    <2>2. cur \in Questions /\ picked \in SUBSET Options
        BY <2>1 DEF Rebuilt, TypeOK
    <2>3. arrived' = FALSE /\ history' \in [Questions -> SUBSET Options]
        BY <1>3 DEF RevisitRender, TypeOK
    <2>4. Submits(cur, picked)
        BY <1>3, <2>1, <2>3 DEF RevisitRender, Submits
    <2>5. QED
        BY <2>2, <2>4
<1>4. ASSUME RetryVerdict
      PROVE  \E q \in Questions, picked \in SUBSET Options : Submits(q, picked)
    <2>1. Submits(cur, verdict[cur].selected) /\ cur \in Questions
        BY <1>4 DEF RetryVerdict, Submits, TypeOK, pickVars, viewVars
    <2>2. verdict[cur].selected \in SUBSET Options
        BY <2>1 DEF TypeOK, State
    <2>3. QED
        BY <2>1, <2>2
<1>5. ASSUME NEW q \in Questions, RunsOutAway(q) \/ ServerDeadline(q)
      PROVE  Moves
    BY <1>5 DEF RunsOutAway, ServerDeadline, Moves, checkVars, scoreVars, pickVars
<1>6. ASSUME NEW i \in Questions, Forward(i) \/ Backward(i)
      PROVE  Moves
    BY <1>6 DEF Forward, Backward, Moves, checkVars
<1>7. ASSUME AdvanceToResults \/ BackToQuiz
      PROVE  Moves
    BY <1>7 DEF AdvanceToResults, BackToQuiz, Moves, checkVars, scoreVars, pickVars
<1>8. ASSUME RestartQuiz \/ RestartFromResults \/ FreshStart
      PROVE  Restarts
    BY <1>8 DEF RestartQuiz, RestartFromResults, FreshStart, Restarts
<1>9. QED
    BY <1>1, <1>2, <1>3, <1>4, <1>5, <1>6, <1>7, <1>8 DEF Next

-----------------------------------------------------------------------------
(* The types.                                                              *)

LEMMA TopicInit == Init => TopicInv
<1> SUFFICES ASSUME Init PROVE TopicInv
    OBVIOUS
<1>1. 1 \in Questions
    BY QuizAssumption DEF Questions
<1>2. TypeOK
    BY <1>1, IdleState DEF Init, TypeOK
<1>3. \A q \in Questions :
          /\ verdict[q] = Idle /\ earned[q] = Idle /\ ui[q] = {}
          /\ Idle.phase = "idle" /\ Idle.right = "unknown"
    BY DEF Init, Idle
<1>4. Requests /\ NobodyWaitsForNothing
    BY <1>3 DEF Init, Requests, NobodyWaitsForNothing
<1>5. AllTruthful /\ StoredIsSettled /\ Shown /\ RestartIsClean /\ Credited
    BY <1>3, IdleState DEF AllTruthful, StoredIsSettled, Shown, RestartIsClean, Credited
<1>6. OutOfTime
    BY <1>3 DEF Init, OutOfTime
<1>7. PassedInOrder
    BY QuizAssumption DEF Init, PassedInOrder
<1>8. QED
    BY <1>2, <1>4, <1>5, <1>6, <1>7 DEF TopicInv

\* Writing a truthful state keeps verdicts and stored verdicts so.
LEMMA WriteStep ==
    ASSUME TypeOK, AllTruthful, NEW q \in Questions, NEW s \in State,
           Truthful(q, s), Write(q, s)
    PROVE  /\ verdict' \in [Questions -> State] /\ earned' \in [Questions -> State]
           /\ AllTruthful'
           /\ verdict'[q] = s
           /\ \/ earned'[q].phase = earned[q].phase
              \/ Terminal(s) /\ earned'[q].phase = s.phase
           /\ earned'[q].right \in {earned[q].right, s.right}
           /\ \A x \in Questions \ {q} :
                  verdict'[x] = verdict[x] /\ earned'[x] = earned[x]
<1>1. /\ verdict' = [verdict EXCEPT ![q] = s]
      /\ \/ Terminal(s) /\ earned' = [earned EXCEPT ![q] = Restorable(s)]
         \/ earned' = earned
    BY DEF Write
<1>2. verdict' \in [Questions -> State] /\ verdict'[q] = s
      /\ \A x \in Questions \ {q} : verdict'[x] = verdict[x]
    BY <1>1 DEF TypeOK
<1>3. /\ earned' \in [Questions -> State]
      /\ earned'[q] = earned[q] \/ (Terminal(s) /\ earned'[q] = Restorable(s))
      /\ \A x \in Questions \ {q} : earned'[x] = earned[x]
    BY <1>1, RestorableState DEF TypeOK
<1>4. Truthful(q, earned'[q])
    BY <1>3, RestorableTruthful DEF AllTruthful
<1>5. AllTruthful'
    <2> SUFFICES ASSUME NEW x \in Questions
                 PROVE  Truthful(x, verdict'[x]) /\ Truthful(x, earned'[x])
        BY DEF AllTruthful
    <2>1. CASE x = q
        BY <2>1, <1>2, <1>4
    <2>2. CASE x # q
        BY <2>2, <1>2, <1>3 DEF AllTruthful
    <2>3. QED
        BY <2>1, <2>2
<1>6. /\ \/ earned'[q].phase = earned[q].phase
         \/ Terminal(s) /\ earned'[q].phase = s.phase
      /\ earned'[q].right \in {earned[q].right, s.right}
    BY <1>3, RestorableState
<1>7. QED
    BY <1>2, <1>3, <1>5, <1>6

\* The state a step leaves in the question of a request, and what it means
\* for the credit and for the time.
LEMMA Submitted ==
    ASSUME TypeOK, AllTruthful, NEW q \in Questions,
           NEW picked \in SUBSET Options, CheckAnswer(q, picked)
    PROVE  LET t == [verdict[q] EXCEPT !.phase = "checking", !.selected = picked] IN
           /\ t \in State /\ Truthful(q, t) /\ Write(q, t)
           /\ t.phase = "checking" /\ t.selected = picked
           /\ t.right = verdict[q].right
<1>1. verdict[q] \in State /\ Truthful(q, verdict[q])
    BY DEF TypeOK, AllTruthful
<1>2. QED
    BY <1>1, PhaseState DEF CheckAnswer, State

LEMMA Delivered ==
    ASSUME TypeOK, AllTruthful, NobodyWaitsForNothing,
           NEW r \in flight, NEW e \in BOOLEAN, Deliver(r, e), Current(r)
    PROVE  LET status == Status(r.q, r.picked, e)
               t      == Applied(verdict[r.q], r.q, r.picked, status) IN
           /\ t \in State /\ Truthful(r.q, t) /\ Write(r.q, t)
           /\ t.selected = r.picked /\ verdict[r.q].selected = r.picked
           /\ t.phase \in {"resolved", "expired", "incomplete"}
           /\ t.phase = "expired" => status = "expired"
           /\ t.right = "yes" =>
                 verdict[r.q].right = "yes" \/ Credits(r, status)
<1>1. r.q \in Questions /\ r.picked \in SUBSET Options /\ r.kind = "check"
    BY DEF TypeOK, Request, Deliver
<1>2. verdict[r.q] \in State /\ Truthful(r.q, verdict[r.q])
    BY <1>1 DEF TypeOK, AllTruthful
<1>3. verdict[r.q].selected = r.picked
    BY <1>1 DEF NobodyWaitsForNothing
<1>4. Status(r.q, r.picked, e) # "rejected"
    BY DEF Deliver
<1>5. Write(r.q, Applied(verdict[r.q], r.q, r.picked, Status(r.q, r.picked, e)))
    BY DEF Deliver
<1> DEFINE status == Status(r.q, r.picked, e)
           t      == Applied(verdict[r.q], r.q, r.picked, status)
<1>6. /\ t \in State /\ Truthful(r.q, t)
      /\ t.selected = r.picked
      /\ t.phase \in {"resolved", "expired", "incomplete"}
      /\ t.phase = "expired" => status = "expired"
      /\ t.right = "yes" =>
            \/ verdict[r.q].right = "yes"
            \/ status = "resolved" /\ JudgedCorrect(r.q, r.picked)
    BY <1>1, <1>2, <1>3, <1>4, AppliedState
<1> HIDE DEF t, status
<1>7. t.right = "yes" => verdict[r.q].right = "yes" \/ Credits(r, status)
    BY <1>1, <1>6 DEF Credits
<1>8. QED
    BY <1>3, <1>5, <1>6, <1>7 DEF t, status

\* A request that is sent, and the generation it claims.
Sent(q, kind, picked) ==
    [q |-> q, kind |-> kind, gen |-> gens[q] + 1, picked |-> picked,
     due |-> q \in late, run |-> run]

LEMMA SendStep ==
    ASSUME TypeOK, NEW q \in Questions, NEW kind \in {"check", "reveal"},
           NEW picked \in SUBSET Options, Send(q, kind, picked)
    PROVE  /\ gens' \in [Questions -> Nat] /\ flight' \subseteq Request
           /\ gens'[q] = gens[q] + 1
           /\ \A x \in Questions \ {q} : gens'[x] = gens[x]
           /\ flight' = flight \cup {Sent(q, kind, picked)}
           /\ asked' = asked \cup {q} /\ asked' \subseteq Questions
<1>1. Sent(q, kind, picked) \in Request
    BY DEF Sent, TypeOK, Request
<1>2. flight' = flight \cup {Sent(q, kind, picked)}
    BY DEF Send, Sent
<1>3. gens' = [gens EXCEPT ![q] = @ + 1] /\ asked' = asked \cup {q}
    BY DEF Send
<1>4. QED
    BY <1>1, <1>2, <1>3 DEF TypeOK

LEMMA TypeStep == TypeOK /\ AllTruthful /\ NobodyWaitsForNothing /\ [Next]_vars
                      => TypeOK'
<1> SUFFICES ASSUME TypeOK, AllTruthful, NobodyWaitsForNothing, [Next]_vars
             PROVE  TypeOK'
    OBVIOUS
<1> USE DEF scoreVars, timeVars, pickVars, viewVars, runVars, checkVars
<1>1. ASSUME NEW q \in Questions, NEW picked \in SUBSET Options, Submits(q, picked)
      PROVE  TypeOK'
    <2>1. verdict' \in [Questions -> State] /\ earned' \in [Questions -> State]
        BY <1>1, Submitted, WriteStep DEF Submits
    <2>2. /\ gens' \in [Questions -> Nat] /\ flight' \subseteq Request
          /\ asked' \subseteq Questions
        BY <1>1, SendStep DEF Submits, CheckAnswer
    <2>3. ui' \in [Questions -> SUBSET Options]
        BY <1>1 DEF Submits, TypeOK
    <2>4. QED
        BY <1>1, <2>1, <2>2, <2>3 DEF Submits, TypeOK
<1>2. ASSUME NEW r \in flight, NEW e \in BOOLEAN, Deliver(r, e)
      PROVE  TypeOK'
    <2>1. r.q \in Questions
        BY DEF TypeOK, Request
    <2>2. verdict' \in [Questions -> State] /\ earned' \in [Questions -> State]
        <3>1. CASE Current(r)
            BY <1>2, <2>1, <3>1, Delivered, WriteStep
        <3>2. CASE ~Current(r)
            BY <1>2, <3>2 DEF Deliver, TypeOK
        <3>3. QED
            BY <3>1, <3>2
    <2>3. /\ scored' \subseteq Questions /\ complete' \subseteq Questions
          /\ perfect' \subseteq Questions /\ ranOut' \subseteq Questions
          /\ flight' \subseteq Request
        BY <1>2, <2>1 DEF Deliver, TypeOK
    <2>4. QED
        BY <1>2, <2>2, <2>3 DEF Deliver, TypeOK
<1>3. ASSUME NEW r \in flight, DeliverReveal(r) \/ Fail(r)
      PROVE  TypeOK'
    <2>1. r.q \in Questions /\ {} \in SUBSET Options
        BY DEF TypeOK, Request
    <2>2. verdict[r.q] \in State /\ Truthful(r.q, verdict[r.q])
        BY <2>1 DEF TypeOK, AllTruthful
    <2>3. verdict' \in [Questions -> State] /\ earned' \in [Questions -> State]
        <3>1. CASE Current(r) /\ DeliverReveal(r)
            BY <3>1, <2>1, <2>2, PhaseState, WriteStep DEF DeliverReveal
        <3>2. CASE Current(r) /\ Fail(r)
            BY <3>2, <2>1, <2>2, PhaseState, WriteStep DEF Fail
        <3>3. CASE ~Current(r)
            BY <1>3, <3>3 DEF DeliverReveal, Fail, TypeOK
        <3>4. QED
            BY <1>3, <3>1, <3>2, <3>3
    <2>4. flight' \subseteq Request
        BY <1>3 DEF DeliverReveal, Fail, TypeOK
    <2>5. QED
        BY <1>3, <2>3, <2>4 DEF DeliverReveal, Fail, TypeOK
<1>4. ASSUME TimerRunsOut
      PROVE  TypeOK'
    <2>1. /\ gens' \in [Questions -> Nat] /\ flight' \subseteq Request
          /\ asked' \subseteq Questions
        <3>1. cur \in Questions /\ {} \in SUBSET Options
            BY DEF TypeOK
        <3>2. QED
            BY <1>4, <3>1, SendStep DEF TimerRunsOut
    <2>2. QED
        BY <1>4, <2>1 DEF TimerRunsOut, TypeOK
<1>5. ASSUME Moves
      PROVE  TypeOK'
    <2>1. ASSUME NEW q \in Questions, RunsOutAway(q) \/ ServerDeadline(q)
          PROVE  TypeOK'
        BY <2>1 DEF RunsOutAway, ServerDeadline, TypeOK
    <2>2. ASSUME NEW i \in Questions, Forward(i) \/ Backward(i)
          PROVE  TypeOK'
        <3>1. UnlockThrough(cur + 1) \in Questions
            BY QuizAssumption DEF UnlockThrough, TypeOK, Questions
        <3>2. cur' \in Questions /\ furthest' \in Questions /\ arrived' \in BOOLEAN
            BY <2>2, <3>1 DEF Forward, Backward, TypeOK
        <3>3. /\ complete' \subseteq Questions /\ perfect' \subseteq Questions
              /\ history' \in [Questions -> SUBSET Options]
            BY <2>2 DEF Forward, Backward, LeaveStale, TypeOK
        <3>4. remembered' \in [Questions -> SUBSET Options]
            BY <2>2 DEF Forward, Backward, Remember, TypeOK
        <3>5. QED
            BY <2>2, <3>2, <3>3, <3>4 DEF Forward, Backward, TypeOK
    <2>3. ASSUME AdvanceToResults \/ BackToQuiz \/ UNCHANGED vars
          PROVE  TypeOK'
        BY <2>3 DEF AdvanceToResults, BackToQuiz, vars, TypeOK
    <2>4. QED
        BY <1>5, <2>1, <2>2, <2>3 DEF Moves
<1>6. ASSUME Restarts
      PROVE  TypeOK'
    <2>1. 1 \in Questions
        BY QuizAssumption DEF Questions
    <2>2. gens' \in [Questions -> Nat] /\ verdict' \in [Questions -> State]
        BY <1>6, IdleState DEF Restarts, NewRun, ClearAll, TypeOK
    <2>3. /\ earned' \in [Questions -> State] /\ ui' \in [Questions -> SUBSET Options]
          /\ history' \in [Questions -> SUBSET Options]
          /\ remembered' \in [Questions -> SUBSET Options]
        BY <1>6, IdleState DEF Restarts, NewRun
    <2>4. late' \subseteq Questions /\ clockOut' \subseteq Questions
          /\ ranOut' \subseteq Questions
        BY <1>6 DEF Restarts, TypeOK
    <2>5. /\ scored' = {} /\ complete' = {} /\ perfect' = {} /\ asked' = {}
          /\ cur' = 1 /\ furthest' = 1 /\ page' = "quiz" /\ arrived' = FALSE
          /\ run' \in Nat /\ UNCHANGED <<flight, reloads>>
        BY <1>6 DEF Restarts, NewRun, TypeOK
    <2>6. QED
        BY <2>1, <2>2, <2>3, <2>4, <2>5 DEF TypeOK
<1>7. ASSUME Reload
      PROVE  TypeOK'
    <2>1. /\ gens' \in [Questions -> Nat] /\ ui' \in [Questions -> SUBSET Options]
          /\ history' \in [Questions -> SUBSET Options]
          /\ remembered' \in [Questions -> SUBSET Options]
        BY <1>7 DEF Reload
    <2>2. /\ verdict' \in [Questions -> State] /\ earned' \in [Questions -> State]
          /\ run' \in Nat /\ reloads' \in Nat
        BY <1>7 DEF Reload, TypeOK
    <2>3. /\ flight' = {} /\ complete' = {} /\ perfect' = {} /\ late' = {}
          /\ clockOut' = {} /\ arrived' = FALSE
          /\ UNCHANGED <<scored, ranOut, cur, page, furthest, asked>>
        BY <1>7 DEF Reload
    <2>4. QED
        BY <2>1, <2>2, <2>3 DEF TypeOK
<1>8. QED
    BY <1>1, <1>2, <1>3, <1>4, <1>5, <1>6, <1>7, Steps

-----------------------------------------------------------------------------
(* Requests and generations.                                               *)

\* A new request is the newest of its question, and the only one.
LEMMA SentIsNewest ==
    ASSUME TypeOK, TypeOK', Requests, NEW q \in Questions,
           NEW kind \in {"check", "reveal"}, NEW picked \in SUBSET Options,
           Send(q, kind, picked), kind = "reveal" => q \in ranOut',
           ranOut \subseteq ranOut'
    PROVE  /\ Requests'
           /\ \A r \in flight' : r.q # q => (r \in flight /\ (Current(r)' <=> Current(r)))
           /\ \A r \in flight : r \in flight'
           /\ \E n \in flight' :
                 /\ Current(n)' /\ n.q = q /\ n.kind = kind /\ n.picked = picked
                 /\ \A r \in flight' : Current(r)' /\ r.q = q => r = n
<1>0. PICK n : n = Sent(q, kind, picked)
    OBVIOUS
<1>1. n.q = q /\ n.kind = kind /\ n.picked = picked /\ n.gen = gens[q] + 1
    BY <1>0 DEF Sent
<1>2. /\ flight' = flight \cup {n} /\ gens'[q] = gens[q] + 1
      /\ \A x \in Questions \ {q} : gens'[x] = gens[x]
      /\ asked' = asked \cup {q}
    BY <1>0, SendStep
<1>3. \A r \in flight : /\ r.q \in Questions /\ r.gen \in Nat
                         /\ r.gen > 0 /\ r.gen <= gens[r.q] /\ gens[r.q] \in Nat
    BY DEF TypeOK, Request, Requests
<1>4. gens[q] \in Nat
    BY DEF TypeOK
<1>5. \A r \in flight : r.q = q => r.gen < n.gen /\ ~Current(r)'
    BY <1>1, <1>2, <1>3, <1>4 DEF Current
<1>6. \A r \in flight : r.q # q => (Current(r)' <=> Current(r))
    BY <1>2, <1>3 DEF Current
<1>7. Current(n)'
    BY <1>1, <1>2 DEF Current
<1>8. \A r \in flight' : r.gen > 0 /\ r.gen <= gens'[r.q]
    BY <1>1, <1>2, <1>3, <1>4
<1>9. \A r, x \in flight' : r.q = x.q /\ r.gen = x.gen => r = x
    BY <1>1, <1>2, <1>3, <1>4, <1>5 DEF Requests
<1>10. \A r \in flight' : Current(r)' => r.q \in asked'
    BY <1>1, <1>2, <1>5, <1>6 DEF Requests
<1>11. \A r \in flight' : Current(r)' /\ r.kind = "reveal" => r.q \in ranOut'
    BY <1>1, <1>2, <1>5, <1>6 DEF Requests
<1>12. Requests'
    BY <1>8, <1>9, <1>10, <1>11 DEF Requests
<1>13. QED
    BY <1>1, <1>2, <1>5, <1>6, <1>7, <1>12

\* After a restart no request is the newest any more.
LEMMA NoneSurvives ==
    ASSUME TypeOK, Requests, NewRun
    PROVE  \A r \in flight' : ~Current(r)' /\ r.gen > 0 /\ r.gen <= gens'[r.q]
<1> SUFFICES ASSUME NEW r \in flight
             PROVE  ~Current(r)' /\ r.gen > 0 /\ r.gen <= gens'[r.q]
    BY DEF NewRun
<1>1. /\ r.q \in Questions /\ r.gen \in Nat /\ r.gen > 0
      /\ r.gen <= gens[r.q] /\ gens[r.q] \in Nat
    BY DEF TypeOK, Request, Requests
<1>2. gens'[r.q] = gens[r.q] + 1
    BY <1>1 DEF NewRun, ClearAll
<1>3. QED
    BY <1>1, <1>2 DEF Current

\* An answer that is taken was the only newest request of its question.
LEMMA Answered ==
    ASSUME Requests, NEW r \in flight, flight' = flight \ {r}, gens' = gens
    PROVE  /\ \A x \in flight' : x \in flight /\ (Current(x)' <=> Current(x))
           /\ Current(r) => \A x \in flight' : x.q = r.q => ~Current(x)'
  BY DEF Requests, Current

LEMMA RequestsStep ==
    TypeOK /\ TypeOK' /\ Requests /\ [Next]_vars => Requests'
<1> SUFFICES ASSUME TypeOK, TypeOK', Requests, [Next]_vars
             PROVE  Requests'
    OBVIOUS
<1> USE DEF timeVars, checkVars, runVars
<1>1. ASSUME NEW q \in Questions, NEW picked \in SUBSET Options, Submits(q, picked)
      PROVE  Requests'
    BY <1>1, SentIsNewest DEF Submits, CheckAnswer
<1>2. ASSUME NEW r \in flight, NEW e \in BOOLEAN,
             Deliver(r, e) \/ DeliverReveal(r) \/ Fail(r)
      PROVE  Requests'
    <2>1. /\ flight' = flight \ {r} /\ gens' = gens /\ asked' = asked
          /\ ranOut \subseteq ranOut'
        BY <1>2 DEF Deliver, DeliverReveal, Fail
    <2>2. QED
        BY <2>1, Answered DEF Requests
<1>3. ASSUME TimerRunsOut
      PROVE  Requests'
    <2>1. cur \in Questions /\ {} \in SUBSET Options
        BY DEF TypeOK
    <2>2. Send(cur, "reveal", {}) /\ ranOut' = ranOut \cup {cur}
        BY <1>3 DEF TimerRunsOut
    <2>3. QED
        BY <2>1, <2>2, SentIsNewest
<1>4. ASSUME Moves
      PROVE  Requests'
    <2>1. ranOut \subseteq ranOut'
        BY <1>4 DEF Moves, RunsOutAway, ServerDeadline, Forward, Backward,
                    AdvanceToResults, BackToQuiz, vars
    <2>2. UNCHANGED <<flight, gens, asked>>
        BY <1>4 DEF Moves
    <2>3. QED
        BY <2>1, <2>2 DEF Requests, Current
<1>5. ASSUME Restarts
      PROVE  Requests'
    BY <1>5, NoneSurvives DEF Restarts, NewRun, Requests
<1>6. ASSUME Reload
      PROVE  Requests'
    BY <1>6 DEF Reload, Requests
<1>7. QED
    BY <1>1, <1>2, <1>3, <1>4, <1>5, <1>6, Steps

LEMMA WaitStep ==
    TypeOK /\ TypeOK' /\ Requests /\ AllTruthful /\ NobodyWaitsForNothing
        /\ StoredIsSettled /\ [Next]_vars => NobodyWaitsForNothing'
<1> SUFFICES ASSUME TypeOK, TypeOK', Requests, AllTruthful,
                    NobodyWaitsForNothing, StoredIsSettled, [Next]_vars
             PROVE  NobodyWaitsForNothing'
    OBVIOUS
<1> USE DEF timeVars, checkVars, runVars
<1>1. ASSUME NEW q \in Questions, NEW picked \in SUBSET Options, Submits(q, picked)
      PROVE  NobodyWaitsForNothing'
    <2>1. Send(q, "check", picked) /\ ranOut' = ranOut
        BY <1>1 DEF Submits, CheckAnswer
    <2>2. /\ \A r \in flight' : r.q # q => (r \in flight /\ (Current(r)' <=> Current(r)))
          /\ \A r \in flight : r \in flight'
          /\ \E n \in flight' :
                /\ Current(n)' /\ n.q = q /\ n.kind = "check" /\ n.picked = picked
                /\ \A r \in flight' : Current(r)' /\ r.q = q => r = n
        BY <2>1, SentIsNewest
    <2>3. /\ verdict'[q].phase = "checking" /\ verdict'[q].selected = picked
          /\ \A x \in Questions \ {q} : verdict'[x] = verdict[x]
        <3> DEFINE t == [verdict[q] EXCEPT !.phase = "checking", !.selected = picked]
        <3>1. /\ t \in State /\ Truthful(q, t) /\ Write(q, t)
              /\ t.phase = "checking" /\ t.selected = picked
            BY <1>1, Submitted DEF Submits
        <3> HIDE DEF t
        <3>2. QED
            BY <3>1, WriteStep
    <2>4. \A x \in Questions : verdict'[x].phase = "checking" =>
             \E r \in flight' : r.q = x /\ Current(r)'
        BY <2>2, <2>3 DEF NobodyWaitsForNothing
    <2>5. \A r \in flight' : Current(r)' /\ r.kind = "check" =>
             verdict'[r.q].phase = "checking" /\ verdict'[r.q].selected = r.picked
        BY <2>2, <2>3 DEF NobodyWaitsForNothing, TypeOK, Request
    <2>6. QED
        BY <2>4, <2>5 DEF NobodyWaitsForNothing
<1>2. ASSUME NEW r \in flight, NEW e \in BOOLEAN,
             Deliver(r, e) \/ DeliverReveal(r) \/ Fail(r)
      PROVE  NobodyWaitsForNothing'
    <2>1. flight' = flight \ {r} /\ gens' = gens /\ r.q \in Questions
        BY <1>2 DEF Deliver, DeliverReveal, Fail, TypeOK, Request
    <2>2. /\ \A x \in flight' : x \in flight /\ (Current(x)' <=> Current(x))
          /\ Current(r) => \A x \in flight' : x.q = r.q => ~Current(x)'
        BY <2>1, Answered
    <2>3. \A x \in Questions \ {r.q} : verdict'[x] = verdict[x]
        BY <1>2 DEF Deliver, DeliverReveal, Fail, Write, TypeOK
    <2>4. CASE Current(r)
        <3>1. verdict'[r.q].phase # "checking"
            <4>1. CASE Deliver(r, e)
                BY <2>1, <2>4, <4>1, Delivered, WriteStep
            <4>2. verdict[r.q] \in State
                BY <2>1 DEF TypeOK
            <4>3. CASE DeliverReveal(r)
                <5>1. verdict' = [verdict EXCEPT ![r.q] =
                          [verdict[r.q] EXCEPT !.phase = "expired",
                                               !.reveal = CorrectOf[r.q]]]
                    BY <2>4, <4>3 DEF DeliverReveal, Write
                <5>2. QED
                    BY <2>1, <4>2, <5>1 DEF State, TypeOK
            <4>4. CASE Fail(r)
                <5>1. verdict' = [verdict EXCEPT ![r.q] =
                          [verdict[r.q] EXCEPT !.phase = "error"]]
                    BY <2>4, <4>4 DEF Fail, Write, Failed
                <5>2. QED
                    BY <2>1, <4>2, <5>1 DEF State, TypeOK
            <4>5. QED
                BY <1>2, <4>1, <4>3, <4>4
        <3>2. QED
            BY <2>1, <2>2, <2>3, <2>4, <3>1 DEF NobodyWaitsForNothing, TypeOK, Request
    <2>5. CASE ~Current(r)
        <3>1. verdict' = verdict
            BY <1>2, <2>5 DEF Deliver, DeliverReveal, Fail
        <3>2. QED
            BY <2>1, <2>2, <2>5, <3>1 DEF NobodyWaitsForNothing
    <2>6. QED
        BY <2>4, <2>5
<1>3. ASSUME TimerRunsOut
      PROVE  NobodyWaitsForNothing'
    <2>1. /\ cur \in Questions /\ {} \in SUBSET Options /\ verdict' = verdict
          /\ Send(cur, "reveal", {}) /\ ranOut' = ranOut \cup {cur}
        BY <1>3 DEF TimerRunsOut, TypeOK
    <2>2. /\ \A r \in flight' : r.q # cur => (r \in flight /\ (Current(r)' <=> Current(r)))
          /\ \A r \in flight : r \in flight'
          /\ \E n \in flight' :
                /\ Current(n)' /\ n.q = cur /\ n.kind = "reveal"
                /\ \A r \in flight' : Current(r)' /\ r.q = cur => r = n
        BY <2>1, SentIsNewest
    <2>3. QED
        BY <2>1, <2>2 DEF NobodyWaitsForNothing, TypeOK, Request
<1>4. ASSUME Moves
      PROVE  NobodyWaitsForNothing'
    BY <1>4 DEF Moves, NobodyWaitsForNothing, Current
<1>5. ASSUME Restarts
      PROVE  NobodyWaitsForNothing'
    <2>1. \A q \in Questions : verdict'[q].phase = "idle"
        BY <1>5 DEF Restarts, NewRun, ClearAll, Idle
    <2>2. \A r \in flight' : ~Current(r)'
        BY <1>5, NoneSurvives DEF Restarts
    <2>3. QED
        BY <2>1, <2>2 DEF NobodyWaitsForNothing
<1>6. ASSUME Reload
      PROVE  NobodyWaitsForNothing'
    BY <1>6 DEF Reload, NobodyWaitsForNothing, StoredIsSettled
<1>7. QED
    BY <1>1, <1>2, <1>3, <1>4, <1>5, <1>6, Steps

-----------------------------------------------------------------------------
(* What a step writes.                                                     *)

\* Question q is left in state s: truthful, of a question asked in this run,
\* right only if credited, out of time only if it is, and with the selection
\* on the screen.
WritesTo(q, s) ==
    /\ Truthful(q, s) /\ Write(q, s)
    /\ q \in asked'
    /\ s.right = "yes" => verdict[q].right = "yes" \/ q \in scored'
    /\ s.phase = "expired" => q \in ranOut'
    /\ \/ ui' = [ui EXCEPT ![q] = s.selected]
       \/ ui' = ui /\ s.selected = verdict[q].selected

Grows == asked \subseteq asked' /\ scored \subseteq scored' /\ ranOut \subseteq ranOut'

LEMMA Writes ==
    ASSUME TypeOK, TypeOK', Requests, AllTruthful, NobodyWaitsForNothing, [Next]_vars
    PROVE  \/ Grows /\ \E q \in Questions, s \in State : WritesTo(q, s)
           \/ Grows /\ UNCHANGED <<verdict, earned, ui>>
           \/ Restarts
           \/ Reload
<1> USE DEF scoreVars, timeVars, checkVars, runVars
<1>1. ASSUME NEW q \in Questions, NEW picked \in SUBSET Options, Submits(q, picked)
      PROVE  Grows /\ \E x \in Questions, s \in State : WritesTo(x, s)
    <2> DEFINE t == [verdict[q] EXCEPT !.phase = "checking", !.selected = picked]
    <2>1. /\ t \in State /\ Truthful(q, t) /\ Write(q, t)
          /\ t.phase = "checking" /\ t.selected = picked
          /\ t.right = verdict[q].right
        BY <1>1, Submitted DEF Submits
    <2>2. asked' = asked \cup {q}
        BY <1>1, SendStep DEF Submits, CheckAnswer
    <2>3. /\ \/ ui' = [ui EXCEPT ![q] = picked]
             \/ ui' = ui /\ picked = verdict[q].selected
          /\ scored' = scored /\ ranOut' = ranOut
        BY <1>1 DEF Submits
    <2> HIDE DEF t
    <2>4. WritesTo(q, t)
        BY <2>1, <2>2, <2>3 DEF WritesTo
    <2>5. QED
        BY <2>1, <2>2, <2>3, <2>4 DEF Grows
<1>2. ASSUME NEW r \in flight, NEW e \in BOOLEAN, Deliver(r, e)
      PROVE  \/ Grows /\ \E q \in Questions, s \in State : WritesTo(q, s)
             \/ Grows /\ UNCHANGED <<verdict, earned, ui>>
    <2> DEFINE status == Status(r.q, r.picked, e)
               t      == Applied(verdict[r.q], r.q, r.picked, status)
    <2>1. r.q \in Questions
        BY DEF TypeOK, Request
    <2>2. Grows /\ ui' = ui /\ asked' = asked
        BY <1>2 DEF Deliver, Grows, pickVars
    <2>3. CASE Current(r)
        <3>1. /\ t \in State /\ Truthful(r.q, t) /\ Write(r.q, t)
              /\ t.selected = r.picked /\ verdict[r.q].selected = r.picked
              /\ t.phase = "expired" => status = "expired"
              /\ t.right = "yes" => verdict[r.q].right = "yes" \/ Credits(r, status)
            BY <1>2, <2>3, Delivered
        <3>2. Credits(r, status) => r.q \in scored'
            BY <1>2 DEF Deliver
        <3>3. status = "expired" => r.q \in ranOut'
            BY <1>2, <2>3 DEF Deliver
        <3>4. r.q \in asked'
            BY <2>2, <2>3 DEF Requests
        <3> HIDE DEF t, status
        <3>5. WritesTo(r.q, t)
            BY <2>2, <3>1, <3>2, <3>3, <3>4 DEF WritesTo
        <3>6. QED
            BY <2>1, <2>2, <3>1, <3>5
    <2>4. CASE ~Current(r)
        BY <1>2, <2>2, <2>4 DEF Deliver
    <2>5. QED
        BY <2>3, <2>4
<1>3. ASSUME NEW r \in flight, DeliverReveal(r) \/ Fail(r)
      PROVE  \/ Grows /\ \E q \in Questions, s \in State : WritesTo(q, s)
             \/ Grows /\ UNCHANGED <<verdict, earned, ui>>
    <2>1. r.q \in Questions /\ {} \in SUBSET Options
        BY DEF TypeOK, Request
    <2>2. /\ Grows /\ ui' = ui
          /\ UNCHANGED <<asked, scored, ranOut>>
        BY <1>3 DEF DeliverReveal, Fail, Grows, pickVars
    <2>3. verdict[r.q] \in State /\ Truthful(r.q, verdict[r.q])
        BY <2>1 DEF TypeOK, AllTruthful
    <2>4. ASSUME Current(r), DeliverReveal(r)
          PROVE  \E s \in State : WritesTo(r.q, s)
        <3>1. PICK t : t = [verdict[r.q] EXCEPT !.phase = "expired",
                                               !.reveal = CorrectOf[r.q]]
            OBVIOUS
        <3>2. t \in State /\ Truthful(r.q, t)
            BY <2>1, <2>3, <3>1, PhaseState
        <3>3. t.right = verdict[r.q].right /\ t.selected = verdict[r.q].selected
            BY <2>3, <3>1 DEF State
        <3>4. Write(r.q, t)
            BY <2>4, <3>1 DEF DeliverReveal
        <3>5. r.q \in asked' /\ r.q \in ranOut'
            BY <2>2, <2>4 DEF Requests, DeliverReveal
        <3>6. WritesTo(r.q, t)
            BY <2>2, <3>2, <3>3, <3>4, <3>5 DEF WritesTo
        <3>7. QED
            BY <3>2, <3>6
    <2>5. ASSUME Current(r), Fail(r)
          PROVE  \E s \in State : WritesTo(r.q, s)
        <3>1. PICK t : t = Failed(verdict[r.q])
            OBVIOUS
        <3>2. t \in State /\ Truthful(r.q, t)
            BY <2>1, <2>3, <3>1, PhaseState
        <3>3. /\ t.right = verdict[r.q].right /\ t.selected = verdict[r.q].selected
              /\ t.phase = "error"
            BY <2>3, <3>1 DEF State, Failed
        <3>4. Write(r.q, t)
            BY <2>5, <3>1 DEF Fail
        <3>5. r.q \in asked'
            BY <2>2, <2>5 DEF Requests
        <3>6. WritesTo(r.q, t)
            BY <2>2, <3>2, <3>3, <3>4, <3>5 DEF WritesTo
        <3>7. QED
            BY <3>2, <3>6
    <2>6. ASSUME ~Current(r)
          PROVE  UNCHANGED <<verdict, earned, ui>>
        BY <1>3, <2>6 DEF DeliverReveal, Fail, pickVars
    <2>7. QED
        BY <1>3, <2>1, <2>2, <2>4, <2>5, <2>6
<1>4. ASSUME TimerRunsOut
      PROVE  Grows /\ UNCHANGED <<verdict, earned, ui>>
    BY <1>4 DEF TimerRunsOut, Send, Grows, pickVars
<1>5. ASSUME Moves
      PROVE  Grows /\ UNCHANGED <<verdict, earned, ui>>
    <2>1. ranOut \subseteq ranOut'
        BY <1>5 DEF Moves, RunsOutAway, ServerDeadline, Forward, Backward,
                    AdvanceToResults, BackToQuiz, vars
    <2>2. QED
        BY <1>5, <2>1 DEF Moves, Grows
<1>6. QED
    BY <1>1, <1>2, <1>3, <1>4, <1>5, Steps

\* What a restart leaves of verdicts, selections and time.
LEMMA RestartsClear ==
    ASSUME Restarts
    PROVE  /\ \A q \in Questions : /\ verdict'[q] = Idle /\ earned'[q] = Idle
                                   /\ ui'[q] = {}
           /\ clockOut' \subseteq ranOut' /\ furthest' = 1 /\ cur' = 1 /\ page' = "quiz"
           /\ Idle.phase = "idle" /\ Idle.right = "unknown"
  BY DEF Restarts, NewRun, ClearAll, Idle

LEMMA VerdictStep ==
    TypeOK /\ TypeOK' /\ Requests /\ NobodyWaitsForNothing /\ AllTruthful
        /\ StoredIsSettled /\ Shown /\ [Next]_vars
        => AllTruthful' /\ StoredIsSettled' /\ Shown'
<1> SUFFICES ASSUME TypeOK, TypeOK', Requests, NobodyWaitsForNothing, AllTruthful,
                    StoredIsSettled, Shown, [Next]_vars
             PROVE  AllTruthful' /\ StoredIsSettled' /\ Shown'
    OBVIOUS
<1>1. ASSUME NEW q \in Questions, NEW s \in State, WritesTo(q, s)
      PROVE  AllTruthful' /\ StoredIsSettled' /\ Shown'
    <2>1. /\ AllTruthful' /\ verdict'[q] = s
          /\ \/ earned'[q].phase = earned[q].phase
             \/ Terminal(s) /\ earned'[q].phase = s.phase
          /\ \A x \in Questions \ {q} :
                 verdict'[x] = verdict[x] /\ earned'[x] = earned[x]
        BY <1>1, WriteStep DEF WritesTo
    <2>2. StoredIsSettled'
        BY <2>1 DEF StoredIsSettled, Terminal
    <2>3. Shown'
        BY <1>1, <2>1 DEF WritesTo, Shown, TypeOK
    <2>4. QED
        BY <2>1, <2>2, <2>3
<1>2. ASSUME UNCHANGED <<verdict, earned, ui>>
      PROVE  AllTruthful' /\ StoredIsSettled' /\ Shown'
    BY <1>2 DEF AllTruthful, StoredIsSettled, Shown
<1>3. ASSUME Restarts
      PROVE  AllTruthful' /\ StoredIsSettled' /\ Shown'
    BY <1>3, RestartsClear, IdleState DEF AllTruthful, StoredIsSettled, Shown
<1>4. ASSUME Reload
      PROVE  AllTruthful' /\ StoredIsSettled' /\ Shown'
    BY <1>4 DEF Reload, AllTruthful, StoredIsSettled, Shown
<1>5. QED
    BY <1>1, <1>2, <1>3, <1>4, Writes

LEMMA RunStep ==
    TypeOK /\ TypeOK' /\ Requests /\ NobodyWaitsForNothing /\ AllTruthful
        /\ RestartIsClean /\ Credited /\ OutOfTime /\ [Next]_vars
        => RestartIsClean' /\ Credited' /\ OutOfTime'
<1> SUFFICES ASSUME TypeOK, TypeOK', Requests, NobodyWaitsForNothing, AllTruthful,
                    RestartIsClean, Credited, OutOfTime, [Next]_vars
             PROVE  RestartIsClean' /\ Credited' /\ OutOfTime'
    OBVIOUS
<1>0. clockOut' \subseteq ranOut'
    <2> USE DEF timeVars, checkVars, runVars, OutOfTime
    <2>1. ASSUME NEW q \in Questions, NEW picked \in SUBSET Options, Submits(q, picked)
          PROVE  clockOut' \subseteq ranOut'
        BY <2>1 DEF Submits
    <2>2. ASSUME NEW r \in flight, NEW e \in BOOLEAN,
                 Deliver(r, e) \/ DeliverReveal(r) \/ Fail(r)
          PROVE  clockOut' \subseteq ranOut'
        BY <2>2 DEF Deliver, DeliverReveal, Fail
    <2>3. ASSUME Moves
          PROVE  clockOut' \subseteq ranOut'
        BY <2>3 DEF Moves, RunsOutAway, ServerDeadline, Forward, Backward,
                    AdvanceToResults, BackToQuiz, vars
    <2>4. ASSUME TimerRunsOut \/ Reload
          PROVE  clockOut' \subseteq ranOut'
        BY <2>4 DEF TimerRunsOut, Reload
    <2>5. QED
        BY <2>1, <2>2, <2>3, <2>4, RestartsClear, Steps
<1>1. ASSUME Grows, NEW q \in Questions, NEW s \in State, WritesTo(q, s)
      PROVE  RestartIsClean' /\ Credited' /\ OutOfTime'
    <2>1. /\ verdict'[q] = s
          /\ \/ earned'[q].phase = earned[q].phase
             \/ Terminal(s) /\ earned'[q].phase = s.phase
          /\ earned'[q].right \in {earned[q].right, s.right}
          /\ \A x \in Questions \ {q} :
                 verdict'[x] = verdict[x] /\ earned'[x] = earned[x]
        BY <1>1, WriteStep DEF WritesTo
    <2>2. RestartIsClean'
        BY <1>1, <2>1 DEF WritesTo, Grows, RestartIsClean
    <2>3. Credited'
        BY <1>1, <2>1 DEF WritesTo, Grows, Credited
    <2>4. OutOfTime'
        BY <1>0, <1>1, <2>1 DEF WritesTo, Grows, OutOfTime
    <2>5. QED
        BY <2>2, <2>3, <2>4
<1>2. ASSUME Grows, UNCHANGED <<verdict, earned, ui>>
      PROVE  RestartIsClean' /\ Credited' /\ OutOfTime'
    BY <1>0, <1>2 DEF Grows, RestartIsClean, Credited, OutOfTime
<1>3. ASSUME Restarts
      PROVE  RestartIsClean' /\ Credited' /\ OutOfTime'
    BY <1>3, RestartsClear DEF RestartIsClean, Credited, OutOfTime
<1>4. ASSUME Reload
      PROVE  RestartIsClean' /\ Credited' /\ OutOfTime'
    BY <1>4 DEF Reload, RestartIsClean, Credited, OutOfTime
<1>5. QED
    BY <1>1, <1>2, <1>3, <1>4, Writes

-----------------------------------------------------------------------------
(* The unlocked range.                                                     *)

\* The gate only lets a question go that is credited or out of time.
LEMMA GateHolds ==
    ASSUME TypeOK, Credited, OutOfTime, MayMoveOn
    PROVE  cur \in scored \cup ranOut
<1>1. cur \in Questions
    BY DEF TypeOK
<1>2. CASE cur \in clockOut
    BY <1>2 DEF OutOfTime
<1>3. CASE ~Blocks(verdict[cur])
    <2>1. verdict[cur].phase = "expired" \/ verdict[cur].right = "yes"
        BY <1>3 DEF Blocks
    <2>2. QED
        BY <1>1, <2>1 DEF Credited, OutOfTime
<1>4. QED
    BY <1>2, <1>3 DEF MayMoveOn

LEMMA OrderStep ==
    TypeOK /\ Credited /\ OutOfTime /\ PassedInOrder /\ [Next]_vars => PassedInOrder'
<1> SUFFICES ASSUME TypeOK, Credited, OutOfTime, PassedInOrder, [Next]_vars
             PROVE  PassedInOrder'
    OBVIOUS
<1> USE QuizAssumption DEF timeVars, checkVars, runVars, scoreVars, viewVars
<1>1. cur \in Questions /\ furthest \in Questions /\ Questions = 1 .. N
    BY DEF TypeOK, Questions
<1>2. ASSUME NEW i \in Questions, Forward(i)
      PROVE  PassedInOrder'
    <2>1. cur \in scored \cup ranOut
        BY <1>2, GateHolds DEF Forward
    <2>2. /\ furthest' = UnlockThrough(cur + 1)
          /\ cur' = (IF i <= furthest' THEN i ELSE furthest')
          /\ UNCHANGED <<scored, ranOut, page>> /\ page = "quiz"
        BY <1>2 DEF Forward
    <2>3. furthest' = furthest \/ (furthest' = furthest + 1 /\ cur = furthest)
        BY <1>1, <2>2 DEF UnlockThrough, PassedInOrder
    <2>4. cur' <= furthest'
        BY <1>1, <2>2, <2>3
    <2>5. \A q \in 1 .. furthest' - 1 : q \in scored \cup ranOut
        BY <1>1, <2>1, <2>3 DEF PassedInOrder
    <2>6. QED
        BY <2>2, <2>4, <2>5 DEF PassedInOrder
<1>3. ASSUME NEW i \in Questions, Backward(i)
      PROVE  PassedInOrder'
    BY <1>1, <1>3 DEF Backward, PassedInOrder
<1>4. ASSUME AdvanceToResults \/ BackToQuiz
      PROVE  PassedInOrder'
    BY <1>1, <1>4 DEF AdvanceToResults, BackToQuiz, PassedInOrder
<1>5. ASSUME UNCHANGED <<cur, page, furthest>>, scored \subseteq scored',
             ranOut \subseteq ranOut'
      PROVE  PassedInOrder'
    BY <1>5 DEF PassedInOrder
<1>6. ASSUME NEW q \in Questions, NEW picked \in SUBSET Options, Submits(q, picked)
      PROVE  PassedInOrder'
    BY <1>5, <1>6 DEF Submits
<1>7. ASSUME NEW r \in flight, NEW e \in BOOLEAN,
             Deliver(r, e) \/ DeliverReveal(r) \/ Fail(r)
      PROVE  PassedInOrder'
    BY <1>5, <1>7 DEF Deliver, DeliverReveal, Fail
<1>8. ASSUME NEW q \in Questions, RunsOutAway(q) \/ ServerDeadline(q)
      PROVE  PassedInOrder'
    BY <1>5, <1>8 DEF RunsOutAway, ServerDeadline
<1>9. ASSUME TimerRunsOut \/ Reload \/ UNCHANGED vars
      PROVE  PassedInOrder'
    BY <1>5, <1>9 DEF TimerRunsOut, Reload, vars
<1>10. ASSUME Restarts
       PROVE  PassedInOrder'
    BY <1>10, RestartsClear DEF PassedInOrder
<1>11. Moves => PassedInOrder'
    BY <1>2, <1>3, <1>4, <1>8, <1>9 DEF Moves
<1>12. QED
    BY <1>6, <1>7, <1>9, <1>10, <1>11, Steps

-----------------------------------------------------------------------------

LEMMA TopicStep == TopicInv /\ [Next]_vars => TopicInv'
<1> SUFFICES ASSUME TopicInv, [Next]_vars PROVE TopicInv'
    OBVIOUS
<1> USE DEF TopicInv
<1>1. TypeOK'
    BY TypeStep
<1>2. Requests' /\ NobodyWaitsForNothing'
    BY <1>1, RequestsStep, WaitStep
<1>3. AllTruthful' /\ StoredIsSettled' /\ Shown'
    BY <1>1, VerdictStep
<1>4. RestartIsClean' /\ Credited' /\ OutOfTime'
    BY <1>1, RunStep
<1>5. QED
    BY <1>1, <1>2, <1>3, <1>4, OrderStep

LEMMA TopicInvariant == Spec => []TopicInv
  BY TopicInit, TopicStep, PTL DEF Spec

\* Type correctness: in particular every answer that is taken, merged, stored
\* and read back after a reload leaves a state of the service's own shape.
THEOREM TopicTypes == Spec => []TypeOK
  BY TopicInvariant, PTL DEF TopicInv

\* What a question shows is what the server said of its current selection, in
\* whatever order answers, failures, expiries, revisits and reloads came
\* (applyResult, isCurrent, rehydrate).
THEOREM ShownVerdictsAreTheServers == Spec => []VerdictIsTheServers
<1>1. TopicInv => VerdictIsTheServers
    BY DEF TopicInv, AllTruthful, Truthful, VerdictIsTheServers
<1>2. QED
    BY <1>1, TopicInvariant, PTL

\* A question that shows as being checked has a request out whose answer will
\* be taken, and the newest check is what it waits for (nextGeneration).
THEOREM EveryWaitHasARequest == Spec => []NobodyWaitsForNothing
  BY TopicInvariant, PTL DEF TopicInv

\* No verdict, and no stored one, survives a restart or comes back from a
\* request that was in flight across it (clearAll, clearEarned).
THEOREM NewRunsAreClean == Spec => []RestartIsClean
  BY TopicInvariant, PTL DEF TopicInv

\* Whatever is superseded, failed, reloaded or restarted: what is shown as
\* correct has its point (creditResolvedQuestion).
THEOREM ShownCorrectIsCredited == Spec => []CorrectIsCredited
<1>1. TopicInv => CorrectIsCredited
    BY DEF TopicInv, Credited, CorrectIsCredited
<1>2. QED
    BY <1>1, TopicInvariant, PTL

\* There is no way to a later question, or to Results, around one that is
\* neither credited nor out of time (the gates, unlockThrough, the guard).
THEOREM NoWayAround == Spec => []PassedInOrder
  BY TopicInvariant, PTL DEF TopicInv

\* A settled verdict describes the selection on the screen.
THEOREM SettledVerdictsAreShown == Spec => []JudgedIsShown
<1>1. TopicInv => JudgedIsShown
    BY DEF TopicInv, Shown, JudgedIsShown
<1>2. QED
    BY <1>1, TopicInvariant, PTL

-----------------------------------------------------------------------------
(* The abstract quiz.                                                      *)

\* The newest request of a question was sent in this run, and was late only
\* if the question still is.
Fresh ==
    \A r \in flight : Current(r) => r.run = run /\ (r.due => r.q \in late)

\* What the stored copy of a verdict tells is what the verdict does, and it
\* keeps every right answer.
Kept ==
    \A q \in Questions :
        /\ earned[q].reveal = verdict[q].reveal
        /\ verdict[q].right = "yes" => earned[q].right = "yes"

LEMMA FreshStep == TypeOK /\ Requests /\ Fresh /\ [Next]_vars => Fresh'
<1> SUFFICES ASSUME TypeOK, Requests, Fresh, [Next]_vars PROVE Fresh'
    OBVIOUS
<1> USE DEF timeVars, checkVars, runVars
<1>1. ASSUME NEW q \in Questions, NEW kind \in {"check", "reveal"},
             NEW picked \in SUBSET Options, Send(q, kind, picked),
             UNCHANGED <<late, run>>
      PROVE  Fresh'
    <2>1. /\ flight' = flight \cup {Sent(q, kind, picked)} /\ gens'[q] = gens[q] + 1
          /\ \A x \in Questions \ {q} : gens'[x] = gens[x]
        BY <1>1, SendStep
    <2>2. \A r \in flight : /\ r.q \in Questions /\ r.gen \in Nat
                             /\ r.gen <= gens[r.q] /\ gens[r.q] \in Nat
        BY DEF TypeOK, Request, Requests
    <2>3. \A r \in flight : Current(r)' => Current(r)
        BY <2>1, <2>2 DEF Current
    <2>4. LET n == Sent(q, kind, picked) IN n.run = run /\ (n.due => n.q \in late)
        BY DEF Sent
    <2>5. QED
        BY <1>1, <2>1, <2>3, <2>4 DEF Fresh
<1>2. ASSUME NEW q \in Questions, NEW picked \in SUBSET Options, Submits(q, picked)
      PROVE  Fresh'
    BY <1>1, <1>2 DEF Submits, CheckAnswer
<1>3. ASSUME TimerRunsOut PROVE Fresh'
    <2>1. cur \in Questions /\ {} \in SUBSET Options
        BY DEF TypeOK
    <2>2. QED
        BY <1>1, <1>3, <2>1 DEF TimerRunsOut
<1>4. ASSUME NEW r \in flight, NEW e \in BOOLEAN,
             Deliver(r, e) \/ DeliverReveal(r) \/ Fail(r)
      PROVE  Fresh'
    <2>1. flight' \subseteq flight /\ UNCHANGED <<gens, late, run>>
        BY <1>4 DEF Deliver, DeliverReveal, Fail
    <2>2. QED
        BY <2>1 DEF Fresh, Current
<1>5. ASSUME Moves PROVE Fresh'
    <2>1. UNCHANGED <<flight, gens, run>> /\ late \subseteq late'
        BY <1>5 DEF Moves, RunsOutAway, ServerDeadline, Forward, Backward,
                    AdvanceToResults, BackToQuiz, vars
    <2>2. QED
        BY <2>1 DEF Fresh, Current
<1>6. ASSUME Restarts \/ Reload PROVE Fresh'
    BY <1>6, NoneSurvives DEF Restarts, Reload, Fresh
<1>7. QED
    BY <1>2, <1>3, <1>4, <1>5, <1>6, Steps

\* What an answer that is taken tells and how it judges.
LEMMA ResolvedTells ==
    ASSUME NEW q \in Questions, NEW picked \in SUBSET Options, NEW s \in State,
           NEW t, t = Applied(s, q, picked, "resolved")
    PROVE  /\ t.phase = "resolved" /\ t.reveal = CorrectOf[q]
           /\ t.right = IF JudgedCorrect(q, picked) THEN "yes" ELSE "no"
  BY DEF Applied

LEMMA ExpiredTells ==
    ASSUME NEW q \in Questions, NEW picked \in SUBSET Options, NEW s \in State,
           NEW t, t = Applied(s, q, picked, "expired")
    PROVE  t.phase = "expired" /\ t.reveal = CorrectOf[q] /\ t.right = s.right
  BY DEF Applied, State

LEMMA IncompleteTells ==
    ASSUME NEW q \in Questions, NEW picked \in SUBSET Options, NEW s \in State,
           NEW t, t = Applied(s, q, picked, "incomplete")
    PROVE  /\ t.reveal = s.reveal
           /\ \/ t.phase = "resolved" /\ t.right = "yes" /\ picked = {} /\ s.right = "yes"
              \/ t.phase = "incomplete" /\ t.right = "unknown" /\ ~(picked = {} /\ s.right = "yes")
  BY DEF Applied, State

\* A terminal state is stored as it tells; any other tells what stood before.
LEMMA KeptWrite ==
    ASSUME TypeOK, Kept, NEW q \in Questions, NEW s \in State, Write(q, s),
           \/ Terminal(s)
           \/ /\ s.reveal = verdict[q].reveal
              /\ s.right = "yes" => verdict[q].right = "yes"
    PROVE  Kept'
<1>1. verdict' = [verdict EXCEPT ![q] = s]
    BY DEF Write
<1>2. CASE Terminal(s)
    <2>1. /\ earned' = [earned EXCEPT ![q] = Restorable(s)]
          /\ Restorable(s).reveal = s.reveal /\ Restorable(s).right = s.right
        BY <1>2 DEF Write, Restorable, State
    <2>2. QED
        BY <1>1, <2>1 DEF Kept, TypeOK
<1>3. CASE ~Terminal(s)
    <2>1. earned' = earned
        BY <1>3 DEF Write
    <2>2. QED
        BY <1>1, <1>3, <2>1 DEF Kept, TypeOK
<1>4. QED
    BY <1>2, <1>3

LEMMA KeptStep ==
    TypeOK /\ AllTruthful /\ NobodyWaitsForNothing /\ Kept /\ [Next]_vars => Kept'
<1> SUFFICES ASSUME TypeOK, AllTruthful, NobodyWaitsForNothing, Kept, [Next]_vars
             PROVE  Kept'
    OBVIOUS
<1> USE DEF timeVars, checkVars, runVars
<1>1. ASSUME NEW q \in Questions, NEW picked \in SUBSET Options, Submits(q, picked)
      PROVE  Kept'
    <2>1. PICK t \in State : t = [verdict[q] EXCEPT !.phase = "checking",
                                                   !.selected = picked] /\ Write(q, t)
        BY <1>1, Submitted DEF Submits
    <2>2. t.reveal = verdict[q].reveal /\ t.right = verdict[q].right
        BY <2>1 DEF TypeOK, State
    <2>3. QED
        BY <2>1, <2>2, KeptWrite
<1>2. ASSUME NEW r \in flight, NEW e \in BOOLEAN, Deliver(r, e), Current(r)
      PROVE  Kept'
    <2>1. PICK status : status = Status(r.q, r.picked, e)
        OBVIOUS
    <2>2. PICK t : t = Applied(verdict[r.q], r.q, r.picked, status)
        OBVIOUS
    <2>3. t \in State /\ Write(r.q, t)
        BY <1>2, <2>1, <2>2, Delivered
    <2>4. /\ r.q \in Questions /\ r.picked \in SUBSET Options
          /\ verdict[r.q] \in State
        BY DEF TypeOK, Request
    <2>5. status \in {"resolved", "expired", "incomplete"}
        BY <1>2, <2>1, StatusCases DEF Deliver
    <2>6. \/ Terminal(t)
          \/ t.reveal = verdict[r.q].reveal /\ t.right = "unknown"
        <3>1. CASE status = "resolved"
            BY <2>2, <2>4, <3>1, ResolvedTells DEF Terminal
        <3>2. CASE status = "expired"
            BY <2>2, <2>4, <3>2, ExpiredTells DEF Terminal
        <3>3. CASE status = "incomplete"
            BY <2>2, <2>4, <3>3, IncompleteTells DEF Terminal
        <3>4. QED
            BY <2>5, <3>1, <3>2, <3>3
    <2>7. QED
        BY <2>3, <2>4, <2>6, KeptWrite
<1>3. ASSUME NEW r \in flight, DeliverReveal(r) \/ Fail(r), Current(r)
      PROVE  Kept'
    <2>1. r.q \in Questions /\ verdict[r.q] \in State /\ {} \in SUBSET Options
        BY DEF TypeOK, Request
    <2>2. PICK t : /\ Write(r.q, t)
                   /\ \/ t = [verdict[r.q] EXCEPT !.phase = "expired",
                                                 !.reveal = CorrectOf[r.q]]
                      \/ t = Failed(verdict[r.q])
        BY <1>3 DEF DeliverReveal, Fail
    <2>3. t \in State /\ (Terminal(t) \/ t = Failed(verdict[r.q]))
        BY <2>1, <2>2, PhaseState DEF AllTruthful
    <2>4. t = Failed(verdict[r.q]) =>
              t.reveal = verdict[r.q].reveal /\ t.right = verdict[r.q].right
        BY <2>1 DEF Failed, State
    <2>5. QED
        BY <2>1, <2>2, <2>3, <2>4, KeptWrite
<1>4. ASSUME UNCHANGED <<verdict, earned>> PROVE Kept'
    BY <1>4 DEF Kept
<1>5. ASSUME Restarts PROVE Kept'
    BY <1>5, RestartsClear DEF Kept
<1>6. ASSUME Reload PROVE Kept'
    BY <1>6 DEF Reload, Kept
<1>7. QED
    BY <1>1, <1>2, <1>3, <1>4, <1>5, <1>6, Steps
       DEF Deliver, DeliverReveal, Fail, TimerRunsOut, Moves

\* The three sets the abstract quiz shows, of a function of states.
AwaitedOf(v)  == {<<q, v[q].selected>> : q \in {x \in Questions : v[x].phase = "checking"}}
RevealedOf(v) == {q \in Questions : v[q].reveal # {}}
RightOf(v)    == {q \in Questions : v[q].right = "yes"}

\* w is v with the state s written to question q.
Becomes(v, w, q, s) == w[q] = s /\ \A x \in Questions \ {q} : w[x] = v[x]

\* What a written state changes of them.
LEMMA AwaitedKept ==
    ASSUME NEW v, NEW w, NEW q \in Questions, NEW s, Becomes(v, w, q, s),
           NEW a \in AwaitedOf(v), a[1] # q
    PROVE  a \in AwaitedOf(w)
<1>1. PICK x \in Questions : v[x].phase = "checking" /\ a = <<x, v[x].selected>>
    BY DEF AwaitedOf
<1>2. w[x] = v[x]
    BY <1>1 DEF Becomes
<1>3. QED
    BY <1>1, <1>2 DEF AwaitedOf

LEMMA AwaitedFrom ==
    ASSUME NEW v, NEW w, NEW q \in Questions, NEW s, Becomes(v, w, q, s),
           NEW a \in AwaitedOf(w)
    PROVE  \/ a \in AwaitedOf(v) /\ a[1] # q
           \/ a = <<q, s.selected>> /\ s.phase = "checking"
<1>1. PICK x \in Questions : w[x].phase = "checking" /\ a = <<x, w[x].selected>>
    BY DEF AwaitedOf
<1>2. CASE x = q
    BY <1>1, <1>2 DEF Becomes
<1>3. CASE x # q
    BY <1>1, <1>3 DEF Becomes, AwaitedOf
<1>4. QED
    BY <1>2, <1>3

LEMMA AwaitedMore ==
    ASSUME NEW v, NEW w, NEW q \in Questions, NEW s, Becomes(v, w, q, s), s.phase = "checking"
    PROVE  AwaitedOf(w) = {a \in AwaitedOf(v) : a[1] # q} \cup {<<q, s.selected>>}
<1>1. <<q, s.selected>> \in AwaitedOf(w)
    BY DEF Becomes, AwaitedOf
<1>2. \A a \in AwaitedOf(v) : a[1] # q => a \in AwaitedOf(w)
    BY AwaitedKept
<1>3. \A a \in AwaitedOf(w) : a = <<q, s.selected>> \/ (a \in AwaitedOf(v) /\ a[1] # q)
    BY AwaitedFrom
<1>4. QED
    BY <1>1, <1>2, <1>3

LEMMA AwaitedLess ==
    ASSUME NEW v, NEW w, NEW q \in Questions, NEW s, Becomes(v, w, q, s), s.phase # "checking"
    PROVE  AwaitedOf(w) = {a \in AwaitedOf(v) : a[1] # q}
<1>1. \A a \in AwaitedOf(v) : a[1] # q => a \in AwaitedOf(w)
    BY AwaitedKept
<1>2. \A a \in AwaitedOf(w) : a \in AwaitedOf(v) /\ a[1] # q
    BY AwaitedFrom
<1>3. QED
    BY <1>1, <1>2

LEMMA RevealedSame ==
    ASSUME NEW v, NEW w, NEW q \in Questions, NEW s, Becomes(v, w, q, s), s.reveal = v[q].reveal
    PROVE  RevealedOf(w) = RevealedOf(v)
  BY DEF RevealedOf, Becomes

LEMMA RevealedMore ==
    ASSUME NEW v, NEW w, NEW q \in Questions, NEW s, Becomes(v, w, q, s), s.reveal # {}
    PROVE  RevealedOf(w) = RevealedOf(v) \cup {q}
  BY DEF RevealedOf, Becomes

LEMMA RightSame ==
    ASSUME NEW v, NEW w, NEW q \in Questions, NEW s, Becomes(v, w, q, s),
           s.right = v[q].right \/ (s.right # "yes" /\ v[q].right # "yes")
    PROVE  RightOf(w) = RightOf(v)
  BY DEF RightOf, Becomes

LEMMA RightLess ==
    ASSUME NEW v, NEW w, NEW q \in Questions, NEW s, Becomes(v, w, q, s), s.right # "yes"
    PROVE  RightOf(w) = RightOf(v) \ {q}
  BY DEF RightOf, Becomes

LEMMA QuizInit == Init => Quiz!Init
<1> SUFFICES ASSUME Init PROVE Quiz!Init
    OBVIOUS
<1>1. \A q \in Questions : /\ verdict[q].phase = "idle" /\ verdict[q].reveal = {}
                           /\ verdict[q].right = "unknown"
    BY DEF Init, Idle
<1>2. Waiting = {} /\ Unanswered = {}
    BY <1>1 DEF Init, Waiting, Unanswered
<1>3. QED
    BY <1>1, <1>2 DEF Init, Quiz!Init

\* A request that is answered, fails or is dropped leaves the others out.
LEMMA FewerUnanswered ==
    flight' \subseteq flight => Unanswered' \subseteq Unanswered
  BY DEF Unanswered

\* A selection is submitted and waited for.
LEMMA QuizSubmits ==
    ASSUME TypeOK, TypeOK', AllTruthful, NEW q \in Questions,
           NEW picked \in SUBSET Options, Submits(q, picked)
    PROVE  Quiz!Next
<1> USE DEF timeVars, checkVars, runVars, scoreVars
<1> DEFINE t == [verdict[q] EXCEPT !.phase = "checking", !.selected = picked]
<1>1. /\ t \in State /\ verdict' = [verdict EXCEPT ![q] = t]
      /\ t.phase = "checking" /\ t.selected = picked /\ t.right = verdict[q].right
    BY Submitted DEF Submits, Write
<1>2. t.reveal = verdict[q].reveal
    BY DEF TypeOK, State
<1> HIDE DEF t
<1>3. /\ AwaitedOf(verdict') = {a \in AwaitedOf(verdict) : a[1] # q} \cup {<<q, picked>>}
      /\ RevealedOf(verdict') = RevealedOf(verdict)
      /\ RightOf(verdict') = RightOf(verdict)
    <2>1. Becomes(verdict, verdict', q, t)
        BY <1>1 DEF Becomes, TypeOK
    <2>2. AwaitedOf(verdict') = {a \in AwaitedOf(verdict) : a[1] # q} \cup {<<q, picked>>}
        BY <1>1, <2>1, AwaitedMore
    <2>3. RevealedOf(verdict') = RevealedOf(verdict)
        BY <1>2, <2>1, RevealedSame
    <2>4. RightOf(verdict') = RightOf(verdict)
        BY <1>1, <2>1, RightSame
    <2>5. QED
        BY <2>2, <2>3, <2>4
<1>4. Unanswered' = Unanswered \cup {<<q, picked>>}
    <2>1. flight' = flight \cup {Sent(q, "check", picked)}
        BY SendStep DEF Submits, CheckAnswer
    <2>2. LET n == Sent(q, "check", picked) IN
              n.kind = "check" /\ n.q = q /\ n.picked = picked
        BY DEF Sent
    <2>3. QED
        BY <2>1, <2>2 DEF Unanswered
<1>5. UNCHANGED <<late, ranOut, scored, furthest>>
    BY DEF Submits
<1>6. Quiz!Submit(<<q, picked>>)
    BY <1>3, <1>4, <1>5
       DEF Quiz!Submit, Quiz!NotOf, AwaitedOf, RevealedOf, RightOf, Waiting
<1>7. <<q, picked>> \in Quiz!Submissions /\ <<q, picked>> \in AwaitedOf(verdict')
    BY <1>3 DEF Quiz!Submissions, Quiz!Questions, Questions
<1>8. QED
    BY <1>6, <1>7 DEF Quiz!Next, AwaitedOf, Waiting

\* An answer comes in: it resolves or fails what its question waits for, tells
\* that its time is up, or is dropped.
LEMMA QuizDelivers ==
    ASSUME TypeOK, TypeOK', AllTruthful, NobodyWaitsForNothing, Fresh,
           NEW r \in flight, NEW e \in BOOLEAN, Deliver(r, e)
    PROVE  Quiz!Next
<1> USE DEF timeVars, checkVars, runVars, scoreVars, viewVars
<1>1. PICK status : status = Status(r.q, r.picked, e)
    OBVIOUS
<1>2. /\ r.q \in Questions /\ r.picked \in SUBSET Options /\ r.kind = "check"
      /\ verdict[r.q] \in State
    BY DEF TypeOK, Request, Deliver
<1>3. status \in {"resolved", "expired", "incomplete"}
    BY <1>1, StatusCases DEF Deliver
<1>4. Unanswered' \subseteq Unanswered /\ <<r.q, r.picked>> \in Unanswered
    <2>1. flight' \subseteq flight
        BY DEF Deliver
    <2>2. QED
        BY <1>2, <2>1, FewerUnanswered DEF Unanswered
<1>5. UNCHANGED <<late, furthest>>
    BY DEF Deliver
<1>6. scored' = IF status = "resolved" /\ JudgedCorrect(r.q, r.picked)
                THEN scored \cup {r.q} ELSE scored
    BY <1>1, <1>2 DEF Deliver, Credits
<1>7. /\ status = "resolved" => ~Rejects(r.q, r.picked) /\ Resolves(r.q, r.picked)
      /\ status = "incomplete" => ~Resolves(r.q, r.picked)
      /\ status = "expired" => e = TRUE
    BY <1>1 DEF Status
<1>8. CASE ~Current(r)
    <2>1. UNCHANGED <<verdict, ranOut>>
        BY <1>8 DEF Deliver
    <2>2. CASE status = "resolved"
        <3>1. Quiz!Resolve(r.q, r.picked)
            BY <1>4, <1>5, <1>6, <1>7, <2>1, <2>2
               DEF Quiz!Resolve, Quiz!shown, Quiz!JudgedCorrect, JudgedCorrect,
                   Quiz!Rejects, Rejects, Quiz!Resolves, Resolves, Waiting
        <3>2. QED
            BY <1>4, <3>1 DEF Quiz!Next
    <2>3. CASE status # "resolved"
        <3>1. Quiz!Drop(r.q)
            BY <1>4, <1>5, <1>6, <2>1, <2>3 DEF Quiz!Drop, Waiting
        <3>2. QED
            BY <1>2, <3>1 DEF Quiz!Next, Quiz!Questions, Questions
    <2>4. QED
        BY <2>2, <2>3
<1>9. CASE Current(r)
    <2>1. PICK t : t = Applied(verdict[r.q], r.q, r.picked, status)
        OBVIOUS
    <2>2. verdict[r.q].phase = "checking" /\ verdict[r.q].selected = r.picked
        BY <1>2, <1>9 DEF NobodyWaitsForNothing
    <2>3. Becomes(verdict, verdict', r.q, t)
        BY <1>1, <1>2, <1>9, <2>1 DEF Deliver, Write, Becomes, TypeOK
    <2>4. <<r.q, r.picked>> \in AwaitedOf(verdict)
        BY <1>2, <2>2 DEF AwaitedOf
    <2>5. CASE status = "resolved"
        <3>1. /\ t.phase = "resolved" /\ t.reveal = CorrectOf[r.q]
              /\ t.right = IF JudgedCorrect(r.q, r.picked) THEN "yes" ELSE "no"
            BY <1>2, <2>1, <2>5, ResolvedTells
        <3> t.phase # "checking" /\ t.reveal # {}
            BY <1>2, <3>1, QuizAssumption
        <3>2. AwaitedOf(verdict') = {a \in AwaitedOf(verdict) : a[1] # r.q}
            BY <1>2, <2>3, AwaitedLess
        <3>3. RevealedOf(verdict') = RevealedOf(verdict) \cup {r.q}
            BY <1>2, <2>3, RevealedMore
        <3>4. RightOf(verdict') = IF JudgedCorrect(r.q, r.picked)
                                  THEN RightOf(verdict) \cup {r.q}
                                  ELSE RightOf(verdict) \ {r.q}
            <4>1. CASE JudgedCorrect(r.q, r.picked)
                <5>1. t.right = "yes"
                    BY <3>1, <4>1
                <5>2. RightOf(verdict') = RightOf(verdict) \cup {r.q}
                    BY <1>2, <2>3, <5>1 DEF RightOf, Becomes
                <5>3. QED
                    BY <4>1, <5>2
            <4>2. CASE ~JudgedCorrect(r.q, r.picked)
                <5>1. t.right # "yes"
                    BY <3>1, <4>2
                <5>2. RightOf(verdict') = RightOf(verdict) \ {r.q}
                    BY <1>2, <2>3, <5>1, RightLess
                <5>3. QED
                    BY <4>2, <5>2
            <4>3. QED
                BY <4>1, <4>2
        <3>5. ranOut' = ranOut
            BY <1>1, <2>5 DEF Deliver
        <3>6. Quiz!Resolve(r.q, r.picked)
            BY <1>4, <1>5, <1>6, <1>7, <2>4, <2>5, <3>2, <3>3, <3>4, <3>5
               DEF Quiz!Resolve, Quiz!NotOf, Quiz!JudgedCorrect, JudgedCorrect,
                   Quiz!Rejects, Rejects, Quiz!Resolves, Resolves, Waiting,
                   AwaitedOf, RevealedOf, RightOf
        <3>7. QED
            BY <1>4, <3>6 DEF Quiz!Next
    <2>6. CASE status = "incomplete"
        <3>1. /\ t.reveal = verdict[r.q].reveal /\ t.phase # "checking"
              /\ t.right = "yes" <=> (r.picked = {} /\ verdict[r.q].right = "yes")
            BY <1>2, <2>1, <2>6, IncompleteTells
        <3>2. AwaitedOf(verdict') = {a \in AwaitedOf(verdict) : a[1] # r.q}
            BY <1>2, <2>3, <3>1, AwaitedLess
        <3>3. RevealedOf(verdict') = RevealedOf(verdict)
            BY <1>2, <2>3, <3>1, RevealedSame
        <3>4. RightOf(verdict') = IF r.picked = {} THEN RightOf(verdict)
                                  ELSE RightOf(verdict) \ {r.q}
            <4>1. CASE r.picked = {}
                <5>1. t.right = verdict[r.q].right
                          \/ (t.right # "yes" /\ verdict[r.q].right # "yes")
                    BY <3>1, <4>1
                <5>2. QED
                    BY <1>2, <2>3, <4>1, <5>1, RightSame
            <4>2. CASE r.picked # {}
                BY <1>2, <2>3, <3>1, <4>2, RightLess
            <4>3. QED
                BY <4>1, <4>2
        <3>5. ranOut' = ranOut /\ scored' = scored
            BY <1>1, <1>6, <2>6 DEF Deliver
        <3>6. Quiz!Incomplete(r.q, r.picked)
            BY <1>4, <1>5, <1>7, <2>4, <2>6, <3>2, <3>3, <3>4, <3>5
               DEF Quiz!Incomplete, Quiz!NotOf, Quiz!Resolves, Resolves, Waiting,
                   AwaitedOf, RevealedOf, RightOf
        <3>7. QED
            BY <1>4, <3>6 DEF Quiz!Next
    <2>7. CASE status = "expired"
        <3>1. /\ t.reveal = CorrectOf[r.q] /\ t.phase = "expired"
              /\ t.right = verdict[r.q].right
            BY <1>2, <2>1, <2>7, ExpiredTells
        <3> t.reveal # {}
            BY <1>2, <3>1, QuizAssumption
        <3>2. AwaitedOf(verdict') = {a \in AwaitedOf(verdict) : a[1] # r.q}
            BY <1>2, <2>3, <3>1, AwaitedLess
        <3>3. RevealedOf(verdict') = RevealedOf(verdict) \cup {r.q}
            BY <1>2, <2>3, RevealedMore
        <3>4. RightOf(verdict') = RightOf(verdict)
            BY <1>2, <2>3, <3>1, RightSame
        <3>5. ranOut' = ranOut \cup {r.q} /\ scored' = scored
            BY <1>1, <1>6, <1>9, <2>7 DEF Deliver
        <3>6. r.q \in late
            BY <1>7, <1>9, <2>7 DEF Deliver, Answers, Fresh
        <3>7. Quiz!Expire(r.q)
            BY <1>4, <1>5, <3>2, <3>3, <3>4, <3>5, <3>6
               DEF Quiz!Expire, Quiz!NotOf, Waiting, AwaitedOf, RevealedOf, RightOf
        <3>8. QED
            BY <1>2, <3>7 DEF Quiz!Next, Quiz!Questions, Questions
    <2>8. QED
        BY <1>3, <2>5, <2>6, <2>7
<1>10. QED
    BY <1>8, <1>9

\* A reveal is told, or a request fails.
LEMMA QuizReveals ==
    ASSUME TypeOK, Requests, Fresh, NEW r \in flight, DeliverReveal(r) \/ Fail(r)
    PROVE  Quiz!Next
<1> USE DEF timeVars, runVars, scoreVars, viewVars
<1>1. r.q \in Questions /\ verdict[r.q] \in State
    BY DEF TypeOK, Request
<1>2. Unanswered' \subseteq Unanswered
    <2>1. flight' \subseteq flight
        BY DEF DeliverReveal, Fail
    <2>2. QED
        BY <2>1, FewerUnanswered
<1>3. UNCHANGED <<late, ranOut, scored, furthest>>
    BY DEF DeliverReveal, Fail
<1>4. CASE ~Current(r)
    <2>1. verdict' = verdict
        BY <1>4 DEF DeliverReveal, Fail
    <2>2. Quiz!Drop(r.q)
        BY <1>2, <1>3, <2>1 DEF Quiz!Drop, Waiting
    <2>3. QED
        BY <1>1, <2>2 DEF Quiz!Next, Quiz!Questions, Questions
<1>5. CASE Current(r) /\ DeliverReveal(r)
    <2>1. PICK t : t = [verdict[r.q] EXCEPT !.phase = "expired", !.reveal = CorrectOf[r.q]]
        OBVIOUS
    <2>2. t.phase = "expired" /\ t.reveal # {} /\ t.right = verdict[r.q].right
        BY <1>1, <2>1, QuizAssumption DEF State
    <2>3. Becomes(verdict, verdict', r.q, t)
        BY <1>1, <1>5, <2>1 DEF DeliverReveal, Write, Becomes, TypeOK
    <2>4. AwaitedOf(verdict') = {a \in AwaitedOf(verdict) : a[1] # r.q}
        BY <1>1, <2>2, <2>3, AwaitedLess
    <2>5. RevealedOf(verdict') = RevealedOf(verdict) \cup {r.q}
        BY <1>1, <2>2, <2>3, RevealedMore
    <2>6. RightOf(verdict') = RightOf(verdict)
        BY <1>1, <2>2, <2>3, RightSame
    <2>7. r.q \in late /\ r.q \in ranOut
        BY <1>5 DEF DeliverReveal, Answers, Fresh, Requests
    <2>8. Quiz!Expire(r.q)
        BY <1>2, <1>3, <2>4, <2>5, <2>6, <2>7
           DEF Quiz!Expire, Quiz!NotOf, Waiting, AwaitedOf, RevealedOf, RightOf
    <2>9. QED
        BY <1>1, <2>8 DEF Quiz!Next, Quiz!Questions, Questions
<1>6. CASE Current(r) /\ Fail(r)
    <2>1. PICK t : t = Failed(verdict[r.q])
        OBVIOUS
    <2>2. /\ t.phase # "checking" /\ t.reveal = verdict[r.q].reveal
          /\ t.right = verdict[r.q].right
        BY <1>1, <2>1 DEF Failed, State
    <2>3. Becomes(verdict, verdict', r.q, t)
        BY <1>1, <1>6, <2>1 DEF Fail, Write, Becomes, TypeOK
    <2>4. AwaitedOf(verdict') = {a \in AwaitedOf(verdict) : a[1] # r.q}
        BY <1>1, <2>2, <2>3, AwaitedLess
    <2>5. RevealedOf(verdict') = RevealedOf(verdict)
        BY <1>1, <2>2, <2>3, RevealedSame
    <2>6. RightOf(verdict') = RightOf(verdict)
        BY <1>1, <2>2, <2>3, RightSame
    <2>7. Quiz!Drop(r.q)
        BY <1>2, <1>3, <2>4, <2>5, <2>6
           DEF Quiz!Drop, Quiz!NotOf, Waiting, AwaitedOf, RevealedOf, RightOf
    <2>8. QED
        BY <1>1, <2>7 DEF Quiz!Next, Quiz!Questions, Questions
<1>7. QED
    BY <1>4, <1>5, <1>6

\* Time passes: on the server, or on the client for a question not answered
\* right, and then perhaps its answer is asked for.
LEMMA QuizTimes ==
    ASSUME TypeOK, PassedInOrder,
           TimerRunsOut \/ \E q \in Questions : RunsOutAway(q) \/ ServerDeadline(q)
    PROVE  Quiz!Next
<1> USE DEF timeVars, checkVars, scoreVars, viewVars
<1>1. CASE TimerRunsOut
    <2>1. cur \in Questions /\ {} \in SUBSET Options
        BY DEF TypeOK
    <2>2. Unanswered' = Unanswered
        <3>1. flight' = flight \cup {Sent(cur, "reveal", {})}
            BY <1>1, <2>1, SendStep DEF TimerRunsOut
        <3>2. Sent(cur, "reveal", {}).kind = "reveal"
            BY DEF Sent
        <3>3. QED
            BY <3>1, <3>2 DEF Unanswered
    <2>3. Quiz!RunOut(cur)
        BY <1>1, <2>1, <2>2 DEF TimerRunsOut, Quiz!RunOut, Quiz!shown, PassedInOrder, Waiting
    <2>4. QED
        BY <2>1, <2>3 DEF Quiz!Next, Quiz!Questions, Questions
<1>2. ASSUME NEW q \in Questions, RunsOutAway(q) PROVE Quiz!Next
    <2>1. Quiz!RunOut(q)
        BY <1>2 DEF RunsOutAway, Quiz!RunOut, Quiz!shown, Waiting, Unanswered
    <2>2. QED
        BY <2>1 DEF Quiz!Next, Quiz!Questions, Questions
<1>3. ASSUME NEW q \in Questions, ServerDeadline(q) PROVE Quiz!Next
    <2>1. Quiz!Deadline(q)
        BY <1>3 DEF ServerDeadline, Quiz!Deadline, Quiz!shown, Waiting, Unanswered
    <2>2. QED
        BY <2>1 DEF Quiz!Next, Quiz!Questions, Questions
<1>4. QED
    BY <1>1, <1>2, <1>3

\* Navigation opens at most the next question, behind one that may be left.
LEMMA QuizMoves ==
    ASSUME TopicInv,
           \/ \E i \in Questions : Forward(i) \/ Backward(i)
           \/ AdvanceToResults \/ BackToQuiz \/ UNCHANGED vars
    PROVE  Quiz!Next \/ UNCHANGED Quiz!vars
<1> USE DEF timeVars, checkVars, scoreVars, viewVars, TopicInv
<1>1. /\ UNCHANGED <<verdict, flight, late, ranOut, scored>>
      /\ (\E i \in Questions : Forward(i)) \/ furthest' = furthest
    BY DEF Forward, Backward, AdvanceToResults, BackToQuiz, vars
<1>2. UNCHANGED <<Unanswered, Waiting>>
    BY <1>1 DEF Unanswered, Waiting
<1>3. CASE furthest' = furthest
    BY <1>1, <1>2, <1>3 DEF Quiz!vars, Quiz!shown
<1>4. ASSUME NEW i \in Questions, Forward(i), furthest' # furthest
      PROVE  Quiz!Next
    <2>1. cur \in Questions /\ furthest \in Questions /\ cur <= furthest /\ N \in Nat
        BY QuizAssumption DEF TypeOK, PassedInOrder
    <2>2. furthest' = furthest + 1 /\ cur = furthest /\ furthest < N
        BY <1>4, <2>1 DEF Forward, UnlockThrough, Questions
    <2>3. cur \in scored \cup ranOut
        BY <1>4, GateHolds DEF Forward
    <2>4. Quiz!Unlock
        BY <1>1, <1>2, <2>2, <2>3 DEF Quiz!Unlock, Quiz!shown
    <2>5. QED
        BY <2>4 DEF Quiz!Next
<1>5. QED
    BY <1>1, <1>3, <1>4

\* A restart, and a reload.
LEMMA QuizRenews ==
    ASSUME TopicInv, TypeOK', Kept, Restarts \/ Reload
    PROVE  Quiz!Next
<1> USE DEF TopicInv
<1>1. CASE Restarts
    <2>1. \A q \in Questions : /\ verdict'[q].phase = "idle" /\ verdict'[q].reveal = {}
                               /\ verdict'[q].right = "unknown"
        BY <1>1, RestartsClear DEF Idle
    <2>2. /\ AwaitedOf(verdict') = {} /\ RevealedOf(verdict') = {}
          /\ RightOf(verdict') = {}
        BY <2>1 DEF AwaitedOf, RevealedOf, RightOf
    <2>3. /\ scored' = {} /\ furthest' = 1 /\ flight' = flight
          /\ late' \in {late, {}} /\ ranOut' \subseteq ranOut
        BY <1>1 DEF Restarts, NewRun, OutOfTime
    <2>4. Unanswered' = Unanswered
        BY <2>3 DEF Unanswered
    <2>5. Quiz!Restart
        BY <2>2, <2>3, <2>4 DEF Quiz!Restart, Waiting, AwaitedOf, RevealedOf, RightOf
    <2>6. QED
        BY <2>5 DEF Quiz!Next
<1>2. CASE Reload
    <2>1. /\ verdict' = earned /\ flight' = {} /\ late' = {}
          /\ UNCHANGED <<ranOut, scored, furthest>>
        BY <1>2 DEF Reload
    <2>2. AwaitedOf(verdict') = {} /\ Unanswered' = {}
        BY <2>1 DEF AwaitedOf, Unanswered, StoredIsSettled
    <2>3. RevealedOf(verdict') = RevealedOf(verdict)
        BY <2>1 DEF RevealedOf, Kept
    <2>4. RightOf(verdict) \subseteq RightOf(verdict') /\ RightOf(verdict') \subseteq scored
        BY <2>1 DEF RightOf, Kept, Credited
    <2>5. Quiz!Reload
        BY <2>1, <2>2, <2>3, <2>4 DEF Quiz!Reload, Waiting, AwaitedOf, RevealedOf, RightOf
    <2>6. QED
        BY <2>5 DEF Quiz!Next
<1>3. QED
    BY <1>1, <1>2

RunInv == TopicInv /\ Fresh /\ Kept

LEMMA QuizStep == RunInv /\ [Next]_vars => [Quiz!Next]_(Quiz!vars)
<1> SUFFICES ASSUME RunInv, [Next]_vars
             PROVE  Quiz!Next \/ UNCHANGED Quiz!vars
    OBVIOUS
<1> USE DEF RunInv
<1>1. TypeOK'
    BY TopicStep DEF TopicInv
<1>2. ASSUME NEW q \in Questions, NEW picked \in SUBSET Options, Submits(q, picked)
      PROVE  Quiz!Next
    BY <1>1, <1>2, QuizSubmits DEF TopicInv
<1>3. ASSUME NEW r \in flight, NEW e \in BOOLEAN, Deliver(r, e)
      PROVE  Quiz!Next
    BY <1>1, <1>3, QuizDelivers DEF TopicInv
<1>4. ASSUME NEW r \in flight, DeliverReveal(r) \/ Fail(r)
      PROVE  Quiz!Next
    BY <1>4, QuizReveals DEF TopicInv
<1>5. ASSUME TimerRunsOut PROVE Quiz!Next
    BY <1>5, QuizTimes DEF TopicInv
<1>6. ASSUME Moves PROVE Quiz!Next \/ UNCHANGED Quiz!vars
    BY <1>6, QuizMoves, QuizTimes DEF Moves, TopicInv
<1>7. ASSUME Restarts \/ Reload PROVE Quiz!Next
    BY <1>1, <1>7, QuizRenews
<1>8. QED
    BY <1>2, <1>3, <1>4, <1>5, <1>6, <1>7, Steps DEF TopicInv

\* The quiz implements the abstract one, for any quiz, bounds, order of answers
\* and failures: the correct options are told only for an answer that resolves
\* the question or after the server's deadline, a point is for a submitted
\* correct answer, and nothing opens around a question (applyResult, isCurrent,
\* creditResolvedQuestion, rehydrate, unlockThrough).
THEOREM TopicImplementsQuiz == Spec => ImplementsQuiz
<1>1. Init => RunInv
    <2>1. Init => Fresh
        BY DEF Init, Fresh
    <2>2. Init => Kept
        BY DEF Init, Kept, Idle
    <2>3. QED
        BY <2>1, <2>2, TopicInit DEF RunInv
<1>2. RunInv /\ [Next]_vars => RunInv'
    BY TopicStep, FreshStep, KeptStep DEF RunInv, TopicInv
<1>3. QED
    BY <1>1, <1>2, QuizInit, QuizStep, PTL DEF Spec, ImplementsQuiz, Quiz!Spec
=============================================================================
