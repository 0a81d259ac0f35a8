----------------------- MODULE InterviewSessionProofs -----------------------
(***************************************************************************)
(* Theorems about InterviewSession, for any set of requests and calls, any *)
(* snapshot of questions and any deadline: types and the one result, what  *)
(* the status and the result say about time, what was acknowledged, and    *)
(* the refinement of InterviewAttempt.                                     *)
(***************************************************************************)
EXTENDS InterviewSession, TLAPS

LEMMA TypeInit == Init => TypeOK
  BY QuestionAssumption, ClockAssumption
     DEF Init, TypeOK, NoView, Answers, Flags, View, Statuses, PCs, Replies

LEMMA FrozenType ==
    ASSUME TypeOK, NEW r \in Reqs PROVE Frozen(r) \in Result
  BY ClockAssumption DEF TypeOK, Frozen, Earlier, View, Result

LEMMA TypeStep == TypeOK /\ [Next]_vars => TypeOK'
<1> USE ClockAssumption, QuestionAssumption
<1> SUFFICES ASSUME TypeOK, [Next]_vars PROVE TypeOK'
    OBVIOUS
<1> USE DEF TypeOK, Goto, Respond, Proceed, NoWrite, rowVars, dataVars, reqVars,
            PCs, Replies, Statuses
<1>1. CASE UNCHANGED vars
    BY <1>1 DEF vars
<1>2. CASE Tick
    BY <1>2 DEF Tick
<1>3. ASSUME NEW r \in Reqs, Arrive(r) PROVE TypeOK'
    BY <1>3 DEF Arrive
<1>4. ASSUME NEW r \in Reqs, Fail(r) PROVE TypeOK'
    BY <1>4 DEF Fail
<1>5. ASSUME NEW r \in Reqs, RejectToken(r) PROVE TypeOK'
    BY <1>5 DEF RejectToken
<1>6. ASSUME NEW r \in Reqs, AcceptToken(r) PROVE TypeOK'
    BY <1>6 DEF AcceptToken, AfterToken
<1>7. ASSUME NEW r \in Reqs, CheckSubmitted(r) PROVE TypeOK'
    BY <1>7 DEF CheckSubmitted
<1>8. ASSUME NEW r \in Reqs, CheckExpired(r) PROVE TypeOK'
    BY <1>8 DEF CheckExpired
<1>9. ASSUME NEW r \in Reqs, CheckPasses(r) PROVE TypeOK'
    BY <1>9 DEF CheckPasses
<1>10. ASSUME NEW r \in Reqs, RejectWrite(r) PROVE TypeOK'
    BY <1>10 DEF RejectWrite
<1>11. ASSUME NEW r \in Reqs, ClearMissing(r) PROVE TypeOK'
    BY <1>11 DEF ClearMissing
<1>12. ASSUME NEW r \in Reqs, Write(r) PROVE TypeOK'
    BY <1>12 DEF Write
<1>13. ASSUME NEW r \in Reqs, Commit(r) PROVE TypeOK'
    <2> USE DEF Commit
    <2>1. call[r] \in CallRec
        BY <1>13, CallsAssumption
    <2>2. answers' \in Answers /\ flags' \in Flags
      <3>1. CASE call[r].op = "save" /\ flags' = flags
                 /\ answers' = [answers EXCEPT ![call[r].q] = call[r].sel]
          BY <3>1, <2>1 DEF Answers, CallRec
      <3>2. CASE call[r].op = "flag" /\ answers' = answers
                 /\ flags' = [flags EXCEPT ![call[r].q] = call[r].on]
          BY <3>2, <2>1 DEF Flags, CallRec
      <3>3. QED
          BY <1>13, <3>1, <3>2
    <2>3. quiet' \in [Reqs -> SUBSET (Writes \X Questions)]
        BY <1>13
    <2>4. QED
        BY <1>13, <2>2, <2>3
<1>14. ASSUME NEW r \in Reqs, CommitEmpty(r) PROVE TypeOK'
    BY <1>14 DEF CommitEmpty
<1>15. ASSUME NEW r \in Reqs, ExpireNow(r) PROVE TypeOK'
    BY <1>15 DEF ExpireNow
<1>16. ASSUME NEW r \in Reqs, Lookup(r) PROVE TypeOK'
    BY <1>16 DEF Lookup
<1>17. ASSUME NEW r \in Reqs, Decide(r) PROVE TypeOK'
    BY <1>17 DEF Decide, AfterLookup, Refusal
<1>18. ASSUME NEW r \in Reqs, ExpireIfDue(r) PROVE TypeOK'
    BY <1>18 DEF ExpireIfDue
<1>19. ASSUME NEW r \in Reqs, ReadStored(r) PROVE TypeOK'
    BY <1>19 DEF ReadStored, TellStored
<1>20. ASSUME NEW r \in Reqs, FinalizeSubmitted(r) PROVE TypeOK'
    BY <1>20 DEF FinalizeSubmitted, TellStored
<1>21. ASSUME NEW r \in Reqs, FinalizeOpen(r) PROVE TypeOK'
    BY <1>21 DEF FinalizeOpen
<1>22. ASSUME NEW r \in Reqs, LoadQuestions(r) PROVE TypeOK'
    BY <1>22 DEF LoadQuestions, View
<1>23. ASSUME NEW r \in Reqs, LoadAnswers(r) PROVE TypeOK'
    BY <1>23 DEF LoadAnswers, View
<1>24. ASSUME NEW r \in Reqs, Store(r) PROVE TypeOK'
    BY <1>24 DEF Store
<1>25. ASSUME NEW r \in Reqs, StoreCommit(r) PROVE TypeOK'
    <2>1. Frozen(r) \in Result
        BY FrozenType
    <2>2. told' \in [Reqs -> Result \cup {Null}]
        BY <1>25, <2>1 DEF StoreCommit
    <2>3. /\ pc' \in [Reqs -> PCs] /\ reply' \in [Reqs -> Replies]
          /\ UNCHANGED call /\ pc[r] # "idle"
          /\ \A x \in Reqs : x # r => pc'[x] = pc[x]
        BY <1>25 DEF StoreCommit
    <2>4. /\ status' \in Statuses /\ result' \in Result /\ winner' \in Reqs
          /\ UNCHANGED <<clock, answers, flags, quiet, at, seen, view, born>>
        BY <1>25, <2>1 DEF StoreCommit
    <2>5. QED
        BY <2>2, <2>3, <2>4
<1>26. ASSUME NEW r \in Reqs, ReadWinner(r) PROVE TypeOK'
    BY <1>26 DEF ReadWinner, TellStored
<1>27. QED
    BY <1>1, <1>2, <1>3, <1>4, <1>5, <1>6, <1>7, <1>8, <1>9, <1>10, <1>11,
       <1>12, <1>13, <1>14, <1>15, <1>16, <1>17, <1>18, <1>19, <1>20, <1>21,
       <1>22, <1>23, <1>24, <1>25, <1>26 DEF Next, Step

\* Every variable keeps its type whatever requests race on the session: the
\* database columns their CHECK constraints, each request its program.
THEOREM TypeCorrect == Spec => []TypeOK
<1>1. Init => TypeOK
    BY TypeInit
<1>2. TypeOK /\ [Next]_vars => TypeOK'
    BY TypeStep
<1>3. QED
    BY <1>1, <1>2, PTL DEF Spec
-----------------------------------------------------------------------------
(* One result.  The session row can be written by one transaction at a      *)
(* time, and the one that stores a result found none there; a reader that   *)
(* expects a result does so because it has seen 'submitted', which never    *)
(* goes away.                                                               *)

OneWriter ==
    /\ \A r \in Reqs : pc[r] = "storeCommit" => status # "submitted"
    /\ \A r, x \in Reqs :
          pc[r] = "storeCommit" /\ pc[x] = "storeCommit" => r = x

SawSubmitted ==
    \A r \in Reqs :
        \/ pc[r] \in {"readStored", "readWinner"}
        \/ pc[r] = "decide" /\ seen[r] = "submitted"
        => status = "submitted"

HasResult == status = "submitted" <=> result # Null

RowInv == OneWriter /\ SawSubmitted /\ HasResult /\ OneResultForAll /\ NeverCorrupt

LEMMA RowInit == Init => RowInv
  BY DEF Init, RowInv, OneWriter, SawSubmitted, HasResult, OneResultForAll,
         NeverCorrupt

\* A step that leaves the row alone and only moves r along, to a place that
\* asks nothing of the row.
LEMMA RowFrame ==
    ASSUME TypeOK, RowInv, UNCHANGED rowVars, NEW r \in Reqs,
           NEW next \in PCs \ {"storeCommit", "readStored", "readWinner", "decide"},
           Goto(r, next), UNCHANGED told \/ told' = [told EXCEPT ![r] = Null],
           \A x \in Reqs : x # r => seen'[x] = seen[x],
           \/ UNCHANGED reply
           \/ \E k \in Replies \ {"corrupt"} : reply' = [reply EXCEPT ![r] = k]
    PROVE  RowInv'
<1> USE DEF TypeOK, RowInv, rowVars, Goto
<1>1. OneWriter'
    BY DEF OneWriter
<1>2. SawSubmitted'
    BY DEF SawSubmitted
<1>3. HasResult'
    BY DEF HasResult
<1>4. OneResultForAll'
    BY DEF OneResultForAll
<1>5. NeverCorrupt'
    BY DEF NeverCorrupt
<1>6. QED
    BY <1>1, <1>2, <1>3, <1>4, <1>5

LEMMA RowStep == TypeOK /\ RowInv /\ [Next]_vars => RowInv'
<1> SUFFICES ASSUME TypeOK, RowInv, [Next]_vars PROVE RowInv'
    OBVIOUS
<1> USE DEF Replies, PCs
<1>1. CASE UNCHANGED vars
    BY <1>1 DEF vars, rowVars, reqVars, RowInv, OneWriter, SawSubmitted,
                HasResult, OneResultForAll, NeverCorrupt
<1>2. CASE Tick
    BY <1>2 DEF Tick, rowVars, reqVars, RowInv, OneWriter, SawSubmitted,
                HasResult, OneResultForAll, NeverCorrupt
<1>3. ASSUME NEW r \in Reqs,
             Arrive(r) \/ AcceptToken(r) \/ FinalizeOpen(r) \/ LoadQuestions(r)
             \/ LoadAnswers(r)
      PROVE  RowInv'
    <2> USE DEF NoWrite
    <2>1. CASE Arrive(r)
        BY <2>1, RowFrame DEF Arrive, rowVars
    <2>2. CASE AcceptToken(r)
        BY <2>2, RowFrame DEF AcceptToken, AfterToken
    <2>3. CASE FinalizeOpen(r)
        BY <2>3, RowFrame DEF FinalizeOpen, TypeOK
    <2>4. CASE LoadQuestions(r)
        BY <2>4, RowFrame DEF LoadQuestions
    <2>5. CASE LoadAnswers(r)
        BY <2>5, RowFrame DEF LoadAnswers, Goto
    <2>6. QED
        BY <1>3, <2>1, <2>2, <2>3, <2>4, <2>5
<1>4. ASSUME NEW r \in Reqs,
             CheckExpired(r) \/ CheckPasses(r) \/ ClearMissing(r) \/ Write(r)
      PROVE  RowInv'
    BY <1>4, RowFrame
       DEF CheckExpired, CheckPasses, ClearMissing, Write, Proceed, NoWrite
<1>5. ASSUME NEW r \in Reqs,
             RejectToken(r) \/ CheckSubmitted(r) \/ RejectWrite(r) \/ Commit(r)
             \/ CommitEmpty(r) \/ Fail(r)
      PROVE  RowInv'
    BY <1>5, RowFrame
       DEF RejectToken, CheckSubmitted, RejectWrite, Commit, CommitEmpty, Fail,
           Respond, NoWrite
<1>6. ASSUME NEW r \in Reqs, ExpireNow(r) \/ ExpireIfDue(r) PROVE RowInv'
    <2>1. /\ status' = status \/ (status = "active" /\ status' = "expired")
          /\ Respond(r, "expired", Null) /\ result' = result
          /\ \A x \in Reqs : pc[x] # "storeCommit"
        BY <1>6 DEF ExpireNow, ExpireIfDue, SessionRowHeld
    <2> USE <2>1 DEF RowInv, Respond, Goto, TypeOK
    <2>2. OneWriter'
        BY DEF OneWriter
    <2>3. SawSubmitted'
        BY DEF SawSubmitted
    <2>4. HasResult' /\ OneResultForAll' /\ NeverCorrupt'
        BY DEF HasResult, OneResultForAll, NeverCorrupt
    <2>5. QED
        BY <2>2, <2>3, <2>4
<1>7. ASSUME NEW r \in Reqs, Lookup(r) PROVE RowInv'
    BY <1>7 DEF Lookup, Goto, NoWrite, rowVars, TypeOK, RowInv, OneWriter,
                SawSubmitted, HasResult, OneResultForAll, NeverCorrupt
<1>8. ASSUME NEW r \in Reqs, Decide(r) PROVE RowInv'
    <2> USE <1>8 DEF Decide, NoWrite, rowVars, Goto, TypeOK, RowInv, AfterLookup
    <2>1. OneWriter'
        BY DEF OneWriter
    <2>2. SawSubmitted'
        BY DEF SawSubmitted
    <2>3. HasResult' /\ OneResultForAll' /\ NeverCorrupt'
        BY DEF HasResult, OneResultForAll, NeverCorrupt, Refusal
    <2>4. QED
        BY <2>1, <2>2, <2>3
<1>9. ASSUME NEW r \in Reqs,
             ReadStored(r) \/ FinalizeSubmitted(r) \/ ReadWinner(r)
      PROVE  RowInv'
    <2>1. status = "submitted" /\ result # Null
        BY <1>9 DEF RowInv, SawSubmitted, HasResult, ReadStored,
                    FinalizeSubmitted, ReadWinner
    <2>2. Respond(r, "result", result) /\ UNCHANGED rowVars
        BY <1>9, <2>1
           DEF ReadStored, FinalizeSubmitted, ReadWinner, TellStored, NoWrite
    <2> USE <2>1, <2>2 DEF RowInv, Respond, Goto, TypeOK, rowVars
    <2>3. OneWriter' /\ SawSubmitted' /\ HasResult'
        BY DEF OneWriter, SawSubmitted, HasResult
    <2>4. OneResultForAll' /\ NeverCorrupt'
        BY DEF OneResultForAll, NeverCorrupt
    <2>5. QED
        BY <2>3, <2>4
<1>10. ASSUME NEW r \in Reqs, Store(r) PROVE RowInv'
    <2> USE <1>10 DEF Store, SessionRowHeld, Proceed, NoWrite, rowVars, Goto,
                      TypeOK, RowInv
    <2>1. OneWriter'
        BY DEF OneWriter
    <2>2. SawSubmitted' /\ HasResult' /\ OneResultForAll' /\ NeverCorrupt'
        BY DEF SawSubmitted, HasResult, OneResultForAll, NeverCorrupt
    <2>3. QED
        BY <2>1, <2>2
<1>11. ASSUME NEW r \in Reqs, StoreCommit(r) PROVE RowInv'
    <2> USE <1>11 DEF StoreCommit, Respond, Goto, TypeOK, RowInv
    <2>1. Frozen(r) # Null
        BY FrozenType, NullAssumption
    <2>2. \A x \in Reqs : told[x] = Null
        BY DEF OneWriter, OneResultForAll
    <2>3. OneWriter'
        BY DEF OneWriter
    <2>4. SawSubmitted' /\ HasResult'
        BY <2>1 DEF SawSubmitted, HasResult
    <2>5. OneResultForAll' /\ NeverCorrupt'
        BY <2>1, <2>2 DEF OneResultForAll, NeverCorrupt
    <2>6. QED
        BY <2>3, <2>4, <2>5
<1>12. QED
    BY <1>1, <1>2, <1>3, <1>4, <1>5, <1>6, <1>7, <1>8, <1>9, <1>10, <1>11
       DEF Next, Step

\* All responses carrying a result carry the stored one.
THEOREM OneResult == Spec => []OneResultForAll
<1>1. Init => TypeOK /\ RowInv
    BY TypeInit, RowInit
<1>2. TypeOK /\ RowInv /\ [Next]_vars => TypeOK' /\ RowInv'
    BY TypeStep, RowStep
<1>3. TypeOK /\ RowInv => OneResultForAll
    BY DEF RowInv
<1>4. QED
    BY <1>1, <1>2, <1>3, PTL DEF Spec

\* No reader that expects a stored result ever misses it.
THEOREM NoCorruptReply == Spec => []NeverCorrupt
<1>1. Init => TypeOK /\ RowInv
    BY TypeInit, RowInit
<1>2. TypeOK /\ RowInv /\ [Next]_vars => TypeOK' /\ RowInv'
    BY TypeStep, RowStep
<1>3. TypeOK /\ RowInv => NeverCorrupt
    BY DEF RowInv
<1>4. QED
    BY <1>1, <1>2, <1>3, PTL DEF Spec

LEMMA SubmittedStep ==
    TypeOK /\ RowInv /\ Next /\ status = "submitted" => UNCHANGED <<status, result>>
<1> SUFFICES ASSUME TypeOK, RowInv, Next, status = "submitted"
             PROVE  UNCHANGED <<status, result>>
    OBVIOUS
<1> USE DEF NoWrite, rowVars, Step
<1>1. \A r \in Reqs : pc[r] # "storeCommit"
    BY DEF RowInv, OneWriter
<1>2. CASE Tick
    BY <1>2 DEF Tick
<1>3. ASSUME NEW r \in Reqs, Arrive(r) \/ Step(r) \/ Fail(r)
      PROVE  UNCHANGED <<status, result>>
  <2>1. CASE ExpireNow(r) \/ ExpireIfDue(r)
      BY <2>1 DEF ExpireNow, ExpireIfDue
  <2>2. CASE ReadStored(r) \/ FinalizeSubmitted(r) \/ ReadWinner(r)
      BY <2>2 DEF ReadStored, FinalizeSubmitted, ReadWinner, TellStored
  <2>3. CASE Arrive(r) \/ Fail(r) \/ RejectToken(r) \/ AcceptToken(r)
             \/ CheckSubmitted(r) \/ CheckExpired(r) \/ CheckPasses(r)
             \/ RejectWrite(r) \/ ClearMissing(r) \/ Write(r)
             \/ Commit(r) \/ CommitEmpty(r)
      BY <2>3 DEF Arrive, Fail, RejectToken, AcceptToken, CheckSubmitted,
                  CheckExpired, CheckPasses, RejectWrite, ClearMissing,
                  Write, Commit, CommitEmpty
  <2>4. CASE Lookup(r) \/ Decide(r) \/ FinalizeOpen(r) \/ LoadQuestions(r)
             \/ LoadAnswers(r) \/ Store(r)
      BY <2>4 DEF Lookup, Decide, FinalizeOpen, LoadQuestions, LoadAnswers,
                  Store
  <2>5. CASE StoreCommit(r)
      BY <2>5, <1>1 DEF StoreCommit
  <2>6. QED
      BY <1>3, <2>1, <2>2, <2>3, <2>4, <2>5
<1>4. QED
    BY <1>2, <1>3 DEF Next

\* Once submitted, the status and the result never change again.
THEOREM ResultNeverChanges == Spec => ResultFrozen
<1>1. Init => TypeOK /\ RowInv
    BY TypeInit, RowInit
<1>2. TypeOK /\ RowInv /\ [Next]_vars => TypeOK' /\ RowInv'
    BY TypeStep, RowStep
<1>3. TypeOK /\ RowInv /\ [Next]_vars
      => [status = "submitted" => UNCHANGED <<status, result>>]_vars
    BY SubmittedStep
<1>4. QED
    BY <1>1, <1>2, <1>3, PTL DEF Spec, ResultFrozen
-----------------------------------------------------------------------------
(* Honesty.  Every "expired" a request acts on was true when it was read,   *)
(* and the clock a request captured is never ahead of the present.          *)

Over == clock >= ExpiresAt

TimeInv ==
    /\ \A r \in Reqs : at[r] <= clock
    /\ status = "expired" => Over
    /\ \A r \in Reqs : pc[r] = "expireNow" => Over
    /\ \A r \in Reqs : seen[r] = "expired" => Over
    /\ ResultTruthful

LEMMA TimeInit == Init => TimeInv
  BY NullAssumption, ClockAssumption DEF Init, TimeInv, Over, ResultTruthful

\* A step that leaves the row alone, and moves r without reading an expiry
\* that has not happened.
LEMMA TimeFrame ==
    ASSUME TypeOK, TypeOK', TimeInv, UNCHANGED <<clock, status, result>>, NEW r \in Reqs,
           \A x \in Reqs : x # r => pc'[x] = pc[x] /\ at'[x] = at[x] /\ seen'[x] = seen[x],
           at'[r] <= clock,
           pc'[r] = "expireNow" => Over,
           seen'[r] = "expired" => Over
    PROVE  TimeInv'
  BY ClockAssumption DEF TypeOK, TimeInv, Over, ResultTruthful

\* What request r would freeze is true: the clock it captured is past, and an
\* "expired" it saw was real.
LEMMA FrozenTruthful ==
    ASSUME TypeOK, TimeInv, NEW r \in Reqs
    PROVE  /\ Frozen(r).byExpiry => Over
           /\ ~Frozen(r).byExpiry => Frozen(r).at < ExpiresAt
           /\ Frozen(r).at <= clock
<1>1. at[r] \in Nat /\ clock \in Nat /\ ExpiresAt \in Nat
    BY ClockAssumption DEF TypeOK
<1>2. Frozen(r).byExpiry <=> (at[r] >= ExpiresAt \/ seen[r] = "expired")
    BY Zenon DEF Frozen
<1>3. Frozen(r).at = Earlier(at[r], ExpiresAt)
    BY DEF Frozen
<1>4. at[r] <= clock /\ (seen[r] = "expired" => Over)
    BY DEF TimeInv
<1>5. Earlier(at[r], ExpiresAt) <= at[r]
    BY <1>1 DEF Earlier
<1>6. ~(at[r] >= ExpiresAt) => Earlier(at[r], ExpiresAt) < ExpiresAt
    BY <1>1 DEF Earlier
<1>7. at[r] >= ExpiresAt => Over
    BY <1>1, <1>4 DEF Over
<1>8. Earlier(at[r], ExpiresAt) \in Nat
    BY <1>1 DEF Earlier
<1>9. Earlier(at[r], ExpiresAt) <= clock
    BY <1>1, <1>4, <1>5, <1>8
<1>10. QED
    BY <1>2, <1>3, <1>4, <1>6, <1>7, <1>9, Zenon

LEMMA TimeStep == TypeOK /\ TypeOK' /\ TimeInv /\ [Next]_vars => TimeInv'
<1> SUFFICES ASSUME TypeOK, TypeOK', TimeInv, [Next]_vars PROVE TimeInv'
    OBVIOUS
<1> USE ClockAssumption
<1>1. CASE UNCHANGED vars
    BY <1>1 DEF vars, rowVars, reqVars, TimeInv, Over, ResultTruthful
<1>2. CASE Tick
    BY <1>2 DEF Tick, rowVars, reqVars, TypeOK, TimeInv, Over, ResultTruthful, Result
<1>3. ASSUME NEW r \in Reqs,
             \/ RejectToken(r) \/ CheckSubmitted(r) \/ RejectWrite(r) \/ Commit(r)
             \/ CommitEmpty(r) \/ Fail(r) \/ ReadStored(r) \/ FinalizeSubmitted(r)
             \/ ReadWinner(r)
      PROVE  TimeInv'
    <2>1. /\ UNCHANGED <<clock, status, result, at, seen>>
          /\ Goto(r, "done")
        BY <1>3 DEF RejectToken, CheckSubmitted, RejectWrite, Commit, CommitEmpty, Fail,
                    ReadStored, FinalizeSubmitted, ReadWinner, TellStored, Respond,
                    NoWrite, rowVars
    <2>2. QED
        BY <2>1, TimeFrame DEF Goto, TypeOK, TimeInv
<1>4. ASSUME NEW r \in Reqs,
             CheckPasses(r) \/ ClearMissing(r) \/ Write(r) \/ Store(r)
      PROVE  TimeInv'
    <2>1. /\ UNCHANGED <<clock, status, result, at, seen>>
          /\ \E next \in PCs \ {"expireNow"} : Goto(r, next)
        BY <1>4 DEF CheckPasses, ClearMissing, Write, Store, Proceed, NoWrite, rowVars, PCs
    <2>2. QED
        BY <2>1, TimeFrame DEF Goto, TypeOK, TimeInv
<1>5. ASSUME NEW r \in Reqs, CheckExpired(r) PROVE TimeInv'
    <2>1. Over
        BY <1>5 DEF CheckExpired, TimeInv, TypeOK, Statuses, Over
    <2>2. QED
        BY <1>5, <2>1, TimeFrame
           DEF CheckExpired, Proceed, Goto, NoWrite, rowVars, TypeOK, TimeInv
<1>6. ASSUME NEW r \in Reqs, Arrive(r) \/ LoadQuestions(r) \/ LoadAnswers(r)
      PROVE  TimeInv'
    <2>1. /\ UNCHANGED <<clock, status, result, at, seen>>
          /\ \E next \in PCs \ {"expireNow"} : Goto(r, next)
        BY <1>6 DEF Arrive, LoadQuestions, LoadAnswers, NoWrite, rowVars, PCs
    <2>2. QED
        BY <2>1, TimeFrame DEF Goto, TypeOK, TimeInv
<1>7. ASSUME NEW r \in Reqs, AcceptToken(r) \/ Decide(r) PROVE TimeInv'
    <2>1. /\ UNCHANGED <<clock, status, result, seen>>
          /\ at' = at \/ at' = [at EXCEPT ![r] = clock]
          /\ \E next \in PCs \ {"expireNow"} : Goto(r, next)
        BY <1>7 DEF AcceptToken, AfterToken, Decide, AfterLookup, NoWrite, rowVars, PCs,
                    TypeOK
    <2>2. at[r] <= clock /\ clock <= clock
        BY DEF TypeOK, TimeInv
    <2>3. at'[r] <= clock /\ \A x \in Reqs : x # r => at'[x] = at[x]
        BY <2>1, <2>2 DEF TypeOK
    <2>4. /\ pc'[r] # "expireNow" /\ (seen'[r] = "expired" => Over)
          /\ \A x \in Reqs : x # r => pc'[x] = pc[x] /\ seen'[x] = seen[x]
        BY <2>1 DEF Goto, TypeOK, TimeInv
    <2>5. QED
        BY <2>1, <2>3, <2>4, TimeFrame
<1>8. ASSUME NEW r \in Reqs, Lookup(r) \/ FinalizeOpen(r) PROVE TimeInv'
    <2>1. /\ UNCHANGED <<clock, status, result, at>>
          /\ seen' = [seen EXCEPT ![r] = status]
          /\ \E next \in PCs \ {"expireNow"} : Goto(r, next)
        BY <1>8 DEF Lookup, FinalizeOpen, NoWrite, rowVars, PCs
    <2>2. QED
        BY <2>1, TimeFrame DEF Goto, TypeOK, TimeInv
<1>9. ASSUME NEW r \in Reqs, ExpireNow(r) \/ ExpireIfDue(r) PROVE TimeInv'
    <2>1. pc[r] = "expireNow" \/ ExpiresAt <= at[r] => Over
        <3>1. at[r] \in Nat /\ clock \in Nat /\ at[r] <= clock
            BY DEF TypeOK, TimeInv
        <3>2. QED
            BY <3>1 DEF TimeInv, Over
    <2>2. /\ UNCHANGED <<clock, result, at, seen>>
          /\ status' # status => status' = "expired" /\ Over
          /\ Goto(r, "done")
        <3>1. CASE ExpireNow(r)
            BY <3>1, <2>1 DEF ExpireNow, Respond
        <3>2. CASE ExpireIfDue(r)
            BY <3>2, <2>1 DEF ExpireIfDue, Respond
        <3>3. QED
            BY <1>9, <3>1, <3>2
    <2>3. QED
        BY <2>2 DEF Goto, TypeOK, TimeInv, Over, ResultTruthful
<1>10. ASSUME NEW r \in Reqs, StoreCommit(r) PROVE TimeInv'
    <2>1. /\ UNCHANGED <<clock, at, seen>> /\ Goto(r, "done")
          /\ status' = "submitted" /\ result' = Frozen(r)
        BY <1>10 DEF StoreCommit, Respond
    <2>2. ResultTruthful'
        BY <2>1, FrozenTruthful DEF ResultTruthful, Over
    <2>3. QED
        BY <2>1, <2>2 DEF Goto, TypeOK, TimeInv, Over
<1>11. QED
    BY <1>1, <1>2, <1>3, <1>4, <1>5, <1>6, <1>7, <1>8, <1>9, <1>10 DEF Next, Step

\* The frozen result never claims an expiry that has not happened, a hand-in at
\* or after the deadline, or one in the future.
THEOREM ResultTellsTheTruth == Spec => []ResultTruthful
<1>1. Init => TypeOK /\ TimeInv
    BY TypeInit, TimeInit
<1>2. TypeOK /\ TimeInv /\ [Next]_vars => TypeOK' /\ TimeInv'
    BY TypeStep, TimeStep
<1>3. TimeInv => ResultTruthful
    BY DEF TimeInv
<1>4. QED
    BY <1>1, <1>2, <1>3, PTL DEF Spec

\* A session has a result exactly when it is submitted, and is expired only once
\* its deadline has passed.
THEOREM HonestLifecycle == Spec => []LifecycleHonest
<1>1. Init => TypeOK /\ TimeInv /\ RowInv
    BY TypeInit, TimeInit, RowInit
<1>2. TypeOK /\ TimeInv /\ RowInv /\ [Next]_vars => TypeOK' /\ TimeInv' /\ RowInv'
    BY TypeStep, TimeStep, RowStep
<1>3. TimeInv /\ RowInv => LifecycleHonest
    BY DEF TimeInv, RowInv, HasResult, LifecycleHonest, Over
<1>4. QED
    BY <1>1, <1>2, <1>3, PTL DEF Spec

-----------------------------------------------------------------------------
(* Too late.  What a request saw on arrival still holds when its check      *)
(* runs: a submitted session stays submitted, and the clock it captures is  *)
(* not behind the one it arrived at.  So a late request only ever visits    *)
(* the statements that refuse it.                                           *)

Guarded(r) == call[r].op \in Writes \cup {"resume"}
Late(r)    == born[r].status = "submitted" \/ born[r].clock >= ExpiresAt

Refusals == Replies \ (Accepted \cup {"lost"})
LatePCs  == {"authenticate", "check", "expireNow", "lookup", "decide", "expireIfDue", "done"}

\* What r saw on arrival still holds; idle requests have no answer yet.
Arrived(r) ==
    /\ pc[r] = "idle" => reply[r] = "none"
    /\ pc[r] # "idle" => born[r].clock <= clock
    /\ pc[r] # "idle" /\ born[r].status = "submitted" => status = "submitted"

Refusing(r) ==
    pc[r] # "idle" /\ Guarded(r) /\ Late(r) =>
        /\ pc[r] \in LatePCs
        /\ reply[r] \in Refusals
        /\ pc[r] = "check" => born[r].clock <= at[r]
        /\ pc[r] \in {"lookup", "decide"} => call[r].op = "resume"
        /\ pc[r] = "decide" /\ born[r].status = "submitted" => seen[r] = "submitted"

LateInv == \A r \in Reqs : Arrived(r) /\ Refusing(r)

LEMMA LateInit == Init => LateInv
  BY DEF Init, LateInv, Arrived, Refusing

\* A request's step moves that request only.
LEMMA OthersStay ==
    ASSUME TypeOK, NEW r \in Reqs, Arrive(r) \/ Step(r) \/ Fail(r)
    PROVE  \A x \in Reqs : x # r =>
              /\ pc'[x] = pc[x] /\ call'[x] = call[x] /\ at'[x] = at[x]
              /\ seen'[x] = seen[x] /\ reply'[x] = reply[x] /\ born'[x] = born[x]
              /\ view'[x] = view[x] /\ told'[x] = told[x]
<1> USE DEF TypeOK, Goto, Respond, Proceed
<1>1. CASE Arrive(r) \/ AcceptToken(r) \/ Lookup(r) \/ Decide(r) \/ FinalizeOpen(r)
           \/ LoadQuestions(r) \/ LoadAnswers(r)
    BY <1>1 DEF Arrive, AcceptToken, Lookup, Decide, FinalizeOpen, LoadQuestions,
                LoadAnswers
<1>2. CASE CheckExpired(r) \/ CheckPasses(r) \/ ClearMissing(r) \/ Write(r) \/ Store(r)
    BY <1>2 DEF CheckExpired, CheckPasses, ClearMissing, Write, Store
<1>3. CASE RejectToken(r) \/ CheckSubmitted(r) \/ RejectWrite(r) \/ Commit(r)
           \/ CommitEmpty(r) \/ Fail(r) \/ ExpireNow(r) \/ ExpireIfDue(r)
    BY <1>3 DEF RejectToken, CheckSubmitted, RejectWrite, Commit, CommitEmpty, Fail,
                ExpireNow, ExpireIfDue
<1>4. CASE ReadStored(r) \/ FinalizeSubmitted(r) \/ ReadWinner(r) \/ StoreCommit(r)
    BY <1>4 DEF ReadStored, FinalizeSubmitted, ReadWinner, StoreCommit, TellStored
<1>5. QED
    BY <1>1, <1>2, <1>3, <1>4 DEF Step

\* r's own step, split by what it may do to what Arrived and Refusing read.
LEMMA LateOwnStep ==
    ASSUME TypeOK, LateInv, NEW r \in Reqs, Arrive(r) \/ Step(r) \/ Fail(r),
           clock' = clock, status = "submitted" => status' = "submitted"
    PROVE  Arrived(r)' /\ Refusing(r)'
<1> USE DEF Guarded, Late
<1>0. /\ Arrived(r) /\ Refusing(r)
      /\ at[r] \in Nat /\ clock \in Nat /\ ExpiresAt \in Nat /\ born[r].clock \in Nat
      /\ born[r].status \in Statuses /\ status \in Statuses /\ reply[r] \in Replies
    BY ClockAssumption DEF LateInv, TypeOK
<1>1. CASE Arrive(r)
    BY <1>1, <1>0
       DEF Arrive, Goto, TypeOK, Arrived, Refusing, LatePCs, Refusals, Replies, Accepted
<1> SUFFICES ASSUME Step(r) \/ Fail(r), pc[r] # "idle"
             PROVE  Arrived(r)' /\ Refusing(r)'
    BY <1>1 DEF Step, Fail, RejectToken, AcceptToken, CheckSubmitted, CheckExpired,
       CheckPasses, RejectWrite, ClearMissing, Write, Commit, CommitEmpty, ExpireNow,
       Lookup, Decide, ExpireIfDue, ReadStored, FinalizeSubmitted, FinalizeOpen,
       LoadQuestions, LoadAnswers, Store, StoreCommit, ReadWinner
<1>2. Arrived(r)'
    <2>1. born' = born /\ pc'[r] # "idle"
        BY DEF Step, Fail, RejectToken, AcceptToken, CheckSubmitted, CheckExpired,
           CheckPasses, RejectWrite, ClearMissing, Write, Commit, CommitEmpty, ExpireNow,
           Lookup, Decide, ExpireIfDue, ReadStored, FinalizeSubmitted, FinalizeOpen,
           LoadQuestions, LoadAnswers, Store, StoreCommit, ReadWinner, TellStored,
           Respond, Proceed, Goto, TypeOK, AfterToken, AfterLookup
    <2>2. QED
        BY <1>0, <2>1 DEF Arrived
<1>3. CASE RejectToken(r) \/ CheckSubmitted(r) \/ RejectWrite(r) \/ ExpireNow(r)
           \/ ExpireIfDue(r) \/ Fail(r)
    <2>1. /\ pc'[r] = "done" /\ UNCHANGED <<call, born, at, seen>>
          /\ reply'[r] \in Refusals
        BY <1>3 DEF RejectToken, CheckSubmitted, RejectWrite, ExpireNow, ExpireIfDue, Fail,
                    Respond, Goto, TypeOK, Refusals, Replies, Accepted
    <2>2. QED
        BY <1>0, <1>2, <2>1 DEF Refusing, LatePCs
<1>4. CASE ReadStored(r) \/ FinalizeSubmitted(r) \/ FinalizeOpen(r) \/ ReadWinner(r)
           \/ Commit(r) \/ CommitEmpty(r) \/ ClearMissing(r) \/ Write(r)
           \/ LoadQuestions(r) \/ LoadAnswers(r) \/ Store(r) \/ StoreCommit(r)
    <2>1. pc[r] \notin LatePCs /\ UNCHANGED <<call, born>>
        BY <1>4 DEF ReadStored, FinalizeSubmitted, FinalizeOpen, ReadWinner, Commit,
                    CommitEmpty, ClearMissing, Write, LoadQuestions, LoadAnswers, Store,
                    StoreCommit, TellStored, Respond, Proceed, LatePCs
    <2>2. QED
        BY <1>0, <1>2, <2>1 DEF Refusing
<1>5. CASE CheckExpired(r)
    <2>1. pc'[r] = "expireNow" /\ UNCHANGED <<call, born, at, seen, reply>>
        BY <1>5 DEF CheckExpired, Proceed, Goto, TypeOK
    <2>2. QED
        BY <1>0, <1>2, <2>1 DEF Refusing, LatePCs
<1>6. CASE CheckPasses(r)
    <2>1. pc[r] = "check" /\ status = "active" /\ at[r] < ExpiresAt
          /\ UNCHANGED <<call, born>>
        BY <1>6 DEF CheckPasses, Proceed
    <2>2. ~(Guarded(r) /\ Late(r))
        BY <1>0, <2>1 DEF Arrived, Refusing
    <2>3. QED
        BY <1>2, <2>1, <2>2 DEF Refusing
<1>7. CASE AcceptToken(r)
    <2>1. /\ pc[r] = "authenticate" /\ UNCHANGED <<call, born, reply>>
          /\ pc'[r] = AfterToken(call[r].op)
          /\ call[r].op \in Writes => at'[r] = clock
        BY <1>7 DEF AcceptToken, Goto, TypeOK
    <2>2. Guarded(r) => \/ call[r].op \in Writes /\ pc'[r] = "check"
                        \/ call[r].op = "resume" /\ pc'[r] = "lookup"
        BY <2>1 DEF AfterToken, Writes
    <2>3. QED
        BY <1>0, <1>2, <2>1, <2>2 DEF Refusing, Arrived, LatePCs
<1>8. CASE Lookup(r)
    <2>1. /\ pc[r] = "lookup" /\ pc'[r] = "decide" /\ UNCHANGED <<call, born, reply>>
          /\ seen'[r] = status
        BY <1>8 DEF Lookup, Goto, TypeOK
    <2>2. QED
        BY <1>0, <1>2, <2>1 DEF Refusing, Arrived, LatePCs
<1>9. CASE Decide(r)
    <2>1. /\ pc[r] = "decide" /\ UNCHANGED <<call, born>>
          /\ pc'[r] = AfterLookup(call[r].op, seen[r], clock)
          /\ reply'[r] = IF pc'[r] = "done" THEN Refusal(call[r].op, seen[r]) ELSE reply[r]
        BY <1>9 DEF Decide, Goto, TypeOK
    <2>2. Refusal(call[r].op, seen[r]) \in Refusals
        BY DEF Refusal, Refusals, Replies, Accepted
    <2>3. ASSUME Guarded(r), Late(r) PROVE pc'[r] \in {"expireIfDue", "done"}
        <3>1. call[r].op = "resume" /\ (seen[r] = "submitted" \/ ExpiresAt <= clock)
            BY <1>0, <2>1, <2>3 DEF Refusing, Arrived
        <3>2. QED
            BY <1>0, <2>1, <3>1 DEF AfterLookup
    <2>4. QED
        BY <1>0, <1>2, <2>1, <2>2, <2>3 DEF Refusing, LatePCs
<1>10. QED
    BY <1>2, <1>3, <1>4, <1>5, <1>6, <1>7, <1>8, <1>9 DEF Step

LEMMA LateStep == TypeOK /\ TypeOK' /\ RowInv /\ LateInv /\ [Next]_vars => LateInv'
<1> SUFFICES ASSUME TypeOK, TypeOK', RowInv, LateInv, [Next]_vars PROVE LateInv'
    OBVIOUS
<1>1. CASE UNCHANGED vars
    BY <1>1 DEF vars, rowVars, reqVars, LateInv, Arrived, Refusing, Guarded, Late
<1>2. CASE Tick
    <2>1. clock \in Nat /\ \A r \in Reqs : born[r].clock \in Nat
        BY DEF TypeOK
    <2>2. QED
        BY <1>2, <2>1 DEF Tick, rowVars, reqVars, LateInv, Arrived, Refusing, Guarded, Late
<1>3. ASSUME NEW r \in Reqs, Arrive(r) \/ Step(r) \/ Fail(r) PROVE LateInv'
    <2>1. clock' = clock
        BY <1>3 DEF Step, Arrive, Fail, RejectToken, AcceptToken, CheckSubmitted,
           CheckExpired, CheckPasses, RejectWrite, ClearMissing, Write, Commit,
           CommitEmpty, ExpireNow, Lookup, Decide, ExpireIfDue, ReadStored,
           FinalizeSubmitted, FinalizeOpen, LoadQuestions, LoadAnswers, Store,
           StoreCommit, ReadWinner, TellStored, NoWrite
    <2>2. status = "submitted" => status' = "submitted"
        BY <1>3, SubmittedStep DEF Next
    <2>3. Arrived(r)' /\ Refusing(r)'
        BY <1>3, <2>1, <2>2, LateOwnStep
    <2>4. ASSUME NEW x \in Reqs, x # r PROVE Arrived(x)' /\ Refusing(x)'
        BY <1>3, <2>1, <2>2, <2>4, OthersStay DEF LateInv, Arrived, Refusing, Guarded, Late
    <2>5. QED
        BY <2>3, <2>4 DEF LateInv
<1>4. QED
    BY <1>1, <1>2, <1>3 DEF Next

\* A save, flag or resume that arrives at or after the deadline, or after the
\* session was submitted, is never accepted, however the requests interleave.
THEOREM TooLateIsRefused == Spec => []LateRequestsRefused
<1>1. Init => TypeOK /\ RowInv /\ LateInv
    BY TypeInit, RowInit, LateInit
<1>2. TypeOK /\ RowInv /\ LateInv /\ [Next]_vars => TypeOK' /\ RowInv' /\ LateInv'
    BY TypeStep, RowStep, LateStep
<1>3. LateInv => LateRequestsRefused
    BY DEF LateInv, Refusing, Guarded, Late, Refusals, LateRequestsRefused
<1>4. QED
    BY <1>1, <1>2, <1>3, PTL DEF Spec
-----------------------------------------------------------------------------
(* Where a request stands tells what it was asked and whether it has        *)
(* answered.                                                                *)

WritePCs == {"check", "write", "commit", "commitEmpty", "expireNow"}
ReadPCs  == {"lookup", "decide", "expireIfDue", "readStored", "finalize",
             "loadQuestions", "loadAnswers", "store", "storeCommit", "readWinner"}

Place(r) ==
    /\ reply[r] # "none" \/ told[r] # Null => pc[r] = "done"
    /\ pc[r] \in WritePCs => call[r].op \in Writes
    /\ pc[r] \in ReadPCs => call[r].op \notin Writes
    /\ pc[r] \in {"commit", "commitEmpty"} => Acceptable(call[r])
    /\ pc[r] = "commitEmpty" => call[r].op = "save"

PlaceInv == \A r \in Reqs : Place(r)

LEMMA PlaceInit == Init => PlaceInv
  BY DEF Init, PlaceInv, Place, WritePCs, ReadPCs

LEMMA PlaceOwnStep ==
    ASSUME TypeOK, PlaceInv, NEW r \in Reqs, Arrive(r) \/ Step(r) \/ Fail(r)
    PROVE  Place(r)'
<1> USE DEF PlaceInv, Place, WritePCs, ReadPCs, Goto, Respond, Proceed, TypeOK
<1>1. CASE Arrive(r)
    BY <1>1 DEF Arrive
<1>2. CASE RejectToken(r) \/ CheckSubmitted(r) \/ RejectWrite(r) \/ Commit(r)
           \/ CommitEmpty(r) \/ Fail(r) \/ ExpireNow(r) \/ ExpireIfDue(r)
    BY <1>2 DEF RejectToken, CheckSubmitted, RejectWrite, Commit, CommitEmpty, Fail,
                ExpireNow, ExpireIfDue
<1>3. CASE ReadStored(r) \/ FinalizeSubmitted(r) \/ ReadWinner(r) \/ StoreCommit(r)
    BY <1>3 DEF ReadStored, FinalizeSubmitted, ReadWinner, StoreCommit, TellStored
<1>4. CASE AcceptToken(r)
    BY <1>4 DEF AcceptToken, AfterToken, Writes
<1>5. CASE CheckExpired(r) \/ CheckPasses(r) \/ ClearMissing(r) \/ Write(r) \/ Store(r)
    BY <1>5 DEF CheckExpired, CheckPasses, ClearMissing, Write, Store, ClearsNothing
<1>6. CASE Lookup(r) \/ FinalizeOpen(r) \/ LoadQuestions(r) \/ LoadAnswers(r)
    BY <1>6 DEF Lookup, FinalizeOpen, LoadQuestions, LoadAnswers
<1>7. CASE Decide(r)
    BY <1>7 DEF Decide, AfterLookup
<1>8. QED
    BY <1>1, <1>2, <1>3, <1>4, <1>5, <1>6, <1>7 DEF Step

LEMMA PlaceStep == TypeOK /\ PlaceInv /\ [Next]_vars => PlaceInv'
<1> SUFFICES ASSUME TypeOK, PlaceInv, [Next]_vars PROVE PlaceInv'
    OBVIOUS
<1>1. CASE UNCHANGED vars \/ Tick
    BY <1>1 DEF vars, Tick, rowVars, reqVars, PlaceInv, Place, Acceptable, ValidSelection
<1>2. ASSUME NEW r \in Reqs, Arrive(r) \/ Step(r) \/ Fail(r) PROVE PlaceInv'
    <2>1. ASSUME NEW x \in Reqs, x # r PROVE Place(x)'
        BY <1>2, <2>1, OthersStay DEF PlaceInv, Place, Acceptable, ValidSelection
    <2>2. QED
        BY <1>2, <2>1, PlaceOwnStep DEF PlaceInv
<1>3. QED
    BY <1>1, <1>2 DEF Next

-----------------------------------------------------------------------------
(* Acknowledged writes.  What a request has loaded is still stored, row by  *)
(* row, unless a commit has touched the row since the request arrived.      *)

SameAnswers(r) == \A q \in Questions :
    <<"save", q>> \in quiet[r] => view[r].answers[q] = answers[q]
SameFlags(r) == \A q \in Questions :
    <<"flag", q>> \in quiet[r] => view[r].flags[q] = flags[q]

Fresh(r) ==
    /\ pc[r] \in {"loadAnswers", "store", "storeCommit"} \/ reply[r] = "snapshot"
          => SameFlags(r)
    /\ pc[r] \in {"store", "storeCommit"} \/ reply[r] = "snapshot" => SameAnswers(r)

AckInv ==
    /\ winner # Null => pc[winner] = "done"
    /\ AcknowledgedIsScored
    /\ \A r \in Reqs : Fresh(r)

LEMMA AckInit == Init => AckInv
  BY DEF Init, AckInv, AcknowledgedIsScored, Fresh

\* A step that leaves the stored data and what was loaded alone, and does not
\* take r where it would rely on more than before.
LEMMA AckFrame ==
    ASSUME TypeOK, AckInv, UNCHANGED <<answers, flags, quiet, result, winner, view>>,
           NEW r \in Reqs, pc[r] # "done",
           \A x \in Reqs : x # r => pc'[x] = pc[x] /\ reply'[x] = reply[x],
           reply'[r] # "snapshot",
           pc'[r] \in {"loadAnswers", "store", "storeCommit"} =>
              pc[r] \in {"store", "storeCommit"}
    PROVE  AckInv'
<1>1. winner' # Null => pc'[winner'] = "done"
    BY DEF AckInv, TypeOK
<1>2. AcknowledgedIsScored'
    BY DEF AckInv, AcknowledgedIsScored
<1>3. ASSUME NEW x \in Reqs PROVE Fresh(x)'
    BY DEF AckInv, Fresh, SameAnswers, SameFlags
<1>4. QED
    BY <1>1, <1>2, <1>3 DEF AckInv

LEMMA AckStep == TypeOK /\ PlaceInv /\ AckInv /\ [Next]_vars => AckInv'
<1> SUFFICES ASSUME TypeOK, PlaceInv, AckInv, [Next]_vars PROVE AckInv'
    OBVIOUS
<1> USE DEF rowVars, dataVars, reqVars, NoWrite
<1>1. CASE UNCHANGED vars \/ Tick
    BY <1>1 DEF vars, Tick, AckInv, AcknowledgedIsScored, Fresh, SameAnswers, SameFlags
<1>2. ASSUME NEW r \in Reqs,
             \/ RejectToken(r) \/ CheckSubmitted(r) \/ RejectWrite(r) \/ CommitEmpty(r)
             \/ ExpireNow(r) \/ ExpireIfDue(r) \/ ReadStored(r) \/ FinalizeSubmitted(r)
             \/ ReadWinner(r) \/ Fail(r)
      PROVE  AckInv'
    <2>1. /\ UNCHANGED <<answers, flags, quiet, result, winner, view>>
          /\ pc[r] # "done" /\ pc'[r] = "done" /\ reply'[r] # "snapshot"
        BY <1>2 DEF RejectToken, CheckSubmitted, RejectWrite, CommitEmpty, ExpireNow,
           ExpireIfDue, ReadStored, FinalizeSubmitted, ReadWinner, TellStored, Fail,
           Respond, Goto, TypeOK
    <2>2. QED
        BY <1>2, <2>1, OthersStay, AckFrame DEF Step
<1>3. ASSUME NEW r \in Reqs,
             \/ AcceptToken(r) \/ CheckExpired(r) \/ CheckPasses(r) \/ ClearMissing(r)
             \/ Write(r) \/ Lookup(r) \/ Decide(r) \/ FinalizeOpen(r) \/ Store(r)
      PROVE  AckInv'
    <2>1. /\ UNCHANGED <<answers, flags, quiet, result, winner, view>> /\ pc[r] # "done"
          /\ pc'[r] \in {"loadAnswers", "store", "storeCommit"} => pc[r] = "store"
        BY <1>3 DEF AcceptToken, AfterToken, CheckExpired, CheckPasses, ClearMissing, Write,
           Lookup, Decide, AfterLookup, FinalizeOpen, Store, Proceed, Goto, TypeOK
    <2>2. reply'[r] # "snapshot"
        <3>1. reply[r] = "none"
            BY <2>1 DEF PlaceInv, Place
        <3>2. QED
            BY <1>3, <3>1 DEF AcceptToken, CheckExpired, CheckPasses, ClearMissing, Write,
               Lookup, Decide, Refusal, FinalizeOpen, Store, Proceed, TypeOK
    <2>3. QED
        BY <1>3, <2>1, <2>2, OthersStay, AckFrame DEF Step
<1>4. ASSUME NEW r \in Reqs, Arrive(r) PROVE AckInv'
    <2>1. /\ UNCHANGED <<answers, flags, result, winner, view, reply>>
          /\ pc[r] = "idle" /\ pc'[r] = "authenticate"
          /\ \A x \in Reqs : x # r => pc'[x] = pc[x] /\ quiet'[x] = quiet[x]
        BY <1>4 DEF Arrive, Goto, TypeOK
    <2>2. winner # r /\ reply[r] = "none"
        BY <2>1, NullAssumption DEF AckInv, PlaceInv, Place
    <2>3. (winner' # Null => pc'[winner'] = "done") /\ AcknowledgedIsScored'
        BY <2>1, <2>2 DEF AckInv, AcknowledgedIsScored, TypeOK
    <2>4. ASSUME NEW x \in Reqs PROVE Fresh(x)'
        BY <2>1, <2>2 DEF AckInv, Fresh, SameAnswers, SameFlags
    <2>5. QED
        BY <2>3, <2>4 DEF AckInv
<1>5. ASSUME NEW r \in Reqs, LoadQuestions(r) \/ LoadAnswers(r) PROVE AckInv'
    <2>1. /\ UNCHANGED <<answers, flags, quiet, result, winner>> /\ pc[r] # "done"
          /\ \A x \in Reqs : x # r =>
                pc'[x] = pc[x] /\ reply'[x] = reply[x] /\ view'[x] = view[x]
        BY <1>5 DEF LoadQuestions, LoadAnswers, Goto, TypeOK
    <2>2. (winner' # Null => pc'[winner'] = "done") /\ AcknowledgedIsScored'
        BY <2>1 DEF AckInv, AcknowledgedIsScored, TypeOK
    <2>3. Fresh(r)'
        <3>1. reply[r] = "none" /\ view[r] \in View
            BY <2>1 DEF PlaceInv, Place, TypeOK
        <3>2. CASE LoadQuestions(r)
            <4>1. view'[r].flags = flags /\ pc'[r] = "loadAnswers" /\ reply' = reply
                BY <3>1, <3>2 DEF LoadQuestions, Goto, TypeOK, View
            <4>2. QED
                BY <2>1, <3>1, <4>1 DEF Fresh, SameFlags
        <3>3. CASE LoadAnswers(r)
            <4>1. /\ view'[r].answers = answers /\ view'[r].flags = view[r].flags
                  /\ pc[r] = "loadAnswers"
                BY <3>1, <3>3 DEF LoadAnswers, TypeOK, View
            <4>2. SameFlags(r)
                BY <4>1 DEF AckInv, Fresh
            <4>3. SameFlags(r)' /\ SameAnswers(r)'
                BY <2>1, <4>1, <4>2 DEF SameFlags, SameAnswers
            <4>4. QED
                BY <4>3 DEF Fresh
        <3>4. QED
            BY <1>5, <3>2, <3>3
    <2>4. ASSUME NEW x \in Reqs, x # r PROVE Fresh(x)'
        BY <2>1, <2>4 DEF AckInv, Fresh, SameAnswers, SameFlags
    <2>5. QED
        BY <2>2, <2>3, <2>4 DEF AckInv
<1>6. ASSUME NEW r \in Reqs, Commit(r) PROVE AckInv'
    <2>1. /\ UNCHANGED <<result, winner, view>> /\ pc[r] = "commit" /\ pc'[r] = "done"
          /\ reply'[r] # "snapshot"
          /\ quiet' = [x \in Reqs |-> quiet[x] \ {<<call[r].op, call[r].q>>}]
          /\ \A x \in Reqs : x # r => pc'[x] = pc[x] /\ reply'[x] = reply[x]
        BY <1>6 DEF Commit, Respond, Goto, TypeOK
    <2>2. ASSUME NEW x \in Reqs, NEW q \in Questions
          PROVE  /\ <<"save", q>> \in quiet'[x] =>
                       <<"save", q>> \in quiet[x] /\ answers'[q] = answers[q]
                 /\ <<"flag", q>> \in quiet'[x] =>
                       <<"flag", q>> \in quiet[x] /\ flags'[q] = flags[q]
        <3>1. CASE call[r].op = "save" /\ flags' = flags
                   /\ answers' = [answers EXCEPT ![call[r].q] = call[r].sel]
            BY <2>1, <3>1 DEF TypeOK, Answers
        <3>2. CASE call[r].op = "flag" /\ answers' = answers
                   /\ flags' = [flags EXCEPT ![call[r].q] = call[r].on]
            BY <2>1, <3>2 DEF TypeOK, Flags
        <3>3. QED
            BY <1>6, <3>1, <3>2 DEF Commit
    <2>3. winner' # Null => pc'[winner'] = "done"
        BY <2>1 DEF AckInv, TypeOK
    <2>4. AcknowledgedIsScored'
        BY <2>1, <2>2 DEF AckInv, AcknowledgedIsScored, TypeOK
    <2>5. ASSUME NEW x \in Reqs PROVE Fresh(x)'
        BY <2>1, <2>2 DEF AckInv, Fresh, SameAnswers, SameFlags
    <2>6. QED
        BY <2>3, <2>4, <2>5 DEF AckInv
<1>7. ASSUME NEW r \in Reqs, StoreCommit(r) PROVE AckInv'
    <2>1. /\ UNCHANGED <<answers, flags, quiet, view>> /\ pc[r] = "storeCommit"
          /\ pc'[r] = "done" /\ reply'[r] # "snapshot"
          /\ winner' = r /\ result' = Frozen(r)
          /\ \A x \in Reqs : x # r => pc'[x] = pc[x] /\ reply'[x] = reply[x]
        BY <1>7 DEF StoreCommit, Respond, Goto, TypeOK
    <2>2. Frozen(r).answers = view[r].answers /\ Frozen(r).flags = view[r].flags
        BY DEF Frozen
    <2>3. SameAnswers(r) /\ SameFlags(r)
        BY <2>1 DEF AckInv, Fresh
    <2>4. AcknowledgedIsScored'
        BY <2>1, <2>2, <2>3 DEF AcknowledgedIsScored, SameAnswers, SameFlags
    <2>5. ASSUME NEW x \in Reqs PROVE Fresh(x)'
        BY <2>1 DEF AckInv, Fresh, SameAnswers, SameFlags
    <2>6. QED
        BY <2>1, <2>4, <2>5 DEF AckInv
<1>8. QED
    BY <1>1, <1>2, <1>3, <1>4, <1>5, <1>6, <1>7 DEF Next, Step

LEMMA AckAlways == Spec => [](TypeOK /\ PlaceInv /\ AckInv)
<1>1. Init => TypeOK /\ PlaceInv /\ AckInv
    BY TypeInit, PlaceInit, AckInit
<1>2. TypeOK /\ PlaceInv /\ AckInv /\ [Next]_vars => (TypeOK /\ PlaceInv /\ AckInv)'
    BY TypeStep, PlaceStep, AckStep
<1>3. QED
    BY <1>1, <1>2, PTL DEF Spec

\* The result scores every selection and flag that was acknowledged before the
\* finalizing request arrived, unless a later write has touched the row.
THEOREM ScoredAsAcknowledged == Spec => []AcknowledgedIsScored
<1>1. AckInv => AcknowledgedIsScored
    BY DEF AckInv
<1>2. QED
    BY <1>1, AckAlways, PTL

\* A resume response shows every selection and flag that was acknowledged
\* before it was requested.
THEOREM ResumedAsAcknowledged == Spec => []AcknowledgedIsResumed
<1>1. AckInv => AcknowledgedIsResumed
    BY DEF AckInv, Fresh, SameAnswers, SameFlags, AcknowledgedIsResumed
<1>2. QED
    BY <1>1, AckAlways, PTL

-----------------------------------------------------------------------------
(* The refinement.  accepted is the pairs of the saves whose transaction    *)
(* committed; every selection that is stored or loaded is one of them.      *)

AnswersAccepted == \A q \in Questions : answers[q] # {} => <<q, answers[q]>> \in AcceptedPairs

ViewAccepted(r) == \A q \in Questions :
    view[r].answers[q] # {} => <<q, view[r].answers[q]>> \in AcceptedPairs

PairsInv ==
    /\ AnswersAccepted
    /\ \A r \in Reqs : pc[r] \in {"store", "storeCommit"} => ViewAccepted(r)

LEMMA PairsInit == Init => PairsInv /\ AcceptedPairs = {}
  BY NullAssumption DEF Init, PairsInv, AnswersAccepted, NoView, AcceptedPairs, Wrote

\* Only the commit of a save accepts a pair.
LEMMA PairsStay ==
    ASSUME TypeOK, PlaceInv, NEW r \in Reqs, Arrive(r) \/ Step(r) \/ Fail(r),
           ~(CommitEmpty(r) \/ (Commit(r) /\ call[r].op = "save"))
    PROVE  AcceptedPairs' = AcceptedPairs
<1>1. \A x \in Reqs : x # r => call'[x] = call[x] /\ reply'[x] = reply[x]
    BY OthersStay
<1>2. ~(reply[r] \in {"saved", "lost"})
    BY DEF PlaceInv, Place, Arrive, Step, Fail, RejectToken, AcceptToken, CheckSubmitted,
       CheckExpired, CheckPasses, RejectWrite, ClearMissing, Write, Commit, CommitEmpty,
       ExpireNow, Lookup, Decide, ExpireIfDue, ReadStored, FinalizeSubmitted,
       FinalizeOpen, LoadQuestions, LoadAnswers, Store, StoreCommit, ReadWinner
<1>3. reply'[r] \in {"saved", "lost"} => call'[r].op # "save"
    <2>1. CASE StoreCommit(r)
        BY <2>1 DEF StoreCommit, Respond, PlaceInv, Place, ReadPCs, Writes
    <2>2. CASE Commit(r)
        BY <2>2 DEF Commit, Respond
    <2>3. CASE \/ Arrive(r) \/ AcceptToken(r) \/ CheckExpired(r) \/ CheckPasses(r)
               \/ ClearMissing(r) \/ Write(r) \/ Lookup(r) \/ Decide(r)
               \/ FinalizeOpen(r) \/ LoadQuestions(r) \/ LoadAnswers(r) \/ Store(r)
        BY <1>2, <2>3 DEF Arrive, AcceptToken, CheckExpired, CheckPasses, ClearMissing,
           Write, Lookup, Decide, Refusal, FinalizeOpen, LoadQuestions, LoadAnswers, Store,
           Proceed, TypeOK
    <2>4. CASE \/ RejectToken(r) \/ CheckSubmitted(r) \/ RejectWrite(r) \/ ExpireNow(r)
               \/ ExpireIfDue(r) \/ ReadStored(r) \/ FinalizeSubmitted(r)
               \/ ReadWinner(r) \/ Fail(r)
        BY <2>4 DEF RejectToken, CheckSubmitted, RejectWrite, ExpireNow, ExpireIfDue,
           ReadStored, FinalizeSubmitted, ReadWinner, TellStored, Fail, Respond, TypeOK
    <2>5. QED
        BY <2>1, <2>2, <2>3, <2>4 DEF Step
<1>4. \A x \in Reqs, q \in Questions, sel \in SUBSET Options :
          Wrote(x, q, sel)' <=> Wrote(x, q, sel)
    BY <1>1, <1>2, <1>3 DEF Wrote
<1>5. QED
    BY <1>4 DEF AcceptedPairs

\* The commit of a save accepts exactly its pair.
LEMMA PairsGrow ==
    ASSUME TypeOK, PlaceInv, NEW r \in Reqs,
           CommitEmpty(r) \/ (Commit(r) /\ call[r].op = "save")
    PROVE  /\ <<call[r].q, call[r].sel>> \in Questions \X SUBSET Options
           /\ AcceptedPairs' = AcceptedPairs \cup {<<call[r].q, call[r].sel>>}
<1>1. /\ call[r] \in CallRec /\ call[r].op = "save" /\ Acceptable(call[r])
      /\ call' = call /\ reply'[r] \in {"saved", "lost"} /\ reply[r] = "none"
    BY CallsAssumption DEF CommitEmpty, Commit, Respond, TypeOK, PlaceInv, Place
<1>2. call[r].q \in Questions /\ call[r].sel \in SUBSET Options
    BY <1>1 DEF Acceptable, CallRec
<1>3. \A x \in Reqs : x # r => reply'[x] = reply[x]
    BY OthersStay DEF Step
<1>4. \A x \in Reqs, q \in Questions, sel \in SUBSET Options :
          Wrote(x, q, sel)' <=>
             Wrote(x, q, sel) \/ (x = r /\ q = call[r].q /\ sel = call[r].sel)
    <2> SUFFICES ASSUME NEW x \in Reqs, NEW q \in Questions, NEW sel \in SUBSET Options
                 PROVE  Wrote(x, q, sel)' <=>
                          Wrote(x, q, sel) \/ (x = r /\ q = call[r].q /\ sel = call[r].sel)
        OBVIOUS
    <2>1. CASE x = r
        <3>1. ~Wrote(r, q, sel)
            BY <1>1 DEF Wrote
        <3>2. call[r] # Null
            BY <1>1, NullAssumption DEF TypeOK, PlaceInv, Place, Commit, CommitEmpty
        <3>3. QED
            BY <1>1, <2>1, <3>1, <3>2 DEF Wrote
    <2>2. CASE x # r
        BY <1>1, <1>3, <2>2 DEF Wrote
    <2>3. QED
        BY <2>1, <2>2
<1>5. QED
    BY <1>2, <1>4 DEF AcceptedPairs

LEMMA PairsStep ==
    TypeOK /\ PlaceInv /\ PairsInv /\ [Next]_vars
        => PairsInv' /\ AcceptedPairs \subseteq AcceptedPairs'
<1> SUFFICES ASSUME TypeOK, PlaceInv, PairsInv, [Next]_vars
             PROVE  PairsInv' /\ AcceptedPairs \subseteq AcceptedPairs'
    OBVIOUS
<1> USE DEF rowVars, dataVars, reqVars, NoWrite
<1>1. CASE UNCHANGED vars \/ Tick
    <2>1. UNCHANGED <<answers, view, pc, call, reply>>
        BY <1>1 DEF vars, Tick
    <2>2. AcceptedPairs' = AcceptedPairs
        BY <2>1 DEF AcceptedPairs, Wrote
    <2>3. QED
        BY <2>1, <2>2 DEF PairsInv, AnswersAccepted, ViewAccepted
<1>2. ASSUME NEW r \in Reqs, Arrive(r) \/ Step(r) \/ Fail(r)
      PROVE  PairsInv' /\ AcceptedPairs \subseteq AcceptedPairs'
    <2>1. AcceptedPairs \subseteq AcceptedPairs'
        BY <1>2, PairsStay, PairsGrow
    <2>2. AnswersAccepted'
        <3>1. CASE Commit(r) /\ call[r].op = "save"
            <4>1. /\ answers' = [answers EXCEPT ![call[r].q] = call[r].sel]
                  /\ <<call[r].q, call[r].sel>> \in AcceptedPairs'
                BY <3>1, PairsGrow DEF Commit
            <4>2. \A q \in Questions : answers'[q] = answers[q]
                     \/ <<q, answers'[q]>> = <<call[r].q, call[r].sel>>
                BY <4>1 DEF TypeOK, Answers
            <4>3. QED
                BY <2>1, <4>1, <4>2 DEF PairsInv, AnswersAccepted
        <3>2. CASE ~(Commit(r) /\ call[r].op = "save")
            <4>1. answers' = answers
                BY <1>2, <3>2 DEF Step, Arrive, Fail, RejectToken, AcceptToken,
                   CheckSubmitted, CheckExpired, CheckPasses, RejectWrite, ClearMissing,
                   Write, Commit, CommitEmpty, ExpireNow, Lookup, Decide, ExpireIfDue,
                   ReadStored, FinalizeSubmitted, FinalizeOpen, LoadQuestions,
                   LoadAnswers, Store, StoreCommit, ReadWinner, TellStored
            <4>2. QED
                BY <2>1, <4>1 DEF PairsInv, AnswersAccepted
        <3>3. QED
            BY <3>1, <3>2
    <2>3. pc'[r] \in {"store", "storeCommit"} => ViewAccepted(r)'
        <3>1. CASE LoadAnswers(r)
            <4>1. view'[r].answers = answers
                BY <3>1 DEF LoadAnswers, TypeOK, View
            <4>2. QED
                BY <2>1, <4>1 DEF PairsInv, AnswersAccepted, ViewAccepted
        <3>2. CASE Store(r)
            <4>1. view' = view /\ pc[r] = "store"
                BY <3>2 DEF Store, Proceed
            <4>2. QED
                BY <2>1, <4>1 DEF PairsInv, ViewAccepted
        <3>3. CASE ~LoadAnswers(r) /\ ~Store(r)
            BY <1>2, <3>3 DEF Step, Arrive, Fail, RejectToken, AcceptToken, AfterToken,
               CheckSubmitted, CheckExpired, CheckPasses, RejectWrite, ClearMissing,
               Write, Commit, CommitEmpty, ExpireNow, Lookup, Decide, AfterLookup,
               ExpireIfDue, ReadStored, FinalizeSubmitted, FinalizeOpen, LoadQuestions,
               StoreCommit, ReadWinner, TellStored, Respond, Proceed, Goto, TypeOK
        <3>4. QED
            BY <3>1, <3>2, <3>3
    <2>4. ASSUME NEW x \in Reqs, x # r, pc'[x] \in {"store", "storeCommit"}
          PROVE  ViewAccepted(x)'
        BY <1>2, <2>1, <2>4, OthersStay DEF PairsInv, ViewAccepted
    <2>5. QED
        BY <2>1, <2>2, <2>3, <2>4 DEF PairsInv
<1>3. QED
    BY <1>1, <1>2 DEF Next

LEMMA AttemptInit == Init => Attempt!Init
  BY PairsInit DEF Init, Attempt!Init

\* The result a request would freeze is one the attempt may end with.
LEMMA FrozenHonest ==
    ASSUME TypeOK, TimeInv, PairsInv, NEW r \in Reqs, pc[r] \in {"store", "storeCommit"},
           result' = Frozen(r)
    PROVE  result' \in Attempt!Outcomes /\ Attempt!Honest(result')
<1>1. Frozen(r) \in Result
    BY FrozenType
<1>2. Result = Attempt!Outcomes
    BY DEF Result, Answers, Flags, Attempt!Outcomes
<1>3. ViewAccepted(r) /\ Frozen(r).answers = view[r].answers
    BY DEF PairsInv, Frozen
<1>4. /\ Frozen(r).at <= clock
      /\ Frozen(r).byExpiry => clock >= ExpiresAt
      /\ ~Frozen(r).byExpiry => Frozen(r).at < ExpiresAt
    BY FrozenTruthful DEF Over
<1>5. QED
    BY <1>1, <1>2, <1>3, <1>4 DEF Attempt!Honest, ViewAccepted

\* Every step of the requests is a step of the attempt, or none.
LEMMA AttemptStep ==
    TypeOK /\ RowInv /\ TimeInv /\ PlaceInv /\ PairsInv /\ [Next]_vars
        => [Attempt!Next]_(Attempt!vars)
<1> SUFFICES ASSUME TypeOK, RowInv, TimeInv, PlaceInv, PairsInv, [Next]_vars
             PROVE  [Attempt!Next]_(Attempt!vars)
    OBVIOUS
<1> USE DEF rowVars, dataVars, reqVars, NoWrite
<1>1. CASE UNCHANGED vars
    BY <1>1 DEF vars, Attempt!vars, AcceptedPairs, Wrote
<1>2. CASE Tick
    <2>1. AcceptedPairs' = AcceptedPairs
        BY <1>2 DEF Tick, AcceptedPairs, Wrote
    <2>2. Attempt!Tick
        BY <1>2, <2>1 DEF Tick, Attempt!Tick
    <2>3. QED
        BY <2>2 DEF Attempt!Next
<1>3. ASSUME NEW r \in Reqs, CommitEmpty(r) \/ (Commit(r) /\ call[r].op = "save")
      PROVE  Attempt!Next
    <2>1. UNCHANGED <<clock, status, result>> /\ told' = [told EXCEPT ![r] = Null]
        BY <1>3 DEF Commit, CommitEmpty, Respond
    <2>2. told' = told
        BY <1>3, <2>1 DEF PlaceInv, Place, Commit, CommitEmpty, TypeOK
    <2>3. PICK q \in Questions, selection \in SUBSET Options :
              AcceptedPairs' = AcceptedPairs \cup {<<q, selection>>}
        BY <1>3, PairsGrow
    <2>4. Attempt!Accept
        BY <2>1, <2>2, <2>3 DEF Attempt!Accept
    <2>5. QED
        BY <2>4 DEF Attempt!Next
<1>4. ASSUME NEW r \in Reqs, Arrive(r) \/ Step(r) \/ Fail(r),
             ~(CommitEmpty(r) \/ (Commit(r) /\ call[r].op = "save"))
      PROVE  [Attempt!Next]_(Attempt!vars)
    <2>1. AcceptedPairs' = AcceptedPairs
        BY <1>4, PairsStay
    <2>2. told[r] # Null => pc[r] = "done"
        BY DEF PlaceInv, Place
    <2>3. CASE StoreCommit(r)
        <3>1. /\ status # "submitted" /\ status' = "submitted" /\ result' = Frozen(r)
              /\ clock' = clock /\ pc[r] = "storeCommit"
              /\ told' = [told EXCEPT ![r] = Null] \/ told' = [told EXCEPT ![r] = Frozen(r)]
            BY <2>3 DEF StoreCommit, Respond, RowInv, OneWriter
        <3>2. told' = told \/ told' = [told EXCEPT ![r] = result']
            BY <2>2, <3>1 DEF TypeOK
        <3>3. Attempt!Close
            BY <2>1, <3>1, <3>2, FrozenHonest DEF Attempt!Close
        <3>4. QED
            BY <3>3 DEF Attempt!Next
    <2>4. CASE ReadStored(r) \/ FinalizeSubmitted(r) \/ ReadWinner(r)
        <3>1. /\ UNCHANGED <<clock, status, result>>
              /\ \/ status = "submitted" /\ told' = [told EXCEPT ![r] = result]
                 \/ told' = [told EXCEPT ![r] = Null]
              /\ pc[r] # "done"
            BY <2>4 DEF ReadStored, FinalizeSubmitted, ReadWinner, TellStored, Respond
        <3>2. \/ status = "submitted" /\ told' = [told EXCEPT ![r] = result]
              \/ told' = told
            BY <2>2, <3>1 DEF TypeOK
        <3>3. QED
            BY <2>1, <3>1, <3>2 DEF Attempt!Tell, Attempt!Next, Attempt!vars
    <2>5. CASE ExpireNow(r) \/ ExpireIfDue(r)
        <3>1. /\ UNCHANGED <<clock, result>> /\ told' = [told EXCEPT ![r] = Null]
              /\ pc[r] # "done"
              /\ status' = status \/ (status = "active" /\ status' = "expired")
            BY <2>5 DEF ExpireNow, ExpireIfDue, Respond
        <3>2. told' = told
            BY <2>2, <3>1 DEF TypeOK
        <3>3. status' # status => clock >= ExpiresAt
            <4>1. TimeInv'
                BY <1>4, TypeStep, TimeStep DEF Next
            <4>2. status' = "expired" => clock' >= ExpiresAt
                BY <4>1 DEF TimeInv, Over
            <4>3. QED
                BY <3>1, <4>2
        <3>4. CASE status' = status
            BY <2>1, <3>1, <3>2, <3>4 DEF Attempt!vars
        <3>5. CASE status' # status
            BY <2>1, <3>1, <3>2, <3>3, <3>5 DEF Attempt!Expire, Attempt!Next
        <3>6. QED
            BY <3>4, <3>5
    <2>6. CASE \/ RejectToken(r) \/ CheckSubmitted(r) \/ RejectWrite(r) \/ Commit(r)
               \/ Fail(r)
        <3>1. /\ UNCHANGED <<clock, status, result>> /\ told' = [told EXCEPT ![r] = Null]
              /\ pc[r] # "done"
            BY <2>6 DEF RejectToken, CheckSubmitted, RejectWrite, Commit, Fail, Respond
        <3>2. told' = told
            BY <2>2, <3>1 DEF TypeOK
        <3>3. QED
            BY <2>1, <3>1, <3>2 DEF Attempt!vars
    <2>7. CASE \/ Arrive(r) \/ AcceptToken(r) \/ CheckExpired(r) \/ CheckPasses(r)
               \/ ClearMissing(r) \/ Write(r) \/ Lookup(r) \/ Decide(r)
               \/ FinalizeOpen(r) \/ LoadQuestions(r) \/ LoadAnswers(r) \/ Store(r)
        <3>1. UNCHANGED <<clock, status, result, told>>
            BY <2>7 DEF Arrive, AcceptToken, CheckExpired, CheckPasses, ClearMissing,
               Write, Lookup, Decide, FinalizeOpen, LoadQuestions, LoadAnswers, Store,
               Proceed
        <3>2. QED
            BY <2>1, <3>1 DEF Attempt!vars
    <2>8. QED
        BY <1>4, <2>3, <2>4, <2>5, <2>6, <2>7 DEF Step
<1>5. QED
    BY <1>1, <1>2, <1>3, <1>4 DEF Next

\* The requests racing on the session implement the abstract attempt: it ends
\* once, honestly, with accepted selections only, and all are told that result.
THEOREM RequestsImplementAttempt == Spec => ImplementsAttempt
<1> DEFINE Inv == TypeOK /\ RowInv /\ TimeInv /\ PlaceInv /\ PairsInv
<1>1. Init => Inv /\ Attempt!Init
    BY TypeInit, RowInit, TimeInit, PlaceInit, PairsInit, AttemptInit
<1>2. Inv /\ [Next]_vars => Inv'
    BY TypeStep, RowStep, TimeStep, PlaceStep, PairsStep
<1>3. Inv /\ [Next]_vars => [Attempt!Next]_(Attempt!vars)
    BY AttemptStep
<1> HIDE DEF Inv
<1>4. QED
    BY <1>1, <1>2, <1>3, PTL DEF Spec, ImplementsAttempt, Attempt!Spec

-----------------------------------------------------------------------------
(* Every request runs out of statements: a bound on those it has left.      *)

LeftAt(place) ==
    CASE place = "done" -> 0
      [] place \in {"commit", "commitEmpty", "expireNow", "expireIfDue",
                    "readStored", "storeCommit", "readWinner"} -> 1
      [] place \in {"write", "store"}       -> 2
      [] place \in {"check", "loadAnswers"} -> 3
      [] place = "loadQuestions" -> 4
      [] place = "finalize"      -> 5
      [] place = "decide"        -> 6
      [] place = "lookup"        -> 7
      [] place = "authenticate"  -> 8
      [] place = "idle"          -> 9

Left(r) == LeftAt(pc[r])

\* No step sends a request back, and its own bring it nearer to its answer.
Nearer ==
    \A r \in Reqs : /\ Left(r)' <= Left(r)
                    /\ Arrive(r) \/ Step(r) \/ Fail(r) => Left(r)' < Left(r)

LEMMA LeftNat ==
    ASSUME NEW place \in PCs
    PROVE  LeftAt(place) \in 0 .. 9 /\ (place # "done" => LeftAt(place) > 0)
<1>1. place \in {"done"} => LeftAt(place) = 0
    BY DEF LeftAt
<1>2. place \in {"commit", "commitEmpty", "expireNow", "expireIfDue"} => LeftAt(place) = 1
    BY DEF LeftAt
<1>3. place \in {"readStored", "storeCommit", "readWinner"} => LeftAt(place) = 1
    BY DEF LeftAt
<1>4. place \in {"write", "store"} => LeftAt(place) = 2
    BY DEF LeftAt
<1>5. place \in {"check", "loadAnswers"} => LeftAt(place) = 3
    BY DEF LeftAt
<1>6. place \in {"loadQuestions", "finalize"} => LeftAt(place) \in {4, 5}
    BY DEF LeftAt
<1>7. place \in {"decide", "lookup"} => LeftAt(place) \in {6, 7}
    BY DEF LeftAt
<1>8. place \in {"authenticate", "idle"} => LeftAt(place) \in {8, 9}
    BY DEF LeftAt
<1>9. QED
    BY <1>1, <1>2, <1>3, <1>4, <1>5, <1>6, <1>7, <1>8 DEF PCs

LEMMA OwnStepNearer ==
    ASSUME TypeOK, NEW r \in Reqs, Arrive(r) \/ Step(r) \/ Fail(r)
    PROVE  Left(r)' < Left(r)
<1> USE DEF Goto, Respond, Proceed, TypeOK
<1>1. ASSUME pc'[r] = "done", pc[r] # "done" PROVE Left(r)' < Left(r)
    <2>1. Left(r) \in 0 .. 9 /\ Left(r) > 0
        BY <1>1, LeftNat DEF Left
    <2>2. Left(r)' = 0
        BY <1>1 DEF Left, LeftAt
    <2>3. QED
        BY <2>1, <2>2
<1>2. CASE \/ RejectToken(r) \/ CheckSubmitted(r) \/ RejectWrite(r) \/ Commit(r)
           \/ CommitEmpty(r) \/ ExpireNow(r) \/ ExpireIfDue(r) \/ Fail(r)
    BY <1>1, <1>2 DEF RejectToken, CheckSubmitted, RejectWrite, Commit, CommitEmpty,
       ExpireNow, ExpireIfDue, Fail
<1>3. CASE ReadStored(r) \/ FinalizeSubmitted(r) \/ StoreCommit(r) \/ ReadWinner(r)
    BY <1>1, <1>3 DEF ReadStored, FinalizeSubmitted, StoreCommit, ReadWinner, TellStored
<1>4. CASE Arrive(r) \/ AcceptToken(r) \/ Lookup(r)
    <2>1. \/ pc[r] = "idle" /\ pc'[r] = "authenticate"
          \/ pc[r] = "authenticate" /\ pc'[r] \in {"check", "finalize", "lookup"}
          \/ pc[r] = "lookup" /\ pc'[r] = "decide"
        BY <1>4 DEF Arrive, AcceptToken, AfterToken, Lookup
    <2>2. QED
        BY <2>1 DEF Left, LeftAt
<1>5. CASE CheckExpired(r) \/ CheckPasses(r) \/ ClearMissing(r) \/ Write(r)
    <2>1. \/ pc[r] = "check" /\ pc'[r] \in {"expireNow", "write"}
          \/ pc[r] = "write" /\ pc'[r] \in {"commit", "commitEmpty"}
        BY <1>5 DEF CheckExpired, CheckPasses, ClearMissing, Write
    <2>2. QED
        BY <2>1 DEF Left, LeftAt
<1>6. CASE Decide(r)
    <2>1. /\ pc[r] = "decide"
          /\ pc'[r] \in {"expireIfDue", "loadQuestions", "readStored", "finalize", "done"}
        BY <1>6 DEF Decide, AfterLookup
    <2>2. QED
        BY <2>1 DEF Left, LeftAt
<1>7. CASE FinalizeOpen(r) \/ LoadQuestions(r) \/ LoadAnswers(r) \/ Store(r)
    <2>1. \/ pc[r] = "finalize" /\ pc'[r] = "loadQuestions"
          \/ pc[r] = "loadQuestions" /\ pc'[r] = "loadAnswers"
          \/ pc[r] = "loadAnswers" /\ pc'[r] \in {"done", "store"}
          \/ pc[r] = "store" /\ pc'[r] \in {"storeCommit", "readWinner"}
        BY <1>7 DEF FinalizeOpen, LoadQuestions, LoadAnswers, Store
    <2>2. QED
        BY <2>1 DEF Left, LeftAt
<1>8. QED
    BY <1>2, <1>3, <1>4, <1>5, <1>6, <1>7 DEF Step

\* A request takes nine steps at most.  The two that hold a row while others
\* wait for it, commit and storeCommit, have one step left, which waits for none.
THEOREM RequestsRunOut == Spec => [][Nearer]_vars
<1>1. TypeOK /\ TypeOK' /\ [Next]_vars => [Nearer]_vars
    <2> SUFFICES ASSUME TypeOK, TypeOK', Next, NEW x \in Reqs
                 PROVE  /\ Left(x)' <= Left(x)
                        /\ Arrive(x) \/ Step(x) \/ Fail(x) => Left(x)' < Left(x)
        BY DEF Nearer
    <2>1. Left(x) \in 0 .. 9 /\ Left(x)' \in 0 .. 9
        BY LeftNat DEF Left, TypeOK
    <2>2. Arrive(x) \/ Step(x) \/ Fail(x) => Left(x)' < Left(x)
        BY OwnStepNearer
    <2>3. pc'[x] = pc[x] => Left(x)' <= Left(x)
        BY <2>1 DEF Left
    <2>4. CASE Tick
        BY <2>2, <2>3, <2>4 DEF Tick, reqVars
    <2>5. ASSUME NEW r \in Reqs, Arrive(r) \/ Step(r) \/ Fail(r)
          PROVE  Left(x)' <= Left(x)
        BY <2>1, <2>2, <2>3, <2>5, OthersStay
    <2>6. QED
        BY <2>2, <2>4, <2>5 DEF Next
<1>2. QED
    BY <1>1, TypeCorrect, PTL DEF Spec

-----------------------------------------------------------------------------
(* What a finalizing request leaves behind: a submit, or a result request   *)
(* that read the clock at or after the deadline.  Results read no clock     *)
(* before their decision, so `at` is still zero there.                      *)

Final(r) == call[r].op = "submit" \/ (call[r].op = "result" /\ at[r] >= ExpiresAt)

FinalPCs == {"authenticate", "finalize", "readStored", "loadQuestions", "loadAnswers",
             "store", "storeCommit", "readWinner", "done"}

\* Answered without an error, a request that finalizes leaves the session
\* submitted, whoever stored the result.
Finalized(r) ==
    pc[r] = "done" /\ Final(r) =>
        status = "submitted" \/ reply[r] \in {"error", "unauthorized"}

FinalizersFinish == \A r \in Reqs : Finalized(r)

Finishing(r) ==
    /\ pc[r] \in {"idle", "authenticate", "lookup", "decide"} => at[r] = 0
    /\ pc[r] # "idle" /\ Final(r) => pc[r] \in FinalPCs
    /\ Finalized(r)

FinishInv == \A r \in Reqs : Finishing(r)

LEMMA FinishInit == Init => FinishInv
<1>1. Init => pc = [r \in Reqs |-> "idle"] /\ at = [r \in Reqs |-> 0]
    BY Zenon DEF Init
<1>2. QED
    BY <1>1 DEF FinishInv, Finishing, Finalized

\* r's own step, by the statements a finalizing request goes through.
LEMMA FinishOwnStep ==
    ASSUME TypeOK, RowInv, FinishInv, NEW r \in Reqs, Arrive(r) \/ Step(r) \/ Fail(r)
    PROVE  Finishing(r)'
<1> USE DEF TypeOK, Goto, Respond, Proceed, Finalized, Final, FinalPCs
<1>0. Finishing(r) /\ ExpiresAt \in Nat \ {0}
    BY ClockAssumption DEF FinishInv
<1>1. CASE Arrive(r)
    BY <1>0, <1>1 DEF Arrive, Finishing
<1>2. CASE RejectToken(r) \/ Fail(r)
    BY <1>0, <1>2 DEF RejectToken, Fail, Finishing
<1>3. CASE AcceptToken(r)
    BY <1>0, <1>3 DEF AcceptToken, AfterToken, Writes, Finishing
<1>4. CASE \/ CheckSubmitted(r) \/ CheckExpired(r) \/ CheckPasses(r) \/ RejectWrite(r)
           \/ ClearMissing(r) \/ Write(r) \/ Commit(r) \/ CommitEmpty(r)
           \/ ExpireNow(r) \/ ExpireIfDue(r)
  <2>1. /\ pc[r] \in {"check", "write", "commit", "commitEmpty", "expireNow", "expireIfDue"}
        /\ UNCHANGED <<call, at>>
        /\ pc'[r] \in {"expireNow", "write", "commit", "commitEmpty", "done"}
      BY <1>4 DEF CheckSubmitted, CheckExpired, CheckPasses, RejectWrite, ClearMissing,
         Write, Commit, CommitEmpty, ExpireNow, ExpireIfDue
  <2>2. QED
      BY <1>0, <2>1 DEF Finishing
<1>5. CASE Lookup(r)
    BY <1>0, <1>5 DEF Lookup, Finishing
<1>6. CASE Decide(r)
  <2>1. /\ pc[r] = "decide" /\ pc'[r] = AfterLookup(call[r].op, seen[r], clock)
        /\ at'[r] = clock /\ call' = call
      BY <1>6 DEF Decide
  <2>2. call[r].op # "submit"
      BY <1>0, <2>1 DEF Finishing
  <2>3. call[r].op = "result" /\ clock >= ExpiresAt
            => pc'[r] \in {"readStored", "finalize"}
      BY <2>1 DEF AfterLookup
  <2>4. pc'[r] \in {"expireIfDue", "loadQuestions", "readStored", "finalize", "done"}
      BY <2>1 DEF AfterLookup
  <2>5. QED
      BY <2>1, <2>2, <2>3, <2>4 DEF Finishing
<1>7. CASE ReadStored(r) \/ FinalizeSubmitted(r) \/ ReadWinner(r)
  <2>1. status = "submitted"
      BY <1>7 DEF RowInv, SawSubmitted, ReadStored, FinalizeSubmitted, ReadWinner
  <2>2. pc'[r] = "done" /\ status' = status
      BY <1>7 DEF ReadStored, FinalizeSubmitted, ReadWinner, TellStored, NoWrite, rowVars
  <2>3. QED
      BY <2>1, <2>2 DEF Finishing
<1>8. CASE StoreCommit(r)
    BY <1>8 DEF StoreCommit, Finishing
<1>9. CASE FinalizeOpen(r) \/ LoadQuestions(r) \/ LoadAnswers(r) \/ Store(r)
  <2>1. /\ UNCHANGED <<call, at>>
        /\ pc'[r] \in {"loadQuestions", "loadAnswers", "store", "storeCommit",
                       "readWinner", "done"}
        /\ pc'[r] = "done" => call[r].op = "resume"
      BY <1>9 DEF FinalizeOpen, LoadQuestions, LoadAnswers, Store
  <2>2. QED
      BY <1>0, <2>1 DEF Finishing
<1>10. QED
    BY <1>1, <1>2, <1>3, <1>4, <1>5, <1>6, <1>7, <1>8, <1>9 DEF Step

LEMMA FinishStep == TypeOK /\ RowInv /\ FinishInv /\ [Next]_vars => FinishInv'
<1> SUFFICES ASSUME TypeOK, RowInv, FinishInv, [Next]_vars PROVE FinishInv'
    OBVIOUS
<1> USE DEF FinishInv, Finishing, Finalized, Final
<1>1. CASE UNCHANGED vars
    BY <1>1 DEF vars, rowVars, reqVars
<1>2. CASE Tick
    BY <1>2 DEF Tick, rowVars, reqVars
<1>3. ASSUME NEW r \in Reqs, Arrive(r) \/ Step(r) \/ Fail(r) PROVE FinishInv'
  <2>1. Finishing(r)'
      BY <1>3, FinishOwnStep
  <2>2. status = "submitted" => status' = "submitted"
      BY <1>3, SubmittedStep DEF Next
  <2>3. ASSUME NEW x \in Reqs, x # r PROVE Finishing(x)'
      BY <1>3, <2>2, <2>3, OthersStay
  <2>4. QED
      BY <2>1, <2>3
<1>4. QED
    BY <1>1, <1>2, <1>3 DEF Next

\* A candidate whose tab was closed at the deadline gets a result: once a submit,
\* or a result request that decided after the deadline, has been answered
\* without an error, the session is submitted, however many raced to store it.
THEOREM FinalizersLeaveAResult == Spec => []FinalizersFinish
<1>1. Init => TypeOK /\ RowInv /\ FinishInv
    BY TypeInit, RowInit, FinishInit
<1>2. TypeOK /\ RowInv /\ FinishInv /\ [Next]_vars => TypeOK' /\ RowInv' /\ FinishInv'
    BY TypeStep, RowStep, FinishStep
<1>3. FinishInv => FinalizersFinish
    BY DEF FinishInv, Finishing, FinalizersFinish
<1>4. QED
    BY <1>1, <1>2, <1>3, PTL DEF Spec

=============================================================================
