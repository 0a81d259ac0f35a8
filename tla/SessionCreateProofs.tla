------------------------- MODULE SessionCreateProofs -------------------------
(***************************************************************************)
(* Theorems about SessionCreate, for any set of requests, keys, bodies and *)
(* identities, any replay window and limits, and any number of restarts    *)
(* and of clearings of the limiter's buckets.                              *)
(***************************************************************************)
EXTENDS SessionCreate, FiniteSetTheorems, TLAPS

(* Types.  What a request may be asked to do depends on where it stands:    *)
(* only keyed requests look a session up, and only a request that stands    *)
(* past a lookup or a draw has an identity.                                 *)

TypeInv ==
    /\ TypeOK
    /\ \A k \in Keys : buckets[k].last <= clock
    /\ \A r \in Reqs :
          /\ pc[r] # "idle" => ask[r] \in Asked
          /\ pc[r] \in {"find", "admit", "count", "mint"} => ask[r].key \in Keys
          /\ pc[r] \in {"admit", "count", "mint", "readBack", "insert", "insertCommit"}
                => mine[r] \in Ids

LEMMA TypeInit == Init => TypeInv
  BY LimitsAssumption DEF Init, TypeInv, TypeOK, Bucket, PCs, Replies

LEMMA RefillNat ==
    ASSUME TypeInv, NEW k \in Keys
    PROVE  Refilled(k) \in 0 .. Capacity
<1>1. /\ buckets[k].permits \in 0 .. Capacity /\ buckets[k].last \in Nat
      /\ clock \in Nat /\ buckets[k].last <= clock
    BY LimitsAssumption DEF TypeInv, TypeOK, Bucket
<1>2. QED
    BY <1>1, LimitsAssumption DEF Refilled, Lesser

LEMMA TypeStep == TypeInv /\ [Next]_vars => TypeInv'
<1> SUFFICES ASSUME TypeInv, [Next]_vars PROVE TypeInv'
    OBVIOUS
<1> USE LimitsAssumption, CreateNullAssumption
    DEF TypeInv, TypeOK, Goto, Respond, Proceed, NoWrite, tableVars, reqVars, PCs, Replies
<1>1. CASE UNCHANGED vars
    BY <1>1 DEF vars
<1>2. CASE Tick
    BY <1>2 DEF Tick, Bucket
<1>3. CASE Restart \/ ClearBuckets
    BY <1>3 DEF Restart, ClearBuckets, FullBuckets, Bucket, InFlight
<1>4. ASSUME NEW r \in Reqs, Arrive(r) PROVE TypeInv'
    BY <1>4 DEF Arrive, Asked
<1>5. ASSUME NEW r \in Reqs,
             FindNothing(r) \/ FindMismatch(r) \/ RejectStale(r) \/ Exhausted(r)
             \/ Count(r) \/ ReadBack(r) \/ Fail(r) \/ InsertSession(r)
      PROVE  TypeInv'
    BY <1>5 DEF FindNothing, FindMismatch, RejectStale, Exhausted, Count, ReadBack,
                Fail, InFlight, InsertSession
<1>6. ASSUME NEW r \in Reqs, FindMatch(r) \/ InsertLosesRace(r) PROVE TypeInv'
    <2>1. CASE FindMatch(r)
        BY <2>1 DEF FindMatch
    <2>2. CASE InsertLosesRace(r)
        <3>1. ask[r].key \in Keys
            BY <2>2 DEF InsertLosesRace, KeyTaken, Asked
        <3>2. QED
            BY <2>2, <3>1 DEF InsertLosesRace
    <2>3. QED
        BY <1>6, <2>1, <2>2
<1>7. ASSUME NEW r \in Reqs, Throttle(r) \/ Admit(r) PROVE TypeInv'
    <2>1. ask[r].key \in Keys
        BY <1>7 DEF Throttle, Admit
    <2>2. /\ [permits |-> Refilled(ask[r].key), last |-> clock] \in Bucket
          /\ Refilled(ask[r].key) >= 1 =>
                [permits |-> Refilled(ask[r].key) - 1, last |-> clock] \in Bucket
        BY <2>1, RefillNat DEF Bucket
    <2>3. CASE Throttle(r)
        BY <2>1, <2>2, <2>3 DEF Throttle
    <2>4. CASE Admit(r)
        BY <2>1, <2>2, <2>4 DEF Admit
    <2>5. QED
        BY <1>7, <2>3, <2>4
<1>8. ASSUME NEW r \in Reqs, Mint(r) PROVE TypeInv'
    BY <1>8 DEF Mint
<1>9. ASSUME NEW r \in Reqs, Build(r) \/ InsertCollides(r) PROVE TypeInv'
    BY <1>9 DEF Build, InsertCollides, Draw
<1>10. ASSUME NEW r \in Reqs, InsertCommit(r) PROVE TypeInv'
    <2>1. [key |-> ask[r].key, body |-> ask[r].body, created |-> born[r], token |-> r]
              \in Row
        BY <1>10 DEF InsertCommit, Row, Asked
    <2>2. QED
        BY <1>10, <2>1 DEF InsertCommit
<1>11. QED
    BY <1>1, <1>2, <1>3, <1>4, <1>5, <1>6, <1>7, <1>8, <1>9, <1>10 DEF Next, Step

\* Every variable keeps its type: no request reads a row it has not found, no
\* bucket goes below zero, no identity loop runs past its limit.
THEOREM CreateTypes == Spec => []TypeOK
<1>1. TypeInv => TypeOK
    BY DEF TypeInv
<1>2. QED
    BY <1>1, TypeInit, TypeStep, PTL DEF Spec

-----------------------------------------------------------------------------
(* One session per key.  A row is inserted only where the unique indexes    *)
(* allow it, and while it is uncommitted it keeps the others out.           *)

Reserved(r) ==
    pc[r] = "insertCommit" => ~KeyTaken(r) /\ sessions[mine[r]] = Null /\ ~InsertWaits(r)

\* A request that was told of a session, or is about to be.
On(r)     == pc[r] \in {"admit", "count", "mint", "readBack"} \/ Answered(r)
Tokened(r) == pc[r] = "readBack" \/ Answered(r)

\* The session it is on is its key's and its body's, its token is valid there,
\* and without a key it is the session's first holder.
Placed(r) ==
    /\ On(r) => /\ mine[r] \in Ids /\ sessions[mine[r]] # Null
                /\ sessions[mine[r]].key = ask[r].key
                /\ sessions[mine[r]].body = ask[r].body
    /\ Tokened(r) => Authenticates(r, mine[r])
    /\ Tokened(r) /\ ask[r].key = Null => sessions[mine[r]].token = r

\* Once raced, the key is taken for good; answers come last.
Settled(r) ==
    /\ pc[r] = "idle" => ~raced[r]
    /\ raced[r] => KeyTaken(r)
    /\ reply[r] # "none" => pc[r] = "done"
    /\ reply[r] # "unresolved"

CreateInv ==
    /\ OneSessionPerKey
    /\ \A r \in Reqs : Reserved(r) /\ Placed(r) /\ Settled(r)

LEMMA CreateInit == Init => CreateInv
  BY CreateNullAssumption
     DEF Init, CreateInv, OneSessionPerKey, Holds, Reserved, Placed, On, Tokened,
         Answered, Settled

\* A request's step moves that request only.
LEMMA OthersStay ==
    ASSUME TypeInv, NEW r \in Reqs, Arrive(r) \/ Step(r) \/ Fail(r)
    PROVE  \A x \in Reqs : x # r =>
              /\ pc'[x] = pc[x] /\ ask'[x] = ask[x] /\ mine'[x] = mine[x]
              /\ reply'[x] = reply[x] /\ raced'[x] = raced[x]
<1> USE DEF TypeInv, TypeOK, Goto, Respond, Proceed, Draw
<1>1. CASE Arrive(r) \/ FindMatch(r) \/ Build(r) \/ InsertLosesRace(r) \/ InsertCollides(r)
    BY <1>1 DEF Arrive, FindMatch, Build, InsertLosesRace, InsertCollides
<1>2. CASE Admit(r) \/ Count(r) \/ Mint(r) \/ InsertSession(r) \/ InsertCommit(r)
    BY <1>2 DEF Admit, Count, Mint, InsertSession, InsertCommit
<1>3. CASE FindNothing(r) \/ FindMismatch(r) \/ RejectStale(r) \/ Throttle(r)
           \/ Exhausted(r) \/ ReadBack(r) \/ Fail(r)
    BY <1>3 DEF FindNothing, FindMismatch, RejectStale, Throttle, Exhausted, ReadBack,
                Fail
<1>4. QED
    BY <1>1, <1>2, <1>3 DEF Step

\* Steps that leave the tables alone keep what the other requests rely on, as
\* long as r does not begin to hold an uncommitted row.
LEMMA ReadFrame ==
    ASSUME TypeInv, CreateInv, NEW r \in Reqs, UNCHANGED tableVars,
           Arrive(r) \/ Step(r) \/ Fail(r), pc'[r] # "insertCommit",
           Placed(r)', Settled(r)'
    PROVE  CreateInv'
<1>1. OneSessionPerKey'
    BY DEF CreateInv, OneSessionPerKey, Holds, tableVars
<1>2. ASSUME NEW x \in Reqs, x # r PROVE Placed(x)' /\ Settled(x)'
    BY <1>2, OthersStay DEF CreateInv, Placed, On, Tokened, Answered, Authenticates,
       Settled, KeyTaken, Holds, tableVars
<1>3. ASSUME NEW x \in Reqs PROVE Reserved(x)'
    BY OthersStay DEF CreateInv, Reserved, KeyTaken, Holds, InsertWaits, tableVars
<1>4. QED
    BY <1>1, <1>2, <1>3 DEF CreateInv

LEMMA CreateStep == TypeInv /\ CreateInv /\ [Next]_vars => CreateInv'
<1> SUFFICES ASSUME TypeInv, CreateInv, [Next]_vars PROVE CreateInv'
    OBVIOUS
<1> USE CreateNullAssumption
<1>1. CASE UNCHANGED vars
    BY <1>1 DEF vars, tableVars, reqVars, CreateInv, OneSessionPerKey, Holds, Reserved,
       Placed, On, Tokened, Answered, Authenticates, Settled, KeyTaken, InsertWaits
<1>2. CASE Tick \/ ClearBuckets
    BY <1>2 DEF Tick, ClearBuckets, tableVars, reqVars, CreateInv, OneSessionPerKey, Holds, Reserved,
       Placed, On, Tokened, Answered, Authenticates, Settled, KeyTaken, InsertWaits
<1>3. CASE Restart
    <2>1. OneSessionPerKey'
        BY <1>3 DEF Restart, tableVars, CreateInv, OneSessionPerKey, Holds
    <2>2. ASSUME NEW r \in Reqs PROVE Reserved(r)' /\ Placed(r)' /\ Settled(r)'
        BY <1>3 DEF Restart, tableVars, CreateInv, Reserved, Placed, On, Tokened,
           Answered, Authenticates, Settled, KeyTaken, Holds, InFlight, TypeInv, TypeOK
    <2>3. QED
        BY <2>1, <2>2 DEF CreateInv
<1>4. ASSUME NEW r \in Reqs, Arrive(r) PROVE CreateInv'
    <2>1. Placed(r)' /\ Settled(r)' /\ pc'[r] # "insertCommit" /\ UNCHANGED tableVars
        BY <1>4 DEF Arrive, Goto, NoWrite, CreateInv, Placed, On, Tokened, Answered,
           Settled, TypeInv, TypeOK
    <2>2. QED
        BY <1>4, <2>1, ReadFrame
<1>5. ASSUME NEW r \in Reqs,
             FindNothing(r) \/ FindMismatch(r) \/ RejectStale(r) \/ Throttle(r)
             \/ Exhausted(r) \/ Fail(r)
      PROVE  CreateInv'
    <2>1. raced[r] => \E i \in Ids : Holds(i, ask[r].key)
        BY DEF CreateInv, Settled, KeyTaken
    <2>2. /\ UNCHANGED <<tableVars, ask, raced>> /\ pc[r] \notin {"idle", "done"}
          /\ \/ pc'[r] = "build" /\ reply' = reply
             \/ pc'[r] = "done" /\ reply'[r] \in {"conflict", "stale", "throttled",
                                                  "exhausted", "error"}
        BY <1>5, <2>1 DEF FindNothing, FindMismatch, RejectStale, Throttle, Exhausted,
           Fail, InFlight, Respond, Proceed, Goto, NoWrite, TypeInv, TypeOK
    <2>3. Placed(r)' /\ Settled(r)'
        BY <2>2 DEF CreateInv, Placed, On, Tokened, Answered, Settled, KeyTaken, Holds,
           tableVars
    <2>4. QED
        BY <1>5, <2>2, <2>3, ReadFrame DEF Step
<1>6. ASSUME NEW r \in Reqs, FindMatch(r) \/ Admit(r) \/ Count(r) PROVE CreateInv'
    <2>1. /\ UNCHANGED <<tableVars, ask, raced, reply>> /\ pc[r] # "idle"
          /\ pc'[r] \in {"admit", "count", "mint"} /\ pc[r] # "done"
        BY <1>6 DEF FindMatch, Admit, Count, Proceed, Goto, NoWrite, TypeInv, TypeOK
    <2>2. /\ mine'[r] \in Ids /\ sessions[mine'[r]] # Null
          /\ sessions[mine'[r]].key = ask[r].key /\ sessions[mine'[r]].body = ask[r].body
        BY <1>6 DEF FindMatch, Admit, Count, Proceed, Holds, CreateInv, Placed, On,
           TypeInv, TypeOK
    <2>3. Placed(r)' /\ Settled(r)'
        BY <2>1, <2>2 DEF CreateInv, Placed, On, Tokened, Answered, Settled, KeyTaken,
           Holds, tableVars
    <2>4. QED
        BY <1>6, <2>1, <2>3, ReadFrame DEF Step
<1>7. ASSUME NEW r \in Reqs, Build(r) \/ InsertCollides(r) \/ InsertLosesRace(r)
      PROVE  CreateInv'
    <2>1. /\ UNCHANGED <<tableVars, ask>> /\ pc[r] # "idle" /\ pc[r] # "done"
          /\ pc'[r] \in {"insert", "find", "done"}
          /\ \/ pc'[r] = "done" /\ reply'[r] = "internal"
             \/ reply' = reply
          /\ raced' = raced \/ (KeyTaken(r) /\ raced' = [raced EXCEPT ![r] = TRUE])
        BY <1>7 DEF Build, InsertCollides, InsertLosesRace, Respond, Goto, NoWrite,
           TypeInv, TypeOK
    <2>2. Placed(r)' /\ Settled(r)'
        BY <2>1 DEF CreateInv, Placed, On, Tokened, Answered, Settled, KeyTaken, Holds,
           tableVars, TypeInv, TypeOK
    <2>3. QED
        BY <1>7, <2>1, <2>2, ReadFrame DEF Step
<1>8. ASSUME NEW r \in Reqs, ReadBack(r) PROVE CreateInv'
    <2>1. /\ UNCHANGED <<tableVars, ask, mine, raced>> /\ pc[r] = "readBack"
          /\ pc'[r] = "done" /\ reply'[r] \in {"internal", "created", "lost"}
        BY <1>8 DEF ReadBack, Respond, Goto, NoWrite, TypeInv, TypeOK
    <2>2. Placed(r)' /\ Settled(r)'
        BY <2>1 DEF CreateInv, Placed, On, Tokened, Answered, Authenticates, Settled,
           KeyTaken, Holds, tableVars
    <2>3. QED
        BY <1>8, <2>1, <2>2, ReadFrame DEF Step
<1>9. ASSUME NEW r \in Reqs, Mint(r) PROVE CreateInv'
    <2>1. /\ UNCHANGED <<sessions, ask, mine, raced, reply>> /\ pc[r] = "mint"
          /\ pc'[r] = "readBack" /\ extra' = extra \cup {<<mine[r], r>>}
        BY <1>9 DEF Mint, Proceed, Goto, TypeInv, TypeOK
    <2>2. OneSessionPerKey'
        BY <2>1 DEF CreateInv, OneSessionPerKey, Holds
    <2>3. Placed(r)' /\ Settled(r)'
        BY <2>1 DEF CreateInv, Placed, On, Tokened, Answered, Authenticates, Settled,
           KeyTaken, Holds, TypeInv
    <2>4. ASSUME NEW x \in Reqs, x # r PROVE Placed(x)' /\ Settled(x)'
        BY <1>9, <2>1, <2>4, OthersStay DEF Step, CreateInv, Placed, On, Tokened,
           Answered, Authenticates, Settled, KeyTaken, Holds
    <2>5. ASSUME NEW x \in Reqs PROVE Reserved(x)'
        BY <1>9, <2>1, OthersStay
           DEF Step, CreateInv, Reserved, KeyTaken, Holds, InsertWaits
    <2>6. QED
        BY <2>2, <2>3, <2>4, <2>5 DEF CreateInv
<1>10. ASSUME NEW r \in Reqs, InsertSession(r) PROVE CreateInv'
    <2>1. /\ UNCHANGED <<tableVars, ask, mine, raced, reply>> /\ pc[r] = "insert"
          /\ pc'[r] = "insertCommit"
          /\ ~InsertWaits(r) /\ ~KeyTaken(r) /\ sessions[mine[r]] = Null
        BY <1>10 DEF InsertSession, Proceed, Goto, NoWrite, TypeInv, TypeOK
    <2>2. \A x \in Reqs : x # r => pc'[x] = pc[x]
        BY <1>10, OthersStay DEF Step
    <2>3. OneSessionPerKey'
        BY <2>1 DEF CreateInv, OneSessionPerKey, Holds, tableVars
    <2>4. ASSUME NEW x \in Reqs PROVE Placed(x)' /\ Settled(x)'
        BY <2>1, <2>2 DEF CreateInv, Placed, On, Tokened, Answered, Authenticates,
           Settled, KeyTaken, Holds, tableVars
    <2>5. ASSUME NEW x \in Reqs PROVE Reserved(x)'
        BY <2>1, <2>2 DEF CreateInv, Reserved, KeyTaken, Holds, InsertWaits, tableVars
    <2>6. QED
        BY <2>3, <2>4, <2>5 DEF CreateInv
<1>11. ASSUME NEW r \in Reqs, InsertCommit(r) PROVE CreateInv'
    <2> DEFINE row == [key |-> ask[r].key, body |-> ask[r].body, created |-> born[r],
                       token |-> r]
    <2>1. /\ UNCHANGED <<ask, mine, raced, reply, extra>> /\ pc[r] = "insertCommit"
          /\ pc'[r] = "readBack" /\ sessions' = [sessions EXCEPT ![mine[r]] = row]
          /\ mine[r] \in Ids /\ sessions[mine[r]] = Null
          /\ ~KeyTaken(r) /\ ~InsertWaits(r)
        BY <1>11 DEF InsertCommit, Proceed, Goto, TypeInv, TypeOK, CreateInv, Reserved
    <2>2. row # Null
        BY <2>1 DEF TypeInv, TypeOK, Asked, Row
    <2>3. \A x \in Reqs : x # r => pc'[x] = pc[x]
        BY <1>11, OthersStay DEF Step
    <2>4. /\ sessions'[mine[r]] = row
          /\ \A i \in Ids : i # mine[r] => sessions'[i] = sessions[i]
        BY <2>1 DEF TypeInv, TypeOK
    <2>5. \A i \in Ids : sessions[i] # Null => sessions'[i] = sessions[i]
        BY <2>1, <2>4
    <2>6. OneSessionPerKey'
        BY <2>1, <2>4 DEF CreateInv, OneSessionPerKey, Holds, KeyTaken
    <2>7. ASSUME NEW x \in Reqs, x # r PROVE Placed(x)' /\ Settled(x)'
        BY <2>1, <2>3, <2>5, <2>7 DEF CreateInv, Placed, On, Tokened, Answered,
           Authenticates, Settled, KeyTaken, Holds
    <2>8. Placed(r)' /\ Settled(r)'
        BY <2>1, <2>2, <2>4 DEF CreateInv, Placed, On, Tokened, Answered, Authenticates,
           Settled, KeyTaken, Holds
    <2>9. ASSUME NEW x \in Reqs PROVE Reserved(x)'
        <3> SUFFICES ASSUME pc'[x] = "insertCommit" PROVE Reserved(x)'
            BY DEF Reserved
        <3>1. x # r /\ pc[x] = "insertCommit"
            BY <2>1, <2>3
        <3>2. mine[x] # mine[r] /\ (ask[r].key # Null => ask[x].key # ask[r].key)
            BY <2>1, <3>1 DEF InsertWaits
        <3>3. Reserved(x) /\ mine[x] \in Ids
            BY <3>1 DEF CreateInv, TypeInv
        <3>4. ~KeyTaken(x)' /\ sessions'[mine[x]] = Null
            BY <2>1, <2>4, <3>1, <3>2, <3>3 DEF Reserved, KeyTaken, Holds
        <3>5. ~InsertWaits(x)'
            BY <2>1, <2>3, <3>1, <3>3 DEF Reserved, InsertWaits
        <3>6. QED
            BY <2>1, <3>4, <3>5 DEF Reserved
    <2>10. QED
        BY <2>6, <2>7, <2>8, <2>9 DEF CreateInv
<1>12. QED
    BY <1>1, <1>2, <1>3, <1>4, <1>5, <1>6, <1>7, <1>8, <1>9, <1>10, <1>11 DEF Next, Step

LEMMA CreateAlways == Spec => [](TypeInv /\ CreateInv)
<1>1. Init => TypeInv /\ CreateInv
    BY TypeInit, CreateInit
<1>2. TypeInv /\ CreateInv /\ [Next]_vars => (TypeInv /\ CreateInv)'
    BY TypeStep, CreateStep
<1>3. QED
    BY <1>1, <1>2, PTL DEF Spec

\* However many requests race or retry under one idempotency key, at most one
\* session is ever committed for it.
THEOREM KeyMakesOneSession == Spec => []OneSessionPerKey
<1>1. TypeInv /\ CreateInv => OneSessionPerKey
    BY DEF CreateInv
<1>2. QED
    BY <1>1, CreateAlways, PTL

\* Every successful response to a key names the same session, one created for
\* exactly that body.
THEOREM AnswersConverge == Spec => []RetriesConverge
<1>1. TypeInv /\ CreateInv => RetriesConverge
    BY DEF CreateInv, Placed, On, RetriesConverge
<1>2. QED
    BY <1>1, CreateAlways, PTL

\* Every token a response ever carried keeps authenticating for its session.
THEOREM TokensStayValid == Spec => []TokensKeepWorking
<1>1. TypeInv /\ CreateInv => TokensKeepWorking
    BY DEF CreateInv, Placed, Tokened, TokensKeepWorking
<1>2. QED
    BY <1>1, CreateAlways, PTL

\* A request that sent no key shares its session with nobody: a replay would
\* carry a key, and any other keyless request is the first holder of its own.
THEOREM KeylessStandAlone == Spec => []NoKeyNoSharing
<1>1. TypeInv /\ CreateInv => NoKeyNoSharing
  <2> SUFFICES ASSUME CreateInv, NEW r \in Reqs, NEW x \in Reqs,
                      Answered(r), Answered(x), ask[r].key = Null, mine[r] = mine[x]
               PROVE  r = x
      BY DEF NoKeyNoSharing
  <2>1. sessions[mine[r]].key = Null /\ sessions[mine[r]].token = r
      BY DEF CreateInv, Placed, On, Tokened
  <2>2. ask[x].key = Null
      BY <2>1 DEF CreateInv, Placed, On
  <2>3. sessions[mine[x]].token = x
      BY <2>2 DEF CreateInv, Placed, Tokened
  <2>4. QED
      BY <2>1, <2>3
<1>2. QED
    BY <1>1, CreateAlways, PTL

\* The request that lost the uniqueness race always finds the winner.
THEOREM LostRaceFindsWinner == Spec => []RaceAlwaysResolves
<1>1. TypeInv /\ CreateInv => RaceAlwaysResolves
    BY DEF CreateInv, Settled, RaceAlwaysResolves
<1>2. QED
    BY <1>1, CreateAlways, PTL
-----------------------------------------------------------------------------
(* The replay limiter.  Every additional token of a session was paid for    *)
(* with a permit of its key, and so was that of a request which is past the *)
(* limiter and has not minted yet.  A bucket starts full in every process   *)
(* life and regains a permit per clock unit, up to when it was last used.   *)

Charges(i) ==
    {e \in {i} \X Reqs : e \in extra \/ (mine[e[2]] = i /\ pc[e[2]] \in {"count", "mint"})}

Lives == Capacity * (restarts + clears + 1)

Paid(i) ==
    /\ IsFiniteSet(Charges(i))
    /\ Charges(i) # {} => sessions[i] # Null
    /\ sessions[i] # Null /\ sessions[i].key \in Keys =>
          Cardinality(Charges(i)) + buckets[sessions[i].key].permits
             <= Lives + buckets[sessions[i].key].last
    /\ sessions[i] # Null /\ sessions[i].key \notin Keys => Charges(i) = {}

LimitInv == \A i \in Ids : Paid(i)

LEMMA LivesNat ==
    ASSUME TypeOK
    PROVE  /\ Lives \in Nat /\ Lives >= Capacity
           /\ restarts' + clears' = restarts + clears + 1 => Lives' = Lives + Capacity
<1>1. \A a, b \in Nat : /\ a * (b + 1) \in Nat /\ a * (b + 1) >= a
                        /\ a * ((b + 1) + 1) = a * (b + 1) + a
    OBVIOUS
<1>2. Capacity \in Nat /\ restarts + clears \in Nat
    BY LimitsAssumption DEF TypeOK
<1>3. Lives \in Nat /\ Lives >= Capacity
    BY <1>1, <1>2 DEF Lives
<1>4. ASSUME restarts' + clears' = restarts + clears + 1 PROVE Lives' = Lives + Capacity
    <2>1. Lives' = Capacity * ((restarts + clears + 1) + 1)
        BY <1>4 DEF Lives
    <2>2. QED
        BY <1>1, <1>2, <2>1 DEF Lives
<1>5. QED
    BY <1>3, <1>4

LEMMA BucketNat ==
    ASSUME TypeInv, NEW k \in Keys
    PROVE  /\ buckets[k].permits \in Nat /\ buckets[k].permits <= Capacity
           /\ buckets[k].last \in Nat /\ buckets[k].last <= clock /\ clock \in Nat
  BY LimitsAssumption DEF TypeInv, TypeOK, Bucket

LEMMA LimitInit == Init => LimitInv
<1> SUFFICES ASSUME Init, NEW i \in Ids PROVE Paid(i)
    BY DEF LimitInv
<1>1. Charges(i) = {} /\ sessions[i] = Null
    BY DEF Init, Charges
<1>2. QED
    BY <1>1, FS_EmptySet DEF Paid

\* A step that charges nobody, gives no bucket more than the time that passed
\* and keeps the sessions there are.
LEMMA LimitFrame ==
    ASSUME TypeInv, TypeInv', LimitInv, UNCHANGED <<restarts, clears>>,
           \A i \in Ids : Charges(i)' \subseteq Charges(i),
           \A i \in Ids : sessions[i] # Null => sessions'[i] = sessions[i],
           \A k \in Keys : buckets'[k].permits + buckets[k].last
                              <= buckets[k].permits + buckets'[k].last
    PROVE  LimitInv'
<1> SUFFICES ASSUME NEW i \in Ids PROVE Paid(i)'
    BY DEF LimitInv
<1>1. /\ IsFiniteSet(Charges(i)) /\ IsFiniteSet(Charges(i)')
      /\ Cardinality(Charges(i)') <= Cardinality(Charges(i))
      /\ Cardinality(Charges(i)) \in Nat /\ Cardinality(Charges(i)') \in Nat
    BY FS_Subset, FS_CardinalityType DEF LimitInv, Paid
<1>2. Lives' = Lives /\ Lives \in Nat /\ Lives >= Capacity
    BY LivesNat DEF TypeInv, Lives
<1>3. CASE sessions[i] = Null
    <2>1. Charges(i)' = {} /\ Cardinality(Charges(i)') = 0
        BY <1>3, FS_EmptySet DEF LimitInv, Paid
    <2>2. ASSUME NEW k \in Keys PROVE buckets'[k].permits <= Lives' + buckets'[k].last
        <3>1. /\ buckets'[k].permits \in Nat /\ buckets'[k].permits <= Capacity
              /\ buckets'[k].last \in Nat
            BY LimitsAssumption DEF TypeInv, TypeOK, Bucket
        <3>2. QED
            BY <1>2, <3>1, LimitsAssumption
    <2>3. ASSUME NEW k \in Keys PROVE 0 + buckets'[k].permits <= Lives' + buckets'[k].last
        BY <2>2, LimitsAssumption DEF TypeInv, TypeOK, Bucket
    <2>4. QED
        BY <1>1, <2>1, <2>3 DEF Paid
<1>4. CASE sessions[i] # Null
    <2>1. sessions'[i] = sessions[i]
        BY <1>4
    <2>2. CASE sessions[i].key \in Keys
        <3> DEFINE k == sessions[i].key
        <3> HIDE DEF k
        <3>1. k \in Keys
            BY <2>2 DEF k
        <3>2. /\ buckets[k].permits \in Nat /\ buckets[k].last \in Nat
              /\ buckets'[k].permits \in Nat /\ buckets'[k].last \in Nat
            BY <3>1, LimitsAssumption DEF TypeInv, TypeOK, Bucket
        <3>3. Cardinality(Charges(i)) + buckets[k].permits <= Lives + buckets[k].last
            BY <1>4, <2>2 DEF LimitInv, Paid, k
        <3>4. buckets'[k].permits + buckets[k].last <= buckets[k].permits + buckets'[k].last
            BY <3>1
        <3>5. Cardinality(Charges(i)') + buckets'[k].permits <= Lives' + buckets'[k].last
            BY <1>1, <1>2, <3>2, <3>3, <3>4
        <3>6. QED
            BY <1>1, <1>4, <2>1, <2>2, <3>5 DEF Paid, k
    <2>3. CASE sessions[i].key \notin Keys
        BY <1>1, <1>4, <2>1, <2>3 DEF LimitInv, Paid
    <2>4. QED
        BY <2>2, <2>3
<1>5. QED
    BY <1>3, <1>4

LEMMA OneMore ==
    ASSUME NEW S, NEW x, IsFiniteSet(S)
    PROVE  /\ IsFiniteSet(S \cup {x}) /\ Cardinality(S \cup {x}) \in Nat
           /\ Cardinality(S \cup {x}) <= Cardinality(S) + 1
<1>1. Cardinality(S) \in Nat
    BY FS_CardinalityType
<1>2. IsFiniteSet(S \cup {x})
    BY FS_AddElement
<1>3. Cardinality(S \cup {x}) \in Nat
    BY <1>2, FS_CardinalityType
<1>4. Cardinality(S \cup {x}) = Cardinality(S) \/ Cardinality(S \cup {x}) = Cardinality(S) + 1
    BY FS_AddElement
<1>5. QED
    BY <1>1, <1>2, <1>3, <1>4

\* Admitting r charges the session of its key once, for one permit.
LEMMA AdmitPays ==
    ASSUME TypeInv, TypeInv', CreateInv, LimitInv, NEW r \in Reqs, Admit(r)
    PROVE  LimitInv'
<1>0. PICK s \in Ids, k \in Keys : s = mine[r] /\ k = ask[r].key
    BY DEF Admit, TypeInv
<1>1. /\ sessions[s] # Null /\ sessions[s].key = k
      /\ pc[r] = "admit" /\ pc' = [pc EXCEPT ![r] = "count"]
      /\ UNCHANGED <<restarts, clears, clock, sessions, extra, mine>>
      /\ Refilled(k) >= 1
      /\ buckets' = [buckets EXCEPT ![k] = [permits |-> Refilled(k) - 1, last |-> clock]]
    BY <1>0 DEF Admit, Proceed, Goto, tableVars, CreateInv, Placed, On, TypeInv
<1>2. /\ Refilled(k) \in Nat
      /\ Refilled(k) + buckets[k].last <= buckets[k].permits + clock
    BY <1>1, BucketNat, LimitsAssumption DEF Refilled, Lesser
<1>3. /\ buckets'[k].permits = Refilled(k) - 1 /\ buckets'[k].last = clock
      /\ \A x \in Keys : x # k => buckets'[x] = buckets[x]
    BY <1>1 DEF TypeInv, TypeOK
<1>4. Lives' = Lives /\ Lives \in Nat
    BY <1>1, LivesNat DEF TypeInv, Lives
<1>5. /\ Charges(s)' = Charges(s) \cup {<<s, r>>}
      /\ \A i \in Ids : i # s => Charges(i)' = Charges(i)
    BY <1>0, <1>1 DEF Charges, TypeInv, TypeOK
<1>6. ASSUME NEW i \in Ids, i # s PROVE Paid(i)'
    <2>1. Paid(i) /\ Charges(i)' = Charges(i) /\ sessions'[i] = sessions[i]
        BY <1>1, <1>5, <1>6 DEF LimitInv
    <2>2. CASE sessions[i] # Null /\ sessions[i].key = k
        <3>1. Cardinality(Charges(i)) + buckets[k].permits <= Lives + buckets[k].last
            BY <1>1, <2>1, <2>2 DEF Paid
        <3>2. Cardinality(Charges(i)) \in Nat
            BY <2>1, FS_CardinalityType DEF Paid
        <3>3. Cardinality(Charges(i)) + buckets'[k].permits <= Lives + buckets'[k].last
            BY <1>1, <1>2, <1>3, <1>4, <3>1, <3>2, BucketNat
        <3>4. QED
            BY <1>1, <1>4, <2>1, <2>2, <3>3 DEF Paid
    <2>3. CASE ~(sessions[i] # Null /\ sessions[i].key = k)
        BY <1>3, <1>4, <2>1, <2>3 DEF Paid
    <2>4. QED
        BY <2>2, <2>3
<1>7. Paid(s)'
    <2>1. /\ IsFiniteSet(Charges(s)) /\ Cardinality(Charges(s)) \in Nat
          /\ Cardinality(Charges(s)) + buckets[k].permits <= Lives + buckets[k].last
        BY <1>1, FS_CardinalityType DEF LimitInv, Paid
    <2>2. /\ IsFiniteSet(Charges(s)') /\ Cardinality(Charges(s)') \in Nat
          /\ Cardinality(Charges(s)') <= Cardinality(Charges(s)) + 1
        <3>1. /\ IsFiniteSet(Charges(s) \cup {<<s, r>>})
              /\ Cardinality(Charges(s) \cup {<<s, r>>}) \in Nat
              /\ Cardinality(Charges(s) \cup {<<s, r>>}) <= Cardinality(Charges(s)) + 1
            BY <2>1, OneMore
        <3>2. QED
            BY <1>5, <3>1
    <2>3. Cardinality(Charges(s)') + buckets'[k].permits <= Lives + buckets'[k].last
        BY <1>1, <1>2, <1>3, <1>4, <2>1, <2>2, BucketNat
    <2>4. QED
        BY <1>1, <1>4, <2>2, <2>3 DEF Paid
<1>8. QED
    BY <1>6, <1>7 DEF LimitInv

LEMMA LimitStep == TypeInv /\ TypeInv' /\ CreateInv /\ LimitInv /\ [Next]_vars => LimitInv'
<1> SUFFICES ASSUME TypeInv, TypeInv', CreateInv, LimitInv, [Next]_vars PROVE LimitInv'
    OBVIOUS
<1>1. CASE UNCHANGED vars \/ Tick
    <2>1. UNCHANGED <<restarts, clears, buckets, sessions, extra, pc, mine>>
        BY <1>1 DEF vars, Tick, tableVars, reqVars
    <2>2. \A i \in Ids : Charges(i)' = Charges(i)
        BY <2>1 DEF Charges
    <2>3. \A k \in Keys : buckets[k].permits + buckets[k].last <= buckets[k].permits + buckets[k].last
        BY BucketNat
    <2>4. QED
        BY <2>1, <2>2, <2>3, LimitFrame
<1>2. CASE Restart \/ ClearBuckets
    <2> SUFFICES ASSUME NEW i \in Ids PROVE Paid(i)'
        BY DEF LimitInv
    <2>0. restarts' + clears' = restarts + clears + 1
        <3>1. restarts \in Nat /\ clears \in Nat
            BY LimitsAssumption DEF TypeInv, TypeOK
        <3>2. \/ restarts' = restarts + 1 /\ clears' = clears
              \/ restarts' = restarts /\ clears' = clears + 1
            BY <1>2 DEF Restart, ClearBuckets
        <3>3. QED
            BY <3>1, <3>2
    <2>1. /\ UNCHANGED <<clock, sessions, extra, mine>>
          /\ \A k \in Keys : /\ buckets'[k].permits = Capacity
                             /\ buckets'[k].last = clock
        BY <1>2 DEF Restart, ClearBuckets, FullBuckets, tableVars, reqVars
    <2>2. Charges(i)' \subseteq Charges(i)
        BY <1>2, <2>1 DEF Restart, ClearBuckets, reqVars, InFlight, Charges
    <2>3. /\ IsFiniteSet(Charges(i)') /\ Cardinality(Charges(i)') <= Cardinality(Charges(i))
          /\ Cardinality(Charges(i)) \in Nat /\ Cardinality(Charges(i)') \in Nat
        BY <2>2, FS_Subset, FS_CardinalityType DEF LimitInv, Paid
    <2>4. Lives \in Nat /\ Lives' = Lives + Capacity
        BY <2>0, LivesNat DEF TypeInv
    <2>5. ASSUME NEW k \in Keys,
                 Cardinality(Charges(i)) + buckets[k].permits <= Lives + buckets[k].last
          PROVE  Cardinality(Charges(i)') + buckets'[k].permits <= Lives' + buckets'[k].last
        BY <2>1, <2>3, <2>4, <2>5, BucketNat, LimitsAssumption
    <2>6. QED
        BY <2>1, <2>2, <2>3, <2>5 DEF LimitInv, Paid
<1>3. ASSUME NEW r \in Reqs, Admit(r) PROVE LimitInv'
    BY <1>3, AdmitPays
<1>4. ASSUME NEW r \in Reqs, Throttle(r) PROVE LimitInv'
    <2>1. PICK k \in Keys : k = ask[r].key
        BY <1>4 DEF Throttle, TypeInv
    <2>2. /\ UNCHANGED <<restarts, clears, sessions, extra, mine, clock>>
          /\ pc' = [pc EXCEPT ![r] = "done"]
          /\ buckets' = [buckets EXCEPT ![k] = [permits |-> Refilled(k), last |-> clock]]
        BY <1>4, <2>1 DEF Throttle, Respond, Goto, tableVars
    <2>3. \A i \in Ids : Charges(i)' \subseteq Charges(i)
        BY <2>2 DEF Charges, TypeInv, TypeOK
    <2>4. Refilled(k) + buckets[k].last <= buckets[k].permits + clock
        BY BucketNat, LimitsAssumption DEF Refilled, Lesser
    <2>5. \A x \in Keys : buckets'[x].permits + buckets[x].last
                             <= buckets[x].permits + buckets'[x].last
        BY <2>2, <2>4, BucketNat DEF TypeInv, TypeOK
    <2>6. QED
        BY <2>2, <2>3, <2>5, LimitFrame
<1>5. ASSUME NEW r \in Reqs, Arrive(r) \/ Step(r) \/ Fail(r), ~Admit(r), ~Throttle(r)
      PROVE  LimitInv'
    <2> USE DEF Goto, Respond, Proceed, NoWrite, tableVars
    <2>1. UNCHANGED <<restarts, clears, buckets>>
        BY <1>5 DEF Arrive, Step, Fail, FindNothing, FindMismatch, FindMatch, RejectStale,
           Exhausted, Count, Mint, ReadBack, Build, InsertSession, InsertLosesRace,
           InsertCollides, InsertCommit
    <2>2. \A i \in Ids : sessions[i] # Null => sessions'[i] = sessions[i]
        BY <1>5 DEF Arrive, Step, Fail, FindNothing, FindMismatch, FindMatch, RejectStale,
           Exhausted, Count, Mint, ReadBack, Build, InsertSession, InsertLosesRace,
           InsertCollides, InsertCommit, CreateInv, Reserved, TypeInv, TypeOK
    <2>3. \A i \in Ids : Charges(i)' \subseteq Charges(i)
        <3>1. \A x \in Reqs : x # r => pc'[x] = pc[x] /\ mine'[x] = mine[x]
            BY <1>5, OthersStay
        <3>2. /\ \/ extra' = extra
                 \/ extra' = extra \cup {<<mine[r], r>>} /\ pc[r] = "mint"
              /\ pc'[r] \in {"count", "mint"} => pc[r] = "count" /\ mine'[r] = mine[r]
            BY <1>5 DEF Arrive, Step, Fail, FindNothing, FindMismatch, FindMatch,
               RejectStale, Exhausted, Count, Mint, ReadBack, Build, InsertSession,
               InsertLosesRace, InsertCollides, InsertCommit, TypeInv, TypeOK
        <3>3. QED
            BY <3>1, <3>2 DEF Charges
    <2>4. \A k \in Keys : buckets'[k].permits + buckets[k].last
                             <= buckets[k].permits + buckets'[k].last
        BY <2>1, BucketNat
    <2>5. QED
        BY <2>1, <2>2, <2>3, <2>4, LimitFrame
<1>6. QED
    BY <1>1, <1>2, <1>3, <1>4, <1>5 DEF Next

LEMMA PaidTokens ==
    ASSUME TypeInv, LimitInv, NEW i \in Ids
    PROVE  Cardinality(ExtraOf(i)) <= Capacity * (restarts + clears + 1) + clock
<1>1. ExtraOf(i) \in SUBSET Charges(i)
    BY DEF ExtraOf, Charges, TypeInv, TypeOK
<1>2. /\ Cardinality(ExtraOf(i)) \in Nat /\ Cardinality(Charges(i)) \in Nat
      /\ Cardinality(ExtraOf(i)) <= Cardinality(Charges(i))
    BY <1>1, FS_Subset, FS_CardinalityType DEF LimitInv, Paid
<1>3. Cardinality(Charges(i)) <= Lives + clock
    <2>1. Lives \in Nat /\ clock \in Nat
        BY LivesNat, LimitsAssumption DEF TypeInv, TypeOK
    <2>2. CASE Charges(i) = {}
        BY <2>1, <2>2, FS_EmptySet
    <2>3. CASE Charges(i) # {}
        BY <1>2, <2>1, <2>3, BucketNat DEF LimitInv, Paid
    <2>4. QED
        BY <2>2, <2>3
<1>4. QED
    BY <1>2, <1>3, LivesNat, LimitsAssumption DEF Lives, TypeInv, TypeOK

\* The additional tokens of a session never exceed a full bucket per process
\* life and per clearing of the limiter's buckets, and one per refill, however
\* many replays pass the count at once.
THEOREM LimiterBoundsReplays == Spec => []LimiterBoundsTokens
<1>1. TypeInv /\ CreateInv /\ LimitInv => LimiterBoundsTokens
    BY PaidTokens DEF LimiterBoundsTokens
<1>2. TypeInv /\ CreateInv /\ TypeInv' /\ LimitInv /\ [Next]_vars => LimitInv'
    BY LimitStep
<1>3. QED
    BY <1>1, <1>2, LimitInit, CreateAlways, PTL DEF Spec

-----------------------------------------------------------------------------
(* The refinement of SessionRegistry.  Beyond CreateInv it needs that a     *)
(* request on its way to a token has none yet: the abstract registry gives  *)
(* a client one token in its life.                                          *)

Arriving == {"idle", "find", "admit", "count", "mint", "build", "insert", "insertCommit"}

EmptyHanded(r) ==
    pc[r] \in Arriving =>
        \A i \in Ids : <<i, r>> \notin extra /\ (sessions[i] # Null => sessions[i].token # r)

HandsInv ==
    /\ \A e \in extra : sessions[e[1]] # Null
    /\ \A r \in Reqs : EmptyHanded(r)

LEMMA HandsInit == Init => HandsInv
  BY DEF Init, HandsInv, EmptyHanded

\* What changes in the tables is one session's birth or one additional token,
\* and the request that made it goes on to answer.
LEMMA TablesStep ==
    ASSUME TypeInv, CreateInv, NEW r \in Reqs, Arrive(r) \/ Step(r) \/ Fail(r),
           ~Mint(r), ~InsertCommit(r)
    PROVE  UNCHANGED tableVars
  BY DEF Arrive, Step, Fail, FindNothing, FindMismatch, FindMatch, RejectStale, Throttle,
     Admit, Exhausted, Count, ReadBack, Build, InsertSession, InsertLosesRace,
     InsertCollides, Respond, Proceed, NoWrite, tableVars

LEMMA MintStep ==
    ASSUME TypeInv, CreateInv, NEW r \in Reqs, Mint(r)
    PROVE  /\ mine[r] \in Ids /\ sessions[mine[r]] # Null
           /\ sessions[mine[r]].key = ask[r].key /\ sessions[mine[r]].body = ask[r].body
           /\ ask[r].key \in Keys /\ ask[r] \in Asked
           /\ pc[r] = "mint" /\ pc'[r] = "readBack"
           /\ UNCHANGED <<sessions, ask, mine, reply>>
           /\ extra' = extra \cup {<<mine[r], r>>}
  BY DEF Mint, Proceed, Goto, TypeInv, TypeOK, CreateInv, Placed, On

LEMMA InsertedStep ==
    ASSUME TypeInv, CreateInv, NEW r \in Reqs, InsertCommit(r)
    PROVE  /\ mine[r] \in Ids /\ sessions[mine[r]] = Null /\ ~KeyTaken(r)
           /\ ask[r] \in Asked
           /\ pc[r] = "insertCommit" /\ pc'[r] = "readBack"
           /\ UNCHANGED <<extra, ask, mine, reply>>
           /\ sessions'[mine[r]] # Null /\ sessions'[mine[r]].key = ask[r].key
           /\ sessions'[mine[r]].body = ask[r].body /\ sessions'[mine[r]].token = r
           /\ \A i \in Ids : i # mine[r] => sessions'[i] = sessions[i]
<1> DEFINE row == [key |-> ask[r].key, body |-> ask[r].body, created |-> born[r],
                   token |-> r]
<1>1. /\ UNCHANGED <<extra, ask, mine, reply>> /\ pc[r] = "insertCommit"
      /\ pc'[r] = "readBack" /\ sessions' = [sessions EXCEPT ![mine[r]] = row]
      /\ mine[r] \in Ids /\ sessions[mine[r]] = Null /\ ~KeyTaken(r)
    BY DEF InsertCommit, Proceed, Goto, TypeInv, TypeOK, CreateInv, Reserved
<1>2. ask[r] \in Asked
    BY <1>1 DEF TypeInv
<1>3. row # Null
    BY <1>2, CreateNullAssumption DEF TypeInv, TypeOK, Asked, Row
<1>4. QED
    BY <1>1, <1>2, <1>3 DEF TypeInv, TypeOK

LEMMA HandsStep == TypeInv /\ CreateInv /\ HandsInv /\ [Next]_vars => HandsInv'
<1> SUFFICES ASSUME TypeInv, CreateInv, HandsInv, [Next]_vars PROVE HandsInv'
    OBVIOUS
<1> USE DEF HandsInv, EmptyHanded, Arriving
<1>1. CASE UNCHANGED vars \/ Tick \/ ClearBuckets
    BY <1>1 DEF vars, Tick, ClearBuckets, tableVars, reqVars
<1>2. CASE Restart
    BY <1>2 DEF Restart, tableVars, InFlight
<1>3. ASSUME NEW r \in Reqs, Mint(r) PROVE HandsInv'
    BY <1>3, MintStep, OthersStay DEF Step
<1>4. ASSUME NEW r \in Reqs, InsertCommit(r) PROVE HandsInv'
    <2>1. \A x \in Reqs : x # r => pc'[x] = pc[x]
        BY <1>4, OthersStay DEF Step
    <2>2. /\ extra' = extra /\ sessions'[mine[r]] # Null
          /\ sessions'[mine[r]].token = r
          /\ \A i \in Ids : i # mine[r] => sessions'[i] = sessions[i]
          /\ mine[r] \in Ids /\ pc'[r] = "readBack"
        BY <1>4, InsertedStep
    <2>3. \A e \in extra : sessions'[e[1]] # Null
        BY <2>2 DEF TypeInv, TypeOK
    <2>4. ASSUME NEW x \in Reqs PROVE EmptyHanded(x)'
        BY <2>1, <2>2
    <2>5. QED
        BY <2>2, <2>3, <2>4
<1>5. ASSUME NEW r \in Reqs, Arrive(r) \/ Step(r) \/ Fail(r), ~Mint(r), ~InsertCommit(r)
      PROVE  HandsInv'
    <2>1. pc'[r] \in Arriving => pc[r] \in Arriving
        BY <1>5 DEF Arrive, Step, Fail, FindNothing, FindMismatch, FindMatch,
           RejectStale, Throttle, Admit, Exhausted, Count, ReadBack, Build,
           InsertSession, InsertLosesRace, InsertCollides, InFlight, Respond, Proceed,
           Goto, TypeInv, TypeOK
    <2>2. UNCHANGED tableVars
        BY <1>5, TablesStep
    <2>3. \A x \in Reqs : pc'[x] \in Arriving => pc[x] \in Arriving
        BY <1>5, <2>1, OthersStay
    <2>4. QED
        BY <2>2, <2>3 DEF tableVars
<1>6. QED
    BY <1>1, <1>2, <1>3, <1>4, <1>5 DEF Next

\* What the registry shows of the tables and the requests.
LEMMA RegistryInit == Init => Registry!Init
  BY DEF Init, Registry!Init, Asking, Demanded, Opening, ToldOf, Answered

LEMMA RegistryStutter ==
    ASSUME UNCHANGED <<sessions, extra, ask>>, Asking' = Asking, ToldOf' = ToldOf
    PROVE  UNCHANGED Registry!vars
  BY DEF Registry!vars, Demanded, Opening, Authenticates

\* An answer that is no answer tells nobody anything.
LEMMA Untold ==
    ASSUME TypeInv, CreateInv, NEW r \in Reqs, Arrive(r) \/ Step(r) \/ Fail(r),
           ~ReadBack(r)
    PROVE  ToldOf' = ToldOf
<1>1. pc[r] # "done" /\ ~Answered(r)
    <2>1. pc[r] # "done"
        BY DEF Arrive, Step, Fail, FindNothing, FindMismatch, FindMatch, RejectStale,
           Throttle, Admit, Exhausted, Count, Mint, Build, InsertSession,
           InsertLosesRace, InsertCollides, InsertCommit, InFlight
    <2>2. QED
        BY <2>1 DEF CreateInv, Settled, Answered
<1>2. reply' = reply \/ reply'[r] \notin {"created", "lost"}
    BY DEF Arrive, Step, Fail, FindNothing, FindMismatch, FindMatch, RejectStale,
       Throttle, Admit, Exhausted, Count, Mint, Build, InsertSession, InsertLosesRace,
       InsertCollides, InsertCommit, Respond, Proceed, TypeInv, TypeOK
<1>3. \A x \in Reqs : x # r => reply'[x] = reply[x] /\ mine'[x] = mine[x]
    BY OthersStay
<1>4. \A x \in Reqs : Answered(x)' = Answered(x) /\ (Answered(x) => mine'[x] = mine[x])
    BY <1>1, <1>2, <1>3 DEF Answered
<1>5. QED
    BY <1>4 DEF ToldOf

LEMMA RegistryStep ==
    TypeInv /\ CreateInv /\ HandsInv /\ [Next]_vars => [Registry!Next]_(Registry!vars)
<1> SUFFICES ASSUME TypeInv, CreateInv, HandsInv, [Next]_vars
             PROVE  [Registry!Next]_(Registry!vars)
    OBVIOUS
<1> USE CreateNullAssumption
<1>1. CASE UNCHANGED vars \/ Tick \/ ClearBuckets
    BY <1>1, RegistryStutter
       DEF vars, Tick, ClearBuckets, tableVars, reqVars, Asking, ToldOf, Answered
<1>2. CASE Restart
    <2>1. Asking' = Asking
        BY <1>2 DEF Restart, InFlight, Asking
    <2>2. ToldOf' = ToldOf
        <3>1. \A r \in Reqs : InFlight(r) => ~Answered(r)
            BY DEF CreateInv, Settled, Answered, InFlight
        <3>2. \A r \in Reqs : Answered(r)' = Answered(r)
            BY <1>2, <3>1 DEF Restart, Answered
        <3>3. QED
            BY <1>2, <3>2 DEF Restart, ToldOf
    <2>3. QED
        BY <1>2, <2>1, <2>2, RegistryStutter DEF Restart, tableVars
<1>3. ASSUME NEW r \in Reqs, Arrive(r) PROVE Registry!Ask(r)
    <2>1. Asking[r] = Null /\ ask'[r] \in Asked
        BY <1>3 DEF Arrive, Asking, Asked, TypeInv, TypeOK
    <2>2. Asking' = [Asking EXCEPT ![r] = ask'[r]]
        <3>1. pc[r] = "idle" /\ pc'[r] # "idle"
            BY <1>3 DEF Arrive, Goto, TypeInv, TypeOK
        <3>2. \A x \in Reqs : x # r => pc'[x] = pc[x] /\ ask'[x] = ask[x]
            BY <1>3, OthersStay
        <3>3. QED
            BY <3>1, <3>2 DEF Asking
    <2>3. ToldOf' = ToldOf
        BY <1>3, Untold DEF Arrive, ReadBack
    <2>4. UNCHANGED <<sessions, extra>>
        BY <1>3 DEF Arrive, NoWrite, tableVars
    <2>5. Demanded' = Demanded /\ Opening' = Opening
        BY <2>4 DEF Demanded, Opening, Authenticates
    <2>6. Registry!Asked = Asked
        BY DEF Asked, Registry!Asked
    <2>7. QED
        BY <2>1, <2>2, <2>3, <2>5, <2>6 DEF Registry!Ask
<1>4. ASSUME NEW r \in Reqs, Step(r) \/ Fail(r) PROVE Asking' = Asking
    <2>1. ask' = ask /\ pc[r] # "idle" /\ pc'[r] # "idle"
        BY <1>4 DEF Step, Fail, FindNothing, FindMismatch, FindMatch, RejectStale,
           Throttle, Admit, Exhausted, Count, Mint, ReadBack, Build, InsertSession,
           InsertLosesRace, InsertCollides, InsertCommit, InFlight, Respond, Proceed,
           Goto, TypeInv, TypeOK
    <2>2. QED
        BY <1>4, <2>1, OthersStay DEF Asking
<1>5. ASSUME NEW r \in Reqs, Mint(r) PROVE Registry!Admit(r, mine[r])
    <2>1. Asking' = Asking /\ ToldOf' = ToldOf
        BY <1>4, <1>5, Untold DEF Step, Mint, ReadBack
    <2>2. Demanded' = Demanded
        BY <1>5, MintStep DEF Demanded
    <2>3. Opening' = Opening \cup {<<mine[r], r>>}
        BY <1>5, MintStep DEF Opening, Authenticates
    <2>4. Asking[r] = ask[r] /\ ask[r] # Null /\ ask[r].key # Null
        BY <1>5, MintStep DEF Asking
    <2>5. Demanded[mine[r]] = ask[r]
        BY <1>5, MintStep DEF Demanded, Asked
    <2>6. \A i \in Ids : <<i, r>> \notin Opening
        BY <1>5, MintStep DEF HandsInv, EmptyHanded, Arriving, Opening, Authenticates
    <2>7. QED
        BY <2>1, <2>2, <2>3, <2>4, <2>5, <2>6 DEF Registry!Admit, Registry!Empty
<1>6. ASSUME NEW r \in Reqs, InsertCommit(r) PROVE Registry!Create(r, mine[r])
    <2>1. Asking' = Asking /\ ToldOf' = ToldOf
        BY <1>4, <1>6, Untold DEF Step, InsertCommit, ReadBack
    <2>2. Demanded[mine[r]] = Null
        BY <1>6, InsertedStep DEF Demanded
    <2>3. Demanded' = [Demanded EXCEPT ![mine[r]] = ask[r]]
        <3>1. ask[r] = [key |-> ask[r].key, body |-> ask[r].body]
            BY <1>6, InsertedStep DEF Asked
        <3>2. Demanded'[mine[r]] = ask[r]
            BY <1>6, <3>1, InsertedStep DEF Demanded
        <3>3. \A i \in Ids : i # mine[r] => Demanded'[i] = Demanded[i]
            BY <1>6, InsertedStep DEF Demanded
        <3>4. QED
            BY <3>2, <3>3 DEF Demanded
    <2>4. Opening' = Opening \cup {<<mine[r], r>>}
        <3>1. \A x \in Reqs : <<mine[r], x>> \notin extra
            BY <1>6, InsertedStep DEF HandsInv
        <3>2. QED
            BY <1>6, <3>1, InsertedStep DEF Opening, Authenticates
    <2>5. Asking[r] = ask[r] /\ ask[r] # Null
        BY <1>6, InsertedStep DEF Asking
    <2>6. \A i \in Ids : <<i, r>> \notin Opening
        BY <1>6, InsertedStep DEF HandsInv, EmptyHanded, Arriving, Opening, Authenticates
    <2>7. ask[r].key # Null =>
             \A j \in Ids : Demanded[j] # Null => Demanded[j].key # ask[r].key
        BY <1>6, InsertedStep DEF KeyTaken, Holds, Demanded
    <2>8. QED
        BY <2>1, <2>2, <2>3, <2>4, <2>5, <2>6, <2>7
           DEF Registry!Create, Registry!Empty
<1>7. ASSUME NEW r \in Reqs, ReadBack(r)
      PROVE  Registry!Answer(r, mine[r]) \/ UNCHANGED Registry!vars
    <2>1. /\ UNCHANGED <<sessions, extra, ask, mine>> /\ Asking' = Asking
          /\ pc[r] = "readBack" /\ mine[r] \in Ids
          /\ reply'[r] \in {"internal", "created", "lost"}
        BY <1>4, <1>7 DEF Step, ReadBack, Respond, NoWrite, tableVars, TypeInv, TypeOK
    <2>2. ~Answered(r) /\ <<mine[r], r>> \in Opening
        BY <2>1 DEF CreateInv, Settled, Placed, On, Tokened, Answered, Opening
    <2>3. \A x \in Reqs : x # r => Answered(x)' = Answered(x)
        BY <1>7, OthersStay DEF Step, Answered
    <2>4. Demanded' = Demanded /\ Opening' = Opening
        BY <2>1 DEF Demanded, Opening, Authenticates
    <2>5. CASE Answered(r)'
        <3>1. ToldOf' = [ToldOf EXCEPT ![r] = mine[r]] /\ ToldOf[r] = Null
            BY <2>1, <2>2, <2>3, <2>5 DEF ToldOf
        <3>2. QED
            BY <2>1, <2>2, <2>4, <3>1 DEF Registry!Answer
    <2>6. CASE ~Answered(r)'
        <3>1. ToldOf' = ToldOf
            BY <2>1, <2>2, <2>3, <2>6 DEF ToldOf
        <3>2. QED
            BY <2>1, <3>1, RegistryStutter
    <2>7. QED
        BY <2>5, <2>6
<1>8. ASSUME NEW r \in Reqs, Step(r) \/ Fail(r),
             ~Mint(r), ~InsertCommit(r), ~ReadBack(r)
      PROVE  UNCHANGED Registry!vars
    <2>1. UNCHANGED tableVars /\ ToldOf' = ToldOf /\ Asking' = Asking
        BY <1>4, <1>8, TablesStep, Untold
    <2>2. ask' = ask
        BY <1>8 DEF Step, Fail, FindNothing, FindMismatch, FindMatch, RejectStale,
           Throttle, Admit, Exhausted, Count, Build, InsertSession, InsertLosesRace,
           InsertCollides, Respond, Proceed
    <2>3. QED
        BY <2>1, <2>2, RegistryStutter DEF tableVars
<1>9. ASSUME NEW r \in Reqs, Mint(r) \/ InsertCommit(r) PROVE mine[r] \in Ids
    BY <1>9, MintStep, InsertedStep
<1>10. ASSUME NEW r \in Reqs, ReadBack(r) PROVE mine[r] \in Ids
    BY <1>10 DEF ReadBack, TypeInv
<1>11. QED
    <2>1. ASSUME NEW r \in Reqs, Arrive(r) \/ Step(r) \/ Fail(r)
          PROVE  Registry!Next \/ UNCHANGED Registry!vars
        BY <2>1, <1>3, <1>5, <1>6, <1>7, <1>8, <1>9, <1>10 DEF Registry!Next
    <2>2. QED
        BY <1>1, <1>2, <2>1 DEF Next

\* Concurrent, retried, throttled and interrupted creations implement the
\* registry of sessions: a key has one session, for one body, and whoever is told
\* of a session holds a token of its own that opens it, for good.
THEOREM CreationsImplementRegistry == Spec => ImplementsRegistry
<1>1. Init => HandsInv /\ Registry!Init
    BY HandsInit, RegistryInit
<1>2. TypeInv /\ CreateInv /\ HandsInv /\ [Next]_vars
         => HandsInv' /\ [Registry!Next]_(Registry!vars)
    BY HandsStep, RegistryStep
<1>3. QED
    BY <1>1, <1>2, CreateAlways, PTL DEF Spec, ImplementsRegistry, Registry!Spec

-----------------------------------------------------------------------------
(* Every request runs out of statements: a bound on those it has left.      *)
(* Identities are redrawn MaxAttempts times at most, and only a request     *)
(* that has not lost the race yet goes back from a lookup to a build.       *)

LeftAt(place, lost, tries) ==
    CASE place = "done"     -> 0
      [] place = "readBack" -> 1
      [] place \in {"mint", "insertCommit"} -> 2
      [] place = "count"    -> 3
      [] place = "admit"    -> 4
      [] place = "find" /\ lost  -> 5
      [] place = "insert"   -> 6 + (MaxAttempts - tries)
      [] place = "build"    -> 6 + MaxAttempts
      [] place = "find" /\ ~lost -> 7 + MaxAttempts
      [] place = "idle"     -> 8 + MaxAttempts

Left(r) == LeftAt(pc[r], raced[r], attempt[r])

\* No step sends a request back, and its own bring it nearer to its answer.
Nearer ==
    \A r \in Reqs : /\ Left(r)' <= Left(r)
                    /\ Arrive(r) \/ Step(r) \/ Fail(r) => Left(r)' < Left(r)

LEMMA LeftNat ==
    ASSUME NEW place \in PCs, NEW lost \in BOOLEAN, NEW tries \in 1 .. MaxAttempts
    PROVE  /\ LeftAt(place, lost, tries) \in 0 .. MaxAttempts + 8
           /\ place # "done" => LeftAt(place, lost, tries) > 0
<1>1. MaxAttempts \in Nat /\ tries \in 1 .. MaxAttempts
    BY LimitsAssumption
<1>2. CASE place = "done"
    BY <1>1, <1>2 DEF LeftAt
<1>3. CASE place = "readBack"
    BY <1>1, <1>3 DEF LeftAt
<1>4. CASE place \in {"mint", "insertCommit"}
    BY <1>1, <1>4 DEF LeftAt
<1>5. CASE place = "count"
    BY <1>1, <1>5 DEF LeftAt
<1>6. CASE place = "admit"
    BY <1>1, <1>6 DEF LeftAt
<1>7. CASE place = "find"
    BY <1>1, <1>7 DEF LeftAt
<1>8. CASE place = "insert"
    BY <1>1, <1>8 DEF LeftAt
<1>9. CASE place = "build"
    BY <1>1, <1>9 DEF LeftAt
<1>10. CASE place = "idle"
    BY <1>1, <1>10 DEF LeftAt
<1>11. QED
    BY <1>2, <1>3, <1>4, <1>5, <1>6, <1>7, <1>8, <1>9, <1>10 DEF PCs

LEMMA OwnStepNearer ==
    ASSUME TypeInv, TypeInv', NEW r \in Reqs, Arrive(r) \/ Step(r) \/ Fail(r)
    PROVE  Left(r)' < Left(r)
<1> USE LimitsAssumption DEF Goto
<1>1. /\ pc \in [Reqs -> PCs] /\ attempt[r] \in 1 .. MaxAttempts
      /\ attempt'[r] \in 1 .. MaxAttempts
      /\ attempt \in [Reqs -> 1 .. MaxAttempts] /\ raced \in [Reqs -> BOOLEAN]
    BY DEF TypeInv, TypeOK
<1>2. Left(r) \in Nat /\ (pc[r] # "done" => Left(r) > 0)
    BY LeftNat DEF TypeInv, TypeOK, Left
<1>3. ASSUME pc'[r] = "done", pc[r] # "done" PROVE Left(r)' < Left(r)
    BY <1>2, <1>3 DEF Left, LeftAt
<1>4. CASE FindMismatch(r) \/ RejectStale(r) \/ Throttle(r) \/ Exhausted(r) \/ ReadBack(r)
           \/ Fail(r)
    BY <1>1, <1>3, <1>4 DEF FindMismatch, RejectStale, Throttle, Exhausted, ReadBack, Fail,
       InFlight, Respond
<1>5. CASE Arrive(r)
    BY <1>1, <1>5 DEF Arrive, Left, LeftAt
<1>6. CASE FindNothing(r)
    BY <1>1, <1>3, <1>6 DEF FindNothing, Respond, Proceed, Left, LeftAt
<1>7. CASE FindMatch(r) \/ Admit(r) \/ Count(r) \/ Mint(r) \/ InsertSession(r)
           \/ InsertCommit(r)
    <2>1. \/ pc[r] = "find" /\ pc'[r] = "admit"
          \/ pc[r] = "admit" /\ pc'[r] = "count"
          \/ pc[r] = "count" /\ pc'[r] = "mint"
          \/ pc[r] \in {"mint", "insertCommit"} /\ pc'[r] = "readBack"
          \/ pc[r] = "insert" /\ pc'[r] = "insertCommit"
        BY <1>1, <1>7 DEF FindMatch, Admit, Count, Mint, InsertSession, InsertCommit, Proceed
    <2>2. raced[r] \in BOOLEAN
        BY <1>1
    <2>3. QED
        BY <1>1, <2>1, <2>2 DEF Left, LeftAt
<1>8. CASE Build(r)
    BY <1>1, <1>8 DEF Build, Left, LeftAt
<1>9. CASE InsertLosesRace(r)
    BY <1>1, <1>9 DEF InsertLosesRace, Left, LeftAt
<1>10. CASE InsertCollides(r)
    <2>1. CASE attempt[r] = MaxAttempts
        BY <1>1, <1>3, <1>10, <2>1 DEF InsertCollides, Respond
    <2>2. CASE attempt[r] # MaxAttempts
        BY <1>1, <1>10, <2>2 DEF InsertCollides, Left, LeftAt
    <2>3. QED
        BY <2>1, <2>2
<1>11. QED
    BY <1>4, <1>5, <1>6, <1>7, <1>8, <1>9, <1>10 DEF Step

LEMMA OthersKeepAttempt ==
    ASSUME TypeInv, NEW r \in Reqs, Arrive(r) \/ Step(r) \/ Fail(r)
    PROVE  \A x \in Reqs : x # r => attempt'[x] = attempt[x]
  BY DEF Arrive, Step, Fail, FindNothing, FindMismatch, FindMatch, RejectStale, Throttle,
     Admit, Exhausted, Count, Mint, ReadBack, Build, InsertSession, InsertLosesRace,
     InsertCollides, InsertCommit, Respond, Proceed, TypeInv, TypeOK

\* However the requests race, collide, lose and are interrupted, each one is
\* always nearer to its answer after a step of its own, and never further away:
\* the identity loop and the way back from a lost race cannot go round forever.
THEOREM RequestsRunOut == Spec => [][Nearer]_vars
<1>1. TypeInv /\ TypeInv' /\ [Next]_vars => [Nearer]_vars
    <2> SUFFICES ASSUME TypeInv, TypeInv', Next, NEW x \in Reqs
                 PROVE  /\ Left(x)' <= Left(x)
                        /\ Arrive(x) \/ Step(x) \/ Fail(x) => Left(x)' < Left(x)
        BY DEF Nearer
    <2>1. /\ Left(x) \in Nat /\ Left(x)' \in Nat
          /\ pc[x] # "done" => Left(x) > 0
        <3>1. /\ pc[x] \in PCs /\ raced[x] \in BOOLEAN /\ attempt[x] \in 1 .. MaxAttempts
              /\ pc'[x] \in PCs /\ raced'[x] \in BOOLEAN /\ attempt'[x] \in 1 .. MaxAttempts
              /\ MaxAttempts \in Nat
            BY LimitsAssumption DEF TypeInv, TypeOK
        <3>2. QED
            BY <3>1, LeftNat DEF Left
    <2>2. Arrive(x) \/ Step(x) \/ Fail(x) => Left(x)' < Left(x)
        BY OwnStepNearer
    <2>3. CASE Tick \/ ClearBuckets
        <3>1. Left(x)' = Left(x)
            BY <2>3 DEF Tick, ClearBuckets, reqVars, Left
        <3>2. QED
            BY <2>1, <2>2, <3>1
    <2>4. CASE Restart
        <3>1. Left(x)' <= Left(x)
            <4>1. CASE InFlight(x)
                <5>1. pc'[x] = "done"
                    BY <2>4, <4>1 DEF Restart
                <5>2. Left(x)' = 0
                    BY <5>1 DEF Left, LeftAt
                <5>3. QED
                    BY <2>1, <5>2
            <4>2. CASE ~InFlight(x)
                <5>1. Left(x)' = Left(x)
                    BY <2>4, <4>2 DEF Restart, Left
                <5>2. QED
                    BY <2>1, <5>1
            <4>3. QED
                BY <4>1, <4>2
        <3>2. QED
            BY <2>2, <3>1
    <2>5. ASSUME NEW r \in Reqs, Arrive(r) \/ Step(r) \/ Fail(r)
          PROVE  Left(x)' <= Left(x)
        <3>1. CASE x = r
            BY <2>1, <2>2, <2>5, <3>1
        <3>2. CASE x # r
            <4>1. pc'[x] = pc[x] /\ raced'[x] = raced[x] /\ attempt'[x] = attempt[x]
                BY <2>5, <3>2, OthersStay, OthersKeepAttempt
            <4>2. QED
                BY <2>1, <4>1 DEF Left
        <3>3. QED
            BY <3>1, <3>2
    <2>6. QED
        BY <2>2, <2>3, <2>4, <2>5 DEF Next
<1>2. QED
    BY <1>1, CreateAlways, PTL DEF Spec

=============================================================================
