------------------------ MODULE QuestionTimingProofs ------------------------
(***************************************************************************)
(* Theorems about QuestionTiming: its types and its three properties, for  *)
(* any number of questions, start requests and restarts and any duration.  *)
(***************************************************************************)
EXTENDS QuestionTiming, SequenceTheorems, TLAPS

Ids == 1 .. Len(starts)

\* The requests and their cache.  A request of this run that has not failed is
\* the cached one, unless one of an earlier run was answered in between.
Cached ==
    /\ \A q \in Questions : cache[q] # 0 => starts[cache[q]].q = q
    /\ \A id \in Ids : starts[id].run <= run
    /\ ~crossed => \A id \in Ids :
           starts[id].run = run /\ starts[id].state # "failed"
               => cache[starts[id].q] = id

\* A deadline is the one its question's cached receipt brought.
Kept ==
    ~crossed => \A q \in Questions :
        deadline[q] # 0 =>
            Ready(cache[q]) /\ starts[cache[q]].deadline = deadline[q]

\* A running timer t counts for a question not yet answered right, to the
\* deadline d has for it.
Ticks(t, d) ==
    t.running =>
        /\ t.for \in Questions /\ t.for \notin correct /\ t.until > 0
        /\ ~crossed => t.until = d[t.for]

TimingInv == TypeOK /\ Cached /\ Kept /\ Ticks(timer, deadline)

-----------------------------------------------------------------------------
(* The timer.                                                              *)

LEMMA FrozenTimer ==
    ASSUME NEW t \in Timer, NEW q \in Questions
    PROVE  Frozen(t, q) \in Timer /\ ~Frozen(t, q).running
<1>1. q \in 0 .. N
    BY QuestionTimingAssumption DEF Questions
<1>2. t.stopped \cup {q} \in SUBSET Questions
    BY DEF Timer
<1>3. QED
    BY <1>1, <1>2 DEF Frozen, Timer

\* A restart leaves the timer be, or stops it, or runs it for q up to due.
\* It leaves alone a timer that runs for q.
LEMMA RestartedTimer ==
    ASSUME NEW t \in Timer, NEW q \in Questions, NEW due \in Nat,
           now \in Nat, shown \in Questions
    PROVE  /\ Restarted(t, q, due) \in Timer
           /\ Restarted(t, q, due).running =>
                \/ Restarted(t, q, due) = t
                \/ /\ Restarted(t, q, due).for = q /\ q \notin correct
                   /\ Restarted(t, q, due).until = due /\ due > 0
<1> DEFINE fresh == [t EXCEPT !.for = q, !.running = FALSE, !.expired = FALSE,
                              !.expiredFor = 0, !.stopped = @ \ {q}]
           r == Restarted(t, q, due)
<1>1. fresh \in Timer /\ ~fresh.running /\ fresh.for = q
  <2>1. q \in 0 .. N /\ 0 \in 0 .. N
      BY QuestionTimingAssumption DEF Questions
  <2>2. t.stopped \ {q} \in SUBSET Questions
      BY DEF Timer
  <2>3. QED
      BY <2>1, <2>2 DEF Timer
<1>2. /\ RunUntil(fresh, due) \in Timer
      /\ RunUntil(fresh, due).running =>
             /\ RunUntil(fresh, due).for = q
             /\ RunUntil(fresh, due).until = due /\ due > 0
  <2>1. shown \in 0 .. N
      BY QuestionTimingAssumption DEF Questions
  <2> HIDE DEF fresh
  <2>2. CASE due <= now
      BY <1>1, <2>1, <2>2 DEF RunUntil, Timer
  <2>3. CASE ~(due <= now)
    <3>1. RunUntil(fresh, due) = [fresh EXCEPT !.running = TRUE, !.until = due]
        BY <2>3 DEF RunUntil
    <3>2. due > 0
        BY <2>3
    <3>3. QED
        BY <1>1, <3>1, <3>2 DEF Timer
  <2>4. QED
      BY <2>2, <2>3
<1>3. \/ r = t
      \/ r = Frozen(t, q)
      \/ q \notin correct /\ r \in {fresh, RunUntil(fresh, due)}
    BY Zenon DEF Restarted
<1> HIDE DEF fresh, r
<1>4. r \in Timer /\ (r.running =>
          \/ r = t
          \/ r.for = q /\ q \notin correct /\ r.until = due /\ due > 0)
    BY <1>1, <1>2, <1>3, FrozenTimer
<1>5. QED
    BY <1>4 DEF r

\* An activation whose deadline is the one already kept, if any is.
LEMMA AuthorizedTimer ==
    ASSUME TypeOK, NEW t \in Timer, Ticks(t, deadline),
           NEW q \in Questions, NEW due \in Nat, Authorize(q, due, t),
           ~crossed => deadline[q] \in {0, due}
    PROVE  timer' \in Timer /\ Ticks(timer', deadline')
<1>1. deadline' = [deadline EXCEPT ![q] = due] /\ deadline \in [Questions -> Nat]
    BY DEF Authorize, TypeOK
<1>2. \/ timer' = Frozen(t, q)
      \/ timer' = Restarted(t, q, due)
    BY DEF Authorize
<1>3. timer' \in Timer /\ (timer'.running =>
          \/ timer' = t
          \/ timer'.for = q /\ q \notin correct /\ timer'.until = due /\ due > 0)
  <2>1. now \in Nat /\ shown \in Questions
      BY DEF TypeOK
  <2>2. CASE timer' = Frozen(t, q)
      BY <2>2, FrozenTimer
  <2>3. CASE timer' = Restarted(t, q, due)
      BY <2>1, <2>3, RestartedTimer
  <2>4. QED
      BY <1>2, <2>2, <2>3
<1>4. t.until \in Nat /\ t.for \in 0 .. N
    BY DEF Timer
<1>5. ASSUME timer'.running, timer' = t
      PROVE  Ticks(timer', deadline')
  <2>1. /\ t.for \in Questions /\ t.for \notin correct /\ t.until > 0
        /\ ~crossed => t.until = deadline[t.for]
      BY <1>5 DEF Ticks
  <2>2. ~crossed => deadline'[t.for] = deadline[t.for]
      BY <1>1, <1>4, <2>1
  <2>3. QED
      BY <1>5, <2>1, <2>2 DEF Ticks
<1>6. QED
    BY <1>1, <1>3, <1>5 DEF Ticks

-----------------------------------------------------------------------------
(* The requests.                                                           *)

\* A new request for a question without one.
LEMMA AskKeeps ==
    ASSUME TypeOK, Cached, Kept, NEW q \in Questions, cache[q] = 0, AskFor(q),
           UNCHANGED <<deadline, runVars>>
    PROVE  /\ starts' \in Seq(Start) /\ Len(starts') = Len(starts) + 1
           /\ cache' \in [Questions -> 0 .. Len(starts')]
           /\ Cached' /\ Kept'
<1> DEFINE new == [q |-> q, run |-> run, state |-> "sent", issued |-> 0, deadline |-> 0]
           n == Len(starts)
<1>1. new \in Start /\ starts \in Seq(Start) /\ n \in Nat
    BY LenProperties DEF TypeOK, Start
<1>2. /\ starts' = Append(starts, new) /\ cache' = [cache EXCEPT ![q] = n + 1]
      /\ cache \in [Questions -> 0 .. n]
    BY DEF AskFor, TypeOK
<1>3. /\ starts' \in Seq(Start) /\ Len(starts') = n + 1
      /\ \A id \in 1 .. n : starts'[id] = starts[id]
      /\ starts'[n + 1] = new
    BY <1>1, <1>2, AppendProperties
<1> HIDE DEF n
<1>4. /\ cache' \in [Questions -> 0 .. n + 1] /\ cache'[q] = n + 1
      /\ \A x \in Questions : x # q => cache'[x] = cache[x]
    BY <1>1, <1>2
<1>5. \A x \in Questions : cache[x] # 0 => cache[x] \in 1 .. n
    BY <1>1, <1>2
<1>6. \A id \in 1 .. n : starts[id].q \in Questions
  <2>1. \A id \in 1 .. n : starts[id] \in Start
      BY <1>1, ElementOfSeq DEF n
  <2>2. QED
      BY <2>1 DEF Start
<1>7. UNCHANGED <<run, crossed, deadline>>
    BY DEF runVars
<1>8. \A x \in Questions : cache'[x] # 0 => starts'[cache'[x]].q = x
    BY <1>1, <1>3, <1>4, <1>5 DEF Cached
<1>9. \A id \in 1 .. n + 1 : starts'[id].run <= run'
  <2>1. run \in Nat
      BY DEF TypeOK
  <2>2. \A id \in 1 .. n + 1 : id \in 1 .. n \/ id = n + 1
      BY <1>1
  <2>3. QED
      BY <2>1, <2>2, <1>3, <1>7 DEF Cached, Ids, n
<1>10. ~crossed' => \A id \in 1 .. n + 1 :
           starts'[id].run = run' /\ starts'[id].state # "failed"
               => cache'[starts'[id].q] = id
  <2>1. ASSUME ~crossed, NEW id \in 1 .. n,
               starts'[id].run = run', starts'[id].state # "failed"
        PROVE  cache'[starts'[id].q] = id
    <3>1. cache[starts[id].q] = id /\ id # 0
        BY <1>1, <1>3, <1>7, <2>1 DEF Cached, Ids, n
    <3>2. starts[id].q # q
        BY <3>1
    <3>3. QED
        BY <1>3, <1>4, <1>6, <3>1, <3>2
  <2>2. \A id \in 1 .. n + 1 : id \in 1 .. n \/ id = n + 1
      BY <1>1
  <2>3. QED
      BY <1>3, <1>4, <1>7, <2>1, <2>2
<1>11. Kept'
  <2>1. ASSUME ~crossed, NEW x \in Questions, deadline[x] # 0
        PROVE  x # q /\ cache[x] \in 1 .. n /\ starts[cache[x]].state = "ready"
               /\ starts[cache[x]].deadline = deadline[x]
      BY <2>1, <1>5 DEF Kept, Ready
  <2>2. QED
      BY <1>1, <1>3, <1>4, <1>7, <2>1 DEF Kept, Ready
<1>12. QED
    BY <1>3, <1>4, <1>8, <1>9, <1>10, <1>11 DEF Cached, Ids, n

\* One request changes, not in its question nor in its run.
LEMMA Changed ==
    ASSUME TypeOK, NEW id \in Ids, NEW e \in Start,
           starts' = [starts EXCEPT ![id] = e]
    PROVE  /\ starts' \in Seq(Start) /\ Len(starts') = Len(starts)
           /\ starts'[id] = e
           /\ \A x \in Ids : x # id => starts'[x] = starts[x]
           /\ \A x \in Ids : starts[x] \in Start
  BY ExceptSeq, ElementOfSeq DEF TypeOK, Ids

-----------------------------------------------------------------------------
(* The steps.                                                              *)

LEMMA TimingInit == Init => TimingInv
<1> SUFFICES ASSUME Init PROVE TimingInv
    OBVIOUS
<1> USE QuestionTimingAssumption DEF Init
<1>1. starts \in Seq(Start) /\ Len(starts) = 0
    BY EmptySeq
<1>2. timer \in Timer /\ ~timer.running
    BY DEF Timer, NewTimer
<1>3. TypeOK
  <2>1. shown \in Questions
      BY DEF Questions
  <2>2. cache \in [Questions -> 0 .. Len(starts)] /\ deadline \in [Questions -> Nat]
      BY <1>1
  <2>3. QED
      BY <1>1, <1>2, <2>1, <2>2 DEF TypeOK
<1>4. QED
    BY <1>1, <1>2, <1>3 DEF TimingInv, Cached, Kept, Ticks, Ids

\* Steps that touch neither requests, deadlines nor the run, and start nothing.
LEMMA TimerStep ==
    ASSUME TimingInv, Tick \/ Expire \/ AnswerRight \/ \E q \in Questions : GoTo(q)
    PROVE  TimingInv'
<1>1. UNCHANGED <<askVars, deadline, runVars>>
    BY DEF Tick, Expire, AnswerRight, Stopped, GoTo
<1>2. Cached' /\ Kept'
    BY <1>1 DEF TimingInv, Cached, Kept, Ids, Ready, askVars, runVars
<1>3. /\ now' \in Nat /\ shown' \in Questions /\ arriving' \in BOOLEAN
      /\ correct' \subseteq Questions /\ timer' \in Timer
  <2>1. /\ TypeOK /\ timer \in Timer /\ shown \in Questions /\ shown \in 0 .. N
      BY QuestionTimingAssumption DEF TimingInv, TypeOK, Questions
  <2>2. CASE Tick
      BY <2>1, <2>2 DEF TypeOK, Tick
  <2>3. CASE Expire
      BY <2>1, <2>3 DEF TypeOK, Timer, Expire
  <2>4. CASE AnswerRight
      BY <2>1, <2>4 DEF TypeOK, Timer, AnswerRight, Stopped
  <2>5. CASE \E q \in Questions : GoTo(q)
      BY <2>1, <2>5 DEF TypeOK, Timer, GoTo
  <2>6. QED
      BY <2>2, <2>3, <2>4, <2>5
<1>4. TypeOK'
    BY <1>1, <1>3 DEF TimingInv, TypeOK, askVars, runVars
<1>5. timer'.running =>
          /\ timer.running /\ timer'.for = timer.for /\ timer'.until = timer.until
          /\ correct' = correct
    BY DEF TimingInv, TypeOK, Timer, Tick, Expire, AnswerRight, Stopped, GoTo
<1>6. Ticks(timer, deadline)'
    BY <1>1, <1>5 DEF TimingInv, Ticks, runVars
<1>7. QED
    BY <1>2, <1>4, <1>6 DEF TimingInv

\* The arrival of the displayed question.
LEMMA ArriveStep == ASSUME TimingInv, Arrive PROVE TimingInv'
<1> DEFINE t == Restarted(timer, shown, deadline[shown])
           id == cache[shown]
<1> USE DEF TimingInv
<1>1. /\ UNCHANGED <<now, shown, correct, run, runStart, crossed>>
      /\ arriving' = FALSE /\ TypeOK /\ shown \in Questions
      /\ deadline[shown] \in Nat /\ id \in 0 .. Len(starts) /\ Len(starts) \in Nat
    BY LenProperties DEF Arrive, runVars, TypeOK
<1>2. t \in Timer /\ Ticks(t, deadline)
  <2>1. t \in Timer /\ (t.running =>
            \/ t = timer
            \/ /\ t.for = shown /\ shown \notin correct
               /\ t.until = deadline[shown] /\ deadline[shown] > 0)
      BY RestartedTimer, <1>1 DEF TypeOK
  <2>2. QED
      BY <2>1, <1>1 DEF Ticks
<1> HIDE DEF t
<1>3. CASE /\ shown \in correct /\ timer' = Frozen(t, shown)
           /\ UNCHANGED <<askVars, deadline>>
  <2>1. timer' \in Timer /\ ~timer'.running
      BY <1>1, <1>2, <1>3, FrozenTimer
  <2>2. QED
      BY <1>1, <1>3, <2>1 DEF TypeOK, Cached, Kept, Ticks, Ids, Ready, askVars
<1>4. CASE /\ shown \notin correct /\ Ready(id)
           /\ Authorize(shown, starts[id].deadline, t) /\ UNCHANGED askVars
  <2>1. id \in 1 .. Len(starts) /\ starts[id].deadline \in Nat
    <3>1. id \in 1 .. Len(starts) /\ starts \in Seq(Start)
        BY <1>1, <1>4 DEF Ready, TypeOK
    <3>2. starts[id] \in Start
        BY <3>1, ElementOfSeq
    <3>3. QED
        BY <3>1, <3>2 DEF Start
  <2>2. ~crossed => deadline[shown] \in {0, starts[id].deadline}
      BY <1>1 DEF Kept
  <2>3. timer' \in Timer /\ Ticks(timer', deadline')
      BY <1>1, <1>2, <1>4, <2>1, <2>2, AuthorizedTimer
  <2>4. /\ deadline' = [deadline EXCEPT ![shown] = starts[id].deadline]
        /\ UNCHANGED <<starts, cache, waiting>> /\ deadline \in [Questions -> Nat]
      BY <1>4 DEF Authorize, askVars, TypeOK
  <2>5. Kept'
    <3>1. ASSUME ~crossed, NEW q \in Questions, deadline'[q] # 0
          PROVE  Ready(cache[q]) /\ starts[cache[q]].deadline = deadline'[q]
        BY <1>1, <1>4, <2>4, <3>1 DEF Kept
    <3>2. QED
        BY <1>1, <2>4, <3>1 DEF Kept, Ready
  <2>6. Cached' /\ TypeOK'
      BY <1>1, <2>1, <2>3, <2>4 DEF Cached, Ids, TypeOK
  <2>7. QED
      BY <1>1, <2>3, <2>5, <2>6 DEF Ticks
<1>5. CASE /\ shown \notin correct /\ Pending(id) /\ waiting' = waiting \cup {id}
           /\ timer' = t /\ UNCHANGED <<starts, cache, deadline>>
  <2>1. id \in 1 .. Len(starts)
      BY <1>1, <1>5 DEF Pending
  <2>2. TypeOK'
      BY <1>1, <1>2, <1>5, <2>1 DEF TypeOK
  <2>3. Cached' /\ Kept'
      BY <1>1, <1>5 DEF Cached, Kept, Ids, Ready
  <2>4. QED
      BY <1>1, <1>2, <1>5, <2>2, <2>3 DEF Ticks
<1>6. CASE /\ shown \notin correct /\ id = 0 /\ AskFor(shown)
           /\ waiting' = waiting \cup {Len(starts) + 1}
           /\ timer' = t /\ UNCHANGED deadline
  <2>1. /\ starts' \in Seq(Start) /\ Len(starts') = Len(starts) + 1
        /\ cache' \in [Questions -> 0 .. Len(starts')]
        /\ Cached' /\ Kept'
      BY <1>1, <1>6, AskKeeps DEF runVars
  <2>2. waiting' \subseteq 1 .. Len(starts')
    <3>1. waiting \subseteq 1 .. Len(starts) /\ waiting' = waiting \cup {Len(starts) + 1}
        BY <1>1, <1>6 DEF TypeOK
    <3>2. \A x \in 1 .. Len(starts) : x \in 1 .. Len(starts')
        BY <1>1, <2>1
    <3>3. Len(starts) + 1 \in 1 .. Len(starts')
        BY <1>1, <2>1
    <3>4. QED
        BY <3>1, <3>2, <3>3
  <2>3. TypeOK'
      BY <1>1, <1>2, <1>6, <2>1, <2>2 DEF TypeOK
  <2>4. QED
      BY <1>1, <1>2, <1>6, <2>1, <2>3 DEF Ticks
<1>7. QED
    BY <1>3, <1>4, <1>5, <1>6 DEF Arrive, t

LEMMA PickStep == ASSUME TimingInv, PickUnstarted PROVE TimingInv'
<1> USE DEF TimingInv
<1>1. /\ shown \in Questions /\ cache[shown] = 0 /\ AskFor(shown)
      /\ UNCHANGED <<now, shown, arriving, correct, waiting, deadline, timer, runVars>>
    BY DEF PickUnstarted, TypeOK
<1>2. /\ starts' \in Seq(Start) /\ Len(starts') = Len(starts) + 1
      /\ cache' \in [Questions -> 0 .. Len(starts')]
      /\ Cached' /\ Kept'
    BY <1>1, AskKeeps
<1>3. TypeOK'
    BY <1>1, <1>2, LenProperties DEF TypeOK, runVars
<1>4. QED
    BY <1>1, <1>2, <1>3 DEF Ticks, runVars

LEMMA IssueStep == ASSUME TimingInv, NEW id \in Ids, Issue(id) PROVE TimingInv'
<1> USE DEF TimingInv
<1> DEFINE e == [starts[id] EXCEPT !.state = "issued", !.issued = now]
<1>1. /\ starts[id].state = "sent" /\ starts' = [starts EXCEPT ![id] = e]
      /\ UNCHANGED <<now, shown, arriving, correct, cache, waiting, deadline, timer,
                     run, runStart, crossed>>
    BY DEF Issue, runVars
<1>2. /\ starts[id] \in Start /\ now \in Nat
    BY ElementOfSeq DEF TypeOK, Ids
<1>3. /\ e \in Start /\ e.q = starts[id].q /\ e.run = starts[id].run
      /\ e.state = "issued"
    BY <1>2 DEF Start
<1> HIDE DEF e
<1>4. /\ starts' \in Seq(Start) /\ Len(starts') = Len(starts) /\ starts'[id] = e
      /\ \A x \in Ids : x # id => starts'[x] = starts[x]
    BY <1>1, <1>3, Changed
<1>5. TypeOK'
    BY <1>1, <1>4 DEF TypeOK
<1>6. \A q \in Questions : cache[q] # 0 => cache[q] \in Ids
    BY LenProperties DEF TypeOK, Ids
<1>7. Cached'
    BY <1>1, <1>3, <1>4, <1>6 DEF Cached, Ids
<1>8. Kept'
    BY <1>1, <1>4, <1>6 DEF Kept, Ready
<1>9. QED
    BY <1>1, <1>5, <1>7, <1>8 DEF Ticks

\* A receipt: of this run, it is the cached one and its question has no
\* deadline yet; of an earlier one, nothing is claimed any more.
LEMMA ReceiptIsFirst ==
    ASSUME TimingInv, NEW id \in Ids, starts[id].state \in {"sent", "issued"},
           ~crossed, starts[id].run = run
    PROVE  /\ cache[starts[id].q] = id
           /\ starts[id].q \in Questions => deadline[starts[id].q] = 0
<1>1. cache[starts[id].q] = id
    BY DEF TimingInv, Cached
<1>2. QED
    BY <1>1 DEF TimingInv, Kept, Ready

LEMMA ReceiveStep == ASSUME TimingInv, NEW id \in Ids, Receive(id) PROVE TimingInv'
<1> USE DEF TimingInv
<1> DEFINE due == now + Duration
           q == starts[id].q
           e == [starts[id] EXCEPT !.state = "ready", !.deadline = due]
<1>1. /\ starts[id].state = "issued" /\ starts' = [starts EXCEPT ![id] = e]
      /\ waiting' = waiting \ {id} /\ crossed' = (crossed \/ starts[id].run # run)
      /\ UNCHANGED <<now, shown, arriving, correct, cache, run, runStart>>
      /\ IF id \in waiting THEN Authorize(q, due, timer)
         ELSE UNCHANGED <<deadline, timer>>
    BY DEF Receive
<1>2. starts[id] \in Start /\ due \in Nat /\ q \in Questions
  <2>1. starts[id] \in Start /\ now \in Nat
      BY ElementOfSeq DEF TypeOK, Ids
  <2>2. QED
      BY <2>1, QuestionTimingAssumption DEF Start
<1>3. /\ e \in Start /\ e.q = q /\ e.run = starts[id].run
      /\ e.state = "ready" /\ e.deadline = due
    BY <1>2 DEF Start
<1>4. ~crossed' => ~crossed /\ starts[id].run = run
    BY <1>1
<1>5. ~crossed' => cache[q] = id /\ deadline[q] = 0
    BY <1>1, <1>2, <1>4, ReceiptIsFirst
<1> HIDE DEF e, due, q
<1>6. /\ starts' \in Seq(Start) /\ Len(starts') = Len(starts) /\ starts'[id] = e
      /\ \A x \in Ids : x # id => starts'[x] = starts[x]
    BY <1>1, <1>3, Changed
<1>7. \A x \in Questions : cache[x] # 0 => cache[x] \in Ids
    BY LenProperties DEF TypeOK, Ids
<1>8. /\ deadline' \in [Questions -> Nat] /\ timer' \in Timer
      /\ timer'.running =>
             /\ timer'.for \in Questions /\ timer'.for \notin correct
             /\ timer'.until > 0
             /\ ~crossed' => timer'.until = deadline'[timer'.for]
  <2>1. CASE id \notin waiting
      BY <1>1, <1>4, <2>1 DEF TypeOK, Ticks
  <2>2. CASE id \in waiting
    <3>1. Authorize(q, due, timer) /\ deadline' = [deadline EXCEPT ![q] = due]
        BY <1>1, <2>2 DEF Authorize
    <3>2. timer \in Timer /\ deadline \in [Questions -> Nat]
        BY DEF TypeOK
    <3>3. CASE crossed'
      <4>1. \/ timer' = Frozen(timer, q)
            \/ timer' = Restarted(timer, q, due)
          BY <3>1 DEF Authorize
      <4>2. timer' \in Timer /\ (timer'.running =>
                \/ timer' = timer
                \/ timer'.for = q /\ q \notin correct /\ timer'.until = due /\ due > 0)
        <5>1. now \in Nat /\ shown \in Questions
            BY DEF TypeOK
        <5>2. CASE timer' = Frozen(timer, q)
            BY <1>2, <3>2, <5>2, FrozenTimer
        <5>3. CASE timer' = Restarted(timer, q, due)
            BY <1>2, <3>2, <5>1, <5>3, RestartedTimer
        <5>4. QED
            BY <4>1, <5>2, <5>3
      <4>3. QED
          BY <1>2, <3>1, <3>2, <3>3, <4>2 DEF Ticks
    <3>4. CASE ~crossed'
      <4>1. timer' \in Timer /\ Ticks(timer', deadline')
          BY <1>2, <1>4, <1>5, <3>1, <3>2, <3>4, AuthorizedTimer
      <4>2. QED
          BY <1>2, <1>4, <3>1, <3>2, <3>4, <4>1 DEF Ticks
    <3>5. QED
        BY <3>3, <3>4
  <2>3. QED
      BY <2>1, <2>2
<1>9. Ticks(timer, deadline)'
    BY <1>1, <1>8 DEF Ticks
<1>10. TypeOK'
    BY <1>1, <1>6, <1>8 DEF TypeOK
<1>11. Cached'
    BY <1>1, <1>3, <1>4, <1>6, <1>7 DEF Cached, Ids, q
<1>12. Kept'
  <2>1. SUFFICES ASSUME ~crossed', NEW x \in Questions, deadline'[x] # 0
                 PROVE  Ready(cache[x])' /\ starts'[cache[x]].deadline = deadline'[x]
      BY <1>1 DEF Kept
  <2>2. CASE x = q
    <3>1. deadline'[q] = due
        BY <1>1, <1>2, <1>5, <2>1, <2>2 DEF Authorize, TypeOK
    <3>2. cache[q] = id /\ id # 0
        BY <1>5, <2>1 DEF Ids
    <3>3. QED
        BY <1>1, <1>3, <1>6, <2>2, <3>1, <3>2 DEF Ready
  <2>3. CASE x # q
    <3>1. deadline'[x] = deadline[x]
        BY <1>1, <1>2, <2>3 DEF Authorize, TypeOK
    <3>2. Ready(cache[x]) /\ starts[cache[x]].deadline = deadline[x]
        BY <1>4, <2>1, <3>1 DEF Kept
    <3>3. cache[x] \in Ids /\ cache[x] # id
        BY <1>7, <2>3, <3>2 DEF Ready, Cached, q
    <3>4. QED
        BY <1>1, <1>6, <3>1, <3>2, <3>3 DEF Ready
  <2>4. QED
      BY <2>2, <2>3
<1>13. QED
    BY <1>9, <1>10, <1>11, <1>12

LEMMA FailStep == ASSUME TimingInv, NEW id \in Ids, StartFails(id) PROVE TimingInv'
<1> USE DEF TimingInv
<1> DEFINE q == starts[id].q
           e == [starts[id] EXCEPT !.state = "failed"]
<1>1. /\ starts[id].state \in {"sent", "issued"} /\ starts' = [starts EXCEPT ![id] = e]
      /\ cache' = [cache EXCEPT ![q] = 0] /\ waiting' = waiting \ {id}
      /\ crossed' = (crossed \/ starts[id].run # run)
      /\ UNCHANGED <<now, shown, arriving, correct, deadline, timer, run, runStart>>
    BY DEF StartFails
<1>2. starts[id] \in Start /\ q \in Questions
  <2>1. starts[id] \in Start
      BY ElementOfSeq DEF TypeOK, Ids
  <2>2. QED
      BY <2>1 DEF Start
<1>3. e \in Start /\ e.q = q /\ e.run = starts[id].run /\ e.state = "failed"
    BY <1>2 DEF Start
<1>4. ~crossed' => ~crossed /\ cache[q] = id /\ deadline[q] = 0
    BY <1>1, <1>2, ReceiptIsFirst
<1> HIDE DEF e, q
<1>5. /\ starts' \in Seq(Start) /\ Len(starts') = Len(starts) /\ starts'[id] = e
      /\ \A x \in Ids : x # id => starts'[x] = starts[x]
      /\ \A x \in Ids : starts[x] \in Start
    BY <1>1, <1>3, Changed
<1>6. /\ cache \in [Questions -> 0 .. Len(starts)] /\ Len(starts) \in Nat
      /\ \A x \in Questions : cache[x] # 0 => cache[x] \in Ids
      /\ \A x \in Ids : starts[x].q \in Questions
  <2>1. cache \in [Questions -> 0 .. Len(starts)] /\ Len(starts) \in Nat
      BY LenProperties DEF TypeOK
  <2>2. \A x \in Questions : cache[x] # 0 => cache[x] \in Ids
      BY <2>1 DEF Ids
  <2>3. \A x \in Ids : starts[x].q \in Questions
      BY <1>5 DEF Start
  <2>4. QED
      BY <2>1, <2>2, <2>3
<1>7. /\ cache' \in [Questions -> 0 .. Len(starts)] /\ cache'[q] = 0
      /\ \A x \in Questions : x # q => cache'[x] = cache[x]
    BY <1>1, <1>2, <1>6
<1>8. TypeOK'
    BY <1>1, <1>5, <1>7 DEF TypeOK
<1>9. Cached'
  <2>1. \A x \in Questions : cache'[x] # 0 => starts'[cache'[x]].q = x
      BY <1>3, <1>5, <1>6, <1>7 DEF Cached, q
  <2>2. \A x \in Ids : starts'[x].run <= run
      BY <1>3, <1>5 DEF Cached
  <2>3. ASSUME ~crossed', NEW x \in Ids,
               starts'[x].run = run, starts'[x].state # "failed"
        PROVE  cache'[starts'[x].q] = x
    <3>1. x # id /\ starts'[x] = starts[x]
        BY <1>3, <1>5, <2>3
    <3>2. cache[starts[x].q] = x /\ starts[x].q # q
        BY <1>4, <2>3, <3>1 DEF Cached
    <3>3. QED
        BY <1>6, <1>7, <3>1, <3>2
  <2>4. QED
      BY <1>1, <1>5, <2>1, <2>2, <2>3 DEF Cached, Ids
<1>10. Kept'
  <2>1. SUFFICES ASSUME ~crossed', NEW x \in Questions, deadline[x] # 0
                 PROVE  Ready(cache[x])' /\ starts'[cache'[x]].deadline = deadline[x]
                        /\ cache'[x] = cache[x]
      BY <1>1 DEF Kept, Ready
  <2>2. x # q /\ Ready(cache[x]) /\ starts[cache[x]].deadline = deadline[x]
      BY <1>4, <2>1 DEF Kept
  <2>3. cache[x] \in Ids /\ cache[x] # id
      BY <1>6, <2>2 DEF Ready, Cached, q
  <2>4. QED
      BY <1>5, <1>7, <2>2, <2>3 DEF Ready
<1>11. Ticks(timer, deadline)'
    BY <1>1, <1>4 DEF Ticks
<1>12. QED
    BY <1>8, <1>9, <1>10, <1>11

LEMMA NewRunStep == ASSUME TimingInv, Restart \/ FreshStart PROVE TimingInv'
<1> USE DEF TimingInv
<1>1. /\ run' = run + 1 /\ runStart' = now /\ shown' = 1 /\ arriving' = TRUE
      /\ correct' = {} /\ UNCHANGED <<now, starts, waiting, crossed>>
    BY DEF Restart, FreshStart, NewRun
<1>2. \A id \in Ids : starts[id].run <= run /\ starts[id].run \in Nat /\ run \in Nat
  <2>1. \A id \in Ids : starts[id] \in Start
      BY ElementOfSeq DEF TypeOK, Ids
  <2>2. \A id \in Ids : starts[id].run \in Nat
      BY <2>1 DEF Start
  <2>3. QED
      BY <2>2 DEF Cached, TypeOK
<1>3. \/ /\ cache' = [q \in Questions |-> 0] /\ deadline' = [q \in Questions |-> 0]
         /\ timer' = NewTimer
      \/ UNCHANGED <<cache, deadline, timer>>
    BY DEF Restart, FreshStart
<1>4. NewTimer \in Timer /\ ~NewTimer.running
    BY QuestionTimingAssumption DEF NewTimer, Timer
<1>5. cache' \in [Questions -> 0 .. Len(starts)] /\ deadline' \in [Questions -> Nat]
    BY <1>3, LenProperties DEF TypeOK
<1>6. TypeOK'
    BY <1>1, <1>3, <1>4, <1>5, QuestionTimingAssumption DEF TypeOK, Questions
<1>7. Cached'
  <2>1. \A id \in Ids : starts[id].run <= run + 1 /\ starts[id].run # run + 1
      BY <1>2
  <2>2. \A q \in Questions : cache'[q] # 0 => starts[cache'[q]].q = q
      BY <1>3 DEF Cached
  <2>3. QED
      BY <1>1, <2>1, <2>2 DEF Cached, Ids
<1>8. Kept'
    BY <1>1, <1>3 DEF Kept, Ready
<1>9. Ticks(timer, deadline)'
    BY <1>1, <1>3, <1>4 DEF Ticks
<1>10. QED
    BY <1>6, <1>7, <1>8, <1>9

LEMMA TimingStep == TimingInv /\ [Next]_vars => TimingInv'
<1> SUFFICES ASSUME TimingInv, [Next]_vars PROVE TimingInv'
    OBVIOUS
<1>1. CASE UNCHANGED vars
    BY <1>1 DEF vars, askVars, runVars, TimingInv, TypeOK, Cached, Kept, Ticks, Ids, Ready
<1>2. CASE \E id \in 1 .. Len(starts) : Issue(id) \/ Receive(id) \/ StartFails(id)
    BY <1>2, IssueStep, ReceiveStep, FailStep DEF Ids
<1>3. QED
    BY <1>1, <1>2, TimerStep, ArriveStep, PickStep, NewRunStep DEF Next

LEMMA TimingInvAlways == Spec => []TimingInv
  BY TimingInit, TimingStep, PTL DEF Spec

-----------------------------------------------------------------------------
(* How much time there is.                                                 *)

\* The server starts counting no later than the browser, and no deadline, of a
\* receipt of this run or of an earlier one, is further away than Duration.
Bounded ==
    /\ \A id \in Ids :
           /\ starts[id].state = "issued" => starts[id].issued <= now
           /\ starts[id].state = "ready" =>
                  /\ starts[id].issued + Duration <= starts[id].deadline
                  /\ starts[id].deadline <= now + Duration
    /\ \A q \in Questions : deadline[q] <= now + Duration
    /\ timer.running => timer.until <= now + Duration

BoundedInv == TimingInv /\ Bounded

LEMMA BoundedInit == Init => Bounded
<1> SUFFICES ASSUME Init PROVE Bounded
    OBVIOUS
<1>1. Len(starts) = 0 /\ ~timer.running
    BY EmptySeq DEF Init, NewTimer
<1>2. now = 0 /\ Duration \in Nat /\ \A q \in Questions : deadline[q] = 0
    BY QuestionTimingAssumption DEF Init
<1>3. QED
    BY <1>1, <1>2 DEF Bounded, Ids

\* What the proof needs of the types.
LEMMA Times ==
    ASSUME TimingInv
    PROVE  /\ now \in Nat /\ Duration \in Nat /\ shown \in Questions /\ timer \in Timer
           /\ timer.until \in Nat
           /\ deadline \in [Questions -> Nat] /\ starts \in Seq(Start)
           /\ Len(starts) \in Nat
           /\ \A id \in Ids : /\ starts[id] \in Start /\ starts[id].q \in Questions
                              /\ starts[id].issued \in Nat /\ starts[id].deadline \in Nat
<1>1. /\ now \in Nat /\ shown \in Questions /\ timer \in Timer
      /\ deadline \in [Questions -> Nat] /\ starts \in Seq(Start)
    BY DEF TimingInv, TypeOK
<1>2. \A id \in Ids : starts[id] \in Start
    BY <1>1, ElementOfSeq DEF Ids
<1>3. timer.until \in Nat
    BY <1>1 DEF Timer
<1>4. QED
    BY <1>1, <1>2, <1>3, LenProperties, QuestionTimingAssumption DEF Start

\* An activation for a deadline no further away than Duration.
LEMMA AuthorizedBound ==
    ASSUME TimingInv, Bounded, NEW t \in Timer, t.running => t.until <= now + Duration,
           NEW q \in Questions, NEW due \in Nat, due <= now + Duration,
           Authorize(q, due, t)
    PROVE  /\ \A x \in Questions : deadline'[x] <= now + Duration
           /\ timer'.running => timer'.until <= now + Duration
<1>1. deadline' = [deadline EXCEPT ![q] = due]
    BY DEF Authorize
<1>2. \A x \in Questions : deadline'[x] <= now + Duration
    BY <1>1, Times DEF Bounded
<1>3. CASE timer' = Frozen(t, q)
    BY <1>2, <1>3, FrozenTimer
<1>4. CASE timer' = Restarted(t, q, due)
    BY <1>2, <1>4, RestartedTimer, Times
<1>5. QED
    BY <1>3, <1>4 DEF Authorize

\* A new request has no times yet.
LEMMA AskBound ==
    ASSUME TimingInv, Bounded, NEW q \in Questions, AskFor(q), now' = now
    PROVE  \A id \in Ids' :
               /\ starts'[id].state = "issued" => starts'[id].issued <= now'
               /\ starts'[id].state = "ready" =>
                      /\ starts'[id].issued + Duration <= starts'[id].deadline
                      /\ starts'[id].deadline <= now' + Duration
<1> DEFINE new == [q |-> q, run |-> run, state |-> "sent", issued |-> 0, deadline |-> 0]
           n == Len(starts)
<1>1. new \in Start /\ starts \in Seq(Start) /\ n \in Nat
    BY LenProperties DEF TimingInv, TypeOK, Start
<1>2. starts' = Append(starts, new) /\ new.state = "sent"
    BY DEF AskFor
<1> HIDE DEF new
<1>3. /\ Len(starts') = n + 1 /\ starts'[n + 1] = new
      /\ \A id \in 1 .. n : starts'[id] = starts[id]
    BY <1>1, <1>2, AppendProperties
<1>4. \A id \in Ids' : id \in Ids \/ id = n + 1
    BY <1>1, <1>3 DEF Ids
<1>5. QED
    BY <1>2, <1>3, <1>4 DEF Bounded, Ids

LEMMA BoundedStep ==
    ASSUME TimingInv, Bounded, [Next]_vars PROVE Bounded'
<1> USE DEF askVars, runVars
<1>1. CASE UNCHANGED vars
    BY <1>1 DEF vars, Bounded, Ids
<1>2. CASE Tick
  <2>1. now' = now + 1 /\ UNCHANGED <<starts, deadline, timer>>
      BY <1>2 DEF Tick
  <2>2. QED
      BY <2>1, Times DEF Bounded, Ids
<1>3. CASE Expire \/ AnswerRight \/ \E q \in Questions : GoTo(q)
  <2>1. /\ UNCHANGED <<now, starts, deadline>>
        /\ timer'.running => timer.running /\ timer'.until = timer.until
      BY <1>3, Times DEF Expire, AnswerRight, Stopped, GoTo, Timer
  <2>2. QED
      BY <2>1 DEF Bounded, Ids
<1>4. CASE Arrive
  <2> DEFINE t == Restarted(timer, shown, deadline[shown])
             id == cache[shown]
  <2>1. now' = now
      BY <1>4 DEF Arrive
  <2>2. t \in Timer /\ (t.running => t.until <= now + Duration)
      BY RestartedTimer, Times DEF Bounded
  <2> HIDE DEF t
  <2>3. CASE timer' = Frozen(t, shown) /\ UNCHANGED <<askVars, deadline>>
      BY <2>1, <2>2, <2>3, FrozenTimer, Times DEF Bounded, Ids
  <2>4. CASE /\ Ready(id) /\ Authorize(shown, starts[id].deadline, t)
             /\ UNCHANGED askVars
    <3>1. id \in Ids /\ starts[id].state = "ready"
        BY <2>4, Times DEF Ready, TimingInv, TypeOK, Ids
    <3>2. starts[id].deadline \in Nat /\ starts[id].deadline <= now + Duration
        BY <3>1, Times DEF Bounded
    <3>3. /\ \A x \in Questions : deadline'[x] <= now + Duration
          /\ timer'.running => timer'.until <= now + Duration
        BY <2>2, <2>4, <3>2, Times, AuthorizedBound
    <3>4. QED
        BY <2>1, <2>4, <3>3 DEF Bounded, Ids
  <2>5. CASE timer' = t /\ UNCHANGED <<starts, deadline>>
      BY <2>1, <2>2, <2>5 DEF Bounded, Ids
  <2>6. CASE AskFor(shown) /\ timer' = t /\ UNCHANGED deadline
      BY <2>1, <2>2, <2>6, Times, AskBound DEF Bounded
  <2>7. QED
      BY <1>4, <2>3, <2>4, <2>5, <2>6 DEF Arrive, t
<1>5. CASE PickUnstarted
  <2>1. AskFor(shown) /\ UNCHANGED <<now, deadline, timer>>
      BY <1>5 DEF PickUnstarted
  <2>2. QED
      BY <2>1, Times, AskBound DEF Bounded
<1>6. ASSUME NEW id \in Ids, Issue(id) \/ StartFails(id) PROVE Bounded'
  <2>1. PICK e \in Start :
            /\ starts' = [starts EXCEPT ![id] = e]
            /\ e.state = "issued" => e.issued <= now
            /\ e.state # "ready"
    <3>1. CASE Issue(id)
      <4> DEFINE e == [starts[id] EXCEPT !.state = "issued", !.issued = now]
      <4>1. e \in Start /\ e.state = "issued" /\ e.issued = now
          BY <1>6, Times DEF Start
      <4>2. starts' = [starts EXCEPT ![id] = e]
          BY <3>1 DEF Issue
      <4> HIDE DEF e
      <4>3. e.issued <= now /\ e.state # "ready"
          BY <4>1, Times
      <4>4. QED
          BY <4>1, <4>2, <4>3
    <3>2. CASE StartFails(id)
      <4> DEFINE e == [starts[id] EXCEPT !.state = "failed"]
      <4>1. e \in Start /\ e.state = "failed"
          BY <1>6, Times DEF Start
      <4>2. QED
          BY <3>2, <4>1 DEF StartFails
    <3>3. QED
        BY <1>6, <3>1, <3>2
  <2>2. UNCHANGED <<now, deadline, timer>>
      BY <1>6 DEF Issue, StartFails
  <2>3. /\ Len(starts') = Len(starts) /\ starts'[id] = e
        /\ \A x \in Ids : x # id => starts'[x] = starts[x]
      BY <2>1, Changed DEF TimingInv
  <2>4. QED
      BY <2>1, <2>2, <2>3 DEF Bounded, Ids
<1>7. ASSUME NEW id \in Ids, Receive(id) PROVE Bounded'
  <2> DEFINE due == now + Duration
             e == [starts[id] EXCEPT !.state = "ready", !.deadline = due]
  <2>1. /\ starts[id].state = "issued" /\ starts' = [starts EXCEPT ![id] = e]
        /\ now' = now
        /\ \/ Authorize(starts[id].q, due, timer)
           \/ UNCHANGED <<deadline, timer>>
      BY <1>7 DEF Receive
  <2>2. due \in Nat
      BY Times
  <2>3. /\ e \in Start /\ e.state = "ready" /\ e.deadline = due
        /\ e.issued = starts[id].issued
      BY <1>7, <2>2, Times DEF Start
  <2>4. e.issued + Duration <= due /\ due <= now + Duration
      BY <1>7, <2>1, <2>2, <2>3, Times DEF Bounded
  <2>5. /\ \A x \in Questions : deadline'[x] <= now + Duration
        /\ timer'.running => timer'.until <= now + Duration
    <3>1. CASE UNCHANGED <<deadline, timer>>
        BY <3>1 DEF Bounded
    <3>2. CASE Authorize(starts[id].q, due, timer)
        BY <1>7, <2>2, <2>4, <3>2, Times, AuthorizedBound DEF Bounded
    <3>3. QED
        BY <2>1, <3>1, <3>2
  <2> HIDE DEF e, due
  <2>6. /\ Len(starts') = Len(starts) /\ starts'[id] = e
        /\ \A x \in Ids : x # id => starts'[x] = starts[x]
      BY <1>7, <2>1, <2>3, Changed DEF TimingInv
  <2>7. QED
      BY <2>1, <2>3, <2>4, <2>5, <2>6 DEF Bounded, Ids
<1>8. CASE Restart \/ FreshStart
  <2>1. /\ now' = now /\ starts' = starts
        /\ \/ UNCHANGED <<deadline, timer>>
           \/ deadline' = [q \in Questions |-> 0] /\ timer' = NewTimer
      BY <1>8 DEF Restart, FreshStart, NewRun
  <2>2. QED
      BY <2>1, Times DEF Bounded, Ids, NewTimer
<1>9. QED
    BY <1>1, <1>2, <1>3, <1>4, <1>5, <1>6, <1>7, <1>8 DEF Next, Ids

LEMMA BoundedAlways == Spec => []BoundedInv
  BY TimingInvAlways, BoundedInit, BoundedStep, PTL DEF Spec, BoundedInv

-----------------------------------------------------------------------------
(* The theorems.                                                           *)

\* Every variable keeps its type.
THEOREM TimingTypes == Spec => []TypeOK
  BY TimingInvAlways, PTL DEF TimingInv

\* The countdown is always that of the question it counts for and ends no earlier
\* than the server's, until a receipt asked for in an earlier run is answered; no
\* countdown ever grants more than the full duration.
THEOREM CountdownIsTheDeadlines == Spec => []CountsToItsDeadline
<1>1. BoundedInv => CountsToItsDeadline
  <2> SUFFICES ASSUME TimingInv, Bounded, timer.running
               PROVE  CountsToItsDeadline
      BY DEF BoundedInv, CountsToItsDeadline
  <2> DEFINE id == cache[timer.for]
  <2>1. ASSUME ~crossed
        PROVE  /\ timer.until = deadline[timer.for] /\ Ready(id)
               /\ starts[id].issued + Duration <= timer.until
    <3>1. /\ timer.for \in Questions /\ timer.until > 0
          /\ timer.until = deadline[timer.for]
        BY <2>1 DEF TimingInv, Ticks
    <3>2. deadline[timer.for] # 0
        BY <3>1, Times
    <3>3. Ready(id) /\ starts[id].deadline = timer.until
        BY <2>1, <3>1, <3>2 DEF TimingInv, Kept
    <3>4. id \in Ids
        BY <3>1, <3>3, Times DEF Ready, Ids, TimingInv, TypeOK
    <3>5. QED
        BY <3>1, <3>3, <3>4 DEF Bounded, Ready
  <2>2. QED
      BY <2>1 DEF CountsToItsDeadline, Bounded
<1>2. QED
    BY <1>1, BoundedAlways, PTL

\* No clock ticks for a question answered right, without any exception.
THEOREM AnsweredDoesNotTick == Spec => []RightAnswerStopsTheClock
<1>1. TimingInv => RightAnswerStopsTheClock
    BY DEF TimingInv, Ticks, RightAnswerStopsTheClock
<1>2. QED
    BY <1>1, TimingInvAlways, PTL

\* Within a run a question's deadline never moves, with the same exception.
THEOREM DeadlinesStay == Spec => RevisitBuysNoTime
<1>1. ASSUME TimingInv, [Next]_vars, NEW q \in Questions, deadline[q] # 0,
             run' = run, ~crossed'
      PROVE  deadline'[q] = deadline[q]
  <2>1. TypeOK /\ Kept
      BY <1>1 DEF TimingInv
  <2>2. CASE Arrive
    <3>1. UNCHANGED crossed
        BY <2>2 DEF Arrive, runVars
    <3>2. Ready(cache[q]) /\ starts[cache[q]].deadline = deadline[q]
        BY <1>1, <2>1, <3>1 DEF Kept
    <3>3. \/ UNCHANGED deadline
          \/ deadline' = [deadline EXCEPT ![shown] = starts[cache[shown]].deadline]
        BY <2>2 DEF Arrive, Authorize
    <3>4. QED
        BY <2>1, <3>2, <3>3 DEF TypeOK
  <2>3. CASE \E id \in Ids : Receive(id)
    <3>1. PICK id \in Ids : Receive(id)
        BY <2>3
    <3>2. /\ ~crossed /\ starts[id].run = run /\ starts[id].state = "issued"
          /\ UNCHANGED deadline
             \/ deadline' = [deadline EXCEPT ![starts[id].q] = now + Duration]
        BY <1>1, <3>1 DEF Receive, Authorize
    <3>3. starts[id].q # q
        BY <1>1, <3>2, ReceiptIsFirst
    <3>4. QED
        BY <2>1, <3>2, <3>3 DEF TypeOK
  <2>4. CASE Restart \/ FreshStart
    <3>1. run' = run + 1 /\ run \in Nat
        BY <2>1, <2>4 DEF Restart, FreshStart, NewRun, TypeOK
    <3>2. QED
        BY <1>1, <3>1
  <2>5. QED
      BY <1>1, <2>2, <2>3, <2>4
         DEF Next, vars, Ids, Tick, Expire, Issue, StartFails, AnswerRight, Stopped,
             PickUnstarted, GoTo
<1>2. TimingInv /\ [Next]_vars =>
          \A q \in Questions : deadline[q] # 0 /\ run' = run /\ ~crossed' =>
              deadline'[q] = deadline[q]
    BY <1>1
<1>3. TimingInv /\ [Next]_vars =>
          [\A q \in Questions : deadline[q] # 0 /\ run' = run /\ ~crossed' =>
               deadline'[q] = deadline[q]]_vars
    BY <1>2
<1>4. QED
    BY <1>3, TimingInvAlways, PTL DEF Spec, RevisitBuysNoTime
=============================================================================
