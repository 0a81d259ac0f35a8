----------------------- MODULE NotificationOutboxProofs -----------------------
(***************************************************************************)
(* Theorems about NotificationOutbox, for any number of pollers, attempts, *)
(* tokens, resends and crashes, and any lease, backoff and attempt limit.  *)
(***************************************************************************)
EXTENDS NotificationOutbox, FiniteSetTheorems, TLAPS

\* The types, and what a worker about to store or send its email holds.
Shape ==
    /\ TypeOK
    /\ \A w \in Workers :
          pc[w] \in {"persist", "send", "markSent"} => job[w].token \in Tokens

\* At most one poller is busy while no lease has run out and no resend was
\* asked for: a pending row stays away from the poll for as long as the busy
\* poller's lease lasts.
Leased ==
    ~overrun /\ gen = 0 =>
        \A p \in Pollers : Busy(p) =>
            /\ lease[p] > 0
            /\ status = "pending" => wait >= lease[p]
            /\ \A q \in Pollers : Busy(q) => p = q

OutboxInv == Shape /\ PendingBelowCap /\ PayloadOfGeneration /\ Leased

LEMMA GensNat == Cardinality(Attempts) \in Nat /\ Gens \subseteq Nat /\ 0 \in Gens
  BY FS_CardinalityType, WorkersAssumption DEF Gens

LEMMA JobRecords ==
    /\ NoJob \in Job
    /\ \A j \in Job : \A p \in Payload \cup {Null} : [j EXCEPT !.payload = p] \in Job
    /\ \A j \in Job : \A t \in Tokens : [j EXCEPT !.token = t] \in Job
    /\ \A g \in Gens : [NoJob EXCEPT !.gen = g] \in Job
  BY GensNat DEF NoJob, Job

LEMMA OutboxInit == Init => OutboxInv
<1> SUFFICES ASSUME Init PROVE OutboxInv
    OBVIOUS
<1>1. Shape
    <2>1. FALSE \in BOOLEAN /\ "fetch" \in PCs /\ "idle" \in PCs
        BY DEF PCs
    <2>2. TypeOK
        <3>1. /\ attempts = 0 /\ gen = 0 /\ wait = 0 /\ cipher = 0 /\ crashes = 0
              /\ 0 \in 0 .. Longest /\ 0 \in 0 .. MaxRotations
              /\ 0 \in 0 .. MaxCrashes /\ 0 \in 0 .. Lease
            BY LimitsAssumption DEF Init, Longest
        <3>2. lease \in [Pollers -> 0 .. Lease] /\ job \in [Workers -> Job]
            BY <3>1, JobRecords DEF Init
        <3>3. pc \in [Workers -> PCs]
            BY <2>1 DEF Init
        <3>4. QED
            BY <2>1, <3>1, <3>2, <3>3, GensNat DEF Init, TypeOK
    <2>3. QED
        BY <2>2 DEF Init, Shape
<1>2. PendingBelowCap /\ PayloadOfGeneration
    BY LimitsAssumption DEF Init, PendingBelowCap, PayloadOfGeneration
<1>3. \A p \in Pollers : ~Busy(p)
    BY WorkersAssumption DEF Init, Busy, Workers
<1>4. QED
    BY <1>1, <1>2, <1>3 DEF OutboxInv, Leased

LEMMA ShapeStep == Shape /\ [Next]_vars => Shape'
<1> SUFFICES ASSUME Shape, [Next]_vars PROVE Shape'
    OBVIOUS
<1> USE LimitsAssumption, GensNat DEF Goto, rowVars, Workers, TypeOK, Longest
<1>1. CASE UNCHANGED vars
    BY <1>1 DEF vars, Shape
<1>2. CASE Tick \/ Rotate \/ \E t \in Tokens : Retire(t)
    <2>1. wait' \in 0 .. Longest
        BY <1>2 DEF Tick, Rotate, Retire, Less, Shape
    <2>2. lease' \in [Pollers -> 0 .. Lease]
        BY <1>2 DEF Tick, Rotate, Retire, Less, Shape
    <2>3. UNCHANGED <<status, attempts, gen, payload, pc, job, mail, crashes, shared>>
        BY <1>2 DEF Tick, Rotate, Retire
    <2>4. minted' \subseteq Tokens /\ cipher' \in 0 .. MaxRotations
        BY <1>2 DEF Tick, Rotate, Retire, Shape
    <2>5. overrun' \in BOOLEAN
        BY <1>2 DEF Tick, Rotate, Retire, Shape
    <2>6. QED
        BY <2>1, <2>2, <2>3, <2>4, <2>5 DEF Shape
<1>3. ASSUME NEW a \in Attempts, Resend(a) PROVE Shape'
    <2>1. gen + 1 \in Gens /\ 0 \in 0 .. Longest
        BY <1>3 DEF Resend, Shape, Gens
    <2>2. job' \in [Workers -> Job] /\ pc' \in [Workers -> PCs]
        BY <1>3, <2>1, JobRecords DEF Resend, Shape, PCs
    <2>3. shared' \subseteq Gens
        BY <1>3, <2>1 DEF Resend, Share, Shape
    <2>4. \A w \in Workers :
             pc'[w] \in {"persist", "send", "markSent"} =>
                 pc[w] \in {"persist", "send", "markSent"} /\ job'[w] = job[w]
        BY <1>3 DEF Resend, Shape
    <2>5. QED
        BY <1>3, <2>1, <2>2, <2>3, <2>4 DEF Resend, Shape
<1>4. ASSUME NEW a \in Attempts, Fetch(a) PROVE Shape'
    BY <1>4, JobRecords DEF Fetch, Shape, PCs
<1>5. ASSUME NEW p \in Pollers, Claim(p) PROVE Shape'
    <2>1. [gen |-> gen, attempts |-> attempts, payload |-> payload,
           token |-> Null] \in Job
        BY DEF Shape, Job
    <2>2. job' \in [Workers -> Job] /\ pc' \in [Workers -> PCs]
        BY <1>5, <2>1 DEF Claim, ClaimWith, Shape, PCs
    <2>3. shared' \subseteq Gens
        BY <1>5 DEF Claim, ClaimWith, Share, Shape
    <2>4. \A w \in Workers :
             pc'[w] \in {"persist", "send", "markSent"} =>
                 pc[w] \in {"persist", "send", "markSent"} /\ job'[w] = job[w]
        BY <1>5 DEF Claim, ClaimWith, Shape
    <2>5. wait' \in 0 .. Longest /\ lease' \in [Pollers -> 0 .. Lease]
        BY <1>5 DEF Claim, ClaimWith, Shape
    <2>6. QED
        BY <1>5, <2>2, <2>3, <2>4, <2>5 DEF Claim, ClaimWith, Shape
<1>6. ASSUME NEW w \in Workers, Reuse(w) PROVE Shape'
    BY <1>6, JobRecords DEF Reuse, Stored, Shape, PCs, Payload, Job
<1>7. ASSUME NEW w \in Workers, Mint(w) PROVE Shape'
    BY <1>7, JobRecords DEF Mint, Spare, Shape, PCs, Job
<1>8. ASSUME NEW w \in Workers, Persist(w) PROVE Shape'
    <2>1. Sealed(w) \in Payload
        BY <1>8 DEF Persist, Sealed, Shape, Payload, Job, Gens
    <2>2. QED
        BY <1>8, <2>1 DEF Persist, Shape, PCs
<1>9. ASSUME NEW w \in Workers,
             Count(w) \/ LimitReached(w) \/ Send(w) \/ Declined(w) \/ Throw(w)
      PROVE  Shape'
    <2>1. pc' \in [Workers -> PCs] /\ mail' \subseteq Gens \X Tokens
        BY <1>9 DEF Count, LimitReached, Send, Declined, Throw, Shape, PCs, Job
    <2>2. /\ UNCHANGED <<status, attempts, gen, wait, payload, minted, cipher, job>>
          /\ UNCHANGED <<crashes, lease, shared, overrun>>
        BY <1>9 DEF Count, LimitReached, Send, Declined, Throw
    <2>3. \A x \in Workers :
             pc'[x] \in {"persist", "send", "markSent"} =>
                 pc[x] \in {"persist", "send", "markSent"}
        BY <1>9 DEF Count, LimitReached, Send, Declined, Throw, Shape
    <2>4. QED
        BY <2>1, <2>2, <2>3 DEF Shape
<1>10. ASSUME NEW w \in Workers, MarkSent(w) \/ Crash(w) PROVE Shape'
    BY <1>10, JobRecords DEF MarkSent, Crash, Finished, Shape, PCs
<1>11. ASSUME NEW p \in Pollers, MarkFailed(p) PROVE Shape'
    <2>1. Backoff(job[p].attempts) \in 0 .. Longest
        BY DEF Backoff, Shape, Job
    <2>2. /\ job' \in [Workers -> Job] /\ pc' \in [Workers -> PCs]
          /\ lease' \in [Pollers -> 0 .. Lease]
        BY <1>11, JobRecords DEF MarkFailed, Finished, Shape, PCs
    <2>3. /\ status' \in {"pending", "sent", "failed"} /\ attempts' \in Nat
          /\ payload' \in Payload \cup {Null} /\ wait' \in 0 .. Longest
        BY <1>11, <2>1 DEF MarkFailed, Shape
    <2>4. \A w \in Workers :
             pc'[w] \in {"persist", "send", "markSent"} =>
                 pc[w] \in {"persist", "send", "markSent"} /\ job'[w] = job[w]
        BY <1>11 DEF MarkFailed, Finished, Shape
    <2>5. QED
        BY <1>11, <2>2, <2>3, <2>4 DEF MarkFailed, Shape
<1>12. QED
    BY <1>1, <1>2, <1>3, <1>4, <1>5, <1>6, <1>7, <1>8, <1>9, <1>10, <1>11
       DEF Next, Poll, Try, Work

-----------------------------------------------------------------------------
(* The row's own invariants: every writer of the row is a case.             *)

LEMMA RowStep ==
    Shape /\ PendingBelowCap /\ PayloadOfGeneration /\ [Next]_vars
        => PendingBelowCap' /\ PayloadOfGeneration'
<1> SUFFICES ASSUME Shape, PendingBelowCap, PayloadOfGeneration, [Next]_vars
             PROVE  PendingBelowCap' /\ PayloadOfGeneration'
    OBVIOUS
<1> USE LimitsAssumption, WorkersAssumption
    DEF PendingBelowCap, PayloadOfGeneration, rowVars
<1>1. CASE UNCHANGED vars
    BY <1>1 DEF vars
<1>2. CASE Tick \/ Rotate \/ \E t \in Tokens : Retire(t)
    BY <1>2 DEF Tick, Rotate, Retire
<1>3. ASSUME NEW a \in Attempts, Resend(a)
      PROVE  PendingBelowCap' /\ PayloadOfGeneration'
    BY <1>3 DEF Resend
<1>4. ASSUME NEW p \in Pollers, Claim(p)
      PROVE  PendingBelowCap' /\ PayloadOfGeneration'
    BY <1>4 DEF Claim, ClaimWith
<1>5. ASSUME NEW w \in Workers, Persist(w)
      PROVE  PendingBelowCap' /\ PayloadOfGeneration'
    BY <1>5 DEF Persist, Sealed
<1>6. ASSUME NEW w \in Workers, MarkSent(w)
      PROVE  PendingBelowCap' /\ PayloadOfGeneration'
    BY <1>6 DEF MarkSent
<1>7. ASSUME NEW p \in Pollers, MarkFailed(p)
      PROVE  PendingBelowCap' /\ PayloadOfGeneration'
    BY <1>7 DEF MarkFailed, Shape
<1>8. ASSUME NEW w \in Workers,
             \/ Fetch(w) \/ Reuse(w) \/ Count(w) \/ LimitReached(w) \/ Mint(w)
             \/ Send(w) \/ Declined(w) \/ Throw(w) \/ Crash(w)
      PROVE  PendingBelowCap' /\ PayloadOfGeneration'
    BY <1>8 DEF Fetch, Reuse, Count, LimitReached, Mint, Send, Declined, Throw, Crash
<1>9. QED
    BY <1>1, <1>2, <1>3, <1>4, <1>5, <1>6, <1>7, <1>8
       DEF Next, Poll, Try, Work, Workers

-----------------------------------------------------------------------------
(* The lease.  A poller takes the row only when it is pending and due, and  *)
(* Leased keeps it from being due while another is busy within its lease.   *)

\* A step of one worker that leaves the row's schedule alone, and after which
\* that worker is busy only if it was before.
LEMMA LeaseFrame ==
    ASSUME Shape, Leased, UNCHANGED <<status, wait, gen, lease, overrun>>,
           NEW w \in Workers, NEW next \in PCs, Goto(w, next), Busy(w)
    PROVE  Leased'
  BY DEF Shape, Leased, Busy, Goto, Workers

LEMMA LeaseStep == Shape /\ Leased /\ [Next]_vars => Leased'
<1> SUFFICES ASSUME Shape, Leased, [Next]_vars PROVE Leased'
    OBVIOUS
<1> USE LimitsAssumption, WorkersAssumption, GensNat DEF rowVars
<1>1. CASE UNCHANGED vars
    BY <1>1 DEF vars, Leased, Busy
<1>2. CASE Tick
    <2> SUFFICES ASSUME ~overrun', gen' = 0, NEW p \in Pollers, Busy(p)'
                 PROVE  /\ lease'[p] > 0
                        /\ status' = "pending" => wait' >= lease'[p]
                        /\ \A q \in Pollers : Busy(q)' => p = q
        BY DEF Leased
    <2>1. ~overrun /\ gen = 0 /\ Busy(p) /\ lease[p] # 1 /\ UNCHANGED <<status, pc>>
        BY <1>2 DEF Tick, Busy
    <2>2. /\ lease[p] > 0
          /\ status = "pending" => wait >= lease[p]
          /\ \A q \in Pollers : Busy(q) => p = q
        BY <2>1 DEF Leased
    <2>3. lease'[p] = lease[p] - 1 /\ wait' = IF wait = 0 THEN 0 ELSE wait - 1
        BY <1>2, <2>2 DEF Tick, Less, Shape
    <2>4. QED
        BY <2>1, <2>2, <2>3 DEF Shape, TypeOK, Busy
<1>3. CASE Rotate \/ \E t \in Tokens : Retire(t)
    BY <1>3 DEF Rotate, Retire, Leased, Busy
<1>4. ASSUME NEW a \in Attempts, Resend(a) PROVE Leased'
    <2>1. gen' # 0
        BY <1>4 DEF Resend, Shape, TypeOK
    <2>2. QED
        BY <2>1 DEF Leased
<1>5. ASSUME NEW p \in Pollers, Claim(p) PROVE Leased'
    <2>1. /\ status = "pending" /\ wait = 0 /\ wait' = Lease
          /\ lease' = [lease EXCEPT ![p] = Lease] /\ UNCHANGED <<gen, overrun>>
          /\ pc' = [pc EXCEPT ![p] = "build"]
        BY <1>5 DEF Claim, ClaimWith, Goto
    <2>2. ~overrun /\ gen = 0 => \A q \in Pollers : ~Busy(q)
        BY <2>1 DEF Leased, Shape, TypeOK
    <2>3. \A q \in Pollers : q # p => (Busy(q)' <=> Busy(q))
        BY <2>1 DEF Busy, Shape, Workers
    <2>4. lease'[p] = Lease /\ wait' >= lease'[p]
        BY <2>1 DEF Shape, TypeOK
    <2>5. QED
        BY <2>1, <2>2, <2>3, <2>4 DEF Leased
<1>6. ASSUME NEW w \in Workers, MarkSent(w) \/ Crash(w) \/ (w \in Pollers /\ MarkFailed(w))
      PROVE  Leased'
    <2>1. Finished(w) /\ UNCHANGED <<gen, overrun>> /\ Busy(w)
        BY <1>6 DEF MarkSent, Crash, MarkFailed, Busy
    <2>2. ~Busy(w)' /\ \A q \in Pollers : q # w =>
              (Busy(q)' <=> Busy(q)) /\ lease'[q] = lease[q]
        BY <2>1 DEF Finished, Goto, Busy, Shape, TypeOK, Workers
    <2>3. CASE w \in Pollers
        <3>1. ~overrun /\ gen = 0 => \A q \in Pollers : ~Busy(q)'
            BY <2>1, <2>2, <2>3 DEF Leased
        <3>2. QED
            BY <2>1, <3>1 DEF Leased
    <2>4. CASE w \notin Pollers
        <3>1. status' = "pending" => status = "pending" /\ wait' = wait
            BY <1>6, <2>4 DEF MarkSent, Crash
        <3>2. QED
            BY <2>1, <2>2, <2>4, <3>1 DEF Leased
    <2>5. QED
        BY <2>3, <2>4
<1>7. ASSUME NEW w \in Workers,
             \/ Fetch(w) \/ Reuse(w) \/ Count(w) \/ LimitReached(w) \/ Mint(w)
             \/ Persist(w) \/ Send(w) \/ Declined(w) \/ Throw(w)
      PROVE  Leased'
    <2>1. /\ UNCHANGED <<status, wait, gen, lease, overrun>> /\ Busy(w)
          /\ \E next \in PCs : Goto(w, next)
        BY <1>7 DEF Fetch, Reuse, Count, LimitReached, Mint, Persist, Send, Declined,
                    Throw, Busy, PCs
    <2>2. QED
        BY <2>1, LeaseFrame
<1>8. QED
    BY <1>1, <1>2, <1>3, <1>4, <1>5, <1>6, <1>7
       DEF Next, Poll, Try, Work, Workers

-----------------------------------------------------------------------------
(* The link of a generation.                                                *)

\* A busy worker of a generation it did not share: nobody else is, and it sends
\* again the link its generation was sent with, if it was.
Handled ==
    \A w \in Workers : Busy(w) /\ job[w].gen \notin shared =>
        /\ \A x \in Workers : Busy(x) /\ job[x].gen = job[w].gen => x = w
        /\ \A m \in mail : m[1] = job[w].gen =>
               /\ pc[w] \notin {"fetch", "mint", "persist", "giveUp"}
               /\ pc[w] = "build" => Stored(w) /\ m[2] = job[w].payload.token
               /\ pc[w] \in {"send", "markSent"} => m[2] = job[w].token

Holds(t) == payload # Null /\ payload.key = cipher /\ payload.token = t

\* While nobody else is busy the row is what its worker took it for, and a row that
\* can be taken up again holds the link that was sent.
Alone ==
    gen \notin shared =>
        /\ \A w \in Workers : Busy(w) =>
               /\ job[w].gen = gen /\ status = "pending"
               /\ pc[w] = "build" => job[w].payload = payload
               /\ pc[w] \in {"send", "markSent"} => Holds(job[w].token)
        /\ status = "pending" => \A m \in mail : m[1] = gen => Holds(m[2])

Past == /\ \A w \in Workers : job[w].gen <= gen
        /\ \A m \in mail : m[1] <= gen

Linked == RetriesKeepTheLink /\ Handled /\ Alone

LinkInv == Past /\ (cipher = 0 => Linked)

LEMMA LinkInit == Init => LinkInv
<1> SUFFICES ASSUME Init PROVE LinkInv
    OBVIOUS
<1>1. Past
    BY DEF Init, NoJob, Past
<1>2. RetriesKeepTheLink
    BY DEF Init, RetriesKeepTheLink
<1>3. PICK a \in Attempts : pc = [w \in Workers |-> IF w = a THEN "fetch" ELSE "idle"]
    BY DEF Init
<1>4. /\ \A w \in Workers : Busy(w) => w = a /\ pc[w] = "fetch"
      /\ gen = 0 /\ status = "pending" /\ mail = {} /\ job = [w \in Workers |-> NoJob]
    BY <1>3 DEF Init, Busy
<1>5. Handled /\ Alone
    BY <1>4 DEF Handled, Alone, NoJob
<1>6. QED
    BY <1>1, <1>2, <1>5 DEF LinkInv, Linked

\* A step of one busy worker that leaves the emails and the row alone.
LEMMA WorkerFrame ==
    ASSUME Shape, Linked, NEW w \in Workers, Busy(w),
           UNCHANGED <<mail, shared, cipher, gen, status, payload>>,
           \A x \in Workers : x # w => pc'[x] = pc[x] /\ job'[x] = job[x],
           Busy(w)' => job'[w].gen = job[w].gen,
           Busy(w)' => \A m \in mail : m[1] = job[w].gen /\ job[w].gen \notin shared =>
               /\ pc'[w] \notin {"fetch", "mint", "persist", "giveUp"}
               /\ pc'[w] = "build" => Stored(w)' /\ m[2] = job'[w].payload.token
               /\ pc'[w] \in {"send", "markSent"} => m[2] = job'[w].token,
           gen \notin shared =>
               /\ pc'[w] = "build" => job'[w].payload = payload
               /\ pc'[w] \in {"send", "markSent"} => Holds(job'[w].token)
    PROVE  Linked'
<1>1. RetriesKeepTheLink'
    BY DEF Linked, RetriesKeepTheLink
<1>2. Handled'
  <2> SUFFICES ASSUME NEW x \in Workers, Busy(x)', job'[x].gen \notin shared
               PROVE  /\ \A y \in Workers : Busy(y)' /\ job'[y].gen = job'[x].gen => y = x
                      /\ \A m \in mail : m[1] = job'[x].gen =>
                             /\ pc'[x] \notin {"fetch", "mint", "persist", "giveUp"}
                             /\ pc'[x] = "build" =>
                                    Stored(x)' /\ m[2] = job'[x].payload.token
                             /\ pc'[x] \in {"send", "markSent"} => m[2] = job'[x].token
      BY DEF Handled
  <2>1. \A y \in Workers : Busy(y)' => Busy(y) /\ job'[y].gen = job[y].gen
      BY DEF Busy
  <2>2. \A y \in Workers : Busy(y)' /\ job'[y].gen = job'[x].gen => y = x
      BY <2>1 DEF Linked, Handled
  <2>3. CASE x = w
      BY <2>1, <2>2, <2>3
  <2>4. CASE x # w
      BY <2>1, <2>2, <2>4 DEF Linked, Handled, Stored
  <2>5. QED
      BY <2>3, <2>4
<1>3. Alone'
  <2>1. \A t : Holds(t)' <=> Holds(t)
      BY DEF Holds
  <2>2. ASSUME gen \notin shared, NEW x \in Workers, Busy(x)'
        PROVE  /\ job'[x].gen = gen /\ status = "pending"
               /\ pc'[x] = "build" => job'[x].payload = payload
               /\ pc'[x] \in {"send", "markSent"} => Holds(job'[x].token)
    <3>1. Busy(x) /\ job'[x].gen = job[x].gen
        BY <2>2 DEF Busy
    <3>2. CASE x = w
        BY <2>2, <3>1, <3>2 DEF Linked, Alone
    <3>3. CASE x # w
        BY <2>2, <3>1, <3>3 DEF Linked, Alone
    <3>4. QED
        BY <3>2, <3>3
  <2>3. gen \notin shared /\ status = "pending" =>
            \A m \in mail : m[1] = gen => Holds(m[2])
      BY DEF Linked, Alone
  <2>4. QED
      BY <2>1, <2>2, <2>3 DEF Alone
<1>4. QED
    BY <1>1, <1>2, <1>3 DEF Linked

\* Taking a generation up with nobody else busy; with somebody, it is shared.
LEMMA TakeUp ==
    ASSUME Shape, Past, Linked, NEW w \in Workers, ~Busy(w), NEW g \in Gens,
           NEW next \in {"fetch", "build"},
           Share(w, g), Goto(w, next), UNCHANGED <<mail, cipher>>,
           gen' = g, g >= gen, status' = "pending",
           \A x \in Workers : x # w => job'[x] = job[x],
           job'[w].gen = g,
           next = "build" => job'[w].payload = payload',
           g \notin shared => \A m \in mail : m[1] = g =>
               /\ next = "build" /\ Holds(m[2])'
    PROVE  Linked'
<1> USE DEF Goto
<1>1. /\ pc'[w] = next /\ Busy(w)'
      /\ \A x \in Workers : x # w => pc'[x] = pc[x] /\ (Busy(x)' <=> Busy(x))
    BY DEF Shape, TypeOK, Busy
<1>2. /\ shared \subseteq shared'
      /\ g \notin shared' => \A x \in Workers : ~Busy(x)
      /\ \A h \in shared' : h \in shared \/ h = g
    BY DEF Share
<1>3. RetriesKeepTheLink'
    BY <1>2 DEF Linked, RetriesKeepTheLink
<1>4. Handled'
  <2> SUFFICES ASSUME NEW x \in Workers, Busy(x)', job'[x].gen \notin shared'
               PROVE  /\ \A y \in Workers : Busy(y)' /\ job'[y].gen = job'[x].gen => y = x
                      /\ \A m \in mail : m[1] = job'[x].gen =>
                             /\ pc'[x] \notin {"fetch", "mint", "persist", "giveUp"}
                             /\ pc'[x] = "build" =>
                                    Stored(x)' /\ m[2] = job'[x].payload.token
                             /\ pc'[x] \in {"send", "markSent"} => m[2] = job'[x].token
      BY DEF Handled
  <2>1. CASE x = w
    <3>1. g \notin shared' /\ g \notin shared /\ \A y \in Workers : ~Busy(y)
        BY <1>2, <2>1
    <3>2. \A y \in Workers : Busy(y)' => y = w
        BY <1>1, <3>1
    <3>3. QED
        BY <1>1, <2>1, <3>1, <3>2 DEF Holds, Stored
  <2>2. CASE x # w
    <3>1. Busy(x) /\ job'[x] = job[x] /\ job[x].gen \notin shared
        BY <1>1, <1>2, <2>2
    <3>2. job[x].gen # g
        BY <1>2, <3>1
    <3>3. QED
        BY <1>1, <2>2, <3>1, <3>2 DEF Linked, Handled, Stored
  <2>3. QED
      BY <2>1, <2>2
<1>5. Alone'
  <2>1. ASSUME gen' \notin shared'
        PROVE  /\ \A x \in Workers : Busy(x)' => x = w
               /\ \A m \in mail : m[1] = g => Holds(m[2])'
      BY <1>1, <1>2, <2>1
  <2>2. QED
      BY <1>1, <2>1 DEF Alone
<1>6. QED
    BY <1>3, <1>4, <1>5 DEF Linked

LEMMA LinkStep == Shape /\ LinkInv /\ [Next]_vars => LinkInv'
<1> SUFFICES ASSUME Shape, LinkInv, [Next]_vars PROVE LinkInv'
    OBVIOUS
<1> USE DEF rowVars
<1>1. CASE UNCHANGED vars \/ Tick \/ \E t \in Tokens : Retire(t)
  <2>1. UNCHANGED <<status, gen, payload, cipher, pc, job, mail, shared>>
      BY <1>1 DEF vars, Tick, Retire
  <2>2. QED
      BY <2>1 DEF LinkInv, Linked, Past, RetriesKeepTheLink, Handled, Alone, Holds, Stored,
                  Busy
<1>2. CASE Rotate
  <2>1. cipher' # 0 /\ UNCHANGED <<gen, job, mail>>
      BY <1>2 DEF Rotate, Shape, TypeOK
  <2>2. QED
      BY <2>1 DEF LinkInv, Past
<1>3. ASSUME NEW a \in Attempts, Resend(a) PROVE LinkInv'
  <2>1. /\ gen' = gen + 1 /\ gen + 1 \in Gens /\ gen \in Nat /\ status' = "pending"
        /\ Share(a, gen + 1) /\ Goto(a, "fetch") /\ UNCHANGED <<mail, cipher>>
        /\ a \in Workers /\ ~Busy(a)
        /\ job' = [job EXCEPT ![a] = [NoJob EXCEPT !.gen = gen + 1]]
      BY <1>3, GensNat DEF Resend, Workers, Busy, Shape, TypeOK, Gens
  <2>2. /\ job'[a].gen = gen + 1
        /\ \A x \in Workers : x # a => job'[x] = job[x]
      BY <2>1 DEF NoJob, Shape, TypeOK
  <2>3. /\ \A m \in mail : m[1] \in Nat /\ m[1] <= gen
        /\ \A x \in Workers : job[x].gen \in Nat /\ job[x].gen <= gen
      BY GensNat DEF LinkInv, Past, Shape, TypeOK, Job
  <2>4. Past'
      BY <2>1, <2>2, <2>3 DEF Past
  <2>5. cipher = 0 => Linked'
    <3> SUFFICES ASSUME Linked PROVE Linked'
        BY DEF LinkInv
    <3>1. \A m \in mail : m[1] # gen + 1
        BY <2>1, <2>3
    <3>2. QED
        BY <2>1, <2>2, <3>1, TakeUp DEF LinkInv
  <2>6. QED
      BY <2>1, <2>4, <2>5 DEF LinkInv
<1>4. ASSUME NEW p \in Pollers, Claim(p) PROVE LinkInv'
  <2>1. /\ UNCHANGED <<gen, status, payload, mail, cipher>> /\ status = "pending"
        /\ Share(p, gen) /\ Goto(p, "build") /\ p \in Workers /\ ~Busy(p)
        /\ gen \in Gens /\ gen \in Nat
        /\ job' = [job EXCEPT ![p] = [gen |-> gen, attempts |-> attempts,
                                      payload |-> payload, token |-> Null]]
      BY <1>4, GensNat DEF Claim, ClaimWith, Workers, Busy, Shape, TypeOK
  <2>2. /\ job'[p].gen = gen /\ job'[p].payload = payload
        /\ \A x \in Workers : x # p => job'[x] = job[x]
      BY <2>1 DEF Shape, TypeOK
  <2>3. Past'
      BY <2>1, <2>2 DEF Past, LinkInv
  <2>4. ASSUME Linked PROVE Linked'
    <3>1. gen \notin shared => \A m \in mail : m[1] = gen => Holds(m[2])'
        BY <2>1, <2>4 DEF Linked, Alone, Holds
    <3>2. QED
        BY <2>1, <2>2, <2>4, <3>1, TakeUp DEF LinkInv
  <2>5. QED
      BY <2>1, <2>3, <2>4 DEF LinkInv
<1>5. ASSUME NEW a \in Attempts, Fetch(a) PROVE LinkInv'
  <2>1. /\ UNCHANGED <<gen, status, payload, mail, cipher, shared>> /\ a \in Workers
        /\ pc[a] = "fetch" /\ Busy(a) /\ Goto(a, "build")
        /\ job' = [job EXCEPT ![a].payload = IF gen = job[a].gen THEN payload ELSE Null]
      BY <1>5 DEF Fetch, Workers, Busy
  <2>2. /\ pc'[a] = "build" /\ job'[a].gen = job[a].gen
        /\ gen = job[a].gen => job'[a].payload = payload
        /\ \A x \in Workers : x # a => job'[x] = job[x] /\ pc'[x] = pc[x]
      BY <2>1 DEF Shape, TypeOK, Job, Goto
  <2>3. Past'
      BY <2>1, <2>2 DEF Past, LinkInv
  <2>4. ASSUME Linked PROVE Linked'
    <3>1. \A m \in mail : ~(m[1] = job[a].gen /\ job[a].gen \notin shared)
        BY <2>1, <2>4 DEF Linked, Handled
    <3>2. gen \notin shared => job'[a].payload = payload
        BY <2>1, <2>2, <2>4 DEF Linked, Alone
    <3>3. QED
        BY <2>1, <2>2, <2>4, <3>1, <3>2, WorkerFrame
  <2>5. QED
      BY <2>1, <2>3, <2>4 DEF LinkInv
<1>6. ASSUME NEW w \in Workers, Reuse(w) PROVE LinkInv'
  <2>1. /\ UNCHANGED <<gen, status, payload, mail, cipher, shared>>
        /\ pc[w] = "build" /\ Busy(w) /\ Goto(w, "send") /\ Stored(w)
        /\ job' = [job EXCEPT ![w].token = job[w].payload.token]
      BY <1>6 DEF Reuse, Busy
  <2>2. /\ pc'[w] = "send" /\ job'[w].gen = job[w].gen
        /\ job'[w].token = job[w].payload.token
        /\ \A x \in Workers : x # w => job'[x] = job[x] /\ pc'[x] = pc[x]
      BY <2>1 DEF Shape, TypeOK, Job, Goto
  <2>3. Past'
      BY <2>1, <2>2 DEF Past, LinkInv
  <2>4. ASSUME Linked PROVE Linked'
    <3>1. \A m \in mail : m[1] = job[w].gen /\ job[w].gen \notin shared =>
              m[2] = job'[w].token
        BY <2>1, <2>2, <2>4 DEF Linked, Handled
    <3>2. gen \notin shared => Holds(job'[w].token)
        BY <2>1, <2>2, <2>4 DEF Linked, Alone, Stored, Holds
    <3>3. QED
        BY <2>1, <2>2, <2>4, <3>1, <3>2, WorkerFrame
  <2>5. QED
      BY <2>1, <2>3, <2>4 DEF LinkInv
<1>7. ASSUME NEW w \in Workers,
             Count(w) \/ LimitReached(w) \/ Declined(w) \/ Throw(w)
      PROVE  LinkInv'
  <2>1. /\ UNCHANGED <<gen, status, payload, mail, cipher, shared, job>> /\ Busy(w)
        /\ \A x \in Workers : x # w => pc'[x] = pc[x]
        /\ pc'[w] \in {"mint", "giveUp", "done", "markFailed"}
        /\ pc'[w] \in {"mint", "giveUp"} => pc[w] = "build" /\ ~Stored(w)
      BY <1>7 DEF Count, LimitReached, Declined, Throw, Goto, Busy, Shape, TypeOK
  <2>2. Past'
      BY <2>1 DEF Past, LinkInv
  <2>3. ASSUME Linked PROVE Linked'
    <3>1. pc'[w] \in {"mint", "giveUp"} =>
              \A m \in mail : ~(m[1] = job[w].gen /\ job[w].gen \notin shared)
        BY <2>1, <2>3 DEF Linked, Handled
    <3>2. QED
        BY <2>1, <2>3, <3>1, WorkerFrame
  <2>4. QED
      BY <2>1, <2>2, <2>3 DEF LinkInv
<1>8. ASSUME NEW w \in Workers, Mint(w) PROVE LinkInv'
  <2>1. /\ UNCHANGED <<gen, status, payload, mail, cipher, shared>>
        /\ pc[w] = "mint" /\ Busy(w) /\ Goto(w, "persist")
        /\ \E t \in Tokens : job' = [job EXCEPT ![w].token = t]
      BY <1>8 DEF Mint, Busy, Spare
  <2>2. /\ pc'[w] = "persist" /\ job'[w].gen = job[w].gen
        /\ \A x \in Workers : x # w => job'[x] = job[x] /\ pc'[x] = pc[x]
      BY <2>1 DEF Shape, TypeOK, Job, Goto
  <2>3. Past'
      BY <2>1, <2>2 DEF Past, LinkInv
  <2>4. ASSUME Linked PROVE Linked'
    <3>1. \A m \in mail : ~(m[1] = job[w].gen /\ job[w].gen \notin shared)
        BY <2>1, <2>4 DEF Linked, Handled
    <3>2. QED
        BY <2>1, <2>2, <2>4, <3>1, WorkerFrame
  <2>5. QED
      BY <2>1, <2>3, <2>4 DEF LinkInv
<1>9. ASSUME NEW w \in Workers, Persist(w) PROVE LinkInv'
  <2>1. /\ UNCHANGED <<gen, status, mail, cipher, shared, job>>
        /\ pc[w] = "persist" /\ Busy(w) /\ pc' = [pc EXCEPT ![w] = "send"]
        /\ payload' = IF gen = job[w].gen THEN Sealed(w) ELSE payload
        /\ \A x \in Workers : Busy(x)' <=> Busy(x)
      BY <1>9 DEF Persist, Busy, Goto, Shape, TypeOK
  <2>2. Past'
      BY <2>1 DEF Past, LinkInv
  <2>3. ASSUME Linked PROVE Linked'
    <3>1. \A m \in mail : ~(m[1] = job[w].gen /\ job[w].gen \notin shared)
        BY <2>1, <2>3 DEF Linked, Handled
    <3>2. Handled'
        BY <2>1, <2>3, <3>1 DEF Linked, Handled, Stored, Shape, TypeOK
    <3>3. ASSUME gen \notin shared PROVE Holds(job[w].token)' /\ job[w].gen = gen
      <4>1. job[w].gen = gen
          BY <2>1, <2>3, <3>3 DEF Linked, Alone
      <4>2. /\ Sealed(w) \in Payload
            /\ Sealed(w).token = job[w].token /\ Sealed(w).key = cipher
          BY <2>1 DEF Sealed, Shape, TypeOK, Payload, Job, Gens
      <4>3. QED
          BY <2>1, <4>1, <4>2, WorkersAssumption DEF Holds
    <3>4. gen \notin shared => \A x \in Workers : Busy(x) => x = w
        BY <2>1, <2>3 DEF Linked, Alone, Handled
    <3>5. Alone'
        BY <2>1, <2>3, <3>1, <3>3, <3>4 DEF Linked, Alone, Shape, TypeOK
    <3>6. QED
        BY <2>1, <2>3, <3>2, <3>5 DEF Linked, RetriesKeepTheLink
  <2>4. QED
      BY <2>1, <2>2, <2>3 DEF LinkInv
<1>10. ASSUME NEW w \in Workers, Send(w) PROVE LinkInv'
  <2> DEFINE new == <<job[w].gen, job[w].token>>
  <2>1. /\ UNCHANGED <<gen, status, payload, cipher, shared, job>>
        /\ pc[w] = "send" /\ Busy(w) /\ pc' = [pc EXCEPT ![w] = "markSent"]
        /\ mail' = mail \cup {new} /\ new[1] = job[w].gen /\ new[2] = job[w].token
        /\ \A x \in Workers : Busy(x)' <=> Busy(x)
      BY <1>10 DEF Send, Busy, Goto, Shape, TypeOK
  <2> HIDE DEF new
  <2>2. Past'
      BY <2>1 DEF Past, LinkInv
  <2>3. ASSUME Linked PROVE Linked'
    <3>1. job[w].gen \notin shared => \A m \in mail : m[1] = job[w].gen => m[2] = new[2]
        BY <2>1, <2>3 DEF Linked, Handled
    <3>2. Handled'
      <4> SUFFICES ASSUME NEW x \in Workers, Busy(x), job[x].gen \notin shared
                   PROVE  /\ \A y \in Workers : Busy(y) /\ job[y].gen = job[x].gen => y = x
                          /\ \A m \in mail' : m[1] = job[x].gen =>
                               /\ pc'[x] \notin {"fetch", "mint", "persist", "giveUp"}
                               /\ pc'[x] = "build" =>
                                      Stored(x) /\ m[2] = job[x].payload.token
                               /\ pc'[x] \in {"send", "markSent"} => m[2] = job[x].token
          BY <2>1 DEF Handled, Stored
      <4>1. \A y \in Workers : Busy(y) /\ job[y].gen = job[x].gen => y = x
          BY <2>3 DEF Linked, Handled
      <4>2. CASE x = w
          BY <2>1, <3>1, <4>1, <4>2 DEF Shape, TypeOK
      <4>3. CASE x # w
        <5>1. job[x].gen # new[1]
            BY <2>1, <4>1, <4>3
        <5>2. QED
            BY <2>1, <2>3, <4>1, <4>3, <5>1 DEF Linked, Handled, Shape, TypeOK
      <4>4. QED
          BY <4>2, <4>3
    <3>3. Alone'
      <4>1. gen \notin shared => Holds(new[2]) /\ new[1] = gen
          BY <2>1, <2>3 DEF Linked, Alone
      <4>2. \A t : Holds(t)' <=> Holds(t)
          BY <2>1 DEF Holds
      <4>3. QED
          BY <2>1, <2>3, <4>1, <4>2 DEF Linked, Alone, Shape, TypeOK
    <3>4. RetriesKeepTheLink'
        BY <2>1, <2>3, <3>1 DEF Linked, RetriesKeepTheLink
    <3>5. QED
        BY <3>2, <3>3, <3>4 DEF Linked
  <2>4. QED
      BY <2>1, <2>2, <2>3 DEF LinkInv
<1>11. ASSUME NEW w \in Workers,
              MarkSent(w) \/ (w \in Pollers /\ MarkFailed(w)) \/ Crash(w)
       PROVE  LinkInv'
  <2>1. /\ UNCHANGED <<gen, mail, cipher, shared>> /\ Busy(w) /\ ~Busy(w)'
        /\ \A x \in Workers : x # w =>
               pc'[x] = pc[x] /\ job'[x] = job[x] /\ (Busy(x)' <=> Busy(x))
        /\ job'[w] = NoJob
        /\ status' = "pending" => payload' = payload
      BY <1>11 DEF MarkSent, MarkFailed, Crash, Finished, Goto, Busy, Shape, TypeOK
  <2>2. Past'
    <3>1. 0 <= gen
        BY GensNat DEF Shape, TypeOK
    <3>2. QED
        BY <2>1, <3>1 DEF Past, LinkInv, NoJob
  <2>3. ASSUME Linked PROVE Linked'
    <3>1. Handled'
        BY <2>1, <2>3 DEF Linked, Handled, Stored
    <3>2. gen \notin shared => status = "pending" /\ \A x \in Workers : ~Busy(x)'
        BY <2>1, <2>3 DEF Linked, Alone, Handled
    <3>3. Alone'
        BY <2>1, <2>3, <3>2 DEF Linked, Alone, Holds
    <3>4. QED
        BY <2>1, <2>3, <3>1, <3>3 DEF Linked, RetriesKeepTheLink
  <2>4. QED
      BY <2>1, <2>2, <2>3 DEF LinkInv
<1>12. QED
    BY <1>1, <1>2, <1>3, <1>4, <1>5, <1>6, <1>7, <1>8, <1>9, <1>10, <1>11
       DEF Next, Poll, Try, Work, Workers

-----------------------------------------------------------------------------

LEMMA OutboxStep == OutboxInv /\ [Next]_vars => OutboxInv'
  BY ShapeStep, RowStep, LeaseStep DEF OutboxInv

\* Type correctness of the outbox: whoever persists or sends has a token, every
\* job and payload is of the generation and key it was built under.
THEOREM OutboxTypes == Spec => []TypeOK
<1>1. OutboxInv => TypeOK
    BY DEF OutboxInv, Shape
<1>2. QED
    BY <1>1, OutboxInit, OutboxStep, PTL DEF Spec

\* A row that can still be polled has an attempt left, however many workers
\* book their outcome late: MARK_NOTIFICATION_FAILED compares in its own UPDATE.
THEOREM NothingPastTheCap == Spec => []PendingBelowCap
  BY OutboxInit, OutboxStep, PTL DEF Spec, OutboxInv

\* The stored payload is always the current generation's: no superseded worker
\* leaves its link for the resend that followed.
THEOREM NoStalePayload == Spec => []PayloadOfGeneration
  BY OutboxInit, OutboxStep, PTL DEF Spec, OutboxInv

\* Within its lease a runOnce call has the row to itself among the pollers, until
\* the user asks for a resend.
THEOREM OnePollerPerLease == Spec => []LeaseExcludes
<1>1. OutboxInv => LeaseExcludes
    BY DEF OutboxInv, Leased, LeaseExcludes
<1>2. QED
    BY <1>1, OutboxInit, OutboxStep, PTL DEF Spec

\* As long as the key was not rotated, all emails of a generation that nobody
\* took up beside a busy worker carry one link: the payload is stored before
\* the first send, and every retry, after an error or a crash, sends it again.
THEOREM OneLinkPerGeneration == Spec => []RetriesKeepTheLink
<1>1. LinkInv => RetriesKeepTheLink
    BY DEF LinkInv, Linked, RetriesKeepTheLink
<1>2. OutboxInv => Shape
    BY DEF OutboxInv
<1>3. QED
    BY <1>1, <1>2, OutboxInit, OutboxStep, LinkInit, LinkStep, PTL DEF Spec

-----------------------------------------------------------------------------
(* Every poll runs out of awaits and is booked.                            *)

LeftAt(place) ==
    CASE place \in {"idle", "done"} -> 0
      [] place = "markFailed" -> 1
      [] place \in {"markSent", "giveUp"} -> 2
      [] place = "send"    -> 3
      [] place = "persist" -> 4
      [] place = "mint"    -> 5
      [] place = "build"   -> 6
      [] place = "fetch"   -> 7

Left(w) == LeftAt(pc[w])

Act(w) == (w \in Attempts /\ Fetch(w)) \/ Work(w) \/ (w \in Pollers /\ MarkFailed(w))

\* A busy worker's own step brings it nearer to its end and nobody sends it back;
\* a poll that has taken the row up ends by booking an attempt, unless it died.
PollsEndBooked ==
    /\ \A w \in Workers : /\ Busy(w) => Left(w)' <= Left(w)
                          /\ Act(w) => Left(w)' < Left(w)
    /\ \A p \in Pollers : Busy(p) /\ ~Busy(p)' =>
           attempts' = attempts + 1 \/ crashes' = crashes + 1

LEMMA LeftValues ==
    /\ LeftAt("idle") = 0 /\ LeftAt("done") = 0 /\ LeftAt("markFailed") = 1
    /\ LeftAt("markSent") = 2 /\ LeftAt("giveUp") = 2 /\ LeftAt("send") = 3
    /\ LeftAt("persist") = 4 /\ LeftAt("mint") = 5 /\ LeftAt("build") = 6
    /\ LeftAt("fetch") = 7
<1>1. LeftAt("idle") = 0 /\ LeftAt("done") = 0 /\ LeftAt("markFailed") = 1
    BY DEF LeftAt
<1>2. LeftAt("markSent") = 2 /\ LeftAt("giveUp") = 2 /\ LeftAt("send") = 3
    BY DEF LeftAt
<1>3. LeftAt("persist") = 4 /\ LeftAt("mint") = 5
    BY DEF LeftAt
<1>4. LeftAt("build") = 6 /\ LeftAt("fetch") = 7
    BY DEF LeftAt
<1>5. QED
    BY <1>1, <1>2, <1>3, <1>4

LEMMA OwnActNearer ==
    ASSUME TypeOK, NEW w \in Workers, Act(w)
    PROVE  /\ Left(w)' < Left(w)
           /\ \A x \in Workers : x # w => pc'[x] = pc[x]
           /\ w \in Pollers /\ pc'[w] \in {"idle", "done"} => attempts' = attempts + 1
<1> USE DEF TypeOK, Goto
<1>1. CASE w \in Attempts /\ Fetch(w)
  <2>1. /\ pc[w] = "fetch" /\ pc'[w] = "build"
        /\ \A x \in Workers : x # w => pc'[x] = pc[x]
      BY <1>1 DEF Fetch
  <2>2. QED
      BY <2>1, LeftValues DEF Left
<1>2. CASE MarkSent(w) \/ (w \in Pollers /\ MarkFailed(w))
  <2>1. /\ pc[w] \in {"markSent", "giveUp", "markFailed"} /\ pc'[w] \in {"idle", "done"}
        /\ attempts' = attempts + 1
        /\ \A x \in Workers : x # w => pc'[x] = pc[x]
      BY <1>2 DEF MarkSent, MarkFailed, Finished
  <2>2. QED
      BY <2>1, LeftValues DEF Left
<1>3. CASE LimitReached(w) \/ Declined(w) \/ Throw(w)
  <2>1. /\ pc[w] \in {"fetch", "build", "mint", "persist", "send", "markSent", "giveUp"}
        /\ pc[w] \notin {"build"} => pc'[w] = IF w \in Pollers THEN "markFailed" ELSE "done"
        /\ pc'[w] \in {"markFailed", "giveUp", "done"}
        /\ w \in Pollers => pc'[w] # "done"
        /\ \A x \in Workers : x # w => pc'[x] = pc[x]
      BY <1>3 DEF LimitReached, Declined, Throw
  <2>2. QED
      BY <2>1, LeftValues DEF Left
<1>4. CASE Reuse(w) \/ Count(w) \/ Mint(w) \/ Persist(w) \/ Send(w)
  <2>1. /\ \/ pc[w] = "build" /\ pc'[w] \in {"send", "mint"}
           \/ pc[w] = "mint" /\ pc'[w] = "persist"
           \/ pc[w] = "persist" /\ pc'[w] = "send"
           \/ pc[w] = "send" /\ pc'[w] = "markSent"
        /\ \A x \in Workers : x # w => pc'[x] = pc[x]
      BY <1>4 DEF Reuse, Count, Mint, Persist, Send
  <2>2. QED
      BY <2>1, LeftValues DEF Left
<1>5. QED
    BY <1>1, <1>2, <1>3, <1>4 DEF Act, Work

\* Within a generation the attempts are only counted up; a resend alone starts
\* the count again, and with it a new generation.
AttemptsOnlyGrow ==
    \/ gen' = gen /\ attempts' >= attempts
    \/ gen' = gen + 1 /\ attempts' = 0 /\ status' = "pending"

LEMMA AttemptsGrow == ASSUME TypeOK, Next PROVE AttemptsOnlyGrow
<1> USE DEF AttemptsOnlyGrow, TypeOK, rowVars
<1>1. CASE Tick \/ Rotate \/ \E t \in Tokens : Retire(t)
    BY <1>1 DEF Tick, Rotate, Retire
<1>2. ASSUME NEW a \in Attempts, Resend(a) PROVE AttemptsOnlyGrow
    BY <1>2 DEF Resend, Gens
<1>3. ASSUME NEW w \in Workers, (w \in Pollers /\ Claim(w)) \/ Crash(w)
      PROVE  AttemptsOnlyGrow
    BY <1>3 DEF Claim, ClaimWith, Crash
<1>4. ASSUME NEW w \in Workers, Act(w) PROVE AttemptsOnlyGrow
  <2>1. CASE MarkSent(w) \/ MarkFailed(w)
      BY <2>1 DEF MarkSent, MarkFailed
  <2>2. CASE ~MarkSent(w) /\ ~MarkFailed(w)
      BY <1>4, <2>2 DEF Act, Work, Fetch, Reuse, Count, LimitReached, Mint, Persist, Send,
         Declined, Throw
  <2>3. QED
      BY <2>1, <2>2
<1>5. QED
    BY <1>1, <1>2, <1>3, <1>4 DEF Next, Poll, Try, Act, Workers

\* No poll hangs and none forgets its outcome: within six awaits of taking the row
\* up it has marked it sent or booked a failure, or its process has died; and as the
\* attempts of a generation are only counted up, and a pending row is below the cap
\* (NothingPastTheCap), once MaxAttempts have been booked it is never polled again.
THEOREM PollsRunOut == Spec => [][PollsEndBooked /\ AttemptsOnlyGrow]_vars
<1>1. TypeOK /\ [Next]_vars => [PollsEndBooked /\ AttemptsOnlyGrow]_vars
  <2> SUFFICES ASSUME TypeOK, Next PROVE PollsEndBooked
      BY AttemptsGrow
  <2>1. \A w \in Workers : Left(w) \in 0 .. 7 /\ (Busy(w) => Left(w) > 0)
      BY LeftValues DEF Left, Busy, TypeOK, PCs
  <2>2. \A w \in Workers : Act(w) => Left(w)' < Left(w)
      BY OwnActNearer
  <2>3. ASSUME NEW w \in Workers, pc'[w] = pc[w]
        PROVE  Left(w)' <= Left(w) /\ (Busy(w)' <=> Busy(w))
      BY <2>1, <2>3 DEF Left, Busy
  <2>4. CASE Tick \/ Rotate \/ \E t \in Tokens : Retire(t)
    <3>1. pc' = pc /\ \A w \in Workers : ~Act(w) \/ Left(w)' < Left(w)
        BY <2>2, <2>4 DEF Tick, Rotate, Retire, rowVars
    <3>2. QED
        BY <2>3, <3>1, <2>2 DEF PollsEndBooked, Workers
  <2>5. ASSUME NEW w \in Workers, Act(w) PROVE PollsEndBooked
    <3>1. \A x \in Workers : x # w => Left(x)' <= Left(x) /\ (Busy(x)' <=> Busy(x))
        BY <2>3, <2>5, OwnActNearer
    <3>2. Left(w)' <= Left(w)
      <4>1. Left(w)' < Left(w)
          BY <2>2, <2>5
      <4>2. Left(w) \in Nat /\ Left(w)' \in Nat
        <5>1. pc'[w] \in PCs
            BY <2>5 DEF Act, Work, Fetch, Reuse, Count, LimitReached, Mint, Persist, Send,
               Declined, MarkSent, Throw, MarkFailed, Finished, Goto, TypeOK, PCs
        <5>2. QED
            BY <2>1, <5>1, LeftValues DEF Left, PCs
      <4>3. QED
          BY <4>1, <4>2
    <3>3. w \in Pollers /\ ~Busy(w)' => attempts' = attempts + 1
        BY <2>5, OwnActNearer DEF Busy
    <3>4. QED
        BY <2>2, <3>1, <3>2, <3>3 DEF PollsEndBooked, Workers
  <2>6. ASSUME NEW w \in Workers, ~Busy(w), \A x \in Workers : x # w => pc'[x] = pc[x]
        PROVE  PollsEndBooked
    <3>1. \A x \in Workers : Busy(x) => Left(x)' <= Left(x) /\ Busy(x)'
        BY <2>3, <2>6
    <3>2. QED
        BY <2>2, <3>1 DEF PollsEndBooked, Workers
  <2>7. ASSUME NEW w \in Workers, Crash(w) PROVE PollsEndBooked
    <3>1. /\ crashes' = crashes + 1 /\ pc'[w] \in {"idle", "done"}
          /\ \A x \in Workers : x # w => pc'[x] = pc[x]
        BY <2>7 DEF Crash, Finished, Goto, TypeOK
    <3>2. Left(w)' = 0
        BY <3>1, LeftValues DEF Left
    <3>3. \A x \in Workers : Left(x)' <= Left(x)
        BY <2>1, <2>3, <3>1, <3>2
    <3>4. QED
        BY <2>2, <3>1, <3>3 DEF PollsEndBooked
  <2>8. ASSUME NEW w \in Workers, (w \in Pollers /\ Claim(w)) \/ (w \in Attempts /\ Resend(w))
        PROVE  PollsEndBooked
    <3>1. ~Busy(w) /\ \A x \in Workers : x # w => pc'[x] = pc[x]
        BY <2>8 DEF Claim, ClaimWith, Resend, Busy, Goto, TypeOK
    <3>2. QED
        BY <2>6, <3>1
  <2>9. QED
      BY <2>4, <2>5, <2>7, <2>8 DEF Next, Poll, Try, Act, Workers
<1>2. QED
    BY <1>1, OutboxTypes, PTL DEF Spec
=============================================================================
