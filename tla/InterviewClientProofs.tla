------------------------ MODULE InterviewClientProofs ------------------------
(***************************************************************************)
(* Theorems about InterviewClient: its types, and that the screen, the     *)
(* chains and the server agree, for any questions and options and any      *)
(* number of edits, losses and resumes.                                    *)
(***************************************************************************)
EXTENDS InterviewClient, WellFoundedInduction, TLAPS

\* What TypeOK says value by value, said of the functions.
Shape ==
    /\ server \in [Slots -> AllValues] /\ confirmed \in [Slots -> AllValues]
    /\ overlay \in [Slots -> AllValues \cup {Null}]
    /\ requestedVersion \in [0..MaxResumes -> [Slots -> Nat]]
    /\ confirmedVersion \in [0..MaxResumes -> [Slots -> Nat]]
    /\ requested \in [Slots -> Nat] /\ acked \in [Slots -> Nat]
    /\ intent \in [Questions -> (SUBSET Options) \cup {Null}]
    /\ snapshot = Null \/ snapshot \in [Slots -> AllValues]
    /\ \A s \in Slots : requested[s] <= edits
    /\ \A run \in runs : run.epoch <= run.state /\ run.state <= epoch
    /\ page \in {"away", "loading"} => epoch < MaxResumes

TypeInv == TypeOK /\ Shape

\* The runs of a slot are numbered between what is confirmed and what was
\* requested; only the first of them is out, and a stored one is the server's.
Chains ==
    /\ \A s \in Slots : acked[s] <= requested[s]
    /\ \A run \in runs :
           /\ run.epoch = epoch
           /\ run.version > acked[run.slot] /\ run.version <= requested[run.slot]
           /\ run.at = "stored" => server[run.slot] = run.value
    /\ \A run, other \in runs : run.slot = other.slot =>
           /\ run.version = other.version => run = other
           /\ run.at # "queued" => other.version >= run.version

\* A slot whose latest request was confirmed shows what is stored; an overlay
\* is that of the latest request, as long as it is out.
Views ==
    \A s \in Slots :
        /\ acked[s] = requested[s] => confirmed[s] = server[s]
        /\ (\A run \in runs : run.slot = s => run.version # requested[s])
               => overlay[s] = Null
        /\ \A run \in runs : run.slot = s /\ run.version = requested[s]
               => overlay[s] = run.value

\* The marks of answers that are not stored are on the displayed question.
Marks ==
    /\ saving \cup failed \subseteq {cur}
    /\ \A q \in Questions : \A run \in runs :
           run.slot = Answer(q) /\ run.version = requested[Answer(q)] => q \in saving
    /\ \A q \in failed : acked[Answer(q)] < requested[Answer(q)]

\* Nobody edits while a submission is on, and a resume finds nothing in flight.
Pages ==
    /\ stage # "none" => locked \/ page = "away"
    /\ page = "loading" => runs = {} /\ stage = "none"
    /\ page = "loading" => snapshot = Null \/ snapshot = server
    /\ page # "loading" => snapshot = Null
    /\ stage = "posting" =>
           \A q \in Questions : acked[Answer(q)] = requested[Answer(q)]

Agreement == Chains /\ Views /\ Marks /\ Pages

ClientInv == TypeInv /\ (~crossed => Agreement)

-----------------------------------------------------------------------------
(* Slots and values.                                                       *)

LEMMA SlotFacts ==
    /\ \A s \in Slots : s[1] \in {"answer", "flag"} /\ s[2] \in Questions
    /\ \A q \in Questions : Answer(q) \in Slots /\ Answer(q)[1] = "answer" /\ Answer(q)[2] = q
    /\ \A q, r \in Questions : Answer(q) = Answer(r) => q = r
    /\ \A s \in Slots : s[1] = "answer" => s = Answer(s[2])
    /\ \A s : s \in AnswerSlots <=> \E q \in Questions : s = Answer(q)
  BY DEF Slots, Answer, AnswerSlots

LEMMA ValueFacts ==
    /\ \A s \in Slots : Values(s) \subseteq AllValues
    /\ \A s \in Slots : s[1] = "answer" => Values(s) = SUBSET Options
    /\ Null \notin AllValues
    /\ \A s \in Slots : {} \in Values(s)
<1>1. \A s \in Slots : Values(s) = SUBSET Options \/ Values(s) = SUBSET {"marked"}
    BY DEF Values
<1>2. {} \in SUBSET Options /\ {} \in SUBSET {"marked"}
    OBVIOUS
<1>3. \A s \in Slots : Values(s) \subseteq AllValues /\ {} \in Values(s)
  <2>1. SUBSET Options \subseteq AllValues /\ SUBSET {"marked"} \subseteq AllValues
      BY Zenon DEF AllValues
  <2>2. QED
      BY <1>1, <1>2, <2>1
<1>4. Null \notin AllValues
    BY ClientAssumption DEF AllValues
<1>5. QED
    BY <1>3, <1>4 DEF Values

LEMMA IntentFacts ==
    ASSUME NEW f \in [Questions -> (SUBSET Options) \cup {Null}]
    PROVE  /\ \A q \in Questions : f[q] = Null \/ f[q] \in SUBSET Options
           /\ \A q \in Questions :
                  [f EXCEPT ![q] = Null] \in [Questions -> (SUBSET Options) \cup {Null}]
<1> DEFINE Intents == (SUBSET Options) \cup {Null}
<1>1. /\ Null \in Intents
      /\ \A x : x \in Intents => x = Null \/ x \in SUBSET Options
    BY Zenon
<1>2. f \in [Questions -> Intents]
    OBVIOUS
<1> HIDE DEF Intents
<1>3. /\ \A q \in Questions : f[q] \in Intents
      /\ \A q \in Questions : [f EXCEPT ![q] = Null] \in [Questions -> Intents]
    BY <1>1, <1>2
<1>4. QED
    BY <1>1, <1>3, Zenon DEF Intents

\* A click asks for a value of its slot.
LEMMA ClickFacts ==
    ASSUME TypeInv, NEW s \in Slots
    PROVE  Clicks(s) \subseteq Values(s)
<1>1. Shown(s) \in Values(s)
    BY DEF TypeInv, TypeOK, Shown
<1>2. CASE s[1] = "flag"
    BY <1>1, <1>2 DEF Clicks, Toggle, Values
<1>3. CASE s[1] # "flag"
  <2>1. s[1] = "answer"
      BY <1>3, SlotFacts
  <2>2. \A o \in Options : Toggle(Shown(s), o) \in SUBSET Options
      BY <1>1, <2>1 DEF Toggle, Values
  <2>3. QED
      BY <1>3, <2>1, <2>2 DEF Clicks, Values
<1>4. QED
    BY <1>2, <1>3

LEMMA RunFacts ==
    ASSUME TypeInv, NEW run \in runs
    PROVE  /\ run.slot \in Slots /\ run.version \in 1..MaxEdits
           /\ run.epoch \in 0..MaxResumes /\ run.state \in 0..MaxResumes
           /\ run.epoch <= run.state /\ run.state <= epoch
           /\ run.value \in Values(run.slot) /\ run.value \in AllValues
           /\ run.at \in {"queued", "sent", "stored"}
  BY ValueFacts DEF TypeInv, TypeOK, RunType, Shape

\* A run that is sent or stored is the same run otherwise; sending takes the object
\* of now.
MovedFrom(run, moved) ==
    /\ moved.slot = run.slot /\ moved.version = run.version
    /\ moved.epoch = run.epoch /\ moved.value = run.value
    /\ moved.state \in {run.state, epoch}
    /\ \/ run.at = "queued" /\ moved.at = "sent"
       \/ run.at = "sent" /\ moved.at = "stored"

Moves(run, moved) ==
    /\ MovedFrom(run, moved)
    /\ runs' = (runs \ {run}) \cup {moved}
    /\ moved.at = "stored" => server' = [server EXCEPT ![run.slot] = run.value]
    /\ moved.at = "sent" => server' = server

LEMMA MovesRun ==
    ASSUME TypeInv, NEW run \in runs, Send(run) \/ StoreWrite(run)
    PROVE  \E moved \in RunType : Moves(run, moved)
<1>1. run \in RunType /\ epoch \in 0..MaxResumes
    BY DEF TypeInv, TypeOK
<1>2. CASE Send(run)
  <2> DEFINE moved == [run EXCEPT !.at = "sent", !.state = epoch]
  <2>1. moved \in RunType /\ MovedFrom(run, moved) /\ moved.at = "sent"
      BY <1>1, <1>2 DEF RunType, MovedFrom, Send
  <2>2. runs' = (runs \ {run}) \cup {moved} /\ server' = server
      BY <1>2 DEF Send, serverVars
  <2> HIDE DEF moved
  <2>3. QED
      BY <2>1, <2>2 DEF Moves
<1>3. CASE StoreWrite(run)
  <2> DEFINE moved == [run EXCEPT !.at = "stored"]
  <2>1. moved \in RunType /\ MovedFrom(run, moved) /\ moved.at = "stored"
      BY <1>1, <1>3 DEF RunType, MovedFrom, StoreWrite
  <2>2. runs' = (runs \ {run}) \cup {moved} /\ server' = [server EXCEPT ![run.slot] = run.value]
      BY <1>3 DEF StoreWrite, At
  <2> HIDE DEF moved
  <2>3. QED
      BY <2>1, <2>2 DEF Moves
<1>4. QED
    BY <1>2, <1>3

-----------------------------------------------------------------------------
(* The versions of now, as each kind of step leaves them.                  *)

LEMMA InitCounts ==
    ASSUME Init
    PROVE  requested = [s \in Slots |-> 0] /\ acked = requested
<1>1. 0 \in 0..MaxResumes
    BY ClientAssumption
<1>2. QED
    BY <1>1 DEF Init, requested, acked

LEMMA SameCounts ==
    ASSUME UNCHANGED <<versions, epoch>>
    PROVE  /\ requested' = requested /\ acked' = acked
           /\ requestedVersion' = requestedVersion /\ confirmedVersion' = confirmedVersion
  BY DEF versions, requested, acked

LEMMA SameChains ==
    ASSUME UNCHANGED <<chainVars, epoch>>
    PROVE  runs' = runs /\ requested' = requested /\ acked' = acked /\ epoch' = epoch
  BY SameCounts DEF chainVars

LEMMA RequestCounts ==
    ASSUME TypeInv, NEW s \in Slots, NEW v \in Values(s), Request(s, v)
    PROVE  /\ requested' = [requested EXCEPT ![s] = @ + 1] /\ acked' = acked
           /\ confirmedVersion' = confirmedVersion /\ epoch' = epoch
           /\ requestedVersion' \in [0..MaxResumes -> [Slots -> Nat]]
           /\ \A e \in 0..MaxResumes : \A x \in Slots :
                  requestedVersion'[e][x] = requestedVersion[e][x]
                      \/ (e = epoch /\ x = s /\ requestedVersion'[e][x] = requested[s] + 1)
<1>1. /\ requestedVersion' = [requestedVersion EXCEPT ![epoch][s] = @ + 1]
      /\ confirmedVersion' = confirmedVersion /\ epoch' = epoch
    BY DEF Request, pageVars
<1>2. /\ requestedVersion \in [0..MaxResumes -> [Slots -> Nat]] /\ epoch \in 0..MaxResumes
      /\ requested \in [Slots -> Nat]
    BY DEF TypeInv, TypeOK, Shape
<1>3. requestedVersion' = [requestedVersion EXCEPT ![epoch] = [requested EXCEPT ![s] = @ + 1]]
    BY <1>1 DEF requested
<1>4. [requested EXCEPT ![s] = @ + 1] \in [Slots -> Nat]
    BY <1>2
<1>5. requested' = requestedVersion'[epoch] /\ acked' = acked
    BY <1>1 DEF requested, acked
<1>6. requestedVersion'[epoch] = [requested EXCEPT ![s] = @ + 1]
    BY <1>2, <1>3
<1>7. requestedVersion' \in [0..MaxResumes -> [Slots -> Nat]]
    BY <1>2, <1>3, <1>4
<1>8. ASSUME NEW e \in 0..MaxResumes, NEW x \in Slots
      PROVE  requestedVersion'[e][x] = requestedVersion[e][x]
                 \/ (e = epoch /\ x = s /\ requestedVersion'[e][x] = requested[s] + 1)
  <2>1. CASE e = epoch
      BY <1>2, <1>6, <2>1 DEF requested
  <2>2. CASE e # epoch
      BY <1>2, <1>3, <2>2
  <2>3. QED
      BY <2>1, <2>2
<1>9. QED
    BY <1>1, <1>5, <1>6, <1>7, <1>8

\* A confirmation counts for the object its run holds.
LEMMA ConfirmCounts ==
    ASSUME TypeInv, NEW run \in runs, Confirm(run), epoch' = epoch
    PROVE  /\ run.state = epoch => acked' = [acked EXCEPT ![run.slot] = run.version]
           /\ run.state # epoch => acked' = acked
           /\ confirmedVersion' \in [0..MaxResumes -> [Slots -> Nat]]
           /\ \A e \in 0..MaxResumes : \A x \in Slots :
                  confirmedVersion'[e][x] \in {confirmedVersion[e][x], run.version}
<1>1. confirmedVersion' = [confirmedVersion EXCEPT ![run.state][run.slot] = run.version]
    BY DEF Confirm
<1>2. /\ confirmedVersion \in [0..MaxResumes -> [Slots -> Nat]] /\ epoch \in 0..MaxResumes
      /\ run.state \in 0..MaxResumes /\ run.slot \in Slots /\ run.version \in Nat
    BY RunFacts, ClientAssumption DEF TypeInv, TypeOK, Shape
<1> DEFINE row == [confirmedVersion[run.state] EXCEPT ![run.slot] = run.version]
<1>3. confirmedVersion' = [confirmedVersion EXCEPT ![run.state] = row]
    BY <1>1
<1>4. /\ row \in [Slots -> Nat]
      /\ \A x \in Slots : row[x] \in {confirmedVersion[run.state][x], run.version}
    BY <1>2
<1>5. run.state = epoch => row = [acked EXCEPT ![run.slot] = run.version]
    BY DEF acked
<1> HIDE DEF row
<1>6. acked' = confirmedVersion'[epoch]
    BY DEF acked
<1>7. run.state # epoch => acked' = acked
    BY <1>2, <1>3, <1>6 DEF acked
<1>8. run.state = epoch => acked' = row
    BY <1>2, <1>3, <1>6
<1>9. confirmedVersion' \in [0..MaxResumes -> [Slots -> Nat]]
    BY <1>2, <1>3, <1>4
<1>10. ASSUME NEW e \in 0..MaxResumes, NEW x \in Slots
       PROVE  confirmedVersion'[e][x] \in {confirmedVersion[e][x], run.version}
  <2>1. confirmedVersion'[e] = IF e = run.state THEN row ELSE confirmedVersion[e]
      BY <1>2, <1>3
  <2>2. QED
      BY <1>4, <2>1
<1>11. QED
    BY <1>5, <1>7, <1>8, <1>9, <1>10

LEMMA HydrateCounts ==
    ASSUME TypeInv, Hydrate
    PROVE  /\ requested' = [s \in Slots |-> 0] /\ acked' = [s \in Slots |-> 0]
           /\ requestedVersion' \in [0..MaxResumes -> [Slots -> Nat]]
           /\ confirmedVersion' \in [0..MaxResumes -> [Slots -> Nat]]
           /\ \A e \in 0..MaxResumes : \A x \in Slots :
                  /\ requestedVersion'[e][x] \in {requestedVersion[e][x], 0}
                  /\ confirmedVersion'[e][x] \in {confirmedVersion[e][x], 0}
           /\ epoch' \in 0..MaxResumes
<1> DEFINE zeros == [s \in Slots |-> 0]
<1>1. /\ requestedVersion' = [requestedVersion EXCEPT ![epoch + 1] = zeros]
      /\ confirmedVersion' = [confirmedVersion EXCEPT ![epoch + 1] = zeros]
      /\ epoch' = epoch + 1
    BY DEF Hydrate
<1>2. /\ requestedVersion \in [0..MaxResumes -> [Slots -> Nat]]
      /\ confirmedVersion \in [0..MaxResumes -> [Slots -> Nat]]
      /\ epoch + 1 \in 0..MaxResumes
    BY ClientAssumption DEF TypeInv, TypeOK, Shape, Hydrate
<1>3. zeros \in [Slots -> Nat] /\ \A x \in Slots : zeros[x] = 0
    OBVIOUS
<1>4. requested' = requestedVersion'[epoch + 1] /\ acked' = confirmedVersion'[epoch + 1]
    BY <1>1 DEF requested, acked
<1> HIDE DEF zeros
<1>5. requested' = zeros /\ acked' = zeros
    BY <1>1, <1>2, <1>4
<1>6. /\ requestedVersion' \in [0..MaxResumes -> [Slots -> Nat]]
      /\ confirmedVersion' \in [0..MaxResumes -> [Slots -> Nat]]
    BY <1>1, <1>2, <1>3
<1>7. ASSUME NEW e \in 0..MaxResumes, NEW x \in Slots
      PROVE  /\ requestedVersion'[e][x] \in {requestedVersion[e][x], 0}
             /\ confirmedVersion'[e][x] \in {confirmedVersion[e][x], 0}
  <2>1. /\ requestedVersion'[e] = IF e = epoch + 1 THEN zeros ELSE requestedVersion[e]
        /\ confirmedVersion'[e] = IF e = epoch + 1 THEN zeros ELSE confirmedVersion[e]
      BY <1>1, <1>2
  <2>2. QED
      BY <1>3, <2>1
<1>8. QED
    BY <1>1, <1>2, <1>5, <1>6, <1>7 DEF zeros

-----------------------------------------------------------------------------
(* Types.                                                                  *)

LEMMA InitTypes == Init => TypeInv
<1> SUFFICES ASSUME Init PROVE TypeInv
    OBVIOUS
<1>1. /\ server = [s \in Slots |-> {}] /\ confirmed = server
      /\ overlay = [s \in Slots |-> Null]
      /\ requestedVersion = [e \in 0..MaxResumes |-> [s \in Slots |-> 0]]
      /\ confirmedVersion = requestedVersion
      /\ requested = [s \in Slots |-> 0] /\ acked = requested
      /\ intent = [q \in Questions |-> Null]
    BY InitCounts DEF Init
<1>2. \A s \in Slots : /\ server[s] \in Values(s) /\ confirmed[s] \in Values(s)
                       /\ overlay[s] = Null /\ requested[s] = 0 /\ acked[s] = 0
                       /\ \A e \in 0..MaxResumes : /\ requestedVersion[e][s] = 0
                                                    /\ confirmedVersion[e][s] = 0
    BY <1>1, ValueFacts
<1>3. /\ {} \in AllValues /\ Null \in AllValues \cup {Null}
      /\ Null \in (SUBSET Options) \cup {Null}
  <2>1. {} \in SUBSET Options
      OBVIOUS
  <2>2. QED
      BY <2>1, Zenon DEF AllValues
<1>4. /\ server \in [Slots -> AllValues] /\ confirmed \in [Slots -> AllValues]
      /\ overlay \in [Slots -> AllValues \cup {Null}]
      /\ requestedVersion \in [0..MaxResumes -> [Slots -> Nat]]
      /\ confirmedVersion \in [0..MaxResumes -> [Slots -> Nat]]
      /\ requested \in [Slots -> Nat] /\ acked \in [Slots -> Nat]
      /\ intent \in [Questions -> (SUBSET Options) \cup {Null}]
      /\ \A q \in Questions : intent[q] = Null
    BY <1>1, <1>3
<1>5. /\ over = FALSE /\ locked = FALSE /\ crossed = FALSE /\ result = Null
      /\ snapshot = Null /\ runs = {} /\ saving = {} /\ failed = {}
      /\ cur \in Questions /\ page = "session" /\ stage = "none"
      /\ epoch = 0 /\ edits = 0 /\ drops = 0
    BY DEF Init
<1>6. /\ 0 \in 0..MaxEdits /\ 0 \in 0..MaxDrops /\ 0 \in 0..MaxResumes
    BY ClientAssumption
<1>7. Shape
    BY <1>2, <1>4, <1>5 DEF Shape
<1>8. TypeOK
    BY <1>2, <1>4, <1>5, <1>6 DEF TypeOK
<1>9. QED
    BY <1>7, <1>8 DEF TypeInv

LEMMA RequestTypes ==
    ASSUME TypeInv, NEW s \in Slots, NEW v \in Values(s), Request(s, v)
    PROVE  TypeInv'
<1> DEFINE run == RunOf(s, requested[s] + 1, v)
<1>1. requested[s] \in Nat /\ requested[s] <= edits /\ edits \in Nat /\ edits < MaxEdits
      /\ MaxEdits \in Nat
    BY ClientAssumption DEF TypeInv, TypeOK, Shape, Request
<1>2. run \in RunType
    BY <1>1, ValueFacts DEF RunOf, RunType, TypeInv, TypeOK
<1>3. /\ edits' = edits + 1 /\ requested' = [requested EXCEPT ![s] = @ + 1]
      /\ overlay' = [overlay EXCEPT ![s] = v] /\ runs' = runs \cup {run}
      /\ UNCHANGED <<server, over, result, confirmed, acked, confirmedVersion, locked,
                     stage, awaited, cur, page, epoch, snapshot, crossed, drops>>
    BY RequestCounts DEF Request, serverVars, submitVars, pageVars
<1>10. run.epoch = epoch /\ run.state = epoch /\ epoch \in Nat
    BY DEF RunOf, TypeInv, TypeOK
<1> HIDE DEF run
<1>4. \A x \in Slots : /\ overlay'[x] = Null \/ overlay'[x] \in Values(x)
                       /\ requested'[x] \in 0..MaxEdits /\ requested'[x] <= edits'
                       /\ \A e \in 0..MaxResumes : requestedVersion'[e][x] \in 0..MaxEdits
  <2>1. \A x \in Slots : /\ overlay'[x] = Null \/ overlay'[x] \in Values(x)
                         /\ requested'[x] \in 0..MaxEdits /\ requested'[x] <= edits'
      BY <1>1, <1>3 DEF TypeInv, TypeOK, Shape
  <2>2. ASSUME NEW e \in 0..MaxResumes, NEW x \in Slots
        PROVE  requestedVersion'[e][x] \in 0..MaxEdits
    <3>1. requestedVersion'[e][x] \in {requestedVersion[e][x], requested[s] + 1}
        BY RequestCounts
    <3>2. requestedVersion[e][x] \in 0..MaxEdits /\ requested[s] + 1 \in 0..MaxEdits
        BY <1>1 DEF TypeInv, TypeOK
    <3>3. QED
        BY <3>1, <3>2
  <2>3. QED
      BY <2>1, <2>2
<1>5. /\ overlay' \in [Slots -> AllValues \cup {Null}] /\ requested' \in [Slots -> Nat]
      /\ requestedVersion' \in [0..MaxResumes -> [Slots -> Nat]]
  <2>1. requestedVersion' \in [0..MaxResumes -> [Slots -> Nat]]
      BY RequestCounts
  <2>2. QED
      BY <1>1, <1>3, <2>1, ValueFacts DEF TypeInv, Shape
<1>11. \A other \in runs' : other.epoch <= other.state /\ other.state <= epoch'
    BY <1>3, <1>10 DEF TypeInv, Shape
<1>6. /\ saving' \subseteq Questions /\ failed' \subseteq Questions
      /\ intent' \in [Questions -> (SUBSET Options) \cup {Null}]
  <2>1. CASE s[1] = "answer"
    <3>1. s[2] \in Questions /\ v \in SUBSET Options
        BY <2>1, SlotFacts, ValueFacts
    <3>2. QED
        BY <2>1, <3>1 DEF Request, TypeInv, TypeOK, Shape
  <2>2. CASE s[1] # "answer"
      BY <2>2 DEF Request, TypeInv, TypeOK, Shape
  <2>3. QED
      BY <2>1, <2>2
<1>7. Shape'
    BY <1>3, <1>4, <1>5, <1>6, <1>11 DEF TypeInv, Shape
<1>8. TypeOK'
  <2>1. edits' \in 0..MaxEdits /\ runs' \subseteq RunType
      BY <1>1, <1>2, <1>3 DEF TypeInv, TypeOK
  <2>2. \A q \in Questions : intent'[q] = Null \/ intent'[q] \in SUBSET Options
      BY <1>6, IntentFacts
  <2>3. QED
      BY <1>3, <1>4, <1>6, <2>1, <2>2 DEF TypeInv, TypeOK
<1>9. QED
    BY <1>7, <1>8 DEF TypeInv

\* What an edit or a retry asks for.
LEMMA RequestsOnly ==
    ASSUME TypeInv, RetrySave \/ \E s \in Slots : \E v \in Clicks(s) : Edit(s, v)
    PROVE  \E s \in Slots : \E v \in Values(s) :
               /\ Request(s, v) /\ page = "session" /\ s[2] = cur
               /\ ~locked \/ (s = Answer(cur) /\ cur \in failed)
<1>1. CASE RetrySave
  <2>1. /\ cur \in Questions /\ intent[cur] \in SUBSET Options /\ cur \in failed
        /\ page = "session" /\ Request(Answer(cur), intent[cur])
      BY <1>1 DEF RetrySave, CanRetry, TypeInv, TypeOK
  <2>2. QED
      BY <2>1, SlotFacts, ValueFacts
<1>2. CASE \E s \in Slots : \E v \in Clicks(s) : Edit(s, v)
    BY <1>2, ClickFacts DEF Edit
<1>3. QED
    BY <1>1, <1>2

LEMMA MoveTypes ==
    ASSUME TypeInv, NEW run \in runs, Send(run) \/ StoreWrite(run)
    PROVE  TypeInv'
<1>1. PICK moved \in RunType : Moves(run, moved)
    BY MovesRun
<1>2. /\ UNCHANGED <<over, result, viewVars, versions, submitVars, pageVars, edits, drops>>
      /\ epoch' = epoch
    BY DEF Send, StoreWrite, serverVars, pageVars
<1>3. /\ requested' = requested /\ acked' = acked
      /\ requestedVersion' = requestedVersion /\ confirmedVersion' = confirmedVersion
    BY <1>2, SameCounts
<1>4. /\ server' \in [Slots -> AllValues]
      /\ \A s \in Slots : server'[s] \in Values(s)
    BY <1>1, RunFacts DEF Moves, MovedFrom, TypeInv, TypeOK, Shape
<1>5. /\ runs' \subseteq RunType
      /\ \A other \in runs' : other.epoch <= other.state /\ other.state <= epoch'
  <2>1. moved.epoch <= moved.state /\ moved.state <= epoch /\ epoch \in Nat
      BY <1>1, RunFacts, ClientAssumption DEF Moves, MovedFrom, TypeInv, TypeOK
  <2>2. QED
      BY <1>1, <1>2, <2>1, RunFacts DEF Moves, TypeInv, TypeOK
<1>6. Shape'
    BY <1>2, <1>3, <1>4, <1>5 DEF TypeInv, Shape, viewVars, submitVars, pageVars
<1>7. TypeOK'
    BY <1>2, <1>3, <1>4, <1>5 DEF TypeInv, TypeOK, viewVars, submitVars, pageVars
<1>8. QED
    BY <1>6, <1>7 DEF TypeInv

\* The four ways a run ends touch only what is known of its slot.
LEMMA SettleTypes ==
    ASSUME TypeInv, NEW run \in runs, Respond(run) \/ Refuse(run) \/ Drop(run)
    PROVE  TypeInv'
<1>1. /\ runs' = runs \ {run} /\ drops' \in 0..MaxDrops
      /\ UNCHANGED <<serverVars, requestedVersion, requested, submitVars, pageVars, edits>>
      /\ epoch' = epoch
    BY ClientAssumption
    DEF Respond, Refuse, Drop, SettleFailed, versions, requested, pageVars, TypeInv, TypeOK
<1>2. \/ UNCHANGED <<viewVars, confirmedVersion, acked>>
      \/ Confirm(run)
      \/ RollBack(run) /\ UNCHANGED <<confirmed, confirmedVersion, acked>>
    BY <1>1 DEF Respond, Refuse, Drop, SettleFailed, viewVars, versions, acked
<1>3. /\ run.slot \in Slots /\ run.version \in 1..MaxEdits /\ run.version \in Nat
      /\ run.value \in Values(run.slot) /\ run.value \in AllValues
    BY RunFacts, ClientAssumption
<1>4. /\ confirmed' \in [Slots -> AllValues] /\ overlay' \in [Slots -> AllValues \cup {Null}]
      /\ acked' \in [Slots -> Nat]
      /\ confirmedVersion' \in [0..MaxResumes -> [Slots -> Nat]]
      /\ \A s \in Slots : /\ confirmed'[s] \in Values(s)
                          /\ overlay'[s] = Null \/ overlay'[s] \in Values(s)
                          /\ \A e \in 0..MaxResumes : confirmedVersion'[e][s] \in 0..MaxEdits
  <2>1. CASE UNCHANGED <<viewVars, confirmedVersion, acked>>
      BY <2>1 DEF viewVars, TypeInv, TypeOK, Shape
  <2>2. CASE Confirm(run)
    <3>1. /\ confirmed' = [confirmed EXCEPT ![run.slot] = run.value]
          /\ overlay' = [overlay EXCEPT ![run.slot] = IF @ = run.value THEN Null ELSE @]
        BY <2>2 DEF Confirm
    <3>2. /\ run.state = epoch => acked' = [acked EXCEPT ![run.slot] = run.version]
          /\ run.state # epoch => acked' = acked
          /\ confirmedVersion' \in [0..MaxResumes -> [Slots -> Nat]]
          /\ \A e \in 0..MaxResumes : \A x \in Slots :
                 confirmedVersion'[e][x] \in {confirmedVersion[e][x], run.version}
        BY <1>1, <2>2, ConfirmCounts
    <3>3. /\ confirmed' \in [Slots -> AllValues]
          /\ overlay' \in [Slots -> AllValues \cup {Null}]
          /\ \A s \in Slots : /\ confirmed'[s] \in Values(s)
                              /\ overlay'[s] = Null \/ overlay'[s] \in Values(s)
        BY <1>3, <3>1 DEF TypeInv, TypeOK, Shape
    <3>4. acked' \in [Slots -> Nat]
        BY <1>3, <3>2 DEF TypeInv, Shape
    <3>5. ASSUME NEW s \in Slots, NEW e \in 0..MaxResumes
          PROVE  confirmedVersion'[e][s] \in 0..MaxEdits
      <4>1. confirmedVersion'[e][s] \in {confirmedVersion[e][s], run.version}
          BY <3>2
      <4>2. QED
          BY <1>3, <4>1, ClientAssumption DEF TypeInv, TypeOK
    <3>6. QED
        BY <3>2, <3>3, <3>4, <3>5
  <2>3. CASE RollBack(run) /\ UNCHANGED <<confirmed, confirmedVersion, acked>>
    <3>1. overlay' = [overlay EXCEPT ![run.slot] = Null]
        BY <2>3 DEF RollBack
    <3>2. QED
        BY <1>3, <2>3, <3>1 DEF TypeInv, TypeOK, Shape
  <2>4. QED
      BY <1>2, <2>1, <2>2, <2>3
<1>5. /\ saving' \subseteq Questions /\ failed' \subseteq Questions
      /\ intent' \in [Questions -> (SUBSET Options) \cup {Null}]
  <2>1. run.slot[1] = "answer" => run.slot[2] \in Questions /\ run.value \in SUBSET Options
      BY <1>3, SlotFacts, ValueFacts
  <2>2. /\ saving \subseteq Questions /\ failed \subseteq Questions
        /\ intent \in [Questions -> (SUBSET Options) \cup {Null}]
      BY DEF TypeInv, TypeOK, Shape
  <2>3. CASE UNCHANGED <<viewVars, confirmedVersion, acked>>
      BY <2>2, <2>3 DEF viewVars
  <2>4. CASE Confirm(run)
    <3>1. CASE run.slot[1] = "answer"
      <4>1. intent' = [intent EXCEPT ![run.slot[2]] = Null]
            /\ failed' = failed \ {run.slot[2]} /\ saving' = saving \ {run.slot[2]}
          BY <2>4, <3>1 DEF Confirm
      <4>2. QED
          BY <2>1, <2>2, <3>1, <4>1, IntentFacts
    <3>2. CASE run.slot[1] # "answer"
        BY <2>2, <2>4, <3>2 DEF Confirm
    <3>3. QED
        BY <3>1, <3>2
  <2>5. CASE RollBack(run)
      BY <2>1, <2>2, <2>5 DEF RollBack
  <2>6. QED
      BY <1>2, <2>3, <2>4, <2>5
<1>6. Shape'
    BY <1>1, <1>4, <1>5 DEF TypeInv, Shape, serverVars, pageVars
<1>7. TypeOK'
  <2>1. runs' \subseteq RunType
      BY <1>1 DEF TypeInv, TypeOK
  <2>2. \A q \in Questions : intent'[q] = Null \/ intent'[q] \in SUBSET Options
      BY <1>5, IntentFacts
  <2>3. QED
      BY <1>1, <1>4, <1>5, <2>1, <2>2
      DEF TypeInv, TypeOK, serverVars, pageVars, submitVars
<1>8. QED
    BY <1>6, <1>7 DEF TypeInv

\* Pages, the deadline and the submission.
LEMMA PageTypes ==
    ASSUME TypeInv,
           \/ \E q \in Questions : Navigate(q)
           \/ Leave \/ ResumeSend \/ ResumeRead \/ ResumeFails
           \/ Deadline \/ StartSubmit \/ Submitting \/ SubmitFails
    PROVE  TypeInv'
<1>1. UNCHANGED <<server, viewVars, chainVars, epoch, edits>>
    BY DEF Navigate, Leave, ResumeSend, ResumeRead, ResumeFails, Deadline, StartSubmit,
           Submitting, Awaited, Finalize, SubmitReturns, SubmitFails, serverVars, pageVars
<1>2. /\ cur' \in Questions /\ over' \in BOOLEAN /\ locked' \in BOOLEAN
      /\ crossed' \in BOOLEAN
      /\ page' \in {"session", "away", "loading", "results"}
      /\ stage' \in {"none", "waiting", "posting", "closed"}
      /\ drops' \in 0..MaxDrops
  <2>1. CASE (\E q \in Questions : Navigate(q)) \/ Leave \/ ResumeSend \/ Deadline
      BY <2>1 DEF Navigate, Leave, ResumeSend, Deadline, serverVars, submitVars,
                  pageVars, TypeInv, TypeOK
  <2>2. CASE ResumeRead \/ ResumeFails
      BY <2>2, ClientAssumption DEF ResumeRead, ResumeFails, serverVars, submitVars,
                  pageVars, TypeInv, TypeOK
  <2>3. CASE StartSubmit \/ Submitting \/ SubmitFails
    <3>1. /\ drops' = drops \/ (drops' = drops + 1 /\ drops < MaxDrops)
          /\ UNCHANGED <<over, cur, crossed>> /\ (page' = page \/ page' = "results")
        BY <2>3 DEF StartSubmit, Submitting, Awaited, Finalize, SubmitReturns,
                    SubmitFails, serverVars, pageVars
    <3>2. /\ stage' \in {"none", "waiting", "posting", "closed"}
          /\ locked' = locked \/ locked' = TRUE \/ locked' = FALSE
        BY <2>3 DEF StartSubmit, Submitting, Awaited, Finalize, SubmitReturns,
                    SubmitFails, GiveUp
    <3>3. QED
      <4>1. /\ cur' \in Questions /\ over' \in BOOLEAN /\ crossed' \in BOOLEAN
            /\ page' \in {"session", "away", "loading", "results"}
            /\ locked' \in BOOLEAN
          BY <3>1, <3>2 DEF TypeInv, TypeOK
      <4>2. drops' \in 0..MaxDrops
          BY <3>1, ClientAssumption DEF TypeInv, TypeOK
      <4>3. QED
          BY <3>2, <4>1, <4>2
  <2>4. QED
      BY <2>1, <2>2, <2>3
<1>3. /\ result' = result \/ result' = server
      /\ snapshot' = snapshot \/ snapshot' = server \/ snapshot' = Null
    BY DEF Navigate, Leave, ResumeSend, ResumeRead, ResumeFails, Deadline, StartSubmit,
           Submitting, Awaited, Finalize, SubmitReturns, SubmitFails, serverVars, pageVars
<1>4. page' \in {"away", "loading"} => epoch < MaxResumes
    BY DEF Navigate, Leave, ResumeSend, ResumeRead, ResumeFails, Deadline, StartSubmit,
           Submitting, Awaited, Finalize, SubmitReturns, SubmitFails, pageVars,
           TypeInv, Shape
<1>5. /\ requested' = requested /\ acked' = acked /\ runs' = runs
      /\ requestedVersion' = requestedVersion /\ confirmedVersion' = confirmedVersion
    BY <1>1, SameCounts DEF chainVars
<1>6. Shape'
    BY <1>1, <1>3, <1>4, <1>5 DEF TypeInv, Shape, viewVars
<1>7. TypeOK'
    BY <1>1, <1>2, <1>3, <1>5 DEF TypeInv, TypeOK, viewVars
<1>8. QED
    BY <1>6, <1>7 DEF TypeInv

LEMMA HydrateTypes == ASSUME TypeInv, Hydrate PROVE TypeInv'
<1>1. /\ page = "loading" /\ snapshot # Null /\ confirmed' = snapshot
      /\ overlay' = [s \in Slots |-> Null]
      /\ requested' = [s \in Slots |-> 0] /\ acked' = [s \in Slots |-> 0]
      /\ saving' = {} /\ failed' = {} /\ intent' = [q \in Questions |-> Null]
      /\ epoch' = epoch + 1 /\ snapshot' = Null /\ page' = "session"
      /\ UNCHANGED <<server, over, result, runs, locked, stage, awaited, cur, crossed,
                     edits, drops>>
  <2>1. requested' = [s \in Slots |-> 0] /\ acked' = [s \in Slots |-> 0]
      BY HydrateCounts
  <2>2. QED
      BY <2>1 DEF Hydrate, serverVars, submitVars
<1>2. snapshot \in [Slots -> AllValues] /\ epoch < MaxResumes
    BY <1>1 DEF TypeInv, Shape
<1>3. /\ \A s \in Slots : /\ confirmed'[s] \in Values(s) /\ overlay'[s] = Null
                          /\ requested'[s] = 0 /\ acked'[s] = 0
      /\ \A q \in Questions : intent'[q] = Null
    BY <1>1 DEF TypeInv, TypeOK
<1>9. ASSUME NEW s \in Slots, NEW e \in 0..MaxResumes
      PROVE  requestedVersion'[e][s] \in 0..MaxEdits /\ confirmedVersion'[e][s] \in 0..MaxEdits
  <2>1. /\ requestedVersion'[e][s] \in {requestedVersion[e][s], 0}
        /\ confirmedVersion'[e][s] \in {confirmedVersion[e][s], 0}
      BY HydrateCounts
  <2>2. QED
      BY <2>1, ClientAssumption DEF TypeInv, TypeOK
<1>10. \A run \in runs' : run.epoch <= run.state /\ run.state <= epoch'
    BY <1>1, RunFacts, ClientAssumption DEF TypeInv, TypeOK
<1>4. /\ overlay' \in [Slots -> AllValues \cup {Null}]
      /\ requested' \in [Slots -> Nat] /\ acked' \in [Slots -> Nat]
      /\ intent' \in [Questions -> (SUBSET Options) \cup {Null}]
  <2>1. Null \in (SUBSET Options) \cup {Null}
      BY Zenon
  <2>2. QED
      BY <1>1, <2>1
<1>5. /\ edits \in Nat /\ 0 \in 0..MaxEdits /\ epoch + 1 \in 0..MaxResumes
    BY <1>2, ClientAssumption DEF TypeInv, TypeOK
<1>11. /\ requestedVersion' \in [0..MaxResumes -> [Slots -> Nat]]
       /\ confirmedVersion' \in [0..MaxResumes -> [Slots -> Nat]]
    BY HydrateCounts
<1>6. Shape'
    BY <1>1, <1>2, <1>3, <1>4, <1>5, <1>10, <1>11 DEF TypeInv, Shape
<1>7. TypeOK'
    BY <1>1, <1>3, <1>5, <1>9 DEF TypeInv, TypeOK
<1>8. QED
    BY <1>6, <1>7 DEF TypeInv

-----------------------------------------------------------------------------
(* Agreement.                                                              *)

\* In numbers: what the chains of a slot say of its runs.
LEMMA ChainFacts ==
    ASSUME TypeInv, Chains, NEW run \in runs
    PROVE  /\ run.slot \in Slots /\ run.version \in Int
           /\ acked[run.slot] \in Int /\ requested[run.slot] \in Int
           /\ acked[run.slot] < run.version /\ run.version <= requested[run.slot]
           /\ acked[run.slot] < requested[run.slot]
<1>1. run.slot \in Slots /\ run.version \in Int
    BY RunFacts, ClientAssumption
<1>2. acked[run.slot] \in Int /\ requested[run.slot] \in Int
    BY <1>1 DEF TypeInv, Shape
<1>3. acked[run.slot] < run.version /\ run.version <= requested[run.slot]
    BY <1>1, <1>2 DEF Chains
<1>4. QED
    BY <1>1, <1>2, <1>3

\* Without a crossing, a run holds the object of now.
LEMMA HoldsTheObjectOfNow ==
    ASSUME TypeInv, Chains, NEW run \in runs
    PROVE  run.state = epoch
<1>1. run.epoch = epoch
    BY DEF Chains
<1>2. QED
    BY <1>1, RunFacts DEF TypeInv, TypeOK

\* So it is compared with the requests of now, and a slot has one latest run at
\* most.
LEMMA LatestIsLast ==
    ASSUME TypeInv, Chains, NEW run \in runs
    PROVE  /\ Latest(run) <=> run.version = requested[run.slot]
           /\ Superseded(run) <=> ~Latest(run)
<1>1. run.state = epoch
    BY HoldsTheObjectOfNow
<1>2. /\ Latest(run) <=> run.version >= requested[run.slot]
      /\ Superseded(run) <=> ~Latest(run) \/ run.version <= acked[run.slot]
    BY <1>1 DEF Latest, Superseded, requested, acked
<1>3. QED
    BY <1>2, ChainFacts

LEMMA InitAgreement == Init => Agreement
<1> SUFFICES ASSUME Init PROVE Agreement
    OBVIOUS
<1>1. /\ runs = {} /\ acked = requested /\ requested = [s \in Slots |-> 0]
      /\ confirmed = server /\ overlay = [s \in Slots |-> Null]
      /\ saving = {} /\ failed = {} /\ stage = "none" /\ page = "session"
      /\ snapshot = Null
    BY InitCounts DEF Init
<1>2. Chains /\ Views
    BY <1>1 DEF Chains, Views
<1>3. Marks /\ Pages
    BY <1>1 DEF Marks, Pages
<1>4. QED
    BY <1>2, <1>3 DEF Agreement

\* An edit or a retry queues the latest run of a slot of the displayed question;
\* while a submission is on there is none.
LEMMA RequestAgreement ==
    ASSUME TypeInv, Agreement, NEW s \in Slots, NEW v \in Values(s),
           Request(s, v), page = "session", s[2] = cur,
           ~locked \/ (s = Answer(cur) /\ cur \in failed)
    PROVE  Agreement'
<1> DEFINE new == RunOf(s, requested[s] + 1, v)
<1>1. /\ requested' = [requested EXCEPT ![s] = @ + 1]
      /\ overlay' = [overlay EXCEPT ![s] = v] /\ runs' = runs \cup {new}
      /\ UNCHANGED <<server, confirmed, acked, locked, stage, cur, page, epoch, snapshot>>
    BY RequestCounts DEF Request, serverVars, submitVars, pageVars
<1>2. /\ new.slot = s /\ new.version = requested[s] + 1 /\ new.value = v
      /\ new.epoch = epoch /\ new.at = "queued"
    BY DEF RunOf
<1> HIDE DEF new
<1>3. /\ requested \in [Slots -> Nat] /\ acked \in [Slots -> Nat]
      /\ overlay \in [Slots -> AllValues \cup {Null}] /\ acked[s] <= requested[s]
    BY DEF TypeInv, Shape, Agreement, Chains
<1>4. /\ requested'[s] = requested[s] + 1 /\ overlay'[s] = v
      /\ \A x \in Slots : x # s => requested'[x] = requested[x] /\ overlay'[x] = overlay[x]
    BY <1>1, <1>3
<1>5. \A run \in runs : /\ run.slot \in Slots /\ run.version \in Int
                        /\ run.version > acked[run.slot]
                        /\ run.version <= requested[run.slot]
    BY ChainFacts DEF Agreement
<1>6. Chains'
  <2>1. \A x \in Slots : acked'[x] <= requested'[x]
      BY <1>1, <1>3, <1>4 DEF Agreement, Chains
  <2>2. ASSUME NEW run \in runs'
        PROVE  /\ run.epoch = epoch'
               /\ run.version > acked'[run.slot] /\ run.version <= requested'[run.slot]
               /\ run.at = "stored" => server'[run.slot] = run.value
    <3>1. CASE run = new
        BY <1>1, <1>2, <1>3, <1>4, <3>1
    <3>2. CASE run \in runs
      <4>1. /\ run.slot \in Slots /\ run.version \in Int
            /\ run.version > acked[run.slot] /\ run.version <= requested[run.slot]
          BY <1>5, <3>2
      <4>2. run.version <= requested'[run.slot]
          BY <1>3, <1>4, <4>1
      <4>3. QED
          BY <1>1, <3>2, <4>1, <4>2 DEF Agreement, Chains
    <3>3. QED
        BY <1>1, <3>1, <3>2
  <2>3. ASSUME NEW run \in runs', NEW other \in runs', run.slot = other.slot
        PROVE  /\ run.version = other.version => run = other
               /\ run.at # "queued" => other.version >= run.version
    <3>1. CASE run \in runs /\ other \in runs
        BY <2>3, <3>1 DEF Agreement, Chains
    <3>2. CASE run = new /\ other \in runs
        BY <1>2, <1>3, <1>5, <2>3, <3>2
    <3>3. CASE run \in runs /\ other = new
        BY <1>2, <1>3, <1>5, <2>3, <3>3
    <3>4. CASE run = new /\ other = new
        BY <1>2, <1>3, <3>4
    <3>5. QED
        BY <1>1, <3>1, <3>2, <3>3, <3>4
  <2>4. QED
      BY <2>1, <2>2, <2>3 DEF Chains
<1>7. Views'
  <2> SUFFICES ASSUME NEW x \in Slots
               PROVE  /\ acked'[x] = requested'[x] => confirmed'[x] = server'[x]
                      /\ (\A run \in runs' : run.slot = x => run.version # requested'[x])
                             => overlay'[x] = Null
                      /\ \A run \in runs' :
                             run.slot = x /\ run.version = requested'[x]
                                 => overlay'[x] = run.value
      BY DEF Views
  <2>1. CASE x = s
    <3>1. acked'[s] # requested'[s]
        BY <1>1, <1>3, <1>4
    <3>2. \A run \in runs : run.slot = s => run.version # requested'[s]
        BY <1>3, <1>4, <1>5
    <3>3. new \in runs' /\ new.slot = s /\ new.version = requested'[s]
        BY <1>1, <1>2, <1>4
    <3>4. QED
        BY <1>1, <1>2, <1>4, <2>1, <3>1, <3>2, <3>3
  <2>2. CASE x # s
      BY <1>1, <1>2, <1>4, <2>2 DEF Agreement, Views
  <2>3. QED
      BY <2>1, <2>2
<1>8. Marks'
  <2>1. CASE s[1] = "answer"
    <3>1. s = Answer(cur) /\ cur \in Questions
        BY <2>1, SlotFacts
    <3>2. saving' = saving \cup {cur} /\ failed' = failed \ {cur}
        BY <2>1 DEF Request
    <3>3. saving' \cup failed' \subseteq {cur'}
        BY <1>1, <3>2 DEF Agreement, Marks
    <3>4. ASSUME NEW q \in Questions, NEW run \in runs', run.slot = Answer(q),
                 run.version = requested'[Answer(q)]
          PROVE  q \in saving'
      <4>1. CASE q = cur
          BY <3>2, <4>1
      <4>2. CASE q # cur
        <5>1. Answer(q) # s /\ Answer(q) \in Slots
            BY <3>1, <4>2, SlotFacts
        <5>2. run \in runs /\ run.version = requested[Answer(q)]
            BY <1>1, <1>2, <1>4, <3>4, <5>1
        <5>3. QED
            BY <3>2, <3>4, <5>2 DEF Agreement, Marks
      <4>3. QED
          BY <4>1, <4>2
    <3>5. failed' = {}
        BY <3>2 DEF Agreement, Marks
    <3>6. QED
        BY <3>3, <3>4, <3>5 DEF Marks
  <2>2. CASE s[1] # "answer"
    <3>1. saving' = saving /\ failed' = failed
        BY <2>2 DEF Request
    <3>2. \A q \in Questions : Answer(q) \in Slots /\ Answer(q) # s
        BY <2>2, SlotFacts
    <3>3. \A q \in Questions : requested'[Answer(q)] = requested[Answer(q)]
        BY <1>4, <3>2
    <3>4. ASSUME NEW q \in Questions, NEW run \in runs', run.slot = Answer(q),
                 run.version = requested'[Answer(q)]
          PROVE  q \in saving'
      <4>1. run \in runs
          BY <1>1, <1>2, <3>2, <3>4
      <4>2. QED
          BY <3>1, <3>3, <3>4, <4>1 DEF Agreement, Marks
    <3>5. \A q \in failed' : q \in Questions
        BY <3>1 DEF TypeInv, TypeOK
    <3>6. \A q \in failed' : acked'[Answer(q)] < requested'[Answer(q)]
        BY <1>1, <3>1, <3>3, <3>5 DEF Agreement, Marks
    <3>7. QED
        BY <1>1, <3>1, <3>4, <3>6 DEF Agreement, Marks
  <2>3. QED
      BY <2>1, <2>2
<1>9. Pages'
  <2>1. stage = "posting" => s[1] # "answer"
    <3>1. CASE ~locked
        BY <3>1 DEF Agreement, Pages
    <3>2. CASE s = Answer(cur) /\ cur \in failed
      <4>1. cur \in Questions /\ acked[s] < requested[s]
          BY <3>2 DEF Agreement, Marks, TypeInv, TypeOK
      <4>2. QED
          BY <1>3, <3>2, <4>1 DEF Agreement, Pages
    <3>3. QED
        BY <3>1, <3>2
  <2>2. ASSUME stage = "posting", NEW q \in Questions
        PROVE  acked'[Answer(q)] = requested'[Answer(q)]
    <3>1. Answer(q) \in Slots /\ Answer(q) # s
        BY <2>1, <2>2, SlotFacts
    <3>2. QED
        BY <1>1, <1>4, <2>2, <3>1 DEF Agreement, Pages
  <2>3. QED
      BY <1>1, <2>2 DEF Agreement, Pages
<1>10. QED
    BY <1>6, <1>7, <1>8, <1>9 DEF Agreement

\* Sending a run or storing it moves it and nothing else; only a run with nothing
\* before it is moved.
LEMMA MoveAgreement ==
    ASSUME TypeInv, Agreement, NEW run \in runs, Send(run) \/ StoreWrite(run)
    PROVE  Agreement'
<1>1. PICK moved \in RunType : Moves(run, moved)
    BY MovesRun
<1>2. /\ moved.at \in {"sent", "stored"} /\ moved.slot = run.slot
      /\ moved.version = run.version
      /\ moved.epoch = run.epoch /\ moved.value = run.value
      /\ moved.at = "stored" => server' = [server EXCEPT ![run.slot] = run.value]
      /\ moved.at = "sent" => server' = server
    BY <1>1 DEF Moves, MovedFrom
<1>3. runs' = (runs \ {run}) \cup {moved}
    BY <1>1 DEF Moves
<1>4. /\ UNCHANGED <<viewVars, requested, acked, submitVars, pageVars>>
  <2>1. UNCHANGED <<viewVars, versions, epoch, submitVars, pageVars>>
      BY DEF Send, StoreWrite, pageVars
  <2>2. QED
      BY <2>1, SameCounts
<1>5. \A other \in runs : other.slot = run.slot => other.version >= run.version
  <2>1. CASE Send(run)
      BY <2>1 DEF Send, ChainReady, Agreement, Chains
  <2>2. CASE StoreWrite(run)
      BY <2>2 DEF StoreWrite, Agreement, Chains
  <2>3. QED
      BY <2>1, <2>2
<1>6. /\ run.slot \in Slots /\ run.version \in Int
      /\ acked[run.slot] # requested[run.slot]
    BY ChainFacts DEF Agreement
<1>7. server \in [Slots -> AllValues]
    BY DEF TypeInv, Shape
<1>8. \A x \in Slots : x # run.slot => server'[x] = server[x]
    BY <1>1, <1>2, <1>7
\* Each run was there, with the same slot, version and value.
<1>9. \A next \in runs' : \E was \in runs :
          /\ next.slot = was.slot /\ next.version = was.version
          /\ next.value = was.value /\ next.epoch = was.epoch
    BY <1>2, <1>3
<1>10. Chains'
  <2>1. ASSUME NEW next \in runs'
        PROVE  /\ next.epoch = epoch'
               /\ next.version > acked'[next.slot] /\ next.version <= requested'[next.slot]
               /\ next.at = "stored" => server'[next.slot] = next.value
    <3>1. /\ next.epoch = epoch'
          /\ next.version > acked'[next.slot] /\ next.version <= requested'[next.slot]
        BY <1>4, <1>9 DEF Agreement, Chains, pageVars
    <3>2. next.at = "stored" => server'[next.slot] = next.value
      <4>1. CASE next = moved
          BY <1>1, <1>2, <1>6, <1>7, <4>1
      <4>2. CASE next \in runs /\ next # run /\ next.slot = run.slot
        <5>1. next.at # "queued" => run.version >= next.version
            BY <4>2 DEF Agreement, Chains
        <5>2. next.version \in Int /\ next.version >= run.version
            BY <1>5, <4>2, ChainFacts DEF Agreement
        <5>3. next.version # run.version
            BY <4>2 DEF Agreement, Chains
        <5>4. next.at = "queued"
            BY <1>6, <5>1, <5>2, <5>3
        <5>5. QED
            BY <5>4
      <4>3. CASE next \in runs /\ next.slot # run.slot
        <5>1. next.slot \in Slots
            BY <4>3, RunFacts
        <5>2. QED
            BY <1>8, <4>3, <5>1 DEF Agreement, Chains
      <4>4. QED
          BY <1>3, <4>1, <4>2, <4>3
    <3>3. QED
        BY <3>1, <3>2
  <2>2. ASSUME NEW next \in runs', NEW other \in runs', next.slot = other.slot
        PROVE  /\ next.version = other.version => next = other
               /\ next.at # "queued" => other.version >= next.version
    <3>1. CASE next \in runs /\ other \in runs
        BY <2>2, <3>1 DEF Agreement, Chains
    <3>2. CASE next = moved /\ other \in runs /\ other # run
        BY <1>2, <1>5, <2>2, <3>2 DEF Agreement, Chains
    <3>3. CASE next \in runs /\ next # run /\ other = moved
      <4>1. next.slot = run.slot /\ other.version = run.version
          BY <1>2, <2>2, <3>3
      <4>2. QED
          BY <3>3, <4>1 DEF Agreement, Chains
    <3>4. CASE next = moved /\ other = moved
        BY <1>2, <1>6, <3>4
    <3>5. QED
        BY <1>3, <3>1, <3>2, <3>3, <3>4
  <2>3. \A x \in Slots : acked'[x] <= requested'[x]
      BY <1>4 DEF Agreement, Chains
  <2>4. QED
      BY <2>1, <2>2, <2>3 DEF Chains
<1>11. Views'
  <2> SUFFICES ASSUME NEW x \in Slots
               PROVE  /\ acked'[x] = requested'[x] => confirmed'[x] = server'[x]
                      /\ (\A next \in runs' :
                              next.slot = x => next.version # requested'[x])
                             => overlay'[x] = Null
                      /\ \A next \in runs' :
                             next.slot = x /\ next.version = requested'[x]
                                 => overlay'[x] = next.value
      BY DEF Views
  <2>1. acked'[x] = requested'[x] => confirmed'[x] = server'[x]
      BY <1>4, <1>6, <1>8 DEF Agreement, Views, viewVars
  <2>2. (\A next \in runs' : next.slot = x => next.version # requested'[x])
            => overlay'[x] = Null
    <3>1. \A was \in runs : \E next \in runs' :
              next.slot = was.slot /\ next.version = was.version
        BY <1>2, <1>3
    <3>2. QED
        BY <1>4, <3>1 DEF Agreement, Views, viewVars
  <2>3. \A next \in runs' :
            next.slot = x /\ next.version = requested'[x] => overlay'[x] = next.value
      BY <1>4, <1>9 DEF Agreement, Views, viewVars
  <2>4. QED
      BY <2>1, <2>2, <2>3
<1>12. Marks'
  <2>1. /\ saving' = saving /\ failed' = failed /\ cur' = cur
        /\ requested' = requested /\ acked' = acked
      BY <1>4 DEF viewVars, pageVars
  <2>2. QED
      BY <1>9, <2>1 DEF Agreement, Marks
<1>13. Pages'
  <2>1. page # "loading"
      BY DEF Agreement, Pages
  <2>2. QED
      BY <1>4, <2>1 DEF Agreement, Pages, submitVars, pageVars
<1>14. QED
    BY <1>10, <1>11, <1>12, <1>13 DEF Agreement

\* A run that ends was the first of its chain; if it is the latest, the slot has
\* no other.
LEMMA SettleAgreement ==
    ASSUME TypeInv, Agreement, NEW run \in runs,
           Respond(run) \/ Refuse(run) \/ Drop(run)
    PROVE  Agreement'
<1>1. /\ runs' = runs \ {run}
      /\ UNCHANGED <<server, requested, locked, stage, cur, page, epoch, snapshot>>
    BY DEF Respond, Refuse, Drop, SettleFailed, serverVars, submitVars, pageVars,
           versions, requested
<1> DEFINE Same == UNCHANGED <<confirmed, overlay, saving, failed, acked>>
           Confirmed == Confirm(run) /\ run.at = "stored"
           Rolled == RollBack(run) /\ UNCHANGED <<confirmed, acked>>
<1>2. \/ Same /\ run.version # requested[run.slot]
      \/ run.version = requested[run.slot] /\ (Confirmed \/ Rolled)
  <2>1. run.version # requested[run.slot] <=> ~Latest(run)
      BY LatestIsLast DEF Agreement
  <2>2. Superseded(run) <=> ~Latest(run)
      BY LatestIsLast DEF Agreement
  <2>3. CASE Respond(run)
      BY <1>1, <2>1, <2>2, <2>3 DEF Respond, viewVars, acked
  <2>4. CASE Refuse(run) \/ Drop(run)
      BY <1>1, <2>1, <2>4 DEF Refuse, Drop, SettleFailed, versions, acked
  <2>5. QED
      BY <2>3, <2>4
<1>3. /\ run.slot \in Slots /\ run.version \in Int
      /\ requested[run.slot] \in Int /\ acked[run.slot] < requested[run.slot]
      /\ run.version <= requested[run.slot]
    BY ChainFacts DEF Agreement
<1>4. /\ acked \in [Slots -> Nat] /\ confirmed \in [Slots -> AllValues]
      /\ overlay \in [Slots -> AllValues \cup {Null}]
    BY DEF TypeInv, Shape
<1>5. \A other \in runs' : /\ other \in runs /\ other # run
                           /\ other.slot = run.slot => other.version # run.version
    BY <1>1 DEF Agreement, Chains
<1>6. Confirmed => /\ acked' = [acked EXCEPT ![run.slot] = run.version]
                   /\ confirmed' = [confirmed EXCEPT ![run.slot] = run.value]
                   /\ overlay' = [overlay EXCEPT ![run.slot] =
                                      IF @ = run.value THEN Null ELSE @]
                   /\ overlay[run.slot] = run.value \/ run.version # requested[run.slot]
                   /\ server[run.slot] = run.value
  <2>1. Confirmed => acked' = [acked EXCEPT ![run.slot] = run.version]
      BY <1>1, ConfirmCounts, HoldsTheObjectOfNow DEF Agreement
  <2>2. QED
      BY <1>3, <2>1 DEF Confirm, Agreement, Views, Chains
<1>7. Rolled => /\ overlay' = [overlay EXCEPT ![run.slot] = Null]
                /\ confirmed' = confirmed /\ acked' = acked
    BY DEF RollBack
<1>8. \A x \in Slots : x # run.slot =>
          acked'[x] = acked[x] /\ confirmed'[x] = confirmed[x] /\ overlay'[x] = overlay[x]
    BY <1>2, <1>4, <1>6, <1>7
\* What the answer marks become.
<1>9. ASSUME NEW q \in Questions, run.slot = Answer(q), run.version = requested[run.slot]
      PROVE  /\ saving' = saving \ {q}
             /\ failed' = failed \cup {q} \/ failed' = failed \ {q}
             /\ Confirmed => failed' = failed \ {q}
  <2>1. run.slot[1] = "answer" /\ run.slot[2] = q
      BY <1>9, SlotFacts
  <2>2. CASE Confirm(run)
      BY <2>1, <2>2 DEF Confirm
  <2>3. CASE RollBack(run) /\ ~Confirm(run)
      BY <2>1, <2>3 DEF RollBack
  <2>4. QED
      BY <1>2, <1>9, <2>2, <2>3
<1>10. (\A q \in Questions : run.slot # Answer(q)) => saving' = saving /\ failed' = failed
  <2>1. (\A q \in Questions : run.slot # Answer(q)) => run.slot[1] # "answer"
      BY <1>3, SlotFacts
  <2>2. QED
      BY <1>2, <2>1 DEF Confirm, RollBack
<1> HIDE DEF Same, Confirmed, Rolled
<1>11. Chains'
  <2>1. \A x \in Slots : acked'[x] <= requested'[x]
    <3> SUFFICES ASSUME NEW x \in Slots PROVE acked'[x] <= requested'[x]
        OBVIOUS
    <3>1. CASE x # run.slot
        BY <1>1, <1>8, <3>1 DEF Agreement, Chains
    <3>2. CASE x = run.slot
      <4>1. acked'[x] = acked[x] \/ acked'[x] = run.version
          BY <1>2, <1>3, <1>4, <1>6, <1>7, <3>2 DEF Same
      <4>2. QED
          BY <1>1, <1>3, <3>2, <4>1 DEF Agreement, Chains
    <3>3. QED
        BY <3>1, <3>2
  <2>2. ASSUME NEW other \in runs'
        PROVE  other.version > acked'[other.slot]
    <3>1. /\ other.version \in Int /\ other.slot \in Slots
          /\ other.version > acked[other.slot] /\ other.version <= requested[other.slot]
        BY <1>5, ChainFacts DEF Agreement
    <3>2. CASE other.slot # run.slot
        BY <1>8, <3>1, <3>2
    <3>3. CASE other.slot = run.slot /\ ~Confirmed
        BY <1>2, <1>7, <3>1, <3>3 DEF Same
    <3>4. CASE other.slot = run.slot /\ Confirmed
      <4>1. run.at # "queued" /\ other \in runs /\ run.slot = other.slot
          BY <1>5, <3>4 DEF Confirmed
      <4>2. other.version >= run.version
          BY <4>1 DEF Agreement, Chains
      <4>3. acked'[run.slot] = run.version
          BY <1>3, <1>4, <1>6, <3>4
      <4>4. QED
          BY <1>3, <1>5, <3>1, <3>4, <4>2, <4>3
    <3>5. QED
        BY <3>2, <3>3, <3>4
  <2>3. QED
      BY <1>1, <1>5, <2>1, <2>2 DEF Agreement, Chains
<1>12. Views'
  <2> SUFFICES ASSUME NEW x \in Slots
               PROVE  /\ acked'[x] = requested'[x] => confirmed'[x] = server'[x]
                      /\ (\A other \in runs' :
                              other.slot = x => other.version # requested'[x])
                             => overlay'[x] = Null
                      /\ \A other \in runs' :
                             other.slot = x /\ other.version = requested'[x]
                                 => overlay'[x] = other.value
      BY DEF Views
  <2>1. CASE x # run.slot
    <3>1. \A other \in runs : other.slot = x => other \in runs'
        BY <1>1, <2>1
    <3>2. QED
        BY <1>1, <1>5, <1>8, <2>1, <3>1 DEF Agreement, Views
  <2>2. CASE x = run.slot /\ Same /\ run.version # requested[run.slot]
    <3>1. \A other \in runs :
              other.slot = x /\ other.version = requested[x] => other \in runs'
        BY <1>1, <2>2
    <3>2. QED
        BY <1>1, <1>5, <2>2, <3>1 DEF Same, Agreement, Views
  <2>3. CASE x = run.slot /\ run.version = requested[run.slot] /\ (Confirmed \/ Rolled)
    <3>1. \A other \in runs' : other.slot = x => other.version # requested'[x]
        BY <1>1, <1>5, <2>3
    <3>2. overlay'[x] = Null
        BY <1>3, <1>4, <1>6, <1>7, <2>3
    <3>3. acked'[x] = requested'[x] => confirmed'[x] = server'[x]
        BY <1>1, <1>3, <1>4, <1>6, <1>7, <2>3
    <3>4. QED
        BY <3>1, <3>2, <3>3
  <2>4. QED
      BY <1>2, <2>1, <2>2, <2>3
<1>13. Marks'
  <2>1. CASE \A q \in Questions : run.slot # Answer(q)
    <3>1. \A q \in failed : q \in Questions /\ Answer(q) \in Slots /\ Answer(q) # run.slot
        BY <2>1, SlotFacts DEF TypeInv, TypeOK
    <3>2. QED
        BY <1>1, <1>5, <1>8, <1>10, <2>1, <3>1 DEF Agreement, Marks
  <2>2. CASE Same /\ run.version # requested[run.slot]
      BY <1>1, <1>5, <2>2 DEF Same, Agreement, Marks
  <2>3. CASE run.version = requested[run.slot] /\ \E q \in Questions : run.slot = Answer(q)
    <3>1. PICK q \in Questions : run.slot = Answer(q)
        BY <2>3
    <3>2. /\ saving' = saving \ {q}
          /\ failed' = failed \cup {q} \/ failed' = failed \ {q}
          /\ Confirmed => failed' = failed \ {q}
          /\ run.version = requested[run.slot]
        BY <1>2, <1>9, <2>3, <3>1
    <3>3. q \in saving
        BY <3>1, <3>2 DEF Agreement, Marks
    <3>4. saving' \cup failed' \subseteq {cur'}
        BY <1>1, <3>2, <3>3 DEF Agreement, Marks
    <3>5. ASSUME NEW r \in Questions, NEW other \in runs', other.slot = Answer(r),
                 other.version = requested'[Answer(r)]
          PROVE  r \in saving'
      <4>1. r # q
          BY <1>1, <1>5, <3>1, <3>2, <3>5
      <4>2. QED
          BY <1>1, <1>5, <3>2, <3>5, <4>1 DEF Agreement, Marks
    <3>6. ASSUME NEW r \in failed' PROVE acked'[Answer(r)] < requested'[Answer(r)]
      <4>1. CASE r # q
        <5>1. r \in failed /\ r \in Questions
            BY <3>2, <4>1 DEF TypeInv, TypeOK
        <5>2. Answer(r) # run.slot /\ Answer(r) \in Slots
            BY <3>1, <4>1, <5>1, SlotFacts
        <5>3. QED
            BY <1>1, <1>8, <5>1, <5>2 DEF Agreement, Marks
      <4>2. CASE r = q
        <5>1. ~Confirmed
            BY <3>2, <4>2
        <5>2. acked' = acked
            BY <1>2, <1>7, <2>3, <5>1
        <5>3. QED
            BY <1>1, <1>3, <3>1, <4>2, <5>2
      <4>3. QED
          BY <4>1, <4>2
    <3>7. QED
        BY <3>4, <3>5, <3>6 DEF Marks
  <2>4. QED
      BY <1>2, <2>1, <2>2, <2>3
<1>14. Pages'
  <2>1. page # "loading"
      BY DEF Agreement, Pages
  <2>2. ASSUME stage = "posting", NEW q \in Questions
        PROVE  acked'[Answer(q)] = requested'[Answer(q)]
    <3>1. acked[Answer(q)] = requested[Answer(q)] /\ Answer(q) \in Slots
        BY <2>2, SlotFacts DEF Agreement, Pages
    <3>2. Answer(q) # run.slot
        BY <1>3, <1>4, <3>1
    <3>3. QED
        BY <1>1, <1>8, <3>1, <3>2
  <2>3. QED
      BY <1>1, <2>1, <2>2 DEF Agreement, Pages
<1>15. QED
    BY <1>11, <1>12, <1>13, <1>14 DEF Agreement

\* Pages change what may happen next, never what is shown or in flight.
LEMMA PageAgreement ==
    ASSUME TypeInv, Agreement,
           \/ \E q \in Questions : Navigate(q)
           \/ Leave \/ ResumeRead \/ ResumeFails
           \/ Deadline \/ StartSubmit \/ Submitting \/ SubmitFails
    PROVE  Agreement'
<1>1. UNCHANGED <<server, viewVars, chainVars, epoch>>
    BY DEF Navigate, Leave, ResumeRead, ResumeFails, Deadline, StartSubmit,
           Submitting, Awaited, Finalize, SubmitReturns, SubmitFails, serverVars, pageVars
<1>7. runs' = runs /\ requested' = requested /\ acked' = acked
    BY <1>1, SameChains
<1>2. Chains' /\ Views'
    BY <1>1, <1>7 DEF Agreement, Chains, Views, viewVars
<1>3. cur' = cur \/ (saving = {} /\ failed = {})
  <2>1. CASE \E q \in Questions : Navigate(q)
      BY <2>1 DEF Navigate, NavBlocked, Agreement, Marks
  <2>2. CASE ~\E q \in Questions : Navigate(q)
      BY <2>2 DEF Leave, ResumeRead, ResumeFails, Deadline, StartSubmit, Submitting,
             Awaited, Finalize, SubmitReturns, SubmitFails, pageVars
  <2>3. QED
      BY <2>1, <2>2
<1>4. Marks'
    BY <1>1, <1>3, <1>7 DEF Agreement, Marks, viewVars
<1>5. Pages'
  <2>1. CASE (\E q \in Questions : Navigate(q)) \/ Leave \/ Deadline
      BY <1>1, <1>7, <2>1 DEF Navigate, Leave, Deadline, serverVars, submitVars, pageVars,
                        Agreement, Pages
  <2>2. CASE ResumeRead \/ ResumeFails
      BY <1>1, <1>7, <2>2 DEF ResumeRead, ResumeFails, serverVars, submitVars, pageVars,
                        Agreement, Pages
  <2>3. CASE StartSubmit
      BY <1>1, <1>7, <2>3 DEF StartSubmit, serverVars, pageVars, Agreement, Pages
  <2>4. CASE Awaited
    <3>1. AllConfirmed => \A q \in Questions : acked[Answer(q)] = requested[Answer(q)]
      <4>1. \A q \in Questions : /\ Answer(q) \in Slots /\ Answer(q) \in AnswerSlots
                                 /\ acked[Answer(q)] <= requested[Answer(q)]
          BY SlotFacts DEF Agreement, Chains
      <4>2. acked \in [Slots -> Nat] /\ requested \in [Slots -> Nat]
          BY DEF TypeInv, Shape
      <4>3. QED
          BY <4>1, <4>2 DEF AllConfirmed
    <3>2. QED
        BY <1>1, <1>7, <2>4, <3>1 DEF Awaited, GiveUp, serverVars, pageVars,
                                Agreement, Pages
  <2>5. CASE Finalize \/ SubmitReturns \/ SubmitFails
      BY <1>1, <1>7, <2>5 DEF Finalize, SubmitReturns, SubmitFails, GiveUp, serverVars,
                        submitVars, pageVars, Agreement, Pages
  <2>6. QED
      BY <2>1, <2>2, <2>3, <2>4, <2>5 DEF Submitting
<1>6. QED
    BY <1>2, <1>4, <1>5 DEF Agreement

\* A resume that finds nothing in flight keeps the agreement, and so does the
\* hydration that ends it.
LEMMA ResumeAgreement ==
    ASSUME TypeInv, Agreement, ResumeSend, ~crossed'
    PROVE  Agreement'
<1>1. /\ runs = {} /\ stage = "none" /\ page = "away" /\ page' = "loading"
      /\ UNCHANGED <<server, viewVars, chainVars, submitVars, cur, epoch, snapshot>>
    BY DEF ResumeSend, serverVars
<1>5. runs' = runs /\ requested' = requested /\ acked' = acked
    BY <1>1, SameChains
<1>2. Chains' /\ Views' /\ Marks'
    BY <1>1, <1>5 DEF Agreement, Chains, Views, Marks, viewVars
<1>3. Pages'
    BY <1>1, <1>5 DEF Agreement, Pages, submitVars
<1>4. QED
    BY <1>2, <1>3 DEF Agreement

LEMMA HydrateAgreement ==
    ASSUME TypeInv, Agreement, Hydrate
    PROVE  Agreement'
<1>1. /\ page = "loading" /\ runs = {} /\ stage = "none" /\ snapshot = server
    BY DEF Hydrate, Agreement, Pages
<1>2. /\ confirmed' = server /\ server' = server
      /\ overlay' = [s \in Slots |-> Null]
      /\ requested' = [s \in Slots |-> 0] /\ acked' = [s \in Slots |-> 0]
      /\ saving' = {} /\ failed' = {} /\ snapshot' = Null /\ page' = "session"
      /\ runs' = {} /\ stage' = "none"
  <2>1. requested' = [s \in Slots |-> 0] /\ acked' = [s \in Slots |-> 0]
      BY HydrateCounts
  <2>2. QED
      BY <1>1, <2>1 DEF Hydrate, serverVars, submitVars
<1>3. Chains' /\ Views'
    BY <1>2 DEF Chains, Views
<1>4. Marks' /\ Pages'
    BY <1>2 DEF Marks, Pages
<1>5. QED
    BY <1>3, <1>4 DEF Agreement

-----------------------------------------------------------------------------
(* The invariant and what follows from it.                                 *)

LEMMA Invariance == ClientInv /\ [Next]_vars => ClientInv'
<1> SUFFICES ASSUME ClientInv, [Next]_vars PROVE ClientInv'
    OBVIOUS
<1> USE DEF ClientInv
<1>1. CASE RetrySave \/ \E s \in Slots : \E v \in Clicks(s) : Edit(s, v)
  <2>1. PICK s \in Slots : \E v \in Values(s) :
            /\ Request(s, v) /\ page = "session" /\ s[2] = cur
            /\ ~locked \/ (s = Answer(cur) /\ cur \in failed)
      BY <1>1, RequestsOnly
  <2>2. PICK v \in Values(s) :
            /\ Request(s, v) /\ page = "session" /\ s[2] = cur
            /\ ~locked \/ (s = Answer(cur) /\ cur \in failed)
      BY <2>1
  <2>3. TypeInv' /\ crossed' = crossed
      BY <2>2, RequestTypes DEF Request, pageVars
  <2>4. ~crossed => Agreement'
      BY <2>2, RequestAgreement
  <2>5. QED
      BY <2>3, <2>4
<1>2. CASE \E run \in runs : Settle(run) \/ Drop(run)
  <2>1. PICK run \in runs : Settle(run) \/ Drop(run)
      BY <1>2
  <2>2. CASE Send(run) \/ StoreWrite(run)
    <3>1. TypeInv' /\ crossed' = crossed
        BY <2>2, MoveTypes DEF Send, StoreWrite, pageVars
    <3>2. ~crossed => Agreement'
        BY <2>2, MoveAgreement
    <3>3. QED
        BY <3>1, <3>2
  <2>3. CASE Respond(run) \/ Refuse(run) \/ Drop(run)
    <3>1. TypeInv' /\ crossed' = crossed
        BY <2>3, SettleTypes DEF Respond, Refuse, Drop, SettleFailed, pageVars
    <3>2. ~crossed => Agreement'
        BY <2>3, SettleAgreement
    <3>3. QED
        BY <3>1, <3>2
  <2>4. QED
      BY <2>1, <2>2, <2>3 DEF Settle
<1>3. CASE \/ \E q \in Questions : Navigate(q)
           \/ Leave \/ ResumeRead \/ ResumeFails
           \/ Deadline \/ StartSubmit \/ Submitting \/ SubmitFails
  <2>1. TypeInv'
      BY <1>3, PageTypes
  <2>2. crossed' = crossed
      BY <1>3 DEF Navigate, Leave, ResumeRead, ResumeFails, Deadline, StartSubmit,
             Submitting, Awaited, Finalize, SubmitReturns, SubmitFails, pageVars
  <2>3. ~crossed => Agreement'
      BY <1>3, PageAgreement
  <2>4. QED
      BY <2>1, <2>2, <2>3
<1>4. CASE ResumeSend
  <2>1. TypeInv' /\ (crossed => crossed')
      BY <1>4, PageTypes DEF ResumeSend
  <2>2. ~crossed' => Agreement'
      BY <1>4, <2>1, ResumeAgreement
  <2>3. QED
      BY <2>1, <2>2
<1>5. CASE Hydrate
  <2>1. TypeInv' /\ crossed' = crossed
      BY <1>5, HydrateTypes DEF Hydrate
  <2>2. ~crossed => Agreement'
      BY <1>5, HydrateAgreement
  <2>3. QED
      BY <2>1, <2>2
<1>6. CASE UNCHANGED vars
  <2>1. /\ UNCHANGED <<chainVars, epoch, versions>>
        /\ runs' = runs /\ requested' = requested /\ acked' = acked
      BY <1>6, SameChains DEF vars, pageVars, chainVars
  <2>2. TypeInv' /\ crossed' = crossed
      BY <1>6, <2>1 DEF vars, serverVars, viewVars, versions, submitVars, pageVars,
                        TypeInv, TypeOK, Shape
  <2>3. ~crossed => Agreement'
      BY <1>6, <2>1 DEF vars, serverVars, viewVars, submitVars, pageVars,
                        Agreement, Chains, Views, Marks, Pages
  <2>4. QED
      BY <2>2, <2>3
<1>7. QED
    BY <1>1, <1>2, <1>3, <1>4, <1>5, <1>6 DEF Next

LEMMA ClientInvariant == Spec => []ClientInv
<1>1. Init => ClientInv
    BY InitTypes, InitAgreement DEF ClientInv
<1>2. QED
    BY <1>1, Invariance, PTL DEF Spec

\* A slot only ever holds, shows and sends values of its own kind, whatever is
\* clicked, lost, retried or resumed.
THEOREM ClientTypes == Spec => []TypeOK
<1>1. ClientInv => TypeOK
    BY DEF ClientInv, TypeInv
<1>2. QED
    BY <1>1, ClientInvariant, PTL

\* An answer that is not confirmed is marked as saving or failed, never both, and
\* what failed still has the intent a retry sends.
Marked ==
    /\ \A q \in Questions : acked[Answer(q)] < requested[Answer(q)] => q \in saving \cup failed
    /\ saving \cap failed = {}
    /\ \A q \in failed : intent[q] # Null

\* As long as no resume crosses the work in flight: a run sent before one clears
\* the marks and the intent of a request made after it.
MarkedInv == ~crossed => Marked

LEMMA MarkedInit == Init => MarkedInv
<1> SUFFICES ASSUME Init PROVE Marked
    BY DEF MarkedInv
<1>1. acked = requested /\ requested = [s \in Slots |-> 0] /\ saving = {} /\ failed = {}
    BY InitCounts DEF Init
<1>2. QED
    BY <1>1, SlotFacts DEF Marked

\* A crossing is remembered.
LEMMA CrossedStays ==
    ASSUME [Next]_vars, ~crossed'
    PROVE  ~crossed
  BY DEF Next, vars, pageVars, Edit, RetrySave, Request, Settle, Send, StoreWrite, Respond,
     Refuse, Drop, SettleFailed, Navigate, Leave, ResumeSend, ResumeRead, ResumeFails,
     Hydrate, Deadline, StartSubmit, Submitting, Awaited, Finalize, SubmitReturns,
     SubmitFails

LEMMA MarkedStep == ClientInv /\ MarkedInv /\ [Next]_vars => MarkedInv'
<1> SUFFICES ASSUME TypeInv, Chains, Marked, [Next]_vars PROVE Marked'
    BY CrossedStays DEF MarkedInv, ClientInv, Agreement
<1>1. CASE RetrySave \/ \E s \in Slots : \E v \in Clicks(s) : Edit(s, v)
  <2>1. PICK s \in Slots : \E v \in Values(s) : Request(s, v)
      BY <1>1, RequestsOnly
  <2>2. PICK v \in Values(s) : Request(s, v)
      BY <2>1
  <2>3. /\ acked' = acked
        /\ \A x \in Slots : x # s => requested'[x] = requested[x]
      BY <2>2, RequestCounts DEF TypeInv, Shape
  <2>4. CASE s[1] = "answer"
    <3>1. s = Answer(s[2]) /\ s[2] \in Questions /\ v # Null
        BY <2>4, SlotFacts, ValueFacts
    <3>2. /\ intent' = [intent EXCEPT ![s[2]] = v]
          /\ failed' = failed \ {s[2]} /\ saving' = saving \cup {s[2]}
        BY <2>2, <2>4 DEF Request
    <3>3. \A q \in Questions : q # s[2] => requested'[Answer(q)] = requested[Answer(q)]
        BY <2>3, <3>1, SlotFacts
    <3>4. \A q \in failed' : intent'[q] = intent[q]
        BY <3>2 DEF TypeInv, TypeOK, Shape
    <3>5. QED
        BY <2>3, <3>2, <3>3, <3>4 DEF Marked
  <2>5. CASE s[1] # "answer"
    <3>1. UNCHANGED <<intent, failed, saving>>
        BY <2>2, <2>5 DEF Request
    <3>2. \A q \in Questions : requested'[Answer(q)] = requested[Answer(q)]
        BY <2>3, <2>5, SlotFacts
    <3>3. QED
        BY <2>3, <3>1, <3>2 DEF Marked
  <2>6. QED
      BY <2>4, <2>5
<1>2. ASSUME NEW run \in runs, Settle(run) \/ Drop(run) PROVE Marked'
  <2>1. requested' = requested /\ epoch' = epoch
      BY <1>2 DEF Settle, Send, StoreWrite, Respond, Refuse, Drop, SettleFailed, versions,
                  pageVars, requested
  <2>2. run.slot \in Slots /\ run.version \in Nat /\ run.value # Null
      BY RunFacts, ValueFacts, ClientAssumption
  <2>3. CASE UNCHANGED <<viewVars, acked>>
      BY <2>1, <2>3 DEF Marked, viewVars
  <2>4. CASE Confirm(run) /\ Latest(run)
    <3>1. /\ \A x \in Slots : x # run.slot => acked'[x] = acked[x]
          /\ acked'[run.slot] = run.version /\ run.version = requested[run.slot]
          /\ requested[run.slot] \in Nat
      <4>1. acked' = [acked EXCEPT ![run.slot] = run.version]
          BY <2>1, <2>4, ConfirmCounts, HoldsTheObjectOfNow
      <4>2. QED
          BY <2>2, <2>4, <4>1, LatestIsLast DEF TypeInv, Shape
    <3>2. ~(acked'[run.slot] < requested'[run.slot])
        BY <2>1, <2>2, <3>1
    <3>3. CASE run.slot[1] = "answer"
      <4>1. run.slot = Answer(run.slot[2]) /\ run.slot[2] \in Questions
          BY <2>2, <3>3, SlotFacts
      <4>2. /\ intent' = [intent EXCEPT ![run.slot[2]] = Null]
            /\ failed' = failed \ {run.slot[2]} /\ saving' = saving \ {run.slot[2]}
          BY <2>4, <3>3 DEF Confirm
      <4>3. \A q \in Questions : q # run.slot[2] => acked'[Answer(q)] = acked[Answer(q)]
          BY <3>1, <4>1, SlotFacts
      <4>4. \A q \in failed' : intent'[q] = intent[q]
          BY <4>2 DEF TypeInv, TypeOK, Shape
      <4>5. QED
          BY <2>1, <3>2, <4>1, <4>2, <4>3, <4>4 DEF Marked
    <3>4. CASE run.slot[1] # "answer"
      <4>1. UNCHANGED <<intent, failed, saving>>
          BY <2>4, <3>4 DEF Confirm
      <4>2. \A q \in Questions : acked'[Answer(q)] = acked[Answer(q)]
          BY <3>1, <3>4, SlotFacts
      <4>3. QED
          BY <2>1, <4>1, <4>2 DEF Marked
    <3>5. QED
        BY <3>3, <3>4
  <2>5. CASE RollBack(run) /\ UNCHANGED acked
    <3>1. CASE run.slot[1] = "answer"
      <4>1. run.slot[2] \in Questions
          BY <2>2, SlotFacts
      <4>2. /\ intent' = [intent EXCEPT ![run.slot[2]] = run.value]
            /\ failed' = failed \cup {run.slot[2]} /\ saving' = saving \ {run.slot[2]}
          BY <2>5, <3>1 DEF RollBack
      <4>3. \A q \in failed' : intent'[q] # Null
          BY <2>2, <4>1, <4>2 DEF Marked, TypeInv, TypeOK, Shape
      <4>4. QED
          BY <2>1, <2>5, <4>2, <4>3 DEF Marked
    <3>2. CASE run.slot[1] # "answer"
        BY <2>1, <2>5, <3>2 DEF RollBack, Marked
    <3>3. QED
        BY <3>1, <3>2
  <2>6. /\ confirmedVersion' = confirmedVersion => acked' = acked
        /\ UNCHANGED versions => confirmedVersion' = confirmedVersion
      BY <2>1 DEF acked, versions
  <2>7. CASE Send(run) \/ StoreWrite(run)
      BY <2>3, <2>6, <2>7 DEF Send, StoreWrite
  <2>8. CASE Respond(run)
      BY <2>3, <2>4, <2>6, <2>8 DEF Respond, Superseded
  <2>9. CASE Refuse(run) \/ Drop(run)
      BY <2>3, <2>5, <2>6, <2>9 DEF Refuse, Drop, SettleFailed, viewVars
  <2>10. QED
      BY <1>2, <2>7, <2>8, <2>9 DEF Settle
<1>3. CASE Hydrate
  <2>1. /\ acked' = [s \in Slots |-> 0] /\ requested' = [s \in Slots |-> 0]
        /\ saving' = {} /\ failed' = {}
      BY <1>3, HydrateCounts DEF Hydrate
  <2>2. QED
      BY <2>1, SlotFacts DEF Marked
<1>4. CASE \/ \E q \in Questions : Navigate(q)
           \/ Leave \/ ResumeSend \/ ResumeRead \/ ResumeFails
           \/ Deadline \/ StartSubmit \/ Submitting \/ SubmitFails \/ UNCHANGED vars
  <2>1. UNCHANGED <<viewVars, chainVars, epoch>>
      BY <1>4 DEF vars, pageVars, Navigate, Leave, ResumeSend, ResumeRead, ResumeFails,
         Deadline, StartSubmit, Submitting, Awaited, Finalize, SubmitReturns, SubmitFails
  <2>2. QED
      BY <2>1, SameChains DEF viewVars, Marked
<1>5. QED
    BY <1>1, <1>2, <1>3, <1>4 DEF Next

LEMMA MarkedInvariant == Spec => [](ClientInv /\ MarkedInv)
  BY MarkedInit, MarkedStep, ClientInvariant, PTL DEF Spec

LEMMA UnconfirmedIsHandled ==
    ASSUME Marked, NEW q \in Questions, acked[Answer(q)] < requested[Answer(q)]
    PROVE  q \in saving \/ CanRetry(q)
  BY DEF Marked, CanRetry

\* onSaveFailed and navigationBlocked forget nothing: as long as no resume crosses
\* the work in flight, an answer the server has not accepted is being saved or has
\* its Retry, and its question is the displayed one.
THEOREM StrandsNothing == Spec => []UnsavedStaysInView
<1>1. ClientInv /\ MarkedInv => UnsavedStaysInView
    BY UnconfirmedIsHandled
    DEF ClientInv, MarkedInv, Agreement, Marks, UnsavedStaysInView
<1>2. QED
    BY <1>1, MarkedInvariant, PTL

\* A submission that awaits its saves gives up, as long as no resume crossed them,
\* for an answer the user sees: one that is being saved again or offers its Retry,
\* on the question on the screen.
GivesUpInView ==
    Awaited /\ stage' = "none" /\ ~crossed =>
        \E q \in Questions :
            /\ acked[Answer(q)] < requested[Answer(q)]
            /\ q \in saving \/ CanRetry(q)
            /\ q = cur

\* The expiry submission and its retries throw for a reason that can be cured or
\* will settle, never for an answer on a question the user cannot get at.
THEOREM GivesUpOpenly == Spec => [][GivesUpInView]_vars
<1>1. ClientInv /\ MarkedInv => [GivesUpInView]_vars
  <2> SUFFICES ASSUME ClientInv, Marked, ~crossed, Awaited, stage' = "none"
               PROVE  \E q \in Questions :
                          /\ acked[Answer(q)] < requested[Answer(q)]
                          /\ q \in saving \/ CanRetry(q)
                          /\ q = cur
      BY DEF GivesUpInView, MarkedInv
  <2>1. ~AllConfirmed
      BY DEF Awaited
  <2>2. PICK s \in AnswerSlots : ~(acked[s] >= requested[s])
      BY <2>1 DEF AllConfirmed
  <2>3. PICK q \in Questions : s = Answer(q)
      BY <2>2, SlotFacts
  <2>4. acked[Answer(q)] < requested[Answer(q)]
      BY <2>2, <2>3, SlotFacts DEF ClientInv, TypeInv, Shape
  <2>5. q \in saving \/ CanRetry(q)
      BY <2>4, UnconfirmedIsHandled
  <2>6. q = cur
      BY <2>5 DEF CanRetry, ClientInv, Agreement, Marks
  <2>7. QED
      BY <2>4, <2>5, <2>6
<1>2. QED
    BY <1>1, MarkedInvariant, PTL

\* The latest request of an answer that is marked as saving is out.
Underway ==
    \A q \in saving : \E run \in runs :
        run.slot = Answer(q) /\ run.version = requested[Answer(q)]

\* As long as no resume crosses the work in flight.
SavingIsUnderway == ~crossed => Underway

LEMMA UnderwayStep ==
    ASSUME ClientInv, SavingIsUnderway, [Next]_vars
    PROVE  SavingIsUnderway'
<1> SUFFICES ASSUME Underway, TypeInv, Chains PROVE Underway'
    BY CrossedStays DEF SavingIsUnderway, ClientInv, Agreement
<1> DEFINE Out(q, run) == run.slot = Answer(q) /\ run.version = requested[Answer(q)]
<1>2. saving \subseteq Questions
    BY DEF TypeInv, TypeOK
<1>4. CASE RetrySave \/ \E s \in Slots : \E v \in Clicks(s) : Edit(s, v)
  <2>1. PICK s \in Slots : \E v \in Values(s) : Request(s, v)
      BY <1>4, RequestsOnly
  <2>2. PICK v \in Values(s) : Request(s, v)
      BY <2>1
  <2> DEFINE new == RunOf(s, requested[s] + 1, v)
  <2>3. /\ requested'[s] = requested[s] + 1
        /\ \A x \in Slots : x # s => requested'[x] = requested[x]
        /\ runs' = runs \cup {new}
      BY <2>2, RequestCounts DEF Request, TypeInv, Shape
  <2>4. new.slot = s /\ new.version = requested[s] + 1
      BY DEF RunOf
  <2> HIDE DEF new
  <2>5. \A q \in saving' : q \in saving \/ s = Answer(q)
    <3>1. CASE s[1] = "answer"
        BY <2>2, <3>1, SlotFacts DEF Request
    <3>2. CASE s[1] # "answer"
        BY <2>2, <3>2 DEF Request
    <3>3. QED
        BY <3>1, <3>2
  <2>6. ASSUME NEW q \in saving'
        PROVE  \E run \in runs' : /\ run.slot = Answer(q)
                                  /\ run.version = requested'[Answer(q)]
    <3>1. CASE s = Answer(q)
        BY <2>3, <2>4, <3>1
    <3>2. CASE s # Answer(q)
      <4>1. q \in saving /\ Answer(q) \in Slots
          BY <1>2, <2>5, <3>2, SlotFacts
      <4>2. PICK run \in runs : Out(q, run)
          BY <4>1 DEF Underway
      <4>3. QED
          BY <2>3, <3>2, <4>1, <4>2
    <3>3. QED
        BY <3>1, <3>2
  <2>7. QED
      BY <2>6 DEF Underway
<1>5. ASSUME NEW run \in runs, Send(run) \/ StoreWrite(run) PROVE Underway'
  <2>1. PICK moved \in RunType : Moves(run, moved)
      BY <1>5, MovesRun
  <2>2. moved.slot = run.slot /\ moved.version = run.version
      BY <2>1 DEF Moves, MovedFrom
  <2>3. UNCHANGED <<saving, requested>>
      BY <1>5 DEF Send, StoreWrite, viewVars, pageVars, versions, requested
  <2>4. \A other \in runs : \E now \in runs' :
            now.slot = other.slot /\ now.version = other.version
      BY <2>1, <2>2 DEF Moves
  <2>5. QED
      BY <2>3, <2>4 DEF Underway
<1>6. ASSUME NEW run \in runs, Respond(run) \/ Refuse(run) \/ Drop(run) PROVE Underway'
  <2>1. runs' = runs \ {run} /\ requested' = requested
      BY <1>6 DEF Respond, Refuse, Drop, SettleFailed, versions, pageVars, requested
  <2>2. saving' \subseteq saving
      BY <1>6 DEF Respond, Refuse, Drop, SettleFailed, Confirm, RollBack, viewVars
  <2>3. ASSUME NEW q \in saving', Out(q, run) PROVE FALSE
    <3>1. q \in Questions /\ run.slot[1] = "answer" /\ run.slot[2] = q
        BY <1>2, <2>2, <2>3, SlotFacts
    <3>2. Latest(run) /\ ~Superseded(run)
        BY <2>3, LatestIsLast
    <3>3. Confirm(run) \/ RollBack(run)
        BY <1>6, <3>2 DEF Respond, Refuse, Drop, SettleFailed
    <3>4. saving' = saving \ {q}
        BY <3>1, <3>3 DEF Confirm, RollBack
    <3>5. QED
        BY <2>3, <3>4
  <2>4. ASSUME NEW q \in saving' PROVE \E other \in runs' : Out(q, other)
    <3>1. PICK other \in runs : Out(q, other)
        BY <2>2 DEF Underway
    <3>2. other # run
        BY <2>3, <3>1
    <3>3. QED
        BY <2>1, <3>1, <3>2
  <2>5. QED
      BY <2>1, <2>4 DEF Underway
<1>7. CASE Hydrate
    BY <1>7 DEF Hydrate, Underway
<1>8. CASE \/ \E q \in Questions : Navigate(q)
           \/ Leave \/ ResumeSend \/ ResumeRead \/ ResumeFails
           \/ Deadline \/ StartSubmit \/ Submitting \/ SubmitFails \/ UNCHANGED vars
  <2>1. UNCHANGED <<viewVars, chainVars, epoch>>
      BY <1>8 DEF vars, pageVars, Navigate, Leave, ResumeSend, ResumeRead, ResumeFails,
         Deadline, StartSubmit, Submitting, Awaited, Finalize, SubmitReturns, SubmitFails
  <2>2. QED
      BY <2>1, SameChains DEF viewVars, Underway
<1>9. QED
    BY <1>4, <1>5, <1>6, <1>7, <1>8 DEF Next, Settle

\* No answer is shown as saving without its latest request being out, so what
\* submit() and the navigation wait for is on its way: nothing superseded, lost or
\* refused leaves the mark behind.
THEOREM SavingMeansSaving == Spec => []SavingIsUnderway
<1>1. Init => SavingIsUnderway
    BY DEF Init, SavingIsUnderway, Underway
<1>2. ClientInv /\ SavingIsUnderway /\ [Next]_vars => SavingIsUnderway'
    BY UnderwayStep
<1>3. QED
    BY <1>1, <1>2, ClientInvariant, PTL DEF Spec

\* The versions of onSaved and onSaveFailed keep late and lost responses from
\* making the screen disagree with the stored row.
THEOREM ConfirmedStays == Spec => []ConfirmedIsStored
<1>1. ClientInv => ConfirmedIsStored
  <2> SUFFICES ASSUME ClientInv, ~crossed, NEW s \in Slots, acked[s] = requested[s],
                      \A run \in runs : run.slot # s
               PROVE  Shown(s) = server[s]
      BY DEF ConfirmedIsStored
  <2>1. confirmed[s] = server[s] /\ overlay[s] = Null
      BY DEF ClientInv, Agreement, Views
  <2>2. QED
      BY <2>1 DEF Shown
<1>2. QED
    BY <1>1, ClientInvariant, PTL

\* awaitPendingSaves and the check after it let a submission score nothing but
\* the answers on the screen, for any number of lost responses.
THEOREM SubmitsTheScreen == Spec => SubmitScoresTheScreen
<1>1. ClientInv /\ [Next]_vars =>
          [Finalize /\ result = Null /\ ~crossed =>
              \A q \in Questions : result'[Answer(q)] = Shown(Answer(q))]_vars
  <2> SUFFICES ASSUME ClientInv, Finalize, result = Null, ~crossed, NEW q \in Questions
               PROVE  result'[Answer(q)] = Shown(Answer(q))
      BY DEF vars
  <2>1. Answer(q) \in Slots /\ acked[Answer(q)] = requested[Answer(q)]
      BY SlotFacts DEF Finalize, ClientInv, Agreement, Pages
  <2>2. \A run \in runs : run.slot # Answer(q)
      BY <2>1, ChainFacts DEF ClientInv, Agreement
  <2>3. confirmed[Answer(q)] = server[Answer(q)] /\ overlay[Answer(q)] = Null
      BY <2>1, <2>2 DEF ClientInv, Agreement, Views
  <2>4. QED
      BY <2>3 DEF Finalize, Shown
<1>2. QED
    BY <1>1, ClientInvariant, PTL DEF Spec, SubmitScoresTheScreen

-----------------------------------------------------------------------------
(* What a submission waits for.                                            *)

LEMMA Smallest ==
    ASSUME NEW T, T \subseteq Nat, T # {}
    PROVE  \E m \in T : \A k \in T : m <= k
<1> DEFINE R == {pair \in Nat \X Nat : pair[1] < pair[2]}
<1>1. IsWellFoundedOn(R, Nat)
    BY NatLessThanWellFounded DEF OpToRel
<1>2. \A a, b \in Nat : <<a, b>> \in R <=> a < b
    OBVIOUS
<1> HIDE DEF R
<1>3. PICK m \in T : \A k \in T : ~(<<k, m>> \in R)
    BY <1>1, WFMin
<1>4. ASSUME NEW k \in T PROVE m <= k
  <2>1. k \in Nat /\ m \in Nat /\ ~(<<k, m>> \in R)
      BY <1>3
  <2>2. ~(k < m)
      BY <1>2, <2>1
  <2>3. QED
      BY <2>1, <2>2
<1>5. QED
    BY <1>4

\* Neither the chain nor the server keeps the run from its next step.
CanGoOn(run) == run.at = "queued" => ChainReady(run)

\* In the chain of every run the one at its head can go on.
ChainsGoOn ==
    \A run \in runs : \E first \in runs :
        /\ first.slot = run.slot /\ first.epoch = run.epoch
        /\ first.version <= run.version /\ CanGoOn(first)

\* The runs awaitPendingSaves collected that have not settled.
Waited == {run \in runs : Id(run) \in awaited}

Ahead(place) == CASE place = "queued" -> 3
                  [] place = "sent" -> 2
                  [] OTHER -> 1

\* A waiting submission never waits for anything more or anything that went
\* back, and each step of a run brings it nearer to its end.
WaitShortens ==
    /\ stage = "waiting" /\ stage' = "waiting" =>
           \A run \in Waited' : \E old \in Waited :
               Id(old) = Id(run) /\ Ahead(run.at) <= Ahead(old.at)
    /\ \A run \in runs : Settle(run) \/ Drop(run) =>
           \A left \in runs' : Id(left) = Id(run) => Ahead(left.at) < Ahead(run.at)

\* Whether the version n of slot s in epoch e has been handed out.
Handed(s, e, n) == e < epoch \/ (e = epoch /\ n <= requested[s])

Known(id) ==
    \E s \in Slots, e \in Nat, n \in Nat : id = <<s, e, n>> /\ Handed(s, e, n)

\* Versions name runs: no two share one, and all that are out or waited for
\* have been handed out.
Issued ==
    /\ \A run \in runs : Handed(run.slot, run.epoch, run.version)
    /\ \A id \in awaited : Known(id)
    /\ \A run, other \in runs : Id(run) = Id(other) => run = other

IssuedInv == TypeInv /\ Issued

\* What a step does to the runs and to what is waited for.
LEMMA RunSteps ==
    ASSUME TypeInv, [Next]_vars
    PROVE  \/ /\ \E s \in Slots : \E v \in Values(s) : Request(s, v)
              /\ UNCHANGED <<epoch, awaited, stage>>
           \/ /\ \E run \in runs : \E moved \in RunType : Moves(run, moved)
              /\ UNCHANGED <<requested, epoch, awaited, stage>>
           \/ /\ \E run \in runs : runs' = runs \ {run}
              /\ UNCHANGED <<requested, epoch, awaited, stage>>
           \/ /\ StartSubmit /\ stage = "none"
              /\ awaited' = Ids(ToAwait) /\ UNCHANGED <<runs, requested, epoch>>
           \/ Awaited /\ stage' # "waiting" /\ awaited' = {}
              /\ UNCHANGED <<runs, requested, epoch>>
           \/ Hydrate
           \/ UNCHANGED <<runs, requested, epoch, awaited, stage>>
           \/ UNCHANGED <<runs, requested, epoch, awaited>> /\ stage' # "waiting"
<1> USE DEF chainVars, submitVars, pageVars, versions
<1>1. CASE RetrySave \/ \E s \in Slots : \E v \in Clicks(s) : Edit(s, v)
    BY <1>1, RequestsOnly DEF Request
<1>2. ASSUME NEW run \in runs, Settle(run) \/ Drop(run)
      PROVE  /\ UNCHANGED <<requested, epoch, awaited, stage>>
             /\ (\E moved \in RunType : Moves(run, moved)) \/ runs' = runs \ {run}
  <2>1. UNCHANGED <<requested, epoch, awaited, stage>>
      BY <1>2 DEF Settle, Send, StoreWrite, Respond, Refuse, Drop, SettleFailed, requested
  <2>2. CASE Send(run) \/ StoreWrite(run)
      BY <2>1, <2>2, MovesRun
  <2>3. CASE ~(Send(run) \/ StoreWrite(run))
      BY <1>2, <2>1, <2>3 DEF Settle, Respond, Refuse, Drop, SettleFailed
  <2>4. QED
      BY <2>2, <2>3
<1>3. CASE \/ \E q \in Questions : Navigate(q)
           \/ Leave \/ ResumeSend \/ ResumeRead \/ ResumeFails \/ Deadline
    BY <1>3 DEF Navigate, Leave, ResumeSend, ResumeRead, ResumeFails, Deadline, requested
<1>4. CASE StartSubmit \/ Awaited
    BY <1>4 DEF StartSubmit, Awaited, GiveUp, requested
<1>5. CASE Finalize \/ SubmitReturns \/ SubmitFails
    BY <1>5 DEF Finalize, SubmitReturns, SubmitFails, GiveUp, requested
<1>6. CASE UNCHANGED vars
    BY <1>6 DEF vars, requested
<1>7. QED
    BY <1>1, <1>2, <1>3, <1>4, <1>5, <1>6 DEF Next, Submitting

LEMMA IdFacts ==
    ASSUME NEW run, NEW other
    PROVE  Id(run) = Id(other) <=> /\ run.slot = other.slot /\ run.epoch = other.epoch
                                   /\ run.version = other.version
  BY DEF Id

LEMMA RunNumbers ==
    ASSUME TypeInv, NEW run \in runs
    PROVE  run.slot \in Slots /\ run.epoch \in Nat /\ run.version \in Nat
  BY ClientAssumption DEF TypeInv, TypeOK, RunType

\* A run that moves keeps its name and leaves the others alone.
LEMMA MovedNames ==
    ASSUME NEW run \in runs, NEW moved \in RunType, Moves(run, moved), NEW new \in runs'
    PROVE  \E old \in runs : /\ new.slot = old.slot /\ new.epoch = old.epoch
                             /\ new.version = old.version
                             /\ new = old \/ (old = run /\ new = moved)
                             /\ old = run => new = moved
<1>1. CASE new \in runs /\ new # run
    BY <1>1
<1>2. CASE new = moved
    BY <1>2 DEF Moves, MovedFrom
<1>3. QED
    BY <1>1, <1>2 DEF Moves

LEMMA IssuedInit == Init => IssuedInv
  BY InitTypes DEF Init, IssuedInv, Issued

\* A version that was handed out stays so, and with it its name.
LEMMA KnownStays ==
    ASSUME \A s \in Slots, e \in Nat, n \in Nat : Handed(s, e, n) => Handed(s, e, n)',
           NEW id, Known(id)
    PROVE  Known(id)'
<1>1. PICK s \in Slots, e \in Nat, n \in Nat : id = <<s, e, n>> /\ Handed(s, e, n)
    BY DEF Known
<1>2. Handed(s, e, n)'
    BY <1>1
<1>3. Slots' = Slots
    BY DEF Slots
<1>4. QED
    BY <1>1, <1>2, <1>3 DEF Known

LEMMA IssuedStep == IssuedInv /\ [Next]_vars => Issued'
<1> SUFFICES ASSUME TypeInv, Issued, [Next]_vars PROVE Issued'
    BY DEF IssuedInv
<1>1. epoch \in Nat /\ requested \in [Slots -> Nat]
    BY ClientAssumption DEF TypeInv, TypeOK, Shape
<1>2. ASSUME NEW s \in Slots, NEW v \in Values(s), Request(s, v),
             UNCHANGED <<epoch, awaited>>
      PROVE  Issued'
  <2>1. /\ requested' = [requested EXCEPT ![s] = @ + 1]
        /\ runs' = runs \cup {RunOf(s, requested[s] + 1, v)}
      BY <1>2, RequestCounts DEF Request
  <2>2. \A x \in Slots, e \in Nat, n \in Nat : Handed(x, e, n) => Handed(x, e, n)'
      BY <1>1, <1>2, <2>1 DEF Handed
  <2> DEFINE fresh == RunOf(s, requested[s] + 1, v)
  <2>3. /\ fresh.slot = s /\ fresh.epoch = epoch /\ fresh.version = requested[s] + 1
        /\ epoch' = epoch /\ requested'[s] = requested[s] + 1
      BY <1>1, <1>2, <2>1 DEF RunOf
  <2>4. \A run \in runs : Id(run) # Id(fresh)
    <3> SUFFICES ASSUME NEW run \in runs, Id(run) = Id(fresh) PROVE FALSE
        OBVIOUS
    <3>1. run.slot = s /\ run.epoch = epoch /\ run.version = requested[s] + 1
        BY <2>3, IdFacts
    <3>2. QED
        BY <1>1, <3>1 DEF Issued, Handed
  <2> HIDE DEF fresh
  <2>5. runs' = runs \cup {fresh}
      BY <2>1 DEF fresh
  <2>6. \A run \in runs' : Handed(run.slot, run.epoch, run.version)'
    <3>1. ASSUME NEW run \in runs PROVE Handed(run.slot, run.epoch, run.version)'
        BY <2>2, RunNumbers DEF Issued
    <3>2. ASSUME NEW run, run = fresh PROVE Handed(run.slot, run.epoch, run.version)'
        BY <1>1, <2>3, <3>2 DEF Handed
    <3>3. QED
        BY <2>5, <3>1, <3>2
  <2>7. \A run, other \in runs' : Id(run) = Id(other) => run = other
      BY <2>4, <2>5 DEF Issued
  <2>8. \A id \in awaited' : Known(id)'
      BY <1>2, <2>2, KnownStays DEF Issued
  <2>9. QED
      BY <2>6, <2>7, <2>8 DEF Issued, Id
<1>3. ASSUME NEW run \in runs, NEW moved \in RunType, Moves(run, moved),
             UNCHANGED <<requested, epoch, awaited>>
      PROVE  Issued'
  <2>1. \A x \in runs' : Handed(x.slot, x.epoch, x.version)'
      BY <1>3, MovedNames DEF Issued, Handed
  <2>2. ASSUME NEW x \in runs', NEW y \in runs', Id(x) = Id(y) PROVE x = y
    <3>1. PICK a \in runs : /\ x.slot = a.slot /\ x.epoch = a.epoch /\ x.version = a.version
                            /\ x = a \/ (a = run /\ x = moved)
                            /\ a = run => x = moved
        BY <1>3, MovedNames
    <3>2. PICK b \in runs : /\ y.slot = b.slot /\ y.epoch = b.epoch /\ y.version = b.version
                            /\ y = b \/ (b = run /\ y = moved)
                            /\ b = run => y = moved
        BY <1>3, MovedNames
    <3>3. a = b
        BY <2>2, <3>1, <3>2, IdFacts DEF Issued
    <3>4. CASE a # run
        BY <3>1, <3>2, <3>3, <3>4
    <3>5. CASE a = run
        BY <3>1, <3>2, <3>3, <3>5
    <3>6. QED
        BY <3>4, <3>5
  <2>3. \A id \in awaited' : Known(id)'
    <3>1. \A x \in Slots, e \in Nat, n \in Nat : Handed(x, e, n) => Handed(x, e, n)'
        BY <1>3 DEF Handed
    <3>2. QED
        BY <1>3, <3>1, KnownStays DEF Issued
  <2>4. QED
      BY <2>1, <2>2, <2>3 DEF Issued, Id
<1>4. ASSUME runs' \subseteq runs, UNCHANGED <<requested, epoch>>,
             awaited' \subseteq awaited
      PROVE  Issued'
  <2>1. \A id \in awaited' : Known(id)'
    <3>1. \A x \in Slots, e \in Nat, n \in Nat : Handed(x, e, n) => Handed(x, e, n)'
        BY <1>4 DEF Handed
    <3>2. QED
        BY <1>4, <3>1, KnownStays DEF Issued
  <2>2. \A x \in runs' : Handed(x.slot, x.epoch, x.version)'
      BY <1>4 DEF Issued, Handed
  <2>3. \A x, y \in runs' : Id(x) = Id(y) => x = y
      BY <1>4 DEF Issued
  <2>4. QED
      BY <2>1, <2>2, <2>3 DEF Issued, Id
<1>5. ASSUME awaited' = Ids(ToAwait), UNCHANGED <<runs, requested, epoch>>
      PROVE  Issued'
  <2>1. \A id \in awaited' : \E run \in runs : id = <<run.slot, run.epoch, run.version>>
      BY <1>5 DEF Ids, ToAwait, Id
  <2>2. ASSUME NEW id \in awaited'
        PROVE  Known(id)'
    <3>1. PICK run \in runs : id = <<run.slot, run.epoch, run.version>>
        BY <2>1
    <3>2. Handed(run.slot, run.epoch, run.version)'
        BY <1>5 DEF Issued, Handed
    <3>3. run.slot \in Slots /\ run.epoch \in Nat /\ run.version \in Nat
        BY RunNumbers
    <3>4. Slots' = Slots
        BY DEF Slots
    <3>5. QED
        BY <3>1, <3>2, <3>3, <3>4 DEF Known
  <2>3. \A x \in runs' : Handed(x.slot, x.epoch, x.version)'
      BY <1>5 DEF Issued, Handed
  <2>4. \A x, y \in runs' : Id(x) = Id(y) => x = y
      BY <1>5 DEF Issued
  <2>5. QED
      BY <2>2, <2>3, <2>4 DEF Issued, Id
<1>6. CASE Hydrate
  <2>1. UNCHANGED <<runs, awaited>> /\ epoch' = epoch + 1
      BY <1>6 DEF Hydrate, submitVars
  <2>2. \A x \in Slots, e \in Nat, n \in Nat : Handed(x, e, n) => Handed(x, e, n)'
      BY <1>1, <2>1 DEF Handed
  <2>3. \A run \in runs' : Handed(run.slot, run.epoch, run.version)'
      BY <2>1, <2>2, RunNumbers DEF Issued
  <2>4. \A id \in awaited' : Known(id)'
      BY <2>1, <2>2, KnownStays DEF Issued
  <2>5. QED
      BY <2>1, <2>3, <2>4 DEF Issued, Id
<1>7. QED
    BY RunSteps, <1>2, <1>3, <1>4, <1>5, <1>6

LEMMA IssuedInvariant == Spec => []IssuedInv
<1>1. ClientInv => TypeInv
    BY DEF ClientInv
<1>2. QED
    BY <1>1, ClientInvariant, IssuedInit, IssuedStep, PTL DEF Spec, IssuedInv

\* Whatever is lost, refused or crossed by a resume, the run at the head of a
\* slot's promise chain can always go on: saves that pile up do not block
\* each other.
THEOREM SavesGoOn == Spec => []ChainsGoOn
<1>1. ClientInv => ChainsGoOn
  <2> SUFFICES ASSUME TypeInv, NEW run \in runs
               PROVE  \E first \in runs :
                          /\ first.slot = run.slot /\ first.epoch = run.epoch
                          /\ first.version <= run.version /\ CanGoOn(first)
      BY DEF ClientInv, ChainsGoOn
  <2> DEFINE Chain == {x \in runs : x.slot = run.slot /\ x.epoch = run.epoch}
             Versions == {x.version : x \in Chain}
  <2>1. Versions \subseteq Nat /\ run.version \in Versions
      BY RunNumbers
  <2>2. PICK least \in Versions : \A n \in Versions : least <= n
    <3> HIDE DEF Versions
    <3> QED
        BY <2>1, Smallest
  <2>3. PICK first \in Chain : first.version = least
      OBVIOUS
  <2>4. \A x \in Chain : first.version <= x.version
      BY <2>2, <2>3
  <2>5. ChainReady(first)
      BY <2>3, <2>4, RunNumbers DEF ChainReady
  <2>6. QED
      BY <2>3, <2>4, <2>5 DEF CanGoOn
<1>2. QED
    BY <1>1, ClientInvariant, PTL

\* awaitPendingSaves waits for what it collected and for nothing that comes
\* later, and each of its promises only moves towards its end.
THEOREM SubmissionsWaitLess == Spec => [][WaitShortens]_vars
<1>1. IssuedInv /\ [Next]_vars => [WaitShortens]_vars
  <2> SUFFICES ASSUME TypeInv, Issued, [Next]_vars PROVE WaitShortens
      BY DEF IssuedInv
  <2>1. ASSUME NEW run \in runs, Settle(run) \/ Drop(run),
               NEW left \in runs', Id(left) = Id(run)
        PROVE  Ahead(left.at) < Ahead(run.at)
    <3>1. CASE runs' = runs \ {run}
        BY <2>1, <3>1 DEF Issued
    <3>2. CASE Send(run) \/ StoreWrite(run)
      <4>1. PICK moved \in RunType : Moves(run, moved)
          BY <3>2, MovesRun
      <4>2. PICK old \in runs :
                /\ left.slot = old.slot /\ left.epoch = old.epoch
                /\ left.version = old.version
                /\ old = run => left = moved
          BY <2>1, <4>1, MovedNames
      <4>3. old = run
          BY <2>1, <4>2, IdFacts DEF Issued
      <4>4. QED
          BY <4>1, <4>2, <4>3 DEF Moves, MovedFrom, Ahead
    <3>5. QED
        BY <2>1, <3>1, <3>2 DEF Settle, Respond, Refuse, Drop, SettleFailed
  <2>2. ASSUME stage = "waiting", stage' = "waiting", NEW run \in Waited'
        PROVE  \E old \in Waited : Id(old) = Id(run) /\ Ahead(run.at) <= Ahead(old.at)
    <3>1. run \in runs' /\ Id(run) \in awaited'
        BY <2>2 DEF Waited, Id
    <3>2. Ahead(run.at) \in Nat
        BY DEF Ahead
    <3>3. CASE runs' \subseteq runs /\ awaited' \subseteq awaited
        BY <3>1, <3>2, <3>3 DEF Waited
    <3>4. ASSUME NEW s \in Slots, NEW v \in Values(s), Request(s, v), awaited' = awaited
          PROVE  run \in runs
      <4>1. runs' = runs \cup {RunOf(s, requested[s] + 1, v)}
          BY <3>4 DEF Request
      <4>2. Id(RunOf(s, requested[s] + 1, v)) = <<s, epoch, requested[s] + 1>>
          BY DEF Id, RunOf
      <4>3. <<s, epoch, requested[s] + 1>> \notin awaited
        <5>1. requested[s] \in Nat /\ epoch \in Nat
            BY ClientAssumption DEF TypeInv, TypeOK, Shape
        <5>2. ~Handed(s, epoch, requested[s] + 1)
            BY <5>1 DEF Handed
        <5>3. ~Known(<<s, epoch, requested[s] + 1>>)
            BY <5>2 DEF Known
        <5>4. QED
            BY <5>3 DEF Issued
      <4>4. QED
          BY <3>1, <3>4, <4>1, <4>2, <4>3
    <3>5. ASSUME NEW was \in runs, NEW moved \in RunType, Moves(was, moved),
                 awaited' = awaited
          PROVE  \E old \in Waited : Id(old) = Id(run) /\ Ahead(run.at) <= Ahead(old.at)
      <4>1. PICK old \in runs :
                /\ run.slot = old.slot /\ run.epoch = old.epoch
                /\ run.version = old.version
                /\ run = old \/ (old = was /\ run = moved)
          BY <3>1, <3>5, MovedNames
      <4>2. Id(old) = Id(run) /\ old \in Waited
          BY <3>1, <3>5, <4>1, IdFacts DEF Waited
      <4>3. CASE run = old
          BY <3>2, <4>2, <4>3
      <4>4. CASE old = was /\ run = moved
        <5>1. Ahead(moved.at) < Ahead(was.at) /\ Ahead(moved.at) \in Nat /\ Ahead(was.at) \in Nat
            BY <3>5 DEF Moves, MovedFrom, Ahead
        <5>2. QED
            BY <4>2, <4>4, <5>1
      <4>5. QED
          BY <4>1, <4>3, <4>4
    <3>7. CASE \E s \in Slots : \E v \in Values(s) : Request(s, v) /\ awaited' = awaited
        BY <3>1, <3>2, <3>4, <3>7 DEF Waited
    <3>8. CASE Hydrate
        BY <3>1, <3>2, <3>8 DEF Hydrate, submitVars, Waited
    <3>9. QED
        BY <2>2, RunSteps, <3>3, <3>5, <3>7, <3>8
  <2>3. QED
      BY <2>1, <2>2 DEF WaitShortens
<1>2. QED
    BY <1>1, IssuedInvariant, PTL DEF Spec
-----------------------------------------------------------------------------
(* The refinement of InterviewAttempt.                                     *)

\* Whoever has heard of the end of the session was told by a server that has
\* a result.
Ended == stage = "closed" \/ page = "results" => result # Null

EndedInv == TypeInv /\ Ended

LEMMA RowsAreNoNull == ASSUME TypeInv PROVE server # Null
  BY ClientAssumption DEF TypeInv, Shape, Slots, AllValues

\* The steps a result comes from or is told in.
Ends == ResumeRead \/ Finalize \/ SubmitReturns

\* The others that concern the attempt.
Counts == Deadline \/ \E run \in runs : StoreWrite(run)

\* What the remaining steps leave alone.
LEMMA QuietSteps ==
    ASSUME [Next]_vars, ~Ends, ~Counts
    PROVE  /\ UNCHANGED <<server, over, result>>
           /\ page' = "results" <=> page = "results"
           /\ stage' = "closed" => stage = "closed"
<1> USE DEF serverVars, submitVars, pageVars
<1>1. CASE UNCHANGED vars
    BY <1>1 DEF vars
<1>2. ASSUME NEW s \in Slots, NEW v, Request(s, v)
      PROVE  UNCHANGED <<server, over, result, page, stage>>
    BY <1>2 DEF Request
<1>3. CASE RetrySave \/ \E s \in Slots : \E v \in Clicks(s) : Edit(s, v)
  <2>1. CASE RetrySave
    <3>1. Answer(cur) \in Slots \/ UNCHANGED <<server, over, result, page, stage>>
        BY <2>1 DEF RetrySave, Request
    <3>2. QED
        BY <2>1, <3>1, <1>2 DEF RetrySave
  <2>2. QED
      BY <1>2, <1>3, <2>1 DEF Edit
<1>4. ASSUME NEW run \in runs, Settle(run) \/ Drop(run)
      PROVE  UNCHANGED <<server, over, result, page, stage>>
    BY <1>4 DEF Counts, Settle, Send, Respond, Refuse, Drop, SettleFailed
<1>5. CASE \/ \E q \in Questions : Navigate(q)
           \/ Leave \/ ResumeSend \/ ResumeFails \/ Hydrate
    BY <1>5 DEF Navigate, Leave, ResumeSend, ResumeFails, Hydrate
<1>6. CASE StartSubmit \/ Awaited \/ SubmitFails
    BY <1>6 DEF StartSubmit, Awaited, SubmitFails, GiveUp
<1>7. QED
    BY <1>1, <1>3, <1>4, <1>5, <1>6 DEF Next, Submitting, Ends, Counts

LEMMA EndedInit == Init => Ended
  BY DEF Init, Ended

LEMMA EndedStep ==
    ASSUME TypeInv, Ended, [Next]_vars PROVE Ended'
<1> USE DEF serverVars, submitVars, pageVars
<1>1. CASE ~Ends /\ ~Counts
    BY <1>1, QuietSteps DEF Ended
<1>2. CASE Counts
    BY <1>2 DEF Counts, Deadline, StoreWrite, Ended
<1>3. CASE Ends
  <2>1. CASE ResumeRead
      BY <2>1, RowsAreNoNull DEF ResumeRead, Ended
  <2>2. CASE Finalize
      BY <2>2, RowsAreNoNull DEF Finalize, Ended
  <2>3. CASE SubmitReturns
      BY <2>3 DEF SubmitReturns, Ended
  <2>4. QED
      BY <1>3, <2>1, <2>2, <2>3 DEF Ends
<1>4. QED
    BY <1>1, <1>2, <1>3

LEMMA EndedInvariant == Spec => []EndedInv
<1>1. ClientInv => TypeInv
    BY DEF ClientInv
<1>2. QED
    BY <1>1, ClientInvariant, EndedInit, EndedStep, PTL DEF Spec, EndedInv

\* What the browser has been told of the result.
Heard == [c \in {"browser"} |-> IF page = "results" THEN Scored ELSE Null]

\* The rows scored are a result the attempt may end with, at any time.
LEMMA ScoredHonest ==
    ASSUME TypeInv, result' = server
    PROVE  Scored' \in Attempt!Outcomes /\ Attempt!Honest(Scored')
<1>1. Scored' = [answers |-> [q \in Questions |-> server[Answer(q)]],
                 flags |-> [q \in Questions |-> server[<<"flag", q>>] # {}],
                 at |-> 0, byExpiry |-> FALSE]
    BY RowsAreNoNull DEF Scored, Answer
<1>2. \A q \in Questions : server[Answer(q)] \in SUBSET Options
    BY SlotFacts, ValueFacts DEF TypeInv, TypeOK
<1>3. \A q \in Questions :
          server[Answer(q)] # {} => <<q, server[Answer(q)]>> \in StoredPairs
    BY <1>2 DEF StoredPairs
<1>4. Scored' \in Attempt!Outcomes
    BY <1>1, <1>2 DEF Attempt!Outcomes
<1>5. Attempt!Honest(Scored')
    BY <1>1, <1>3 DEF Attempt!Honest
<1>6. QED
    BY <1>4, <1>5

LEMMA SameRows ==
    /\ UNCHANGED server => StoredPairs' = StoredPairs
    /\ UNCHANGED result => Scored' = Scored
    /\ UNCHANGED result /\ (page' = "results" <=> page = "results") => Heard' = Heard
  BY DEF StoredPairs, Scored, Heard, Answer

\* Every step of the browser and its server is a step of the attempt, or none.
LEMMA ClientAttemptStep ==
    ASSUME TypeInv, Ended, [Next]_vars
    PROVE  [Attempt!Next]_(Attempt!vars)
<1> USE DEF serverVars, submitVars, pageVars
<1>1. CASE ~Ends /\ ~Counts
    BY <1>1, QuietSteps, SameRows DEF Attempt!vars, Heard
<1>2. CASE Deadline
  <2>1. UNCHANGED <<server, result, page>> /\ ~over /\ over'
      BY <1>2 DEF Deadline
  <2>2. Attempt!Tick
      BY <2>1, SameRows DEF Attempt!Tick, Heard
  <2>3. QED
      BY <2>2 DEF Attempt!Next
<1>3. ASSUME NEW run \in runs, StoreWrite(run)
      PROVE  [Attempt!Next]_(Attempt!vars)
  <2>1. /\ UNCHANGED <<over, result, page>>
        /\ server' = [server EXCEPT ![run.slot] = run.value]
        /\ run.slot \in Slots /\ run.value \in Values(run.slot)
        /\ server \in [Slots -> AllValues]
      BY <1>3, RunFacts DEF StoreWrite, TypeInv, Shape
  <2>2. CASE run.slot[1] = "answer"
    <3>1. PICK asked \in Questions : run.slot = Answer(asked)
        BY <2>1, <2>2, SlotFacts
    <3>2. run.value \in SUBSET Options
        BY <2>1, <2>2, ValueFacts
    <3>3. \A q \in Questions :
              server'[Answer(q)] = IF q = asked THEN run.value ELSE server[Answer(q)]
        BY <2>1, <3>1, SlotFacts
    <3>4. /\ StoredPairs' \subseteq StoredPairs \cup {<<asked, run.value>>}
          /\ StoredPairs \ ({asked} \X SUBSET Options) \subseteq StoredPairs'
        BY <3>3 DEF StoredPairs, Answer
    <3>5. Attempt!Accept
        BY <2>1, <3>2, <3>4, SameRows DEF Attempt!Accept, Heard
    <3>6. QED
        BY <3>5 DEF Attempt!Next
  <2>3. CASE run.slot[1] # "answer"
    <3>1. \A q \in Questions : server'[Answer(q)] = server[Answer(q)]
        BY <2>1, <2>3, SlotFacts
    <3>2. StoredPairs' = StoredPairs
        BY <3>1 DEF StoredPairs, Answer
    <3>3. QED
        BY <2>1, <3>2, SameRows DEF Attempt!vars, Heard
  <2>4. QED
      BY <2>2, <2>3
<1>4. CASE ResumeRead \/ Finalize
  <2>1. /\ UNCHANGED <<server, over>>
        /\ \/ result' = result
           \/ result = Null /\ result' = server
        /\ \/ page' = page
           \/ page' = "results" /\ result' = (IF result = Null THEN server ELSE result)
      BY <1>4 DEF ResumeRead, Finalize
  <2>2. CASE result' = result /\ (page' = "results" <=> page = "results")
      BY <2>1, <2>2, SameRows DEF Attempt!vars, Heard
  <2>3. CASE result' = result /\ ~(page' = "results" <=> page = "results")
    <3>1. result # Null /\ page' = "results"
        BY <2>1, <2>3, RowsAreNoNull
    <3>2. Heard' = [Heard EXCEPT !["browser"] = Scored]
        BY <2>3, <3>1, SameRows DEF Heard
    <3>3. Attempt!Tell
        BY <2>1, <2>3, <3>1, <3>2, SameRows DEF Attempt!Tell, Heard
    <3>4. QED
        BY <3>3 DEF Attempt!Next
  <2>4. CASE result = Null /\ result' = server
    <3>1. page # "results" /\ result' # Null
        BY <2>4, RowsAreNoNull DEF Ended
    <3>2. Heard' = Heard \/ Heard' = [Heard EXCEPT !["browser"] = Scored']
        BY <2>1, <3>1 DEF Heard
    <3>3. Attempt!Close
        BY <2>1, <2>4, <3>1, <3>2, SameRows, ScoredHonest DEF Attempt!Close, Heard
    <3>4. QED
        BY <3>3 DEF Attempt!Next
  <2>5. QED
      BY <2>1, <2>2, <2>3, <2>4
<1>5. CASE SubmitReturns
  <2>1. UNCHANGED <<server, over, result>> /\ page' = "results" /\ result # Null
      BY <1>5 DEF SubmitReturns, Ended
  <2>2. Heard' = [Heard EXCEPT !["browser"] = Scored]
      BY <2>1, SameRows DEF Heard
  <2>3. Attempt!Tell
      BY <2>1, <2>2, SameRows DEF Attempt!Tell, Heard
  <2>4. QED
      BY <2>3 DEF Attempt!Next
<1>6. QED
    BY <1>1, <1>2, <1>3, <1>4, <1>5 DEF Ends, Counts

\* The browser, over the server it assumes, keeps the promise that the requests
\* of the real server keep (InterviewSessionProofs!RequestsImplementAttempt).
THEOREM ClientImplementsAttempt == Spec => ImplementsAttempt
<1>1. Init => Attempt!Init
  <2> SUFFICES ASSUME Init PROVE Attempt!Init
      OBVIOUS
  <2>1. over = FALSE /\ result = Null /\ page = "session"
        /\ \A q \in Questions : server[Answer(q)] = {}
      BY SlotFacts DEF Init
  <2>2. StoredPairs = {} /\ Scored = Null
      BY <2>1 DEF StoredPairs, Scored
  <2>3. QED
      BY <2>1, <2>2 DEF Attempt!Init
<1>2. EndedInv /\ [Next]_vars => [Attempt!Next]_(Attempt!vars)
    BY ClientAttemptStep DEF EndedInv
<1>3. QED
    BY <1>1, <1>2, EndedInvariant, PTL DEF Spec, ImplementsAttempt, Attempt!Spec
=============================================================================
