-------------------------- MODULE InterviewClient --------------------------
(***************************************************************************)
(* The Angular side of one interview session: BackendInterviewSession-     *)
(* Service (optimistic answers and flags, versioned save chains, resume,   *)
(* submit) under the gates of InterviewSessionComponent, against a server  *)
(* that stores writes until the session is over or submitted.              *)
(*                                                                         *)
(* An answer and a Mark-for-Review flag of a question are two slots with   *)
(* the same versioned chain.  A run is one performSave or performFlagSave  *)
(* call: queued behind its chain, sent, perhaps stored, then settled by a  *)
(* response, a refusal or a lost connection.  A request whose failure the  *)
(* client has seen does nothing later.                                     *)
(*                                                                         *)
(* The versions of a slot live in an object (QuestionSaveState, Review-    *)
(* SaveState) that a run looks up when it is sent and keeps.  A hydration  *)
(* drops the objects: requests made after it use new ones, a run sent      *)
(* before it goes on with the one it holds.  Epochs tell them apart.       *)
(***************************************************************************)
EXTENDS Integers, FiniteSets

CONSTANTS
    Questions,      \* the questions of the session
    Multiple,       \* those that take several options
    Options,        \* the options of every question
    MaxEdits,       \* bound on selections, toggles and retries
    MaxDrops,       \* bound on lost requests and lost responses
    MaxResumes,     \* bound on leaving the page and coming back
    Null

ASSUME ClientAssumption ==
    /\ IsFiniteSet(Questions) /\ Questions # {}
    /\ Multiple \subseteq Questions
    /\ MaxEdits \in Nat /\ MaxDrops \in Nat /\ MaxResumes \in Nat
    /\ LET values == (SUBSET Options) \cup (SUBSET {"marked"}) IN
       /\ \A v \in values : v # Null
       /\ \A rows \in [{"answer", "flag"} \X Questions -> values] : rows # Null

VARIABLES
    server,         \* the rows of the session, per slot
    over,           \* the server's deadline has passed
    result,         \* the answers and flags that were scored, or Null
    confirmed,      \* _answers and _confirmedFlags
    overlay,        \* _optimistic and _optimisticFlags, or Null
    requestedVersion, confirmedVersion,   \* of the objects of each epoch
    runs,           \* unsettled performSave and performFlagSave calls
    saving,         \* _saving
    failed,         \* _failed
    intent,         \* failedIntent, or Null
    cur,            \* the question of currentIndex
    page,           \* what the browser shows
    locked,         \* _finalizing of the component that is alive
    stage,          \* how far service.submit() is
    awaited,        \* the runs awaitPendingSaves collected
    epoch,          \* hydrations so far
    snapshot,       \* the rows a resume response carries, or Null
    edits, drops,   \* uses of MaxEdits and MaxDrops
    crossed         \* observes: a resume began while work was in flight

versions == <<requestedVersion, confirmedVersion>>
chainVars == <<versions, runs>>
viewVars == <<confirmed, overlay, saving, failed, intent>>
submitVars == <<locked, stage, awaited>>
pageVars == <<cur, page, epoch, snapshot, crossed>>
serverVars == <<server, over, result>>
vars == <<serverVars, viewVars, chainVars, submitVars, pageVars, edits, drops>>

-----------------------------------------------------------------------------
(* Slots, what the screen shows and what a click asks for.                 *)

Slots == {"answer", "flag"} \X Questions
Answer(q) == <<"answer", q>>
AnswerSlots == {"answer"} \X Questions

Values(s) == IF s[1] = "answer" THEN SUBSET Options ELSE SUBSET {"marked"}
AllValues == (SUBSET Options) \cup (SUBSET {"marked"})

Shown(s) == IF overlay[s] # Null THEN overlay[s] ELSE confirmed[s]

Toggle(set, e) == IF e \in set THEN set \ {e} ELSE set \cup {e}

\* A flag toggles; a click on an option replaces the selection of a single
\* question and toggles the option of a multiple one.
Clicks(s) ==
    IF s[1] = "flag" THEN {Toggle(Shown(s), "marked")}
    ELSE IF s[2] \in Multiple THEN {Toggle(Shown(s), o) : o \in Options}
    ELSE {{o} : o \in Options}

\* The versions of the objects that saveState and reviewSaveState hold now.
requested == requestedVersion[epoch]
acked == confirmedVersion[epoch]

\* A run hangs on the chain of its epoch; "state" is the epoch of the object it
\* holds, which it has once it is sent.
RunOf(s, n, v) ==
    [slot |-> s, version |-> n, epoch |-> epoch, state |-> epoch, value |-> v,
     at |-> "queued"]

Id(run) == <<run.slot, run.epoch, run.version>>
Ids(set) == {Id(run) : run \in set}

ChainAlwaysReady(run) == TRUE          \* mutant: saves are not serialized

\* A run starts when every earlier run of its chain has settled; hydration
\* starts new chains.
ChainReady(run) ==
    \A other \in runs :
        other.slot = run.slot /\ other.epoch = run.epoch
            => other.version >= run.version

\* Whether nothing newer was asked of the object the run holds.
Latest(run) == run.version >= requestedVersion[run.state][run.slot]

-----------------------------------------------------------------------------
Init ==
    /\ server = [s \in Slots |-> {}]
    /\ over = FALSE
    /\ result = Null
    /\ confirmed = server
    /\ overlay = [s \in Slots |-> Null]
    /\ requestedVersion = [e \in 0..MaxResumes |-> [s \in Slots |-> 0]]
    /\ confirmedVersion = requestedVersion
    /\ runs = {}
    /\ saving = {}
    /\ failed = {}
    /\ intent = [q \in Questions |-> Null]
    /\ cur \in Questions
    /\ page = "session"
    /\ locked = FALSE
    /\ stage = "none"
    /\ awaited = {}
    /\ epoch = 0
    /\ snapshot = Null
    /\ edits = 0
    /\ drops = 0
    /\ crossed = FALSE

-----------------------------------------------------------------------------
(* Saving: updateAnswer, setFlagged and retryFailedSave.                   *)

\* updateAnswer and setFlagged: show it, then queue the write behind the
\* slot's chain.
Request(s, v) ==
    /\ edits < MaxEdits
    /\ edits' = edits + 1
    /\ requestedVersion' = [requestedVersion EXCEPT ![epoch][s] = @ + 1]
    /\ overlay' = [overlay EXCEPT ![s] = v]
    /\ runs' = runs \cup {RunOf(s, requested[s] + 1, v)}
    /\ IF s[1] = "answer"
       THEN /\ intent' = [intent EXCEPT ![s[2]] = v]
            /\ failed' = failed \ {s[2]}
            /\ saving' = saving \cup {s[2]}
       ELSE UNCHANGED <<intent, failed, saving>>
    /\ UNCHANGED <<serverVars, confirmed, confirmedVersion, submitVars, pageVars, drops>>

\* onSelectionChange and toggleMarkForReview: only locked inputs refuse.
Edit(s, v) ==
    /\ page = "session" /\ ~locked
    /\ s[2] = cur
    /\ Request(s, v)

\* The Retry button of a failed save is there whether or not the inputs are
\* locked, and resends the intent.
CanRetry(q) == q \in failed \ saving /\ intent[q] # Null

RetrySave ==
    /\ page = "session"
    /\ CanRetry(cur)
    /\ Request(Answer(cur), intent[cur])

At(run, place) == (runs \ {run}) \cup {[run EXCEPT !.at = place]}

\* The start of performSave: it takes the object of now, then posts.
Send(run) ==
    /\ run.at = "queued"
    /\ ChainReady(run)
    /\ runs' = (runs \ {run}) \cup {[run EXCEPT !.at = "sent", !.state = epoch]}
    /\ UNCHANGED <<serverVars, viewVars, versions, submitVars, pageVars, edits, drops>>

\* The server stores a write of a session that is neither over nor submitted.
StoreWrite(run) ==
    /\ run.at = "sent"
    /\ ~over /\ result = Null
    /\ server' = [server EXCEPT ![run.slot] = run.value]
    /\ runs' = At(run, "stored")
    /\ UNCHANGED <<over, result, viewVars, versions, submitVars, pageVars, edits, drops>>

\* A response settles its run.  Only the latest request of the object it holds,
\* and only once, becomes the confirmed value; what it clears is the state of now,
\* even if the object was dropped since.
Superseded(run) ==
    ~Latest(run) \/ run.version <= confirmedVersion[run.state][run.slot]

Confirm(run) ==
    LET s == run.slot IN
    /\ confirmedVersion' = [confirmedVersion EXCEPT ![run.state][s] = run.version]
    /\ confirmed' = [confirmed EXCEPT ![s] = run.value]
    /\ overlay' = [overlay EXCEPT ![s] = IF @ = run.value THEN Null ELSE @]
    /\ IF s[1] = "answer"
       THEN /\ intent' = [intent EXCEPT ![s[2]] = Null]
            /\ failed' = failed \ {s[2]}
            /\ saving' = saving \ {s[2]}
       ELSE UNCHANGED <<intent, failed, saving>>

Respond(run) ==
    /\ run.at = "stored"
    /\ runs' = runs \ {run}
    /\ IF Superseded(run) THEN UNCHANGED <<viewVars, confirmedVersion>> ELSE Confirm(run)
    /\ UNCHANGED <<serverVars, requestedVersion, submitVars, pageVars, edits, drops>>

\* A failure of the latest request rolls the display back to the confirmed
\* value and, for an answer, keeps what was asked for.
RollBack(run) ==
    LET s == run.slot IN
    /\ overlay' = [overlay EXCEPT ![s] = Null]
    /\ IF s[1] = "answer"
       THEN /\ intent' = [intent EXCEPT ![s[2]] = run.value]
            /\ failed' = failed \cup {s[2]}
            /\ saving' = saving \ {s[2]}
       ELSE UNCHANGED <<intent, failed, saving>>

SettleFailed(run) ==
    /\ runs' = runs \ {run}
    /\ IF Latest(run) THEN RollBack(run) ELSE UNCHANGED <<overlay, intent, failed, saving>>
    /\ UNCHANGED <<serverVars, confirmed, versions, submitVars, pageVars, edits>>

\* The server refuses a write after the deadline or the submission.
Refuse(run) ==
    /\ run.at = "sent"
    /\ over \/ result # Null
    /\ SettleFailed(run)
    /\ UNCHANGED drops

\* The connection is lost, before or after the write was stored.
Drop(run) ==
    /\ run.at \in {"sent", "stored"}
    /\ drops < MaxDrops
    /\ drops' = drops + 1
    /\ SettleFailed(run)

-----------------------------------------------------------------------------
(* Navigation, leaving and coming back.                                    *)

NavBlockedBySaves == cur \in saving \/ locked  \* mutant: failures do not block

\* navigationBlocked: one gate for every way to another question.
NavBlocked == cur \in saving \/ cur \in failed \/ locked

Navigate(q) ==
    /\ page = "session"
    /\ ~NavBlocked
    /\ q # cur
    /\ cur' = q
    /\ UNCHANGED <<serverVars, viewVars, chainVars, submitVars, page, epoch, snapshot,
                   crossed, edits, drops>>

\* The router leaves the page freely.  The component goes with its lock, the
\* service stays with everything it has in flight.
Leave ==
    /\ page = "session"
    /\ epoch < MaxResumes
    /\ page' = "away"
    /\ locked' = FALSE
    /\ UNCHANGED <<serverVars, viewVars, chainVars, stage, awaited, cur, epoch, snapshot,
                   crossed, edits, drops>>

\* The route guard resumes from the stored reference, whatever is in flight.
ResumeSend ==
    /\ page = "away"
    /\ page' = "loading"
    /\ crossed' = (crossed \/ runs # {} \/ stage # "none")
    /\ UNCHANGED <<serverVars, viewVars, chainVars, submitVars, cur, epoch, snapshot,
                   edits, drops>>

\* The server answers with the rows, or reports the session as finished, and
\* the guard goes to the results.
ResumeRead ==
    /\ page = "loading" /\ snapshot = Null
    /\ IF over \/ result # Null
       THEN /\ page' = "results"
            /\ result' = IF result = Null THEN server ELSE result
            /\ UNCHANGED snapshot
       ELSE snapshot' = server /\ UNCHANGED <<page, result>>
    /\ UNCHANGED <<server, over, viewVars, chainVars, submitVars, cur, epoch, crossed,
                   edits, drops>>

\* The service is unreachable, or its response is lost: the page offers to resume
\* again.
ResumeFails ==
    /\ page = "loading"
    /\ drops < MaxDrops
    /\ drops' = drops + 1
    /\ page' = "away"
    /\ snapshot' = Null
    /\ UNCHANGED <<serverVars, viewVars, chainVars, submitVars, cur, epoch, crossed, edits>>

\* hydrate: adopt the rows, forget every overlay, and drop the objects with their
\* versions and chains.
Hydrate ==
    /\ page = "loading" /\ snapshot # Null
    /\ confirmed' = snapshot
    /\ overlay' = [s \in Slots |-> Null]
    /\ requestedVersion' = [requestedVersion EXCEPT ![epoch + 1] = [s \in Slots |-> 0]]
    /\ confirmedVersion' = [confirmedVersion EXCEPT ![epoch + 1] = [s \in Slots |-> 0]]
    /\ saving' = {} /\ failed' = {}
    /\ intent' = [q \in Questions |-> Null]
    /\ epoch' = epoch + 1
    /\ snapshot' = Null
    /\ page' = "session"
    /\ UNCHANGED <<serverVars, runs, submitVars, cur, crossed, edits, drops>>

-----------------------------------------------------------------------------
(* Submission.                                                             *)

Deadline ==
    /\ ~over
    /\ over' = TRUE
    /\ UNCHANGED <<server, result, viewVars, chainVars, submitVars, pageVars, edits, drops>>

\* The chains awaitPendingSaves collects: answers and flags, of the current
\* maps only.
ToAwait == {run \in runs : run.epoch = epoch}

\* The dialog's confirmation, the timer at zero or the retry of a failed
\* submission; the last two come whatever is pending.  A second submit() while one
\* runs is refused and changes nothing.
StartSubmit ==
    /\ page = "session" /\ ~locked
    /\ stage = "none"
    /\ stage' = "waiting"
    /\ locked' = TRUE
    /\ awaited' = Ids(ToAwait)
    /\ UNCHANGED <<serverVars, viewVars, chainVars, pageVars, edits, drops>>

AllSettled == TRUE                     \* mutant: failed saves do not stop it

AllConfirmed == \A s \in AnswerSlots : acked[s] >= requested[s]

StayBusy == locked' = FALSE /\ UNCHANGED stage   \* mutant: no finally

GiveUp == stage' = "none" /\ locked' = FALSE

\* awaitPendingSaves returns: post the submission, or give up because an answer
\* of the user's is not stored.
Awaited ==
    /\ stage = "waiting"
    /\ awaited \cap Ids(runs) = {}
    /\ awaited' = {}
    /\ IF AllConfirmed THEN stage' = "posting" /\ UNCHANGED locked ELSE GiveUp
    /\ UNCHANGED <<serverVars, viewVars, chainVars, pageVars, edits, drops>>

FinalizeTheScreen ==                   \* mutant: the post carries what is shown
    /\ stage = "posting"
    /\ stage' = "closed"
    /\ result' = IF result = Null THEN [s \in Slots |-> Shown(s)] ELSE result
    /\ UNCHANGED <<server, over, viewVars, chainVars, locked, awaited, pageVars, edits, drops>>

\* The server finalizes, or returns the result there is.
Finalize ==
    /\ stage = "posting"
    /\ stage' = "closed"
    /\ result' = IF result = Null THEN server ELSE result
    /\ UNCHANGED <<server, over, viewVars, chainVars, locked, awaited, pageVars, edits, drops>>

\* The result arrives and the router shows it.
SubmitReturns ==
    /\ stage = "closed"
    /\ stage' = "none"
    /\ page' = "results"
    /\ UNCHANGED <<serverVars, viewVars, chainVars, locked, awaited, cur, epoch, snapshot,
                   crossed, edits, drops>>

\* The request or its response is lost: unlock and offer a retry.
SubmitFails ==
    /\ stage \in {"posting", "closed"}
    /\ drops < MaxDrops
    /\ drops' = drops + 1
    /\ GiveUp
    /\ UNCHANGED <<serverVars, viewVars, chainVars, awaited, pageVars, edits>>

-----------------------------------------------------------------------------
Settle(run) == Send(run) \/ StoreWrite(run) \/ Respond(run) \/ Refuse(run)

Submitting == Awaited \/ Finalize \/ SubmitReturns

Next ==
    \/ \E s \in Slots : \E v \in Clicks(s) : Edit(s, v)
    \/ RetrySave
    \/ \E run \in runs : Settle(run) \/ Drop(run)
    \/ \E q \in Questions : Navigate(q)
    \/ Leave \/ ResumeSend \/ ResumeRead \/ ResumeFails \/ Hydrate
    \/ Deadline
    \/ StartSubmit \/ Submitting \/ SubmitFails

Spec == Init /\ [][Next]_vars

\* The browser answers or fails every request it was given, so does submit();
\* users and the network owe nothing.
FairSpec ==
    Spec /\ WF_vars(\E run \in runs : Settle(run)) /\ WF_vars(Submitting)

\* Besides, the deadline comes and the timer that counts down to it fires.
TimedSpec ==
    FairSpec /\ WF_vars(Deadline) /\ WF_vars(over /\ StartSubmit)

-----------------------------------------------------------------------------
(* Properties.                                                             *)

RunType ==
    {run \in [slot : Slots, version : 1..MaxEdits, epoch : 0..MaxResumes,
              state : 0..MaxResumes, value : AllValues,
              at : {"queued", "sent", "stored"}] :
        run.value \in Values(run.slot)}

\* The types of the variables: a slot only ever holds and sends values of its
\* own kind, and never a missing intent.
TypeOK ==
    /\ \A s \in Slots :
        /\ server[s] \in Values(s) /\ confirmed[s] \in Values(s)
        /\ overlay[s] = Null \/ overlay[s] \in Values(s)
        /\ \A e \in 0..MaxResumes : /\ requestedVersion[e][s] \in 0..MaxEdits
                                     /\ confirmedVersion[e][s] \in 0..MaxEdits
    /\ over \in BOOLEAN /\ locked \in BOOLEAN /\ crossed \in BOOLEAN
    /\ result = Null \/ \A s \in Slots : result[s] \in Values(s)
    /\ snapshot = Null \/ \A s \in Slots : snapshot[s] \in Values(s)
    /\ runs \subseteq RunType
    /\ saving \subseteq Questions /\ failed \subseteq Questions
    /\ \A q \in Questions : intent[q] = Null \/ intent[q] \in SUBSET Options
    /\ cur \in Questions
    /\ page \in {"session", "away", "loading", "results"}
    /\ stage \in {"none", "waiting", "posting", "closed"}
    /\ epoch \in 0..MaxResumes /\ edits \in 0..MaxEdits /\ drops \in 0..MaxDrops

\* No answer the server has not accepted is forgotten: it is being saved or can
\* be retried, and the question it is for is the one on the screen, where leaving
\* it would strand it.  (Not once a resume crossed a save: the response of a run
\* sent before it clears the marks and the intent of a newer request.)
UnsavedStaysInView ==
    ~crossed =>
        /\ \A q \in Questions :
               acked[Answer(q)] < requested[Answer(q)] => q \in saving \/ CanRetry(q)
        /\ page = "session" => saving \cup failed \subseteq {cur}

\* Once the latest request of a slot was confirmed and nothing of it is in
\* flight, the screen shows what the server holds, even if earlier
\* responses were lost or came late.
ConfirmedIsStored ==
    ~crossed =>
        \A s \in Slots :
            acked[s] = requested[s] /\ (\A run \in runs : run.slot # s)
                => Shown(s) = server[s]

\* A submission scores the answers on the screen, never others that a lost
\* response left on the server.
SubmitScoresTheScreen ==
    [][Finalize /\ result = Null /\ ~crossed =>
        \A q \in Questions : result'[Answer(q)] = Shown(Answer(q))]_vars

\* As the client's side of an attempt.  Its server keeps the last selection of a
\* question only, and neither when the attempt ended nor whether it expired.
StoredPairs ==
    {pair \in Questions \X SUBSET Options :
        pair[2] # {} /\ server[Answer(pair[1])] = pair[2]}

Scored ==
    IF result = Null THEN Null
    ELSE [answers |-> [q \in Questions |-> result[Answer(q)]],
          flags |-> [q \in Questions |-> result[<<"flag", q>>] # {}],
          at |-> 0, byExpiry |-> FALSE]

Attempt == INSTANCE InterviewAttempt WITH
    Clients <- {"browser"}, ExpiresAt <- 1, MaxClock <- 1,
    clock <- IF over THEN 1 ELSE 0,
    status <- IF result = Null THEN "active" ELSE "submitted",
    accepted <- StoredPairs,
    result <- Scored,
    told <- [c \in {"browser"} |-> IF page = "results" THEN Scored ELSE Null]

\* Whatever is retried, lost, resumed or submitted twice, the browser and the
\* server it assumes keep the promise the requests of the real one keep: one
\* result, of stored selections only, and the results page shows no other.
ImplementsAttempt == Attempt!Spec

\* submit() always returns or throws: saves that fail, pile up or are refused do
\* not keep it waiting.
SubmitSettles == stage # "none" ~> stage = "none"

\* "Timer hit zero: close any dialog, lock, and submit exactly once": an attempt
\* on the screen at its deadline is finalized.
ExpirySubmits == over /\ page = "session" ~> result # Null \/ page # "session"
=============================================================================
