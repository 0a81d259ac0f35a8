# A verification project for the Angular quiz app

This directory holds TLA+ specifications of the stateful services behind the
quiz application, TLC configurations that check them on small instances, and
TLAPS proofs for the parts where a small instance is not enough. Paths below are
relative to the repository unless they name a module.

## The system

The repository is an Angular single-page application with two backends that
share one PostgreSQL schema (the Node backend owns the migrations).

| part | state it keeps | operations |
|---|---|---|
| Interview sessions, Spring (`backend-spring/.../interview`) | `interview_sessions` (status, deadline, result), `session_questions` (flag), `session_answers` | create, resume, save an answer, set a review flag, submit, read the result |
| Session creation (`InterviewSessionService.createSession`) | the idempotency key and request hash of a session, additional bearer tokens, the in-memory replay limiter | create, replay |
| Scoring and assessment builders, Spring | none | score a snapshot, pick questions for a preset or a custom mix |
| Topic quiz, Spring (`backend-spring/.../quiz`) | none (signed receipts) | list questions, check an answer, submit |
| Web layer, Spring (`web`, `security`, `ratelimit`) | token buckets | CORS, sizes, headers, errors, limits |
| Certificate claims, Node (`backend/src/certificate`) | `certificate_claims`, `certificate_verification_tokens`, `issued_certificates`, `certificate_retrieval_tokens` | submit, resend, preview, confirm, retrieve |
| Notification outbox, Node | `certificate_notification_outbox`, rows with attempts, generation, lease and an encrypted payload | enqueue, requeue, claim, send, mark |
| Email senders, Node | none | send by SMTP |
| Node reference of the interview sessions (`backend/src/interview`) | the same tables | the predecessor of the Spring port |
| Quiz bank, API, configuration, Node | a static bank | read |
| Interview client, Angular (`src/app/shared/services/interview`) | confirmed and optimistic answers and flags, versions and promise chains per question, a stored reference | resume, save, retry, flag, submit |
| Builder page, Angular | a pending create with its key | create, retry, recover |
| Topic quiz page, Angular (`services/features/verdict`, `services/flow`, `services/state`, `services/options`) | verdicts and generations per question, their copies in `sessionStorage`, published selections, credited questions, the unlocked range | pick, retry, expire, reveal, Next, Previous, dots, Results, Restart, reload |
| Results and high scores, Angular (`containers/results`, `quiz-scoring.service.ts`) | attempt id, marker, result snapshot, rows of high scores | start, finish, open, refresh, restart, select another quiz |
| Question timing, Angular (`services/features/timer`, `topic-quiz-attempt.service.ts`) | receipts, deadlines, the one countdown | start, receive, restart for a question, freeze, expire, clear |
| Explanations, practice, achievements, other guards, components | view state, local storage | derived from the above |

How they interact: the client calls the Spring API over HTTP with a bearer token
and may lose any response; Spring requests meet only in PostgreSQL, at READ
COMMITTED, mostly without row locks; the Node claim routes call the repository
statement by statement, one of them inside a transaction; the Node process also
runs a poller that shares the outbox rows with the request path.

### What is hard here, and what must hold

* **Sessions.** A request is several statements; between two of them any other
  request may commit and the deadline may pass. There must be one result, final,
  honest about how the attempt ended, made of what was acknowledged, and the
  same for everybody who is told one.
* **Creation.** Clients retry after lost responses and race with themselves. One
  key is one session, every token handed out works, and the number of tokens is
  bounded by the limiter, which clears its memory when it holds too many keys.
* **Claims.** Several links, several submissions and crashes between statements.
  One certificate per address, never renamed, and nobody left with a spent link
  and no certificate.
* **Client.** Selections run ahead of their saves, responses get lost, superseded or
  cross a resume, and the timer submits whatever is going on. What is confirmed is
  stored, what is submitted is what the screen shows, nothing waits forever.
* **Outbox.** Overlapping polls, an immediate attempt that claims nothing,
  leases, backoff, resends, crashes and key rotation. No row is retried past its
  cap or forgotten, and all emails of one generation carry the same link.
* **Topic quiz.** Every pick is judged by a request, and clicks, expiry, navigation,
  restarts and reloads go on while answers are out. The verdict is of the selection
  on the screen, a correct question has its point, and no way leads around a question.
* **Results.** They are rebuilt from what three storages hold, by way of the history
  or a refresh too. They show only for a finished run; an attempt has one row, which goes after
  seven days or at the end of a full list.
* **Timing.** One countdown serves all questions; receipts come late or not at all.
  It counts to the deadline of its question, and coming back buys no time.

`PROJECT.json` lists these hazards at their source lines with the properties
that cover each, and the ones no property covers yet.

## Modules

| module | models | abstracts |
|---|---|---|
| `InterviewSession` | every request on one existing session | a request carries one call; question order and wording; the arithmetic of the score (the result keeps the answers and flags that were scored, when, and why it ended) |
| `InterviewAttempt` | the abstract promise `InterviewSession` implements on the server and `InterviewClient` in the browser | requests, statements, locks |
| `InterviewSessionProofs` | theorems about `InterviewSession`: types, one result, its deadline, acknowledged writes, that it implements `InterviewAttempt`, and that its requests end | |
| `SessionCreate` | `createSession` | the assessment that is built; a token is named by the request that hands it out |
| `SessionRegistry` | the abstract promise `SessionCreate` implements | lookups, indexes, retries, limits, restarts, the limiter's clearing |
| `SessionCreateProofs` | theorems about `SessionCreate`, the refinement among them | |
| `CertificateClaims` | `submitClaim`, `resendClaim`, `confirmToken` | the email (a dispatch mints a token or does not), generated ids (named by their request), time (a token is live or not) |
| `CertificateRegistry` | the abstract promise `CertificateClaims` implements | claims, locks, savepoints, emails, failures |
| `CertificateClaimsProofs` | theorems about `CertificateClaims`, the refinement among them | |
| `NotificationOutbox` | the life of one `claimant_verify` outbox row | the batch around it, the text of the email |
| `NotificationOutboxProofs` | theorems about `NotificationOutbox` | |
| `InterviewClient` | `BackendInterviewSessionService` under the gates of `InterviewSessionComponent` and its route guard | the server (stores a write until the session is over or submitted); rendering, dialogs |
| `InterviewClientProofs` | theorems about `InterviewClient`, that it implements `InterviewAttempt` among them | |
| `AnswerCheck` | how the backend judges one submission (`AnswerCheck.java`, `TopicQuizService.check`), as pure operators | texts: questions and options are model values |
| `TopicQuiz` | one topic quiz in the browser: `QuestionVerdictService`, its subscriber, the gates and guards, restarts and reloads | wording, feedback, option bindings; the two clocks (a deadline has passed or not, on each side) |
| `QuizRun` | the abstract promise `TopicQuiz` implements | requests, generations, stored copies, pages |
| `TopicQuizProofs` | theorems about `TopicQuiz`, the refinement among them | |
| `QuizResults` | attempt id, marker, snapshot, score and high scores of topic quizzes | how a question comes to be answered (`TopicQuiz`); of the dates all but their order and what is past seven days |
| `ScoreBook` | the abstract promise `QuizResults` implements | markers, snapshots, counts, pages, the order of the list |
| `QuizResultsProofs` | theorems about `QuizResults`, the refinement among them | |
| `QuestionTiming` | `TimerService`, `QuestionTimingService` and `TopicQuizAttemptService` under navigation and restarts | wrong answers; what the verdict does to the page (`TopicQuiz`) |
| `QuestionTimingProofs` | theorems about `QuestionTiming` | |

Each specification has an `MC` module with the definitions TLC needs, and one `.cfg` per run.

### Correspondence with the code

*Statements are steps.* `pc[r]` names the next SQL statement (or await) of
request `r`. A statement outside a transaction commits on its own. Inside a
transaction the writes stay private, and keep their rows locked, until the commit
step; who holds which lock is read off `pc`, so no lock variable is needed
(`SessionRowHeld`, `QuestionRowHeld`, `InsertWaits`, `TokenHeld`, `ClaimHeld`,
`CertInFlight`).
A unique index is a wait on uncommitted entries and a violation on committed
ones, as in PostgreSQL. `Fail` (and `Crash`, `Restart`) ends a request at any
statement: an open transaction rolls back and committed statements stay. A commit
whose response is lost is a reply of its own.

*`InterviewSession`.* `AcceptToken` is `authenticate` and the capture of `now`;
`CheckSubmitted`, `CheckExpired` and `CheckPasses` are `checkActiveAndUnexpired`;
`RejectWrite`, `ClearMissing`, `Write` and `Commit` are the rest of `doSaveAnswer` and
`doSetFlagged`; `ExpireNow` is the flip after the rollback. `Lookup` and `Decide`
are the head of `resumeSession` and `getResult`. `FinalizeSubmitted` through
`ReadWinner` are `doFinalizeSession`. Three variables only observe: `born` (clock and
status when a request arrived), `quiet` (the rows nobody has written since)
and `winner`.

*`SessionCreate`.* `FindNothing`, `FindMismatch` and `FindMatch` are the lookup by
key; `RejectStale`, `Throttle` and `Admit` the window and the limiter, whose buckets another
caller's new key may clear at any time (`ClearBuckets`; that caller is one of ten thousand
others, not a request of the model); `Exhausted`,
`Count`, `Mint` and `ReadBack` the additional token; `Build`, `Insert...` and
`InsertCommit` the creation with `persistWithIdentityRetry`. `SessionRegistry` sees of it
what each request asked, which session was made for what (`Demanded`), which tokens open
which session (`Opening`) and what each request was told.

*`CertificateClaims`.* `FindKey` through `Reread` are `createClaim`, `Enqueue`,
`FindClaim`, `Requeue` and `Attempt` are `issueVerificationEmail`, `RefuseToken`
through `CommitOld` the transaction of `confirmVerificationToken`, `MintRetrieval`
and `EnqueueOwner` what follows it. `CertificateRegistry` sees the claim each minted token
stands for (`Standing`), the tokens spent, the certificates, what each confirm was told,
the retrieval tokens and the notices to the owner.

*`NotificationOutbox`.* A poller is one `runOnce` call that reaches the row; an
attempt is one `attemptImmediately`. `wait` is the time left until
`next_attempt_at`, which bounds the clock. `lease`, `shared`, `overrun` and
`crashes` only observe.

*`InterviewClient`.* A slot is the answer or the flag of a question; both have the
same versioned chain in the code, in maps of their own. `Request` is the
synchronous part of `updateAnswer` and `setFlagged`; a run is the rest, one
`performSave`. `Send` respects the chain, `Respond` and `SettleFailed` are the two
halves of the `try`. `epoch` counts hydrations. Each drops the objects that hold a
slot's versions, and the chains, but not the promises that still run: a run takes the object
there is when it is sent and keeps it (`state`), so a run sent before a hydration compares
with the versions of the dropped object while what it clears is the state of now, and one
still queued then takes the new object. `StartSubmit`, `Awaited`, `Finalize`,
`SubmitReturns` and `SubmitFails` are `submit()` with `awaitPendingSaves`; `locked` is
`_finalizing` of the component that is alive. The manual submission has a stricter gate
than the timer and the retry, so `StartSubmit` needs only the weaker one. `crossed`
only observes: it exempts what a resume over unfinished work breaks. Of all this
`InterviewAttempt` sees the stored selections, the deadline, the result, and what the
results page shows.

*`TopicQuiz`.* `verdict`, `gens` and `earned` are the `_states`, the `generations` and
the `sessionStorage` snapshot of `QuestionVerdictService`; `Send`, `Current`, `Applied`
and `ClearAll` are `nextGeneration`, `isCurrent`, `applyResult` and `clearAll`.
`Deliver` is the whole of what one answer does: the verdict when the request is current,
and the point and the completion, which the subscriber in `SelectedOptionService` books
either way. `ui` is what `uiSelectedTexts` last published; `RevisitRender` is the
publication that follows a navigation. `history` is `_selectionHistory`, the picks made
since, and `remembered` the `_revisitDisplayByQuestion` that a navigation away fills
(`Remember`): a revisit of a multiple question publishes and submits them again, and a pick
adds to them (`Rebuilt`). On a single-select question the code submits a click on a
revisit first with the remembered pick and in the same turn by itself; only the second request,
which supersedes the first, is modelled. Picks that storage holds over a reload are left out.
`late` is the server's view of the receipts,
`clockOut` the timer's. `asked` and `ranOut` only observe. `QuizRun` sees of it the
selections that are out or waited for, the questions whose correct options the client has
been told, those shown as right, the points and the range that may be displayed.

*`QuizResults`.* `Open` is `ngOnInit` of the Results page to its end: marker, snapshot,
count, row. `ShowResults`, `OpenResults` and `BackToQuiz` are the button, an address and
the browser's Back; the two restarts and the two ways to select another quiz are
separate actions because they clear different keys. `run` and `done` only observe.
`ScoreBook` sees of it the attempts begun, the quizzes finished, the quiz whose Results show and the
high scores as a set, with those of them that have grown old. `rows` stand as the code's list does:
sorted by the date of recording, newest first, and cut at ten. `fresh` counts those within
seven days, and `Age` lowers it; every opening drops the others (`Keep`), after it has looked among
all of them for the attempt's own.

*`QuestionTiming`.* `starts` are the requests to `/questions/start`, `cache` points at the
one that is cached, `waiting` holds those `activateQuestionTiming` has subscribed to.
`Restarted` is `restartForQuestion` with its early returns in order, `Authorize` what
an activation does with a deadline. `AnswerRight` stands for the arrival of the
verdict together with the effect that stops the clock for it
(`stopTimerOnVerdictComplete`); the framework schedules the
effect when the verdict is set, and a tick of the countdown before it runs is left out. `arriving` is the time between a navigation
setting the index and the question being loaded. `run`, `runStart` and `crossed` only observe.

## Runs

Passing runs:

| run | instance | what it shows |
|---|---|---|
| `session` | 2 requests, 2 questions, every kind of call, deadline 2, clock 3, weak fairness | late requests are refused by arrival, not by luck; acknowledged writes are scored and resumed; one honest result for all; every request is answered and a result asked for after the deadline closes the session; `InterviewSession` implements `InterviewAttempt` |
| `create` | 3 requests, 1 key, 2 bodies, 2 identities, one restart, one clearing of the buckets | `SessionCreate` implements `SessionRegistry` (so one key is one session, told to everyone who asks for the same, and no session is told without a token that opens it); every token keeps working; tokens bounded by bucket, refills, restarts and clearings |
| `claims` | 4 requests, 2 tokens, 1 address, 2 names, 1 key | one certificate, what a confirm tells is what is stored, nothing is spent for nothing; a request that waits for no lock always has its next step; `CertificateClaims` implements `CertificateRegistry` |
| `outbox` | 2 pollers, 1 attempt, 2 tokens, 1 crash, 1 rotation | leases exclude while they last; retries keep the link |
| `outbox_resends` | 1 poller, 2 attempts, fairness of time and the poller | the payload is the current generation's, and the row settles |
| `client` | 2 questions, 3 selections, toggles or retries, 1 lost message, 1 resume, weak fairness of responses | until a resume crosses work in flight an answer that is not stored is on the screen and being saved or retriable, and the screen and the server agree where it matters; saves and submissions end; `InterviewClient` implements `InterviewAttempt` |
| `topic` | a multiple question (2 correct options of 3) and a single-select one, 3 submissions of one and 1 of the other or 2 of both, 2 in flight, 1 restart or reload | verdicts are the server's and of the shown selection, no wait without a request, clean restarts, points, gates, also over revisits that submit remembered picks; `TopicQuiz` implements `QuizRun` (so the correct options are told only for a complete answer or after the deadline) |
| `results` | 2 quizzes of 2 questions, 3 runs, 3 attempts, a list of 2 rows | Results only of finished runs, the attempt on the screen is listed unless its row was a week old, no score above the quiz, idle refreshes; `QuizResults` implements `ScoreBook` (so an attempt has one row, never changed, and lost only past seven days or as the oldest of a full list) |
| `timing` | 2 questions of 2 time units, 3 start requests, 1 restart, clock 5 | the countdown ends at its question's deadline and never has more than a question's time left, revisits buy no time, an answered question does not tick |

Runs that find a documented claim violated (each with a finding in
`PROJECT.json` that quotes the claim):

| run | claim | what happens |
|---|---|---|
| `claims_notice` | event and notice commit together | a crash after the certificate's commit loses the notice |
| `client_expiry` | the timer locks and submits | a save refused at the deadline makes the submission, and every retry, give up before it is posted |
| `results_row` | a restart is a new attempt with a row of its own | Back from Results and Restart in the quiz keep the snapshot; Results opened from the history record it for the new attempt, whose own score is then never recorded |

The models allow more disagreements between comments and code. They
have no run, but each was met with TLC while modelling and can be read
off the actions named here:

* a save that was checked before a submission commits after it; the frozen result
  is not affected (`InterviewSession`: `Write`, `Commit`);
* two replays count a session's extra tokens before either inserts, so their cap
  is passed by the number of racing replays (`SessionCreate`: `Count`, `Mint`);
  what does bound them is `LimiterBoundsTokens`, and that only until the limiter clears
  the buckets of everybody for a new key (`ClearBuckets`);
* a second recovery submission meets the partial unique index on pending claims and is
  answered with an internal error, which `certificate-claim.repository.ts:423` says cannot
  happen on the recovery path (`CertificateClaims`: `InsertClaim`);
* a claim whose enqueue never ran has no outbox row that a resend could requeue
  (`CertificateClaims`: `Enqueue`, `Requeue`);
* a poller's late mark for a superseded generation marks the requeued row sent, since
  `markNotificationSent` is scoped neither by generation nor by status; if the immediate
  attempt of the resend failed, its email is never sent (`NotificationOutbox`: `MarkSent`);
* the immediate attempt claims nothing, so it and a poller may both work on a row;
  a failure booked late shortens the lease of the next claimer; the null branch of
  the token allowance also covers an allowance that is full; a payload may be
  stored on a row just marked sent; two workers may count outstanding tokens
  before either mints (`NotificationOutbox`);
* a save sent before a resume is the latest request of the object the resume dropped, so its
  response replaces what the resume read, deletes the failed intent and clears the marks of the
  question, whatever was asked since. If that was a newer selection whose save is out, it is neither
  marked as saving nor retriable until its own response. If that save had failed, its Retry
  button is gone for good: `confirmedVersion` stays below `requestedVersion`, nothing is in flight, and
  `submit()` throws until the user edits the question again, although `failedIntent` is
  "retained as INTERNAL retry intent" (backend-interview-session.service.ts:424). A failure that
  crosses a resume likewise rolls a newer overlay back (`InterviewClient`: `Respond`,
  `SettleFailed`, `Hydrate`). Hence the exception `crossed`;
* an older save that was stored but superseded, followed by a newer one that fails,
  rolls the screen back to a value the server no longer holds, and so does a lost
  response (`InterviewClient`: `Respond`, `RollBack`). `SubmitScoresTheScreen`
  shows that such an answer is never scored without a later confirmed save;
* after a failed submission the inputs are unlocked, not "locked" as the comment says
  (`InterviewClient`: `GiveUp`);
* the submitter credits a superseded answer, and one of a run that has been restarted
  since, although `quiz-scoring.service.ts:149` speaks of a question "whose verdict has
  resolved correct" (`TopicQuiz`: `Deliver`). The converse holds: `CorrectIsCredited`;
* Restart on the Results page mints no attempt id, against the comment at
  `quiz-scoring.service.ts:512`: the retake has no row of its own (`QuizResults`: `ReturnRestart`);
* a row older than seven days makes its attempt known and is dropped in the same call, so
  refreshing the Results of that attempt takes it off the list, and the refresh after that enters it again,
  dated today, with whatever the snapshot of now says (after Restart on Results, the retake's score),
  although the list is to hold "ONE" row "for a COMPLETED quiz attempt"
  (quiz-scoring.service.ts:549; `QuizResults`: `Keep`, `Record`);
* an option taken off a multiple question comes back: a navigation remembers every pick made
  there, and coming back publishes and submits them all (`TopicQuiz`: `Remember`, `Rebuilt`,
  `RevisitRender`);
* a start from the introduction keeps receipts and deadlines of the quiz just left,
  although `timer.service.ts:233` says that for a new attempt "yesterday's deadlines
  authorize nothing" (`QuestionTiming`: `FreshStart`);
* a start request of an earlier run that fails after the restart drops the new run's
  cached receipt, and one that is answered then overwrites its deadline
  (`QuestionTiming`: `StartFails`, `Receive`; excepted by `crossed`, though even then the
  countdown never has more than a question's full time left);
* a countdown that ends between a navigation setting the index and the arrival marks
  the question gone to as expired (`QuestionTiming`: `Expire`).

### Bounds, and why they are enough

Requests do not create requests, and each touches one session, key, address or
row. Two of them are needed for a race and a third to observe its outcome, to
finish after both, or to retry; claims need a fourth because a recovery needs a
certificate first (submit, confirm, submit, submit). Creation has two identities: with the
one key there is the key's session and one more, made by a request without a key or met
when an identity is drawn that is already taken; a third would only be drawn in their place. `ExpiresAt` 1 or 2 and one
tick more give requests that begin, decide and end on either side of the
deadline, and one exactly at it. Two questions (one single, one multiple) and two
options give every shape of selection: empty, one, several, foreign. Two
attempts, two tokens and a backoff of one or two units let a row reach its caps
and let a lease end before and after an outcome is booked. `MaxCrashes`,
`MaxRestarts`, `MaxClears`, `MaxRotations` and `MaxClock` are bounds of the model only.
One restart and one clearing come in either order and before or after any charge; the limiter's bound
counts both.
Deadlock checking is off because every request may have been answered, which is a
proper end.

A page with two questions, three selections and one lost message reaches every pair of
versions that can overtake each other, one resume crosses any of them, and a second
question gives `NavBlocked` something to guard.

In the topic quiz, two submissions of a question and one more are needed for an answer,
one that supersedes it, and one after a restart; two in flight overtake each other. What two
questions share is the displayed one, the range and the points, so three of one go with one of the
other (`MayAsk`). A third option that is wrong separates complete from perfect. A list of two rows is
overflowed by the third attempt. Two questions let a receipt of one arrive while the other
is displayed; a third start request makes one cross a restart; a clock of 5 outlives two
durations of 2.

Requests, bodies, tokens and identities are symmetric and are declared so only in runs
without liveness properties.

### Fairness

`FairSpec` asks that a request which can take its next statement takes it:
each runs on a thread of its own (Spring) or as a promise chain (Node) and no
statement is skipped by the scheduler. Arrivals, failures, crashes, resends and key
rotations have no fairness, and a wait for a lock is an action that is not
enabled. For the outbox, time passes and the poller's interval keeps firing
(`server.ts:69-76`); immediate attempts get no fairness, since the process may die
without finishing one. In `InterviewClient` the browser answers or fails
each request it was given, so runs settle and `submit()` proceeds; users and lost
messages have no fairness; `TimedSpec` adds that the deadline comes and the timer
fires. `CertificateClaims` and `SessionCreate` state no fairness. That their requests end
does not need it: no request ever has more statements left than before and each of its own
leaves it fewer (`RequestsRunOut`, proved), in the claims somebody in flight waits for no lock
(`LocksNeverClose`, proved), and who waits for none can take a step (`UnblockedGoOn`,
model-checked). `TopicQuiz`, `QuizResults` and `QuestionTiming` state none: their hazards
are states, and a player may stop at any time.

## Proofs

The proof modules hold for any sets of requests, calls, questions, options, keys,
bodies, addresses, tokens and workers, any deadline, window, lease and limit, and
any bound on clock, crashes and restarts. They rest on the named assumptions of the
specifications only.

### Sessions

| theorem | states | module |
|---|---|---|
| `TypeCorrect` | `Spec => []TypeOK` | `InterviewSessionProofs` |
| `OneResult` | `Spec => []OneResultForAll` | |
| `NoCorruptReply` | `Spec => []NeverCorrupt` | |
| `ResultNeverChanges` | `Spec => ResultFrozen` | |
| `ResultTellsTheTruth` | `Spec => []ResultTruthful` | |
| `HonestLifecycle` | `Spec => []LifecycleHonest` | |
| `TooLateIsRefused` | `Spec => []LateRequestsRefused` | |
| `ScoredAsAcknowledged` | `Spec => []AcknowledgedIsScored` | |
| `ResumedAsAcknowledged` | `Spec => []AcknowledgedIsResumed` | |
| `RequestsImplementAttempt` | `Spec => ImplementsAttempt` | |
| `RequestsRunOut` | `Spec => [][Nearer]_vars` | |
| `FinalizersLeaveAResult` | `Spec => []FinalizersFinish` | |

`TypeOK` is
inductive by itself. The next three share the inductive invariant `RowInv`:
at most one request is between writing the result and committing it, and
the session is not submitted then (`OneWriter`); a request that is about to read the stored
result has seen a submitted session, and the session still is (`SawSubmitted`); a
submitted session has its result (`HasResult`). `OneResultForAll` alone is not
inductive: it does not exclude a second writer at `storeCommit`, which would
replace a result already told. One lemma says that a step which leaves the row
alone keeps `RowInv`, so only the row's writers (`ExpireNow`, `ExpireIfDue`,
`Store`, `StoreCommit`) and its readers need cases of their own.

The deadline needs two more invariants. `TimeInv`: no request's captured `now` is
ahead of the clock, and every "expired" that the row, a request's place or what it
has read claims is true; without the part about what requests have read, a
finalizer could freeze `byExpiry` from nothing. `LateInv`: what a request saw on
arrival still holds (its clock is past, a submitted session is still submitted, by
`SubmittedStep`), and a late save, flag or resume stands only at statements that
refuse it; the `now` its check compares was captured after it arrived, and a
resume that arrived after submission has read 'submitted' when it decides.
`LateRequestsRefused` speaks of finished requests only, so it says nothing of the
steps before and is not inductive. The lemma `OthersStay` (a request's step moves
that request only) leaves one request to argue about.

The acknowledged writes rest on `PlaceInv` (a write request never stands at a
reader's or finalizer's statement, nor the other way round; only an acceptable body reaches
a commit) and `AckInv`: what a request has loaded still equals what is stored, row by
row, on the rows that nobody has committed to since it arrived (`Fresh`). The
properties speak of the end, when the view has been frozen or sent; `Fresh` carries
it through the two loading statements, of which the flags' comes first.

The refinement maps a commit of a save to the abstract acceptance, `StoreCommit` to
the submission, and the responses to being told. It needs `PairsInv`, that
every stored selection, and every selection in a finalizer's view, was
accepted by some save; a step that accepts nothing leaves the accepted pairs alone
(`PairsStay`). `InterviewAttempt` is the interface at which the two sides meet: the client, whose
server is only assumed, implements it as well (below).

`RequestsRunOut` is the part of `EveryRequestAnswered` that is safety: `Left` bounds the
statements a request still has, nobody's step adds to it, and its own take from it. A
request that holds a row while others wait stands at `commit` or `storeCommit`, where one
statement is left that waits for nothing. What the fairness adds is checked by TLC.
`FinalizersLeaveAResult` is the same for `ResultReachable`: whoever was answered left a submitted
session. `FinishInv` follows such a request from its decision: a result request has no clock
before it (`at` is zero), and the path after it ends in the stored result or in an error.

### Creation

| theorem | states |
|---|---|
| `CreateTypes` | `Spec => []TypeOK` |
| `KeyMakesOneSession` | `Spec => []OneSessionPerKey` |
| `AnswersConverge` | `Spec => []RetriesConverge` |
| `TokensStayValid` | `Spec => []TokensKeepWorking` |
| `KeylessStandAlone` | `Spec => []NoKeyNoSharing` |
| `LostRaceFindsWinner` | `Spec => []RaceAlwaysResolves` |
| `LimiterBoundsReplays` | `Spec => []LimiterBoundsTokens` |
| `CreationsImplementRegistry` | `Spec => ImplementsRegistry` |
| `RequestsRunOut` | `Spec => [][Nearer]_vars` |

`CreateInv` adds to `OneSessionPerKey` what holds between the insert and its
commit, where the row is not yet visible: no other request is about to commit the
same key or identity, and neither is committed (`Reserved`). `Placed` says which
session a request is on from the moment it finds or inserts one; `Settled` that a lost
race leaves the key taken for good. The first three properties are not inductive: an
uncommitted insert can break each of them.

The limiter's bound needs an account of its own, `LimitInv`: per session, the extra
tokens and the requests that are past the limiter and have not minted yet (`Charges`),
plus the permits left in the key's bucket, are at most a full bucket per process
life and per clearing plus the time up to the bucket's last use. Counting tokens alone is not
inductive, since an admitted request has paid and not yet minted. `AdmitPays` is the
one step that charges, `LimitFrame` covers the steps that do not, and a restart
or a clearing (`FullBuckets`) raises the bound by the bucket it refills. The limiter's one call is one
step: the clock it reads before `compute` is that of the step, so a caller that reads the clock
and is then overtaken for the same key, which moves the refill back by that much, is left out.

The refinement maps `Arrive` to asking, `InsertCommit` to the creation, `Mint` to the
admission and `ReadBack`, which tells, to the answer; every other step is a stutter, the failures
and the restart too. It implies `OneSessionPerKey` and `RetriesConverge`, which
are therefore theorems but no longer checked by a run of their own. The abstract client is
given one token in its life, so the refinement needs `HandsInv`: before its insert or its
mint commits, no session opens to a request, however often it lost a race or drew an identity
that was taken.

In `RequestsRunOut` the bound on the statements left falls although a request may go back:
from an insert to a lookup, when it has lost the race for its key, and from an insert to
the same insert, when its identity was taken. A request that has lost does not build again, and
identities are redrawn `MaxAttempts` times at most, so both count down.

### Claims

| theorem | states |
|---|---|
| `ClaimTypes` | `Spec => []TypeOK` |
| `EmailHasOneCertificate` | `Spec => []OneCertificatePerEmail` |
| `EmailHasOnePending` | `Spec => []OnePendingPerEmail` |
| `ToldIsStored` | `Spec => []ConfirmTellsStored` |
| `NothingSpentForNothing` | `Spec => []SpentMeansCertified` |
| `OwnerHearsOnce` | `Spec => []OwnerAlertedOnce` |
| `TokenSpentOnce` | `Spec => []TokenConfirmsOnce` |
| `ClaimsImplementRegistry` | `Spec => ImplementsRegistry` |
| `LocksNeverClose` | `Spec => [](SomeoneReady /\ SomeoneUnblocked)` |
| `RequestsRunOut` | `Spec => [][Nearer]_vars` |
| `RowsAreFound` | `Spec => []AllFindTheirRows` |
| `ConfirmedMeansNoticed` | `Spec => []NoticeKept` |

`CertInv` says what holds inside the transaction of a confirm: the locked token is
still unspent, nobody else holds it, and a confirm about to
commit a certificate has the address to itself (`Txn`); and what a finished confirm
was told is stored (`Told`). All other steps only add tokens and claims
(`Grows`), so one frame lemma covers them and `PublishStep` the two commits.

The refinement maps `Attempt` and `Poll`, where they mint a verification token, to `Mint`,
`CommitNew` to `Issue`, `CommitOld` to `Recover`, `MintRetrieval` to `LetIn` and `EnqueueOwner`
to `Announce`; every other statement of the transaction is a stutter, because its writes
are private until then. That `Spend` is allowed is `Txn`; that it happens
to a client that has been told nothing is `Untold`.

`LocksNeverClose` argues from the far end of the order of locks (token, claim, address): a
request about to commit waits for nobody; one that waits for an address waits for such a
request; one that waits for a claim or a token waits for a request further on in its
transaction; and a submission waits only for a transaction of a confirm. `SomeoneUnblocked` says
just that. `SomeoneReady` adds that a confirm which lost its address finds the winner's certificate
when it goes on (`LosersInv`), without which `commitOld` would wait for nobody and still have no
outcome. `RowsAreFound` says it of every statement: what it takes for granted (the claim it mails
about, the token and claim it has locked, the certificate it lost to or was told) is there. It is
what `UnblockedGoOn` comes to without `ENABLED`: a request is held up by a lock or an index
(`Waits`), never by a row.

`ConfirmedMeansNoticed` bounds what the violated run `claims_notice` finds: the notice of a
certificate is lost only if the call that issued it dies before it answers. Whoever reads
"confirmed" for a certificate of its own has put the notice into the outbox.

### Outbox

| theorem | states |
|---|---|
| `OutboxTypes` | `Spec => []TypeOK` |
| `NothingPastTheCap` | `Spec => []PendingBelowCap` |
| `NoStalePayload` | `Spec => []PayloadOfGeneration` |
| `OnePollerPerLease` | `Spec => []LeaseExcludes` |
| `OneLinkPerGeneration` | `Spec => []RetriesKeepTheLink` |
| `PollsRunOut` | `Spec => [][PollsEndBooked /\ AttemptsOnlyGrow]_vars` |

`PendingBelowCap` and `PayloadOfGeneration` are inductive with the types. `LeaseExcludes` needs `Leased`: while no
lease has run out, a busy poller's row stays away from the poll for at least the rest
of its lease, whatever an immediate attempt books meanwhile. `Shape` adds
to the types that whoever persists or sends has a token of the row's.
`RetriesKeepTheLink` rests on `LinkInv`: a worker that took a generation up with nobody
else busy stays the only one of it (`Handled`), and while that generation is the
current one the row is what it was taken for, so that a row which can be taken up again
holds the link that was sent (`Alone`). What the exception `shared` leaves out is real: a
worker of an older generation may mark the row and drop its payload, and the next retry
mints another link. The run has one generation; the theorem has all of them.

`PollsRunOut` and `NothingPastTheCap` are the safety under `NotificationSettles`: a poll ends
within six awaits and takes one of the attempts left to the row, or dies; within a generation the
attempts are only counted up, and only a resend, with a new generation, starts them over
(`AttemptsOnlyGrow`); and a row without attempts left is not polled.

### Client

| theorem | states |
|---|---|
| `ClientTypes` | `Spec => []TypeOK` |
| `StrandsNothing` | `Spec => []UnsavedStaysInView` |
| `ConfirmedStays` | `Spec => []ConfirmedIsStored` |
| `SubmitsTheScreen` | `Spec => SubmitScoresTheScreen` |
| `SavesGoOn` | `Spec => []ChainsGoOn` |
| `SubmissionsWaitLess` | `Spec => [][WaitShortens]_vars` |
| `GivesUpOpenly` | `Spec => [][GivesUpInView]_vars` |
| `SavingMeansSaving` | `Spec => []SavingIsUnderway` |
| `ClientImplementsAttempt` | `Spec => ImplementsAttempt` |

None of the three safety properties is inductive: they hold together, and only while no resume has crossed
work in flight. `ClientInv` is `TypeInv` (`TypeOK`, and what it says value by value said
of the functions) and, unless `crossed`, `Agreement` of four parts. `Chains`: the
runs of a slot are numbered between the version confirmed and the version requested,
and only the first of them is out, so the row of a stored one is still its own.
`Views`: a slot with nothing unconfirmed shows the row; an overlay is that of the latest
request while it is out. `Marks`: the question of such a request is marked as saving, a failed one
has something unconfirmed, and both are the displayed question. `Pages`: whoever is submitting
has locked the inputs or left, and when the submission is posted each answer's latest
request is confirmed. The Retry button, which the lock does not disable, cannot
disturb that: it needs a failed answer, and there is none then. A resume that finds
nothing in flight re-establishes the four parts from the rows it read.

`UnsavedStaysInView` rests on `Marked`: until a resume crosses, an answer with an unconfirmed request
is marked as saving or failed, never as both, and a failed one still has its intent, so its Retry
works. It needs the object a run holds to be the one there is (`state` is `epoch`): then the version
that clears a mark is the latest one, so it also confirms what was requested. With a run
of a dropped object it is false, see the disagreements above, and so is the property. `GivesUpOpenly`
applies it where `awaitPendingSaves` returns: unless a resume crossed, the submission, the timer's
too, gives up only for an answer that is being saved again or can be retried, on the question on
the screen.
`SavingIsUnderway` is the converse for the spinner: a question is marked as saving only while
its latest request is out. It needs `Chains`, since a response that is superseded leaves the mark.

`ClientImplementsAttempt` maps `StoreWrite` to the abstract acceptance (an answer's write replaces
the selection there was), the deadline to the clock, `Finalize`, and a `ResumeRead` that finds the
time over, to the submission, and the results page to being told. It rests on `EndedInv`: once
`submit()` has been answered, or the results page shows, there is a result, so the page never shows
another one however often the submission or the resume is repeated. It holds with crossing
resumes too. The client's server leaves open when the attempt ended and why; that is
what `ResultTruthful` says of the real one.

`SavesGoOn` and `SubmissionsWaitLess` are the safety under `SubmitSettles`, and hold with or without a crossing resume.
`ChainsGoOn`: in every chain the run with the lowest version can be sent, stored, refused or
answered (`Smallest` finds it). `WaitShortens`: a save requested after `awaitPendingSaves`
collected its promises never joins them, and each step takes a run forward. It needs `Issued`: a
version names one run, for good, although a resume starts the versions over, because the
chains it starts are new ones.

### Topic quiz

| theorem | states |
|---|---|
| `TopicTypes` | `Spec => []TypeOK` |
| `ShownVerdictsAreTheServers` | `Spec => []VerdictIsTheServers` |
| `EveryWaitHasARequest` | `Spec => []NobodyWaitsForNothing` |
| `NewRunsAreClean` | `Spec => []RestartIsClean` |
| `ShownCorrectIsCredited` | `Spec => []CorrectIsCredited` |
| `NoWayAround` | `Spec => []PassedInOrder` |
| `SettledVerdictsAreShown` | `Spec => []JudgedIsShown` |
| `TopicImplementsQuiz` | `Spec => ImplementsQuiz` |

The first seven come from one inductive invariant, `TopicInv`. `Requests`: every request has a
generation of its own, no larger than its question's counter; the newest of a question
was sent in this run, and a reveal only out of time. It makes `NobodyWaitsForNothing`
inductive, and `RestartIsClean` too, since `clearAll` moves every counter past the
requests in flight. `AllTruthful` says of each state, in memory and stored, what
`VerdictIsTheServers` says, and that a state still standing as right shows verdicts that
resolve the question (`Truthful`): a revisit may submit an empty selection, and the incomplete
answer to it restores the resolution from them. `Credited` and `OutOfTime` say the same
of points and expiry for the stored copies, which a reload brings back;
`StoredIsSettled` that what it brings back waits for nothing.

The refinement has one lemma per kind of step: a submission (`QuizSubmits`), an answer
(`QuizDelivers`, by what the answer says), a reveal (`QuizReveals`), the clocks, the moves and the
restarts. A stale answer is a `Drop` for what is shown and may still be a `Resolve` for the points, as
in the code. Two invariants more are needed. `Fresh`: a request that is current belongs to this
run, and one answered as expired is of a question that is late; without it an answer of
the previous run could tell the correct options of this one. `Kept`: the stored copy of a verdict tells
what the verdict tells, so a reload neither forgets a reveal nor brings one up.

### Results

| theorem | states |
|---|---|
| `ResultTypes` | `Spec => []TypeOK` |
| `AttemptHasOneRow` | `Spec => []OneRowPerAttempt` |
| `ResultsOnlyWhenReached` | `Spec => []ResultsWereReached` |
| `AttemptIsListed` | `Spec => CurrentAttemptListed` |
| `ScoresStayInRange` | `Spec => []ScoresInRange` |
| `RefreshIsIdle` | `Spec => RefreshChangesNothing` |
| `ResultsImplementBook` | `Spec => ImplementsBook` |
| `ScoresNewestFirst` | `Spec => []NewestFirst` |

`ResultsInv` carries what the pages do not show: a marker or a snapshot of a quiz exists
only if a run of that quiz was finished (`Reached`), rows bear only ids minted so far and
those of the current attempt are of the quiz being played (`OfThisQuiz`), and what is
stored or counted never exceeds the quiz (`Counted`). `ScoresInRange` alone is not
inductive, because the next snapshot is taken from the count, and the count itself can
exceed the quiz after a snapshot was opened and more was credited on top of it; the
bound holds because a snapshot that exists is kept.

The refinement forgets the order of the rows, so it has to show that what is cut off
the end of the list is the oldest: `NewestFirst` says that the rows stand in the order of their
attempts. It holds because a row is always of the current attempt, ids only grow, and an attempt
that has a row gets no other (`OfThisQuiz`, `Recorded`). `LedIsNewest` is the step of the list,
`EntriesCount` that a set of rows in strict order has as many elements as the list. The rows
past seven days are the end of the list for the same reason, so dropping them is the abstract loss of
the old entries, and `AttemptIsListed` excepts the opening that drops the attempt's own row. The
refinement implies `OneRowPerAttempt`, which no run checks any more.

### Timing

| theorem | states |
|---|---|
| `TimingTypes` | `Spec => []TypeOK` |
| `CountdownIsTheDeadlines` | `Spec => []CountsToItsDeadline` |
| `AnsweredDoesNotTick` | `Spec => []RightAnswerStopsTheClock` |
| `DeadlinesStay` | `Spec => RevisitBuysNoTime` |

`CountsToItsDeadline` has two parts: the running countdown has at most a question's full
time left, whatever crosses; and unless a receipt crossed a restart, it ends at the deadline of
the question it counts for, of which that question's receipt is there, and which leaves a full
duration after the server issued it. The first part and the
last rest on `Bounded`: no deadline lies more than a duration ahead of the clock, in a receipt, in
the map or in the timer, and none of a receipt less than one after its issue.

`TimingInv` follows a receipt from its request to the clock. `Cached`: a request of this
run that has not failed is the one its question's cache points at, so there is one per
question. `Kept`: a deadline is that of the cached receipt, so an activation finds no
deadline or the same one. `Ticks`: a running timer counts to its question's deadline.
The re-entry guard of `restartForQuestion`, which leaves a timer that already runs for the
question alone, is right only because of `Kept`. A receipt that crosses a restart breaks
the first two (it is answered for a question whose cache has been emptied), hence
`crossed`; `AnsweredDoesNotTick` holds without the exception.

### Model-checked only

Liveness (`EveryRequestAnswered`, `ResultReachable`, the outbox's and the
client's), because the prover does not do fairness: proved is the safety under it, that
nobody is stuck behind a lock or a chain and that the steps left only count down;
`UnblockedGoOn`, which uses `ENABLED`; and the properties of the violated runs, whose point is the
counterexample.

## Plan

Done: sessions, creation, claims, outbox, interview client, topic quiz, results and
timing, with proofs of the safety properties of all eight, and of the six refinements of the
five abstract specifications. The outbox and the countdown have none: what one would promise is
what their properties already say.

Next, in this order:

1. The assessment builders as pure operators over a bank: the allocation of a custom mix
   sums to the requested count within what each topic has, a preset's bands keep their
   quota and a shortfall goes to the nearest band.
2. The builder page's pending create against what `SessionCreate` promises, with a
   second session adopted while work of the first is in flight.
3. `QuestionTiming` under `TopicQuiz`, in place of its `late` and `clockOut`.
4. Owner notices in `NotificationOutbox`; practice.

## Not modelled

Rendering, styles, the static quiz bank and its validation, request parsing, email text
and the SMTP dialogue, deployment and test tooling. Of the topic-quiz page, what mirrors
state into templates: option bindings, highlighting, dot colours, feedback,
explanations, shuffling, focus. These services are large, synchronous and hold nothing
that a verdict, a gate or a result depends on. The Node interview backend has the
statements of the Spring one and is covered by reading, not by a model of its own. The
components of `PROJECT.json` give the reason for each part.
