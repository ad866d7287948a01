# GML in TLA+

GML is the web application and the worker of a teacher-support programme: a
Next.js application (`apps/web`), a Node worker (`apps/worker`) and a Postgres
database (`packages/db`) that is also the job queue. There is no broker: every
interaction between the parts below is a row that one of them writes and
another reads. That is where the interesting behaviour is: handlers that read,
wait and write later; workers that are killed; statements whose answer is lost;
people on pages minutes old, in several tabs; browsers that go away; two
administrators at the same row.

This directory holds TLA+ modules of those parts, TLC configurations that check
them on small instances, and TLAPS proofs. Paths below are relative to the
repository.

## Inventory

| Component | State | Operations | What is hard | What makes it correct |
|---|---|---|---|---|
| Job queue, worker loops (`packages/db/src/queue.ts`, `schema/jobs.ts`, `apps/worker/src/index.ts`) | `jobs` rows: status, attempts, lease, `locked_by`, `run_at`; each loop's job and outcome; the process's shutdown flag | enqueue, claim, heartbeat, succeed, fail, release, reap, prune; run a job, drain, exit | kills, lapsed leases, outcome writes that fail or whose answer is lost, two replicas during a deploy | one live job per key; one handler per job; attempts within budget; outcomes final; every job ends; no loop is lost; a drain ends |
| Transcode pipeline (`apps/worker/src/transcode.ts`, `admin/transcode-jobs`, `admin/whatsapp-log`, `apps/web/src/lib/queue.ts`) | `video_submissions.status`, `transcode_jobs` ledger | handler, reaper's repair, stranded repair, Retry, Drop, Resend | handlers dead between two statements, re-delivery after success, verbs beside a live job | a playable video stays so; one running attempt; every video ends; a failed one can be acted on; a dropped one is left alone |
| WhatsApp ingest (`api/webhooks/whatsapp/route.ts`, `apps/worker/src/whatsapp-fetch.ts`) | submission, file, fetch job, what Meta is still owed | accept, fetch, give up, repair, Retry fetch | at-least-once delivery, concurrent duplicates, last-attempt crashes | recorded once; recorded at all; file, submission and transcode agree; nothing waits for ever |
| Direct upload (`lib/video/upload.ts`, `packages/db/src/uploads.ts`, `apps/worker/src/reconcile-uploads.ts`) | reservation, file, object in Storage, evidence row | reserve, complete, reconcile, finalize, link, attach | two callers that stat first and write later; a cycle signed off meanwhile | finished once; evidence matches context; no decided upload is redecided; no reservation waits for ever |
| Upload client (`components/video/MobileUploadRunner.tsx`, `lib/video/tus-upload.ts`) | the screen, the chosen file, what is still to be confirmed, the calls under way | choose, start, cancel, retry, leave | a cancelled upload's calls return to another screen | "uploaded" is true of the file shown; the screen does not stay at "uploading" |
| Observation record and sign-off (`observation/[cycleId]/actions.ts`, `lib/observation`, `lib/approvals`) | cycle status, forms, scores and notes, approvals rows, audit row | stage forms, scores, notes, request, decide | several people on stale pages; two paths to a decision; writes beside the transaction | a signed record is closed; one approval per complete cycle; forms match the stage |
| Teaching records (`lib/teaching/records.ts`, `teaching/plans`, `teaching/sessions`, `lib/approvals/handlers/records.ts`) | plan, lessons, session, marks, percentage, approvals rows | edit, submit, decide | edit beside a decision; renumbering from two tabs; recounts under READ COMMITTED | what is decided is what was sent; numbers follow the rows; a sent record is not edited |
| Teach-back review (`lib/rtt/teach-back.ts`, `handlers/teach-back.ts`) | clip's reviewer, requests | send, review | four statements that are no transaction, several reviewers | reviewed once; the first review stays |
| Assessment marks (`lib/grading/marks.ts`, `teaching/marks/actions.ts`) | marks, maximum, approval | save, change the maximum, send, decide | forms parsed before the transaction | no mark above the maximum; what is sent has marks and keeps them |
| Account requests (`lib/approvals/account-requests.ts`) | request, approval, profile, login at the identity provider | submit, approve, reject, undo | a saga with an undo that may fail | one login per approved request, none for a rejected one, no stray one untold |
| User administration (`admin/users/actions.ts`) | profiles, roles, sessions and bans at the provider | role, off, on, password, create | rows here and calls there; two administrators at once | a super admin is left; who is off is out; who is on may enter |
| Mentorship pairing (`mentorship/[pairingId]/actions.ts`) | meetings, counters, commitments, recordings | log, cancel, add, toggle, complete | a statement's snapshot is older than the lock it waited for | counters follow meetings; caps hold; completed once |
| Grading scales and rubrics (`lib/grading/admin.ts`, `lib/observation/rubric.ts`) | scales, defaults, what names them; criteria, scores | add, edit, activate, default, delete; score | checks read before the write; a form read against old criteria | one default, active; nobody's scale goes; scores whole and within the maximum |
| Quizzes (`quizzes/[slug]/page.tsx`, `components/quiz`) | attempts, deadline, the tabs' screens | load, start, submit, retry | several tabs, page loads of unknown length, wrong clocks | one attempt open; tries and time hold; a tab closes its own |
| SCORM record (`lib/scorm`, `scorm/[id]/player.tsx`) | best outcome, session, total time; numbering, warning | commit, resend, finish | commits lost, doubled and out of order, two launches | the best is kept; time counts once; a loss is shown |
| Form drafts (`components/forms/draft-resilience.ts`, `FormRenderer.tsx`, `MobileFormRunner.tsx`, `api/form-drafts`) | page, copy on the device, server's draft, answers | type, save, retry, queue, submit, restore | requests that arrive after they were given up | what was typed is kept; no draft over submitted answers; saved in the end |
| Sign-in throttle (`auth.ts`, `lib/rate-limit.ts`) | counters and windows | charge, refund, prune | roll-over and deletion between the two | guesses are capped; counters are what was charged |
| Daily schedule (`scheduleDailyWork`, `enqueue` with `once`) | the day's job | tick, restart, prune | every replica, every hour | once a day, not early, every day |
| Releases (`scripts/deploy.sh`, `scripts/rollback.sh`) | image tags, containers | deploy, roll back | a command that fails, a run cut off | a migrated, whole release to go back to |
| Admin data grid (`admin/data/[entity]`, `admin/derived-counts.ts`) | registers and the counts kept of them | forms, bulk delete, CSV import | two writers of one count; a file read earlier | counts follow the rows |
| Section gates, record access (`lib/authz.ts`, `lib/visibility.ts`, `lib/gated-reads.ts`, the video pages) | pairings' status, cycles' observers, grants; what a page has read | the reads of a list or a record page; change a pairing, an observer, a grant | a list put together from several reads | nothing shown that was never visible and unlocked; nothing missed that was all the while |
| Provider's sessions, playback, notifications, migrations, backup, pages | see `PROJECT.json` | | | not modelled |

How they meet: producers (`route.ts`, `finalizeUpload`, Retry, Resend, Retry
fetch, the daily tick) enqueue in the transaction that writes their domain rows;
consumer loops run the handlers, which write domain rows statement by statement;
the reaper calls each handler's repair in its own transaction; housekeeping then
repairs stranded transcodes, prunes and reconciles uploads. What people write is
approved through one queue (`lib/approvals/index.ts`) with a handler per kind of
record. Signing off a cycle closes its Evidence to uploads still on their way;
grades are given by scales and rubrics administrators edit meanwhile.

## Modules

```
JobsTable           the rows, and one operator per statement of queue.ts
JobQueue            loops, processes, leases, reaper over JobsTable
JobLifecycle        what the queue promises, without any of that
  JobQueue => JobLifecycle, with a refinement mapping (Entry, Phase)
TranscodePipeline   extends JobQueue with videos, ledger, handler, operators
WhatsAppIngest      extends JobQueue with messages, webhook, fetch handler
DirectUpload        reservations, Storage, completion calls, reconciler
UploadClient        the phone's upload screen and the calls behind it
FormDrafts          a form's page, its copy on the device, the server's draft
ObservationSignoff  one cycle's record, requests and decisions
LessonPlans  SessionRecords  TeachBack  AssessmentMarks  AccountRequests
                    the other records that go through the approvals queue
GradingScales  RubricScores  QuizAttempts  ScormAttempt  MentorPairing
UserAccounts  SignInThrottle  DailySchedule  Deployment  DataGrid  SectionAccess
JobQueueProofs  TranscodeProofs  IngestProofs     proofs, one module for one
SignoffProofs  DeviceProofs  RecordsProofs        component or for several
QuizProofs  HostProofs                            that share no state
MCJobQueue  MCTranscode  MCIngest  MCSignoff      one module for TLC
MCHost  MCRecords  MCLearning  MCDevices          several, side by side
MCOperations
```

Each module ends with the conjunction of what it promises (`QueuePromises`,
`PlanPromises`, ...), whose parts are named one by one before it.

Modules of parts that share no state are checked in one run: `MCHost`,
`MCOperations`, `MCRecords`, `MCLearning` and `MCDevices` extend several and add a variable
`part`. A behaviour chooses a part at its start, takes that part's steps from
that part's initial state, and leaves the others as they began. It is a union of
the modules' state spaces, not a product: every part is checked exactly as if it
were alone.

**JobsTable / JobQueue.** A row of `jobs` is its status, key (queue and dedupe
key together), attempts, `locked_by`, the state of its lease and whether its
backoff has elapsed. Times are those two flags: `LeaseLapse` and
`BackoffElapse` are steps. A consumer loop goes through claimed, running,
writing its outcome (up to `OutcomeWriteAttempts` tries) and idle, as
`consumer()` and `runJob()` do. The handler is opaque here: it ends with
success, an error, a permanent error or, during a shutdown, an interruption.
`Record` is a write that succeeds and is known to, `AnswerLost` one that
committed while its answer was lost, `WriteFails` one that did not happen.
`Withdraw` is the deletion of queued jobs by the operator's Drop. `Kill`,
`Shutdown`, `Exit` and `Start` are the process; `WORKER_ID` is fresh per
incarnation, so a restarted loop is not confused with its predecessor's claims.

**TranscodePipeline.** The handler is one action per database statement, since
other actors act between any two of them: check, close running rows, open a row,
announce, work, publish, mark succeeded; and in its catch cancel the row,
requeue; or fail the row, fail the video. With `DbFaults` each of them may fail.
The operator's verbs read first and write in a later, locking transaction.

**WhatsAppIngest.** A request delivers a message, passes the pre-check, and
later commits the durable record or loses to the unique index. `owed` is what
Meta has had no 200 for. The transcode a stored video is handed to is a count:
its life is the previous module's.

**DirectUpload / UploadClient.** Browsers' calls and sweepers share the shape
read, stat, act. An object is missing, complete, short or larger than declared;
an age is within the grace, past it, or past the abandon window. A deleted
object's key may be sent to again: the storage policy admits a file that is
uploading or failed, whatever the client would do. `crossed` records a complete
object that lands while a call still has a refusal of an earlier one to carry
out. UploadClient is the other side: a `chain` is one run of the screen's asynchronous function
(reserve, transfer, confirm), which goes on after the screen has moved; the
server's answers are its choice.

**ObservationSignoff and the records beside it.** Every handler is a read, then
a transaction. A decision is taken on the request that was pending when it
began, or directly when there was none. LessonPlans has the tabs that add, move
and delete numbered lessons under the row lock; SessionRecords splits a
transaction in two, compute and commit, because READ COMMITTED lets a recount
miss what another transaction has not committed; TeachBack is the review's four
statements; AssessmentMarks is the forms that are parsed before their
transaction; AccountRequests has a step per call of the saga, each of which may
fail, be done unheard, or be the last.

**GradingScales / RubricScores.** A statement reads what is committed when it
starts; a request keeps what it read and writes later. `Graded` are the quizzes,
assessments and rubrics that may name a scale.

**QuizAttempts / ScormAttempt.** Time is in ticks, and the runner's countdown is
what the page was told minus what its clock saw pass. A commit of a launch is its
number; the player, the wire and the record know it by that.

**UserAccounts / MentorPairing / DataGrid.** Requests that look, then run a
transaction with its locks, then (accounts) call the provider. In MentorPairing
and DataGrid a waiting UPDATE writes what it computed before it waited, as
PostgreSQL does; DataGrid also has the key-share lock a new row's foreign key
takes on its session.

**SignInThrottle / DailySchedule / Deployment.** Charges and refunds one
statement each, with windows that roll over, and a failed refund leaves the other
to be made; the once-per-key INSERT in its two
moments (what its SELECT sees, what the unique index meets); the scripts one
Docker command at a time, each of which may fail, and a run that may be cut off.

**SectionAccess.** A page is a sequence of reads (a mentor's mentees, the ids of
the cycles, the pairings, the grants, the list; or a row's edges, then its gate)
and what they are of may change between any two. Two ghosts hold what the
reader could see and had unlocked at some moment since the page was asked for,
and all the while.

## Runs

Each passing run ends within four minutes on two workers.

| Run | Checks | Instance |
|---|---|---|
| `queue_safety` (MCHost) | QueueInv, QueuePromises; DeployPromises; UserPromises; AccessPromises | queue: two replicas, a key with two attempts and one with one, a shutdown, kills, one breach of the timing assumption. Deploy: two builds beside the first release, one interruption. Users: the founder and two more, two requests, three changes. Access: five people, two cycles, one pairing, a video of each kind, three changes while pages are read. |
| `queue_live` | ImplementsLifecycle, JobsSettle, LoopsPromises (LoopsSurvive, ShutdownCompletes) | one process with two loops, failing outcome writes, kills, a shutdown; no stalls, which the refinement excludes |
| `transcode_safety` (MCLearning) | TranscodePromises; QuizPromises; ScormPromises; MentorPromises; RubricPromises | transcode: two crashing replicas, one operator with two verbs. Quiz: two tabs, two attempts, one try. SCORM: two launches, three commits. Mentor: two callers, two meetings, caps 1 and 2. Rubric: two requests, two rubrics of two criteria, one cycle |
| `transcode_live` | OneRunningAttempt, ReadyStays, VideoSettles, AttemptsClose, FailedIsActionable | one worker killed, shut down and restarted, every statement may fail, Resend, one verb |
| `ingest_safety` (MCOperations) | IngestPromises (IngestTypeOK, RowsAgree, StoredStays); SchedulePromises; GridPromises | ingest: two replicas, one fetch that outlives its lease, Retry fetch, faults everywhere. Schedule: two replicas, two days of three hours. Grid: two people, two sessions of two marks, two commits |
| `ingest_live` | IngestPromises, ReceivedHasJob, DeliveredIsRecorded, ReceivedSettles; JobsSettle | two concurrent requests for a message, a failing webhook, kills and a shutdown, and a fetch loop that stalls twice past its lease |
| `upload` (MCDevices) | UploadPromises, ReservationSettles; ClientPromises, UploadingEnds; SavedInTheEnd | upload: one video, two browsers' calls, the reconciler, one cycle. Client: two files, two runs of the upload function. Draft: one keystroke in all, two queued saves |
| `signoff_safety` (MCRecords) | SignoffPromises; AccountPromises; PlanPromises; SessionPromises; TeachPromises; MarksPromises; ThrottlePromises; GradingPromises; DraftPromises | sign-off: three people, two requests. Draft: two keystrokes, the second at any point of the first's save or submission, and two queued saves. The others: two or three overlapping requests each over two rows |

What they show: under every interleaving of those instances the queue keeps its
promises to its users; the users' own rows stay consistent with the queue's and
with each other; what is decided is what was sent; numbers kept beside rows
follow them; and everything that waits is settled without anybody's help, once
Storage, the database and the supervisor answer again. The exceptions are
written into the properties, by name, and listed below. (`ingest_live` has no
failing statements in the worker: with them a submission may wait for an
operator.)

Four more runs are expected to be violated. Each shows a place where the code
departs from what one of its own comments says; `PROJECT.json` quotes the line.

| Run | Property | What TLC finds |
|---|---|---|
| `transcode_staleverb` | DroppedIsNotRun | Retry judges an attempt status read before the lock, and runs what another operator has dropped in between |
| `ingest_refetch` | ReceivedHasJob | Retry fetch is absorbed by a fetch about to dead-letter; nothing moves the submission afterwards |
| `signoff_signed` | SignedIsComplete | the signature's audit row outlives a decision whose commit failed |
| `signoff_open` | OpenIsDecidable | a request is opened on a cycle that has moved meanwhile |

### What the passing properties except

A property that holds but for one behaviour of the code says so by name: a
variable or an operator that records that the behaviour has happened. For some
of Transcode's and Ingest's it is the instance that leaves the behaviour out,
and the theorem's hypothesis that says so. TLC found each of them as a
counterexample to the property without it.

* **Queue.** After a stall, a late `fail()` writes its own old attempt count's
  verdict over its successor's last attempt, and the job runs once more than its
  budget (`queue.ts:227-245`; why AttemptsWithinBudget says `stalls = 0`).
* **Transcode.** Resend is absorbed by a job about to dead-letter, and the video
  is queued with nothing coming until the stranded repair fails it again. A
  permanent failure whose outcome write is lost is retried while the page says
  failed. A handler that outlives its lease can announce `transcoding` over the
  video its successor published (`transcode.ts:297-300`).
* **Ingest.** A failed repair of a dead-lettered fetch is never made up for
  (ReceivedSettles with `"repair"` in `Faults`).
* **Account requests.** When the decision commits and its answer is lost, the
  handler undoes the login of a request it has approved, against
  `handlers/account-request.ts:17`; a crash between claim and decision leaves a
  request neither approvable nor rejectable; `leftBehind: false` is reported
  when `createUser`'s answer was lost (`account-requests.ts:324`).
* **Plans and sessions.** A submission is checked outside its transaction: one
  under way when the first is approved opens the approved plan again. A
  student's percentage is stale after two overlapping transactions about her, or
  a session saved from an old form.
* **Teach-back.** The clip is read before the open request: a decision in
  between makes a second request, against `teach-back.ts:125`.
* **Marks.** A form parsed against an old maximum, beside a change of it, leaves
  a mark above it; the last mark may be cleared while the lot is being sent.
* **Users.** The target's role is read before the transaction, so a super admin
  promoted since is taken away uncounted, against `admin/users/actions.ts:115-121`;
  so is one whose new account is undone. Two requests that switch one account
  off and on leave it active and banned.
* **Mentorship.** A removal's recount that waited writes the snapshot it began
  with (`actions.ts:279-285`); a recording uploaded during the removal is left
  without its meeting; opening a done commitment again passes the cap.
* **Grading.** A scale named between the count and the DELETE goes, and its
  quizzes move to the default one, against `lib/grading/admin.ts:345-347`;
  switching off a scale that has just become the default leaves it so. Scores
  beside a lowered maximum may exceed it; two first scorings of a cycle beside a
  change of the default rubric may disagree.
* **SCORM.** An older failed payload sent again has a higher number than the
  final commit on its way, whose failure is then ignored.
* **Form drafts.** A save's answer drops the device's copy even when newer
  answers were typed meanwhile, against `draft-resilience.ts:11-12`; a save
  queued while a submission is under way, or one given up that arrives late,
  brings a draft back; after a failed submission nothing retries.
* **Direct upload.** A refusal of an oversized object deletes it by its key and
  looks at nothing (`upload.ts:336-340`). Of two refusals under way, one deletes;
  complete bytes are sent to the key, which is admitted again, and finished; the
  other deletes them, and may mark the file of a transcode that has failed by
  then as failed too, which a later call then finishes once more. The reconciler's own
  deletion may be the late one, against `reconcile-uploads.ts:159-160` ("so an
  object a live submission points at is never removed"). RowsAgree,
  EvidenceMatchesContext and ObjectKept except such an upload (`crossed`), and
  no other that was refused, deleted and sent again.
* **Upload client.** A cancel while the reservation or the confirmation is
  pending stops nothing, and "done" may show for another file.
* **Access.** The library lists no quarterly or meeting video for the mentee
  whose pairing it is of, though its own page opens for her (`Unlisted`;
  `lib/visibility.ts` has no clause for it).
* **Schedule.** An INSERT that straddles a job's whole life could enqueue the day
  twice.
* **Releases.** A deploy over a release that failed its health check makes that
  one `:previous`, and the last good one loses its tag (`risked`); cut off
  between build and migrate, `:current` stays unmigrated (`torn`); `rollback.sh`
  compares tags, not the running container, so a run after a cut-off says
  "already running" and restarts nothing.
* **Data grid.** An import recounts the sessions its rows were in when the file
  was read (`csv.ts:355-366`, `529`), against `derived-counts.ts:14-15`; two
  overlapping writers of a session store a count that lacks the other's mark; a
  session's form posts its old count back.

### Bounds

* `MaxAttempts` 2 and 1 where the code has 3, 4, 2 and 1: one attempt that may
  be retried, one that is the last, and a job that has only the last.
* `MaxStops` (shutdowns), `MaxStalls`, `MaxVerbs` (operator verbs in all),
  `MaxEdits`, `MaxVersions`, `MaxSaves`, `MaxWrites`, `MaxChanges`, `MaxCommits`
  (writes in all), `MaxMoves`, `MaxSends`, `MaxBuilds`, `MaxInterrupts`, `MaxTyped`,
  `MaxQueued`, `MaxTime`, `LastTick` are counters in the guards. Kills are not
  counted. The proofs hold for every value.
* Two consumers on two processes are two replicas during a deploy; two on one
  process are `WORKER_CONCURRENCY = 2`. One key is used where a second only
  multiplies states: keys of the pipelines do not interact.
* Two job ids: a dead row and its successor, the smallest history in which
  "newer" matters. A pruned id may serve again. `OutcomeWriteAttempts` is the
  code's 3.
* Every race listed above is between two requests, or three when a reviewer must
  look on; the instances have two or three, over two rows, the smallest in which
  one can be moved, renumbered or made the default instead of the other.
* A keystroke while an older save or the submission is under way is the second:
  DraftPromises is checked with two, as long as anything is left of it: a behaviour
  is cut (`StillPromised`) where its exceptions have excused all of it.
  `SavedInTheEnd` has one, which may be saved, retried, queued and lost like any
  other: liveness with two exceeds the size TLC finishes in minutes beside the
  uploads.
* One cycle that a video may be evidence of, signed off at any moment: what
  another would add is a second place to attach an unlinked video to, which the
  proof covers.
* The grid starts from every register whose counts are right, and two commits
  may follow: a stale count needs two.
* Two lengths of a day or a window are replaced by a few ticks: an hour before,
  at and after the sweep's; a window, its roll-over and its deletion; an
  attempt's time, its grace, and a page load as long as one tick.
* Symmetry is used in the sign-off and records runs, of three people, and in
  the learning run, of two requests, whom nothing tells apart; those runs have
  no liveness property.
* Ids of two tables whose rows one page may show (`Cycles`, `Videos`) are
  assumed distinct.
* The transcode runs divide the causes: two replicas and two verbs without
  failing statements, then failing statements and Resend with one replica. All
  of them together exceed the size TLC finishes in minutes.
* Deadlock is checked in `queue_live`, `transcode_live` and `ingest_live`. It is
  off in the combined ones and in the sign-off's: a finished upload, a complete
  cycle, a used-up counter is the end.

### Timing and fairness

Leases are 15 minutes and heartbeats every minute; backoffs last at least a
minute while outcome writes are retried within seconds. The models turn these
into an assumption: a lease does not lapse, and a job in backoff does not become
runnable, while a live loop attends to it. `Stall` breaks the assumption, at
most `MaxStalls` times; an operator's Retry fetch that hurries an attended job
breaks it too. Properties that need it say `stalls = 0`; the others hold
without. `queue_safety` and `ingest_safety` have a stall, and `ingest_live` two
in which a job still has to end; `queue_live` has none, since the abstract life
of a job is that of a queue whose timing holds.

Assumed fair: a loop's own steps (it never stops polling, and handlers bound
their subprocesses and requests by deadlines); the reaper and the other sweeps,
which run every minute, strongly, since a process may go down in between; the
supervisor's restarts; `ClaimOf`, strongly, for each job, which stands for the
claim's `ORDER BY run_at`: a waiting job is not passed over for ever; Meta's
redelivery until it is answered; Storage's answering again, and the database's
accepting again, after each outage.

Of browsers the server-side properties assume nothing. Two properties are about
the browser's own page while it is open: `UploadingEnds` assumes that each call
of the upload screen ends, as fetch and tus do, in an answer or an error;
`SavedInTheEnd` assumes that the debounce and the retry timers fire, that a
queued save is sent, and that a save sent again and again is answered in the
end. Of people nothing is assumed.

## Proofs

Each for every value of the constants; the named assumptions are the modules'
own, and TLC evaluates them in every run. Every safety property of every passing
run is stated by a theorem. Almost none is inductive as it stands. What has to
be added is nearly always the same thing: what each request, handler or call
under way still knows of what it read. An invariant named `...Inv` below is the
property with that added. Each is preserved by a lemma per action, over lemmas
(`...Has`, `...Moves`, `...Written`) that say once what a step leaves alone.

`JobQueueProofs`: `Invariance`, `LiveKeysStayUnique` however many stalls;
`AttemptsBounded`, `HandlersExclusive`, `OutcomesFinal` as long as no stall has
happened, as the properties themselves say; `QueueKeepsPromises` from these;
`QueueImplementsLifecycle`, assuming `MaxStalls = 0`. `QueueInv` adds that rows
are consistent (a running row has a holder and a lease, a queued one has
neither), and the part that carries the argument, `BusyHoldsJob`: without
stalls, a busy loop holds its job with a lease that cannot be reaped, or has
already written its outcome and does not know. From this, exclusion is that a
row has one holder, budgets are that only the holder's claim counts, and
finality is that whoever writes an outcome still holds the job. There is one
lemma per statement of `JobsTable`, one per action of the loops, and the
refinement classifies each action as one move of `JobLifecycle`, several (the
reaper) or none.

`TranscodeProofs`: `PipelineRunsTheQueue` (a step of the pipeline is a step of
JobQueue or leaves its variables alone), so `QueueInv` holds here. `PipelineInv`
adds what each handler remembers of its attempt, that a running ledger row is of
a job that is leased, and which handlers a video's status speaks of;
`OneAttemptRuns` and `ReadyAlwaysStays` follow, whatever fails or is killed,
while leases are kept, as the properties themselves say.
`TranscodeKeepsPromises` (a queued video has a job coming, a dropped one has
none) has the hypothesis `NothingFails`: no stalls, no failing statement, no
Resend and one operator. Without it the exceptions above are counterexamples,
and `transcode_staleverb` shows the second operator's.

`IngestProofs`: `IngestRunsTheQueue` in the same way; `IngestKeepsPromises` from
`IngestInv`, whatever fails. `ReceivedAlwaysHasJob` has the hypothesis
`FetchesRunThrough`: no Retry fetch (`ingest_refetch` is the counterexample with
one) and no failing statement of the handler or the repair; kills, shutdowns,
redeliveries and failing writes of the queue remain. `FetchInv` says where a
received submission's job is at each statement of the handler and the reaper.

`SignoffProofs` (`SignoffKeepsPromises`): `SignoffInv` adds `Targets` (a decision
in flight names an existing request when it has one to decide) and
`ApprovedOnce` (the approved requests are none, or one exactly when the cycle is
complete), from which the cardinality follows by the library's theorems on
finite sets.

`DeviceProofs`: `UploadKeepsPromises` from what a submission's status says of
its file, object and place in the evidence, and that what a call found stays so
until it acts (`FoundStays`): a complete object stays, and a refusal under way is
of an object that is not complete, or `crossed` it. It does not rest on a key being
sent to once; `ClientKeepsPromises` from what each chain of calls
has done for its file, and that the screen hears one chain at a time unless an
earlier one ran on; `DraftKeepsPromises` from what the next visit would restore
(`Restored`), what is on the wire, and what may still be queued once a form was
sent.

`RecordsProofs`, one argument per module:

* Marks: a form is within the maximum it was judged by; a second write that
  overlapped it sets `stale`; a submission under way found marks.
* Plans: the positions of the lessons are a bijection onto 1 to n, kept by the
  three renumberings (`Numbered`); what is open has the plan's version, since
  nothing is written while a request is open (`ApprovalInv`).
* Teach-back: what a reviewer at each of the four statements knows, and that the
  clip's reviewer is empty exactly while nothing is decided.
* Throttle: what a limit caps is the attempts let through and not given back,
  counted in their own window (`LetCapped`); windows of one counter begin more
  than a window apart, so that any stretch as long as one meets two at most.
* Account requests: nobody is at work on a login an approved request owns, and
  no two approvals are at work on one.
* Grading scales: a scale locked to become the default stays active, whoever
  switches off what has become one crossed it, what names a scale about to go
  was named late.
* Sessions: what each open transaction has computed, and whether another
  committed since.
* Data grid: a session whose rows an open transaction changes is still to be
  counted, waits to be stored, or is stored with a number that is right while no
  other commit touches it; and what row locks keep apart (`HeldApart`).

`QuizProofs`, likewise:

* Quizzes: what each tab's request remembers of its attempt, and that an attempt
  is locked by its own runner's submit while it is open. Tries and time are then
  what the holder's transaction has just read.
* Mentorship: what a removal that did not wait sees is what there is until it
  commits; counters, even stale ones, count meetings whose logging is over. The
  latest date is the maximum of a finite set: that one exists is a minimal
  counterexample, by the library's theorem that < is well founded.
* Rubrics: an administrator's maximums spare the scores there are, and an
  observer's form is of the rubric's criteria, but for those that overlapped,
  came later or are gone.
* SCORM: the row's newest commit was handled and no handled one of its launch is
  newer; a player's newest send is on its way, failed, or carried a handled
  commit. Session time is a set of units and its sum their number, so that it
  can be reasoned about without induction on sequences.

`HostProofs`, likewise:

* Users: what a request has locked is, until it writes, super admins who can act
  and are not its target; who is about to be banned is off, or was crossed.
* Access: after each read, what the page has kept of it lies between what its
  reader could see at some moment and all the while.
* Schedule: no job is pruned on its own day; a replica that had its tick found
  the sweep, enqueued it, or failed to.
* Releases: while a run moves tags, the release it would put back is whole, and
  what it has moved agrees with what it will.

Only model-checked: liveness (JobsSettle, LoopsSurvive, ShutdownCompletes,
VideoSettles, AttemptsClose, FailedIsActionable, DeliveredIsRecorded,
ReceivedSettles, ReservationSettles, UploadingEnds, SavedInTheEnd), which needs
reasoning about fairness and ENABLED that the prover does not have. Nothing that
a recursive definition computes is proved: sums are cardinalities, and what
would be an induction is a minimal counterexample.

## Not modelled, and why

* What a handler does between statements (probing, encoding, downloading) is one
  step that ends well or badly; scratch directories and object layout are left
  out. Wording of errors and logs is left out.
* Pages: most of the application's lines render, translate, filter and export
  what these modules write, and decide nothing that a later step depends on. A
  model of them would be their layout. The lines `PROJECT.json` maps are those
  that change state or choose what does, and are a small share of the whole.
* Replies to WhatsApp senders (`whatsapp-fetch.ts:403`) and inbox notifications:
  best effort, deciding nothing. `markFailed` that throws on a last attempt
  (`whatsapp-fetch.ts:415`) leaves the submission to the repair, as a crash does.
* A stat that always throws (`reconcile-uploads.ts:176`) leaves an upload
  'received' for good; the liveness property assumes it answers again.
* A decision carries no version of the forms its approver read
  (`lib/observation/signoff.ts:63`): a cycle sent back and resubmitted meanwhile
  is decided on the older reading. ObservationSignoff has no contents of forms
  to tell the two apart.
* The connection pool: audit and notification helpers take a second connection
  inside a decision's transaction (`cycle-signoff.ts:24`).
* Who may act: SectionAccess has the record checks and what a grant opens; the
  password prompt, its rotation and the lists of pairings are left out, a
  pairing's mentor and mentee do not change, and the other modules take the
  actor's right as given.
* Answers' contents, the quiz editor beside a learner, and the guard of a blank
  automatic submission; a form's steps and validation; a package's manifest.
* The data grid's other tables, whose rows carry no derived number; its field
  rules, duplicate reports and export.
* Video playback: one browser's recovery of an expired link. Its native path
  does not guard against a second error while the first is being answered
  (`playback-recovery.ts`); the media element's events are not in the source.
* Migrations, backup, restore and the drill gate: one command after another, run
  by hand or once per deploy.
* The retention sweep's other DELETEs: by age, each on its own.

## Plan

1. An abstract `VideoLifecycle` that TranscodePipeline, WhatsAppIngest and
   DirectUpload each refine on their part of the life of a video.
2. Weaker hypotheses for `TranscodeKeepsPromises` and `ReceivedAlwaysHasJob`:
   which of the exceptions each of them needs.
3. The form runner's steps, the quiz editor beside a learner, and playback.
