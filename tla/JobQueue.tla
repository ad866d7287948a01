------------------------------ MODULE JobQueue ------------------------------
(***************************************************************************)
(* The Postgres job queue (packages/db/src/queue.ts) and the worker's      *)
(* consumer loops that drain it (apps/worker/src/index.ts).                *)
(*                                                                         *)
(* A process of Procs is one worker container; ProcOf says which process a *)
(* consumer loop runs in and Serves which keys its queue holds             *)
(* (consumerSlots).  A process may be killed, drained and restarted; any   *)
(* write may fail, or land while its answer is lost.  A handler is opaque  *)
(* here: it ends with one of three results.  TranscodePipeline and         *)
(* WhatsAppIngest open it up.                                              *)
(*                                                                         *)
(* Time is left out but for one assumption, which `stalls` counts the      *)
(* breaches of: a worker that is alive heartbeats its job within the       *)
(* fifteen-minute lease, and writes an outcome within the one-minute       *)
(* backoff.  MaxStalls = 0 is the timing the code relies on.               *)
(***************************************************************************)
EXTENDS JobsTable, FiniteSets

CONSTANTS Jobs,         \* ids of rows; a pruned row's id may serve again
          Keys,
          Procs,
          Consumers,
          ProcOf,       \* [Consumers -> Procs]
          Serves,       \* [Consumers -> SUBSET Keys]
          MaxAttempts,  \* [Keys -> Nat \ {0}]: max_attempts of a key's jobs
          MaxStops,     \* how many times a process is told to shut down
          MaxStalls,    \* how many times the timing assumption is breached
          NoJob

ASSUME JobQueueAssumption ==
  /\ ProcOf \in [Consumers -> Procs]
  /\ Serves \in [Consumers -> SUBSET Keys]
  /\ MaxAttempts \in [Keys -> Nat \ {0}]
  /\ MaxStops \in Nat /\ MaxStalls \in Nat
  /\ NoJob \notin Jobs /\ NoKey \notin Keys /\ NoOne \notin Consumers

\* Tries at writing an outcome before the job is left to the reaper.
OutcomeWriteAttempts == 3

VARIABLES jobs,    \* the jobs table
          cons,    \* each consumer loop's local state
          proc,    \* each process: "up", "stopping" (SIGTERM) or "gone"
          stops,   \* shutdowns so far
          stalls   \* breaches of the timing assumption so far

vars == <<jobs, cons, proc, stops, stalls>>
-----------------------------------------------------------------------------
\* A consumer polls ("idle"), holds the job claim() returned ("claimed"), runs
\* its handler ("running"), or writes its outcome ("recording").  `att` is the
\* attempt number the claim returned; `landed` is set when an earlier try at
\* the write committed although its answer was lost.
Idle == [pc |-> "idle", job |-> NoJob, att |-> 0, outcome |-> "none",
         tries |-> 0, landed |-> FALSE]

\* What claim() returned.
Holding(j, attempt) ==
  [pc |-> "claimed", job |-> j, att |-> attempt, outcome |-> "none",
   tries |-> 0, landed |-> FALSE]

Results  == {"ok", "error", "permanent"}
Outcomes == Results \cup {"none", "interrupted"}

Row == [status : RowStatus, key : Keys \cup {NoKey}, attempts : Nat,
        due : BOOLEAN, lease : LeaseState, by : Consumers \cup {NoOne}]

ConsumerState ==
  [pc : {"idle", "claimed", "running", "recording"},
   job : Jobs \cup {NoJob}, att : Nat, outcome : Outcomes,
   tries : 0..OutcomeWriteAttempts - 1, landed : BOOLEAN]

\* A mutant of Up: a loop that is draining goes on claiming.
UpWhileDraining(c) == proc[ProcOf[c]] # "gone"

Up(c)       == proc[ProcOf[c]] = "up"
Stopping(c) == proc[ProcOf[c]] = "stopping"
Busy(c)     == cons[c].pc # "idle"
JobOf(c)    == cons[c].job

\* A live process still has this job in hand (its heartbeat, or the write of
\* its outcome, is due within moments).
Attended(j) == \E c \in Consumers : Busy(c) /\ JobOf(c) = j

Init ==
  /\ jobs = [j \in Jobs |-> NoRow]
  /\ cons = [c \in Consumers |-> Idle]
  /\ proc = [p \in Procs |-> "up"]
  /\ stops = 0
  /\ stalls = 0

SetRow(j, row) == jobs' = [jobs EXCEPT ![j] = row]
SetCons(c, st) == cons' = [cons EXCEPT ![c] = st]
-----------------------------------------------------------------------------
(***************************************************************************)
(* Producers.                                                              *)
(***************************************************************************)

\* enqueue() that inserts: an absorbed one changes nothing.  Ids are uuids, so
\* an id some loop still remembers is not handed out again.
Enqueue(j, k) ==
  /\ jobs[j].status = "absent"
  /\ ~Attended(j)
  /\ ~KeyTaken(jobs, k)
  /\ SetRow(j, NewRow(k))
  /\ UNCHANGED <<cons, proc, stops, stalls>>

\* A DLQ Drop: the retry the queue is holding for a key is deleted, and its dead
\* rows with it; refused while a worker has the job.
Withdrawable(k) ==
  {j \in Jobs : jobs[j].key = k /\ jobs[j].status \in {"queued", "dead"}}

Withdraw(k) ==
  /\ Withdrawable(k) # {}
  /\ \A j \in Jobs : ~(jobs[j].key = k /\ jobs[j].status = "running")
  /\ jobs' = [j \in Jobs |-> IF j \in Withdrawable(k) THEN NoRow ELSE jobs[j]]
  /\ UNCHANGED <<cons, proc, stops, stalls>>

\* A retry's run_at passes, or an operator's Retry fetch moves it to now.  The
\* backoff is a minute or more, so the worker that scheduled it has long
\* finished writing, unless it stalls.
BackoffElapse(j) ==
  /\ jobs[j].status = "queued" /\ ~jobs[j].due
  /\ \/ ~Attended(j) /\ UNCHANGED stalls
     \/ Attended(j) /\ stalls < MaxStalls /\ stalls' = stalls + 1
  /\ SetRow(j, [jobs[j] EXCEPT !.due = TRUE])
  /\ UNCHANGED <<cons, proc, stops>>
-----------------------------------------------------------------------------
(***************************************************************************)
(* A consumer loop.                                                        *)
(***************************************************************************)

Runnable(c, j) ==
  jobs[j].status = "queued" /\ jobs[j].due /\ jobs[j].key \in Serves[c]

\* claim().  Which due row it takes is left open: ORDER BY run_at appears as
\* the fairness of ClaimOf below.
Claim(c, j) ==
  /\ Up(c) /\ cons[c].pc = "idle"
  /\ Runnable(c, j)
  /\ SetRow(j, ClaimedRow(jobs[j], c))
  /\ SetCons(c, Holding(j, jobs[j].attempts + 1))
  /\ UNCHANGED <<proc, stops, stalls>>

\* claim() committed, its answer lost: the loop logs an error and polls again.
ClaimLost(c, j) ==
  /\ Up(c) /\ cons[c].pc = "idle"
  /\ Runnable(c, j)
  /\ SetRow(j, ClaimedRow(jobs[j], c))
  /\ UNCHANGED <<cons, proc, stops, stalls>>

\* runJob() begins.
Begin(c) ==
  /\ Up(c) /\ cons[c].pc = "claimed"
  /\ SetCons(c, [cons[c] EXCEPT !.pc = "running"])
  /\ UNCHANGED <<jobs, proc, stops, stalls>>

\* release(): what it leaves in the row, fence included.
AfterRelease(c, j) ==
  IF Releasable(jobs[j], c) THEN ReleasedRow(jobs[j]) ELSE jobs[j]

\* A job claimed while shutdown began is handed back: one try, errors logged.
HandBack(c) ==
  /\ Stopping(c) /\ cons[c].pc = "claimed"
  /\ \/ SetRow(JobOf(c), AfterRelease(c, JobOf(c)))
     \/ UNCHANGED jobs
  /\ SetCons(c, Idle)
  /\ UNCHANGED <<proc, stops, stalls>>

\* heartbeat(): any row with this id that is running, whoever locked it.
Heartbeat(c) ==
  /\ cons[c].pc = "running"
  /\ jobs[JobOf(c)].status = "running"
  /\ SetRow(JobOf(c), [jobs[JobOf(c)] EXCEPT !.lease = "live"])
  /\ UNCHANGED <<cons, proc, stops, stalls>>

\* The handler returns or throws.  A failure during shutdown is an
\* interruption, whatever was thrown.
HandlerEnds(c, result) ==
  /\ cons[c].pc = "running"
  /\ SetCons(c, [cons[c] EXCEPT
       !.pc = "recording",
       !.outcome = IF Stopping(c) /\ result # "ok" THEN "interrupted"
                                                   ELSE result])
  /\ UNCHANGED <<jobs, proc, stops, stalls>>

Retrying(c) ==
  LET j == JobOf(c) IN
  /\ jobs[j].status # "absent"
  /\ WillRetry(cons[c].outcome = "error", cons[c].att, MaxAttempts[jobs[j].key])

\* The row the outcome's UPDATE leaves; no row matches an id that was pruned.
AfterOutcome(c) ==
  LET row == jobs[JobOf(c)] IN
  IF row.status = "absent" THEN row
  ELSE CASE cons[c].outcome = "ok"          -> SucceededRow(row)
         [] cons[c].outcome = "interrupted" -> AfterRelease(c, JobOf(c))
         [] OTHER                           -> FailedRow(row, Retrying(c))

\* The UPDATE would give the unique index a second live row of this key.
Refused(c) ==
  Live(AfterOutcome(c)) /\ KeyTakenByOther(jobs, JobOf(c))

\* The outcome is written and the loop polls again.
Record(c) ==
  /\ cons[c].pc = "recording"
  /\ ~Refused(c)
  /\ SetRow(JobOf(c), AfterOutcome(c))
  /\ SetCons(c, Idle)
  /\ UNCHANGED <<proc, stops, stalls>>

\* Mutants of NextTry: one try too many; no limit (the count wraps).
NextTryOnceMore(c, landed) ==
  IF cons[c].tries + 1 <= OutcomeWriteAttempts
  THEN [cons[c] EXCEPT !.tries = @ + 1, !.landed = @ \/ landed]
  ELSE Idle

NextTryForever(c, landed) ==
  [cons[c] EXCEPT !.tries = (@ + 1) % OutcomeWriteAttempts, !.landed = @ \/ landed]

\* After a failed try: try again, or leave the job 'running' to the reaper.
NextTry(c, landed) ==
  IF cons[c].tries + 1 < OutcomeWriteAttempts
  THEN [cons[c] EXCEPT !.tries = @ + 1, !.landed = @ \/ landed]
  ELSE Idle

\* The write is refused, by a fault or by the index.
WriteFails(c) ==
  /\ cons[c].pc = "recording"
  /\ SetCons(c, NextTry(c, FALSE))
  /\ UNCHANGED <<jobs, proc, stops, stalls>>

\* The write commits but its answer is lost, and runJob() takes it for failed.
AnswerLost(c) ==
  /\ cons[c].pc = "recording"
  /\ ~Refused(c)
  /\ SetRow(JobOf(c), AfterOutcome(c))
  /\ SetCons(c, NextTry(c, TRUE))
  /\ UNCHANGED <<proc, stops, stalls>>
-----------------------------------------------------------------------------
(***************************************************************************)
(* Housekeeping, and the passing of time.                                  *)
(***************************************************************************)

\* No live process has the job in hand: after a kill, a lost claim, or three
\* failed writes.
LeaseLapse(j) ==
  /\ jobs[j].status = "running" /\ jobs[j].lease = "live"
  /\ ~Attended(j)
  /\ SetRow(j, [jobs[j] EXCEPT !.lease = "lapsed"])
  /\ UNCHANGED <<cons, proc, stops, stalls>>

\* A live worker's heartbeats do not get through for fifteen minutes.
Stall(j) ==
  /\ jobs[j].status = "running" /\ jobs[j].lease = "live"
  /\ Attended(j)
  /\ stalls < MaxStalls
  /\ stalls' = stalls + 1
  /\ SetRow(j, [jobs[j] EXCEPT !.lease = "lapsed"])
  /\ UNCHANGED <<cons, proc, stops>>

Lapsed == {j \in Jobs : Reapable(jobs[j])}

\* reapExpiredLeases(): every lapsed row in one statement.
ReapedJobs ==
  [j \in Jobs |-> IF j \in Lapsed
                  THEN ReapedRow(jobs[j], MaxAttempts[jobs[j].key])
                  ELSE jobs[j]]

\* housekeeping()'s timers are cleared by shutdown.
Reap(p) ==
  /\ proc[p] = "up"
  /\ Lapsed # {}
  /\ jobs' = ReapedJobs
  /\ UNCHANGED <<cons, proc, stops, stalls>>

\* pruneFinished(), one row of it, at any age.
Prune(p, j) ==
  /\ proc[p] = "up"
  /\ Finished(jobs[j])
  /\ SetRow(j, NoRow)
  /\ UNCHANGED <<cons, proc, stops, stalls>>
-----------------------------------------------------------------------------
(***************************************************************************)
(* Processes.                                                              *)
(***************************************************************************)

LoopsEnd(p) ==
  cons' = [c \in Consumers |-> IF ProcOf[c] = p THEN Idle ELSE cons[c]]

\* SIGTERM: a deploy, a rollback, `docker compose stop`.
Shutdown(p) ==
  /\ proc[p] = "up"
  /\ stops < MaxStops
  /\ stops' = stops + 1
  /\ proc' = [proc EXCEPT ![p] = "stopping"]
  /\ UNCHANGED <<jobs, cons, stalls>>

\* Every loop has returned: drained.
Exit(p) ==
  /\ proc[p] = "stopping"
  /\ \A c \in Consumers : ProcOf[c] = p => ~Busy(c)
  /\ proc' = [proc EXCEPT ![p] = "gone"]
  /\ UNCHANGED <<jobs, cons, stops, stalls>>

\* SIGKILL, out of memory, an unhandled rejection, or the drain deadline.
Kill(p) ==
  /\ proc[p] # "gone"
  /\ proc' = [proc EXCEPT ![p] = "gone"]
  /\ LoopsEnd(p)
  /\ UNCHANGED <<jobs, stops, stalls>>

\* restart: unless-stopped, or the container a deploy starts.  Its WORKER_ID is
\* new; the model value is the old one's, whose loops are all gone.
Start(p) ==
  /\ proc[p] = "gone"
  /\ proc' = [proc EXCEPT ![p] = "up"]
  /\ UNCHANGED <<jobs, cons, stops, stalls>>
-----------------------------------------------------------------------------
ConsumerStep(c) ==
  \/ \E j \in Jobs : Claim(c, j) \/ ClaimLost(c, j)
  \/ Begin(c)
  \/ HandBack(c)
  \/ Heartbeat(c)
  \/ \E result \in Results : HandlerEnds(c, result)
  \/ Record(c)
  \/ WriteFails(c)
  \/ AnswerLost(c)

JobStep(j) ==
  \/ \E k \in Keys : Enqueue(j, k)
  \/ BackoffElapse(j)
  \/ LeaseLapse(j)

ProcStep(p) ==
  \/ Reap(p)
  \/ \E j \in Jobs : Prune(p, j)
  \/ Shutdown(p)
  \/ Exit(p)
  \/ Kill(p)
  \/ Start(p)

\* What happens while heartbeats get through, on the time scales of queue.ts.
TimelyNext ==
  \/ \E c \in Consumers : ConsumerStep(c)
  \/ \E j \in Jobs : JobStep(j)
  \/ \E k \in Keys : Withdraw(k)
  \/ \E p \in Procs : ProcStep(p)

Next == TimelyNext \/ \E j \in Jobs : Stall(j)

Spec == Init /\ [][Next]_vars

\* ORDER BY run_at: a due row becomes the oldest one, so it is not passed over
\* for ever by loops that keep polling.
ClaimOf(j) == \E c \in Consumers : Claim(c, j)

\* A loop never stops polling, running or writing; handlers end (each of them
\* bounds its subprocesses and requests); the reaper runs every minute and as
\* every process starts; the supervisor restarts what exited.
Fairness ==
  /\ \A c \in Consumers :
       /\ WF_vars(Begin(c)) /\ WF_vars(HandBack(c))
       /\ WF_vars(\E result \in Results : HandlerEnds(c, result))
       /\ WF_vars(Record(c) \/ WriteFails(c) \/ AnswerLost(c))
  /\ \A j \in Jobs :
       SF_vars(ClaimOf(j)) /\ WF_vars(BackoffElapse(j)) /\ WF_vars(LeaseLapse(j))
  /\ SF_vars(\E p \in Procs : Reap(p))
  /\ \A p \in Procs : WF_vars(Exit(p)) /\ WF_vars(Start(p))

\* The abstract life of a job is that of a queue whose timing holds.
FairSpec == Init /\ [][TimelyNext]_vars /\ Fairness
-----------------------------------------------------------------------------
(***************************************************************************)
(* Properties.                                                             *)
(***************************************************************************)

\* Every variable stays within the values its columns and locals can hold.
TypeOK ==
  /\ jobs \in [Jobs -> Row]
  /\ cons \in [Consumers -> ConsumerState]
  /\ proc \in [Procs -> {"up", "stopping", "gone"}]
  /\ stops \in 0..MaxStops
  /\ stalls \in 0..MaxStalls

\* At most one live job per (queue, dedupe_key), through every retry, release
\* and reap, and however badly workers stall.
LiveKeyUnique ==
  \A i, j \in Jobs :
    (Live(jobs[i]) /\ Live(jobs[j]) /\ jobs[i].key = jobs[j].key) => i = j

\* While workers keep their leases, no two loops run handlers for one job, nor
\* for two jobs of one key: the transcode and fetch handlers are written for a
\* single live run ("the caller is that job", transcode.ts:104).
Exclusive ==
  stalls = 0 =>
    \A c, d \in Consumers :
      /\ cons[c].pc = "running" /\ cons[d].pc = "running"
      /\ jobs[JobOf(c)].key = jobs[JobOf(d)].key
      => c = d

\* While workers keep their leases, no job is claimed more often than
\* max_attempts allows, and one waiting to run has an attempt left.  An
\* interrupted run is not counted; a killed one is.
WithinBudget(row) ==
  row.status # "absent" =>
    /\ row.attempts <= MaxAttempts[row.key]
    /\ row.status = "queued" => row.attempts < MaxAttempts[row.key]

AttemptsWithinBudget == stalls = 0 => \A j \in Jobs : WithinBudget(jobs[j])

\* While workers keep their leases, a job that succeeded or was dead-lettered
\* stays so until it is pruned: the writes of succeed() and fail() match on the
\* id alone, and are retried when their answers are lost.
OutcomeIsFinal ==
  [][stalls' = 0 =>
       \A j \in Jobs :
         Finished(jobs[j]) => jobs'[j] = jobs[j] \/ jobs'[j] = NoRow]_vars

\* Every live job is settled, however often its worker is killed or its writes
\* fail, and when its worker stalls (as the fetch loop of WhatsAppIngest may): a
\* job that kills its worker dead-letters instead of looping.
JobsSettle == \A j \in Jobs : Live(jobs[j]) ~> ~Live(jobs[j])

\* No loop is lost to an outcome that cannot be written: it always polls again
\* (or its process ends, and the supervisor starts another).
LoopsSurvive == \A c \in Consumers : Busy(c) ~> ~Busy(c)

\* A process told to stop drains and is replaced: no handler or write holds it.
ShutdownCompletes == \A p \in Procs : proc[p] = "stopping" ~> proc[p] = "up"

\* Whatever fails, is killed or is told to stop in the middle of a job, main()'s
\* loops serve their queues again.
LoopsPromises == LoopsSurvive /\ ShutdownCompletes

-----------------------------------------------------------------------------
\* The refinement: what a row means to those who only see JobLifecycle.
Phase(row) ==
  CASE row.status = "absent"    -> "none"
    [] row.status = "queued"    -> "waiting"
    [] row.status = "running"   -> "held"
    [] row.status = "succeeded" -> "done"
    [] row.status = "dead"      -> "dead"

Entry(row) ==
  [phase |-> Phase(row), key |-> row.key, holder |-> row.by, taken |-> row.attempts]

Lifecycle ==
  INSTANCE JobLifecycle WITH
    Workers <- Consumers, Budget <- MaxAttempts, NoWorker <- NoOne,
    life <- [j \in Jobs |-> Entry(jobs[j])]

\* Every behaviour of the queue in which workers keep their leases is one of
\* the abstract lifecycle: one holder at a time, a budget of attempts, settled
\* once.
ImplementsLifecycle == Lifecycle!Spec
-----------------------------------------------------------------------------
(***************************************************************************)
(* The inductive invariant behind the safety properties.                   *)
(***************************************************************************)

\* A row that is not running is on nobody's lease, and an absent one is blank.
Consistent(row) ==
  /\ row.status = "absent" => row = NoRow
  /\ row.status # "absent" => row.key \in Keys
  /\ row.status # "running" => row.lease = "none" /\ row.by = NoOne
  /\ row.status = "running" => row.by \in Consumers

RowsConsistent == \A j \in Jobs : Consistent(jobs[j])

\* The job of c is on c's lease, at the attempt c was given.
Leased(c) ==
  LET row == jobs[JobOf(c)] IN
  /\ row.status = "running" /\ row.by = c
  /\ row.attempts = cons[c].att /\ row.lease = "live"

\* What c wrote, not knowing that it had, is still there, or was pruned; a
\* released job may be another loop's by now.
Written(c) ==
  LET row == jobs[JobOf(c)] IN
  CASE cons[c].outcome = "ok"          -> row.status \in {"absent", "succeeded"}
    [] cons[c].outcome = "interrupted" -> row.status = "running" => row.by # c
    [] OTHER -> \/ row.status = "absent"
                \/ row.status = "queued" /\ ~row.due /\ Retrying(c)
                \/ row.status = "dead" /\ ~Retrying(c)

\* A busy loop has its job, until its outcome is written.
HoldsJob(c) ==
  Busy(c) =>
    /\ JobOf(c) \in Jobs
    /\ cons[c].pc = "recording" => cons[c].outcome # "none"
    /\ cons[c].pc # "recording" => ~cons[c].landed
    /\ stalls = 0 => IF cons[c].landed THEN Written(c) ELSE Leased(c)

BusyHoldsJob == \A c \in Consumers : HoldsJob(c)

QueueInv ==
  TypeOK /\ RowsConsistent /\ LiveKeyUnique /\ BusyHoldsJob /\ AttemptsWithinBudget

(***************************************************************************)
(* What queue.ts promises its users, whatever loops, replicas, kills and   *)
(* lost answers do: a key's work is enqueued once at a time, by one        *)
(* handler at a time, within its budget, and what ended has ended.         *)
(***************************************************************************)
QueuePromises ==
  [](LiveKeyUnique /\ Exclusive /\ AttemptsWithinBudget) /\ OutcomeIsFinal
=============================================================================
