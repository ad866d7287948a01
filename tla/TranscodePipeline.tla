-------------------------- MODULE TranscodePipeline --------------------------
(***************************************************************************)
(* Transcoding a video: the handler of apps/worker/src/transcode.ts, run   *)
(* by the queue's consumer loops; the repairs housekeeping makes to what a *)
(* dead handler left behind; the producers that enqueue a transcode; and   *)
(* the operator's Retry, Drop and Resend.                                  *)
(*                                                                         *)
(* A key is a submission (the dedupe key is submission:<id>).  A video is  *)
(* its status and whether it has a master playlist; the ledger is the      *)
(* transcode_jobs rows of a submission, oldest first.  The handler is one  *)
(* action per database statement: other actors act between any two of      *)
(* them, and any of them may fail, before or after it took effect.         *)
(***************************************************************************)
EXTENDS JobQueue, Sequences

CONSTANTS WhatsAppSubs,  \* the submissions a Resend may be asked for
          Admins,        \* operators' requests that may be in flight at once
          MaxVerbs,      \* how many operator verbs are tried in all
          DbFaults       \* whether the handler's and repairs' statements fail

ASSUME PipelineAssumption ==
  WhatsAppSubs \subseteq Keys /\ MaxVerbs \in Nat /\ DbFaults \in BOOLEAN

VARIABLES video,    \* video_submissions
          ledger,   \* transcode_jobs
          run,      \* each consumer's transcode480p call
          admin,    \* each operator's request
          verbs     \* operator verbs so far

queue     == <<jobs, cons, proc, stops, stalls>>
domain    == <<video, ledger>>
operators == <<admin, verbs>>
pvars     == <<jobs, cons, proc, stops, stalls, video, ledger, run, admin, verbs>>
-----------------------------------------------------------------------------
VideoStatus   == {"received", "queued", "transcoding", "ready", "failed"}
AttemptStatus == {"running", "succeeded", "failed", "cancelled", "dropped"}

Steps == {"check", "close", "open", "announce", "work", "publish", "mark",
          "cancelRow", "requeue", "failRow", "failVideo", "returned", "threw"}

NotRunning == [at |-> "none", sub |-> NoKey, mine |-> 0, threw |-> "error"]

NoRequest == [verb |-> "none", sub |-> NoKey, row |-> 0]

\* The submission's latest attempt, '' when it has none.
Latest(s) == IF ledger[s] = <<>> THEN "" ELSE ledger[s][Len(ledger[s])]

RunningRows(s) == {i \in DOMAIN ledger[s] : ledger[s][i] = "running"}

HasLiveJob(s) == KeyTaken(jobs, s)

HasRunningJob(s) == \E j \in Jobs : jobs[j].key = s /\ jobs[j].status = "running"

HasDeadJob(s) == \E j \in Jobs : jobs[j].key = s /\ jobs[j].status = "dead"

PipelineInit ==
  /\ Init
  /\ video = [s \in Keys |-> [status |-> "received", hls |-> FALSE]]
  /\ ledger = [s \in Keys |-> <<>>]
  /\ run = [c \in Consumers |-> NotRunning]
  /\ admin = [a \in Admins |-> NoRequest]
  /\ verbs = 0

SetStatus(s, status) == video' = [video EXCEPT ![s].status = status]

\* closeRunningAttempts(): every running row of s is failed.
Closed(rows) ==
  [i \in DOMAIN rows |-> IF rows[i] = "running" THEN "failed" ELSE rows[i]]
-----------------------------------------------------------------------------
(***************************************************************************)
(* Producers.                                                              *)
(***************************************************************************)

\* The bytes are in Storage: finalizeUpload(), or the WhatsApp fetch's commit.
\* The status and the job are written in one transaction.
Finalize(j, s) ==
  /\ video[s].status = "received"
  /\ SetStatus(s, "queued")
  /\ Enqueue(j, s)
  /\ UNCHANGED <<ledger, run, operators>>

\* resendTranscodeAction(): compare-and-set to 'queued', and an enqueue that a
\* live job absorbs.
Resend(j, s) ==
  /\ s \in WhatsAppSubs /\ verbs < MaxVerbs
  /\ verbs' = verbs + 1
  /\ video[s].status \in {"queued", "transcoding", "failed"}
  /\ SetStatus(s, "queued")
  /\ \/ HasLiveJob(s) /\ UNCHANGED queue
     \/ Enqueue(j, s)
  /\ UNCHANGED <<ledger, run, admin>>
-----------------------------------------------------------------------------
(***************************************************************************)
(* Retry and Drop on /admin/transcode-jobs: the row named by the form is   *)
(* read first, and everything else under a lock on the submission.         *)
(***************************************************************************)

\* The first read.  A row that is not failed is refused at the end in any case.
OpenVerb(a, verb, s, i) ==
  /\ admin[a] = NoRequest /\ verbs < MaxVerbs
  /\ i \in DOMAIN ledger[s] /\ ledger[s][i] = "failed"
  /\ admin' = [admin EXCEPT ![a] = [verb |-> verb, sub |-> s, row |-> i]]
  /\ verbs' = verbs + 1
  /\ UNCHANGED <<queue, domain, run>>

\* verbsFor(): the status of the row is the one read before the lock.
LatestRow(s, i) == i = Len(ledger[s])

RetryAllowed(s, i) ==
  LatestRow(s, i) /\ video[s].status = "failed" /\ ~HasLiveJob(s)

DropAllowed(s, i) ==
  LatestRow(s, i) /\ video[s].status \in {"failed", "queued"} /\ ~HasRunningJob(s)

Retry(a, j) ==
  LET s == admin[a].sub IN
  /\ admin[a].verb = "retry" /\ RetryAllowed(s, admin[a].row)
  /\ SetStatus(s, "queued")
  /\ Enqueue(j, s)
  /\ admin' = [admin EXCEPT ![a] = NoRequest]
  /\ UNCHANGED <<ledger, run, verbs>>

\* A mutant of Drop: the queued retry is not cancelled.
DropUncancelled(a) ==
  LET s == admin[a].sub IN
  /\ admin[a].verb = "drop" /\ DropAllowed(s, admin[a].row)
  /\ ledger' = [ledger EXCEPT ![s][admin[a].row] = "dropped"]
  /\ SetStatus(s, "failed")
  /\ admin' = [admin EXCEPT ![a] = NoRequest]
  /\ UNCHANGED <<queue, run, verbs>>

\* The queued retry is cancelled and the dead rows are deleted with it.
Drop(a) ==
  LET s == admin[a].sub IN
  /\ admin[a].verb = "drop" /\ DropAllowed(s, admin[a].row)
  /\ ledger' = [ledger EXCEPT ![s][admin[a].row] = "dropped"]
  /\ SetStatus(s, "failed")
  /\ IF Withdrawable(s) = {} THEN UNCHANGED queue ELSE Withdraw(s)
  /\ admin' = [admin EXCEPT ![a] = NoRequest]
  /\ UNCHANGED <<run, verbs>>

Refuse(a) ==
  /\ admin[a] # NoRequest
  /\ \/ admin[a].verb = "retry" /\ ~RetryAllowed(admin[a].sub, admin[a].row)
     \/ admin[a].verb = "drop" /\ ~DropAllowed(admin[a].sub, admin[a].row)
  /\ admin' = [admin EXCEPT ![a] = NoRequest]
  /\ UNCHANGED <<queue, domain, run, verbs>>
-----------------------------------------------------------------------------
(***************************************************************************)
(* transcode480p().                                                        *)
(***************************************************************************)

At(c, step) == cons[c].pc = "running" /\ run[c].at = step

Goto(c, step) == run' = [run EXCEPT ![c].at = step]

\* The catch block: a shutdown makes any failure an interruption, recorded
\* 'cancelled'; otherwise the row and then the video are failed.
Throw(c, kind) ==
  LET next == IF Stopping(c)
              THEN IF run[c].mine = 0 THEN "requeue" ELSE "cancelRow"
              ELSE IF run[c].mine = 0 THEN "failVideo" ELSE "failRow"
  IN  run' = [run EXCEPT ![c] =
                [at |-> next, sub |-> @.sub, mine |-> @.mine, threw |-> kind]]

\* A statement takes effect and the handler goes on, or it throws, with or
\* without having taken effect.
Statement(c, step, next, effect) ==
  /\ At(c, step)
  /\ \/ effect /\ Goto(c, next)
     \/ DbFaults /\ effect /\ Throw(c, "error")
     \/ DbFaults /\ UNCHANGED domain /\ Throw(c, "error")
  /\ UNCHANGED <<queue, operators>>

\* A statement of the catch block, whose own failure is swallowed.
Attempted(c, step, next, effect) ==
  /\ At(c, step)
  /\ effect \/ (DbFaults /\ UNCHANGED domain)
  /\ Goto(c, next)
  /\ UNCHANGED <<queue, operators>>

\* A mutant of Check: a video that is ready is transcoded again.
CheckNothing(c) ==
  /\ At(c, "check")
  /\ Goto(c, "close") \/ (DbFaults /\ Throw(c, "error"))
  /\ UNCHANGED <<queue, domain, operators>>

\* A video that is ready already was transcoded by a run whose succeed() was
\* lost: nothing to do.
Check(c) ==
  /\ At(c, "check")
  /\ \/ /\ video[run[c].sub].status = "ready" /\ video[run[c].sub].hls
        /\ Goto(c, "returned")
     \/ /\ ~(video[run[c].sub].status = "ready" /\ video[run[c].sub].hls)
        /\ Goto(c, "close")
     \/ DbFaults /\ Throw(c, "error")
  /\ UNCHANGED <<queue, domain, operators>>

\* A mutant of CloseRunning: what a killed run left is not closed.
CloseNothing(c) == Statement(c, "close", "open", UNCHANGED domain)

CloseRunning(c) ==
  Statement(c, "close", "open",
    /\ ledger' = [ledger EXCEPT ![run[c].sub] = Closed(@)]
    /\ UNCHANGED video)

\* The ledger row.  When its answer is lost the handler does not know its id.
OpenRow(c) ==
  LET s == run[c].sub IN
  /\ At(c, "open")
  /\ \/ /\ ledger' = [ledger EXCEPT ![s] = Append(@, "running")]
        /\ run' = [run EXCEPT ![c] = [at |-> "announce", sub |-> s,
                                       mine |-> Len(ledger[s]) + 1, threw |-> @.threw]]
     \/ /\ DbFaults /\ Throw(c, "error")
        /\ \/ ledger' = [ledger EXCEPT ![s] = Append(@, "running")]
           \/ UNCHANGED ledger
  /\ UNCHANGED <<queue, video, operators>>

Announce(c) ==
  Statement(c, "announce", "work",
    SetStatus(run[c].sub, "transcoding") /\ UNCHANGED ledger)

\* Download, probe, encode, upload: no database statement.
Work(c) ==
  /\ At(c, "work")
  /\ Goto(c, "publish") \/ Throw(c, "error") \/ Throw(c, "permanent")
  /\ UNCHANGED <<queue, domain, operators>>

Publish(c) ==
  Statement(c, "publish", "mark",
    /\ video' = [video EXCEPT ![run[c].sub] = [status |-> "ready", hls |-> TRUE]]
    /\ UNCHANGED ledger)

MarkSucceeded(c) ==
  Statement(c, "mark", "returned",
    /\ ledger' = [ledger EXCEPT ![run[c].sub][run[c].mine] = "succeeded"]
    /\ UNCHANGED video)

\* Only while it is running: a row the reaper has failed stays failed.
CancelRow(c) ==
  Attempted(c, "cancelRow", "requeue",
    /\ ledger' = [ledger EXCEPT ![run[c].sub][run[c].mine] =
                    IF @ = "running" THEN "cancelled" ELSE @]
    /\ UNCHANGED video)

Requeue(c) ==
  Attempted(c, "requeue", "threw",
    /\ video' = [video EXCEPT ![run[c].sub].status =
                   IF @ = "transcoding" THEN "queued" ELSE @]
    /\ UNCHANGED ledger)

FailRow(c) ==
  Attempted(c, "failRow", "failVideo",
    /\ ledger' = [ledger EXCEPT ![run[c].sub][run[c].mine] = "failed"]
    /\ UNCHANGED video)

\* A mutant of FinalAttempt: the last attempt is not taken for the last.
FinalAttemptLate(c) ==
  cons[c].att > MaxAttempts[run[c].sub] \/ run[c].threw = "permanent"

FinalAttempt(c) ==
  cons[c].att >= MaxAttempts[run[c].sub] \/ run[c].threw = "permanent"

\* Never over a result; 'queued' while the queue will try again.
FailVideo(c) ==
  Attempted(c, "failVideo", "threw",
    /\ video' = [video EXCEPT ![run[c].sub].status =
                   IF @ = "ready" THEN @
                   ELSE IF FinalAttempt(c) THEN "failed" ELSE "queued"]
    /\ UNCHANGED ledger)

HandlerStep(c) ==
  \/ Check(c) \/ CloseRunning(c) \/ OpenRow(c) \/ Announce(c) \/ Work(c)
  \/ Publish(c) \/ MarkSucceeded(c)
  \/ CancelRow(c) \/ Requeue(c) \/ FailRow(c) \/ FailVideo(c)
-----------------------------------------------------------------------------
(***************************************************************************)
(* The queue's steps, and what they do to the handler's call.              *)
(***************************************************************************)

Leave(c) == run' = [run EXCEPT ![c] = NotRunning]

ClaimVideo(c, j) ==
  /\ Claim(c, j)
  /\ run' = [run EXCEPT ![c] =
               [at |-> "check", sub |-> jobs[j].key, mine |-> 0, threw |-> "error"]]
  /\ UNCHANGED <<domain, operators>>

HandBackVideo(c) == HandBack(c) /\ Leave(c) /\ UNCHANGED <<domain, operators>>

TranscodeEnds(c) ==
  /\ \/ run[c].at = "returned" /\ HandlerEnds(c, "ok")
     \/ run[c].at = "threw" /\ HandlerEnds(c, run[c].threw)
  /\ Leave(c)
  /\ UNCHANGED <<domain, operators>>

\* The steps that do not touch the handler's rows.
TransportStep(c) ==
  /\ \/ \E j \in Jobs : ClaimLost(c, j)
     \/ Begin(c) \/ Heartbeat(c)
     \/ Record(c) \/ WriteFails(c) \/ AnswerLost(c)
  /\ UNCHANGED <<domain, run, operators>>

KillWorker(p) ==
  /\ Kill(p)
  /\ run' = [c \in Consumers |-> IF ProcOf[c] = p THEN NotRunning ELSE run[c]]
  /\ UNCHANGED <<domain, operators>>

\* repairReapedTranscodes(), in the reaper's transaction, one savepoint per
\* job: one that fails leaves its job's rows as they were.
ReapedSubs == {jobs[j].key : j \in Lapsed}

DeadLettered(s) ==
  \E j \in Lapsed : jobs[j].key = s /\ jobs[j].attempts >= MaxAttempts[s]

\* A mutant of Repaired: the job's status is written to the video.
RepairedDead(s) ==
  IF DeadLettered(s)
  THEN IF video[s].status \in {"queued", "transcoding"} THEN "dead" ELSE video[s].status
  ELSE IF video[s].status = "transcoding" THEN "queued" ELSE video[s].status

Repaired(s) ==
  IF DeadLettered(s)
  THEN IF video[s].status \in {"queued", "transcoding"} THEN "failed" ELSE video[s].status
  ELSE IF video[s].status = "transcoding" THEN "queued" ELSE video[s].status

ReapTranscodes(p) ==
  /\ Reap(p)
  /\ \E broken \in SUBSET ReapedSubs :
       /\ DbFaults \/ broken = {}
       /\ LET repaired == ReapedSubs \ broken IN
          /\ ledger' = [s \in Keys |-> IF s \in repaired THEN Closed(ledger[s]) ELSE ledger[s]]
          /\ video' = [s \in Keys |-> IF s \in repaired
                                      THEN [video[s] EXCEPT !.status = Repaired(s)]
                                      ELSE video[s]]
  /\ UNCHANGED <<run, operators>>

\* A mutant of OrphanRows: only the attempts of a video that shows as running.
OrphanRowsOfRunning(s) ==
  RunningRows(s) # {} /\ ~HasLiveJob(s) /\ video[s].status = "transcoding"

\* repairStrandedTranscodes(): one statement over one snapshot.
OrphanRows(s) == RunningRows(s) # {} /\ ~HasLiveJob(s)

\* A mutant of StrandedVideo: one that waits is not looked at.
StrandedTranscoding(s) == video[s].status = "transcoding" /\ ~HasLiveJob(s)

StrandedVideo(s) == video[s].status \in {"transcoding", "queued"} /\ ~HasLiveJob(s)

\* Failed by a job that died with no failed attempt on record.
Unrecorded(s) ==
  /\ video[s].status = "failed" /\ ~HasLiveJob(s) /\ HasDeadJob(s)
  /\ Latest(s) \notin {"failed", "dropped"}

\* A mutant of NeedsRecord: only a video this statement fails gets a record.
NeedsRecordIfStranded(s) ==
  ~OrphanRows(s) /\ StrandedVideo(s) /\ Latest(s) # "failed"

NeedsRecord(s) ==
  ~OrphanRows(s) /\ ((StrandedVideo(s) /\ Latest(s) # "failed") \/ Unrecorded(s))

RepairStranded(p) ==
  /\ proc[p] = "up"
  /\ \E s \in Keys : OrphanRows(s) \/ StrandedVideo(s) \/ Unrecorded(s)
  /\ ledger' = [s \in Keys |->
       IF OrphanRows(s) THEN Closed(ledger[s])
       ELSE IF NeedsRecord(s) THEN Append(ledger[s], "failed") ELSE ledger[s]]
  /\ video' = [s \in Keys |->
       IF StrandedVideo(s) THEN [video[s] EXCEPT !.status = "failed"] ELSE video[s]]
  /\ UNCHANGED <<queue, run, operators>>

\* A dead row is pruned after thirty days: housekeeping has long repaired what
\* it left.
PruneJob(p, j) ==
  /\ Prune(p, j)
  /\ jobs[j].status = "dead" => ~Unrecorded(jobs[j].key)
  /\ UNCHANGED <<domain, run, operators>>

JobPasses(j) ==
  /\ BackoffElapse(j) \/ LeaseLapse(j) \/ Stall(j)
  /\ UNCHANGED <<domain, run, operators>>

WorkerStep(p) ==
  /\ Shutdown(p) \/ Exit(p) \/ Start(p)
  /\ UNCHANGED <<domain, run, operators>>
-----------------------------------------------------------------------------
PipelineNext ==
  \/ \E j \in Jobs, s \in Keys : Finalize(j, s) \/ Resend(j, s)
  \/ \E a \in Admins, s \in Keys, verb \in {"retry", "drop"} :
       \E i \in DOMAIN ledger[s] : OpenVerb(a, verb, s, i)
  \/ \E a \in Admins : Refuse(a) \/ Drop(a) \/ \E j \in Jobs : Retry(a, j)
  \/ \E c \in Consumers :
       \/ HandlerStep(c) \/ TransportStep(c) \/ HandBackVideo(c) \/ TranscodeEnds(c)
       \/ \E j \in Jobs : ClaimVideo(c, j)
  \/ \E p \in Procs :
       \/ KillWorker(p) \/ ReapTranscodes(p) \/ RepairStranded(p) \/ WorkerStep(p)
       \/ \E j \in Jobs : PruneJob(p, j)
  \/ \E j \in Jobs : JobPasses(j)

PipelineSpec == PipelineInit /\ [][PipelineNext]_pvars

\* The queue's fairness, with the handler's statements in place of its opaque
\* end (runs and requests have deadlines), and housekeeping every minute.
PipelineFairness ==
  /\ \A c \in Consumers :
       /\ WF_pvars(Begin(c) /\ UNCHANGED <<domain, run, operators>>)
       /\ WF_pvars(HandBackVideo(c))
       /\ WF_pvars(HandlerStep(c)) /\ WF_pvars(TranscodeEnds(c))
       /\ WF_pvars((Record(c) \/ WriteFails(c)) /\ UNCHANGED <<domain, run, operators>>)
  /\ \A j \in Jobs :
       /\ SF_pvars(\E c \in Consumers : ClaimVideo(c, j))
       /\ WF_pvars((BackoffElapse(j) \/ LeaseLapse(j)) /\ UNCHANGED <<domain, run, operators>>)
  /\ SF_pvars(\E p \in Procs : ReapTranscodes(p))
  /\ SF_pvars(\E p \in Procs : RepairStranded(p))
  /\ \A p \in Procs : WF_pvars((Exit(p) \/ Start(p)) /\ UNCHANGED <<domain, run, operators>>)

PipelineFairSpec == PipelineSpec /\ PipelineFairness
-----------------------------------------------------------------------------
(***************************************************************************)
(* Properties.                                                             *)
(***************************************************************************)

\* Every variable stays within the values its columns and locals can hold.
PipelineTypeOK ==
  /\ TypeOK
  /\ video \in [Keys -> [status : VideoStatus, hls : BOOLEAN]]
  /\ ledger \in [Keys -> Seq(AttemptStatus)]
  /\ run \in [Consumers -> {NotRunning} \cup
                [at : Steps, sub : Keys, mine : Nat, threw : {"error", "permanent"}]]
  /\ admin \in [Admins -> {NoRequest} \cup
                  [verb : {"retry", "drop"}, sub : Keys, row : Nat]]
  /\ verbs \in 0..MaxVerbs

\* A playable video stays playable: no retry, re-delivery, repair, late write
\* of the catch block or operator's verb takes 'ready' away while workers keep
\* their leases.
ReadyStays ==
  [][stalls' = 0 =>
       \A s \in Keys : video[s].status = "ready" => video'[s].status = "ready"]_pvars

\* While workers keep their leases a submission has one running attempt at
\* most, and the row a handler will write its outcome to is that one: what
\* closeRunningAttempts() assumes of its caller (transcode.ts:104-107).
OneRunningAttempt ==
  stalls = 0 =>
    /\ \A s \in Keys : Cardinality(RunningRows(s)) <= 1
    /\ \A c \in Consumers :
         run[c].at \in {"announce", "work", "publish", "mark"}
           => RunningRows(run[c].sub) = {run[c].mine}

\* A video shown as queued has a job coming for it (transcode.ts:163-166), when
\* no statement fails.
QueuedHasJob ==
  stalls = 0 => \A s \in Keys : video[s].status = "queued" => HasLiveJob(s)

\* A drop is final: the submission it closed has no live job (actions.ts on
\* Drop: "Permanently drop"; transcode.ts:175 "a decision, and is left alone").
DroppedIsNotRun ==
  \A s \in Keys : Latest(s) = "dropped" => ~HasLiveJob(s)

\* What the operator's page relies on when no statement fails: a queued video has a
\* job coming, a dropped one has none.
TranscodePromises == PipelineTypeOK /\ QueuedHasJob /\ DroppedIsNotRun

\* Every video handed to the queue is settled: ready, or failed where the DLQ
\* can act on it.
VideoSettles ==
  \A s \in Keys : video[s].status \in {"queued", "transcoding"}
                    ~> video[s].status \in {"ready", "failed"}

\* No attempt shows as running for good, whatever killed it.
AttemptsClose == \A s \in Keys : RunningRows(s) # {} ~> RunningRows(s) = {}

\* A video that a dead transcode left failed gets a failed latest attempt, the
\* one thing Retry and Drop act on.
FailedIsActionable ==
  \A s \in Keys :
    Unrecorded(s) ~> (Latest(s) \in {"failed", "dropped"} \/ video[s].status # "failed"
                      \/ HasLiveJob(s))
-----------------------------------------------------------------------------
(***************************************************************************)
(* The inductive invariants behind the safety properties.                  *)
(***************************************************************************)

\* A loop that has a job transcodes that job's submission, and one that has not,
\* or has done with it, transcodes nothing.
RunsItsJob(c) ==
  IF cons[c].pc \in {"claimed", "running"}
  THEN /\ run[c].at # "none" /\ run[c].sub = jobs[JobOf(c)].key
       /\ cons[c].pc = "claimed" => run[c].at = "check"
  ELSE run[c] = NotRunning

\* What the handler found, or wrote, is still so at its next statement.
KnowsItsRows(c) ==
  LET s == run[c].sub IN
  cons[c].pc = "running" =>
    /\ run[c].at \in {"close", "open", "announce"} => video[s].status # "ready"
    /\ run[c].at = "open" => RunningRows(s) = {}
    /\ run[c].at \in {"announce", "work", "publish", "mark"} => RunningRows(s) = {run[c].mine}
    /\ run[c].at \in {"mark", "returned"} => video[s].status = "ready"

\* A ready video has its playlist; and while leases are kept, one attempt runs.
RowsInv ==
  /\ \A s \in Keys : video[s].status = "ready" => video[s].hls
  /\ stalls = 0 =>
       /\ \A s \in Keys : \A i, k \in RunningRows(s) : i = k
       /\ \A c \in Consumers : RunsItsJob(c) /\ KnowsItsRows(c)

PipelineInv == QueueInv /\ PipelineTypeOK /\ RowsInv

\* The result fail() will not retry.
Last(c, result, s) == result = "permanent" \/ cons[c].att >= MaxAttempts[s]

\* A run that ends its job leaves its video settled; unless a shutdown makes the
\* throw an interruption.
RunSettles(c) ==
  cons[c].pc = "running" =>
    /\ run[c].at \in {"cancelRow", "requeue"} => Stopping(c)
    /\ run[c].at = "threw" =>
         \/ Stopping(c) \/ ~Last(c, run[c].threw, run[c].sub)
         \/ video[run[c].sub].status # "queued"

\* So has one whose outcome is being written.
OutcomeSettles(c) ==
  LET s == jobs[JobOf(c)].key IN
  (cons[c].pc = "recording" /\ ~cons[c].landed) =>
    \/ cons[c].outcome = "interrupted"
    \/ cons[c].outcome = "error" /\ ~Last(c, "error", s)
    \/ video[s].status # "queued"

\* A video that was not handed over has no job and no attempt; and where each
\* operator's request points, until somebody else drops the row.
VerbInv ==
  /\ \A s \in Keys :
       video[s].status = "received" =>
         ledger[s] = <<>> /\ \A j \in Jobs : jobs[j].key # s
  /\ \A a \in Admins :
       admin[a].verb # "none" =>
         /\ admin[a].row \in DOMAIN ledger[admin[a].sub]
         /\ ledger[admin[a].sub][admin[a].row] # "dropped"

PromisesInv ==
  /\ QueuedHasJob /\ DroppedIsNotRun /\ VerbInv
  /\ stalls = 0 => \A c \in Consumers : RunSettles(c) /\ OutcomeSettles(c)
=============================================================================
