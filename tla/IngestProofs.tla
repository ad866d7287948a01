---------------------------- MODULE IngestProofs ----------------------------
(***************************************************************************)
(* Proofs about WhatsAppIngest, for any number of messages, deliveries,    *)
(* operators, loops and processes.  Every step's queue part is a step of   *)
(* JobQueue, so what is proved of the queue holds here; the inductive      *)
(* invariant of the rows is IngestInv, and FetchInv that of the fetches    *)
(* while no statement of the handler or the repair fails.                  *)
(***************************************************************************)
EXTENDS WhatsAppIngest, JobQueueProofs

\* The transactions that may enqueue a fetch.
WebhookStep(r) ==
  \/ \E m \in Keys : Deliver(r, m)
  \/ \E j \in Jobs : Accept(r, j) \/ AcceptLost(r, j)
  \/ AcceptFails(r)

OperatorStep(o) ==
  \/ \E m \in Keys : Ask(o, m)
  \/ \E j \in Jobs : Refetch(o, j)
  \/ RefetchRefused(o)

\* The steps of a loop that are the queue's own.
LoopStep(c) ==
  \/ BeginFetch(c) \/ FetchEnds(c) \/ HandBackFetch(c)
  \/ OutcomeWritten(c) \/ TransportStep(c)
  \/ \E j \in Jobs : ClaimFetch(c, j)

HousekeepingStep(p) ==
  \/ KillWorker(p) \/ ReapFetches(p) \/ WorkerStep(p)
  \/ \E j \in Jobs : PruneJob(p, j)

\* A step is one of these.
LEMMA IngestCases ==
  ASSUME IngestNext
  PROVE  \/ \E r \in Requests : WebhookStep(r)
         \/ \E o \in Refetchers : OperatorStep(o)
         \/ \E c \in Consumers : HandlerStep(c) \/ LoopStep(c)
         \/ \E p \in Procs : HousekeepingStep(p)
         \/ \E j \in Jobs : JobPasses(j)
  BY DEF IngestNext, WebhookStep, OperatorStep, LoopStep, HousekeepingStep
-----------------------------------------------------------------------------
(***************************************************************************)
(* The queue's part of a step.                                             *)
(***************************************************************************)

\* Each kind of step is a step of the queue, or leaves it.
LEMMA IngestQueueStep == IngestTypeOK /\ [IngestNext]_ivars => [Next]_vars
<1> SUFFICES ASSUME IngestTypeOK, [IngestNext]_ivars PROVE [Next]_vars
  OBVIOUS
<1>1. UNCHANGED queue => [Next]_vars
  BY DEF queue, vars
<1>2. ASSUME NEW j \in Jobs, NEW k \in Keys, Enqueue(j, k) PROVE [Next]_vars
  BY <1>2 DEF Next, TimelyNext, JobStep
<1>3. ASSUME NEW r \in Requests, WebhookStep(r) PROVE [Next]_vars
  <2>1. request[r] \in Keys \cup {NoKey}
    BY DEF IngestTypeOK
  <2> QED
    BY <1>1, <1>2, <1>3, <2>1 DEF WebhookStep, Deliver, Accept, AcceptLost, AcceptFails
<1>4. ASSUME NEW o \in Refetchers, OperatorStep(o) PROVE [Next]_vars
  <2>1. asked[o] \in Keys \cup {NoKey}
    BY DEF IngestTypeOK
  <2>2. ASSUME NEW j \in Jobs, BackoffElapse(j) PROVE [Next]_vars
    BY <2>2 DEF Next, TimelyNext, JobStep
  <2> QED
    BY <1>1, <1>2, <1>4, <2>1, <2>2 DEF OperatorStep, Ask, Refetch, RefetchRefused
<1>5. ASSUME NEW c \in Consumers, HandlerStep(c) PROVE [Next]_vars
  BY <1>1, <1>5 DEF HandlerStep, Check, Download, Commit, MarkFailed, Reply
<1>6. ASSUME NEW c \in Consumers, LoopStep(c) PROVE [Next]_vars
  <2>1. ConsumerStep(c) => [Next]_vars
    BY DEF Next, TimelyNext
  <2>2. FetchEnds(c) => ConsumerStep(c)
    <3>1. fetch[c].threw \in Results /\ "ok" \in Results
      BY DEF IngestTypeOK, Results
    <3> QED
      BY <3>1 DEF FetchEnds, ConsumerStep
  <2>3. BeginFetch(c) \/ HandBackFetch(c) \/ OutcomeWritten(c) \/ TransportStep(c)
          => ConsumerStep(c)
    BY DEF BeginFetch, HandBackFetch, OutcomeWritten, TransportStep, ConsumerStep
  <2>4. (\E j \in Jobs : ClaimFetch(c, j)) => ConsumerStep(c)
    BY DEF ClaimFetch, ConsumerStep
  <2> QED
    BY <1>6, <2>1, <2>2, <2>3, <2>4 DEF LoopStep
<1>7. ASSUME NEW p \in Procs, HousekeepingStep(p) PROVE [Next]_vars
  <2>1. ProcStep(p) => [Next]_vars
    BY DEF Next, TimelyNext
  <2> QED
    BY <1>7, <2>1 DEF HousekeepingStep, KillWorker, ReapFetches, WorkerStep, PruneJob, ProcStep
<1>8. ASSUME NEW j \in Jobs, JobPasses(j) PROVE [Next]_vars
  BY <1>8 DEF JobPasses, Next, TimelyNext, JobStep
<1>9. UNCHANGED ivars => [Next]_vars
  BY DEF ivars, vars
<1> QED
  BY <1>3, <1>4, <1>5, <1>6, <1>7, <1>8, <1>9, IngestCases
-----------------------------------------------------------------------------
(***************************************************************************)
(* The rows of a message.                                                  *)
(***************************************************************************)

\* Where a handler's call may be, and with what.
Call == [at : Steps, msg : Keys \cup {NoKey}, threw : {"error", "permanent"}]

\* The types of the rows, and of what is in flight.
RowTypes ==
  sub \in [Keys -> SubStatus] /\ file \in [Keys -> FileStatus] /\ handed \in [Keys -> 0..1]

FlightTypes ==
  /\ request \in [Requests -> Keys \cup {NoKey}] /\ owed \subseteq Keys
  /\ fetch \in [Consumers -> Call]
  /\ asked \in [Refetchers -> Keys \cup {NoKey}]

\* What may happen to a message's rows in one step: nothing; it is recorded, or
\* reopened; its bytes are stored; it is failed.
RowsMove(m) ==
  \/ sub'[m] = sub[m] /\ file'[m] = file[m] /\ handed'[m] = handed[m]
  \/ /\ sub[m] # "queued"
     /\ sub'[m] = "received" /\ file'[m] = "uploading" /\ handed'[m] = handed[m]
  \/ /\ sub[m] = "received"
     /\ sub'[m] = "queued" /\ file'[m] = "stored" /\ handed'[m] = handed[m] + 1
  \/ /\ sub[m] = "received"
     /\ sub'[m] = "failed" /\ file'[m] = "failed" /\ handed'[m] = handed[m]

AllRowsMove ==
  /\ sub' \in [Keys -> SubStatus] /\ file' \in [Keys -> FileStatus]
  /\ handed' = [m \in Keys |-> handed'[m]]
  /\ \A m \in Keys : RowsMove(m)

\* store() and giveUp() write the rows of one message, together.
LEMMA StoreMoves ==
  ASSUME RowTypes, NEW k, Store(k) \/ GiveUp(k) \/ UNCHANGED domain
  PROVE  AllRowsMove
<1>1. /\ sub \in [Keys -> SubStatus] /\ file \in [Keys -> FileStatus]
      /\ handed \in [Keys -> 0..1]
      /\ {"received", "queued", "failed"} \subseteq SubStatus
      /\ {"stored", "failed", "uploading"} \subseteq FileStatus
  BY DEF RowTypes, SubStatus, FileStatus
<1>2. CASE Store(k)
  BY <1>1, <1>2 DEF Store, AllRowsMove, RowsMove, domain
<1>3. CASE GiveUp(k)
  BY <1>1, <1>3 DEF GiveUp, AllRowsMove, RowsMove, domain
<1>4. CASE UNCHANGED domain
  BY <1>1, <1>4 DEF AllRowsMove, RowsMove, domain
<1> QED
  BY <1>2, <1>3, <1>4
\* Moving on, throwing and leaving keep the type of the call.
LEMMA CallTypes ==
  ASSUME FlightTypes, NEW c \in Consumers,
         \/ \E step \in Steps : Goto(c, step)
         \/ \E kind \in {"error", "permanent"} : Throw(c, kind)
         \/ fetch' = [fetch EXCEPT ![c].at = "threw"]
         \/ fetch' = [fetch EXCEPT ![c] = [at |-> "threw", msg |-> @.msg, threw |-> "error"]]
         \/ Leave(c)
  PROVE  fetch' \in [Consumers -> Call]
<1>1. fetch \in [Consumers -> Call] /\ fetch[c] \in Call
  BY DEF FlightTypes, Call
<1>2. {"threw", "markFailed", "none"} \subseteq Steps /\ NotRunning \in Call
  BY DEF Steps, NotRunning, Call
<1>3. ASSUME NEW step \in Steps, Goto(c, step) PROVE fetch' \in [Consumers -> Call]
  BY <1>1, <1>3 DEF Goto, Call
<1>4. ASSUME NEW kind \in {"error", "permanent"}, Throw(c, kind)
      PROVE  fetch' \in [Consumers -> Call]
  <2>1. PICK step \in Steps :
          fetch' = [fetch EXCEPT ![c] = [at |-> step, msg |-> fetch[c].msg, threw |-> kind]]
    <3> DEFINE step == IF ~Stopping(c) /\ (cons[c].att >= MaxAttempts[fetch[c].msg]
                                             \/ kind = "permanent")
                       THEN "markFailed" ELSE "threw"
    <3>1. step \in Steps
      BY <1>2
    <3>2. fetch' = [fetch EXCEPT ![c] = [at |-> step, msg |-> fetch[c].msg, threw |-> kind]]
      BY <1>4 DEF Throw
    <3> QED
      BY <3>1, <3>2
  <2> QED
    BY <1>1, <2>1 DEF Call
<1>5. CASE fetch' = [fetch EXCEPT ![c].at = "threw"]
  BY <1>1, <1>2, <1>5 DEF Call
<1>6. CASE fetch' = [fetch EXCEPT ![c] = [at |-> "threw", msg |-> @.msg, threw |-> "error"]]
  BY <1>1, <1>2, <1>6 DEF Call
<1>7. CASE Leave(c)
  BY <1>1, <1>2, <1>7 DEF Leave
<1> QED
  BY <1>3, <1>4, <1>5, <1>6, <1>7

\* The webhook writes one message's rows, which it found absent.
LEMMA WebhookMoves ==
  ASSUME RowTypes, FlightTypes, NEW r \in Requests, WebhookStep(r)
  PROVE  AllRowsMove /\ FlightTypes'
<1>1. /\ sub \in [Keys -> SubStatus] /\ file \in [Keys -> FileStatus]
      /\ handed \in [Keys -> 0..1] /\ request[r] \in Keys \cup {NoKey}
      /\ "received" \in SubStatus /\ "uploading" \in FileStatus
  BY DEF RowTypes, FlightTypes, SubStatus, FileStatus
<1>2. UNCHANGED domain => AllRowsMove
  BY <1>1 DEF AllRowsMove, RowsMove, domain
<1>3. ASSUME NEW k \in Keys, sub[k] = "none", UNCHANGED handed,
             sub' = [sub EXCEPT ![k] = "received"],
             file' = [file EXCEPT ![k] = "uploading"]
      PROVE  AllRowsMove
  BY <1>1, <1>3 DEF AllRowsMove, RowsMove
<1>4. AllRowsMove
  BY <1>1, <1>2, <1>3
     DEF WebhookStep, Deliver, Accept, AcceptLost, AcceptFails, domain
<1>5. FlightTypes'
  BY <1>1 DEF WebhookStep, Deliver, Accept, AcceptLost, AcceptFails, Answered, FlightTypes
<1> QED
  BY <1>4, <1>5

\* An operator's transaction writes those of one that was not stored.
LEMMA OperatorMoves ==
  ASSUME RowTypes, RowsAgree, FlightTypes, NEW o \in Refetchers, OperatorStep(o)
  PROVE  AllRowsMove /\ FlightTypes'
<1>1. /\ sub \in [Keys -> SubStatus] /\ file \in [Keys -> FileStatus]
      /\ handed \in [Keys -> 0..1] /\ asked[o] \in Keys \cup {NoKey}
      /\ "received" \in SubStatus /\ "uploading" \in FileStatus
  BY DEF RowTypes, FlightTypes, SubStatus, FileStatus
<1>2. UNCHANGED domain => AllRowsMove
  BY <1>1 DEF AllRowsMove, RowsMove, domain
<1>3. ASSUME NEW k \in Keys, Reopens(k), UNCHANGED handed,
             sub' = [sub EXCEPT ![k] = "received"],
             file' = [file EXCEPT ![k] = "uploading"]
      PROVE  AllRowsMove
  BY <1>1, <1>3 DEF AllRowsMove, RowsMove, Reopens, Refetchable
<1>4. AllRowsMove
  BY <1>1, <1>2, <1>3 DEF OperatorStep, Ask, Refetch, RefetchRefused, domain
<1>5. FlightTypes'
  BY <1>1 DEF OperatorStep, Ask, Refetch, RefetchRefused, FlightTypes, webhook
<1> QED
  BY <1>4, <1>5

\* The handler writes those of the message it was called for.
LEMMA HandlerMoves ==
  ASSUME RowTypes, FlightTypes, NEW c \in Consumers, HandlerStep(c)
  PROVE  AllRowsMove /\ FlightTypes'
<1>1. \/ UNCHANGED domain
      \/ \E k : Store(k)
      \/ \E k : GiveUp(k)
  BY DEF HandlerStep, Check, Download, Commit, MarkFailed, Reply
<1>2. AllRowsMove
  BY <1>1, StoreMoves
<1>3. fetch' \in [Consumers -> Call]
  <2>1. {"download", "returned", "commit", "reply", "threw"} \subseteq Steps
    BY DEF Steps
  <2> QED
    BY <2>1, CallTypes DEF HandlerStep, Check, Download, Commit, MarkFailed, Reply
<1>4. UNCHANGED <<request, owed, asked>>
  BY DEF HandlerStep, Check, Download, Commit, MarkFailed, Reply, webhook
<1> QED
  BY <1>2, <1>3, <1>4 DEF FlightTypes

\* What the loops do besides moves nobody's rows.
LEMMA LoopMoves ==
  ASSUME QueueInv, RowTypes, FlightTypes, NEW c \in Consumers, LoopStep(c)
  PROVE  AllRowsMove /\ FlightTypes'
<1>1. UNCHANGED <<domain, webhook, asked>>
  BY DEF LoopStep, BeginFetch, FetchEnds, HandBackFetch, OutcomeWritten, TransportStep, ClaimFetch
<1>2. AllRowsMove
  BY <1>1 DEF AllRowsMove, RowsMove, domain, RowTypes
<1>3. fetch' \in [Consumers -> Call]
  <2>1. UNCHANGED fetch \/ Leave(c) \/ \E j \in Jobs : ClaimFetch(c, j)
    BY DEF LoopStep, BeginFetch, FetchEnds, HandBackFetch, OutcomeWritten, TransportStep
  <2>2. ASSUME NEW j \in Jobs, ClaimFetch(c, j) PROVE fetch' \in [Consumers -> Call]
    <3>1. jobs[j].key \in Keys \cup {NoKey}
      BY DEF QueueInv, TypeOK, Row
    <3>2. [at |-> "check", msg |-> jobs[j].key, threw |-> "error"] \in Call
      BY <3>1 DEF Call, Steps
    <3> QED
      BY <2>2, <3>2 DEF ClaimFetch, FlightTypes
  <2> QED
    BY <2>1, <2>2, CallTypes DEF FlightTypes
<1> QED
  BY <1>1, <1>2, <1>3 DEF FlightTypes, webhook

\* The reaper's repair fails the submissions whose last fetch died; a killed
\* process leaves its calls.
LEMMA HousekeepingMoves ==
  ASSUME RowTypes, FlightTypes, NEW p \in Procs, HousekeepingStep(p)
  PROVE  AllRowsMove /\ FlightTypes'
<1>1. CASE ReapFetches(p)
  <2>1. PICK broken \in SUBSET Keys :
          /\ sub' = [m \in Keys |-> IF m \in GivenUp(broken) THEN "failed" ELSE sub[m]]
          /\ file' = [m \in Keys |-> IF m \in GivenUp(broken) THEN "failed" ELSE file[m]]
    BY <1>1 DEF ReapFetches
  <2>2. UNCHANGED <<handed, webhook, fetch, asked>>
    BY <1>1 DEF ReapFetches
  <2>3. AllRowsMove
    BY <2>1, <2>2 DEF AllRowsMove, RowsMove, RowTypes, GivenUp, SubStatus, FileStatus
  <2> QED
    BY <2>2, <2>3 DEF FlightTypes, webhook
<1>2. CASE ~ReapFetches(p)
  <2>1. UNCHANGED <<domain, webhook, asked>>
    BY <1>2 DEF HousekeepingStep, KillWorker, WorkerStep, PruneJob
  <2>2. AllRowsMove
    BY <2>1 DEF AllRowsMove, RowsMove, domain, RowTypes
  <2>3. NotRunning \in Call
    BY DEF NotRunning, Call, Steps
  <2>4. fetch' \in [Consumers -> Call]
    BY <1>2, <2>3 DEF HousekeepingStep, KillWorker, WorkerStep, PruneJob, FlightTypes
  <2> QED
    BY <2>1, <2>2, <2>4 DEF FlightTypes, webhook
<1> QED
  BY <1>1, <1>2

\* A step moves each message's rows together.
LEMMA IngestMoves ==
  ASSUME IngestInv, IngestNext
  PROVE  AllRowsMove /\ FlightTypes'
<1>1. RowTypes /\ FlightTypes /\ RowsAgree /\ QueueInv
  BY DEF IngestInv, IngestTypeOK, RowTypes, FlightTypes, Call
<1>2. ASSUME NEW j \in Jobs, JobPasses(j) PROVE AllRowsMove /\ FlightTypes'
  BY <1>1, <1>2
     DEF JobPasses, AllRowsMove, RowsMove, domain, webhook, RowTypes, FlightTypes
<1> QED
  BY <1>1, <1>2, IngestCases, WebhookMoves, OperatorMoves, HandlerMoves, LoopMoves,
     HousekeepingMoves
-----------------------------------------------------------------------------
(***************************************************************************)
(* The theorems about the rows.                                            *)
(***************************************************************************)

\* Moved together, the rows of a message still agree.
LEMMA RowsStillAgree ==
  ASSUME RowTypes, RowsAgree, AllRowsMove
  PROVE  RowTypes' /\ RowsAgree'
<1>1. RowsAgree'
  <2> SUFFICES ASSUME NEW m \in Keys
               PROVE  /\ (file'[m] = "stored") <=> (sub'[m] = "queued")
                      /\ handed'[m] = (IF file'[m] = "stored" THEN 1 ELSE 0)
    BY DEF RowsAgree
  <2>1. /\ RowsMove(m)
        /\ (file[m] = "stored") <=> (sub[m] = "queued")
        /\ handed[m] = (IF file[m] = "stored" THEN 1 ELSE 0)
    BY DEF AllRowsMove, RowsAgree
  <2> QED
    BY <2>1 DEF RowsMove
<1>2. \A m \in Keys : handed'[m] \in 0..1
  BY <1>1 DEF RowsAgree
<1> QED
  BY <1>1, <1>2 DEF AllRowsMove, RowTypes

\* At the start nothing is recorded and nothing is fetched.
LEMMA IngestInitInv == IngestInit => IngestInv
<1> SUFFICES ASSUME IngestInit PROVE IngestInv
  OBVIOUS
<1>1. QueueInv
  BY InitInv DEF IngestInit
<1>2. IngestTypeOK
  BY <1>1 DEF IngestInit, IngestTypeOK, QueueInv, SubStatus, FileStatus, NotRunning, Steps
<1>3. RowsAgree
  BY DEF IngestInit, RowsAgree
<1> QED
  BY <1>1, <1>2, <1>3 DEF IngestInv

\* Every step keeps the queue, the types and the agreement.
LEMMA IngestStepInv == IngestInv /\ [IngestNext]_ivars => IngestInv'
<1> SUFFICES ASSUME IngestInv, [IngestNext]_ivars PROVE IngestInv'
  OBVIOUS
<1>1. QueueInv'
  BY IngestQueueStep, StepInv DEF IngestInv
<1>2. CASE IngestNext
  <2>1. RowTypes' /\ RowsAgree' /\ FlightTypes'
    BY <1>2, IngestMoves, RowsStillAgree DEF IngestInv, IngestTypeOK, RowTypes
  <2> QED
    BY <1>1, <2>1 DEF IngestInv, IngestTypeOK, RowTypes, FlightTypes, Call, QueueInv
<1>3. CASE UNCHANGED ivars
  BY <1>1, <1>3 DEF IngestInv, IngestTypeOK, RowsAgree, ivars, QueueInv
<1> QED
  BY <1>2, <1>3

\* The inductive invariant holds throughout.
THEOREM IngestInvariance == IngestSpec => []IngestInv
  BY IngestInitInv, IngestStepInv, PTL DEF IngestSpec

\* The ingest is a behaviour of the queue: whatever is proved of JobQueue holds
\* of its jobs.
THEOREM IngestRunsTheQueue == IngestSpec => Spec
<1>1. IngestInit => Init
  BY DEF IngestInit
<1>2. IngestInv /\ [IngestNext]_ivars => [Next]_vars
  BY IngestQueueStep DEF IngestInv
<1> QED
  BY <1>1, <1>2, IngestInvariance, PTL DEF IngestSpec, Spec

\* So the queue keeps its promises to the webhook and the fetch.
THEOREM IngestQueueKeepsPromises == IngestSpec => QueuePromises
  BY IngestRunsTheQueue, QueueKeepsPromises

\* Every variable keeps its type, and stored bytes were handed to one transcode.
THEOREM IngestTypeCorrect == IngestSpec => []IngestTypeOK
  BY IngestInvariance, PTL DEF IngestInv

\* Through redeliveries, kills, stalls and failing statements, the submission, its
\* file and its transcode agree.
THEOREM RowsAlwaysAgree == IngestSpec => []RowsAgree
  BY IngestInvariance, PTL DEF IngestInv

\* No step takes stored bytes back.
THEOREM StoredAlwaysStays == IngestSpec => StoredStays
<1> DEFINE Stays ==
      \A m \in Keys : file[m] = "stored" => file'[m] = "stored" /\ sub'[m] = "queued"
<1>1. IngestInv /\ [IngestNext]_ivars => [Stays]_ivars
  <2> SUFFICES ASSUME IngestInv, IngestNext, NEW m \in Keys, file[m] = "stored"
               PROVE  file'[m] = "stored" /\ sub'[m] = "queued"
    OBVIOUS
  <2>1. RowsMove(m) /\ sub[m] = "queued"
    BY IngestMoves DEF AllRowsMove, IngestInv, RowsAgree
  <2> QED
    BY <2>1 DEF RowsMove
<1>2. IngestSpec => [][Stays]_ivars
  BY <1>1, IngestInvariance, PTL DEF IngestSpec
<1> QED
  BY <1>2 DEF StoredStays

\* What the run checks of the rows, for any instance.
THEOREM IngestKeepsPromises == IngestSpec => IngestPromises
  BY IngestTypeCorrect, RowsAlwaysAgree, StoredAlwaysStays, PTL DEF IngestPromises
-----------------------------------------------------------------------------
(***************************************************************************)
(* A submission that waits has a job.  Retry fetch can be absorbed by a    *)
(* dying job, and a failed statement of the handler or the repair leaves   *)
(* the submission waiting: both are left out.                              *)
(***************************************************************************)
FetchesRunThrough == Refetchers = {} /\ Faults \cap {"handler", "repair"} = {}

\* A submission starts waiting in the transaction that enqueues its fetch, when
\* its key was free.
LEMMA NewlyReceived ==
  ASSUME FetchesRunThrough, IngestInv, IngestNext, NEW m \in Keys,
         sub[m] # "received", sub'[m] = "received"
  PROVE  ~KeyTaken(jobs, m) /\ KeyTaken(jobs', m)
<1>1. /\ sub \in [Keys -> SubStatus] /\ jobs \in [Jobs -> Row]
  BY DEF IngestInv, IngestTypeOK, QueueInv, TypeOK
<1>2. UNCHANGED sub => FALSE
  OBVIOUS
<1>3. ASSUME NEW r \in Requests, WebhookStep(r)
      PROVE  ~KeyTaken(jobs, m) /\ KeyTaken(jobs', m)
  <2>1. PICK j \in Jobs : request[r] = m /\ Enqueue(j, m)
    BY <1>1, <1>2, <1>3 DEF WebhookStep, Deliver, Accept, AcceptLost, AcceptFails, domain
  <2>2. jobs'[j] = NewRow(m) /\ DOMAIN jobs' = Jobs
    BY <1>1, <2>1 DEF Enqueue, SetRow
  <2> QED
    BY <2>1, <2>2, NewRowFacts DEF Enqueue, KeyTaken, Live
<1>4. ASSUME NEW c \in Consumers, HandlerStep(c) PROVE FALSE
  BY <1>1, <1>2, <1>4
     DEF HandlerStep, Check, Download, Commit, MarkFailed, Reply, Store, GiveUp, domain
<1>5. ASSUME NEW c \in Consumers, LoopStep(c) PROVE FALSE
  BY <1>2, <1>5
     DEF LoopStep, BeginFetch, FetchEnds, HandBackFetch, OutcomeWritten, TransportStep,
         ClaimFetch, domain
<1>6. ASSUME NEW p \in Procs, HousekeepingStep(p) PROVE FALSE
  BY <1>2, <1>6
     DEF HousekeepingStep, KillWorker, ReapFetches, WorkerStep, PruneJob, domain
<1>7. ASSUME NEW j \in Jobs, JobPasses(j) PROVE FALSE
  BY <1>2, <1>7 DEF JobPasses, domain
<1> QED
  BY <1>3, <1>4, <1>5, <1>6, <1>7, IngestCases DEF FetchesRunThrough

\* A live job stays live, but for an outcome that ends it and for the reaping of
\* its last attempt.
LEMMA LiveKept ==
  ASSUME IngestInv, IngestNext, stalls = 0, NEW j \in Jobs, Live(jobs[j]), ~Live(jobs'[j])
  PROVE  \/ \E c \in Consumers :
              /\ cons[c].pc = "recording" /\ ~cons[c].landed /\ JobOf(c) = j
              /\ cons[c].outcome # "interrupted" /\ ~Retrying(c) /\ UNCHANGED sub
         \/ \E p \in Procs : /\ ReapFetches(p) /\ j \in Lapsed
                              /\ jobs[j].attempts >= MaxAttempts[jobs[j].key]
<1>1. /\ jobs \in [Jobs -> Row] /\ jobs[j] \in Row /\ Consistent(jobs[j])
      /\ QueueInv /\ jobs[j].status \in {"queued", "running"}
  BY DEF IngestInv, QueueInv, TypeOK, RowsConsistent, Live
<1>2. UNCHANGED jobs => FALSE
  OBVIOUS
<1>3. ASSUME NEW i \in Jobs, NEW k, Enqueue(i, k) PROVE FALSE
  BY <1>1, <1>3 DEF Enqueue, SetRow
<1>4. ASSUME NEW i \in Jobs, BackoffElapse(i) \/ LeaseLapse(i) \/ Stall(i) PROVE FALSE
  BY <1>1, <1>4 DEF BackoffElapse, LeaseLapse, Stall, SetRow, Live, Row
<1>5. ASSUME NEW r \in Requests, WebhookStep(r) PROVE FALSE
  BY <1>2, <1>3, <1>5 DEF WebhookStep, Deliver, Accept, AcceptLost, AcceptFails, queue
<1>6. ASSUME NEW o \in Refetchers, OperatorStep(o) PROVE FALSE
  BY <1>2, <1>3, <1>4, <1>6 DEF OperatorStep, Ask, Refetch, RefetchRefused, queue
<1>7. ASSUME NEW c \in Consumers, HandlerStep(c) PROVE FALSE
  BY <1>2, <1>7 DEF HandlerStep, Check, Download, Commit, MarkFailed, Reply, queue
<1>8. ASSUME NEW c \in Consumers, LoopStep(c)
      PROVE  /\ cons[c].pc = "recording" /\ ~cons[c].landed /\ JobOf(c) = j
             /\ cons[c].outcome # "interrupted" /\ ~Retrying(c) /\ UNCHANGED sub
  <2>1. ASSUME NEW i \in Jobs, Claim(c, i) \/ ClaimLost(c, i) PROVE FALSE
    BY <1>1, <2>1, ClaimedRowFacts DEF Claim, ClaimLost, Runnable, SetRow, Live
  <2>2. Heartbeat(c) => FALSE
    BY <1>1 DEF Heartbeat, SetRow, Live, Row
  <2>3. HandBack(c) => FALSE
    <3>1. Busy(c) => JobOf(c) \in Jobs
      BY <1>1 DEF QueueInv, BusyHoldsJob, HoldsJob
    <3> QED
      BY <1>1, <3>1, AfterReleaseFacts DEF HandBack, SetRow, Busy, QueueInv
  <2>4. /\ Record(c) \/ AnswerLost(c)
        /\ UNCHANGED sub
    BY <1>2, <1>8, <2>1, <2>2, <2>3
       DEF LoopStep, BeginFetch, FetchEnds, HandBackFetch, OutcomeWritten, TransportStep,
           ClaimFetch, Begin, HandlerEnds, WriteFails, domain
  <2>5. /\ cons[c].pc = "recording" /\ JobOf(c) \in Jobs
        /\ jobs' = [jobs EXCEPT ![JobOf(c)] = AfterOutcome(c)]
    BY <1>1, <2>4 DEF Record, AnswerLost, SetRow, QueueInv, BusyHoldsJob, HoldsJob, Busy
  <2>6. JobOf(c) = j /\ jobs'[j] = AfterOutcome(c)
    BY <1>1, <2>5
  <2>7. ~cons[c].landed
    BY <1>1, <2>5, <2>6, OutcomeEffect
  <2>8. cons[c].outcome # "interrupted" /\ ~Retrying(c)
    <3>1. AfterOutcome(c).status =
            CASE cons[c].outcome = "ok" -> "succeeded"
              [] cons[c].outcome = "interrupted" -> "queued"
              [] OTHER -> IF Retrying(c) THEN "queued" ELSE "dead"
      BY <1>1, <2>5, <2>7, OutcomeEffect
    <3>2. Retrying(c) => cons[c].outcome = "error"
      BY DEF Retrying, WillRetry
    <3> QED
      BY <2>6, <3>1, <3>2 DEF Live
  <2> QED
    BY <2>4, <2>5, <2>6, <2>7, <2>8
<1>9. ASSUME NEW p \in Procs, HousekeepingStep(p)
      PROVE  /\ ReapFetches(p) /\ j \in Lapsed
             /\ jobs[j].attempts >= MaxAttempts[jobs[j].key]
  <2>1. ASSUME NEW i \in Jobs, Prune(p, i) PROVE FALSE
    BY <1>1, <2>1 DEF Prune, SetRow, Finished
  <2>2. ReapFetches(p) /\ jobs' = ReapedJobs
    BY <1>2, <1>9, <2>1
       DEF HousekeepingStep, KillWorker, ReapFetches, WorkerStep, PruneJob, Reap, Kill,
           Shutdown, Exit, Start
  <2>3. jobs'[j] # jobs[j]
    OBVIOUS
  <2>4. j \in Lapsed
    BY <2>2, <2>3 DEF ReapedJobs
  <2> QED
    BY <1>1, <2>2, <2>3, <2>4, ReapedJobsFacts DEF QueueInv, Live
<1>10. ASSUME NEW i \in Jobs, JobPasses(i) PROVE FALSE
  BY <1>4, <1>10 DEF JobPasses
<1> QED
  BY <1>5, <1>6, <1>7, <1>8, <1>9, <1>10, IngestCases

\* A submission that waits after a step has a job after it.
LEMMA ReceivedKeepsJob ==
  ASSUME FetchesRunThrough, IngestInv, FetchInv, IngestNext, stalls = 0
  PROVE  \A m \in Keys : sub'[m] = "received" => KeyTaken(jobs', m)
<1> SUFFICES ASSUME NEW m \in Keys, sub'[m] = "received" PROVE KeyTaken(jobs', m)
  OBVIOUS
<1>1. CASE sub[m] # "received"
  BY <1>1, NewlyReceived
<1>2. CASE sub[m] = "received"
  <2>1. PICK j \in Jobs : Live(jobs[j]) /\ jobs[j].key = m
    BY <1>2 DEF FetchInv, ReceivedHasJob, HasLiveJob, KeyTaken, IngestInv, QueueInv, TypeOK
  <2>2. [Next]_vars /\ QueueInv /\ QueueInv'
    BY IngestQueueStep, IngestStepInv DEF IngestInv
  <2>3. ASSUME NEW c \in Consumers,
               cons[c].pc = "recording", ~cons[c].landed, JobOf(c) = j,
               cons[c].outcome # "interrupted", ~Retrying(c), UNCHANGED sub
        PROVE  FALSE
    <3>1. cons[c].outcome = "error" /\ ~Last(c, "error", m)
      BY <1>2, <2>1, <2>3 DEF FetchInv, Follows, OutcomeSettles
    <3>2. cons[c].att \in Nat /\ MaxAttempts[m] \in Nat
      BY JobQueueAssumption DEF IngestInv, QueueInv, TypeOK, ConsumerState
    <3>3. jobs[j].status # "absent"
      BY <2>1 DEF Live
    <3> QED
      BY <2>1, <2>3, <3>1, <3>2, <3>3 DEF Retrying, WillRetry, Last
  <2>4. ASSUME NEW p \in Procs, ReapFetches(p), j \in Lapsed,
               jobs[j].attempts >= MaxAttempts[jobs[j].key]
        PROVE  FALSE
    <3>1. PICK broken \in SUBSET Keys :
            /\ "repair" \in Faults \/ broken = {}
            /\ sub' = [k \in Keys |-> IF k \in GivenUp(broken) THEN "failed" ELSE sub[k]]
      BY <2>4 DEF ReapFetches
    <3>2. broken = {}
      BY <3>1 DEF FetchesRunThrough
    <3>3. m \in GivenUp(broken)
      BY <1>2, <2>1, <2>4, <3>2 DEF GivenUp
    <3> QED
      BY <3>1, <3>3
  <2>5. Live(jobs'[j])
    BY <2>1, <2>3, <2>4, LiveKept
  <2>6. jobs'[j].key = m
    BY <2>1, <2>2, <2>5, KeyKept DEF Live
  <2> QED
    BY <2>2, <2>5, <2>6 DEF KeyTaken, QueueInv, TypeOK
<1> QED
  BY <1>1, <1>2

\* A loop that does not move keeps what it knows, whatever the others do: nobody
\* else can set its submission waiting again.
LEMMA FollowsFrame ==
  ASSUME FetchesRunThrough, IngestInv, IngestInv', IngestNext, stalls = 0, stalls' = 0,
         NEW c \in Consumers, Follows(c), cons'[c] = cons[c], fetch'[c] = fetch[c],
         (Busy(c) /\ Stopping(c)) => Stopping(c)'
  PROVE  Follows(c)'
<1> DEFINE m == jobs[JobOf(c)].key
<1>1. [Next]_vars /\ QueueInv /\ QueueInv' /\ HoldsJob(c)
  BY IngestQueueStep DEF IngestInv, QueueInv, BusyHoldsJob
<1>2. CASE ~Busy(c)
  BY <1>2 DEF Busy, Follows, FetchesItsJob, FetchSettles, OutcomeSettles
<1>3. CASE Busy(c) /\ cons[c].landed
  BY <1>1, <1>3 DEF HoldsJob, Follows, FetchesItsJob, FetchSettles, OutcomeSettles, Busy
<1>4. CASE Busy(c) /\ ~cons[c].landed
  <2>1. /\ JobOf(c) \in Jobs /\ JobOf(c)' = JobOf(c)
        /\ KeyTaken(jobs, m) /\ jobs'[JobOf(c)].key = m
    BY <1>1, <1>4, LeaseKeeps
  <2>2. m \in Keys /\ sub[m] # "received" => sub'[m] # "received"
    BY <2>1, NewlyReceived
  <2>3. m \in Keys
    <3>1. PICK j \in DOMAIN jobs : Live(jobs[j]) /\ jobs[j].key = m
      BY <2>1 DEF KeyTaken
    <3> QED
      BY <1>1, <3>1 DEF QueueInv, TypeOK, RowsConsistent, Consistent, Live
  <2> HIDE DEF m
  <2>4. FetchesItsJob(c)'
    BY <1>4, <2>1 DEF Follows, FetchesItsJob, m
  <2>5. FetchSettles(c)'
    <3> SUFFICES ASSUME cons[c].pc = "running"
                 PROVE  /\ fetch[c].at \in {"returned", "reply"} => sub'[m] # "received"
                        /\ fetch[c].at = "threw" =>
                             \/ Stopping(c)' \/ ~Last(c, fetch[c].threw, m)
                             \/ sub'[m] # "received"
      BY DEF FetchSettles, Last, Follows, FetchesItsJob, m
    <3>1. fetch[c].msg = m
      BY DEF Follows, FetchesItsJob, m
    <3> QED
      BY <1>4, <2>2, <2>3, <3>1 DEF Follows, FetchSettles
  <2>6. OutcomeSettles(c)'
    BY <1>4, <2>1, <2>2, <2>3 DEF Follows, OutcomeSettles, Last, m
  <2> QED
    BY <2>4, <2>5, <2>6 DEF Follows
<1> QED
  BY <1>2, <1>3, <1>4

\* The handler's own steps, up to its return or its last throw.
LEMMA HandlerFollows ==
  ASSUME FetchesRunThrough, IngestInv, NEW c \in Consumers, Follows(c), HandlerStep(c),
         stalls = 0
  PROVE  Follows(c)'
<1> DEFINE m == fetch[c].msg
<1>1. /\ cons[c].pc = "running" /\ UNCHANGED queue
      /\ m = jobs[JobOf(c)].key
      /\ fetch \in [Consumers -> Call] /\ fetch[c] \in Call
      /\ sub \in [Keys -> SubStatus] /\ file \in [Keys -> FileStatus]
      /\ JobOf(c) \in Jobs
  BY DEF HandlerStep, Check, Download, Commit, MarkFailed, Reply, At, Follows, FetchesItsJob,
         IngestInv, IngestTypeOK, Call, QueueInv, BusyHoldsJob, HoldsJob, Busy
<1>2. m \in Keys
  BY <1>1 DEF IngestInv, QueueInv, BusyHoldsJob, HoldsJob, Busy, Leased, RowsConsistent,
              Consistent
<1>3. "handler" \notin Faults
  BY DEF FetchesRunThrough
<1>4. /\ UNCHANGED <<jobs, cons, proc>> /\ (Stopping(c)' <=> Stopping(c))
      /\ JobOf(c)' = JobOf(c)
  BY <1>1 DEF queue, Stopping, JobOf
<1>5. SUFFICES /\ fetch'[c].at # "none" /\ fetch'[c].msg = m
               /\ fetch'[c].at \in {"returned", "reply"} => sub'[m] # "received"
               /\ fetch'[c].at = "threw" =>
                    \/ Stopping(c) \/ ~Last(c, fetch'[c].threw, m)
                    \/ sub'[m] # "received"
  BY <1>1, <1>4 DEF Follows, FetchesItsJob, FetchSettles, OutcomeSettles, Last
<1>6. CASE Check(c)
  <2>1. RowsAgree
    BY DEF IngestInv
  <2> QED
    BY <1>1, <1>2, <1>3, <1>6, <2>1 DEF Check, Goto, Call, RowsAgree, domain
<1>7. CASE Download(c)
  <2>1. CASE Goto(c, "commit")
    BY <1>1, <2>1 DEF Goto, Call
  <2>2. ASSUME NEW kind \in {"error", "permanent"}, Throw(c, kind)
        PROVE  /\ fetch'[c].msg = m /\ fetch'[c].threw = kind
               /\ fetch'[c].at = IF ~Stopping(c) /\ Last(c, kind, m) THEN "markFailed" ELSE "threw"
    BY <1>1, <2>2 DEF Throw, Last
  <2> QED
    BY <1>7, <2>1, <2>2 DEF Download
<1>8. CASE Commit(c)
  BY <1>1, <1>2, <1>3, <1>8 DEF Commit, Store, Goto, Call, domain
<1>9. CASE MarkFailed(c)
  BY <1>1, <1>2, <1>3, <1>9 DEF MarkFailed, GiveUp, Goto, Call, domain
<1>10. CASE Reply(c)
  BY <1>1, <1>10 DEF Reply, At, Goto, Call, domain, Follows, FetchSettles
<1> QED
  BY <1>6, <1>7, <1>8, <1>9, <1>10 DEF HandlerStep

\* A loop's other steps: it takes a job, begins, hands its result to the queue,
\* writes it, or gives the job back.
LEMMA LoopFollows ==
  ASSUME FetchesRunThrough, IngestInv, IngestInv', NEW c \in Consumers, Follows(c),
         LoopStep(c), IngestNext, stalls = 0, stalls' = 0
  PROVE  Follows(c)'
<1>1. /\ UNCHANGED <<sub, proc>> /\ (Stopping(c)' <=> Stopping(c))
      /\ cons \in [Consumers -> ConsumerState] /\ jobs \in [Jobs -> Row]
      /\ fetch \in [Consumers -> Call]
  BY DEF LoopStep, BeginFetch, FetchEnds, HandBackFetch, OutcomeWritten, TransportStep,
         ClaimFetch, domain, Claim, ClaimLost, Begin, HandBack, Heartbeat, HandlerEnds, Record,
         WriteFails, AnswerLost, Stopping, IngestInv, QueueInv, TypeOK, IngestTypeOK, Call
<1>2. HoldsJob(c)
  BY DEF IngestInv, QueueInv, BusyHoldsJob
<1>3. ASSUME NEW j \in Jobs, ClaimFetch(c, j) PROVE Follows(c)'
  <2>1. /\ cons'[c] = Holding(j, jobs[j].attempts + 1)
        /\ fetch'[c] = [at |-> "check", msg |-> jobs[j].key, threw |-> "error"]
        /\ jobs'[j] = ClaimedRow(jobs[j], c)
    BY <1>1, <1>3 DEF ClaimFetch, Claim, SetRow, SetCons
  <2>2. jobs'[j].key = jobs[j].key
    BY <1>1, <2>1 DEF ClaimedRow, Row
  <2> QED
    BY <2>1, <2>2
       DEF Follows, FetchesItsJob, FetchSettles, OutcomeSettles, Holding, JobOf
<1>4. CASE BeginFetch(c)
  <2>1. /\ cons'[c] = [cons[c] EXCEPT !.pc = "running"] /\ cons[c].pc = "claimed"
        /\ UNCHANGED <<jobs, fetch>>
    BY <1>1, <1>4 DEF BeginFetch, Begin, SetCons
  <2>2. cons'[c].pc = "running" /\ cons'[c].job = cons[c].job
    BY <1>1, <2>1 DEF ConsumerState
  <2> QED
    BY <2>1, <2>2 DEF Follows, FetchesItsJob, FetchSettles, OutcomeSettles, JobOf
<1>5. CASE FetchEnds(c)
  <2>1. PICK result \in Results :
          /\ \/ fetch[c].at = "returned" /\ result = "ok"
             \/ fetch[c].at = "threw" /\ result = fetch[c].threw
          /\ HandlerEnds(c, result)
    BY <1>1, <1>5 DEF FetchEnds, Call, Results
  <2>2. /\ cons[c].pc = "running" /\ UNCHANGED jobs /\ fetch'[c] = NotRunning
        /\ cons'[c].pc = "recording" /\ cons'[c].job = cons[c].job
        /\ cons'[c].att = cons[c].att
        /\ cons'[c].outcome = IF Stopping(c) /\ result # "ok" THEN "interrupted" ELSE result
    BY <1>1, <1>5, <2>1 DEF FetchEnds, Leave, HandlerEnds, SetCons, ConsumerState
  <2>3. FetchesItsJob(c)' /\ FetchSettles(c)'
    BY <2>2 DEF FetchesItsJob, FetchSettles
  <2>4. fetch[c].msg = jobs[JobOf(c)].key
    BY <2>2 DEF Follows, FetchesItsJob
  <2>5. OutcomeSettles(c)'
    <3>1. CASE result = "ok"
      BY <1>1, <2>1, <2>2, <2>4, <3>1
         DEF Follows, FetchSettles, OutcomeSettles, JobOf, Call
    <3>2. CASE result # "ok" /\ Stopping(c)
      BY <2>2, <3>2 DEF OutcomeSettles
    <3>3. CASE result # "ok" /\ ~Stopping(c)
      <4>1. /\ fetch[c].at = "threw" /\ result = fetch[c].threw
            /\ cons'[c].outcome = result /\ result \in {"error", "permanent"}
        BY <1>1, <2>1, <2>2, <3>3 DEF Call
      <4>2. ~Last(c, result, fetch[c].msg) \/ sub[fetch[c].msg] # "received"
        BY <2>2, <3>3, <4>1 DEF Follows, FetchSettles
      <4> QED
        BY <1>1, <2>2, <2>4, <4>1, <4>2 DEF OutcomeSettles, JobOf, Last
    <3> QED
      BY <3>1, <3>2, <3>3
  <2> QED
    BY <2>3, <2>5 DEF Follows
<1>6. CASE HandBackFetch(c)
  <2>1. cons'[c] = Idle /\ fetch'[c] = NotRunning
    BY <1>1, <1>6 DEF HandBackFetch, HandBack, Leave, SetCons
  <2> QED
    BY <2>1 DEF Idle, Follows, FetchesItsJob, FetchSettles, OutcomeSettles
<1>7. CASE OutcomeWritten(c)
  <2>1. /\ cons[c].pc = "recording" /\ UNCHANGED fetch
        /\ \/ cons'[c] = Idle
           \/ WriteFails(c) /\ cons'[c] = NextTry(c, FALSE)
           \/ AnswerLost(c) /\ cons'[c] = NextTry(c, TRUE)
    BY <1>1, <1>7 DEF OutcomeWritten, Record, WriteFails, AnswerLost, SetCons
  <2>2. fetch'[c] = NotRunning
    BY <2>1 DEF Follows, FetchesItsJob
  <2>3. CASE cons'[c] = Idle
    BY <2>2, <2>3 DEF Idle, Follows, FetchesItsJob, FetchSettles, OutcomeSettles
  <2>4. ASSUME NEW landed \in BOOLEAN, cons'[c] = NextTry(c, landed), cons'[c] # Idle
        PROVE  /\ cons'[c].pc = "recording" /\ cons'[c].job = cons[c].job
               /\ cons'[c].outcome = cons[c].outcome /\ cons'[c].att = cons[c].att
               /\ cons'[c].landed = (cons[c].landed \/ landed)
    BY <1>1, <2>1, <2>4 DEF NextTry, ConsumerState
  <2>5. CASE AnswerLost(c) /\ cons'[c] = NextTry(c, TRUE) /\ cons'[c] # Idle
    BY <2>2, <2>4, <2>5 DEF Follows, FetchesItsJob, FetchSettles, OutcomeSettles
  <2>6. CASE WriteFails(c) /\ cons'[c] = NextTry(c, FALSE) /\ cons'[c] # Idle
    <3>1. UNCHANGED jobs
      BY <2>6 DEF WriteFails
    <3>2. /\ cons'[c].pc = "recording" /\ cons'[c].job = cons[c].job
          /\ cons'[c].outcome = cons[c].outcome /\ cons'[c].att = cons[c].att
          /\ cons'[c].landed = (cons[c].landed \/ FALSE)
      BY <2>4, <2>6
    <3>3. ~cons'[c].landed => ~cons[c].landed
      BY <3>2
    <3>4. OutcomeSettles(c)'
      BY <1>1, <2>1, <3>1, <3>2, <3>3 DEF Follows, OutcomeSettles, JobOf, Last
    <3> QED
      BY <2>2, <3>2, <3>4 DEF Follows, FetchesItsJob, FetchSettles
  <2> QED
    BY <2>1, <2>3, <2>5, <2>6
<1>8. CASE TransportStep(c)
  <2>1. UNCHANGED <<cons, fetch>>
    BY <1>8 DEF TransportStep, ClaimLost, Heartbeat
  <2> QED
    BY <1>1, <2>1, FollowsFrame
<1> QED
  BY <1>3, <1>4, <1>5, <1>6, <1>7, <1>8 DEF LoopStep

\* A killed process's loops fetch nothing; nobody else's is touched.
LEMMA KilledFollows ==
  ASSUME NEW p \in Procs, KillWorker(p), NEW c \in Consumers, ProcOf[c] = p
  PROVE  Follows(c)'
<1>1. cons'[c] = Idle /\ fetch'[c] = NotRunning
  BY DEF KillWorker, Kill, LoopsEnd
<1> QED
  BY <1>1 DEF Idle, Follows, FetchesItsJob, FetchSettles, OutcomeSettles

\* Every step keeps the waiting submissions' jobs, and what the loops know.
LEMMA FetchStepInv ==
  FetchesRunThrough /\ IngestInv /\ IngestInv' /\ FetchInv /\ [IngestNext]_ivars => FetchInv'
<1> SUFFICES ASSUME FetchesRunThrough, IngestInv, IngestInv', FetchInv, [IngestNext]_ivars,
                    stalls' = 0
             PROVE  /\ \A m \in Keys : sub'[m] = "received" => KeyTaken(jobs', m)
                    /\ \A c \in Consumers : Follows(c)'
  BY DEF FetchInv, ReceivedHasJob, HasLiveJob, KeyTaken
<1>1. [Next]_vars /\ TypeOK /\ stalls = 0
  BY IngestQueueStep, StallsStay DEF IngestInv, QueueInv
<1>2. CASE UNCHANGED ivars
  BY <1>1, <1>2
     DEF ivars, FetchInv, ReceivedHasJob, HasLiveJob, KeyTaken, Follows, FetchesItsJob,
         FetchSettles, OutcomeSettles, JobOf, Last, Stopping
<1>3. CASE IngestNext
  <2>1. \A m \in Keys : sub'[m] = "received" => KeyTaken(jobs', m)
    BY <1>1, <1>3, ReceivedKeepsJob
  <2>2. ASSUME NEW c \in Consumers PROVE Follows(c)'
    <3>1. Follows(c)
      BY <1>1 DEF FetchInv
    <3>2. (cons'[c] = cons[c] /\ fetch'[c] = fetch[c]) => Follows(c)'
      BY <1>1, <1>3, <3>1, FollowsFrame, StoppingStays
    <3>3. CASE HandlerStep(c)
      BY <1>1, <3>1, <3>3, HandlerFollows
    <3>4. CASE LoopStep(c)
      BY <1>1, <1>3, <3>1, <3>4, LoopFollows
    <3>5. ASSUME NEW d \in Consumers, d # c, HandlerStep(d) \/ LoopStep(d)
          PROVE  cons'[c] = cons[c] /\ fetch'[c] = fetch[c]
      <4>1. cons \in [Consumers -> ConsumerState] /\ fetch \in [Consumers -> Call]
        BY DEF IngestInv, QueueInv, TypeOK, IngestTypeOK, Call
      <4>2. cons'[c] = cons[c]
        BY <3>5, <4>1
           DEF HandlerStep, Check, Download, Commit, MarkFailed, Reply, queue, LoopStep,
               BeginFetch, FetchEnds, HandBackFetch, OutcomeWritten, TransportStep, ClaimFetch,
               Claim, ClaimLost, Begin, HandBack, Heartbeat, HandlerEnds, Record, WriteFails,
               AnswerLost, SetCons
      <4>3. fetch'[c] = fetch[c]
        BY <3>5, <4>1
           DEF HandlerStep, Check, Download, Commit, MarkFailed, Reply, Goto, Throw, LoopStep,
               BeginFetch, FetchEnds, HandBackFetch, OutcomeWritten, TransportStep, ClaimFetch,
               Leave
      <4> QED
        BY <4>2, <4>3
    <3>6. ASSUME NEW p \in Procs, HousekeepingStep(p) PROVE Follows(c)'
      <4>1. CASE KillWorker(p) /\ ProcOf[c] = p
        BY <4>1, KilledFollows
      <4>2. CASE ~(KillWorker(p) /\ ProcOf[c] = p)
        <5>1. cons'[c] = cons[c] /\ fetch'[c] = fetch[c]
          BY <3>6, <4>2
             DEF HousekeepingStep, KillWorker, ReapFetches, WorkerStep, PruneJob, Kill, LoopsEnd,
                 Reap, Prune, Shutdown, Exit, Start
        <5> QED
          BY <3>2, <5>1
      <4> QED
        BY <4>1, <4>2
    <3>7. ASSUME NEW r \in Requests, WebhookStep(r)
          PROVE  cons'[c] = cons[c] /\ fetch'[c] = fetch[c]
      BY <3>7 DEF WebhookStep, Deliver, Accept, AcceptLost, AcceptFails, Enqueue, queue
    <3>8. ASSUME NEW j \in Jobs, JobPasses(j)
          PROVE  cons'[c] = cons[c] /\ fetch'[c] = fetch[c]
      BY <3>8 DEF JobPasses, BackoffElapse, LeaseLapse, Stall
    <3> QED
      BY <1>3, <3>2, <3>3, <3>4, <3>5, <3>6, <3>7, <3>8, IngestCases DEF FetchesRunThrough
  <2> QED
    BY <2>1, <2>2
<1> QED
  BY <1>2, <1>3

\* At the start nothing waits.
LEMMA FetchInitInv == IngestInit => FetchInv
  BY DEF IngestInit, Init, FetchInv, ReceivedHasJob, Follows, FetchesItsJob, FetchSettles,
         OutcomeSettles, Idle

\* While workers keep their leases and the fetch's statements succeed, no video
\* waits for bytes that nobody is fetching, through redeliveries, lost answers,
\* kills, shutdowns, retries and failed writes of the queue's outcomes.
THEOREM ReceivedAlwaysHasJob ==
  ASSUME FetchesRunThrough
  PROVE  IngestSpec => []ReceivedHasJob
<1>1. FetchInv => ReceivedHasJob
  BY DEF FetchInv
<1>2. IngestInv /\ IngestInv' /\ FetchInv /\ [IngestNext]_ivars => FetchInv'
  BY FetchStepInv
<1> QED
  BY <1>1, <1>2, FetchInitInv, IngestInvariance, PTL DEF IngestSpec
=============================================================================
