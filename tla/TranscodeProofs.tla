-------------------------- MODULE TranscodeProofs --------------------------
(***************************************************************************)
(* Proofs about TranscodePipeline, for any number of submissions, jobs,    *)
(* loops, processes and operators.  Every step's queue part is a step of   *)
(* JobQueue, so what is proved of the queue holds here.  PipelineInv is    *)
(* the inductive invariant of the rows, whatever fails; PromisesInv that   *)
(* of the promises made while no statement fails.                          *)
(***************************************************************************)
EXTENDS TranscodePipeline, JobQueueProofs, FiniteSetTheorems

ProducerStep == \E j \in Jobs, s \in Keys : Finalize(j, s) \/ Resend(j, s)

OpensVerb(a) ==
  \E s \in Keys, verb \in {"retry", "drop"} :
    \E i \in DOMAIN ledger[s] : OpenVerb(a, verb, s, i)

OperatorStep(a) ==
  OpensVerb(a) \/ Refuse(a) \/ Drop(a) \/ \E j \in Jobs : Retry(a, j)

\* The steps of a loop that are the queue's own.
LoopStep(c) ==
  \/ TransportStep(c) \/ HandBackVideo(c) \/ TranscodeEnds(c)
  \/ \E j \in Jobs : ClaimVideo(c, j)

\* The steps of a process that repair nothing.
ProcessStep(p) ==
  KillWorker(p) \/ WorkerStep(p) \/ \E j \in Jobs : PruneJob(p, j)

\* A step is one of these.
LEMMA PipelineCases ==
  ASSUME PipelineNext
  PROVE  \/ ProducerStep
         \/ \E a \in Admins : OperatorStep(a)
         \/ \E c \in Consumers : HandlerStep(c) \/ LoopStep(c)
         \/ \E p \in Procs : ReapTranscodes(p) \/ RepairStranded(p) \/ ProcessStep(p)
         \/ \E j \in Jobs : JobPasses(j)
  BY DEF PipelineNext, ProducerStep, OpensVerb, OperatorStep, LoopStep, ProcessStep
-----------------------------------------------------------------------------
(***************************************************************************)
(* The queue's part of a step.                                             *)
(***************************************************************************)

\* The handler's statements leave the queue and the requests alone.
LEMMA HandlerLeavesQueue ==
  ASSUME NEW c \in Consumers, HandlerStep(c)
  PROVE  cons[c].pc = "running" /\ UNCHANGED <<queue, operators>>
  BY DEF HandlerStep, Check, CloseRunning, OpenRow, Announce, Work, Publish, MarkSucceeded,
         CancelRow, Requeue, FailRow, FailVideo, Statement, Attempted, At

\* Each kind of step is a step of the queue, or leaves it.
LEMMA PipelineQueueStep == PipelineTypeOK /\ [PipelineNext]_pvars => [Next]_vars
<1> SUFFICES ASSUME PipelineTypeOK, [PipelineNext]_pvars PROVE [Next]_vars
  OBVIOUS
<1>1. UNCHANGED queue => [Next]_vars
  BY DEF queue, vars
<1>2. ASSUME NEW j \in Jobs, NEW k \in Keys, Enqueue(j, k) PROVE [Next]_vars
  BY <1>2 DEF Next, TimelyNext, JobStep
<1>3. CASE ProducerStep
  BY <1>1, <1>2, <1>3 DEF ProducerStep, Finalize, Resend
<1>4. ASSUME NEW a \in Admins, OperatorStep(a) PROVE [Next]_vars
  <2>1. \/ UNCHANGED queue
        \/ Drop(a) /\ Withdraw(admin[a].sub)
        \/ \E j \in Jobs : Retry(a, j)
    BY <1>4 DEF OperatorStep, OpensVerb, OpenVerb, Refuse, Drop
  <2>2. admin[a].verb \in {"retry", "drop"} => admin[a].sub \in Keys
    BY DEF PipelineTypeOK, NoRequest
  <2> QED
    BY <1>1, <1>2, <2>1, <2>2 DEF Drop, Retry, Next, TimelyNext
<1>5. ASSUME NEW c \in Consumers, HandlerStep(c) PROVE [Next]_vars
  BY <1>1, <1>5, HandlerLeavesQueue
<1>6. ASSUME NEW c \in Consumers, LoopStep(c) PROVE [Next]_vars
  <2>1. ConsumerStep(c) => [Next]_vars
    BY DEF Next, TimelyNext
  <2>2. TranscodeEnds(c) => ConsumerStep(c)
    <3>1. run[c].threw \in Results /\ "ok" \in Results
      BY DEF PipelineTypeOK, NotRunning, Results
    <3> QED
      BY <3>1 DEF TranscodeEnds, ConsumerStep
  <2>3. TransportStep(c) \/ HandBackVideo(c) => ConsumerStep(c)
    BY DEF TransportStep, HandBackVideo, ConsumerStep
  <2>4. (\E j \in Jobs : ClaimVideo(c, j)) => ConsumerStep(c)
    BY DEF ClaimVideo, ConsumerStep
  <2> QED
    BY <1>6, <2>1, <2>2, <2>3, <2>4 DEF LoopStep
<1>7. ASSUME NEW p \in Procs, ReapTranscodes(p) \/ RepairStranded(p) \/ ProcessStep(p)
      PROVE  [Next]_vars
  <2>1. ProcStep(p) => [Next]_vars
    BY DEF Next, TimelyNext
  <2> QED
    BY <1>1, <1>7, <2>1
       DEF ReapTranscodes, RepairStranded, ProcessStep, KillWorker, WorkerStep, PruneJob, ProcStep
<1>8. ASSUME NEW j \in Jobs, JobPasses(j) PROVE [Next]_vars
  BY <1>8 DEF JobPasses, Next, TimelyNext, JobStep
<1>9. UNCHANGED pvars => [Next]_vars
  BY DEF pvars, vars
<1> QED
  BY <1>3, <1>4, <1>5, <1>6, <1>7, <1>8, <1>9, PipelineCases
-----------------------------------------------------------------------------
(***************************************************************************)
(* The rows of transcode_jobs.                                             *)
(***************************************************************************)

RunningIn(rows) == {i \in DOMAIN rows : rows[i] = "running"}

\* What every statement but Drop's does to a submission's attempts: none is
\* deleted or dropped, and one is added at most.
RowsKept(old, new) ==
  /\ new \in Seq(AttemptStatus)
  /\ Len(new) = Len(old) \/ (Len(new) = Len(old) + 1 /\ new[Len(new)] # "dropped")
  /\ \A i \in 1..Len(old) : new[i] = "dropped" => old[i] = "dropped"

\* What every statement but the handler's INSERT does: no attempt starts.
NoneStarts(old, new) == RunningIn(new) \subseteq RunningIn(old)

\* closeRunningAttempts() leaves no attempt running.
LEMMA ClosedFacts ==
  ASSUME NEW rows \in Seq(AttemptStatus)
  PROVE  /\ RowsKept(rows, Closed(rows)) /\ NoneStarts(rows, Closed(rows))
         /\ RunningIn(Closed(rows)) = {}
<1>1. /\ \A i \in 1..Len(rows) : rows[i] \in AttemptStatus
      /\ DOMAIN rows = 1..Len(rows) /\ Len(rows) \in Nat
  OBVIOUS
<1>2. Closed(rows) = [i \in 1..Len(rows) |-> IF rows[i] = "running" THEN "failed" ELSE rows[i]]
  BY <1>1 DEF Closed
<1>3. Closed(rows) \in Seq(AttemptStatus) /\ Len(Closed(rows)) = Len(rows)
  <2>1. "failed" \in AttemptStatus
    BY DEF AttemptStatus
  <2> QED
    BY <1>1, <1>2, <2>1
<1> QED
  BY <1>1, <1>2, <1>3 DEF RowsKept, NoneStarts, RunningIn

\* A row is added at the end.
LEMMA AppendFacts ==
  ASSUME NEW rows \in Seq(AttemptStatus), NEW x \in AttemptStatus \ {"dropped"}
  PROVE  /\ RowsKept(rows, Append(rows, x))
         /\ x # "running" => NoneStarts(rows, Append(rows, x))
         /\ RunningIn(rows) = {} /\ x = "running"
              => RunningIn(Append(rows, x)) = {Len(rows) + 1}
<1> DEFINE new == Append(rows, x)
<1>1. /\ new \in Seq(AttemptStatus) /\ Len(new) = Len(rows) + 1 /\ Len(rows) \in Nat
      /\ new[Len(rows) + 1] = x /\ \A i \in 1..Len(rows) : new[i] = rows[i]
      /\ DOMAIN new = 1..(Len(rows) + 1) /\ DOMAIN rows = 1..Len(rows)
  OBVIOUS
<1> HIDE DEF new
<1>2. RowsKept(rows, new)
  BY <1>1 DEF RowsKept
<1>3. ASSUME NEW i \in RunningIn(new) PROVE i \in RunningIn(rows) \/ (i = Len(rows) + 1 /\ x = "running")
  BY <1>1 DEF RunningIn
<1>4. x = "running" => Len(rows) + 1 \in RunningIn(new)
  BY <1>1 DEF RunningIn
<1> QED
  BY <1>2, <1>3, <1>4 DEF NoneStarts, new

\* A row's status is written, other than as running.
LEMMA WriteFacts ==
  ASSUME NEW rows \in Seq(AttemptStatus), NEW i, NEW x,
         i \in DOMAIN rows => x \in AttemptStatus \ {"running"},
         NEW new, new = [rows EXCEPT ![i] = x]
  PROVE  /\ new \in Seq(AttemptStatus) /\ Len(new) = Len(rows)
         /\ NoneStarts(rows, new)
         /\ \A k \in 1..Len(rows) : new[k] = IF k = i THEN x ELSE rows[k]
         /\ (i \in DOMAIN rows /\ x = "dropped" => rows[i] = "dropped") => RowsKept(rows, new)
<1>1. /\ \A k \in 1..Len(rows) : rows[k] \in AttemptStatus
      /\ DOMAIN rows = 1..Len(rows) /\ Len(rows) \in Nat
  OBVIOUS
<1>2. new = [k \in 1..Len(rows) |-> IF k = i THEN x ELSE rows[k]]
  BY <1>1
<1>3. \A k \in 1..Len(rows) : new[k] = IF k = i THEN x ELSE rows[k]
  BY <1>2
<1>4. new \in Seq(AttemptStatus) /\ Len(new) = Len(rows) /\ DOMAIN new = 1..Len(rows)
  <2>1. \A k \in 1..Len(rows) : (IF k = i THEN x ELSE rows[k]) \in AttemptStatus
    BY <1>1
  <2>2. new \in [1..Len(rows) -> AttemptStatus]
    BY <1>2, <2>1
  <2> QED
    BY <1>1, <2>2
<1>5. NoneStarts(rows, new)
  BY <1>1, <1>3, <1>4 DEF NoneStarts, RunningIn
<1>6. (i \in DOMAIN rows /\ x = "dropped" => rows[i] = "dropped") => RowsKept(rows, new)
  BY <1>1, <1>3, <1>4 DEF RowsKept
<1> QED
  BY <1>3, <1>4, <1>5, <1>6

\* Rows that are left alone.
LEMMA SameFacts ==
  ASSUME NEW rows \in Seq(AttemptStatus)
  PROVE  RowsKept(rows, rows) /\ NoneStarts(rows, rows)
  BY DEF RowsKept, NoneStarts
-----------------------------------------------------------------------------
(***************************************************************************)
(* What a step may do to a submission's rows.                              *)
(***************************************************************************)

Video == [status : VideoStatus, hls : BOOLEAN]

RowTypes == video \in [Keys -> Video] /\ ledger \in [Keys -> Seq(AttemptStatus)]

\* Only publishing makes a video ready, and only announcing a new attempt takes
\* that away; and nothing is received twice.
VideoMoves(k) ==
  /\ video'[k].status = "ready" =>
       \/ video'[k].hls
       \/ video[k].status = "ready" /\ video'[k].hls = video[k].hls
  /\ video[k].status = "ready" =>
       video'[k].status = "ready" \/ \E c \in Consumers : At(c, "announce") /\ run[c].sub = k
  /\ video'[k].status = "received" => video[k].status = "received"

\* An attempt starts when a handler opens it; only Drop drops one.
RowsMove(k) ==
  /\ \/ NoneStarts(ledger[k], ledger'[k])
     \/ \E c \in Consumers :
          At(c, "open") /\ run[c].sub = k /\ ledger'[k] = Append(ledger[k], "running")
  /\ \/ RowsKept(ledger[k], ledger'[k])
     \/ \E a \in Admins : Drop(a) /\ admin[a].sub = k

AllMove == RowTypes' /\ \A k \in Keys : VideoMoves(k) /\ RowsMove(k)

\* The status alone is written.
LEMMA StatusFacts ==
  ASSUME RowTypes, NEW s, NEW x, s \in Keys => x \in VideoStatus,
         video' = [video EXCEPT ![s].status = x]
  PROVE  /\ video' \in [Keys -> Video]
         /\ \A k \in Keys : /\ video'[k].status = IF k = s THEN x ELSE video[k].status
                            /\ video'[k].hls = video[k].hls
                            /\ k # s => video'[k] = video[k]
<1>1. video \in [Keys -> Video]
  BY DEF RowTypes
<1>2. s \in Keys => [video[s] EXCEPT !.status = x] \in Video
  BY <1>1 DEF Video
<1>3. video' \in [Keys -> Video]
  BY <1>1, <1>2
<1>4. ASSUME NEW k \in Keys
      PROVE  /\ video'[k].status = IF k = s THEN x ELSE video[k].status
             /\ video'[k].hls = video[k].hls
             /\ k # s => video'[k] = video[k]
  BY <1>1 DEF Video
<1> QED
  BY <1>3, <1>4

\* Nothing is written.
LEMMA StillFacts ==
  ASSUME RowTypes, UNCHANGED domain
  PROVE  AllMove
  BY SameFacts DEF RowTypes, AllMove, VideoMoves, RowsMove, domain

\* The statements of the handler that write transcode_jobs.
LEMMA LedgerWrites ==
  ASSUME RowTypes, NEW s, UNCHANGED video, NEW rows,
         ledger' = [ledger EXCEPT ![s] = rows],
         s \in Keys => /\ RowsKept(ledger[s], rows)
                       /\ \/ NoneStarts(ledger[s], rows)
                          \/ /\ rows = Append(ledger[s], "running")
                             /\ \E c \in Consumers : At(c, "open") /\ run[c].sub = s
  PROVE  AllMove
<1>1. /\ video' \in [Keys -> Video] /\ ledger \in [Keys -> Seq(AttemptStatus)]
      /\ \A k \in Keys : video'[k] = video[k]
  BY DEF RowTypes
<1>2. s \in Keys => rows \in Seq(AttemptStatus)
  BY DEF RowsKept
<1>3. ledger' \in [Keys -> Seq(AttemptStatus)]
  BY <1>1, <1>2
<1>4. ASSUME NEW k \in Keys PROVE RowsMove(k)
  <2>1. CASE k # s
    BY <1>1, <2>1, SameFacts DEF RowsMove
  <2>2. CASE k = s
    BY <1>1, <2>2 DEF RowsMove
  <2> QED
    BY <2>1, <2>2
<1> QED
  BY <1>1, <1>3, <1>4 DEF AllMove, RowTypes, VideoMoves

\* The statements that write the status of one video.
LEMMA VideoWrites ==
  ASSUME RowTypes, NEW s, UNCHANGED ledger, NEW x,
         s \in Keys => /\ x \in VideoStatus \ {"received"}
                       /\ x = "ready" => video[s].status = "ready"
                       /\ video[s].status = "ready" /\ x # "ready" =>
                            \E c \in Consumers : At(c, "announce") /\ run[c].sub = s,
         video' = [video EXCEPT ![s].status = x]
  PROVE  AllMove
<1>1. ledger' \in [Keys -> Seq(AttemptStatus)] /\ \A k \in Keys : RowsMove(k)
  BY SameFacts DEF RowTypes, RowsMove
<1>2. /\ video' \in [Keys -> Video]
      /\ \A k \in Keys : /\ video'[k].status = IF k = s THEN x ELSE video[k].status
                         /\ video'[k].hls = video[k].hls
                         /\ k # s => video'[k] = video[k]
  BY StatusFacts
<1> QED
  BY <1>1, <1>2 DEF AllMove, RowTypes, VideoMoves

\* The handler's statements, one by one.
LEMMA HandlerMoves ==
  ASSUME RowTypes, NEW c \in Consumers, HandlerStep(c)
  PROVE  AllMove
<1> DEFINE s == run[c].sub
<1>1. /\ s \in Keys => ledger[s] \in Seq(AttemptStatus)
      /\ {"transcoding", "queued", "failed", "ready"} \subseteq VideoStatus \ {"received"}
      /\ {"running", "succeeded", "failed", "cancelled"} \subseteq AttemptStatus \ {"dropped"}
  BY DEF RowTypes, VideoStatus, AttemptStatus
<1>2. UNCHANGED domain => AllMove
  BY StillFacts
<1>3. ASSUME NEW i, NEW x, UNCHANGED video, ledger' = [ledger EXCEPT ![s][i] = x],
             (s \in Keys /\ i \in DOMAIN ledger[s]) =>
                /\ x \in AttemptStatus \ {"running"}
                /\ x = "dropped" => ledger[s][i] = "dropped"
      PROVE  AllMove
  <2> DEFINE rows == [ledger[s] EXCEPT ![i] = x]
  <2>1. ledger' = [ledger EXCEPT ![s] = rows] /\ rows = [ledger[s] EXCEPT ![i] = x]
    BY <1>3
  <2> HIDE DEF rows
  <2>2. ASSUME s \in Keys PROVE RowsKept(ledger[s], rows) /\ NoneStarts(ledger[s], rows)
    <3>1. /\ ledger[s] \in Seq(AttemptStatus)
          /\ i \in DOMAIN ledger[s] => x \in AttemptStatus \ {"running"}
          /\ i \in DOMAIN ledger[s] /\ x = "dropped" => ledger[s][i] = "dropped"
      BY <1>1, <1>3, <2>2
    <3> QED
      BY <2>1, <3>1, WriteFacts
  <2> QED
    BY <1>3, <2>1, <2>2, LedgerWrites
<1>4. ASSUME UNCHANGED video, ledger' = [ledger EXCEPT ![s] = Closed(@)]
      PROVE  AllMove
  <2>1. s \in Keys => RowsKept(ledger[s], Closed(ledger[s])) /\ NoneStarts(ledger[s], Closed(ledger[s]))
    BY <1>1, ClosedFacts
  <2>2. ledger' = [ledger EXCEPT ![s] = Closed(ledger[s])]
    BY <1>4
  <2> QED
    BY <1>4, <2>1, <2>2, LedgerWrites
<1>5. ASSUME UNCHANGED video, At(c, "open"), ledger' = [ledger EXCEPT ![s] = Append(@, "running")]
      PROVE  AllMove
  <2>1. s \in Keys => RowsKept(ledger[s], Append(ledger[s], "running"))
    BY <1>1, AppendFacts
  <2>2. ledger' = [ledger EXCEPT ![s] = Append(ledger[s], "running")]
    BY <1>5
  <2> QED
    BY <1>5, <2>1, <2>2, LedgerWrites
<1>6. CASE Check(c) \/ Work(c)
  BY <1>2, <1>6 DEF Check, Work
<1>7. CASE CloseRunning(c)
  BY <1>2, <1>4, <1>7 DEF CloseRunning, Statement
<1>8. CASE OpenRow(c)
  BY <1>2, <1>5, <1>8 DEF OpenRow, domain
<1>9. CASE Announce(c)
  <2>1. At(c, "announce")
    BY <1>9 DEF Announce, Statement
  <2>2. UNCHANGED domain \/ (UNCHANGED ledger /\ video' = [video EXCEPT ![s].status = "transcoding"])
    BY <1>9 DEF Announce, Statement, SetStatus
  <2> QED
    BY <1>1, <1>2, <2>1, <2>2, VideoWrites
<1>10. CASE Publish(c)
  <2>1. CASE UNCHANGED domain
    BY <1>2, <2>1
  <2>2. CASE UNCHANGED ledger /\ video' = [video EXCEPT ![s] = [status |-> "ready", hls |-> TRUE]]
    <3>1. /\ video \in [Keys -> Video] /\ [status |-> "ready", hls |-> TRUE] \in Video
          /\ ledger' \in [Keys -> Seq(AttemptStatus)]
      BY <1>1, <2>2 DEF RowTypes, Video
    <3>2. video' \in [Keys -> Video] /\ \A k \in Keys : VideoMoves(k)
      BY <2>2, <3>1 DEF VideoMoves
    <3>3. \A k \in Keys : RowsMove(k)
      BY <2>2, SameFacts DEF RowTypes, RowsMove
    <3> QED
      BY <3>1, <3>2, <3>3 DEF AllMove, RowTypes
  <2> QED
    BY <1>10, <2>1, <2>2 DEF Publish, Statement
<1>11. CASE MarkSucceeded(c)
  BY <1>1, <1>2, <1>3, <1>11 DEF MarkSucceeded, Statement
<1>12. CASE CancelRow(c)
  <2>1. CASE UNCHANGED domain
    BY <1>2, <2>1
  <2>2. CASE UNCHANGED video /\ ledger' = [ledger EXCEPT ![s][run[c].mine] =
                                  IF @ = "running" THEN "cancelled" ELSE @]
    <3> DEFINE x == IF ledger[s][run[c].mine] = "running" THEN "cancelled"
                    ELSE ledger[s][run[c].mine]
    <3>1. ledger' = [ledger EXCEPT ![s][run[c].mine] = x]
      BY <2>2
    <3>2. (s \in Keys /\ run[c].mine \in DOMAIN ledger[s]) =>
             /\ x \in AttemptStatus \ {"running"}
             /\ x = "dropped" => ledger[s][run[c].mine] = "dropped"
      <4> SUFFICES ASSUME s \in Keys, run[c].mine \in DOMAIN ledger[s]
                   PROVE  /\ x \in AttemptStatus \ {"running"}
                          /\ x = "dropped" => ledger[s][run[c].mine] = "dropped"
        OBVIOUS
      <4>1. ledger[s][run[c].mine] \in AttemptStatus
        BY <1>1
      <4> QED
        BY <1>1, <4>1
    <3> HIDE DEF x
    <3> QED
      BY <1>3, <2>2, <3>1, <3>2
  <2> QED
    BY <1>12, <2>1, <2>2 DEF CancelRow, Attempted
<1>13. CASE Requeue(c)
  <2>1. CASE UNCHANGED domain
    BY <1>2, <2>1
  <2>2. CASE UNCHANGED ledger /\ video' = [video EXCEPT ![s].status =
                                 IF @ = "transcoding" THEN "queued" ELSE @]
    <3> DEFINE x == IF video[s].status = "transcoding" THEN "queued" ELSE video[s].status
    <3>1. video' = [video EXCEPT ![s].status = x]
      BY <2>2
    <3>2. CASE s \in Keys /\ video[s].status = "received"
      <4>1. x = video[s].status /\ video \in [Keys -> Video]
        BY <3>2 DEF RowTypes
      <4>2. video' = video
        BY <3>1, <4>1 DEF Video
      <4> QED
        BY <1>2, <2>2, <4>2 DEF domain
    <3>3. CASE ~(s \in Keys /\ video[s].status = "received")
      <4>1. s \in Keys => /\ x \in VideoStatus \ {"received"}
                          /\ x = "ready" => video[s].status = "ready"
                          /\ video[s].status = "ready" => x = "ready"
        BY <1>1, <3>3 DEF RowTypes, Video
      <4> HIDE DEF x
      <4> QED
        BY <2>2, <3>1, <4>1, VideoWrites
    <3> QED
      BY <3>2, <3>3
  <2> QED
    BY <1>13, <2>1, <2>2 DEF Requeue, Attempted
<1>14. CASE FailRow(c)
  BY <1>1, <1>2, <1>3, <1>14 DEF FailRow, Attempted
<1>15. CASE FailVideo(c)
  <2>1. CASE UNCHANGED domain
    BY <1>2, <2>1
  <2>2. CASE UNCHANGED ledger /\ video' = [video EXCEPT ![s].status =
               IF @ = "ready" THEN @ ELSE IF FinalAttempt(c) THEN "failed" ELSE "queued"]
    <3> DEFINE x == IF video[s].status = "ready" THEN video[s].status
                    ELSE IF FinalAttempt(c) THEN "failed" ELSE "queued"
    <3>1. video' = [video EXCEPT ![s].status = x]
      BY <2>2
    <3>2. s \in Keys => /\ x \in VideoStatus \ {"received"}
                        /\ x = "ready" => video[s].status = "ready"
                        /\ video[s].status = "ready" => x = "ready"
      BY <1>1
    <3> HIDE DEF x
    <3>3. s \in Keys => /\ x \in VideoStatus \ {"received"}
                        /\ x = "ready" => video[s].status = "ready"
                        /\ video[s].status = "ready" /\ x # "ready" =>
                             \E d \in Consumers : At(d, "announce") /\ run[d].sub = s
      BY <3>2
    <3>4. UNCHANGED ledger
      BY <2>2
    <3> QED
      BY <3>1, <3>3, <3>4, VideoWrites
  <2> QED
    BY <1>15, <2>1, <2>2 DEF FailVideo, Attempted
<1> QED
  BY <1>6, <1>7, <1>8, <1>9, <1>10, <1>11, <1>12, <1>13, <1>14, <1>15 DEF HandlerStep

\* A producer or an operator's Retry queues a video that is not ready; Drop fails it
\* and marks its row.
LEMMA RequestMoves ==
  ASSUME PipelineTypeOK, RowTypes, ProducerStep \/ \E a \in Admins : OperatorStep(a)
  PROVE  AllMove
<1>1. /\ {"queued", "failed"} \subseteq VideoStatus \ {"received"}
      /\ "dropped" \in AttemptStatus \ {"running"}
  BY DEF VideoStatus, AttemptStatus
<1>2. ASSUME NEW s, UNCHANGED ledger, SetStatus(s, "queued"),
             s \in Keys => video[s].status # "ready"
      PROVE  AllMove
  BY <1>1, <1>2, VideoWrites DEF SetStatus
<1>3. CASE ProducerStep
  BY <1>2, <1>3 DEF ProducerStep, Finalize, Resend
<1>4. ASSUME NEW a \in Admins, NEW j \in Jobs, Retry(a, j) PROVE AllMove
  BY <1>2, <1>4 DEF Retry, RetryAllowed
<1>5. ASSUME NEW a \in Admins, Drop(a) PROVE AllMove
  <2> DEFINE s == admin[a].sub
             i == admin[a].row
             rows == [ledger[s] EXCEPT ![i] = "dropped"]
  <2>1. /\ s \in Keys /\ video[s].status # "ready"
        /\ ledger' = [ledger EXCEPT ![s] = rows]
        /\ video' = [video EXCEPT ![s].status = "failed"]
    BY <1>5 DEF Drop, DropAllowed, SetStatus, PipelineTypeOK, NoRequest
  <2>2. rows \in Seq(AttemptStatus) /\ NoneStarts(ledger[s], rows)
    <3>1. rows = [ledger[s] EXCEPT ![i] = "dropped"] /\ ledger[s] \in Seq(AttemptStatus)
      BY <2>1 DEF RowTypes
    <3> HIDE DEF rows, s, i
    <3>2. ASSUME NEW x, x = "dropped"
          PROVE  rows \in Seq(AttemptStatus) /\ NoneStarts(ledger[s], rows)
      <4>1. /\ rows = [ledger[s] EXCEPT ![i] = x] /\ ledger[s] \in Seq(AttemptStatus)
            /\ i \in DOMAIN ledger[s] => x \in AttemptStatus \ {"running"}
        BY <1>1, <3>1, <3>2
      <4> QED
        BY <4>1, WriteFacts
    <3> QED
      BY <3>2
  <2>3. /\ video' \in [Keys -> Video]
        /\ \A k \in Keys : /\ video'[k].status = IF k = s THEN "failed" ELSE video[k].status
                           /\ video'[k].hls = video[k].hls
                           /\ k # s => video'[k] = video[k]
    BY <1>1, <2>1, StatusFacts
  <2> HIDE DEF rows
  <2>4. ledger' \in [Keys -> Seq(AttemptStatus)]
    BY <2>1, <2>2 DEF RowTypes
  <2>5. ASSUME NEW k \in Keys PROVE RowsMove(k)
    <3>1. CASE k = s
      BY <1>5, <2>1, <2>2, <3>1 DEF RowsMove, RowTypes
    <3>2. CASE k # s
      BY <2>1, <3>2, SameFacts DEF RowsMove, RowTypes
    <3> QED
      BY <3>1, <3>2
  <2> QED
    BY <2>1, <2>3, <2>4, <2>5 DEF AllMove, RowTypes, VideoMoves
<1>6. ASSUME NEW a \in Admins, OpensVerb(a) \/ Refuse(a) PROVE AllMove
  BY <1>6, StillFacts DEF OpensVerb, OpenVerb, Refuse
<1> QED
  BY <1>3, <1>4, <1>5, <1>6 DEF OperatorStep

\* Where a transcode's call and a request may be, and with what.
Call == {NotRunning} \cup
        [at : Steps, sub : Keys, mine : Nat, threw : {"error", "permanent"}]

Request == {NoRequest} \cup [verb : {"retry", "drop"}, sub : Keys, row : Nat]

\* The reaper's repair closes attempts and moves a video on; so does the repair of
\* what was stranded, which records a failed attempt where there is none.
LEMMA RepairMoves ==
  ASSUME RowTypes, NEW p \in Procs, ReapTranscodes(p) \/ RepairStranded(p)
  PROVE  AllMove
<1>1. /\ video \in [Keys -> Video] /\ ledger \in [Keys -> Seq(AttemptStatus)]
      /\ {"queued", "failed"} \subseteq VideoStatus \ {"received"}
      /\ "failed" \in AttemptStatus \ {"dropped", "running"}
  BY DEF RowTypes, VideoStatus, AttemptStatus
<1>2. ASSUME NEW k \in Keys
      PROVE  /\ RowsKept(ledger[k], ledger[k]) /\ NoneStarts(ledger[k], ledger[k])
             /\ RowsKept(ledger[k], Closed(ledger[k]))
             /\ NoneStarts(ledger[k], Closed(ledger[k]))
             /\ RowsKept(ledger[k], Append(ledger[k], "failed"))
             /\ NoneStarts(ledger[k], Append(ledger[k], "failed"))
  <2>1. ledger[k] \in Seq(AttemptStatus)
    BY <1>1
  <2>2. /\ RowsKept(ledger[k], Append(ledger[k], "failed"))
        /\ NoneStarts(ledger[k], Append(ledger[k], "failed"))
    BY <1>1, <2>1, AppendFacts
  <2> QED
    BY <2>1, <2>2, ClosedFacts, SameFacts
<1>3. ASSUME ledger' = [k \in Keys |-> ledger'[k]],
             \A k \in Keys : ledger'[k] \in {ledger[k], Closed(ledger[k]), Append(ledger[k], "failed")}
      PROVE  ledger' \in [Keys -> Seq(AttemptStatus)] /\ \A k \in Keys : RowsMove(k)
  <2>1. ASSUME NEW k \in Keys PROVE RowsMove(k) /\ ledger'[k] \in Seq(AttemptStatus)
    BY <1>2, <1>3 DEF RowsMove, RowsKept
  <2> QED
    BY <1>3, <2>1
<1>4. ASSUME NEW k \in Keys, NEW x \in VideoStatus, x \in {"queued", "failed", video[k].status},
             video'[k] = [video[k] EXCEPT !.status = x],
             video[k].status = "ready" => x = "ready"
      PROVE  video'[k] \in Video /\ VideoMoves(k)
  <2>1. /\ video'[k].status = x /\ video'[k].hls = video[k].hls /\ video'[k] \in Video
    BY <1>1, <1>4 DEF Video
  <2> QED
    BY <1>4, <2>1 DEF VideoMoves
<1>5. ASSUME NEW k \in Keys, video'[k] = video[k] PROVE video'[k] \in Video /\ VideoMoves(k)
  BY <1>1, <1>5 DEF VideoMoves
<1>6. CASE ReapTranscodes(p)
  <2>1. PICK repaired :
          /\ ledger' = [k \in Keys |-> IF k \in repaired THEN Closed(ledger[k]) ELSE ledger[k]]
          /\ video' = [k \in Keys |-> IF k \in repaired
                                      THEN [video[k] EXCEPT !.status = Repaired(k)]
                                      ELSE video[k]]
    BY <1>6 DEF ReapTranscodes
  <2>2. ASSUME NEW k \in Keys PROVE video'[k] \in Video /\ VideoMoves(k)
    <3>1. CASE k \in repaired
      <4>1. video'[k] = [video[k] EXCEPT !.status = Repaired(k)]
        BY <2>1, <3>1
      <4>2. /\ Repaired(k) \in {"queued", "failed", video[k].status}
            /\ video[k].status = "ready" => Repaired(k) = "ready"
        BY DEF Repaired
      <4>3. video[k].status \in VideoStatus
        BY <1>1 DEF Video
      <4> QED
        BY <1>1, <1>4, <4>1, <4>2, <4>3
    <3>2. CASE k \notin repaired
      BY <1>5, <2>1, <3>2
    <3> QED
      BY <3>1, <3>2
  <2>3. /\ ledger' = [k \in Keys |-> ledger'[k]]
        /\ \A k \in Keys : ledger'[k] \in {ledger[k], Closed(ledger[k])}
    BY <2>1
  <2>4. video' = [k \in Keys |-> video'[k]]
    BY <2>1
  <2> QED
    BY <1>3, <2>2, <2>3, <2>4 DEF AllMove, RowTypes
<1>7. CASE RepairStranded(p)
  <2>1. /\ ledger' = [k \in Keys |->
             IF OrphanRows(k) THEN Closed(ledger[k])
             ELSE IF NeedsRecord(k) THEN Append(ledger[k], "failed") ELSE ledger[k]]
        /\ video' = [k \in Keys |->
             IF StrandedVideo(k) THEN [video[k] EXCEPT !.status = "failed"] ELSE video[k]]
    BY <1>7 DEF RepairStranded
  <2>2. ASSUME NEW k \in Keys PROVE video'[k] \in Video /\ VideoMoves(k)
    <3>1. CASE StrandedVideo(k)
      <4>1. video'[k] = [video[k] EXCEPT !.status = "failed"] /\ video[k].status # "ready"
        BY <2>1, <3>1 DEF StrandedVideo
      <4> QED
        BY <1>1, <1>4, <4>1
    <3>2. CASE ~StrandedVideo(k)
      BY <1>5, <2>1, <3>2
    <3> QED
      BY <3>1, <3>2
  <2>3. /\ ledger' = [k \in Keys |-> ledger'[k]]
        /\ \A k \in Keys : ledger'[k] \in {ledger[k], Closed(ledger[k]), Append(ledger[k], "failed")}
    BY <2>1
  <2>4. video' = [k \in Keys |-> video'[k]]
    BY <2>1
  <2> QED
    BY <1>3, <2>2, <2>3, <2>4 DEF AllMove, RowTypes
<1> QED
  BY <1>6, <1>7

\* The steps of the loops and processes that are the queue's write no rows.
LEMMA QueueLeavesRows ==
  ASSUME \/ \E c \in Consumers : LoopStep(c)
         \/ \E p \in Procs : ProcessStep(p)
         \/ \E j \in Jobs : JobPasses(j)
  PROVE  UNCHANGED <<domain, operators>>
<1>1. ASSUME NEW c \in Consumers, LoopStep(c) PROVE UNCHANGED <<domain, operators>>
  BY <1>1 DEF LoopStep, TransportStep, HandBackVideo, TranscodeEnds, ClaimVideo
<1>2. ASSUME NEW p \in Procs, ProcessStep(p) PROVE UNCHANGED <<domain, operators>>
  BY <1>2 DEF ProcessStep, KillWorker, WorkerStep, PruneJob
<1>3. ASSUME NEW j \in Jobs, JobPasses(j) PROVE UNCHANGED <<domain, operators>>
  BY <1>3 DEF JobPasses
<1> QED
  BY <1>1, <1>2, <1>3

\* Every step moves each submission's rows in one of these ways.
LEMMA PipelineMoves ==
  ASSUME PipelineTypeOK, PipelineNext
  PROVE  AllMove
<1>1. RowTypes
  BY DEF PipelineTypeOK, RowTypes, Video
<1> QED
  BY <1>1, PipelineCases, HandlerMoves, RequestMoves, RepairMoves, QueueLeavesRows, StillFacts

\* The calls and the requests keep their types.
LEMMA CallTypes ==
  ASSUME QueueInv, PipelineTypeOK, PipelineNext
  PROVE  /\ run' \in [Consumers -> Call] /\ admin' \in [Admins -> Request]
         /\ verbs' \in 0..MaxVerbs
<1>1. /\ run \in [Consumers -> Call] /\ admin \in [Admins -> Request] /\ verbs \in 0..MaxVerbs
      /\ MaxVerbs \in Nat /\ NotRunning \in Call /\ NoRequest \in Request
      /\ ledger \in [Keys -> Seq(AttemptStatus)]
  BY PipelineAssumption DEF PipelineTypeOK, Call, Request
<1>2. ASSUME ProducerStep PROVE UNCHANGED <<run, admin>> /\ verbs' \in 0..MaxVerbs
  BY <1>1, <1>2 DEF ProducerStep, Finalize, Resend, operators
<1>3. ASSUME NEW a \in Admins, OperatorStep(a)
      PROVE  UNCHANGED run /\ admin' \in [Admins -> Request] /\ verbs' \in 0..MaxVerbs
  <2>1. ASSUME NEW verb \in {"retry", "drop"}, NEW s \in Keys, NEW i \in DOMAIN ledger[s],
               OpenVerb(a, verb, s, i)
        PROVE  UNCHANGED run /\ admin' \in [Admins -> Request] /\ verbs' \in 0..MaxVerbs
    <3>1. i \in Nat
      BY <1>1
    <3>2. [verb |-> verb, sub |-> s, row |-> i] \in Request
      BY <3>1 DEF Request
    <3> QED
      BY <1>1, <2>1, <3>2 DEF OpenVerb
  <2>2. CASE Refuse(a) \/ Drop(a) \/ \E j \in Jobs : Retry(a, j)
    BY <1>1, <2>2 DEF Refuse, Drop, Retry
  <2> QED
    BY <1>3, <2>1, <2>2 DEF OperatorStep, OpensVerb
<1>4. ASSUME NEW c \in Consumers, HandlerStep(c) PROVE run' \in [Consumers -> Call]
  <2>0. /\ run[c] \in [at : Steps, sub : Keys, mine : Nat, threw : {"error", "permanent"}]
        /\ run[c].sub \in Keys
    <3>1. run[c].at # "none"
      BY <1>4
         DEF HandlerStep, Check, CloseRunning, OpenRow, Announce, Work, Publish, MarkSucceeded,
             CancelRow, Requeue, FailRow, FailVideo, Statement, Attempted, At
    <3> QED
      BY <1>1, <3>1 DEF Call, NotRunning
  <2>1. ASSUME NEW step \in Steps, Goto(c, step) PROVE run' \in [Consumers -> Call]
    BY <1>1, <2>0, <2>1 DEF Goto, Call
  <2>2. ASSUME NEW kind \in {"error", "permanent"}, Throw(c, kind)
        PROVE  run' \in [Consumers -> Call]
    <3>1. PICK step \in {"requeue", "cancelRow", "failVideo", "failRow"} :
            run' = [run EXCEPT ![c] = [at |-> step, sub |-> run[c].sub, mine |-> run[c].mine,
                                       threw |-> kind]]
      BY <2>2 DEF Throw
    <3>2. step \in Steps
      BY DEF Steps
    <3> QED
      BY <1>1, <2>0, <3>1, <3>2 DEF Call
  <2>3. {"close", "open", "announce", "work", "publish", "mark", "requeue", "failVideo",
         "returned", "threw"} \subseteq Steps
    BY DEF Steps
  <2>4. CASE OpenRow(c)
    <3>1. CASE run' = [run EXCEPT ![c] = [at |-> "announce", sub |-> run[c].sub,
                            mine |-> Len(ledger[run[c].sub]) + 1, threw |-> @.threw]]
      <4>1. Len(ledger[run[c].sub]) + 1 \in Nat
        BY <1>1, <2>0
      <4> QED
        BY <1>1, <2>0, <2>3, <3>1, <4>1 DEF Call
    <3> QED
      BY <2>2, <2>4, <3>1 DEF OpenRow
  <2> QED
    BY <1>4, <2>1, <2>2, <2>3, <2>4
       DEF HandlerStep, Check, CloseRunning, Announce, Work, Publish, MarkSucceeded,
           CancelRow, Requeue, FailRow, FailVideo, Statement, Attempted
<1>5. ASSUME NEW c \in Consumers, LoopStep(c) PROVE run' \in [Consumers -> Call]
  <2>1. UNCHANGED run \/ Leave(c) \/ \E j \in Jobs : ClaimVideo(c, j)
    BY <1>5 DEF LoopStep, TransportStep, HandBackVideo, TranscodeEnds
  <2>2. ASSUME NEW j \in Jobs, ClaimVideo(c, j) PROVE run' \in [Consumers -> Call]
    <3>1. jobs[j].key \in Keys
      BY <2>2 DEF ClaimVideo, Claim, Runnable, QueueInv, RowsConsistent, Consistent
    <3>2. [at |-> "check", sub |-> jobs[j].key, mine |-> 0, threw |-> "error"] \in Call
      BY <3>1 DEF Call, Steps
    <3> QED
      BY <1>1, <2>2, <3>2 DEF ClaimVideo
  <2> QED
    BY <1>1, <2>1, <2>2 DEF Leave
<1>6. ASSUME NEW p \in Procs, ReapTranscodes(p) \/ RepairStranded(p)
      PROVE  UNCHANGED <<run, admin, verbs>>
  BY <1>6 DEF ReapTranscodes, RepairStranded, operators
<1>7. ASSUME NEW p \in Procs, ProcessStep(p) PROVE run' \in [Consumers -> Call]
  BY <1>1, <1>7 DEF ProcessStep, KillWorker, WorkerStep, PruneJob
<1>8. ASSUME NEW j \in Jobs, JobPasses(j) PROVE UNCHANGED run
  BY <1>8 DEF JobPasses
<1> QED
  BY <1>1, <1>2, <1>3, <1>4, <1>5, <1>6, <1>7, <1>8, PipelineCases, HandlerLeavesQueue,
     QueueLeavesRows DEF operators
-----------------------------------------------------------------------------
(***************************************************************************)
(* The run that owns a submission's rows.                                  *)
(***************************************************************************)

\* A loop with a job in hand, not knowing its outcome to be written, owns the rows
\* of the job's submission.
Owns(c) == Busy(c) /\ ~cons[c].landed

\* While leases are kept, its job runs on its lease.
LEMMA OwnerLeased ==
  ASSUME QueueInv, stalls = 0, NEW c \in Consumers, Owns(c)
  PROVE  /\ JobOf(c) \in Jobs /\ jobs[JobOf(c)].status = "running"
         /\ jobs[JobOf(c)].lease = "live" /\ jobs[JobOf(c)].by = c
         /\ jobs[JobOf(c)].attempts = cons[c].att
         /\ jobs[JobOf(c)].key \in Keys /\ KeyTaken(jobs, jobs[JobOf(c)].key)
         /\ HasRunningJob(jobs[JobOf(c)].key)
<1>1. HoldsJob(c) /\ Leased(c) /\ JobOf(c) \in Jobs
  BY DEF QueueInv, BusyHoldsJob, HoldsJob, Owns
<1>2. jobs \in [Jobs -> Row] /\ Consistent(jobs[JobOf(c)])
  BY <1>1 DEF QueueInv, TypeOK, RowsConsistent
<1> QED
  BY <1>1, <1>2 DEF Leased, Consistent, KeyTaken, Live, HasRunningJob

\* So it is the only one: two owners of one submission are the same loop.
LEMMA OwnersDiffer ==
  ASSUME QueueInv, stalls = 0, NEW c \in Consumers, NEW d \in Consumers, Owns(c), Owns(d),
         jobs[JobOf(c)].key = jobs[JobOf(d)].key
  PROVE  c = d
<1>1. JobOf(c) = JobOf(d)
  BY OwnerLeased DEF QueueInv, LiveKeyUnique, Live
<1> QED
  BY <1>1, OwnerLeased

\* A running handler's submission is its job's.
LEMMA HandlerOwns ==
  ASSUME PipelineInv, stalls = 0, NEW c \in Consumers, cons[c].pc \in {"claimed", "running"}
  PROVE  /\ Owns(c) /\ run[c].sub = jobs[JobOf(c)].key /\ run[c].sub \in Keys
         /\ run[c].at # "none"
<1>1. HoldsJob(c) /\ RunsItsJob(c) /\ Busy(c)
  BY DEF PipelineInv, QueueInv, BusyHoldsJob, RowsInv, Busy
<1>2. Owns(c)
  BY <1>1 DEF HoldsJob, Owns
<1> QED
  BY <1>1, <1>2, OwnerLeased DEF RunsItsJob, PipelineInv

\* A handler writes its own submission's rows only.
LEMMA HandlerWritesItsOwn ==
  ASSUME RowTypes, NEW c \in Consumers, HandlerStep(c), NEW k \in Keys, k # run[c].sub
  PROVE  video'[k] = video[k] /\ ledger'[k] = ledger[k]
  BY DEF RowTypes, HandlerStep, Check, CloseRunning, OpenRow, Announce, Work, Publish,
         MarkSucceeded, CancelRow, Requeue, FailRow, FailVideo, Statement, Attempted, SetStatus,
         domain

\* What nobody else does to an owner's submission: no attempt's row is written, and
\* the video is neither made ready nor unready; only Resend moves it at all.
LEMMA OwnerAlone ==
  ASSUME PipelineInv, PipelineNext, stalls = 0, NEW c \in Consumers, Owns(c),
         ~HandlerStep(c)
  PROVE  LET s == jobs[JobOf(c)].key IN
         /\ ledger'[s] = ledger[s]
         /\ (video'[s].status = "ready") <=> (video[s].status = "ready")
         /\ WhatsAppSubs = {} => video'[s] = video[s]
<1> DEFINE s == jobs[JobOf(c)].key
           Alone == /\ ledger'[s] = ledger[s]
                    /\ (video'[s].status = "ready") <=> (video[s].status = "ready")
                    /\ WhatsAppSubs = {} => video'[s] = video[s]
<1>1. /\ RowTypes /\ QueueInv /\ s \in Keys /\ KeyTaken(jobs, s) /\ HasRunningJob(s)
      /\ HasLiveJob(s)
  BY OwnerLeased DEF PipelineInv, PipelineTypeOK, RowTypes, Video, HasLiveJob
<1>2. (video'[s] = video[s] /\ ledger'[s] = ledger[s]) => Alone
  OBVIOUS
<1>3. CASE ProducerStep
  <2>1. PICK j \in Jobs, k \in Keys : Finalize(j, k) \/ Resend(j, k)
    BY <1>3 DEF ProducerStep
  <2>2. CASE k # s
    BY <1>1, <2>1, <2>2 DEF Finalize, Resend, SetStatus, RowTypes
  <2>3. CASE k = s
    <3>1. Resend(j, s)
      BY <1>1, <2>1, <2>3 DEF Finalize, Enqueue
    <3>2. /\ s \in WhatsAppSubs /\ UNCHANGED ledger /\ video[s].status # "ready"
          /\ video' = [video EXCEPT ![s].status = "queued"]
      BY <3>1 DEF Resend, SetStatus
    <3>3. video'[s].status = "queued"
      BY <1>1, <3>2 DEF RowTypes, Video
    <3> QED
      BY <3>2, <3>3
  <2> QED
    BY <2>2, <2>3
<1>4. ASSUME NEW a \in Admins, OperatorStep(a) PROVE Alone
  <2>1. CASE OpensVerb(a) \/ Refuse(a)
    BY <2>1 DEF OpensVerb, OpenVerb, Refuse, domain
  <2>2. ASSUME NEW j \in Jobs, Retry(a, j) PROVE Alone
    BY <1>1, <2>2 DEF Retry, RetryAllowed, SetStatus, RowTypes
  <2>3. CASE Drop(a)
    BY <1>1, <2>3 DEF Drop, DropAllowed, SetStatus, RowTypes
  <2> QED
    BY <1>4, <2>1, <2>2, <2>3 DEF OperatorStep
<1>5. ASSUME NEW d \in Consumers, HandlerStep(d) PROVE Alone
  <2>1. cons[d].pc = "running" /\ d # c
    BY <1>5, HandlerLeavesQueue
  <2>2. run[d].sub # s
    BY <1>1, <2>1, HandlerOwns, OwnersDiffer
  <2> QED
    BY <1>1, <1>5, <2>2, HandlerWritesItsOwn
<1>6. ASSUME NEW p \in Procs, ReapTranscodes(p) PROVE Alone
  <2>1. s \notin ReapedSubs
    <3> SUFFICES ASSUME NEW j \in Lapsed, jobs[j].key = s PROVE FALSE
      BY DEF ReapedSubs
    <3>1. j \in Jobs /\ jobs[j].status = "running" /\ jobs[j].lease = "lapsed"
      BY DEF Lapsed, Reapable
    <3> QED
      BY <1>1, <3>1, OwnerLeased DEF QueueInv, LiveKeyUnique, Live
  <2> QED
    BY <1>1, <1>6, <2>1 DEF ReapTranscodes
<1>7. ASSUME NEW p \in Procs, RepairStranded(p) PROVE Alone
  <2>1. ~OrphanRows(s) /\ ~StrandedVideo(s) /\ ~NeedsRecord(s)
    BY <1>1 DEF OrphanRows, StrandedVideo, NeedsRecord, Unrecorded
  <2> QED
    BY <1>1, <1>7, <2>1 DEF RepairStranded
<1>8. CASE UNCHANGED domain
  BY <1>8 DEF domain
<1> QED
  BY <1>3, <1>4, <1>5, <1>6, <1>7, <1>8, PipelineCases, QueueLeavesRows
-----------------------------------------------------------------------------
(***************************************************************************)
(* The inductive invariant of the rows.                                    *)
(***************************************************************************)

\* What a running handler may rely on, given where it is; KnowsItsRows, of a
\* state of its call and its submission's rows.
Knows(at, mine, status, rows) ==
  /\ at \in {"close", "open", "announce"} => status # "ready"
  /\ at = "open" => RunningIn(rows) = {}
  /\ at \in {"announce", "work", "publish", "mark"} => RunningIn(rows) = {mine}
  /\ at \in {"mark", "returned"} => status = "ready"

\* The two say the same.
LEMMA KnowsIsKnows ==
  ASSUME NEW c \in Consumers
  PROVE  KnowsItsRows(c) <=>
           (cons[c].pc = "running" =>
              Knows(run[c].at, run[c].mine, video[run[c].sub].status, ledger[run[c].sub]))
  BY DEF KnowsItsRows, Knows, RunningRows, RunningIn

\* A statement of the handler: where it leaves the call, whatever fails.
LEMMA HandlerGoes ==
  ASSUME PipelineInv, stalls = 0, NEW c \in Consumers, HandlerStep(c)
  PROVE  /\ run'[c].sub = run[c].sub /\ run'[c].at \in Steps
         /\ Knows(run'[c].at, run'[c].mine, video'[run[c].sub].status, ledger'[run[c].sub])
<1> DEFINE s == run[c].sub
           Fine == /\ run'[c].sub = s /\ run'[c].at \in Steps
                   /\ Knows(run'[c].at, run'[c].mine, video'[s].status, ledger'[s])
<1>1. /\ cons[c].pc = "running" /\ s \in Keys /\ RowTypes
      /\ run \in [Consumers -> Call] /\ run[c] \in Call /\ run[c].at # "none"
  BY HandlerLeavesQueue, HandlerOwns DEF PipelineInv, PipelineTypeOK, RowTypes, Call, Video
<1>2. /\ run[c] \in [at : Steps, sub : Keys, mine : Nat, threw : {"error", "permanent"}]
      /\ video \in [Keys -> Video] /\ ledger \in [Keys -> Seq(AttemptStatus)]
      /\ video[s] \in Video /\ ledger[s] \in Seq(AttemptStatus)
  BY <1>1 DEF Call, NotRunning, RowTypes
<1>3. Knows(run[c].at, run[c].mine, video[s].status, ledger[s])
  BY <1>1, KnowsIsKnows DEF PipelineInv, RowsInv
<1>4. video[s].status = "ready" => video[s].hls
  BY <1>1 DEF PipelineInv, RowsInv
<1>5. ASSUME NEW step \in Steps, Goto(c, step)
      PROVE  run'[c].sub = s /\ run'[c].at = step /\ run'[c].mine = run[c].mine
  BY <1>1, <1>2, <1>5 DEF Goto
<1>6. ASSUME NEW kind, Throw(c, kind) PROVE Fine
  <2>1. PICK step \in {"requeue", "cancelRow", "failVideo", "failRow"} :
          run' = [run EXCEPT ![c] = [at |-> step, sub |-> run[c].sub, mine |-> run[c].mine,
                                     threw |-> kind]]
    BY <1>6 DEF Throw
  <2>2. run'[c].at = step /\ run'[c].sub = s /\ step \in Steps
    BY <1>1, <2>1 DEF Steps
  <2> QED
    BY <2>2 DEF Knows
<1>7. UNCHANGED domain => video'[s] = video[s] /\ ledger'[s] = ledger[s]
  BY DEF domain
<1>8. {"close", "open", "announce", "work", "publish", "mark", "requeue", "failVideo",
       "returned", "threw"} \subseteq Steps
  BY DEF Steps
<1>9. CASE Check(c)
  BY <1>4, <1>5, <1>6, <1>7, <1>8, <1>9 DEF Check, Knows
<1>10. CASE CloseRunning(c)
  <2>1. CASE Goto(c, "open") /\ ledger' = [ledger EXCEPT ![s] = Closed(@)] /\ UNCHANGED video
    <3>1. ledger'[s] = Closed(ledger[s]) /\ video'[s] = video[s]
      BY <1>1, <1>2, <2>1
    <3>2. RunningIn(ledger'[s]) = {}
      BY <1>2, <3>1, ClosedFacts
    <3>3. run'[c].sub = s /\ run'[c].at = "open"
      BY <1>5, <1>8, <2>1
    <3>4. run[c].at = "close"
      BY <1>10 DEF CloseRunning, Statement, At
    <3> QED
      BY <1>3, <1>8, <3>1, <3>2, <3>3, <3>4 DEF Knows
  <2> QED
    BY <1>6, <1>10, <2>1 DEF CloseRunning, Statement
<1>11. CASE OpenRow(c)
  <2>1. CASE /\ ledger' = [ledger EXCEPT ![s] = Append(@, "running")] /\ UNCHANGED video
             /\ run' = [run EXCEPT ![c] = [at |-> "announce", sub |-> s,
                                           mine |-> Len(ledger[s]) + 1, threw |-> @.threw]]
    <3>1. ledger'[s] = Append(ledger[s], "running") /\ video'[s] = video[s]
      BY <1>1, <1>2, <2>1
    <3>2. run[c].at = "open"
      BY <1>11 DEF OpenRow, At
    <3>3. RunningIn(ledger'[s]) = {Len(ledger[s]) + 1}
      <4>1. RunningIn(ledger[s]) = {} /\ "running" \in AttemptStatus \ {"dropped"}
        BY <1>3, <3>2 DEF Knows, AttemptStatus
      <4> QED
        BY <1>2, <3>1, <4>1, AppendFacts
    <3>4. run'[c].sub = s /\ run'[c].at = "announce" /\ run'[c].mine = Len(ledger[s]) + 1
      BY <1>1, <2>1
    <3> QED
      BY <1>3, <1>8, <3>1, <3>2, <3>3, <3>4 DEF Knows
  <2> QED
    BY <1>6, <1>11, <2>1 DEF OpenRow
<1>12. CASE Announce(c)
  <2>1. CASE Goto(c, "work") /\ UNCHANGED ledger
    <3>1. run[c].at = "announce"
      BY <1>12 DEF Announce, Statement, At
    <3> QED
      BY <1>3, <1>5, <1>8, <2>1, <3>1 DEF Knows
  <2> QED
    BY <1>6, <1>12, <2>1 DEF Announce, Statement
<1>13. CASE Work(c)
  <2>1. CASE Goto(c, "publish") /\ UNCHANGED domain
    <3>1. run[c].at = "work"
      BY <1>13 DEF Work, At
    <3> QED
      BY <1>3, <1>5, <1>7, <1>8, <2>1, <3>1 DEF Knows
  <2> QED
    BY <1>6, <1>13, <2>1 DEF Work
<1>14. CASE Publish(c)
  <2>1. CASE /\ Goto(c, "mark") /\ UNCHANGED ledger
             /\ video' = [video EXCEPT ![s] = [status |-> "ready", hls |-> TRUE]]
    <3>1. run[c].at = "publish" /\ video'[s].status = "ready"
      BY <1>1, <1>2, <1>14, <2>1 DEF Publish, Statement, At
    <3> QED
      BY <1>3, <1>5, <1>8, <2>1, <3>1 DEF Knows
  <2> QED
    BY <1>6, <1>14, <2>1 DEF Publish, Statement
<1>15. CASE MarkSucceeded(c)
  <2>1. CASE Goto(c, "returned") /\ UNCHANGED video
    <3>1. run[c].at = "mark"
      BY <1>15 DEF MarkSucceeded, Statement, At
    <3> QED
      BY <1>3, <1>5, <1>8, <2>1, <3>1 DEF Knows
  <2> QED
    BY <1>6, <1>15, <2>1 DEF MarkSucceeded, Statement
<1>16. CASE CancelRow(c) \/ Requeue(c) \/ FailRow(c) \/ FailVideo(c)
  <2>1. PICK step \in {"requeue", "threw", "failVideo"} : Goto(c, step)
    BY <1>16 DEF CancelRow, Requeue, FailRow, FailVideo, Attempted
  <2> QED
    BY <1>5, <1>8, <2>1 DEF Knows
<1> QED
  BY <1>9, <1>10, <1>11, <1>12, <1>13, <1>14, <1>15, <1>16 DEF HandlerStep

\* Nobody but its process, the loop itself and its handler moves a loop or its call.
LEMMA OthersLeaveLoop ==
  ASSUME PipelineInv, PipelineNext, NEW c \in Consumers, ~HandlerStep(c), ~LoopStep(c),
         \A p \in Procs : KillWorker(p) => ProcOf[c] # p
  PROVE  cons'[c] = cons[c] /\ run'[c] = run[c]
<1>1. cons \in [Consumers -> ConsumerState] /\ run \in [Consumers -> Call]
  BY DEF PipelineInv, QueueInv, TypeOK, PipelineTypeOK, Call
<1>2. ASSUME NEW d \in Consumers, d # c, HandlerStep(d)
      PROVE  cons'[c] = cons[c] /\ run'[c] = run[c]
  <2>1. cons' = cons
    BY <1>2, HandlerLeavesQueue DEF queue
  <2>2. run'[c] = run[c]
    BY <1>1, <1>2
       DEF HandlerStep, Check, CloseRunning, OpenRow, Announce, Work, Publish, MarkSucceeded,
           CancelRow, Requeue, FailRow, FailVideo, Statement, Attempted, Goto, Throw
  <2> QED
    BY <2>1, <2>2
<1>3. ASSUME NEW d \in Consumers, d # c, LoopStep(d)
      PROVE  cons'[c] = cons[c] /\ run'[c] = run[c]
  <2>1. cons'[c] = cons[c]
    BY <1>1, <1>3
       DEF LoopStep, TransportStep, HandBackVideo, TranscodeEnds, ClaimVideo, Claim, ClaimLost,
           Begin, HandBack, Heartbeat, HandlerEnds, Record, WriteFails, AnswerLost, SetCons
  <2>2. run'[c] = run[c]
    BY <1>1, <1>3 DEF LoopStep, TransportStep, HandBackVideo, TranscodeEnds, ClaimVideo, Leave
  <2> QED
    BY <2>1, <2>2
<1>4. ASSUME ProducerStep \/ \E a \in Admins : OperatorStep(a)
      PROVE  cons'[c] = cons[c] /\ run'[c] = run[c]
  BY <1>4
     DEF ProducerStep, Finalize, Resend, OperatorStep, OpensVerb, OpenVerb, Refuse, Drop, Retry,
         Enqueue, Withdraw, queue
<1>5. ASSUME NEW p \in Procs, ReapTranscodes(p) \/ RepairStranded(p) \/ ProcessStep(p)
      PROVE  cons'[c] = cons[c] /\ run'[c] = run[c]
  BY <1>1, <1>5
     DEF ReapTranscodes, RepairStranded, ProcessStep, KillWorker, WorkerStep, PruneJob, Kill,
         LoopsEnd, Reap, Prune, Shutdown, Exit, Start, queue
<1>6. ASSUME NEW j \in Jobs, JobPasses(j) PROVE cons'[c] = cons[c] /\ run'[c] = run[c]
  BY <1>6 DEF JobPasses, BackoffElapse, LeaseLapse, Stall
<1> QED
  BY <1>2, <1>3, <1>4, <1>5, <1>6, PipelineCases

\* What a loop that does not move knows, stays so.
LEMMA RunFrame ==
  ASSUME PipelineInv, QueueInv', PipelineNext, stalls = 0, stalls' = 0,
         NEW c \in Consumers, cons'[c] = cons[c], run'[c] = run[c], ~HandlerStep(c)
  PROVE  RunsItsJob(c)' /\ KnowsItsRows(c)'
<1>1. [Next]_vars /\ QueueInv /\ RunsItsJob(c) /\ KnowsItsRows(c)
  BY PipelineQueueStep DEF PipelineInv, RowsInv
<1>2. CASE cons[c].pc \in {"claimed", "running"}
  <2>1. Owns(c) /\ run[c].sub = jobs[JobOf(c)].key
    BY <1>2, HandlerOwns
  <2>2. JobOf(c)' = JobOf(c) /\ jobs'[JobOf(c)].key = jobs[JobOf(c)].key
    BY <1>1, <2>1, LeaseKeeps DEF Owns, JobOf
  <2>3. RunsItsJob(c)'
    BY <1>1, <1>2, <2>2 DEF RunsItsJob
  <2>4. LET s == run[c].sub IN
        ledger'[s] = ledger[s] /\ ((video'[s].status = "ready") <=> (video[s].status = "ready"))
    BY <2>1, OwnerAlone
  <2>5. KnowsItsRows(c)'
    BY <1>1, <2>4, KnowsIsKnows DEF KnowsItsRows, RunningRows
  <2> QED
    BY <2>3, <2>5
<1>3. CASE cons[c].pc \notin {"claimed", "running"}
  BY <1>1, <1>3 DEF RunsItsJob, KnowsItsRows
<1> QED
  BY <1>2, <1>3

\* A loop takes a job, begins, hands the result to the queue, writes it, or gives
\* the job back.
LEMMA LoopRuns ==
  ASSUME PipelineInv, stalls = 0, NEW c \in Consumers, LoopStep(c)
  PROVE  RunsItsJob(c)' /\ KnowsItsRows(c)'
<1>1. /\ cons \in [Consumers -> ConsumerState] /\ jobs \in [Jobs -> Row]
      /\ run \in [Consumers -> Call] /\ RunsItsJob(c) /\ KnowsItsRows(c) /\ HoldsJob(c)
      /\ cons[c] \in ConsumerState
  BY DEF PipelineInv, QueueInv, TypeOK, PipelineTypeOK, Call, RowsInv, BusyHoldsJob
<1>2. UNCHANGED domain
  BY QueueLeavesRows
<1>3. ASSUME NEW j \in Jobs, ClaimVideo(c, j) PROVE RunsItsJob(c)' /\ KnowsItsRows(c)'
  <2>1. /\ cons'[c] = Holding(j, jobs[j].attempts + 1)
        /\ run'[c] = [at |-> "check", sub |-> jobs[j].key, mine |-> 0, threw |-> "error"]
        /\ jobs'[j] = ClaimedRow(jobs[j], c)
    BY <1>1, <1>3 DEF ClaimVideo, Claim, SetRow, SetCons
  <2>2. jobs'[j].key = jobs[j].key
    BY <1>1, <2>1 DEF ClaimedRow, Row
  <2> QED
    BY <2>1, <2>2 DEF RunsItsJob, KnowsItsRows, Holding, JobOf
<1>4. CASE Begin(c) /\ UNCHANGED run
  <2>1. /\ cons'[c] = [cons[c] EXCEPT !.pc = "running"] /\ cons[c].pc = "claimed"
        /\ UNCHANGED <<jobs, run>>
    BY <1>1, <1>4 DEF Begin, SetCons
  <2>2. cons'[c].pc = "running" /\ cons'[c].job = cons[c].job /\ run[c].at = "check"
    BY <1>1, <2>1 DEF ConsumerState, RunsItsJob
  <2> QED
    BY <1>1, <2>1, <2>2 DEF RunsItsJob, KnowsItsRows, JobOf
<1>5. ASSUME cons'[c].pc \in {"idle", "recording"}, run'[c] = NotRunning
      PROVE  RunsItsJob(c)' /\ KnowsItsRows(c)'
  BY <1>5 DEF RunsItsJob, KnowsItsRows
<1>6. CASE HandBackVideo(c) \/ TranscodeEnds(c)
  <2>1. run'[c] = NotRunning
    BY <1>1, <1>6 DEF HandBackVideo, TranscodeEnds, Leave
  <2>2. CASE HandBackVideo(c)
    BY <1>1, <1>5, <2>1, <2>2 DEF HandBackVideo, HandBack, SetCons, Idle
  <2>3. CASE TranscodeEnds(c)
    <3>1. PICK result : HandlerEnds(c, result)
      BY <2>3 DEF TranscodeEnds
    <3>2. cons'[c].pc = "recording"
      BY <1>1, <3>1 DEF HandlerEnds, SetCons, ConsumerState
    <3> QED
      BY <1>5, <2>1, <3>2
  <2> QED
    BY <1>6, <2>2, <2>3
<1>7. ASSUME Record(c) \/ WriteFails(c) \/ AnswerLost(c), UNCHANGED run
      PROVE  RunsItsJob(c)' /\ KnowsItsRows(c)'
  <2>1. cons[c].pc = "recording" /\ run[c] = NotRunning
    BY <1>1, <1>7 DEF Record, WriteFails, AnswerLost, RunsItsJob
  <2>2. cons'[c].pc \in {"idle", "recording"}
    <3>1. \/ cons'[c] = Idle
          \/ \E landed \in BOOLEAN : cons'[c] = NextTry(c, landed)
      BY <1>1, <1>7 DEF Record, WriteFails, AnswerLost, SetCons
    <3>2. ASSUME NEW landed \in BOOLEAN PROVE NextTry(c, landed).pc \in {"idle", "recording"}
      BY <1>1, <2>1 DEF NextTry, Idle, ConsumerState
    <3> QED
      BY <3>1, <3>2 DEF Idle
  <2> QED
    BY <1>5, <1>7, <2>1, <2>2
<1>8. ASSUME Heartbeat(c), UNCHANGED run PROVE RunsItsJob(c)' /\ KnowsItsRows(c)'
  <2>1. JobOf(c) \in Jobs /\ jobs'[JobOf(c)].key = jobs[JobOf(c)].key /\ UNCHANGED cons
    BY <1>1, <1>8 DEF Heartbeat, SetRow, Row, HoldsJob, Busy
  <2> QED
    BY <1>1, <1>2, <1>8, <2>1 DEF RunsItsJob, KnowsItsRows, JobOf, domain, RunningRows
<1>9. ASSUME NEW j \in Jobs, ClaimLost(c, j), UNCHANGED run
      PROVE  RunsItsJob(c)' /\ KnowsItsRows(c)'
  BY <1>1, <1>9 DEF ClaimLost, RunsItsJob, KnowsItsRows
<1> QED
  BY <1>3, <1>4, <1>6, <1>7, <1>8, <1>9 DEF LoopStep, TransportStep

\* Every step keeps what the loops know, and one attempt running.
LEMMA RowsStep ==
  ASSUME PipelineInv, QueueInv', PipelineNext
  PROVE  RowsInv'
<1>1. /\ AllMove /\ RowTypes /\ [Next]_vars /\ TypeOK
      /\ \A s \in Keys : video[s].status = "ready" => video[s].hls
  BY PipelineMoves, PipelineQueueStep
     DEF PipelineInv, PipelineTypeOK, QueueInv, RowTypes, Video, RowsInv
<1>2. \A s \in Keys : video'[s].status = "ready" => video'[s].hls
  BY <1>1 DEF AllMove, VideoMoves
<1>3. SUFFICES ASSUME stalls' = 0
               PROVE  /\ \A s \in Keys : \A i, k \in RunningRows(s)' : i = k
                      /\ \A c \in Consumers : RunsItsJob(c)' /\ KnowsItsRows(c)'
  BY <1>2 DEF RowsInv
<1>4. stalls = 0
  BY <1>1, <1>3, StallsStay
<1>5. ASSUME NEW s \in Keys PROVE \A i, k \in RunningRows(s)' : i = k
  <2>1. /\ \A i, k \in RunningIn(ledger[s]) : i = k
        /\ RunningRows(s)' = RunningIn(ledger'[s])
    BY <1>4 DEF PipelineInv, RowsInv, RunningRows, RunningIn
  <2>2. CASE NoneStarts(ledger[s], ledger'[s])
    BY <2>1, <2>2 DEF NoneStarts
  <2>3. ASSUME NEW c \in Consumers, At(c, "open"), run[c].sub = s,
               ledger'[s] = Append(ledger[s], "running")
        PROVE  \A i, k \in RunningRows(s)' : i = k
    <3>1. RunningIn(ledger[s]) = {}
      BY <1>4, <2>3 DEF PipelineInv, RowsInv, KnowsItsRows, At, RunningRows, RunningIn
    <3>2. ledger[s] \in Seq(AttemptStatus) /\ "running" \in AttemptStatus \ {"dropped"}
      BY <1>1 DEF RowTypes, AttemptStatus
    <3>3. RunningIn(ledger'[s]) = {Len(ledger[s]) + 1}
      BY <2>3, <3>1, <3>2, AppendFacts
    <3> QED
      BY <2>1, <3>3
  <2> QED
    BY <1>1, <2>2, <2>3 DEF AllMove, RowsMove
<1>6. ASSUME NEW c \in Consumers PROVE RunsItsJob(c)' /\ KnowsItsRows(c)'
  <2>1. CASE HandlerStep(c)
    <3>1. /\ UNCHANGED <<jobs, cons>> /\ cons[c].pc = "running"
          /\ run'[c].sub = run[c].sub /\ run'[c].at \in Steps
          /\ Knows(run'[c].at, run'[c].mine, video'[run[c].sub].status, ledger'[run[c].sub])
      BY <1>4, <2>1, HandlerGoes, HandlerLeavesQueue DEF queue
    <3>2. RunsItsJob(c)'
      BY <1>4, <3>1 DEF PipelineInv, RowsInv, RunsItsJob, JobOf, Steps
    <3>3. KnowsItsRows(c)'
      BY <3>1 DEF KnowsItsRows, Knows, RunningRows, RunningIn
    <3> QED
      BY <3>2, <3>3
  <2>2. CASE LoopStep(c)
    BY <1>4, <2>2, LoopRuns
  <2>3. ASSUME NEW p \in Procs, KillWorker(p), ProcOf[c] = p
        PROVE  RunsItsJob(c)' /\ KnowsItsRows(c)'
    <3>1. cons'[c] = Idle /\ run'[c] = NotRunning
      BY <2>3 DEF KillWorker, Kill, LoopsEnd
    <3> QED
      BY <3>1 DEF RunsItsJob, KnowsItsRows, Idle
  <2>4. CASE /\ ~HandlerStep(c) /\ ~LoopStep(c)
             /\ \A p \in Procs : KillWorker(p) => ProcOf[c] # p
    <3>1. cons'[c] = cons[c] /\ run'[c] = run[c]
      BY <2>4, OthersLeaveLoop
    <3> QED
      BY <1>3, <1>4, <2>4, <3>1, RunFrame
  <2> QED
    BY <2>1, <2>2, <2>3, <2>4
<1> QED
  BY <1>5, <1>6
-----------------------------------------------------------------------------
(***************************************************************************)
(* The theorems about the rows, whatever fails.                            *)
(***************************************************************************)

\* At the start nothing is queued and nothing runs.
LEMMA PipelineInitInv == PipelineInit => PipelineInv
<1> SUFFICES ASSUME PipelineInit PROVE PipelineInv
  OBVIOUS
<1>1. QueueInv
  BY InitInv DEF PipelineInit
<1>2. PipelineTypeOK
  <2>1. <<>> \in Seq(AttemptStatus) /\ "received" \in VideoStatus /\ 0 \in 0..MaxVerbs
    BY PipelineAssumption DEF VideoStatus
  <2> QED
    BY <1>1, <2>1 DEF PipelineInit, PipelineTypeOK, QueueInv
<1>3. RowsInv
  BY DEF PipelineInit, Init, RowsInv, RunningRows, RunsItsJob, KnowsItsRows, Idle
<1> QED
  BY <1>1, <1>2, <1>3 DEF PipelineInv

\* Every step keeps the queue, the types and the rows.
LEMMA PipelineStepInv == PipelineInv /\ [PipelineNext]_pvars => PipelineInv'
<1> SUFFICES ASSUME PipelineInv, [PipelineNext]_pvars PROVE PipelineInv'
  OBVIOUS
<1>1. QueueInv'
  BY PipelineQueueStep, StepInv DEF PipelineInv
<1>2. CASE PipelineNext
  <2>1. PipelineTypeOK'
    <3>1. AllMove /\ run' \in [Consumers -> Call] /\ admin' \in [Admins -> Request]
          /\ verbs' \in 0..MaxVerbs
      BY <1>2, PipelineMoves, CallTypes DEF PipelineInv
    <3> QED
      BY <1>1, <3>1
         DEF PipelineTypeOK, AllMove, RowTypes, Video, Call, Request, QueueInv
  <2> QED
    BY <1>1, <1>2, <2>1, RowsStep DEF PipelineInv
<1>3. CASE UNCHANGED pvars
  <2>1. PipelineTypeOK'
    BY <1>1, <1>3 DEF PipelineInv, PipelineTypeOK, QueueInv, pvars
  <2>2. RowsInv'
    BY <1>3 DEF PipelineInv, RowsInv, RunningRows, RunsItsJob, KnowsItsRows, JobOf, pvars
  <2> QED
    BY <1>1, <2>1, <2>2 DEF PipelineInv
<1> QED
  BY <1>2, <1>3

\* The inductive invariant holds throughout.
THEOREM TranscodeInvariance == PipelineSpec => []PipelineInv
  BY PipelineInitInv, PipelineStepInv, PTL DEF PipelineSpec

\* The pipeline is a behaviour of the queue: whatever is proved of JobQueue holds
\* of its jobs.
THEOREM PipelineRunsTheQueue == PipelineSpec => Spec
<1>1. PipelineInit => Init
  BY DEF PipelineInit
<1>2. PipelineInv /\ [PipelineNext]_pvars => [Next]_vars
  BY PipelineQueueStep DEF PipelineInv
<1> QED
  BY <1>1, <1>2, TranscodeInvariance, PTL DEF PipelineSpec, Spec

\* So the queue keeps its promises to the producers, the handler and the operators.
THEOREM PipelineQueueKeepsPromises == PipelineSpec => QueuePromises
  BY PipelineRunsTheQueue, QueueKeepsPromises

\* Every variable keeps its type.
THEOREM PipelineTypeCorrect == PipelineSpec => []PipelineTypeOK
  BY TranscodeInvariance, PTL DEF PipelineInv

\* While workers keep their leases a submission has one running attempt at most,
\* which is the one its handler writes to; whatever is killed or fails.
THEOREM OneAttemptRuns == PipelineSpec => []OneRunningAttempt
<1>1. PipelineInv => OneRunningAttempt
  <2> SUFFICES ASSUME PipelineInv, stalls = 0
               PROVE  /\ \A s \in Keys : Cardinality(RunningRows(s)) <= 1
                      /\ \A c \in Consumers :
                           run[c].at \in {"announce", "work", "publish", "mark"}
                             => RunningRows(run[c].sub) = {run[c].mine}
    BY DEF OneRunningAttempt
  <2>1. ASSUME NEW s \in Keys PROVE Cardinality(RunningRows(s)) <= 1
    <3>1. \A i, k \in RunningRows(s) : i = k
      BY DEF PipelineInv, RowsInv
    <3>2. CASE RunningRows(s) = {}
      BY <3>2, FS_EmptySet
    <3>3. ASSUME NEW i \in RunningRows(s) PROVE Cardinality(RunningRows(s)) <= 1
      <4>1. RunningRows(s) = {i}
        BY <3>1, <3>3
      <4> QED
        BY <4>1, FS_Singleton
    <3> QED
      BY <3>2, <3>3
  <2>2. ASSUME NEW c \in Consumers, run[c].at \in {"announce", "work", "publish", "mark"}
        PROVE  RunningRows(run[c].sub) = {run[c].mine}
    <3>1. cons[c].pc = "running"
      BY <2>2 DEF PipelineInv, RowsInv, RunsItsJob, NotRunning, QueueInv, TypeOK, ConsumerState
    <3> QED
      BY <2>2, <3>1 DEF PipelineInv, RowsInv, KnowsItsRows
  <2> QED
    BY <2>1, <2>2
<1> QED
  BY <1>1, TranscodeInvariance, PTL

\* While workers keep their leases, no step takes 'ready' away.
THEOREM ReadyAlwaysStays == PipelineSpec => ReadyStays
<1> DEFINE Stays ==
      stalls' = 0 => \A s \in Keys : video[s].status = "ready" => video'[s].status = "ready"
<1>1. PipelineInv /\ [PipelineNext]_pvars => [Stays]_pvars
  <2> SUFFICES ASSUME PipelineInv, PipelineNext, stalls' = 0,
                      NEW s \in Keys, video[s].status = "ready"
               PROVE  video'[s].status = "ready"
    OBVIOUS
  <2>1. stalls = 0 /\ VideoMoves(s)
    BY PipelineQueueStep, StallsStay, PipelineMoves DEF PipelineInv, QueueInv, AllMove
  <2>2. ASSUME NEW c \in Consumers, At(c, "announce"), run[c].sub = s PROVE FALSE
    BY <2>1, <2>2 DEF PipelineInv, RowsInv, KnowsItsRows, At
  <2> QED
    BY <2>1, <2>2 DEF VideoMoves
<1>2. PipelineSpec => [][Stays]_pvars
  BY <1>1, TranscodeInvariance, PTL DEF PipelineSpec
<1> QED
  BY <1>2 DEF ReadyStays
-----------------------------------------------------------------------------
(***************************************************************************)
(* What the operator's page relies on, while no statement fails.  Resend   *)
(* can be absorbed by a dying job, a second operator can drop the row the  *)
(* first one is about to retry, and a broken lease lets two loops settle   *)
(* one job: they are left out.                                             *)
(***************************************************************************)
NothingFails ==
  /\ MaxStalls = 0 /\ ~DbFaults /\ WhatsAppSubs = {}
  /\ \A a, b \in Admins : a = b

\* Leases are kept all along.
LEMMA NeverStalls ==
  ASSUME NothingFails
  PROVE  /\ PipelineInv => stalls = 0
         /\ PipelineInv /\ [PipelineNext]_pvars => stalls' = 0
<1>1. TypeOK => stalls = 0
  BY DEF NothingFails, TypeOK
<1>2. TypeOK' => stalls' = 0
  BY DEF NothingFails, TypeOK
<1> QED
  BY <1>1, <1>2, PipelineStepInv DEF PipelineInv, QueueInv

\* A live job stays live, but for an outcome that ends it, the reaping of its last
\* attempt and Drop.
LEMMA LiveJobKept ==
  ASSUME PipelineInv, PipelineNext, stalls = 0, NEW j \in Jobs, Live(jobs[j]), ~Live(jobs'[j])
  PROVE  \/ \E c \in Consumers :
              /\ cons[c].pc = "recording" /\ ~cons[c].landed /\ JobOf(c) = j
              /\ cons[c].outcome # "interrupted" /\ ~Retrying(c) /\ UNCHANGED domain
         \/ \E p \in Procs : /\ ReapTranscodes(p) /\ j \in Lapsed
                              /\ jobs[j].attempts >= MaxAttempts[jobs[j].key]
         \/ \E a \in Admins : Drop(a) /\ jobs[j].key = admin[a].sub
<1>1. /\ jobs \in [Jobs -> Row] /\ jobs[j] \in Row /\ Consistent(jobs[j])
      /\ QueueInv /\ jobs[j].status \in {"queued", "running"}
  BY DEF PipelineInv, QueueInv, TypeOK, RowsConsistent, Live
<1>2. UNCHANGED jobs => FALSE
  OBVIOUS
<1>3. ASSUME NEW i \in Jobs, NEW k, Enqueue(i, k) PROVE FALSE
  BY <1>1, <1>3 DEF Enqueue, SetRow
<1>4. ASSUME NEW i \in Jobs, JobPasses(i) PROVE FALSE
  BY <1>1, <1>4 DEF JobPasses, BackoffElapse, LeaseLapse, Stall, SetRow, Live, Row
<1>5. ASSUME ProducerStep PROVE FALSE
  BY <1>2, <1>3, <1>5 DEF ProducerStep, Finalize, Resend, queue
<1>6. ASSUME NEW a \in Admins, OperatorStep(a)
      PROVE  Drop(a) /\ jobs[j].key = admin[a].sub
  <2>1. Drop(a) /\ Withdraw(admin[a].sub)
    BY <1>2, <1>3, <1>6 DEF OperatorStep, OpensVerb, OpenVerb, Refuse, Retry, Drop, queue
  <2>2. j \in Withdrawable(admin[a].sub)
    BY <1>1, <2>1 DEF Withdraw
  <2> QED
    BY <2>1, <2>2 DEF Withdrawable
<1>7. ASSUME NEW c \in Consumers, HandlerStep(c) PROVE FALSE
  BY <1>2, <1>7, HandlerLeavesQueue DEF queue
<1>8. ASSUME NEW c \in Consumers, LoopStep(c)
      PROVE  /\ cons[c].pc = "recording" /\ ~cons[c].landed /\ JobOf(c) = j
             /\ cons[c].outcome # "interrupted" /\ ~Retrying(c) /\ UNCHANGED domain
  <2>1. ASSUME NEW i \in Jobs, Claim(c, i) \/ ClaimLost(c, i) PROVE FALSE
    BY <1>1, <2>1, ClaimedRowFacts DEF Claim, ClaimLost, Runnable, SetRow, Live
  <2>2. Heartbeat(c) => FALSE
    BY <1>1 DEF Heartbeat, SetRow, Live, Row
  <2>3. HandBack(c) => FALSE
    <3>1. Busy(c) => JobOf(c) \in Jobs
      BY <1>1 DEF QueueInv, BusyHoldsJob, HoldsJob
    <3> QED
      BY <1>1, <3>1, AfterReleaseFacts DEF HandBack, SetRow, Busy, QueueInv
  <2>4. /\ Record(c) \/ AnswerLost(c)
        /\ UNCHANGED domain
    BY <1>2, <1>8, <2>1, <2>2, <2>3
       DEF LoopStep, TransportStep, HandBackVideo, TranscodeEnds, ClaimVideo, Begin,
           HandlerEnds, WriteFails
  <2>5. /\ cons[c].pc = "recording" /\ JobOf(c) \in Jobs
        /\ jobs' = [jobs EXCEPT ![JobOf(c)] = AfterOutcome(c)]
    BY <1>1, <2>4 DEF Record, AnswerLost, SetRow, QueueInv, BusyHoldsJob, HoldsJob, Busy
  <2>6. JobOf(c) = j /\ jobs'[j] = AfterOutcome(c)
    BY <1>1, <2>5
  <2>7. ~cons[c].landed
    BY <1>1, <2>5, <2>6, OutcomeEffect
  <2>8. cons[c].outcome # "interrupted" /\ ~Retrying(c)
    <3>1. AfterOutcome(c).status =
            CASE cons[c].outcome = "ok" -> "succeeded"
              [] cons[c].outcome = "interrupted" -> "queued"
              [] OTHER -> IF Retrying(c) THEN "queued" ELSE "dead"
      BY <1>1, <2>5, <2>7, OutcomeEffect
    <3>2. Retrying(c) => cons[c].outcome = "error"
      BY DEF Retrying, WillRetry
    <3> QED
      BY <2>6, <3>1, <3>2 DEF Live
  <2> QED
    BY <2>4, <2>5, <2>6, <2>7, <2>8
<1>9. ASSUME NEW p \in Procs, ReapTranscodes(p) \/ RepairStranded(p) \/ ProcessStep(p)
      PROVE  /\ ReapTranscodes(p) /\ j \in Lapsed
             /\ jobs[j].attempts >= MaxAttempts[jobs[j].key]
  <2>1. ASSUME NEW i \in Jobs, Prune(p, i) PROVE FALSE
    BY <1>1, <2>1 DEF Prune, SetRow, Finished
  <2>2. ReapTranscodes(p) /\ jobs' = ReapedJobs
    BY <1>2, <1>9, <2>1
       DEF ProcessStep, RepairStranded, KillWorker, ReapTranscodes, WorkerStep, PruneJob, Reap,
           Kill, Shutdown, Exit, Start, queue
  <2>3. jobs'[j] # jobs[j]
    OBVIOUS
  <2>4. j \in Lapsed
    BY <2>2, <2>3 DEF ReapedJobs
  <2> QED
    BY <1>1, <2>2, <2>3, <2>4, ReapedJobsFacts DEF QueueInv, Live
<1> QED
  BY <1>4, <1>5, <1>6, <1>7, <1>8, <1>9, PipelineCases

\* A row is added with the hand-over of the bytes and by Retry.
LEMMA NewJob ==
  ASSUME NothingFails, PipelineInv, PipelineNext, NEW j \in Jobs,
         jobs[j].status = "absent", jobs'[j].status # "absent"
  PROVE  \/ \E s \in Keys : Finalize(j, s) /\ jobs'[j].key = s
         \/ \E a \in Admins : Retry(a, j) /\ jobs'[j].key = admin[a].sub
<1>1. /\ jobs \in [Jobs -> Row] /\ QueueInv
  BY DEF PipelineInv, QueueInv, TypeOK
<1>2. UNCHANGED jobs => FALSE
  OBVIOUS
<1>3. ASSUME NEW i \in Jobs, NEW k, Enqueue(i, k)
      PROVE  i = j /\ (k \in Keys => jobs'[j].key = k)
  BY <1>1, <1>3, NewRowFacts DEF Enqueue, SetRow
<1>4. ASSUME NEW i \in Jobs, JobPasses(i) PROVE FALSE
  BY <1>1, <1>4 DEF JobPasses, BackoffElapse, LeaseLapse, Stall, SetRow
<1>5. ASSUME ProducerStep PROVE \E s \in Keys : Finalize(j, s) /\ jobs'[j].key = s
  <2>1. PICK i \in Jobs, s \in Keys : Finalize(i, s)
    BY <1>5 DEF ProducerStep, Resend, NothingFails
  <2> QED
    BY <1>3, <2>1 DEF Finalize
<1>6. ASSUME NEW a \in Admins, OperatorStep(a)
      PROVE  Retry(a, j) /\ jobs'[j].key = admin[a].sub
  <2>1. Withdraw(admin[a].sub) => FALSE
    BY <1>1 DEF Withdraw, NoRow
  <2>2. PICK i \in Jobs : Retry(a, i)
    BY <1>2, <1>6, <2>1 DEF OperatorStep, OpensVerb, OpenVerb, Refuse, Drop, queue
  <2>3. admin[a].sub \in Keys
    BY <2>2 DEF Retry, PipelineInv, PipelineTypeOK, NoRequest
  <2> QED
    BY <1>3, <2>2, <2>3 DEF Retry
<1>7. ASSUME NEW c \in Consumers, HandlerStep(c) PROVE FALSE
  BY <1>2, <1>7, HandlerLeavesQueue DEF queue
<1>8. ASSUME NEW c \in Consumers, LoopStep(c) PROVE FALSE
  <2>1. Busy(c) => JobOf(c) \in Jobs
    BY <1>1 DEF QueueInv, BusyHoldsJob, HoldsJob
  <2>2. ASSUME NEW i \in Jobs, Claim(c, i) \/ ClaimLost(c, i) PROVE FALSE
    BY <1>1, <2>2 DEF Claim, ClaimLost, Runnable, SetRow
  <2>3. Heartbeat(c) => FALSE
    BY <1>1, <2>1 DEF Heartbeat, SetRow, Busy
  <2>4. HandBack(c) => FALSE
    BY <1>1, <2>1 DEF HandBack, SetRow, Busy, AfterRelease, Releasable
  <2>5. Record(c) \/ AnswerLost(c) => FALSE
    BY <1>1, <2>1 DEF Record, AnswerLost, SetRow, Busy, AfterOutcome
  <2> QED
    BY <1>2, <1>8, <2>2, <2>3, <2>4, <2>5
       DEF LoopStep, TransportStep, HandBackVideo, TranscodeEnds, ClaimVideo, Begin,
           HandlerEnds, WriteFails
<1>9. ASSUME NEW p \in Procs, ReapTranscodes(p) \/ RepairStranded(p) \/ ProcessStep(p)
      PROVE  FALSE
  <2>1. ASSUME NEW i \in Jobs, Prune(p, i) PROVE FALSE
    BY <1>1, <2>1 DEF Prune, SetRow, NoRow
  <2>2. jobs' = ReapedJobs => FALSE
    BY <1>1 DEF ReapedJobs, Lapsed, Reapable
  <2> QED
    BY <1>2, <1>9, <2>1, <2>2
       DEF ProcessStep, RepairStranded, KillWorker, ReapTranscodes, WorkerStep, PruneJob, Reap,
           Kill, Shutdown, Exit, Start, queue
<1> QED
  BY <1>4, <1>5, <1>6, <1>7, <1>8, <1>9, PipelineCases

\* A video starts waiting when its bytes are handed over, when it is retried, by its
\* own handler, and when the reaper puts its job back.
LEMMA NewlyQueued ==
  ASSUME NothingFails, PipelineInv, PipelineNext, stalls = 0, NEW s \in Keys,
         video[s].status # "queued", video'[s].status = "queued"
  PROVE  \/ \E j \in Jobs : Enqueue(j, s)
         \/ KeyTaken(jobs, s) /\ UNCHANGED jobs
         \/ \E p \in Procs, j \in Lapsed :
              Reap(p) /\ jobs[j].key = s /\ jobs[j].attempts < MaxAttempts[s]
<1>1. video \in [Keys -> Video] /\ QueueInv
  BY DEF PipelineInv, PipelineTypeOK, Video
<1>2. video'[s] = video[s] => FALSE
  OBVIOUS
<1>3. ASSUME ProducerStep PROVE \E j \in Jobs : Enqueue(j, s)
  <2>1. PICK j \in Jobs, k \in Keys : Finalize(j, k)
    BY <1>3 DEF ProducerStep, Resend, NothingFails
  <2>2. k = s
    BY <1>1, <1>2, <2>1 DEF Finalize, SetStatus
  <2> QED
    BY <2>1, <2>2 DEF Finalize
<1>4. ASSUME NEW a \in Admins, OperatorStep(a) PROVE \E j \in Jobs : Enqueue(j, s)
  <2>1. CASE OpensVerb(a) \/ Refuse(a)
    BY <1>2, <2>1 DEF OpensVerb, OpenVerb, Refuse, domain
  <2>2. CASE Drop(a)
    BY <1>1, <1>2, <2>2 DEF Drop, SetStatus, Video
  <2>3. ASSUME NEW j \in Jobs, Retry(a, j) PROVE Enqueue(j, s)
    <3>1. admin[a].sub = s
      BY <1>1, <1>2, <2>3 DEF Retry, SetStatus
    <3> QED
      BY <2>3, <3>1 DEF Retry
  <2> QED
    BY <1>4, <2>1, <2>2, <2>3 DEF OperatorStep
<1>5. ASSUME NEW c \in Consumers, HandlerStep(c) PROVE KeyTaken(jobs, s) /\ UNCHANGED jobs
  <2>1. cons[c].pc = "running" /\ UNCHANGED jobs
    BY <1>5, HandlerLeavesQueue DEF queue
  <2>2. run[c].sub = s
    BY <1>1, <1>2, <1>5, HandlerWritesItsOwn DEF PipelineInv, PipelineTypeOK, RowTypes
  <2> QED
    BY <1>1, <2>1, <2>2, HandlerOwns, OwnerLeased
<1>6. ASSUME NEW p \in Procs, ReapTranscodes(p)
      PROVE  \E j \in Lapsed : jobs[j].key = s /\ jobs[j].attempts < MaxAttempts[s]
  <2>1. s \in ReapedSubs
    BY <1>2, <1>6 DEF ReapTranscodes
  <2>2. PICK j \in Lapsed : jobs[j].key = s
    BY <2>1 DEF ReapedSubs
  <2>3. video'[s] = [video[s] EXCEPT !.status = Repaired(s)]
    BY <1>6, <2>1 DEF ReapTranscodes, NothingFails
  <2>4. ~DeadLettered(s)
    BY <1>1, <2>3 DEF Repaired, Video
  <2>5. /\ jobs[j].attempts \in Nat /\ MaxAttempts[s] \in Nat
        /\ ~(jobs[j].attempts >= MaxAttempts[s])
    BY <1>1, <2>2, <2>4, JobQueueAssumption DEF QueueInv, TypeOK, Row, Lapsed, DeadLettered
  <2> QED
    BY <2>2, <2>5
<1>7. ASSUME NEW p \in Procs, RepairStranded(p) PROVE FALSE
  BY <1>1, <1>2, <1>7 DEF RepairStranded, Video
<1>8. CASE UNCHANGED domain
  BY <1>2, <1>8 DEF domain
<1> QED
  BY <1>3, <1>4, <1>5, <1>6, <1>7, <1>8, PipelineCases, QueueLeavesRows DEF ReapTranscodes

\* A video that waits after a step has a job after it.
LEMMA QueuedKeepsJob ==
  ASSUME NothingFails, PipelineInv, PromisesInv, PipelineNext, stalls = 0
  PROVE  \A s \in Keys : video'[s].status = "queued" => KeyTaken(jobs', s)
<1> SUFFICES ASSUME NEW s \in Keys, video'[s].status = "queued" PROVE KeyTaken(jobs', s)
  OBVIOUS
<1>1. /\ jobs \in [Jobs -> Row] /\ jobs' \in [Jobs -> Row] /\ QueueInv /\ QueueInv'
      /\ video \in [Keys -> Video] /\ [Next]_vars
  BY PipelineStepInv, PipelineQueueStep
     DEF PipelineInv, PipelineTypeOK, Video, QueueInv, TypeOK
<1>2. CASE video[s].status # "queued"
  <2>1. ASSUME NEW j \in Jobs, Enqueue(j, s) PROVE KeyTaken(jobs', s)
    BY <1>1, <2>1, NewRowFacts DEF Enqueue, SetRow, KeyTaken, Live
  <2>2. KeyTaken(jobs, s) /\ UNCHANGED jobs => KeyTaken(jobs', s)
    BY DEF KeyTaken
  <2>3. ASSUME NEW p \in Procs, NEW j \in Lapsed, Reap(p), jobs[j].key = s,
               jobs[j].attempts < MaxAttempts[s]
        PROVE  KeyTaken(jobs', s)
    <3>1. j \in Jobs /\ jobs'[j] = ReapedRow(jobs[j], MaxAttempts[s])
      BY <2>3 DEF Reap, ReapedJobs, Lapsed
    <3>2. jobs[j].attempts \in Nat /\ MaxAttempts[s] \in Nat
      BY <1>1, <3>1, JobQueueAssumption DEF Row
    <3>3. jobs'[j] = Unlocked(jobs[j], "queued")
      BY <2>3, <3>1, <3>2 DEF ReapedRow
    <3>4. jobs'[j].status = "queued" /\ jobs'[j].key = s
      BY <1>1, <2>3, <3>1, <3>3 DEF Unlocked, Row
    <3> QED
      BY <1>1, <3>1, <3>4 DEF KeyTaken, Live
  <2> QED
    BY <1>2, <2>1, <2>2, <2>3, NewlyQueued
<1>3. CASE video[s].status = "queued"
  <2>1. PICK j \in Jobs : Live(jobs[j]) /\ jobs[j].key = s
    BY <1>1, <1>3 DEF PromisesInv, QueuedHasJob, HasLiveJob, KeyTaken
  <2>2. ASSUME NEW c \in Consumers,
               cons[c].pc = "recording", ~cons[c].landed, JobOf(c) = j,
               cons[c].outcome # "interrupted", ~Retrying(c)
        PROVE  FALSE
    <3>1. cons[c].outcome = "error" /\ ~Last(c, "error", s)
      BY <1>3, <2>1, <2>2 DEF PromisesInv, OutcomeSettles
    <3>2. cons[c].att \in Nat /\ MaxAttempts[s] \in Nat
      BY <1>1, JobQueueAssumption DEF QueueInv, TypeOK, ConsumerState
    <3>3. jobs[j].status # "absent"
      BY <2>1 DEF Live
    <3> QED
      BY <2>1, <2>2, <3>1, <3>2, <3>3 DEF Retrying, WillRetry, Last
  <2>3. ASSUME NEW p \in Procs, ReapTranscodes(p), j \in Lapsed,
               jobs[j].attempts >= MaxAttempts[jobs[j].key]
        PROVE  FALSE
    <3>1. s \in ReapedSubs /\ DeadLettered(s)
      BY <2>1, <2>3 DEF ReapedSubs, DeadLettered
    <3>2. video'[s] = [video[s] EXCEPT !.status = Repaired(s)]
      BY <2>3, <3>1 DEF ReapTranscodes, NothingFails
    <3>3. video'[s].status = "failed"
      BY <1>1, <1>3, <3>1, <3>2 DEF Repaired, Video
    <3> QED
      BY <3>3
  <2>4. ASSUME NEW a \in Admins, Drop(a), jobs[j].key = admin[a].sub PROVE FALSE
    BY <1>1, <2>1, <2>4 DEF Drop, SetStatus, Video
  <2>5. Live(jobs'[j])
    BY <2>1, <2>2, <2>3, <2>4, LiveJobKept
  <2>6. jobs'[j].key = s
    BY <1>1, <2>1, <2>5, KeyKept DEF Live
  <2> QED
    BY <1>1, <2>5, <2>6 DEF KeyTaken
<1> QED
  BY <1>2, <1>3

\* Only Drop makes a submission's latest attempt a dropped one.
LEMMA LatestKept ==
  ASSUME NEW old \in Seq(AttemptStatus), NEW new, RowsKept(old, new),
         new # <<>>, new[Len(new)] = "dropped"
  PROVE  old # <<>> /\ old[Len(old)] = "dropped"
<1>1. new \in Seq(AttemptStatus) /\ Len(new) \in Nat /\ Len(old) \in Nat
  BY DEF RowsKept
<1>2. Len(new) # 0
  BY <1>1
<1>3. Len(new) = Len(old) /\ Len(old) \in 1..Len(old)
  BY <1>1, <1>2 DEF RowsKept
<1> QED
  BY <1>1, <1>3 DEF RowsKept

\* A dropped submission gets no job: neither a hand-over nor a retry is for one.
LEMMA DroppedStaysOut ==
  ASSUME NothingFails, PipelineInv, PromisesInv, PipelineNext, stalls = 0, stalls' = 0
  PROVE  DroppedIsNotRun'
<1> SUFFICES ASSUME NEW s \in Keys, Latest(s)' = "dropped" PROVE ~KeyTaken(jobs', s)
  BY DEF DroppedIsNotRun, HasLiveJob
<1>1. /\ jobs \in [Jobs -> Row] /\ jobs' \in [Jobs -> Row] /\ QueueInv /\ QueueInv'
      /\ [Next]_vars /\ RowTypes /\ RowTypes'
  BY PipelineStepInv, PipelineQueueStep
     DEF PipelineInv, PipelineTypeOK, RowTypes, Video, QueueInv, TypeOK
<1>2. ledger'[s] # <<>> /\ ledger'[s][Len(ledger'[s])] = "dropped"
  BY DEF Latest
<1>3. CASE Latest(s) = "dropped"
  <2> SUFFICES ASSUME NEW j \in Jobs, Live(jobs'[j]), jobs'[j].key = s PROVE FALSE
    BY <1>1 DEF KeyTaken
  <2>1. ~Live(jobs[j])
    <3>1. Live(jobs[j]) => jobs[j].key = s
      BY <1>1, KeyKept DEF Live
    <3> QED
      BY <1>1, <1>3, <3>1 DEF PromisesInv, DroppedIsNotRun, HasLiveJob, KeyTaken
  <2>2. ~Finished(jobs[j])
    <3>1. Finished(jobs[j]) => Next
      BY <1>1, <2>1 DEF vars
    <3>2. Finished(jobs[j]) => jobs'[j] = jobs[j] \/ jobs'[j] = NoRow
      BY <1>1, <3>1, FinishedKept
    <3> QED
      BY <2>1, <3>2 DEF NoRow, Live
  <2>3. jobs[j].status = "absent" /\ jobs'[j].status # "absent"
    BY <1>1, <2>1, <2>2 DEF Live, Finished, Row, RowStatus
  <2>4. ASSUME NEW k \in Keys, Finalize(j, k), jobs'[j].key = k PROVE FALSE
    BY <1>3, <2>4 DEF Finalize, PromisesInv, VerbInv, Latest
  <2>5. ASSUME NEW a \in Admins, Retry(a, j), jobs'[j].key = admin[a].sub PROVE FALSE
    <3>1. /\ admin[a].verb # "none" /\ admin[a].sub = s /\ admin[a].row = Len(ledger[s])
      BY <2>5 DEF Retry, RetryAllowed, LatestRow
    <3> QED
      BY <1>3, <3>1 DEF PromisesInv, VerbInv, Latest
  <2> QED
    BY <2>3, <2>4, <2>5, NewJob
<1>4. CASE Latest(s) # "dropped"
  <2>1. ~RowsKept(ledger[s], ledger'[s])
    BY <1>1, <1>2, <1>4, LatestKept DEF Latest, RowTypes
  <2>2. PICK a \in Admins : Drop(a) /\ admin[a].sub = s
    BY <1>1, <2>1, PipelineMoves DEF AllMove, RowsMove, PipelineInv
  <2>3. CASE Withdrawable(s) = {}
    BY <1>1, <2>2, <2>3
       DEF Drop, DropAllowed, HasRunningJob, Withdrawable, KeyTaken, Live, queue
  <2>4. CASE Withdrawable(s) # {}
    <3>1. /\ jobs' = [j \in Jobs |-> IF j \in Withdrawable(s) THEN NoRow ELSE jobs[j]]
          /\ ~HasRunningJob(s)
      BY <2>2, <2>4 DEF Drop, Withdraw, DropAllowed
    <3> SUFFICES ASSUME NEW j \in Jobs, Live(jobs'[j]), jobs'[j].key = s PROVE FALSE
      BY <1>1 DEF KeyTaken
    <3> QED
      BY <3>1 DEF Withdrawable, HasRunningJob, Live, NoRow
  <2> QED
    BY <2>3, <2>4
<1> QED
  BY <1>3, <1>4

\* A submission with no job gets no attempt but by the repair of stranded ones.
LEMMA NoJobNoAttempt ==
  ASSUME NothingFails, PipelineInv, PromisesInv, PipelineNext, stalls = 0,
         NEW s \in Keys, video[s].status = "received"
  PROVE  ledger'[s] = <<>>
<1>1. /\ RowTypes /\ QueueInv /\ jobs \in [Jobs -> Row]
      /\ ledger[s] = <<>> /\ \A j \in Jobs : jobs[j].key # s
  BY DEF PipelineInv, PipelineTypeOK, RowTypes, Video, QueueInv, TypeOK, PromisesInv, VerbInv
<1>2. CASE UNCHANGED ledger
  BY <1>1, <1>2
<1>3. ASSUME NEW a \in Admins, Drop(a) PROVE ledger'[s] = <<>>
  <2>1. admin[a].row \in DOMAIN ledger[admin[a].sub]
    BY <1>3 DEF Drop, PromisesInv, VerbInv
  <2>2. admin[a].sub # s
    BY <1>1, <2>1
  <2> QED
    BY <1>1, <1>3, <2>2 DEF Drop, RowTypes
<1>4. ASSUME NEW c \in Consumers, HandlerStep(c) PROVE ledger'[s] = <<>>
  <2>1. cons[c].pc = "running"
    BY <1>4, HandlerLeavesQueue
  <2>2. run[c].sub # s
    BY <1>1, <2>1, HandlerOwns, OwnerLeased
  <2> QED
    BY <1>1, <1>4, <2>2, HandlerWritesItsOwn
<1>5. ASSUME NEW p \in Procs, ReapTranscodes(p) PROVE ledger'[s] = <<>>
  <2>1. s \notin ReapedSubs
    BY <1>1 DEF ReapedSubs, Lapsed
  <2> QED
    BY <1>1, <1>5, <2>1 DEF ReapTranscodes
<1>6. ASSUME NEW p \in Procs, RepairStranded(p) PROVE ledger'[s] = <<>>
  <2>1. RunningRows(s) = {}
    BY <1>1 DEF RunningRows
  <2>2. ~OrphanRows(s) /\ ~NeedsRecord(s)
    BY <2>1 DEF OrphanRows, NeedsRecord, StrandedVideo, Unrecorded
  <2> QED
    BY <1>1, <1>6, <2>2 DEF RepairStranded
<1>7. ProducerStep => UNCHANGED ledger
  BY DEF ProducerStep, Finalize, Resend
<1>8. ASSUME NEW a \in Admins, OperatorStep(a) PROVE UNCHANGED ledger \/ Drop(a)
  BY <1>8 DEF OperatorStep, OpensVerb, OpenVerb, Refuse, Retry, domain
<1> QED
  BY <1>2, <1>3, <1>4, <1>5, <1>6, <1>7, <1>8, PipelineCases, QueueLeavesRows DEF domain

\* Where a request points is fixed, and its row is not dropped under it.
LEMMA VerbsKept ==
  ASSUME NothingFails, PipelineInv, PromisesInv, PipelineNext, stalls = 0
  PROVE  VerbInv'
<1>1. /\ jobs \in [Jobs -> Row] /\ QueueInv /\ QueueInv' /\ [Next]_vars /\ RowTypes
      /\ admin \in [Admins -> Request] /\ AllMove
  BY PipelineStepInv, PipelineQueueStep, PipelineMoves
     DEF PipelineInv, PipelineTypeOK, RowTypes, Video, QueueInv, TypeOK, Request
<1>2. ASSUME NEW s \in Keys, video'[s].status = "received"
      PROVE  ledger'[s] = <<>> /\ \A j \in Jobs : jobs'[j].key # s
  <2>1. video[s].status = "received"
    BY <1>1, <1>2 DEF AllMove, VideoMoves
  <2>2. ledger'[s] = <<>>
    BY <2>1, NoJobNoAttempt
  <2>3. ASSUME NEW j \in Jobs, jobs'[j].key = s PROVE FALSE
    <3>1. jobs'[j].status # "absent"
      BY <1>1, <2>3, JobQueueAssumption DEF QueueInv, RowsConsistent, Consistent, NoRow
    <3>2. jobs[j].key # s
      BY <2>1 DEF PromisesInv, VerbInv
    <3>3. jobs[j].status = "absent"
      BY <1>1, <2>3, <3>1, <3>2, KeyKept
    <3>4. ASSUME NEW k \in Keys, Finalize(j, k), jobs'[j].key = k PROVE FALSE
      BY <1>1, <1>2, <2>3, <3>4 DEF Finalize, SetStatus, RowTypes, Video
    <3>5. ASSUME NEW a \in Admins, Retry(a, j), jobs'[j].key = admin[a].sub PROVE FALSE
      BY <2>1, <2>3, <3>5 DEF Retry, RetryAllowed
    <3> QED
      BY <3>1, <3>3, <3>4, <3>5, NewJob
  <2> QED
    BY <2>2, <2>3
<1>3. ASSUME NEW a \in Admins, admin'[a].verb # "none"
      PROVE  /\ admin'[a].row \in DOMAIN ledger'[admin'[a].sub]
             /\ ledger'[admin'[a].sub][admin'[a].row] # "dropped"
  <2>1. CASE admin'[a] = admin[a]
    <3> DEFINE s == admin[a].sub
               i == admin[a].row
    <3>1. s \in Keys /\ i \in DOMAIN ledger[s] /\ ledger[s][i] # "dropped"
      BY <1>1, <1>3, <2>1 DEF PromisesInv, VerbInv, Request, NoRequest
    <3>2. ASSUME NEW b \in Admins, Drop(b) PROVE FALSE
      <4>1. a = b
        BY <3>2 DEF NothingFails
      <4> QED
        BY <1>1, <1>3, <3>2, <4>1 DEF Drop, NoRequest
    <3>3. RowsKept(ledger[s], ledger'[s]) /\ ledger[s] \in Seq(AttemptStatus)
      BY <1>1, <3>1, <3>2 DEF AllMove, RowsMove, RowTypes
    <3>4. i \in 1..Len(ledger[s]) /\ i \in 1..Len(ledger'[s]) /\ ledger'[s] \in Seq(AttemptStatus)
      BY <3>1, <3>3 DEF RowsKept
    <3> QED
      BY <2>1, <3>1, <3>3, <3>4 DEF RowsKept
  <2>2. CASE admin'[a] # admin[a]
    <3>1. PICK b \in Admins : OperatorStep(b)
      BY <2>2, PipelineCases, HandlerLeavesQueue
         DEF ProducerStep, Finalize, Resend, LoopStep, TransportStep, HandBackVideo,
             TranscodeEnds, ClaimVideo, ReapTranscodes, RepairStranded, ProcessStep, KillWorker,
             WorkerStep, PruneJob, JobPasses, operators
    <3>2. b = a
      BY <3>1 DEF NothingFails
    <3>3. admin' = [admin EXCEPT ![a] = NoRequest] => FALSE
      BY <1>1, <1>3 DEF NoRequest
    <3>4. PICK s \in Keys, verb \in {"retry", "drop"} :
             \E i \in DOMAIN ledger[s] : OpenVerb(a, verb, s, i)
      BY <3>1, <3>2, <3>3 DEF OperatorStep, OpensVerb, Refuse, Drop, Retry
    <3>5. PICK i \in DOMAIN ledger[s] : OpenVerb(a, verb, s, i)
      BY <3>4
    <3> QED
      BY <1>1, <3>5 DEF OpenVerb, domain
  <2> QED
    BY <2>1, <2>2
<1> QED
  BY <1>2, <1>3 DEF VerbInv

\* What a loop that does not move has settled, stays so.
LEMMA SettlesFrame ==
  ASSUME NothingFails, PipelineInv, PromisesInv, PipelineNext, stalls = 0, stalls' = 0,
         NEW c \in Consumers, cons'[c] = cons[c], run'[c] = run[c], ~HandlerStep(c)
  PROVE  RunSettles(c)' /\ OutcomeSettles(c)'
<1>1. /\ [Next]_vars /\ QueueInv /\ QueueInv' /\ RunSettles(c) /\ OutcomeSettles(c)
  BY PipelineQueueStep, PipelineStepInv DEF PipelineInv, PromisesInv
<1>2. CASE ~Owns(c)
  <2>1. cons[c].pc # "running" /\ (cons[c].pc = "recording" => cons[c].landed)
    BY <1>1, <1>2 DEF Owns, Busy, QueueInv, BusyHoldsJob, HoldsJob
  <2> QED
    BY <2>1 DEF RunSettles, OutcomeSettles
<1>3. CASE Owns(c)
  <2> DEFINE s == jobs[JobOf(c)].key
  <2>1. video'[s] = video[s]
    BY <1>3, OwnerAlone DEF NothingFails
  <2>2. JobOf(c)' = JobOf(c) /\ jobs'[JobOf(c)].key = s
    BY <1>1, <1>3, LeaseKeeps DEF Owns, JobOf
  <2>3. Stopping(c) => Stopping(c)'
    BY <1>1, <1>3, StoppingStays DEF Owns, QueueInv
  <2>4. cons[c].pc = "running" => run[c].sub = s
    BY HandlerOwns
  <2>5. RunSettles(c)'
    BY <1>1, <2>1, <2>3, <2>4 DEF RunSettles, Last
  <2>6. OutcomeSettles(c)'
    BY <1>1, <2>1, <2>2 DEF OutcomeSettles, Last
  <2> QED
    BY <2>5, <2>6
<1> QED
  BY <1>2, <1>3

\* The catch block ends with the video failed, or left to a retry that will come.
LEMMA HandlerSettles ==
  ASSUME NothingFails, PipelineInv, PromisesInv, stalls = 0, NEW c \in Consumers, HandlerStep(c)
  PROVE  RunSettles(c)' /\ OutcomeSettles(c)'
<1> DEFINE s == run[c].sub
<1>1. /\ cons[c].pc = "running" /\ UNCHANGED <<cons, proc, jobs>> /\ s \in Keys
      /\ run \in [Consumers -> Call] /\ video \in [Keys -> Video] /\ RunSettles(c)
      /\ cons[c].att \in Nat /\ MaxAttempts[s] \in Nat
  BY HandlerLeavesQueue, HandlerOwns, JobQueueAssumption
     DEF PipelineInv, PipelineTypeOK, QueueInv, TypeOK, ConsumerState, Call, Video, PromisesInv,
         queue
<1>2. OutcomeSettles(c)'
  BY <1>1 DEF OutcomeSettles
<1>3. Stopping(c)' <=> Stopping(c)
  BY <1>1 DEF Stopping
<1>4. ASSUME NEW step \in Steps \ {"cancelRow", "requeue", "threw"}, Goto(c, step)
      PROVE  RunSettles(c)'
  <2>1. run'[c].at = step
    BY <1>1, <1>4 DEF Goto, Call, NotRunning
  <2> QED
    BY <2>1 DEF RunSettles
<1>5. ASSUME NEW kind, Throw(c, kind) PROVE RunSettles(c)'
  <2>1. /\ run'[c].at # "threw"
        /\ run'[c].at \in {"cancelRow", "requeue"} => Stopping(c)
    BY <1>1, <1>5 DEF Throw, Call
  <2> QED
    BY <1>3, <2>1 DEF RunSettles
<1>6. CASE Check(c) \/ Work(c)
  BY <1>2, <1>4, <1>5, <1>6 DEF Check, Work, Steps
<1>7. CASE CloseRunning(c) \/ Announce(c) \/ Publish(c) \/ MarkSucceeded(c)
  BY <1>2, <1>4, <1>5, <1>7
     DEF CloseRunning, Announce, Publish, MarkSucceeded, Statement, Steps
<1>8. CASE OpenRow(c)
  <2>1. run'[c] = [at |-> "announce", sub |-> s, mine |-> Len(ledger[s]) + 1,
                   threw |-> run[c].threw]
    BY <1>1, <1>8 DEF OpenRow, NothingFails
  <2> QED
    BY <1>2, <2>1 DEF RunSettles
<1>9. CASE CancelRow(c)
  <2>1. run[c].at = "cancelRow" /\ Goto(c, "requeue")
    BY <1>9 DEF CancelRow, Attempted, At
  <2>2. run'[c].at = "requeue" /\ Stopping(c)
    BY <1>1, <2>1 DEF Goto, Call, NotRunning, RunSettles
  <2> QED
    BY <1>2, <1>3, <2>2 DEF RunSettles
<1>10. CASE Requeue(c)
  <2>1. run[c].at = "requeue" /\ Goto(c, "threw")
    BY <1>10 DEF Requeue, Attempted, At
  <2>2. run'[c].at = "threw" /\ Stopping(c)
    BY <1>1, <2>1 DEF Goto, Call, NotRunning, RunSettles
  <2> QED
    BY <1>2, <1>3, <2>2 DEF RunSettles
<1>11. CASE FailRow(c)
  BY <1>2, <1>4, <1>11 DEF FailRow, Attempted, Steps
<1>12. CASE FailVideo(c)
  <2>1. /\ Goto(c, "threw")
        /\ video' = [video EXCEPT ![s].status =
                       IF @ = "ready" THEN @
                       ELSE IF FinalAttempt(c) THEN "failed" ELSE "queued"]
    BY <1>12 DEF FailVideo, Attempted, NothingFails
  <2>2. run'[c].at = "threw" /\ run'[c].sub = s /\ run'[c].threw = run[c].threw
    BY <1>1, <2>1 DEF Goto, Call, NotRunning
  <2>3. FinalAttempt(c) => video'[s].status # "queued"
    BY <1>1, <2>1 DEF Video
  <2>4. FinalAttempt(c) <=> Last(c, run[c].threw, s)'
    BY <1>1, <2>2 DEF FinalAttempt, Last
  <2> QED
    BY <1>2, <2>2, <2>3, <2>4 DEF RunSettles, Last
<1> QED
  BY <1>2, <1>6, <1>7, <1>8, <1>9, <1>10, <1>11, <1>12 DEF HandlerStep

\* A loop hands its handler's result to the queue, and writes it.
LEMMA LoopSettles ==
  ASSUME NothingFails, PipelineInv, PromisesInv, PipelineNext, stalls = 0, stalls' = 0,
         NEW c \in Consumers, LoopStep(c), ~HandlerStep(c)
  PROVE  RunSettles(c)' /\ OutcomeSettles(c)'
<1>1. /\ cons \in [Consumers -> ConsumerState] /\ cons[c] \in ConsumerState
      /\ run \in [Consumers -> Call] /\ RunSettles(c) /\ OutcomeSettles(c)
      /\ UNCHANGED domain /\ RunsItsJob(c) /\ KnowsItsRows(c)
  BY QueueLeavesRows
     DEF PipelineInv, PipelineTypeOK, QueueInv, TypeOK, Call, PromisesInv, RowsInv
<1>2. cons'[c].pc \notin {"running", "recording"} => RunSettles(c)' /\ OutcomeSettles(c)'
  BY DEF RunSettles, OutcomeSettles
<1>3. (cons'[c] = cons[c] /\ run'[c] = run[c]) => RunSettles(c)' /\ OutcomeSettles(c)'
  BY SettlesFrame
<1>4. CASE \E j \in Jobs : ClaimVideo(c, j)
  <2>1. cons'[c].pc = "claimed"
    BY <1>1, <1>4 DEF ClaimVideo, Claim, SetCons, Holding
  <2> QED
    BY <1>2, <2>1
<1>5. CASE HandBackVideo(c)
  <2>1. cons'[c].pc = "idle"
    BY <1>1, <1>5 DEF HandBackVideo, HandBack, SetCons, Idle
  <2> QED
    BY <1>2, <2>1
<1>6. CASE Begin(c) /\ UNCHANGED run
  <2>1. /\ cons'[c] = [cons[c] EXCEPT !.pc = "running"] /\ run'[c].at = "check"
    BY <1>1, <1>6 DEF Begin, SetCons, RunsItsJob
  <2>2. cons'[c].pc = "running"
    BY <1>1, <2>1 DEF ConsumerState
  <2> QED
    BY <2>1, <2>2 DEF RunSettles, OutcomeSettles
<1>7. CASE Heartbeat(c) /\ UNCHANGED run
  BY <1>3, <1>7 DEF Heartbeat
<1>8. CASE (\E j \in Jobs : ClaimLost(c, j)) /\ UNCHANGED run
  BY <1>3, <1>8 DEF ClaimLost
<1>9. ASSUME NEW result, HandlerEnds(c, result),
             result = "ok" => run[c].at = "returned",
             result # "ok" => run[c].at = "threw" /\ result = run[c].threw
      PROVE  RunSettles(c)' /\ OutcomeSettles(c)'
  <2> DEFINE outcome == IF Stopping(c) /\ result # "ok" THEN "interrupted" ELSE result
  <2>1. /\ cons'[c] = [cons[c] EXCEPT !.pc = "recording", !.outcome = outcome]
        /\ cons[c].pc = "running" /\ UNCHANGED <<jobs, proc>>
    BY <1>1, <1>9 DEF HandlerEnds, SetCons
  <2>2. /\ cons'[c].pc = "recording" /\ cons'[c].job = cons[c].job
        /\ cons'[c].outcome = outcome /\ cons'[c].att = cons[c].att
    BY <1>1, <2>1 DEF ConsumerState
  <2>3. run[c].sub = jobs[JobOf(c)].key /\ run[c].threw \in {"error", "permanent"}
    BY <1>1, <2>1, HandlerOwns DEF Call, NotRunning
  <2>4. \/ outcome = "interrupted"
        \/ outcome = "error" /\ ~Last(c, "error", run[c].sub)
        \/ video[run[c].sub].status # "queued"
    <3>1. CASE result = "ok"
      BY <1>1, <1>9, <2>1, <3>1 DEF KnowsItsRows
    <3>2. CASE result # "ok" /\ ~Stopping(c)
      BY <1>1, <1>9, <2>1, <2>3, <3>2 DEF RunSettles, Last
    <3>3. CASE result # "ok" /\ Stopping(c)
      BY <3>3
    <3> QED
      BY <3>1, <3>2, <3>3
  <2> QED
    BY <1>1, <2>1, <2>2, <2>3, <2>4 DEF RunSettles, OutcomeSettles, Last, JobOf, domain
<1>10. CASE TranscodeEnds(c)
  <2>1. run[c].threw \in {"error", "permanent"}
    BY <1>1 DEF Call, NotRunning
  <2> QED
    BY <1>9, <1>10, <2>1 DEF TranscodeEnds
<1>11. CASE Record(c)
  <2>1. cons'[c].pc = "idle"
    BY <1>1, <1>11 DEF Record, SetCons, Idle
  <2> QED
    BY <1>2, <2>1
<1>12. CASE WriteFails(c)
  <2>1. UNCHANGED jobs /\ cons[c].pc = "recording" /\ cons'[c] = NextTry(c, FALSE)
    BY <1>1, <1>12 DEF WriteFails, SetCons
  <2>2. \/ cons'[c].pc = "idle"
        \/ /\ cons'[c].pc = "recording" /\ cons'[c].job = cons[c].job
           /\ cons'[c].outcome = cons[c].outcome /\ cons'[c].att = cons[c].att
           /\ ~cons'[c].landed => ~cons[c].landed
    BY <1>1, <2>1 DEF NextTry, Idle, ConsumerState
  <2> QED
    BY <1>1, <1>2, <2>1, <2>2 DEF RunSettles, OutcomeSettles, Last, JobOf, domain
<1>13. CASE AnswerLost(c)
  <2>1. cons'[c] = NextTry(c, TRUE) /\ cons[c].pc = "recording"
    BY <1>1, <1>13 DEF AnswerLost, SetCons
  <2>2. CASE cons[c].tries + 1 < OutcomeWriteAttempts
    <3>1. cons'[c] = [cons[c] EXCEPT !.tries = @ + 1, !.landed = @ \/ TRUE]
      BY <2>1, <2>2 DEF NextTry
    <3>2. cons'[c].landed = (cons[c].landed \/ TRUE)
      BY <1>1, <3>1, Zenon DEF ConsumerState
    <3>3. cons'[c].landed
      BY <3>2
    <3>4. cons'[c].pc = "recording"
      BY <1>1, <2>1, <3>1 DEF ConsumerState
    <3> QED
      BY <3>3, <3>4 DEF RunSettles, OutcomeSettles
  <2>3. CASE ~(cons[c].tries + 1 < OutcomeWriteAttempts)
    BY <1>2, <2>1, <2>3 DEF NextTry, Idle
  <2> QED
    BY <2>2, <2>3
<1> QED
  BY <1>4, <1>5, <1>6, <1>7, <1>8, <1>10, <1>11, <1>12, <1>13 DEF LoopStep, TransportStep

\* The promises follow from one state to the next.
LEMMA PromisesStep ==
  ASSUME NothingFails, PipelineInv, PromisesInv, [PipelineNext]_pvars
  PROVE  PromisesInv'
<1>1. stalls = 0 /\ stalls' = 0
  BY NeverStalls
<1>2. CASE UNCHANGED pvars
  BY <1>2
     DEF pvars, PromisesInv, QueuedHasJob, DroppedIsNotRun, VerbInv, RunSettles, OutcomeSettles,
         Latest, HasLiveJob, Last, Stopping, JobOf
<1>3. CASE PipelineNext
  <2>1. QueuedHasJob'
    BY <1>1, <1>3, QueuedKeepsJob DEF QueuedHasJob, HasLiveJob
  <2>2. DroppedIsNotRun' /\ VerbInv'
    BY <1>1, <1>3, DroppedStaysOut, VerbsKept
  <2>3. ASSUME NEW c \in Consumers PROVE RunSettles(c)' /\ OutcomeSettles(c)'
    <3>1. CASE HandlerStep(c)
      BY <1>1, <3>1, HandlerSettles
    <3>2. CASE LoopStep(c) /\ ~HandlerStep(c)
      BY <1>1, <1>3, <3>2, LoopSettles
    <3>3. CASE ~LoopStep(c) /\ ~HandlerStep(c) /\ \A p \in Procs : KillWorker(p) => ProcOf[c] # p
      BY <1>1, <1>3, <3>3, OthersLeaveLoop, SettlesFrame
    <3>4. ASSUME NEW p \in Procs, KillWorker(p), ProcOf[c] = p
          PROVE  RunSettles(c)' /\ OutcomeSettles(c)'
      <4>1. cons'[c].pc = "idle"
        BY <3>4 DEF KillWorker, Kill, LoopsEnd, Idle
      <4> QED
        BY <4>1 DEF RunSettles, OutcomeSettles
    <3> QED
      BY <3>1, <3>2, <3>3, <3>4
  <2> QED
    BY <2>1, <2>2, <2>3 DEF PromisesInv
<1> QED
  BY <1>2, <1>3

\* They hold at first.
LEMMA PromisesInit == PipelineInit => PromisesInv
<1> SUFFICES ASSUME PipelineInit PROVE PromisesInv
  OBVIOUS
<1>1. /\ \A s \in Keys : video[s].status = "received" /\ ledger[s] = <<>>
      /\ \A j \in Jobs : jobs[j] = NoRow
      /\ \A c \in Consumers : cons[c] = Idle
      /\ \A a \in Admins : admin[a] = NoRequest
  BY DEF PipelineInit, Init
<1>2. VerbInv
  BY <1>1, JobQueueAssumption DEF VerbInv, NoRow, NoRequest
<1>3. QueuedHasJob /\ DroppedIsNotRun
  BY <1>1 DEF QueuedHasJob, DroppedIsNotRun, Latest
<1>4. \A c \in Consumers : RunSettles(c) /\ OutcomeSettles(c)
  BY <1>1 DEF RunSettles, OutcomeSettles, Idle
<1> QED
  BY <1>2, <1>3, <1>4 DEF PromisesInv

\* While no statement fails, leases are kept and one operator acts at a time: a
\* video shown as queued has a job coming, and a dropped one has none.
THEOREM TranscodeKeepsPromises ==
  ASSUME NothingFails
  PROVE  PipelineSpec => []TranscodePromises
<1>1. PipelineInit => PipelineInv /\ PromisesInv
  BY PipelineInitInv, PromisesInit
<1>2. PipelineInv /\ PromisesInv /\ [PipelineNext]_pvars => PipelineInv' /\ PromisesInv'
  BY PipelineStepInv, PromisesStep
<1>3. PipelineInv /\ PromisesInv => TranscodePromises
  BY DEF PipelineInv, PromisesInv, TranscodePromises
<1> QED
  BY <1>1, <1>2, <1>3, PTL DEF PipelineSpec
=============================================================================
