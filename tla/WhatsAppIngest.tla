--------------------------- MODULE WhatsAppIngest ---------------------------
(***************************************************************************)
(* A WhatsApp video from Meta's webhook to Storage: the route that accepts *)
(* a message (apps/web api/webhooks/whatsapp/route.ts), the worker's fetch *)
(* of its media (apps/worker/src/whatsapp-fetch.ts), the reaper's repair   *)
(* for it, and the operator's Retry fetch.                                 *)
(*                                                                         *)
(* A key is a message id: the dedupe key of its fetch job, and the value   *)
(* of the submission's unique whatsapp_message_id.  Meta delivers at least *)
(* once, any number of times, and concurrently.  The transcode that a      *)
(* stored video is handed to is TranscodePipeline's; here it is a count.   *)
(***************************************************************************)
EXTENDS JobQueue

CONSTANTS Requests,    \* webhook requests that may be in flight at once
          Refetchers,  \* operators that may have a Retry fetch in flight
          Faults       \* where statements may fail: "webhook", "handler", "repair"

ASSUME IngestAssumption == Faults \subseteq {"webhook", "handler", "repair"}

VARIABLES sub,      \* each message's video_submissions row
          file,     \* its files row
          handed,   \* the transcodes enqueued for it
          request,  \* each webhook request
          owed,     \* messages Meta has had no 200 for
          fetch,    \* each consumer's fetchWhatsAppMedia call
          asked     \* each operator's Retry fetch, past its first read

queue   == <<jobs, cons, proc, stops, stalls>>
domain  == <<sub, file, handed>>
webhook == <<request, owed>>
ivars   == <<jobs, cons, proc, stops, stalls, sub, file, handed, request, owed,
             fetch, asked>>
-----------------------------------------------------------------------------
SubStatus  == {"none", "received", "queued", "failed"}
FileStatus == {"none", "uploading", "stored", "failed"}

Steps == {"none", "check", "download", "commit", "markFailed", "reply",
          "returned", "threw"}

NotRunning == [at |-> "none", msg |-> NoKey, threw |-> "error"]

HasLiveJob(m) == KeyTaken(jobs, m)

IngestInit ==
  /\ Init
  /\ sub = [m \in Keys |-> "none"]
  /\ file = [m \in Keys |-> "none"]
  /\ handed = [m \in Keys |-> 0]
  /\ request = [r \in Requests |-> NoKey]
  /\ owed = Keys
  /\ fetch = [c \in Consumers |-> NotRunning]
  /\ asked = [o \in Refetchers |-> NoKey]
-----------------------------------------------------------------------------
(***************************************************************************)
(* The webhook.                                                            *)
(***************************************************************************)

\* A delivery, first or repeated, and acceptVideoMessage()'s pre-check.
Deliver(r, m) ==
  /\ request[r] = NoKey
  /\ IF sub[m] = "none"
     THEN request' = [request EXCEPT ![r] = m] /\ UNCHANGED owed
     ELSE owed' = owed \ {m} /\ UNCHANGED request
  /\ UNCHANGED <<queue, domain, fetch, asked>>

Answered(r) == request' = [request EXCEPT ![r] = NoKey]

\* A mutant of Accept: no unique index on whatsapp_message_id.
AcceptTwice(r, j) ==
  LET m == request[r] IN
  /\ m # NoKey
  /\ sub' = [sub EXCEPT ![m] = "received"]
  /\ file' = [file EXCEPT ![m] = "uploading"]
  /\ (HasLiveJob(m) /\ UNCHANGED queue) \/ Enqueue(j, m)
  /\ owed' = owed \ {m}
  /\ Answered(r)
  /\ UNCHANGED <<handed, fetch, asked>>

\* The durable record: file, submission and fetch job in one transaction.  The
\* unique index on whatsapp_message_id stops a delivery that lost the race,
\* whose transaction is rolled back (ReplayLost) and answered 200.
Accept(r, j) ==
  LET m == request[r] IN
  /\ m # NoKey
  /\ \/ /\ sub[m] = "none"
        /\ sub' = [sub EXCEPT ![m] = "received"]
        /\ file' = [file EXCEPT ![m] = "uploading"]
        /\ Enqueue(j, m)
     \/ sub[m] # "none" /\ UNCHANGED <<queue, sub, file>>
  /\ owed' = owed \ {m}
  /\ Answered(r)
  /\ UNCHANGED <<handed, fetch, asked>>

\* A mutant of AcceptFails: answered 200 all the same.
AcceptFailsQuietly(r) ==
  /\ "webhook" \in Faults
  /\ request[r] # NoKey
  /\ owed' = owed \ {request[r]}
  /\ Answered(r)
  /\ UNCHANGED <<queue, domain, fetch, asked>>

\* The database refuses the transaction: a 500, and Meta delivers again.
AcceptFails(r) ==
  /\ "webhook" \in Faults
  /\ request[r] # NoKey
  /\ Answered(r)
  /\ UNCHANGED <<queue, domain, owed, fetch, asked>>

\* It commits, but its answer, or the 200, is lost.
AcceptLost(r, j) ==
  LET m == request[r] IN
  /\ "webhook" \in Faults
  /\ m # NoKey /\ sub[m] = "none"
  /\ sub' = [sub EXCEPT ![m] = "received"]
  /\ file' = [file EXCEPT ![m] = "uploading"]
  /\ Enqueue(j, m)
  /\ Answered(r)
  /\ UNCHANGED <<handed, owed, fetch, asked>>
-----------------------------------------------------------------------------
(***************************************************************************)
(* fetchWhatsAppMedia().                                                   *)
(***************************************************************************)

At(c, step) == cons[c].pc = "running" /\ fetch[c].at = step

Goto(c, step) == fetch' = [fetch EXCEPT ![c].at = step]

\* The catch block: a shutdown leaves the decision to the re-run; the last
\* attempt, or a permanent error, is the end.
Throw(c, kind) ==
  LET final == cons[c].att >= MaxAttempts[fetch[c].msg] \/ kind = "permanent"
      next  == IF ~Stopping(c) /\ final THEN "markFailed" ELSE "threw"
  IN  fetch' = [fetch EXCEPT ![c] = [at |-> next, msg |-> @.msg, threw |-> kind]]

\* Nothing to do unless the submission is still waiting for its bytes.  This
\* read is outside the try: its failure is not the handler's last word.
Check(c) ==
  LET m == fetch[c].msg IN
  /\ At(c, "check")
  /\ \/ sub[m] = "received" /\ file[m] # "stored" /\ Goto(c, "download")
     \/ ~(sub[m] = "received" /\ file[m] # "stored") /\ Goto(c, "returned")
     \/ "handler" \in Faults /\ fetch' = [fetch EXCEPT ![c].at = "threw"]
  /\ UNCHANGED <<queue, domain, webhook, asked>>

\* Graph and Storage: no database statement.
Download(c) ==
  /\ At(c, "download")
  /\ Goto(c, "commit") \/ Throw(c, "error") \/ Throw(c, "permanent")
  /\ UNCHANGED <<queue, domain, webhook, asked>>

\* Compare-and-set on 'received'; the file and the transcode job go with it.
Store(m) ==
  IF sub[m] = "received"
  THEN /\ sub' = [sub EXCEPT ![m] = "queued"]
       /\ file' = [file EXCEPT ![m] = "stored"]
       /\ handed' = [handed EXCEPT ![m] = @ + 1]
  ELSE UNCHANGED domain

Commit(c) ==
  /\ At(c, "commit")
  /\ \/ Store(fetch[c].msg) /\ Goto(c, "returned")
     \/ "handler" \in Faults /\ Store(fetch[c].msg) /\ Throw(c, "error")
     \/ "handler" \in Faults /\ UNCHANGED domain /\ Throw(c, "error")
  /\ UNCHANGED <<queue, webhook, asked>>

\* A mutant of GiveUp: not compare-and-set on the submission.
GiveUpAlways(m) ==
  /\ sub' = [sub EXCEPT ![m] = "failed"]
  /\ UNCHANGED <<file, handed>>

\* Only a submission still waiting.
GiveUp(m) ==
  IF sub[m] = "received"
  THEN /\ sub' = [sub EXCEPT ![m] = "failed"]
       /\ file' = [file EXCEPT ![m] = "failed"]
       /\ UNCHANGED handed
  ELSE UNCHANGED domain

\* markFailed().  When it throws, its error replaces the one being handled, and
\* the sender is not told.
MarkFailed(c) ==
  /\ At(c, "markFailed")
  /\ \/ GiveUp(fetch[c].msg) /\ Goto(c, "reply")
     \/ /\ "handler" \in Faults
        /\ GiveUp(fetch[c].msg) \/ UNCHANGED domain
        /\ fetch' = [fetch EXCEPT ![c] = [at |-> "threw", msg |-> @.msg, threw |-> "error"]]
  /\ UNCHANGED <<queue, webhook, asked>>

\* "Please send it again": best effort, over the network.
Reply(c) ==
  /\ At(c, "reply")
  /\ Goto(c, "threw")
  /\ UNCHANGED <<queue, domain, webhook, asked>>

HandlerStep(c) == Check(c) \/ Download(c) \/ Commit(c) \/ MarkFailed(c) \/ Reply(c)
-----------------------------------------------------------------------------
(***************************************************************************)
(* Retry fetch: a plain read, then one transaction that reopens the        *)
(* submission compare-and-set and enqueues, or hurries, its fetch.         *)
(***************************************************************************)

Refetchable(m) == sub[m] \in {"received", "failed"} /\ file[m] # "stored"

Ask(o, m) ==
  /\ asked[o] = NoKey /\ Refetchable(m)
  /\ asked' = [asked EXCEPT ![o] = m]
  /\ UNCHANGED <<queue, domain, webhook, fetch>>

\* A mutant of Reopens: the first read is relied on.
ReopensUnchecked(m) == TRUE

Reopens(m) == Refetchable(m)

Refetch(o, j) ==
  LET m == asked[o] IN
  /\ m # NoKey /\ Reopens(m)
  /\ sub' = [sub EXCEPT ![m] = "received"]
  /\ file' = [file EXCEPT ![m] = "uploading"]
  /\ \/ Enqueue(j, m)
     \/ jobs[j].key = m /\ BackoffElapse(j)
     \/ /\ jobs[j].key = m
        /\ jobs[j].status = "running" \/ (jobs[j].status = "queued" /\ jobs[j].due)
        /\ UNCHANGED queue
  /\ asked' = [asked EXCEPT ![o] = NoKey]
  /\ UNCHANGED <<handed, webhook, fetch>>

RefetchRefused(o) ==
  /\ asked[o] # NoKey /\ ~Reopens(asked[o])
  /\ asked' = [asked EXCEPT ![o] = NoKey]
  /\ UNCHANGED <<queue, domain, webhook, fetch>>
-----------------------------------------------------------------------------
(***************************************************************************)
(* The queue's steps, and what they do to the handler's call.              *)
(***************************************************************************)

Leave(c) == fetch' = [fetch EXCEPT ![c] = NotRunning]

ClaimFetch(c, j) ==
  /\ Claim(c, j)
  /\ fetch' = [fetch EXCEPT
       ![c] = [at |-> "check", msg |-> jobs[j].key, threw |-> "error"]]
  /\ UNCHANGED <<domain, webhook, asked>>

HandBackFetch(c) == HandBack(c) /\ Leave(c) /\ UNCHANGED <<domain, webhook, asked>>

FetchEnds(c) ==
  /\ \/ fetch[c].at = "returned" /\ HandlerEnds(c, "ok")
     \/ fetch[c].at = "threw" /\ HandlerEnds(c, fetch[c].threw)
  /\ Leave(c)
  /\ UNCHANGED <<domain, webhook, asked>>

\* The steps that touch neither the handler's call nor its rows.
BeginFetch(c) == Begin(c) /\ UNCHANGED <<domain, webhook, fetch, asked>>

OutcomeWritten(c) ==
  /\ Record(c) \/ WriteFails(c) \/ AnswerLost(c)
  /\ UNCHANGED <<domain, webhook, fetch, asked>>

TransportStep(c) ==
  /\ (\E j \in Jobs : ClaimLost(c, j)) \/ Heartbeat(c)
  /\ UNCHANGED <<domain, webhook, fetch, asked>>

KillWorker(p) ==
  /\ Kill(p)
  /\ fetch' = [c \in Consumers |-> IF ProcOf[c] = p THEN NotRunning ELSE fetch[c]]
  /\ UNCHANGED <<domain, webhook, asked>>

\* A mutant of GivenUp: the last attempt is not taken for the last.
GivenUpLate(broken) ==
  {m \in Keys \ broken :
     sub[m] = "received" /\
     \E j \in Lapsed : jobs[j].key = m /\ jobs[j].attempts > MaxAttempts[m]}

\* repairReapedWhatsAppFetch(): a fetch reaped on its last attempt gives up; one
\* with attempts left is decided by its re-run.  A repair that fails is rolled
\* back alone.
GivenUp(broken) ==
  {m \in Keys \ broken :
     sub[m] = "received" /\
     \E j \in Lapsed : jobs[j].key = m /\ jobs[j].attempts >= MaxAttempts[m]}

ReapFetches(p) ==
  /\ Reap(p)
  /\ \E broken \in SUBSET Keys :
       /\ "repair" \in Faults \/ broken = {}
       /\ sub' = [m \in Keys |-> IF m \in GivenUp(broken) THEN "failed" ELSE sub[m]]
       /\ file' = [m \in Keys |-> IF m \in GivenUp(broken) THEN "failed" ELSE file[m]]
  /\ UNCHANGED <<handed, webhook, fetch, asked>>

PruneJob(p, j) == Prune(p, j) /\ UNCHANGED <<domain, webhook, fetch, asked>>

JobPasses(j) ==
  /\ BackoffElapse(j) \/ LeaseLapse(j) \/ Stall(j)
  /\ UNCHANGED <<domain, webhook, fetch, asked>>

WorkerStep(p) ==
  /\ Shutdown(p) \/ Exit(p) \/ Start(p)
  /\ UNCHANGED <<domain, webhook, fetch, asked>>
-----------------------------------------------------------------------------
IngestNext ==
  \/ \E r \in Requests :
       \/ \E m \in Keys : Deliver(r, m)
       \/ \E j \in Jobs : Accept(r, j) \/ AcceptLost(r, j)
       \/ AcceptFails(r)
  \/ \E o \in Refetchers :
       \/ \E m \in Keys : Ask(o, m)
       \/ \E j \in Jobs : Refetch(o, j)
       \/ RefetchRefused(o)
  \/ \E c \in Consumers :
       \/ HandlerStep(c) \/ BeginFetch(c) \/ FetchEnds(c) \/ HandBackFetch(c)
       \/ OutcomeWritten(c) \/ TransportStep(c)
       \/ \E j \in Jobs : ClaimFetch(c, j)
  \/ \E p \in Procs :
       \/ KillWorker(p) \/ ReapFetches(p) \/ WorkerStep(p)
       \/ \E j \in Jobs : PruneJob(p, j)
  \/ \E j \in Jobs : JobPasses(j)

IngestSpec == IngestInit /\ [][IngestNext]_ivars

\* Meta keeps delivering what it has no 200 for, and the database does not
\* refuse for ever; the rest is the queue's fairness, with the handler's steps
\* in place of its opaque end.
IngestFairness ==
  /\ \A m \in Keys :
       /\ WF_ivars(m \in owed /\ \E r \in Requests : Deliver(r, m))
       /\ SF_ivars(\E r \in Requests, j \in Jobs : request[r] = m /\ Accept(r, j))
  /\ \A c \in Consumers :
       /\ WF_ivars(BeginFetch(c)) /\ WF_ivars(HandBackFetch(c)) /\ WF_ivars(HandlerStep(c))
       /\ WF_ivars(FetchEnds(c)) /\ WF_ivars(OutcomeWritten(c))
  /\ \A j \in Jobs :
       /\ SF_ivars(\E c \in Consumers : ClaimFetch(c, j))
       /\ WF_ivars(JobPasses(j))
  /\ SF_ivars(\E p \in Procs : ReapFetches(p))
  /\ \A p \in Procs :
       /\ WF_ivars(proc[p] # "up" /\ WorkerStep(p))
       /\ \A j \in Jobs : WF_ivars(PruneJob(p, j))

IngestFairSpec == IngestSpec /\ IngestFairness
-----------------------------------------------------------------------------
(***************************************************************************)
(* Properties.                                                             *)
(***************************************************************************)

\* Every variable stays within the values its columns and locals can hold.
IngestTypeOK ==
  /\ TypeOK
  /\ sub \in [Keys -> SubStatus] /\ file \in [Keys -> FileStatus]
  /\ handed \in [Keys -> 0..1]
  /\ request \in [Requests -> Keys \cup {NoKey}] /\ owed \subseteq Keys
  /\ fetch \in [Consumers -> [at : Steps, msg : Keys \cup {NoKey},
                              threw : {"error", "permanent"}]]
  /\ asked \in [Refetchers -> Keys \cup {NoKey}]

\* The submission, its file and the transcode move together: bytes that are
\* stored were handed to one transcode, and a video queued for transcoding has
\* its bytes, through redeliveries, killed fetches and operators' retries.
RowsAgree ==
  \A m \in Keys :
    /\ (file[m] = "stored") <=> (sub[m] = "queued")
    /\ handed[m] = (IF file[m] = "stored" THEN 1 ELSE 0)

\* A stored video is never sent back to wait for its media: neither a
\* redelivery, nor a late give-up, nor a Retry fetch that was decided before the
\* bytes arrived (whatsapp-log/actions.ts:201-208).
StoredStays ==
  [][\A m \in Keys : file[m] = "stored" => file'[m] = "stored" /\ sub'[m] = "queued"]_ivars

\* The rows of a message agree, and what is stored stays stored.
IngestPromises == [](IngestTypeOK /\ RowsAgree) /\ StoredStays

\* A submission waiting for its media has a job to fetch it (route.ts: "never a
\* submission with no job to fetch it").
ReceivedHasJob ==
  stalls = 0 => \A m \in Keys : sub[m] = "received" => HasLiveJob(m)

\* Every video Meta delivers is recorded, whatever the database refuses or the
\* network loses on the way.
DeliveredIsRecorded == \A m \in Keys : m \in owed ~> sub[m] # "none"

\* Every recorded video gets its bytes or is failed, never left waiting.
ReceivedSettles == \A m \in Keys : sub[m] = "received" ~> sub[m] # "received"
-----------------------------------------------------------------------------
(***************************************************************************)
(* The inductive invariants behind the safety properties.                  *)
(***************************************************************************)

IngestInv == QueueInv /\ IngestTypeOK /\ RowsAgree

\* A loop that has a job is fetching for that job's key, and one that has not, or
\* has done with it, is not fetching.
FetchesItsJob(c) ==
  IF cons[c].pc \in {"claimed", "running"}
  THEN /\ fetch[c].at # "none" /\ fetch[c].msg = jobs[JobOf(c)].key
       /\ cons[c].pc = "claimed" => fetch[c].at = "check"
  ELSE fetch[c] = NotRunning

\* The result fail() will not retry.
Last(c, result, m) == result = "permanent" \/ cons[c].att >= MaxAttempts[m]

\* A fetch that has returned, or has thrown for the last time, has settled its
\* submission; unless a shutdown makes the throw an interruption.
FetchSettles(c) ==
  LET m == fetch[c].msg IN
  cons[c].pc = "running" =>
    /\ fetch[c].at \in {"returned", "reply"} => sub[m] # "received"
    /\ fetch[c].at = "threw" =>
         Stopping(c) \/ ~Last(c, fetch[c].threw, m) \/ sub[m] # "received"

\* So has one whose outcome is being written, if that outcome ends the job.
OutcomeSettles(c) ==
  LET m == jobs[JobOf(c)].key IN
  (cons[c].pc = "recording" /\ ~cons[c].landed) =>
    \/ cons[c].outcome = "interrupted"
    \/ cons[c].outcome = "error" /\ ~Last(c, "error", m)
    \/ sub[m] # "received"

Follows(c) == FetchesItsJob(c) /\ FetchSettles(c) /\ OutcomeSettles(c)

FetchInv == ReceivedHasJob /\ (stalls = 0 => \A c \in Consumers : Follows(c))
=============================================================================
