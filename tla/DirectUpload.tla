---------------------------- MODULE DirectUpload ----------------------------
(***************************************************************************)
(* A direct upload from its reservation to its transcode: beginUpload()    *)
(* and completeUpload() (apps/web/src/lib/video/upload.ts), the worker's   *)
(* reconciler for completion calls that never come                         *)
(* (apps/worker/src/reconcile-uploads.ts), the transition they share and   *)
(* the attachment of a generic video to a cycle (packages/db/src/          *)
(* uploads.ts).                                                            *)
(*                                                                         *)
(* The bytes go from the browser straight to Storage.  Both callers read   *)
(* the row, ask Storage what it holds, and act on the two answers later:   *)
(* everything may have moved in between.  The callers may die at any point *)
(* between their statements.                                               *)
(***************************************************************************)
EXTENDS Integers

CONSTANTS Uploads,    \* submissions, each with its files row and object key
          Cycles,     \* observation cycles a video may be evidence of
          Generic,    \* the context of a video that is for nothing yet
          Browsers,   \* completion calls that may be in flight at once
          Sweepers,   \* reconciling workers
          NoUpload

ASSUME UploadAssumption ==
  Generic \notin Cycles /\ NoUpload \notin Uploads /\ Browsers \cap Sweepers = {}

VARIABLES sub,       \* each upload's video_submissions row: status and context
          file,      \* its files row's status
          age,       \* of the reservation
          object,    \* what Storage holds at its key
          evidence,  \* observation_evidence rows of it, as the cycles they are on
          handed,    \* transcodes queued for it: none, one, or more (2)
          signedOff, \* the cycles that are complete
          crossed,   \* complete objects that landed under a refusal of an earlier one
          call       \* each caller's progress

vars == <<sub, file, age, object, evidence, handed, signedOff, crossed, call>>
-----------------------------------------------------------------------------
Callers  == Browsers \cup Sweepers
Contexts == Cycles \cup {Generic}

\* 'ready' stands for whatever a transcode that worked leads to.
SubStatus  == {"none", "received", "queued", "ready", "failed"}
FileStatus == {"none", "uploading", "stored", "failed"}

\* Within the ten minutes' grace, past it, past the day's abandon window.
Ages == {"new", "graced", "old"}

\* Complete, more than 1% short, or larger than was declared.
Sizes == {"full", "short", "over"}

NoCall == [at |-> "none", u |-> NoUpload, age |-> "new", found |-> "none"]

Init ==
  /\ sub = [u \in Uploads |-> [status |-> "none", ctx |-> Generic]]
  /\ file = [u \in Uploads |-> "none"]
  /\ age = [u \in Uploads |-> "new"]
  /\ object = [u \in Uploads |-> "none"]
  /\ evidence = [u \in Uploads |-> <<>>]
  /\ handed = [u \in Uploads |-> 0]
  /\ signedOff = {}
  /\ crossed = {}
  /\ call = [x \in Callers |-> NoCall]

SetStatus(u, status) == sub' = [sub EXCEPT ![u].status = status]

rows  == <<sub, file, evidence, handed>>
world == <<age, object, signedOff, crossed>>

At(x, step) == call[x].at = step

\* A caller that found an oversized object at the key and has yet to delete it.
Refusing(x, u) ==
  /\ call[x].u = u
  /\ At(x, "remove") \/ (At(x, "act") /\ call[x].found = "over")
-----------------------------------------------------------------------------
(***************************************************************************)
(* The uploader, Storage, and the rest of the program.                     *)
(***************************************************************************)

\* beginUpload() that reserves.  Picking a file again within the window hands
\* its reservation back and changes nothing; two picks at once may each miss
\* the other's.
Reserve(u, ctx) ==
  /\ sub[u].status = "none"
  /\ ctx \in Contexts \ signedOff
  /\ sub' = [sub EXCEPT ![u] = [status |-> "received", ctx |-> ctx]]
  /\ file' = [file EXCEPT ![u] = "uploading"]
  /\ UNCHANGED <<evidence, handed, world, call>>

\* The last byte lands and the object appears.  The reservation policy of
\* _post/013 admits a file that is uploading or was given up, and with it a key
\* whose object was deleted; an object that is there is not overwritten.
Land(u, size) ==
  /\ object[u] \in {"none", "removed"} /\ file[u] \in {"uploading", "failed"}
  /\ object' = [object EXCEPT ![u] = size]
  /\ crossed' = IF size = "full" /\ \E x \in Callers : Refusing(x, u)
                THEN crossed \cup {u} ELSE crossed
  /\ UNCHANGED <<rows, age, signedOff, call>>

Older(a) == IF a = "new" THEN "graced" ELSE "old"

Wait(u) ==
  /\ sub[u].status = "received" /\ age[u] # "old"
  /\ age' = [age EXCEPT ![u] = Older(@)]
  /\ UNCHANGED <<rows, object, signedOff, crossed, call>>

\* The transcode ends; its failure leaves the file 'stored'.
TranscodeEnds(u, status) ==
  /\ sub[u].status = "queued"
  /\ SetStatus(u, status)
  /\ UNCHANGED <<file, evidence, handed, world, call>>

SignOff(c) ==
  /\ c \notin signedOff
  /\ signedOff' = signedOff \cup {c}
  /\ UNCHANGED <<rows, age, object, crossed, call>>
-----------------------------------------------------------------------------
(***************************************************************************)
(* packages/db/src/uploads.ts.                                             *)
(***************************************************************************)

\* A mutant of Claimable: any failed submission may be finished.
ClaimableFailed(u) == sub[u].status \in {"received", "failed"}

\* The claim of finalizeUpload(): still waiting, or given up by the reconciler.
Claimable(u) ==
  sub[u].status = "received" \/ (sub[u].status = "failed" /\ file[u] = "failed")

\* linkSubmissionToContext(): one evidence row.  A cycle signed off meanwhile
\* takes none, and the video is generic again.
Linked(u, ctx) ==
  IF ctx \in Cycles \ signedOff /\ evidence[u] = <<>>
  THEN [evidence EXCEPT ![u] = <<ctx>>] ELSE evidence

\* A mutant of LinkedContext: a refused link is not undone.
LinkedContextKept(u, ctx) == ctx

LinkedContext(u, ctx) ==
  IF ctx \in signedOff /\ evidence[u] = <<>> THEN Generic ELSE ctx

\* One transcode more.
OnceMore(n) == IF n = 0 THEN 1 ELSE 2

\* A mutant of finalizeUpload: no claim.
finalizeUnclaimed(u) ==
  /\ sub' = [sub EXCEPT ![u] = [status |-> "queued",
                                ctx |-> LinkedContext(u, sub[u].ctx)]]
  /\ evidence' = Linked(u, sub[u].ctx)
  /\ file' = [file EXCEPT ![u] = "stored"]
  /\ handed' = [handed EXCEPT ![u] = OnceMore(@)]

\* The context linked is the claimed row's own, not one the caller read.
finalizeUpload(u) ==
  IF Claimable(u)
  THEN /\ sub' = [sub EXCEPT ![u] = [status |-> "queued",
                                     ctx |-> LinkedContext(u, sub[u].ctx)]]
       /\ evidence' = Linked(u, sub[u].ctx)
       /\ file' = [file EXCEPT ![u] = "stored"]
       /\ handed' = [handed EXCEPT ![u] = OnceMore(@)]
  ELSE UNCHANGED rows

\* attachSubmissionToContext(): a video whose bytes are still coming is linked
\* by its own finalize.
Attach(u, c) ==
  /\ sub[u].ctx = Generic /\ sub[u].status \notin {"none", "failed"}
  /\ IF file[u] = "stored"
     THEN /\ sub' = [sub EXCEPT ![u].ctx = LinkedContext(u, c)]
          /\ evidence' = Linked(u, c)
     ELSE sub' = [sub EXCEPT ![u].ctx = c] /\ UNCHANGED evidence
  /\ UNCHANGED <<file, handed, world, call>>
-----------------------------------------------------------------------------
(***************************************************************************)
(* A caller: read the row, ask Storage, act.                               *)
(***************************************************************************)

Goto(x, step) == call' = [call EXCEPT ![x].at = step]

Return(x) == call' = [call EXCEPT ![x] = NoCall]

\* Only the reconciler reads the age.
Reading(x, u) ==
  call' = [call EXCEPT ![x] =
             [at |-> "stat", u |-> u, age |-> IF x \in Sweepers THEN age[u] ELSE "new",
              found |-> "none"]]

\* completeUpload()'s read; a submission already past 'received' answers ok.
BeginComplete(b, u) ==
  /\ At(b, "none") /\ Claimable(u)
  /\ Reading(b, u)
  /\ UNCHANGED <<rows, world>>

\* reconcileStalledUploads() takes up a row it listed.
BeginReconcile(w, u) ==
  /\ At(w, "none")
  /\ sub[u].status = "received" /\ file[u] = "uploading" /\ age[u] # "new"
  /\ Reading(w, u)
  /\ UNCHANGED <<rows, world>>

\* What Storage says it holds: a deleted object is as one that never came.
Held(u) == IF object[u] = "removed" THEN "none" ELSE object[u]

\* Storage answers, or errs: then nothing is decided.
Stat(x) ==
  /\ At(x, "stat")
  /\ call' = [call EXCEPT ![x] =
                [at |-> "act", u |-> @.u, age |-> @.age, found |-> Held(@.u)]]
  /\ UNCHANGED <<rows, world>>

StatFails(x) ==
  /\ At(x, "stat")
  /\ Return(x)
  /\ UNCHANGED <<rows, world>>

\* The request or the worker is gone.
Die(x) ==
  /\ ~At(x, "none")
  /\ Return(x)
  /\ UNCHANGED <<rows, world>>

\* Mutants of Decision: a short object passes for a complete one; a short one is
\* waited for without end.
DecisionAnySize(x) ==
  CASE call[x].found = "over" -> "refuse"
    [] call[x].found \in {"full", "short"} -> "complete"
    [] call[x].found = "none" ->
         IF x \in Sweepers /\ call[x].age = "old" THEN "abandon" ELSE "wait"

DecisionPatient(x) ==
  CASE call[x].found = "over" -> "refuse"
    [] call[x].found = "full" -> "complete"
    [] call[x].found = "short" -> "wait"
    [] call[x].found = "none" ->
         IF x \in Sweepers /\ call[x].age = "old" THEN "abandon" ELSE "wait"

\* reconcileDecision(); a browser's call does not look at the age, and neither
\* fails nor finishes an upload that is not there in full.
Decision(x) ==
  CASE call[x].found = "over" -> "refuse"
    [] call[x].found = "full" -> "complete"
    [] call[x].found \in {"none", "short"} ->
         IF x \in Sweepers /\ call[x].age = "old" THEN "abandon" ELSE "wait"

Finish(x) ==
  /\ At(x, "act") /\ Decision(x) = "complete"
  /\ finalizeUpload(call[x].u)
  /\ Return(x)
  /\ UNCHANGED world

Leave(x) ==
  /\ At(x, "act") /\ Decision(x) = "wait"
  /\ Return(x)
  /\ UNCHANGED <<rows, world>>

\* A mutant of GiveUp: not compare-and-set.
GiveUpAlways(u) ==
  /\ SetStatus(u, "failed")
  /\ file' = [file EXCEPT ![u] = "failed"]
  /\ UNCHANGED <<evidence, handed>>

\* Only a submission that is still waiting is claimed.
GiveUp(u) ==
  IF sub[u].status = "received"
  THEN /\ SetStatus(u, "failed")
       /\ file' = [file EXCEPT ![u] = "failed"]
       /\ UNCHANGED <<evidence, handed>>
  ELSE UNCHANGED rows

Abandon(w) ==
  /\ At(w, "act") /\ Decision(w) = "abandon"
  /\ GiveUp(call[w].u)
  /\ Return(w)
  /\ UNCHANGED world

\* An oversized object: the row is failed, then the object is deleted.  The
\* reconciler deletes only what it claimed; completeUpload() deletes anyway.
RefuseBySweep(w) ==
  LET u == call[w].u IN
  /\ w \in Sweepers /\ At(w, "act") /\ Decision(w) = "refuse"
  /\ GiveUp(u)
  /\ IF sub[u].status = "received" THEN Goto(w, "remove") ELSE Return(w)
  /\ UNCHANGED world

RefuseByCall(b) ==
  LET u == call[b].u IN
  /\ b \in Browsers /\ At(b, "act") /\ Decision(b) = "refuse"
  /\ IF sub[u].status \in {"received", "failed"}
     THEN /\ SetStatus(u, "failed")
          /\ file' = [file EXCEPT ![u] = "failed"]
          /\ UNCHANGED <<evidence, handed>>
     ELSE UNCHANGED rows
  /\ Goto(b, "remove")
  /\ UNCHANGED world

\* Best effort.
Remove(x) ==
  /\ At(x, "remove")
  /\ object' = [object EXCEPT ![call[x].u] = "removed"] \/ UNCHANGED object
  /\ Return(x)
  /\ UNCHANGED <<rows, age, signedOff, crossed>>
-----------------------------------------------------------------------------
Next ==
  \/ \E u \in Uploads :
       \/ \E ctx \in Contexts : Reserve(u, ctx)
       \/ \E size \in Sizes : Land(u, size)
       \/ Wait(u)
       \/ \E status \in {"ready", "failed"} : TranscodeEnds(u, status)
       \/ \E c \in Cycles : Attach(u, c)
       \/ \E b \in Browsers : BeginComplete(b, u)
       \/ \E w \in Sweepers : BeginReconcile(w, u)
  \/ \E c \in Cycles : SignOff(c)
  \/ \E x \in Callers :
       \/ Stat(x) \/ StatFails(x) \/ Die(x) \/ Finish(x) \/ Leave(x) \/ Remove(x)
  \/ \E b \in Browsers : RefuseByCall(b)
  \/ \E w \in Sweepers : RefuseBySweep(w) \/ Abandon(w)

Spec == Init /\ [][Next]_vars

\* Housekeeping sweeps every minute and workers are restarted; Storage answers
\* again after every outage; a day passes.  Nothing is assumed of browsers.
Fairness ==
  \A u \in Uploads :
    /\ WF_vars(Wait(u))
    /\ \A w \in Sweepers :
         /\ SF_vars(BeginReconcile(w, u))
         /\ SF_vars(call[w].u = u /\ Stat(w))
         /\ SF_vars(call[w].u = u /\
                      (Finish(w) \/ Leave(w) \/ Abandon(w) \/ RefuseBySweep(w)))

FairSpec == Spec /\ Fairness
-----------------------------------------------------------------------------
(***************************************************************************)
(* Properties.                                                             *)
(***************************************************************************)

\* Every variable stays within the values its columns and locals can hold.
TypeOK ==
  /\ sub \in [Uploads -> [status : SubStatus, ctx : Contexts]]
  /\ file \in [Uploads -> FileStatus]
  /\ age \in [Uploads -> Ages]
  /\ object \in [Uploads -> Sizes \cup {"none", "removed"}]
  /\ evidence \in [Uploads -> {<<>>} \cup {<<c>> : c \in Cycles}]
  /\ handed \in [Uploads -> 0..2]
  /\ signedOff \subseteq Cycles /\ crossed \subseteq Uploads
  /\ call \in [Callers -> [at : {"none", "stat", "act", "remove"},
                           u : Uploads \cup {NoUpload}, age : Ages,
                           found : Sizes \cup {"none"}]]

\* The submission, its file and the transcode move together, whoever of the
\* browser and the reconciler gets there first: a queued submission never
\* points at a file marked failed, and no upload is transcoded twice, unless its
\* complete bytes landed under a refusal of earlier ones: that refusal may fail the
\* file of a transcode that failed, which a later call then finishes again.
RowsAgree ==
  \A u \in Uploads :
    /\ sub[u].status \in {"queued", "ready"} => file[u] = "stored"
    /\ sub[u].status = "received" => file[u] = "uploading"
    /\ file[u] = "stored" => handed[u] # 0
    /\ u \notin crossed => handed[u] = (IF file[u] = "stored" THEN 1 ELSE 0)

\* A stored video that claims a cycle is on that cycle's Evidence, once, and
\* one that is on a cycle's Evidence claims that cycle; a video whose bytes are
\* not there is on none, unless the refusal of earlier bytes took them away.
EvidenceMatchesContext ==
  \A u \in Uploads :
    /\ file[u] = "stored" /\ sub[u].ctx \in Cycles => evidence[u] = <<sub[u].ctx>>
    /\ evidence[u] # <<>> => evidence[u] = <<sub[u].ctx>> /\ (file[u] = "stored" \/ u \in crossed)

\* No one step of a late completion call revives a transcode that failed, nor of a
\* late reconciler fails a playable video.
DecidedStays ==
  [][\A u \in Uploads :
       /\ sub[u].status = "ready" => sub'[u].status = "ready"
       /\ sub[u].status = "failed" /\ file[u] = "stored" => sub'[u].status = "failed"]_vars

\* A queued or playable submission points at a complete object, which neither
\* a late refusal nor a sweep removes, wherever the object was sent again, unless
\* the refusal was of an earlier object and under way when this one landed: its
\* deletion names the key and looks at nothing.
ObjectKept ==
  \A u \in Uploads \ crossed : sub[u].status \in {"queued", "ready"} => object[u] = "full"

\* No reservation is left waiting, whatever browsers do: it is finished when its
\* bytes came, and failed when they did not.
ReservationSettles ==
  \A u \in Uploads : sub[u].status = "received" ~> sub[u].status # "received"

\* A browser's completion calls, the reconciler and the sign-off of a cycle leave
\* an upload's rows, its object and its Evidence in agreement, and a decided
\* upload as it was decided, however often its bytes are sent; what a crossed
\* refusal may still do is named in each.
UploadPromises ==
  [](TypeOK /\ RowsAgree /\ EvidenceMatchesContext /\ ObjectKept) /\ DecidedStays
=============================================================================
