----------------------------- MODULE TeachBack -----------------------------
(***************************************************************************)
(* The review of one teach-back clip (apps/web lib/rtt/teach-back.ts,      *)
(* api/teach-back/[id]/review, lib/approvals/handlers/teach-back.ts): the  *)
(* teacher's upload sends it for review, a clip nobody sent is reviewed    *)
(* all the same, and several reviewers may have it open at once.           *)
(*                                                                         *)
(* A reviewer reads the clip, then the open request, then writes one if    *)
(* there is none, then decides it: four statements, not one transaction.   *)
(***************************************************************************)
EXTENDS FiniteSets, Naturals

CONSTANTS Reviewers,   \* reviews in progress
          Completions, \* the teacher's completions of the upload, retries included
          Reviews,     \* ids of approvals rows of the clip
          NoReview,
          NoReviewer,
          Earlier      \* who reviewed clips before reviews had requests

ASSUME TeachAssumption ==
  /\ NoReview \notin Reviews
  /\ NoReviewer \notin Reviewers /\ Earlier \notin Reviewers /\ NoReviewer # Earlier

VARIABLES playable,   \* video_submissions.status is "ready"
          reviewedBy, \* reviewed_by_user_id, written with reviewed_at
          review,     \* the clip's approvals rows
          desk,       \* each reviewer's call
          upload,     \* each completion of the upload
          crossedIt   \* a request was written by who had read an unreviewed clip
                      \* that was reviewed since

teachVars == <<playable, reviewedBy, review, desk, upload, crossedIt>>
-----------------------------------------------------------------------------
ReviewChoices == {"approved", "changes_requested"}
Unsent        == [status |-> "none", by |-> NoReviewer]
AtDesk        == {"none", "read", "create", "again", "decide"}
NoDesk        == [at |-> "none", fresh |-> FALSE, review |-> NoReview]

PendingReviews == {q \in Reviews : review[q].status = "pending"}
Decided        == {q \in Reviews : review[q].status \in ReviewChoices}
FreeReviews    == {q \in Reviews : review[q].status = "none"}

TeachInit ==
  /\ reviewedBy \in {NoReviewer, Earlier}
  /\ playable = (reviewedBy = Earlier)
  /\ review = [q \in Reviews |-> Unsent]
  /\ desk = [r \in Reviewers |-> NoDesk]
  /\ upload = [u \in Completions |-> "none"]
  /\ crossedIt = FALSE

DeskAt(r, at) == desk' = [desk EXCEPT ![r].at = at]
DeskEnds(r)   == desk' = [desk EXCEPT ![r] = NoDesk]
-----------------------------------------------------------------------------
\* The worker's transcode ends: the clip plays.
BecomesReady ==
  /\ ~playable /\ playable' = TRUE
  /\ UNCHANGED <<reviewedBy, review, desk, upload, crossedIt>>

\* submitTeachBackUpload(): canSubmit() refuses a clip already reviewed.
BeginUploadSubmit(u) ==
  /\ upload[u] = "none"
  /\ upload' = [upload EXCEPT ![u] = IF reviewedBy = NoReviewer THEN "insert" ELSE "done"]
  /\ UNCHANGED <<playable, reviewedBy, review, desk, crossedIt>>

\* A row of approvals, if approvals_one_pending_uq lets it in.
InsertReview(q, unreviewedWhenRead) ==
  /\ PendingReviews = {} /\ q \in FreeReviews
  /\ review' = [review EXCEPT ![q].status = "pending"]
  /\ crossedIt' = (crossedIt \/ (unreviewedWhenRead /\ reviewedBy # NoReviewer))

\* submitForApproval() from the upload: the answer is not looked at.
SubmitUpload(u) ==
  /\ upload[u] = "insert"
  /\ \/ \E q \in Reviews : InsertReview(q, TRUE)
     \/ PendingReviews # {} /\ UNCHANGED <<review, crossedIt>>
  /\ upload' = [upload EXCEPT ![u] = "done"]
  /\ UNCHANGED <<playable, reviewedBy, desk>>

SubmitLost(u) ==
  /\ upload[u] = "insert"
  /\ upload' = [upload EXCEPT ![u] = "done"]
  /\ UNCHANGED <<playable, reviewedBy, review, desk, crossedIt>>
-----------------------------------------------------------------------------
\* reviewTeachBack() reads the clip; canDecide() wants it playable.
ReadClip(r) ==
  /\ desk[r].at = "none" /\ playable
  /\ desk' = [desk EXCEPT ![r].at = "read", ![r].fresh = (reviewedBy = NoReviewer)]
  /\ UNCHANGED <<playable, reviewedBy, review, upload, crossedIt>>

\* A bug for TLC to find: a clip reviewed already, sent again.
ReviewAgain(r) == "create"

\* No open request: one is made for a clip that had no review when it was read.
WithoutRequest(r) == IF desk[r].fresh THEN "create" ELSE "none"

\* pendingRequest().
FindRequest(r) ==
  /\ desk[r].at = "read"
  /\ \/ \E q \in PendingReviews :
          desk' = [desk EXCEPT ![r].at = "decide", ![r].review = q]
     \/ /\ PendingReviews = {}
        /\ IF WithoutRequest(r) = "none" THEN DeskEnds(r) ELSE DeskAt(r, WithoutRequest(r))
  /\ UNCHANGED <<playable, reviewedBy, review, upload, crossedIt>>

CreateRequest(r) ==
  /\ desk[r].at = "create"
  /\ \/ \E q \in Reviews :
          /\ InsertReview(q, desk[r].fresh)
          /\ desk' = [desk EXCEPT ![r].at = "decide", ![r].review = q]
     \/ PendingReviews # {} /\ DeskAt(r, "again") /\ UNCHANGED <<review, crossedIt>>
  /\ UNCHANGED <<playable, reviewedBy, upload>>

\* A bug for TLC to find: the request made by another taken to be there still.
FindBlindly(r) ==
  /\ desk[r].at = "again"
  /\ DeskAt(r, "decide")
  /\ UNCHANGED <<playable, reviewedBy, review, upload, crossedIt>>

\* Another reviewer, or the upload, made it a moment ago.
FindAgain(r) ==
  /\ desk[r].at = "again"
  /\ \/ \E q \in PendingReviews :
          desk' = [desk EXCEPT ![r].at = "decide", ![r].review = q]
     \/ PendingReviews = {} /\ DeskEnds(r)
  /\ UNCHANGED <<playable, reviewedBy, review, upload, crossedIt>>

\* The approvals queue opens the request itself.
OpenQueue(r, q) ==
  /\ desk[r].at = "none" /\ playable /\ q \in PendingReviews
  /\ desk' = [desk EXCEPT ![r].at = "decide", ![r].review = q]
  /\ UNCHANGED <<playable, reviewedBy, review, upload, crossedIt>>

\* A bug for TLC to find: the last reviewer is kept.
LastReviewer(r) == r

\* A bug for TLC to find: a clip sent back is left to review.
OnlyApproval(r) == reviewedBy

\* onDecision(): whatever the decision, and only where reviewed_at is null.
ReviewerAfter(r) == IF reviewedBy = NoReviewer THEN r ELSE reviewedBy

\* decideApproval()'s update, by id and while it is pending.
TakesDecision(q) == q \in PendingReviews

\* decideApproval(): the request and the clip in one transaction.
DecideReview(r, choice) ==
  LET q == desk[r].review
  IN /\ desk[r].at = "decide" /\ TakesDecision(q)
     /\ review' = [review EXCEPT ![q] = [status |-> choice, by |-> r]]
     /\ reviewedBy' = ReviewerAfter(r)
     /\ DeskEnds(r)
     /\ UNCHANGED <<playable, upload, crossedIt>>

\* Decided by someone else, or the call fails or dies.
DecideFails(r) ==
  /\ desk[r].at # "none"
  /\ DeskEnds(r)
  /\ UNCHANGED <<playable, reviewedBy, review, upload, crossedIt>>

TeachNext ==
  \/ BecomesReady
  \/ \E u \in Completions : BeginUploadSubmit(u) \/ SubmitUpload(u) \/ SubmitLost(u)
  \/ \E r \in Reviewers :
       \/ ReadClip(r) \/ FindRequest(r) \/ CreateRequest(r) \/ FindAgain(r)
       \/ \E q \in Reviews : OpenQueue(r, q)
       \/ \E choice \in ReviewChoices : DecideReview(r, choice)
       \/ DecideFails(r)

TeachSpec == TeachInit /\ [][TeachNext]_teachVars
-----------------------------------------------------------------------------
\* The values of the clip, its requests and the calls.  A review in a request
\* names its reviewer, and no other request does.
TeachTypeOK ==
  /\ playable \in BOOLEAN /\ crossedIt \in BOOLEAN
  /\ reviewedBy \in Reviewers \cup {NoReviewer, Earlier}
  /\ \A q \in Reviews :
       \/ review[q] \in [status : {"none", "pending"}, by : {NoReviewer}]
       \/ review[q] \in [status : ReviewChoices, by : Reviewers]
  /\ desk \in [Reviewers -> [at : AtDesk, fresh : BOOLEAN,
                             review : Reviews \cup {NoReview}]]
  /\ \A r \in Reviewers : desk[r].at = "decide" => desk[r].review \in Reviews \ FreeReviews
  /\ upload \in [Completions -> {"none", "insert", "done"}]

\* A clip is reviewed once, one reviewed before reviews had requests included,
\* however reviewers and retried uploads overlap: a second decision needs a
\* request made by who had read the clip before the first.
ReviewedOnce ==
  \/ crossedIt
  \/ Cardinality(Decided) <= (IF reviewedBy = Earlier THEN 0 ELSE 1)

\* A clip leaves "Pending review" with the first decision on it, whatever the
\* decision, and names a reviewer who made one.
ReviewedWithDecision ==
  /\ Decided # {} => reviewedBy # NoReviewer
  /\ reviewedBy \in Reviewers => \E q \in Decided : review[q].by = reviewedBy

\* The first reviewer stays: no later decision puts another name on the clip,
\* and a decision made is never made again.
FirstReviewStays ==
  [][/\ reviewedBy # NoReviewer => reviewedBy' = reviewedBy
     /\ \A q \in Decided : review'[q] = review[q]]_teachVars

\* reviewTeachBackAction() and retried uploads: one review of a clip, by who made
\* it, for good.
TeachPromises == [](TeachTypeOK /\ ReviewedOnce /\ ReviewedWithDecision) /\ FirstReviewStays
=============================================================================
