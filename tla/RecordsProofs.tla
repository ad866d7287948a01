---------------------------- MODULE RecordsProofs ----------------------------
(***************************************************************************)
(* What the records of the schools promise for any number of people,       *)
(* requests and tabs: assessment marks, recorded lessons, lesson plans,    *)
(* the sign-in throttle, account requests, grading scales, the sessions of *)
(* a class and the administrators' tables.  The modules share no state;    *)
(* each part is an argument of its own.                                    *)
(***************************************************************************)
EXTENDS AssessmentMarks, TeachBack, LessonPlans, SignInThrottle, AccountRequests,
        GradingScales, SessionRecords, DataGrid, FiniteSetTheorems, TLAPS
-----------------------------------------------------------------------------
(***************************************************************************)
(* What AssessmentMarks promises for any roster, any maximum and any       *)
(* number of overlapping requests.                                         *)
(*                                                                         *)
(* Neither MarksWithinMaximum nor SentHasMarks is inductive: a write was   *)
(* judged before its transaction, so what each request found then (Judged, *)
(* SendsMarks) has to be carried along with it.                            *)
(***************************************************************************)

\* What a request writes was within a maximum when it was judged.
Judged ==
  \A t \in Sheets : sheet[t].at \in {"save", "update"} =>
    sheet[t].out # 0 /\ Within(sheet[t].marks, sheet[t].out)

\* A submission under way found marks, or they were cleared since.
SendsMarks == \A t \in Sheets : sheet[t].at = "send" => (HasMarks \/ emptied)

MarksInv ==
  MarksTypeOK /\ Judged /\ SendsMarks /\ MarksWithinMaximum /\ SentHasMarks
-----------------------------------------------------------------------------
\* A cleared request is a typed one, and holds nothing.
LEMMA Cleared ==
  ASSUME MarksInv, NEW t \in Sheets, Clear(t)
  PROVE  /\ sheet' \in [Sheets -> [at : {"none", "save", "update", "send"},
                                   out : 0..TopMark, marks : [Learners -> Values]]]
         /\ \A u \in Sheets : sheet'[u].at # "none" => u # t /\ sheet'[u] = sheet[u]
<1>1. Blank \in [at : {"none", "save", "update", "send"}, out : 0..TopMark,
                 marks : [Learners -> Values]]
  BY MarksAssumption DEF Blank, NoMarks, Values, Unmarked
<1> QED BY <1>1 DEF Clear, MarksInv, MarksTypeOK, Blank

\* A request that begins is a typed one, and alone changes.
LEMMA Begun ==
  ASSUME MarksInv, NEW t \in Sheets, NEW at \in {"save", "update"}, NEW out \in 1..TopMark,
         NEW marks \in [Learners -> Values], Within(marks, out),
         sheet' = [sheet EXCEPT ![t] = [at |-> at, out |-> out, marks |-> marks]],
         UNCHANGED <<outOf, given, standing, written, stale, emptied>>
  PROVE  MarksInv'
<1>1. MarksTypeOK' /\ Judged'
  BY DEF MarksInv, MarksTypeOK, Judged, Within
<1>2. SendsMarks'
  BY DEF MarksInv, MarksTypeOK, SendsMarks, HasMarks, NoMarks, Unmarked
<1>3. MarksWithinMaximum' /\ SentHasMarks'
  BY DEF MarksInv, MarksWithinMaximum, SentHasMarks, Within, HasMarks, NoMarks, Unmarked
<1> QED BY <1>1, <1>2, <1>3 DEF MarksInv

\* At the start.
LEMMA InitMarks == MarksInit => MarksInv
<1> SUFFICES ASSUME MarksInit PROVE MarksInv
  OBVIOUS
<1>1. NoMarks \in [Learners -> Values] /\ outOf \in 1..TopMark /\ 0 \in 0..TopMark
  BY MarksAssumption DEF MarksInit, NoMarks, Values
<1>2. MarksTypeOK
  <2>1. sheet \in [Sheets -> [at : {"none", "save", "update", "send"}, out : 0..TopMark,
                             marks : [Learners -> Values]]]
    BY <1>1, MarksAssumption DEF MarksInit, Blank
  <2>2. written \in 0..MaxWrites /\ standing \in MarkVerdicts \cup {"draft", "pending"}
    BY MarksAssumption DEF MarksInit
  <2>3. \A t \in Sheets : sheet[t].at # "save"
    BY DEF MarksInit, Blank
  <2> QED BY <1>1, <2>1, <2>2, <2>3 DEF MarksInit, MarksTypeOK
<1>3. Judged /\ SendsMarks
  BY DEF MarksInit, Judged, SendsMarks, Blank
<1>4. MarksWithinMaximum /\ SentHasMarks
  BY DEF MarksInit, MarksWithinMaximum, SentHasMarks, Within, NoMarks
<1> QED BY <1>2, <1>3, <1>4 DEF MarksInv

\* A form writes the marks it parsed.
LEMMA SaveInv ==
  ASSUME MarksInv, NEW t \in Sheets, SaveMarks(t)
  PROVE  MarksInv'
<1>1. /\ Clear(t) /\ sheet[t].at = "save" /\ UNCHANGED <<outOf, standing>>
      /\ given' = sheet[t].marks /\ given' \in [Learners -> Values]
      /\ written' \in 0..MaxWrites /\ MayChange
  BY MarksAssumption DEF SaveMarks, HoldEditable, MarksInv, MarksTypeOK
<1>2. stale' = (stale \/ outOf # sheet[t].out) /\ stale' \in BOOLEAN
  BY DEF SaveMarks, MarksInv, MarksTypeOK
<1>3. /\ emptied' = (emptied \/ (given' = NoMarks /\ \E u \in Sheets : sheet[u].at = "send"))
      /\ emptied' \in BOOLEAN
  BY DEF SaveMarks, MarksInv, MarksTypeOK
<1>4. Judged'
  BY <1>1, Cleared DEF MarksInv, Judged, Within, Unmarked
<1>5. MarksTypeOK'
  BY <1>1, <1>2, <1>3, <1>4, Cleared DEF MarksInv, MarksTypeOK, Judged
<1>6. SendsMarks'
  BY <1>1, <1>3, Cleared DEF MarksInv, SendsMarks, HasMarks, NoMarks, Unmarked
<1>7. MarksWithinMaximum'
  BY <1>1, <1>2 DEF MarksInv, Judged, MarksWithinMaximum, Within, Unmarked
<1>8. SentHasMarks'
  BY <1>1 DEF SentHasMarks, MayChange
<1> QED BY <1>4, <1>5, <1>6, <1>7, <1>8 DEF MarksInv

\* The maximum changes to one that was no less than any mark.
LEMMA MaximumInv ==
  ASSUME MarksInv, NEW t \in Sheets, ChangeMaximum(t)
  PROVE  MarksInv'
<1>1. /\ Clear(t) /\ sheet[t].at = "update" /\ UNCHANGED <<given, standing, emptied>>
      /\ outOf' = sheet[t].out /\ written' \in 0..MaxWrites
  BY MarksAssumption DEF ChangeMaximum, MarksInv, MarksTypeOK
<1>2. stale' = (stale \/ given # sheet[t].marks) /\ stale' \in BOOLEAN
  BY DEF ChangeMaximum, MarksInv, MarksTypeOK
<1>3. Judged'
  BY <1>1, Cleared DEF MarksInv, Judged, Within, Unmarked
<1>4. MarksTypeOK'
  <2>1. outOf' \in 1..TopMark
    BY <1>1 DEF ChangeMaximum, MarksInv, MarksTypeOK, Judged
  <2> QED BY <1>1, <1>2, <1>3, <2>1, Cleared DEF MarksInv, MarksTypeOK, Judged
<1>5. SendsMarks'
  BY <1>1, Cleared DEF MarksInv, SendsMarks, HasMarks, NoMarks, Unmarked
<1>6. MarksWithinMaximum'
  BY <1>1, <1>2 DEF MarksInv, Judged, MarksWithinMaximum, Within, Unmarked
<1>7. SentHasMarks'
  BY <1>1 DEF MarksInv, SentHasMarks, HasMarks, NoMarks, Unmarked
<1> QED BY <1>3, <1>4, <1>5, <1>6, <1>7 DEF MarksInv

\* What leaves marks and maximum alone: refusals, submissions and decisions.
LEMMA OtherInv ==
  ASSUME MarksInv, UNCHANGED <<outOf, given, written, stale, emptied>>,
         \/ \E t \in Sheets : SheetRefused(t) \/ BeginSendMarks(t) \/ SendMarks(t)
         \/ \E verdict \in MarkVerdicts : DecideMarks(verdict)
         \/ UNCHANGED marksVars
  PROVE  MarksInv'
<1>1. MarksWithinMaximum' /\ HasMarks' = HasMarks
  BY DEF MarksInv, MarksWithinMaximum, Within, HasMarks, NoMarks, Unmarked
<1>2. ASSUME NEW t \in Sheets, SheetRefused(t) PROVE MarksInv'
  <2>1. Judged'
    BY <1>2, Cleared DEF SheetRefused, MarksInv, Judged, Within, Unmarked
  <2>2. MarksTypeOK'
    BY <1>2, <2>1, Cleared DEF SheetRefused, MarksInv, MarksTypeOK, Judged
  <2>3. SendsMarks' /\ SentHasMarks'
    BY <1>1, <1>2, Cleared DEF SheetRefused, MarksInv, SendsMarks, SentHasMarks
  <2> QED BY <1>1, <2>1, <2>2, <2>3 DEF MarksInv
<1>3. ASSUME NEW t \in Sheets, BeginSendMarks(t) PROVE MarksInv'
  <2>1. Judged'
    BY <1>3 DEF BeginSendMarks, MarksInv, MarksTypeOK, Judged, Within, Unmarked
  <2>2. MarksTypeOK'
    BY <1>3, <2>1 DEF BeginSendMarks, MarksInv, MarksTypeOK, Judged
  <2>3. SendsMarks' /\ SentHasMarks'
    BY <1>1, <1>3 DEF BeginSendMarks, MaySend, MarksInv, MarksTypeOK, SendsMarks, SentHasMarks
  <2> QED BY <1>1, <2>1, <2>2, <2>3 DEF MarksInv
<1>4. ASSUME NEW t \in Sheets, SendMarks(t) PROVE MarksInv'
  <2>1. Judged'
    BY <1>4, Cleared DEF SendMarks, MarksInv, Judged, Within, Unmarked
  <2>2. MarksTypeOK'
    BY <1>4, <2>1, Cleared DEF SendMarks, MarksInv, MarksTypeOK, Judged
  <2>3. SendsMarks' /\ SentHasMarks'
    BY <1>1, <1>4, Cleared DEF SendMarks, MarksInv, SendsMarks, SentHasMarks
  <2> QED BY <1>1, <2>1, <2>2, <2>3 DEF MarksInv
<1>5. ASSUME NEW verdict \in MarkVerdicts, DecideMarks(verdict) PROVE MarksInv'
  <2>1. Judged' /\ MarksTypeOK'
    BY <1>5 DEF DecideMarks, MarksInv, MarksTypeOK, Judged, Within, Unmarked
  <2>2. SendsMarks' /\ SentHasMarks'
    BY <1>1, <1>5 DEF DecideMarks, MarksInv, SendsMarks, SentHasMarks
  <2> QED BY <1>1, <2>1, <2>2 DEF MarksInv
<1>6. CASE UNCHANGED marksVars
  BY <1>1, <1>6 DEF marksVars, MarksInv, MarksTypeOK, Judged, Within, Unmarked, SendsMarks,
                  SentHasMarks
<1> QED BY <1>2, <1>3, <1>4, <1>5, <1>6

\* Every step of the marks.
LEMMA StepMarks == MarksInv /\ [MarksNext]_marksVars => MarksInv'
<1> SUFFICES ASSUME MarksInv, [MarksNext]_marksVars PROVE MarksInv'
  OBVIOUS
<1>1. ASSUME NEW t \in Sheets, NEW marks \in [Learners -> Values], ParseMarks(t, marks)
      PROVE  MarksInv'
  <2>1. outOf \in 1..TopMark /\ Within(marks, outOf)
    BY <1>1, MarksAssumption DEF ParseMarks, Parses, MarksInv, MarksTypeOK
  <2> QED BY <1>1, <2>1, Begun DEF ParseMarks
<1>2. ASSUME NEW t \in Sheets, NEW most \in 1..TopMark, CheckMaximum(t, most) PROVE MarksInv'
  <2>1. most \in 1..TopMark /\ Within(given, most) /\ given \in [Learners -> Values]
    BY <1>2, MarksAssumption DEF CheckMaximum, Allowed, MarksInv, MarksTypeOK
  <2> QED BY <1>2, <2>1, Begun DEF CheckMaximum
<1>3. ASSUME NEW t \in Sheets, SheetRefused(t) \/ BeginSendMarks(t) \/ SendMarks(t)
      PROVE  MarksInv'
  BY <1>3, OtherInv DEF SheetRefused, BeginSendMarks, SendMarks
<1>4. ASSUME NEW verdict \in MarkVerdicts, DecideMarks(verdict) PROVE MarksInv'
  BY <1>4, OtherInv DEF DecideMarks
<1>5. CASE UNCHANGED marksVars
  BY <1>5, OtherInv DEF marksVars
<1> QED BY <1>1, <1>2, <1>3, <1>4, <1>5, SaveInv, MaximumInv DEF MarksNext
-----------------------------------------------------------------------------
\* The inductive invariant of saveMarks(), updateAssessment() and the handlers
\* of an assessment's approval, however their requests overlap.
THEOREM MarksInvariance == MarksSpec => []MarksInv
<1> QED BY InitMarks, StepMarks, PTL DEF MarksSpec

\* The types of the assessment and of the requests in flight.
THEOREM MarksTypeCorrect == MarksSpec => []MarksTypeOK
<1>1. MarksInv => MarksTypeOK
  BY DEF MarksInv
<1> QED BY <1>1, MarksInvariance, PTL

\* No mark is above the maximum unless two writes overlapped (saveMarks() parses
\* before its transaction, updateAssessment() checks before its UPDATE).
THEOREM MarksStayWithin == MarksSpec => []MarksWithinMaximum
<1>1. MarksInv => MarksWithinMaximum
  BY DEF MarksInv
<1> QED BY <1>1, MarksInvariance, PTL

\* What waits for approval, or has it, has marks (hasMarks() in canSubmit()).
THEOREM SentAlwaysHasMarks == MarksSpec => []SentHasMarks
<1>1. MarksInv => SentHasMarks
  BY DEF MarksInv
<1> QED BY <1>1, MarksInvariance, PTL

\* What an approver reads is what she decides on: no mark and no maximum is
\* written while a decision is awaited, nor after an approval.
THEOREM MarksAlwaysStay == MarksSpec => MarksStay
<1>1. [MarksNext]_marksVars => [~MayChange => UNCHANGED <<outOf, given>>]_marksVars
  BY DEF MarksNext, ParseMarks, CheckMaximum, SaveMarks, HoldEditable, ChangeMaximum,
         SheetRefused, BeginSendMarks, SendMarks, DecideMarks, marksVars
<1> QED BY <1>1, PTL DEF MarksSpec, MarksStay

\* All that is promised of an assessment's marks, for any class and any forms.
THEOREM MarksKeepPromises == MarksSpec => MarksPromises
BY MarksTypeCorrect, MarksStayWithin, SentAlwaysHasMarks, MarksAlwaysStay, PTL
   DEF MarksPromises

-----------------------------------------------------------------------------
(***************************************************************************)
(* What TeachBack promises for any number of reviewers, completions of the *)
(* upload and requests.                                                    *)
(*                                                                         *)
(* ReviewedOnce is not inductive: that only one request waits at a time,   *)
(* that a call which makes one had read an unreviewed clip, and that none  *)
(* waits on a reviewed clip unless it crossed the review, come with it.    *)
(***************************************************************************)


\* approvals_one_pending_uq.
OnePending == \A p, q \in PendingReviews : p = q

\* A review makes a request only of a clip it read unreviewed.
CreatesFresh == \A r \in Reviewers : desk[r].at = "create" => desk[r].fresh

\* What was decided, and what waits, by who has reviewed the clip.
DecidedOnce ==
  \/ crossedIt
  \/ reviewedBy = NoReviewer /\ Decided = {}
  \/ reviewedBy = Earlier /\ Decided = {} /\ PendingReviews = {}
  \/ /\ reviewedBy \in Reviewers /\ PendingReviews = {}
     /\ \E q \in Reviews : Decided = {q}

\* The rows, typed.
Rows ==
  /\ review \in [Reviews -> [status : ReviewChoices \cup {"none", "pending"},
                            by : Reviewers \cup {NoReviewer}]]
  /\ \A q \in Reviews : review[q].by = NoReviewer <=> review[q].status \notin ReviewChoices

\* The calls of the reviewers, typed.
Call  == [at : AtDesk, fresh : BOOLEAN, review : Reviews \cup {NoReview}]
Desks ==
  /\ desk \in [Reviewers -> Call]
  /\ \A r \in Reviewers : desk[r].at = "decide" => desk[r].review \in Reviews \ FreeReviews

TeachInv ==
  /\ TeachTypeOK /\ Rows /\ Desks
  /\ OnePending /\ CreatesFresh /\ DecidedOnce /\ ReviewedWithDecision
-----------------------------------------------------------------------------
\* A call that goes on without opening a request, or ends, is typed.
LEMMA DeskMoves ==
  ASSUME TeachInv, UNCHANGED review, NEW r \in Reviewers, NEW call \in Call,
         desk' = [desk EXCEPT ![r] = call],
         call.at = "create" => call.fresh,
         call.at = "decide" => call.review \in Reviews \ FreeReviews
  PROVE  Desks' /\ CreatesFresh'
<1>1. FreeReviews' = FreeReviews
  BY DEF FreeReviews
<1> QED BY <1>1 DEF Desks, CreatesFresh, TeachInv

\* Nothing the requests say changes with such a call.
LEMMA RowsStay ==
  ASSUME TeachInv, UNCHANGED <<reviewedBy, review, crossedIt>>
  PROVE  Rows' /\ OnePending' /\ DecidedOnce' /\ ReviewedWithDecision'
<1>1. PendingReviews' = PendingReviews /\ Decided' = Decided
  BY DEF PendingReviews, Decided
<1>2. Rows' /\ OnePending'
  BY <1>1 DEF TeachInv, Rows, OnePending
<1>3. DecidedOnce' /\ ReviewedWithDecision'
  BY <1>1 DEF TeachInv, DecidedOnce, ReviewedWithDecision
<1> QED BY <1>2, <1>3

\* A request opened: it waits alone, and if the clip has a review it crossed it.
LEMMA RowInserted ==
  ASSUME TeachInv, NEW q \in Reviews, InsertReview(q, TRUE), UNCHANGED reviewedBy
  PROVE  /\ Rows' /\ OnePending' /\ DecidedOnce' /\ ReviewedWithDecision'
         /\ crossedIt' \in BOOLEAN
         /\ FreeReviews' = FreeReviews \ {q}
<1>1. review[q] = [status |-> "none", by |-> NoReviewer]
  BY DEF InsertReview, FreeReviews, TeachInv, Rows, ReviewChoices
<1>2. /\ review'[q] = [status |-> "pending", by |-> NoReviewer]
      /\ \A p \in Reviews \ {q} : review'[p] = review[p]
  BY <1>1 DEF InsertReview, TeachInv, Rows
<1>3. Rows'
  <2>1. review' \in [Reviews -> [status : ReviewChoices \cup {"none", "pending"},
                                by : Reviewers \cup {NoReviewer}]]
    BY <1>1 DEF InsertReview, TeachInv, Rows
  <2> QED BY <1>2, <2>1 DEF TeachInv, Rows, ReviewChoices
<1>4. PendingReviews' = {q} /\ Decided' = Decided /\ FreeReviews' = FreeReviews \ {q}
  BY <1>1, <1>2 DEF InsertReview, PendingReviews, Decided, FreeReviews, ReviewChoices
<1>5. OnePending'
  BY <1>4 DEF OnePending
<1>6. DecidedOnce' /\ crossedIt' \in BOOLEAN
  <2>1. crossedIt' = (crossedIt \/ reviewedBy # NoReviewer) /\ crossedIt' \in BOOLEAN
    BY DEF InsertReview
  <2> QED BY <1>4, <2>1, TeachAssumption DEF TeachInv, DecidedOnce
<1>7. ReviewedWithDecision'
  BY <1>1, <1>2, <1>4 DEF TeachInv, ReviewedWithDecision, Decided, ReviewChoices
<1> QED BY <1>3, <1>4, <1>5, <1>6, <1>7

\* A decision: the row has its reviewer, and the clip its first.
LEMMA RowDecided ==
  ASSUME TeachInv, NEW r \in Reviewers, NEW choice \in ReviewChoices, DecideReview(r, choice)
  PROVE  /\ Rows' /\ OnePending' /\ DecidedOnce' /\ ReviewedWithDecision'
         /\ reviewedBy' \in Reviewers \cup {NoReviewer, Earlier}
         /\ FreeReviews' = FreeReviews
<1> DEFINE q == desk[r].review
<1>1. q \in PendingReviews /\ q \in Reviews /\ PendingReviews = {q} /\ q \notin Decided
  BY DEF DecideReview, TakesDecision, TeachInv, OnePending, PendingReviews, Decided,
         ReviewChoices
<1>2. /\ review'[q] = [status |-> choice, by |-> r]
      /\ \A p \in Reviews \ {q} : review'[p] = review[p]
  BY <1>1 DEF DecideReview, TeachInv, Rows
<1>3. Rows'
  <2>1. review' \in [Reviews -> [status : ReviewChoices \cup {"none", "pending"},
                                by : Reviewers \cup {NoReviewer}]]
    BY <1>1 DEF DecideReview, TeachInv, Rows
  <2>2. r # NoReviewer
    BY TeachAssumption
  <2> QED BY <1>2, <2>1, <2>2 DEF TeachInv, Rows
<1>4. PendingReviews' = {} /\ Decided' = Decided \cup {q} /\ FreeReviews' = FreeReviews
  BY <1>1, <1>2 DEF PendingReviews, Decided, FreeReviews, ReviewChoices
<1>5. /\ reviewedBy' = IF reviewedBy = NoReviewer THEN r ELSE reviewedBy
      /\ UNCHANGED crossedIt
  BY DEF DecideReview, ReviewerAfter
<1>6. DecidedOnce' /\ OnePending'
  BY <1>1, <1>4, <1>5, TeachAssumption DEF TeachInv, DecidedOnce, OnePending
<1>7. ReviewedWithDecision'
  <2>1. CASE reviewedBy = NoReviewer
    BY <1>1, <1>2, <1>4, <1>5, <2>1, TeachAssumption DEF ReviewedWithDecision
  <2>2. CASE reviewedBy # NoReviewer
    <3>1. \A p \in Decided : review'[p] = review[p]
      BY <1>1, <1>2 DEF Decided
    <3> QED BY <1>4, <1>5, <2>2, <3>1 DEF TeachInv, ReviewedWithDecision
  <2> QED BY <2>1, <2>2
<1>8. reviewedBy' \in Reviewers \cup {NoReviewer, Earlier}
  BY <1>5 DEF TeachInv, TeachTypeOK
<1> QED BY <1>3, <1>4, <1>6, <1>7, <1>8

\* The rows say what TeachTypeOK says of them.
LEMMA RowsTyped ==
  ASSUME Rows
  PROVE  \A q \in Reviews :
           \/ review[q] \in [status : {"none", "pending"}, by : {NoReviewer}]
           \/ review[q] \in [status : ReviewChoices, by : Reviewers]
BY DEF Rows
-----------------------------------------------------------------------------
\* At the start.
LEMMA InitTeach == TeachInit => TeachInv
<1> SUFFICES ASSUME TeachInit PROVE TeachInv
  OBVIOUS
<1>1. PendingReviews = {} /\ Decided = {}
  BY DEF TeachInit, Unsent, PendingReviews, Decided, ReviewChoices
<1>2. Rows /\ OnePending
  BY <1>1 DEF TeachInit, Unsent, Rows, OnePending, ReviewChoices
<1>3. Desks /\ CreatesFresh
  BY DEF TeachInit, NoDesk, Desks, Call, AtDesk, CreatesFresh
<1>4. DecidedOnce /\ ReviewedWithDecision
  BY <1>1, TeachAssumption DEF TeachInit, DecidedOnce, ReviewedWithDecision
<1>5. TeachTypeOK
  BY <1>2, <1>3, RowsTyped DEF TeachInit, TeachTypeOK, Desks, Call
<1> QED BY <1>2, <1>3, <1>4, <1>5 DEF TeachInv

\* The upload's submission changes no call of a reviewer.
LEMMA UploadInv ==
  ASSUME TeachInv, NEW u \in Completions,
         BeginUploadSubmit(u) \/ SubmitUpload(u) \/ SubmitLost(u)
  PROVE  TeachInv'
<1>1. UNCHANGED <<playable, reviewedBy, desk>>
  BY DEF BeginUploadSubmit, SubmitUpload, SubmitLost
<1>2. upload' \in [Completions -> {"none", "insert", "done"}]
  BY DEF BeginUploadSubmit, SubmitUpload, SubmitLost, TeachInv, TeachTypeOK
<1>3. \/ UNCHANGED <<review, crossedIt>>
      \/ \E q \in Reviews : InsertReview(q, TRUE)
  BY DEF BeginUploadSubmit, SubmitUpload, SubmitLost
<1>4. /\ Rows' /\ OnePending' /\ DecidedOnce' /\ ReviewedWithDecision'
      /\ crossedIt' \in BOOLEAN /\ FreeReviews' \subseteq FreeReviews
  <2>1. CASE UNCHANGED <<review, crossedIt>>
    BY <1>1, <2>1, RowsStay DEF TeachInv, TeachTypeOK, FreeReviews
  <2>2. ASSUME NEW q \in Reviews, InsertReview(q, TRUE)
        PROVE  /\ Rows' /\ OnePending' /\ DecidedOnce' /\ ReviewedWithDecision'
               /\ crossedIt' \in BOOLEAN /\ FreeReviews' \subseteq FreeReviews
    BY <1>1, <2>2, RowInserted
  <2> QED BY <1>3, <2>1, <2>2
<1>5. Desks' /\ CreatesFresh'
  BY <1>1, <1>4 DEF TeachInv, Desks, CreatesFresh
<1>6. TeachTypeOK'
  <2>1. /\ playable' \in BOOLEAN
        /\ reviewedBy' \in Reviewers \cup {NoReviewer, Earlier}
    BY <1>1 DEF TeachInv, TeachTypeOK
  <2>2. (\A q \in Reviews :
           \/ review[q] \in [status : {"none", "pending"}, by : {NoReviewer}]
           \/ review[q] \in [status : ReviewChoices, by : Reviewers])'
    BY <1>4 DEF Rows
  <2> QED BY <1>2, <1>4, <1>5, <2>1, <2>2 DEF TeachTypeOK, Desks, Call
<1> QED BY <1>4, <1>5, <1>6 DEF TeachInv

\* The invariant from its parts, after a reviewer's step.
LEMMA Together ==
  ASSUME TeachInv, UNCHANGED <<playable, upload>>, crossedIt' \in BOOLEAN,
         reviewedBy' \in Reviewers \cup {NoReviewer, Earlier},
         Rows', Desks', CreatesFresh', OnePending', DecidedOnce', ReviewedWithDecision'
  PROVE  TeachInv'
<1>1. (\A q \in Reviews :
         \/ review[q] \in [status : {"none", "pending"}, by : {NoReviewer}]
         \/ review[q] \in [status : ReviewChoices, by : Reviewers])'
  BY DEF Rows
<1>2. TeachTypeOK'
  BY <1>1 DEF TeachInv, TeachTypeOK, Desks, Call
<1> QED BY <1>2 DEF TeachInv

\* A reviewer's step that writes no row.
LEMMA ReadingInv ==
  ASSUME TeachInv, NEW r \in Reviewers, NEW call \in Call,
         desk' = [desk EXCEPT ![r] = call],
         UNCHANGED <<playable, reviewedBy, review, upload, crossedIt>>,
         call.at = "create" => call.fresh,
         call.at = "decide" => call.review \in PendingReviews
  PROVE  TeachInv'
<1>1. PendingReviews \subseteq Reviews \ FreeReviews
  BY DEF PendingReviews, FreeReviews
<1>2. Desks' /\ CreatesFresh'
  BY <1>1, DeskMoves
<1> QED BY <1>2, RowsStay, Together DEF TeachInv, TeachTypeOK

\* Where such a step leaves the call.
LEMMA Calls ==
  ASSUME TeachInv, NEW r \in Reviewers
  PROVE  /\ \A at \in AtDesk : DeskAt(r, at) =>
              desk' = [desk EXCEPT ![r] = [at |-> at, fresh |-> desk[r].fresh,
                                           review |-> desk[r].review]]
         /\ \A fresh \in BOOLEAN : desk' = [desk EXCEPT ![r].at = "read", ![r].fresh = fresh] =>
              desk' = [desk EXCEPT ![r] = [at |-> "read", fresh |-> fresh,
                                           review |-> desk[r].review]]
         /\ \A q \in Reviews : desk' = [desk EXCEPT ![r].at = "decide", ![r].review = q] =>
              desk' = [desk EXCEPT ![r] = [at |-> "decide", fresh |-> desk[r].fresh,
                                           review |-> q]]
         /\ desk[r].fresh \in BOOLEAN /\ desk[r].review \in Reviews \cup {NoReview}
<1>1. /\ desk \in [Reviewers -> Call]
      /\ desk[r] = [at |-> desk[r].at, fresh |-> desk[r].fresh, review |-> desk[r].review]
  BY DEF TeachInv, Desks, Call
<1>2. desk[r].fresh \in BOOLEAN /\ desk[r].review \in Reviews \cup {NoReview}
  BY <1>1 DEF Call
<1>3. ASSUME NEW at \in AtDesk, DeskAt(r, at)
      PROVE  desk' = [desk EXCEPT ![r] = [at |-> at, fresh |-> desk[r].fresh,
                                          review |-> desk[r].review]]
  <2> DEFINE c == desk[r]
  <2>1. [c EXCEPT !.at = at] = [at |-> at, fresh |-> c.fresh, review |-> c.review]
    BY <1>1
  <2>2. desk' = [desk EXCEPT ![r] = [c EXCEPT !.at = at]]
    BY <1>3 DEF DeskAt
  <2> QED BY <2>1, <2>2
<1>4. ASSUME NEW fresh \in BOOLEAN,
             desk' = [desk EXCEPT ![r].at = "read", ![r].fresh = fresh]
      PROVE  desk' = [desk EXCEPT ![r] = [at |-> "read", fresh |-> fresh,
                                          review |-> desk[r].review]]
  <2> DEFINE c == desk[r]
  <2>1. [c EXCEPT !.at = "read", !.fresh = fresh]
           = [at |-> "read", fresh |-> fresh, review |-> c.review]
    <3>1. [c EXCEPT !.at = "read"] = [at |-> "read", fresh |-> c.fresh, review |-> c.review]
      BY <1>1
    <3>2. [c EXCEPT !.at = "read", !.fresh = fresh]
             = [[c EXCEPT !.at = "read"] EXCEPT !.fresh = fresh]
      BY <1>1
    <3>3. [[at |-> "read", fresh |-> c.fresh, review |-> c.review] EXCEPT !.fresh = fresh]
             = [at |-> "read", fresh |-> fresh, review |-> c.review]
      OBVIOUS
    <3> QED BY <3>1, <3>2, <3>3
  <2>2. desk' = [desk EXCEPT ![r] = [c EXCEPT !.at = "read", !.fresh = fresh]]
    BY <1>4
  <2> QED BY <2>1, <2>2
<1>5. ASSUME NEW q \in Reviews,
             desk' = [desk EXCEPT ![r].at = "decide", ![r].review = q]
      PROVE  desk' = [desk EXCEPT ![r] = [at |-> "decide", fresh |-> desk[r].fresh,
                                          review |-> q]]
  <2> DEFINE c == desk[r]
  <2>1. [c EXCEPT !.at = "decide", !.review = q]
           = [at |-> "decide", fresh |-> c.fresh, review |-> q]
    <3>1. [c EXCEPT !.at = "decide"] = [at |-> "decide", fresh |-> c.fresh, review |-> c.review]
      BY <1>1
    <3>2. [c EXCEPT !.at = "decide", !.review = q]
             = [[c EXCEPT !.at = "decide"] EXCEPT !.review = q]
      BY <1>1
    <3>3. [[at |-> "decide", fresh |-> c.fresh, review |-> c.review] EXCEPT !.review = q]
             = [at |-> "decide", fresh |-> c.fresh, review |-> q]
      OBVIOUS
    <3> QED BY <3>1, <3>2, <3>3
  <2>2. desk' = [desk EXCEPT ![r] = [c EXCEPT !.at = "decide", !.review = q]]
    BY <1>5
  <2> QED BY <2>1, <2>2
<1> QED BY <1>2, <1>3, <1>4, <1>5

\* A call that ends.
LEMMA EndsInv ==
  ASSUME TeachInv, NEW r \in Reviewers, DeskEnds(r),
         UNCHANGED <<playable, reviewedBy, review, upload, crossedIt>>
  PROVE  TeachInv'
<1>1. NoDesk \in Call /\ NoDesk.at = "none"
  BY DEF NoDesk, Call, AtDesk
<1> QED BY <1>1, ReadingInv DEF DeskEnds

\* A call that goes on, where it stands.
LEMMA GoesInv ==
  ASSUME TeachInv, NEW r \in Reviewers, NEW at \in {"create", "again"}, DeskAt(r, at),
         at = "create" => desk[r].fresh,
         UNCHANGED <<playable, reviewedBy, review, upload, crossedIt>>
  PROVE  TeachInv'
<1> DEFINE call == [at |-> at, fresh |-> desk[r].fresh, review |-> desk[r].review]
<1>1. at \in AtDesk
  BY DEF AtDesk
<1>2. call \in Call
  BY <1>1, Calls DEF Call
<1>3. desk' = [desk EXCEPT ![r] = call]
  BY <1>1, Calls
<1>4. call.at = at /\ call.fresh = desk[r].fresh
  OBVIOUS
<1> HIDE DEF call
<1> QED BY <1>2, <1>3, <1>4, ReadingInv

\* A request found open is decided next.
LEMMA FindsInv ==
  ASSUME TeachInv, NEW r \in Reviewers, NEW q \in PendingReviews,
         desk' = [desk EXCEPT ![r].at = "decide", ![r].review = q],
         UNCHANGED <<playable, reviewedBy, review, upload, crossedIt>>
  PROVE  TeachInv'
<1> DEFINE call == [at |-> "decide", fresh |-> desk[r].fresh, review |-> q]
<1>1. q \in Reviews
  BY DEF PendingReviews
<1>2. call \in Call
  BY <1>1, Calls DEF Call, AtDesk
<1>3. desk' = [desk EXCEPT ![r] = call]
  BY <1>1, Calls
<1>4. call.at = "decide" /\ call.review = q
  OBVIOUS
<1> HIDE DEF call
<1> QED BY <1>2, <1>3, <1>4, ReadingInv

\* An upload or a decision reads the clip.
LEMMA ReadClipInv ==
  ASSUME TeachInv, NEW r \in Reviewers, ReadClip(r)
  PROVE  TeachInv'
<1> DEFINE fresh == (reviewedBy = NoReviewer)
           call == [at |-> "read", fresh |-> fresh, review |-> desk[r].review]
<1>1. call \in Call
  BY Calls DEF Call, AtDesk
<1>2. desk' = [desk EXCEPT ![r] = call]
  BY Calls DEF ReadClip
<1>3. call.at = "read"
  OBVIOUS
<1> HIDE DEF call
<1> QED BY <1>1, <1>2, <1>3, ReadingInv DEF ReadClip

\* A request is written.
LEMMA CreateInv ==
  ASSUME TeachInv, NEW r \in Reviewers, CreateRequest(r)
  PROVE  TeachInv'
<1>1. ASSUME NEW q \in Reviews, InsertReview(q, desk[r].fresh),
             desk' = [desk EXCEPT ![r].at = "decide", ![r].review = q]
      PROVE  TeachInv'
  <2> DEFINE call == [at |-> "decide", fresh |-> desk[r].fresh, review |-> q]
  <2>1. InsertReview(q, TRUE) /\ UNCHANGED <<playable, reviewedBy, upload>>
    BY <1>1 DEF CreateRequest, TeachInv, CreatesFresh, InsertReview
  <2>2. call \in Call /\ call.at = "decide" /\ call.review = q
    BY Calls DEF Call, AtDesk
  <2>3. desk' = [desk EXCEPT ![r] = call]
    BY <1>1, Calls
  <2>4. FreeReviews' = FreeReviews \ {q}
    BY <2>1, RowInserted
  <2> HIDE DEF call
  <2>5. Desks' /\ CreatesFresh'
    BY <2>2, <2>3, <2>4 DEF TeachInv, Desks, CreatesFresh
  <2> QED BY <2>1, <2>5, RowInserted, Together DEF TeachInv, TeachTypeOK
<1>2. CASE DeskAt(r, "again") /\ UNCHANGED <<review, crossedIt>>
  BY <1>2, GoesInv DEF CreateRequest
<1> QED BY <1>1, <1>2 DEF CreateRequest

\* A decision is made.
LEMMA DecideReviewInv ==
  ASSUME TeachInv, NEW r \in Reviewers, NEW choice \in ReviewChoices, DecideReview(r, choice)
  PROVE  TeachInv'
<1>1. UNCHANGED <<playable, upload, crossedIt>> /\ DeskEnds(r)
  BY DEF DecideReview
<1>2. Desks' /\ CreatesFresh'
  BY <1>1, RowDecided DEF DeskEnds, NoDesk, Call, AtDesk, TeachInv, Desks, CreatesFresh
<1> QED BY <1>1, <1>2, RowDecided, Together DEF TeachInv, TeachTypeOK

\* Every step of a review.
LEMMA StepTeach == TeachInv /\ [TeachNext]_teachVars => TeachInv'
<1> SUFFICES ASSUME TeachInv, [TeachNext]_teachVars PROVE TeachInv'
  OBVIOUS
<1>1. ASSUME BecomesReady \/ UNCHANGED teachVars PROVE TeachInv'
  <2>1. UNCHANGED <<reviewedBy, review, desk, upload, crossedIt>> /\ playable' \in BOOLEAN
    BY <1>1 DEF BecomesReady, teachVars, TeachInv, TeachTypeOK
  <2>2. Desks' /\ CreatesFresh'
    BY <2>1 DEF TeachInv, Desks, CreatesFresh, FreeReviews
  <2>3. TeachTypeOK'
    BY <2>1 DEF TeachInv, TeachTypeOK, FreeReviews
  <2> QED BY <2>1, <2>2, <2>3, RowsStay DEF TeachInv
<1>2. ASSUME NEW r \in Reviewers, FindRequest(r) \/ FindAgain(r) PROVE TeachInv'
  <2>1. ASSUME NEW q \in PendingReviews,
               desk' = [desk EXCEPT ![r].at = "decide", ![r].review = q]
        PROVE  TeachInv'
    BY <1>2, <2>1, FindsInv DEF FindRequest, FindAgain
  <2>2. CASE DeskEnds(r)
    BY <1>2, <2>2, EndsInv DEF FindRequest, FindAgain
  <2>3. CASE desk[r].fresh /\ DeskAt(r, "create")
    BY <1>2, <2>3, GoesInv DEF FindRequest, FindAgain
  <2> QED BY <1>2, <2>1, <2>2, <2>3 DEF FindRequest, FindAgain, WithoutRequest
<1>3. ASSUME NEW r \in Reviewers, NEW q \in Reviews, OpenQueue(r, q) PROVE TeachInv'
  BY <1>3, FindsInv DEF OpenQueue
<1>4. ASSUME NEW r \in Reviewers, DecideFails(r) PROVE TeachInv'
  BY <1>4, EndsInv DEF DecideFails
<1> QED BY <1>1, <1>2, <1>3, <1>4, UploadInv, ReadClipInv, CreateInv, DecideReviewInv DEF TeachNext
-----------------------------------------------------------------------------
\* The inductive invariant of reviewTeachBack(), the upload's submission and
\* the approvals queue, for any number of each.
THEOREM TeachInvariance == TeachSpec => []TeachInv
<1> QED BY InitTeach, StepTeach, PTL DEF TeachSpec

\* The types of the clip, its requests and the calls.
THEOREM TeachTypeCorrect == TeachSpec => []TeachTypeOK
<1>1. TeachInv => TeachTypeOK
  BY DEF TeachInv
<1> QED BY <1>1, TeachInvariance, PTL

\* One decision on a clip, however many reviewers have it open, unless a request
\* was made by who had read the clip before its review.
THEOREM ClipReviewedOnce == TeachSpec => []ReviewedOnce
<1>1. TeachInv => ReviewedOnce
  <2> SUFFICES ASSUME TeachInv, ~crossedIt
               PROVE  Cardinality(Decided) <= (IF reviewedBy = Earlier THEN 0 ELSE 1)
    BY DEF ReviewedOnce
  <2>1. CASE Decided = {}
    BY <2>1, FS_EmptySet
  <2>2. ASSUME NEW q \in Reviews, Decided = {q}, reviewedBy \in Reviewers
        PROVE  Cardinality(Decided) <= (IF reviewedBy = Earlier THEN 0 ELSE 1)
    BY <2>2, FS_Singleton, TeachAssumption
  <2> QED BY <2>1, <2>2 DEF TeachInv, DecidedOnce
<1> QED BY <1>1, TeachInvariance, PTL

\* The clip names a reviewer from the first decision on, and one who decided.
THEOREM ClipNamesReviewer == TeachSpec => []ReviewedWithDecision
<1>1. TeachInv => ReviewedWithDecision
  BY DEF TeachInv
<1> QED BY <1>1, TeachInvariance, PTL

\* No later decision takes the first reviewer's place, nor changes a decision
\* made (reviewed_at IS NULL in onDecision(), status = 'pending' in the queue).
THEOREM FirstReviewAlwaysStays == TeachSpec => FirstReviewStays
<1>1. ASSUME TeachInv, [TeachNext]_teachVars
      PROVE  /\ reviewedBy # NoReviewer => reviewedBy' = reviewedBy
             /\ \A q \in Decided : review'[q] = review[q]
  <2>1. ASSUME NEW q \in Reviews, NEW fresh, InsertReview(q, fresh)
        PROVE  \A p \in Decided : review'[p] = review[p]
    BY <2>1 DEF InsertReview, FreeReviews, Decided, ReviewChoices, TeachInv, Rows
  <2>2. ASSUME NEW r \in Reviewers, NEW choice \in ReviewChoices, DecideReview(r, choice)
        PROVE  /\ reviewedBy # NoReviewer => reviewedBy' = reviewedBy
               /\ \A p \in Decided : review'[p] = review[p]
    BY <2>2 DEF DecideReview, TakesDecision, ReviewerAfter, PendingReviews, Decided,
                ReviewChoices, TeachInv, Rows
  <2> QED BY <1>1, <2>1, <2>2 DEF TeachNext, BecomesReady, BeginUploadSubmit, SubmitUpload,
             SubmitLost, ReadClip, FindRequest, CreateRequest, FindAgain, OpenQueue,
             DecideFails, teachVars
<1>2. TeachInv /\ [TeachNext]_teachVars =>
        [/\ reviewedBy # NoReviewer => reviewedBy' = reviewedBy
         /\ \A q \in Decided : review'[q] = review[q]]_teachVars
  BY <1>1
<1> QED BY <1>2, TeachInvariance, PTL DEF TeachSpec, FirstReviewStays

\* All that is promised of a clip's review, for any reviewers and uploads.
THEOREM TeachKeepsPromises == TeachSpec => TeachPromises
BY TeachTypeCorrect, ClipReviewedOnce, ClipNamesReviewer, FirstReviewAlwaysStays, PTL
   DEF TeachPromises

-----------------------------------------------------------------------------
(***************************************************************************)
(* What LessonPlans promises for any number of tabs, admins, lessons and   *)
(* requests.                                                               *)
(*                                                                         *)
(* Two arguments that meet in the row lock.  The lessons: that numbers are *)
(* distinct and fill 1..counted is inductive, and makes the largest number *)
(* the count.  The approval: an open request has the plan's version,       *)
(* because nothing is written while a request of a plan is open.           *)
(***************************************************************************)


\* The lessons fill 1..counted, each number taken once.
Numbered ==
  /\ number \in [Lessons -> Nat] /\ counted \in Nat
  /\ \A l \in Lessons : number[l] <= counted
  /\ \A n \in 1..counted : \E l \in Lessons : number[l] = n
  /\ \A l, m \in Present : number[l] = number[m] => l = m
  /\ Cardinality(Present) = counted

\* The rows of the approval, and who has them open.
PlanRows ==
  /\ plan \in PlanStates /\ version \in 0..MaxVersions
  /\ sending \in [Sendings -> [status : Verdicts \cup {"none", "pending"}, version : Nat]]
  /\ tab \in [Writers -> [at : {"none", "write", "send"}, since : Nat]]
  /\ reader \in [Readers -> [open : Sendings \cup {NoSending}, version : Nat]]

\* approvals_one_pending_uq, and what the one open request sent.
OneOpenSending ==
  /\ \A p, q \in Open : p = q
  /\ \A q \in Open : sending[q].version = version

\* A page is of a request that was sent.
OpenedWasSent == \A b \in Readers : reader[b].open # NoSending => reader[b].open \in EverSent

\* A submission on its way counted the requests there were, and there are more
\* by the time the plan is pending or approved.
SendsAreOlder ==
  /\ IsFiniteSet(EverSent)
  /\ \A t \in Writers : tab[t].at = "send" =>
       /\ tab[t].since <= Cardinality(EverSent)
       /\ plan \in {"pending", "approved"} => tab[t].since < Cardinality(EverSent)

ApprovalInv ==
  /\ PlanRows /\ OneOpenSending /\ OpenedWasSent /\ SendsAreOlder
  /\ PendingHasRequest /\ DecidedAsRead
-----------------------------------------------------------------------------
\* The end of the list is the count.
LEMMA LargestIsCount ==
  ASSUME Numbered, NEW l \in Lessons
  PROVE  Largest(number) = counted
<1>1. counted \in {number[m] : m \in Lessons}
  <2>1. CASE counted = 0
    BY <2>1 DEF Numbered
  <2>2. CASE counted # 0
    <3>1. counted \in 1..counted
      BY <2>2 DEF Numbered
    <3> QED BY <3>1 DEF Numbered
  <2> QED BY <2>1, <2>2
<1>2. \A m \in Lessons : number[m] <= counted
  BY DEF Numbered
<1>3. \A n \in {number[m] : m \in Lessons} : (\A m \in Lessons : number[m] <= n) => n = counted
  BY <1>1, <1>2 DEF Numbered
<1> QED BY <1>1, <1>2, <1>3 DEF Largest

\* The lessons there are a finite set.
LEMMA PresentFinite == IsFiniteSet(Present)
BY PlanAssumption, FS_Subset DEF Present

\* saveLessonAction() adds one at the end.
LEMMA AddNumbered ==
  ASSUME Numbered, NEW t \in Writers, NEW l \in Lessons, AddLesson(t, l)
  PROVE  Numbered'
<1>1. number[l] = 0 /\ number' = [number EXCEPT ![l] = counted + 1] /\ l \notin Present
  <2>1. number[l] = 0 /\ number' = [number EXCEPT ![l] = Largest(number) + 1]
    BY DEF AddLesson
  <2>2. Largest(number) = counted
    BY LargestIsCount
  <2> QED BY <2>1, <2>2 DEF Present
<1>2. Present' = Present \cup {l}
  BY <1>1 DEF Present, Numbered
<1>3. counted' = counted + 1 /\ Cardinality(Present') = counted + 1
  BY <1>1, <1>2, PresentFinite, FS_AddElement DEF AddLesson, Numbered
<1>4. \A n \in 1..(counted + 1) : \E m \in Lessons : number'[m] = n
  <2> SUFFICES ASSUME NEW n \in 1..(counted + 1) PROVE \E m \in Lessons : number'[m] = n
    OBVIOUS
  <2>1. CASE n = counted + 1
    BY <1>1, <2>1 DEF Numbered
  <2>2. CASE n \in 1..counted
    <3>1. PICK m \in Lessons : number[m] = n
      BY <2>2 DEF Numbered
    <3> QED BY <1>1, <2>2, <3>1 DEF Numbered
  <2> QED BY <2>1, <2>2 DEF Numbered
<1>5. \A m, k \in Present' : number'[m] = number'[k] => m = k
  BY <1>1, <1>2 DEF Numbered, Present
<1>6. number' \in [Lessons -> Nat] /\ \A m \in Lessons : number'[m] <= counted + 1
  BY <1>1 DEF Numbered
<1> QED BY <1>3, <1>4, <1>5, <1>6 DEF Numbered

\* renumberLessons() closes the hole.
LEMMA DeleteNumbered ==
  ASSUME Numbered, NEW t \in Writers, NEW l \in Lessons, DeleteLesson(t, l)
  PROVE  Numbered'
<1>1. /\ number[l] > 0 /\ l \in Present
      /\ number' = [m \in Lessons |-> IF m = l THEN 0
                                      ELSE IF number[m] > number[l] THEN number[m] - 1
                                      ELSE number[m]]
  BY DEF DeleteLesson, Without, Present
<1>2. Present' = Present \ {l}
  BY <1>1 DEF Present, Numbered
<1>3. counted' = counted - 1 /\ Cardinality(Present') = counted - 1 /\ counted - 1 \in Nat
  <2>1. Cardinality(Present \ {l}) = Cardinality(Present) - 1
    BY <1>1, PresentFinite, FS_RemoveElement
  <2>2. counted > 0 /\ Cardinality(Present) = counted /\ counted' = Cardinality(Present) - 1
    BY <1>1 DEF DeleteLesson, Numbered
  <2> QED BY <1>2, <2>1, <2>2 DEF Numbered
<1>4. \A n \in 1..(counted - 1) : \E m \in Lessons : number'[m] = n
  <2> SUFFICES ASSUME NEW n \in 1..(counted - 1) PROVE \E m \in Lessons : number'[m] = n
    OBVIOUS
  <2>1. CASE n < number[l]
    <3>1. PICK m \in Lessons : number[m] = n
      BY <1>3 DEF Numbered
    <3> QED BY <1>1, <2>1, <3>1 DEF Numbered
  <2>2. CASE n >= number[l]
    <3>1. PICK m \in Lessons : number[m] = n + 1
      BY <1>3 DEF Numbered
    <3> QED BY <1>1, <2>2, <3>1 DEF Numbered
  <2> QED BY <2>1, <2>2 DEF Numbered
<1>5. \A m, k \in Present' : number'[m] = number'[k] => m = k
  <2> SUFFICES ASSUME NEW m \in Present, NEW k \in Present, m # l, k # l,
                      number'[m] = number'[k]
               PROVE  m = k
    BY <1>2
  <2>1. number[m] # number[l] /\ number[k] # number[l]
    BY <1>1 DEF Numbered
  <2>2. m \in Lessons /\ k \in Lessons
    BY DEF Present
  <2>3. number[m] = number[k]
    BY <1>1, <2>1, <2>2 DEF Numbered
  <2> QED BY <2>3 DEF Numbered
<1>6. number' \in [Lessons -> Nat]
  BY <1>1 DEF Numbered
<1>7. \A m \in Lessons : number'[m] <= counted - 1
  <2> SUFFICES ASSUME NEW m \in Lessons PROVE number'[m] <= counted - 1
    OBVIOUS
  <2>1. number[l] <= counted /\ number[m] <= counted
    BY DEF Numbered
  <2>2. m # l /\ number[m] > 0 => number[m] # number[l]
    BY <1>1 DEF Numbered, Present
  <2> QED BY <1>1, <1>3, <2>1, <2>2 DEF Numbered
<1> QED BY <1>3, <1>4, <1>5, <1>6, <1>7 DEF Numbered

\* moveLessonAction() swaps two numbers.
LEMMA MoveNumbered ==
  ASSUME Numbered, NEW t \in Writers, NEW l \in Lessons, NEW m \in Lessons, MoveLesson(t, l, m)
  PROVE  Numbered'
<1>1. /\ number[l] > 0 /\ number[m] > 0 /\ l # m /\ UNCHANGED counted
      /\ number' \in [Lessons -> Nat] /\ number'[l] = number[m] /\ number'[m] = number[l]
      /\ \A k \in Lessons \ {l, m} : number'[k] = number[k]
  BY DEF MoveLesson, Numbered
<1>2. Present' = Present
  BY <1>1 DEF Present
<1>3. \A n \in 1..counted : \E k \in Lessons : number'[k] = n
  <2> SUFFICES ASSUME NEW n \in 1..counted PROVE \E k \in Lessons : number'[k] = n
    OBVIOUS
  <2>1. PICK k \in Lessons : number[k] = n
    BY DEF Numbered
  <2> QED BY <1>1, <2>1
<1>4. \A j, k \in Present' : number'[j] = number'[k] => j = k
  BY <1>1, <1>2 DEF Numbered, Present
<1>5. \A k \in Lessons : number'[k] <= counted
  BY <1>1 DEF Numbered
<1> QED BY <1>1, <1>2, <1>3, <1>4, <1>5 DEF Numbered

\* At the start.
LEMMA InitNumbered == PlanInit => Numbered
<1> SUFFICES ASSUME PlanInit PROVE Numbered
  OBVIOUS
<1>1. Present = {} /\ Cardinality(Present) = 0
  BY FS_EmptySet DEF PlanInit, Present
<1> QED BY <1>1 DEF PlanInit, Numbered

\* Every step keeps the numbering.
LEMMA StepNumbered == Numbered /\ [PlanNext]_planVars => Numbered'
<1> SUFFICES ASSUME Numbered, [PlanNext]_planVars PROVE Numbered'
  OBVIOUS
<1>1. CASE UNCHANGED lessonRows
  BY <1>1 DEF lessonRows, Numbered, Present
<1>2. ASSUME NEW t \in Writers, DeletePlan(t) PROVE Numbered'
  <2>1. number' = [l \in Lessons |-> 0] /\ counted' = 0
    BY <1>2 DEF DeletePlan
  <2>2. Present' = {} /\ Cardinality(Present') = 0
    BY <2>1, FS_EmptySet DEF Present
  <2> QED BY <2>1, <2>2 DEF Numbered
<1> QED BY <1>1, <1>2, AddNumbered, DeleteNumbered, MoveNumbered
        DEF PlanNext, BeginWrite, WriteRefused, PlanCutOff, RewriteText, BeginSend, SendRefused,
            Send, OpenRequest, DecidePlan, ClosePage, planVars, lessonRows
-----------------------------------------------------------------------------
\* However adds, removals and moves interleave, the lessons are numbered 1 to n
\* and sessions_count says n.
THEOREM LessonsStayNumbered == PlanSpec => []LessonsNumbered
<1>1. Numbered => LessonsNumbered
  <2> SUFFICES ASSUME Numbered PROVE LessonsNumbered
    OBVIOUS
  <2>1. {number[l] : l \in Present} \subseteq 1..counted
    BY DEF Numbered, Present
  <2>2. 1..counted \subseteq {number[l] : l \in Present}
    BY DEF Numbered, Present
  <2> QED BY <2>1, <2>2 DEF Numbered, LessonsNumbered
<1> QED BY <1>1, InitNumbered, StepNumbered, PTL DEF PlanSpec
-----------------------------------------------------------------------------
\* A request opened, or decided: what there is to decide after it.
LEMMA OpenedOver ==
  ASSUME ApprovalInv, NEW t \in Writers, NEW q \in Sendings, Send(t, q)
  PROVE  /\ Open' = {q} /\ EverSent' = EverSent \cup {q} /\ q \notin EverSent
         /\ sending'[q] = [status |-> "pending", version |-> version]
         /\ sending' \in [Sendings -> [status : Verdicts \cup {"none", "pending"},
                                      version : Nat]]
<1>1. version \in Nat
  BY PlanAssumption DEF ApprovalInv, PlanRows
<1>2. /\ sending'[q] = [status |-> "pending", version |-> version]
      /\ \A p \in Sendings \ {q} : sending'[p] = sending[p]
      /\ sending' \in [Sendings -> [status : Verdicts \cup {"none", "pending"}, version : Nat]]
  BY <1>1 DEF Send, ApprovalInv, PlanRows
<1>3. Open = {} /\ sending[q].status = "none"
  BY DEF Send
<1> QED BY <1>2, <1>3 DEF Open, EverSent

\* What a decision writes of the request and of the plan.
LEMMA DecidedRow ==
  ASSUME ApprovalInv, NEW b \in Readers, NEW verdict \in Verdicts, DecidePlan(b, verdict)
  PROVE  /\ Open' = {} /\ EverSent' = EverSent /\ Open # {}
         /\ sending' \in [Sendings -> [status : Verdicts \cup {"none", "pending"},
                                      version : Nat]]
<1> DEFINE q == reader[b].open
<1>1. q \in Sendings /\ q \in Open /\ Open = {q}
  BY PlanAssumption DEF DecidePlan, StillPending, Open, ApprovalInv, PlanRows, OneOpenSending
<1>2. /\ sending'[q].status = verdict /\ \A p \in Sendings \ {q} : sending'[p] = sending[p]
      /\ sending' \in [Sendings -> [status : Verdicts \cup {"none", "pending"}, version : Nat]]
  BY <1>1 DEF DecidePlan, ApprovalInv, PlanRows
<1>3. verdict # "pending" /\ verdict # "none"
  BY DEF Verdicts
<1> QED BY <1>1, <1>2, <1>3 DEF Open, EverSent

\* A tab that goes to rest, or to a write, keeps what the others counted.
LEMMA TabMoves ==
  ASSUME ApprovalInv, NEW t \in Writers,
         \/ tab' = [tab EXCEPT ![t] = AtRest]
         \/ tab' = [tab EXCEPT ![t].at = "write"]
  PROVE  /\ tab' \in [Writers -> [at : {"none", "write", "send"}, since : Nat]]
         /\ \A u \in Writers : tab'[u].at = "send" => tab[u].at = "send" /\ tab'[u] = tab[u]
BY DEF AtRest, ApprovalInv, PlanRows

\* At the start.
LEMMA InitApproval == PlanInit => ApprovalInv
<1> SUFFICES ASSUME PlanInit PROVE ApprovalInv
  OBVIOUS
<1>1. Open = {} /\ EverSent = {}
  BY DEF PlanInit, NotYetSent, Open, EverSent
<1>2. PlanRows
  BY PlanAssumption DEF PlanInit, PlanRows, PlanStates, NotYetSent, AtRest, NotReading
<1>3. OneOpenSending /\ OpenedWasSent /\ PendingHasRequest /\ DecidedAsRead
  BY <1>1 DEF PlanInit, NotReading, OneOpenSending, OpenedWasSent, PendingHasRequest,
              DecidedAsRead
<1>4. SendsAreOlder
  BY <1>1, FS_EmptySet DEF PlanInit, AtRest, SendsAreOlder
<1> QED BY <1>2, <1>3, <1>4 DEF ApprovalInv

\* A write, refused or not, is made while no request is open.
LEMMA WriteInv ==
  ASSUME ApprovalInv, NEW t \in Writers, tab' = [tab EXCEPT ![t] = AtRest],
         UNCHANGED <<sending, reader>>,
         \/ UNCHANGED <<plan, version>>
         \/ /\ EditableState(plan) /\ version' \in 0..MaxVersions
            /\ plan' = plan \/ plan' = "deleted"
  PROVE  ApprovalInv'
<1>1. Open' = Open /\ EverSent' = EverSent
  BY DEF Open, EverSent
<1>2. EditableState(plan) => Open = {}
  BY DEF EditableState, ApprovalInv, PendingHasRequest
<1>3. PlanRows'
  BY TabMoves DEF ApprovalInv, PlanRows, PlanStates
<1>4. OneOpenSending' /\ OpenedWasSent'
  BY <1>1, <1>2 DEF ApprovalInv, OneOpenSending, OpenedWasSent
<1>5. SendsAreOlder'
  BY <1>1, TabMoves DEF ApprovalInv, SendsAreOlder
<1>6. PendingHasRequest'
  BY <1>1, <1>2 DEF ApprovalInv, PendingHasRequest, EditableState
<1>7. DecidedAsRead'
  BY <1>1, <1>2 DEF ApprovalInv, DecidedAsRead
<1> QED BY <1>3, <1>4, <1>5, <1>6, <1>7 DEF ApprovalInv

\* A request is checked for: the plan is editable now.
LEMMA BeginSendInv ==
  ASSUME ApprovalInv, NEW t \in Writers, BeginSend(t)
  PROVE  ApprovalInv'
<1>1. UNCHANGED <<plan, version, sending, reader>> /\ Open' = Open /\ EverSent' = EverSent
  BY DEF BeginSend, Open, EverSent
<1>2. Cardinality(EverSent) \in Nat /\ plan \notin {"pending", "approved"}
  BY FS_CardinalityType DEF BeginSend, MayBeSent, EditableState, ApprovalInv, SendsAreOlder
<1>3. tab' \in [Writers -> [at : {"none", "write", "send"}, since : Nat]]
  BY <1>2 DEF BeginSend, ApprovalInv, PlanRows
<1>4. \A u \in Writers : tab'[u].at = "send" =>
        tab'[u].since <= Cardinality(EverSent)
  BY <1>2 DEF BeginSend, ApprovalInv, PlanRows, SendsAreOlder
<1>5. SendsAreOlder'
  BY <1>1, <1>2, <1>4 DEF ApprovalInv, SendsAreOlder
<1>6. PlanRows' /\ OneOpenSending' /\ OpenedWasSent' /\ PendingHasRequest' /\ DecidedAsRead'
  BY <1>1, <1>3 DEF ApprovalInv, PlanRows, OneOpenSending, OpenedWasSent, PendingHasRequest,
                    DecidedAsRead
<1> QED BY <1>5, <1>6 DEF ApprovalInv

\* submitForApproval() opens the request and sets the plan pending together.
LEMMA SendInv ==
  ASSUME ApprovalInv, NEW t \in Writers, NEW q \in Sendings, Send(t, q)
  PROVE  ApprovalInv'
<1>1. /\ tab' = [tab EXCEPT ![t] = AtRest] /\ UNCHANGED <<version, reader>>
      /\ plan' = (IF plan = "deleted" THEN "deleted" ELSE "pending")
  BY DEF Send
<1>2. PlanRows'
  BY <1>1, OpenedOver, TabMoves DEF ApprovalInv, PlanRows, PlanStates
<1>3. OneOpenSending'
  BY <1>1, OpenedOver DEF OneOpenSending
<1>4. OpenedWasSent'
  BY <1>1, OpenedOver DEF ApprovalInv, OpenedWasSent
<1>5. SendsAreOlder'
  <2>1. /\ IsFiniteSet(EverSent') /\ Cardinality(EverSent') = Cardinality(EverSent) + 1
        /\ Cardinality(EverSent) \in Nat
    BY OpenedOver, FS_AddElement, FS_CardinalityType DEF ApprovalInv, SendsAreOlder
  <2>2. ASSUME NEW u \in Writers, tab'[u].at = "send"
        PROVE  tab'[u].since < Cardinality(EverSent')
    <3>1. tab'[u] = tab[u] /\ tab[u].since \in Nat /\ tab[u].since <= Cardinality(EverSent)
      BY <1>1, <2>2, TabMoves DEF ApprovalInv, PlanRows, SendsAreOlder
    <3> QED BY <2>1, <3>1
  <2>3. \A u \in Writers : tab'[u].since \in Nat
    BY <1>2 DEF PlanRows
  <2> QED BY <2>1, <2>2, <2>3 DEF SendsAreOlder
<1>6. PendingHasRequest'
  BY <1>1, OpenedOver DEF PendingHasRequest
<1>7. DecidedAsRead'
  BY <1>1, OpenedOver DEF ApprovalInv, OpenedWasSent, DecidedAsRead
<1> QED BY <1>2, <1>3, <1>4, <1>5, <1>6, <1>7 DEF ApprovalInv

\* A page opened on a pending request reads what was sent; one closed reads none.
LEMMA PageInv ==
  ASSUME ApprovalInv, NEW b \in Readers,
         (\E q \in Sendings : OpenRequest(b, q)) \/ ClosePage(b)
  PROVE  ApprovalInv'
<1>1. UNCHANGED <<plan, version, sending, tab>> /\ Open' = Open /\ EverSent' = EverSent
  BY DEF OpenRequest, ClosePage, Open, EverSent
<1>2. version \in Nat
  BY PlanAssumption DEF ApprovalInv, PlanRows
<1>3. /\ reader' \in [Readers -> [open : Sendings \cup {NoSending}, version : Nat]]
      /\ OpenedWasSent' /\ DecidedAsRead'
  <2>1. ASSUME NEW q \in Sendings, OpenRequest(b, q)
        PROVE  /\ reader' \in [Readers -> [open : Sendings \cup {NoSending}, version : Nat]]
               /\ OpenedWasSent' /\ DecidedAsRead'
    <3>1. reader' = [reader EXCEPT ![b] = [open |-> q, version |-> version]] /\ q \in Open
      BY <2>1 DEF OpenRequest, Open
    <3>2. reader' \in [Readers -> [open : Sendings \cup {NoSending}, version : Nat]]
      BY <1>2, <3>1 DEF ApprovalInv, PlanRows
    <3>3. q \in EverSent
      BY <3>1 DEF Open, EverSent
    <3>4. OpenedWasSent'
      BY <1>1, <3>1, <3>3 DEF ApprovalInv, PlanRows, OpenedWasSent
    <3>5. DecidedAsRead'
      BY <1>1, <3>1 DEF ApprovalInv, PlanRows, OneOpenSending, DecidedAsRead
    <3> QED BY <3>2, <3>4, <3>5
  <2>2. CASE ClosePage(b)
    BY <1>1, <2>2 DEF ClosePage, NotReading, ApprovalInv, PlanRows, OpenedWasSent, DecidedAsRead
  <2> QED BY <2>1, <2>2
<1>4. OneOpenSending' /\ SendsAreOlder' /\ PendingHasRequest' /\ PlanRows'
  BY <1>1, <1>3 DEF ApprovalInv, PlanRows, OneOpenSending, SendsAreOlder, PendingHasRequest
<1> QED BY <1>3, <1>4 DEF ApprovalInv

\* decideApproval() closes the request and moves the plan together.
LEMMA DecidePlanInv ==
  ASSUME ApprovalInv, NEW b \in Readers, NEW verdict \in Verdicts, DecidePlan(b, verdict)
  PROVE  ApprovalInv'
<1>1. /\ UNCHANGED <<version, tab>> /\ reader' = [reader EXCEPT ![b] = NotReading]
      /\ plan' = (IF plan = "deleted" THEN "deleted" ELSE verdict)
  BY DEF DecidePlan
<1>2. verdict \in PlanStates /\ verdict # "pending" /\ verdict # "deleted"
  BY DEF Verdicts, PlanStates
<1>3. PlanRows'
  BY <1>1, <1>2, DecidedRow DEF NotReading, ApprovalInv, PlanRows
<1>4. OneOpenSending' /\ PendingHasRequest' /\ DecidedAsRead'
  BY <1>1, <1>2, DecidedRow DEF OneOpenSending, PendingHasRequest, DecidedAsRead
<1>5. OpenedWasSent'
  BY <1>1, DecidedRow DEF NotReading, ApprovalInv, PlanRows, OpenedWasSent
<1>6. SendsAreOlder'
  <2>1. plan \in {"pending", "deleted"}
    BY DecidedRow DEF ApprovalInv, PendingHasRequest
  <2> QED BY <1>1, <2>1, DecidedRow DEF ApprovalInv, SendsAreOlder
<1> QED BY <1>3, <1>4, <1>5, <1>6 DEF ApprovalInv

\* Every step of an approval.
LEMMA StepApproval == ApprovalInv /\ [PlanNext]_planVars => ApprovalInv'
<1> SUFFICES ASSUME ApprovalInv, [PlanNext]_planVars PROVE ApprovalInv'
  OBVIOUS
<1>1. ASSUME NEW t \in Writers, BeginWrite(t) PROVE ApprovalInv'
  <2>1. /\ UNCHANGED <<plan, version, sending, reader>> /\ Open' = Open /\ EverSent' = EverSent
        /\ tab' = [tab EXCEPT ![t].at = "write"]
    BY <1>1 DEF BeginWrite, Open, EverSent
  <2> QED BY <2>1, TabMoves DEF ApprovalInv, PlanRows, OneOpenSending, OpenedWasSent,
             SendsAreOlder, PendingHasRequest, DecidedAsRead
<1>2. ASSUME NEW t \in Writers, WriteRefused(t) \/ PlanCutOff(t) \/ SendRefused(t)
      PROVE  ApprovalInv'
  BY <1>2, WriteInv DEF WriteRefused, PlanCutOff, SendRefused
<1>3. ASSUME NEW t \in Writers, Writing(t), plan' = plan \/ plan' = "deleted"
      PROVE  ApprovalInv'
  <2>1. version' \in 0..MaxVersions
    BY <1>3, PlanAssumption DEF Writing, ApprovalInv, PlanRows
  <2> QED BY <1>3, <2>1, WriteInv DEF Writing, LockEditablePlan
<1>4. ASSUME NEW t \in Writers,
             \/ RewriteText(t) \/ DeletePlan(t)
             \/ \E l \in Lessons : AddLesson(t, l) \/ DeleteLesson(t, l)
             \/ \E l, m \in Lessons : MoveLesson(t, l, m)
      PROVE  ApprovalInv'
  BY <1>3, <1>4 DEF RewriteText, DeletePlan, AddLesson, DeleteLesson, MoveLesson
<1>5. CASE UNCHANGED planVars
  <2>1. UNCHANGED <<plan, version, sending, tab, reader>> /\ Open' = Open /\ EverSent' = EverSent
    BY <1>5 DEF planVars, Open, EverSent
  <2> QED BY <2>1 DEF ApprovalInv, PlanRows, OneOpenSending, OpenedWasSent, SendsAreOlder,
             PendingHasRequest, DecidedAsRead
<1> QED BY <1>1, <1>2, <1>4, <1>5, BeginSendInv, SendInv, PageInv, DecidePlanInv DEF PlanNext
-----------------------------------------------------------------------------
\* The inductive invariant of the plan's way through the approvals queue.
THEOREM ApprovalInvariance == PlanSpec => []ApprovalInv
<1> QED BY InitApproval, StepApproval, PTL DEF PlanSpec

\* The plan waits for a decision exactly while a request of it is open.
THEOREM PendingAlwaysHasRequest == PlanSpec => []PendingHasRequest
<1>1. ApprovalInv => PendingHasRequest
  BY DEF ApprovalInv
<1> QED BY <1>1, ApprovalInvariance, PTL

\* What an approver has open is what was sent: lockEditablePlan() lets nothing
\* be written between the submission and the decision.
THEOREM AlwaysDecidedAsRead == PlanSpec => []DecidedAsRead
<1>1. ApprovalInv => DecidedAsRead
  BY DEF ApprovalInv
<1> QED BY <1>1, ApprovalInvariance, PTL

\* An approved plan is locked against every write; only a submission checked
\* before the approved request was opened sets it pending again.
THEOREM ApprovedPlanStays == PlanSpec => PlanStaysApproved
<1>1. ASSUME ApprovalInv, PlanNext, plan = "approved" PROVE UntouchedOrSent
  <2>1. ~EditableState(plan) /\ Open = {}
    BY <1>1 DEF EditableState, ApprovalInv, PendingHasRequest
  <2>2. ASSUME NEW t \in Writers, NEW q \in Sendings, Send(t, q) PROVE UntouchedOrSent
    BY <1>1, <2>2 DEF Send, UntouchedOrSent, ApprovalInv, SendsAreOlder
  <2>3. ASSUME NEW b \in Readers, NEW verdict \in Verdicts, DecidePlan(b, verdict) PROVE UntouchedOrSent
    BY <1>1, <2>1, <2>3, DecidedRow
  <2> QED BY <1>1, <2>1, <2>2, <2>3
          DEF PlanNext, BeginWrite, WriteRefused, PlanCutOff, RewriteText, DeletePlan, AddLesson,
              DeleteLesson, MoveLesson, Writing, LockEditablePlan, BeginSend, SendRefused,
              OpenRequest, ClosePage, UntouchedOrSent
<1>2. ApprovalInv /\ [PlanNext]_planVars => [plan = "approved" => UntouchedOrSent]_planVars
  BY <1>1
<1> QED BY <1>2, ApprovalInvariance, PTL DEF PlanSpec, PlanStaysApproved

\* The plan, its lessons, its requests and the tabs keep their types.
THEOREM PlanTypeCorrect == PlanSpec => []PlanTypeOK
<1>1. Numbered /\ ApprovalInv => PlanTypeOK
  BY DEF Numbered, ApprovalInv, PlanRows, PlanTypeOK
<1> QED BY <1>1, InitNumbered, StepNumbered, ApprovalInvariance, PTL DEF PlanSpec

\* All that is promised of a plan, for any tabs, admins, lessons and requests.
THEOREM PlanKeepsPromises == PlanSpec => PlanPromises
BY PlanTypeCorrect, LessonsStayNumbered, PendingAlwaysHasRequest, AlwaysDecidedAsRead,
   ApprovedPlanStays, PTL DEF PlanPromises

-----------------------------------------------------------------------------
(***************************************************************************)
(* The sign-in throttle (SignInThrottle).  That guesses are capped is not  *)
(* inductive: what a limit caps is the attempts it let through and that    *)
(* were not given back, counted in their own window.  Windows of one       *)
(* counter begin more than a window apart, so any stretch as long as one   *)
(* meets two of them at most.                                              *)
(***************************************************************************)
Moments == 0..MaxTime

Attempt ==
  [at : {"none", "address", "account", "password", "refund", "refundAccount", "limited",
         "unavailable", "refused", "in"},
   account : Keys,
   charged : UNION {[D -> [start : Moments, made : Moments]] : D \in SUBSET Keys},
   givenBack : SUBSET Keys]

\* What an attempt was charged follows from how far it came.
Coherent(n) ==
  /\ DOMAIN n.charged \subseteq {Address, n.account}
  /\ n.givenBack \subseteq DOMAIN n.charged
  /\ n.at # "none" => n.account \in Accounts
  /\ n.at \in {"none", "address"} => DOMAIN n.charged = {}
  /\ n.at = "account" => DOMAIN n.charged = {Address}
  /\ n.at \notin {"refund", "refundAccount", "in"} => n.givenBack = {}

\* A charge was made in its window; the counter's is that one, or a later one that
\* began when it was over.
WindowsFit(n) ==
  \A k \in DOMAIN n.charged :
    /\ n.charged[k].start <= n.charged[k].made /\ n.charged[k].made <= now
    /\ n.charged[k].made <= n.charged[k].start + WindowLength
    /\ IF counter[k].start = Never THEN n.charged[k].start + WindowLength < now
       ELSE n.charged[k].start = counter[k].start
            \/ n.charged[k].start + WindowLength < counter[k].start

\* Two charges are of one window, or of windows apart.
Apart(m, n) ==
  \A k \in DOMAIN m.charged \cap DOMAIN n.charged :
    \/ m.charged[k].start = n.charged[k].start
    \/ m.charged[k].start + WindowLength < n.charged[k].start
    \/ n.charged[k].start + WindowLength < m.charged[k].start

RowFits(k) ==
  counter[k].start <= now /\ (counter[k].start = Never => counter[k].count = 0)

\* The limit let it through, and it was not given back.
PastLimit == {"account", "password", "refund", "refundAccount", "refused", "in"}
LetThrough(k, start) == {a \in Standing(k, start) : signIn[a].at \in PastLimit}

LetCapped == \A k \in Keys : \A s \in Moments : Cardinality(LetThrough(k, s)) <= Limit(k)

ThrottleInv ==
  /\ signIn \in [SignIns -> Attempt]
  /\ counter \in [Keys -> [start : Times, count : Nat]]
  /\ now \in Moments
  /\ \A a \in SignIns : Coherent(signIn[a]) /\ WindowsFit(signIn[a])
  /\ \A a \in SignIns : \A b \in SignIns : Apart(signIn[a], signIn[b])
  /\ \A k \in Keys : RowFits(k)
  /\ CountIsCharges /\ LetCapped


\* What the proofs of the steps start from.
LEMMA Limits == /\ \A k \in Keys : Limit(k) \in Nat
                /\ AddressLimit \in Nat /\ AccountLimit \in Nat /\ WindowLength \in Nat
                /\ KeptFor \in Nat /\ MaxTime \in Nat /\ KeptFor > WindowLength
                /\ Address \in Keys /\ Address \notin Accounts /\ IsFiniteSet(SignIns)
BY ThrottleAssumption DEF Limit, Keys

\* A charge is of a moment.
LEMMA ChargeIs ==
  ASSUME NEW n \in Attempt, NEW k \in DOMAIN n.charged
  PROVE  /\ n.charged[k].start \in Moments /\ n.charged[k].made \in Moments
         /\ k \in Keys /\ n.charged[k].start \in Nat /\ n.charged[k].made \in Nat
         /\ n.charged[k].start # Never
<1>1. PICK D \in SUBSET Keys : n.charged \in [D -> [start : Moments, made : Moments]]
  BY DEF Attempt
<1>2. DOMAIN n.charged = D
  BY <1>1
<1>3. n.charged[k] \in [start : Moments, made : Moments]
  BY <1>1, <1>2
<1> QED
  BY <1>2, <1>3, Limits DEF Moments, Never

\* The attempts of a counter are finitely many.
LEMMA StandingIs ==
  ASSUME NEW k, NEW s
  PROVE  /\ IsFiniteSet(Standing(k, s)) /\ Cardinality(Standing(k, s)) \in Nat
         /\ Cardinality(Standing(k, s)) <= Cardinality(SignIns)
         /\ LetThrough(k, s) \subseteq Standing(k, s)
         /\ IsFiniteSet(LetThrough(k, s)) /\ Cardinality(LetThrough(k, s)) \in Nat
<1>1. Standing(k, s) \in SUBSET SignIns
  BY DEF Standing
<1>2. IsFiniteSet(Standing(k, s)) /\ Cardinality(Standing(k, s)) <= Cardinality(SignIns)
  BY <1>1, Limits, FS_Subset
<1>3. LetThrough(k, s) \in SUBSET Standing(k, s)
  BY DEF LetThrough
<1>4. IsFiniteSet(LetThrough(k, s))
  BY <1>2, <1>3, FS_Subset
<1> QED
  BY <1>2, <1>3, <1>4, FS_CardinalityType

\* Who guesses was let through.
LEMMA GuessesLetThrough ==
  ASSUME ThrottleInv, NEW k \in Keys, NEW a \in Guesses(k)
  PROVE  /\ a \in SignIns /\ k \in DOMAIN signIn[a].charged
         /\ a \in LetThrough(k, signIn[a].charged[k].start)
         /\ signIn[a].charged[k].start \in Moments
         /\ signIn[a].charged[k].made \in Moments
<1>1. /\ a \in SignIns /\ signIn[a].at \in {"password", "refused"}
      /\ k \in DOMAIN signIn[a].charged
  BY DEF Guesses
<1>2. signIn[a] \in Attempt /\ signIn[a].givenBack = {}
  BY <1>1 DEF ThrottleInv, Coherent
<1> QED
  BY <1>1, <1>2, ChargeIs DEF LetThrough, Standing, PastLimit

\* A limit caps the guesses of a window.
LEMMA WindowCapped ==
  ASSUME ThrottleInv, NEW k \in Keys, NEW s \in Times
  PROVE  Cardinality({a \in Guesses(k) : signIn[a].charged[k].start = s}) <= Limit(k)
<1> DEFINE G == {a \in Guesses(k) : signIn[a].charged[k].start = s}
<1>1. CASE s \in Moments
  <2>1. G \in SUBSET LetThrough(k, s)
    BY GuessesLetThrough
  <2>2. Cardinality(G) <= Cardinality(LetThrough(k, s)) /\ IsFiniteSet(G)
    BY <2>1, StandingIs, FS_Subset
  <2>3. Cardinality(LetThrough(k, s)) <= Limit(k)
    BY <1>1 DEF ThrottleInv, LetCapped
  <2>4. Cardinality(G) \in Nat
    BY <2>2, FS_CardinalityType
  <2> HIDE DEF G
  <2>5. Cardinality(G) <= Limit(k)
    BY <2>2, <2>3, <2>4, StandingIs, Limits
  <2> QED
    BY <2>5 DEF G
<1>2. CASE s \notin Moments
  <2>1. G = {}
    BY <1>2, GuessesLetThrough
  <2> HIDE DEF G
  <2>2. Cardinality(G) <= Limit(k)
    BY <2>1, FS_EmptySet, Limits
  <2> QED
    BY <2>2 DEF G
<1> QED
  BY <1>1, <1>2

\* A stretch as long as a window meets two windows at most.
LEMMA TwoWindows ==
  ASSUME ThrottleInv, NEW k \in Keys, NEW t \in Times,
         NEW a \in Guesses(k), NEW b \in Guesses(k), NEW c \in Guesses(k),
         \A x \in {a, b, c} : signIn[x].charged[k].made \in t..(t + WindowLength)
  PROVE  LET start(x) == signIn[x].charged[k].start
         IN start(a) = start(b) \/ start(a) = start(c) \/ start(b) = start(c)
<1> DEFINE start(x) == signIn[x].charged[k].start
           made(x) == signIn[x].charged[k].made
<1>1. \A x \in {a, b, c} : /\ x \in SignIns /\ k \in DOMAIN signIn[x].charged
                           /\ start(x) \in Nat /\ made(x) \in Nat
                           /\ t <= made(x) /\ made(x) <= t + WindowLength
  BY GuessesLetThrough, Limits DEF Moments, Times, Never
<1>2. \A x \in {a, b, c} : start(x) <= made(x) /\ made(x) <= start(x) + WindowLength
  BY <1>1 DEF ThrottleInv, WindowsFit
<1>3. \A x \in {a, b, c} : \A y \in {a, b, c} :
        \/ start(x) = start(y) \/ start(x) + WindowLength < start(y)
        \/ start(y) + WindowLength < start(x)
  BY <1>1 DEF ThrottleInv, Apart
<1>4. WindowLength \in Nat /\ t \in Int
  BY Limits DEF Times, Never
<1> HIDE DEF start, made
<1>5. start(a) = start(b) \/ start(a) = start(c) \/ start(b) = start(c)
  BY <1>1, <1>2, <1>3, <1>4
<1> QED
  BY <1>5 DEF start

\* Hence twice the limit caps its guesses.
LEMMA StretchCapped ==
  ASSUME ThrottleInv, NEW k \in Keys, NEW t \in Times
  PROVE  Cardinality({a \in Guesses(k) :
                        signIn[a].charged[k].made \in t..(t + WindowLength)}) <= 2 * Limit(k)
<1> DEFINE G == {a \in Guesses(k) : signIn[a].charged[k].made \in t..(t + WindowLength)}
           Of(s) == {a \in Guesses(k) : signIn[a].charged[k].start = s}
           start(x) == signIn[x].charged[k].start
<1>0. \A x \in G : x \in Guesses(k) /\ start(x) \in Times
  BY GuessesLetThrough DEF Times, Moments
<1>1. \A s \in Times : /\ IsFiniteSet(Of(s)) /\ Cardinality(Of(s)) \in Nat
                       /\ Cardinality(Of(s)) <= Limit(k)
  <2> SUFFICES ASSUME NEW s \in Times
               PROVE  /\ IsFiniteSet(Of(s)) /\ Cardinality(Of(s)) \in Nat
                      /\ Cardinality(Of(s)) <= Limit(k)
    OBVIOUS
  <2>1. Of(s) \in SUBSET SignIns
    BY DEF Guesses
  <2>2. IsFiniteSet(Of(s))
    BY <2>1, Limits, FS_Subset
  <2> QED
    BY <2>2, WindowCapped, FS_CardinalityType
<1>2. \A x, y, z \in G : start(x) = start(y) \/ start(x) = start(z) \/ start(y) = start(z)
  BY TwoWindows
<1>3. \A x \in G : x \in Of(start(x))
  OBVIOUS
<1> SUFFICES Cardinality(G) <= 2 * Limit(k)
  OBVIOUS
<1> HIDE DEF G, Of, start
<1>4. ASSUME NEW u \in Times, NEW v \in Times, G \subseteq Of(u) \cup Of(v)
      PROVE  Cardinality(G) <= 2 * Limit(k)
  <2> DEFINE U == Of(u)
             V == Of(v)
  <2>1. /\ IsFiniteSet(U) /\ Cardinality(U) \in Nat /\ Cardinality(U) <= Limit(k)
        /\ IsFiniteSet(V) /\ Cardinality(V) \in Nat /\ Cardinality(V) <= Limit(k)
    BY <1>1
  <2>2. G \in SUBSET (U \cup V)
    BY <1>4
  <2> HIDE DEF U, V
  <2>3. /\ IsFiniteSet(U \cup V)
        /\ Cardinality(U \cup V) = Cardinality(U) + Cardinality(V) - Cardinality(U \cap V)
    BY <2>1, FS_Union
  <2>4. Cardinality(U \cap V) \in Nat
    BY <2>1, FS_Intersection, FS_CardinalityType
  <2>5. Cardinality(G) <= Cardinality(U \cup V) /\ IsFiniteSet(G)
    BY <2>2, <2>3, FS_Subset
  <2>6. Cardinality(G) \in Nat /\ Limit(k) \in Nat
    BY <2>5, FS_CardinalityType, Limits
  <2> QED
    BY <2>1, <2>3, <2>4, <2>5, <2>6
<1>5. CASE G = {}
  BY <1>5, FS_EmptySet, Limits
<1>6. CASE G # {}
  <2>1. PICK x \in G : TRUE
    BY <1>6
  <2>2. CASE \A y \in G : start(y) = start(x)
    <3>1. G \subseteq Of(start(x)) \cup Of(start(x)) /\ start(x) \in Times
      BY <1>0, <1>3, <2>1, <2>2
    <3> QED
      BY <1>4, <3>1
  <2>3. CASE \E y \in G : start(y) # start(x)
    <3>1. PICK y \in G : start(y) # start(x)
      BY <2>3
    <3>2. \A z \in G : start(z) = start(x) \/ start(z) = start(y)
      BY <1>2, <2>1, <3>1
    <3>3. G \subseteq Of(start(x)) \cup Of(start(y)) /\ start(x) \in Times /\ start(y) \in Times
      BY <1>0, <1>3, <2>1, <3>1, <3>2
    <3> QED
      BY <1>4, <3>3
  <2> QED
    BY <2>2, <2>3
<1> QED
  BY <1>5, <1>6

\* The invariant is strong enough.
LEMMA ThrottleHolds == ThrottleInv => ThrottlePromises
<1> SUFFICES ASSUME ThrottleInv
             PROVE  ThrottlePromises
  OBVIOUS
<1>1. counter \in [Keys -> [start : Times, count : 0..Cardinality(SignIns)]]
  <2>1. ASSUME NEW k \in Keys
        PROVE  counter[k].count \in 0..Cardinality(SignIns)
    <3>1. counter[k].count \in Nat /\ Cardinality(SignIns) \in Nat
      BY Limits, FS_CardinalityType DEF ThrottleInv
    <3>2. counter[k].start = Never \/ counter[k].count = Cardinality(Standing(k, counter[k].start))
      BY DEF ThrottleInv, CountIsCharges
    <3> QED
      BY <3>1, <3>2, StandingIs DEF ThrottleInv, RowFits
  <2>2. counter \in [Keys -> [start : Times, count : Nat]]
    BY DEF ThrottleInv
  <2> QED
    BY <2>1, <2>2
<1>2. ThrottleTypeOK
  <2>1. \A a \in SignIns : signIn[a] \in Attempt /\ Coherent(signIn[a])
    BY DEF ThrottleInv
  <2> QED
    BY <1>1, <2>1 DEF ThrottleTypeOK, ThrottleInv, Attempt, Coherent, Moments
<1>3. GuessesCapped
  BY WindowCapped, StretchCapped DEF GuessesCapped
<1> QED
  BY <1>2, <1>3 DEF ThrottlePromises, ThrottleInv


\* An attempt moves on and is charged nothing.
LEMMA AttemptGoes ==
  ASSUME ThrottleInv, NEW a \in SignIns, NEW n \in Attempt, Coherent(n),
         n.charged = signIn[a].charged, n.givenBack = signIn[a].givenBack,
         n.at \in PastLimit => signIn[a].at \in PastLimit,
         signIn' = [signIn EXCEPT ![a] = n], UNCHANGED <<counter, now>>
  PROVE  ThrottleInv'
<1>1. signIn \in [SignIns -> Attempt]
  BY DEF ThrottleInv
<1>2. /\ signIn' \in [SignIns -> Attempt] /\ signIn'[a] = n
      /\ \A b \in SignIns \ {a} : signIn'[b] = signIn[b]
  BY <1>1
<1>3. \A b \in SignIns : /\ signIn'[b].charged = signIn[b].charged
                         /\ signIn'[b].givenBack = signIn[b].givenBack
                         /\ signIn'[b].at \in PastLimit => signIn[b].at \in PastLimit
                         /\ Coherent(signIn'[b])
  BY <1>2 DEF ThrottleInv
<1>4. ASSUME NEW k, NEW s
      PROVE  Standing(k, s)' = Standing(k, s) /\ LetThrough(k, s)' \subseteq LetThrough(k, s)
  <2>1. Standing(k, s)' = Standing(k, s)
    BY <1>3 DEF Standing
  <2> QED
    BY <1>3, <2>1 DEF LetThrough, Standing
<1>5. LetCapped'
  <2> SUFFICES ASSUME NEW k \in Keys, NEW s \in Moments
               PROVE  Cardinality(LetThrough(k, s)') <= Limit(k)
    BY DEF LetCapped
  <2>1. LetThrough(k, s)' \in SUBSET LetThrough(k, s) /\ IsFiniteSet(LetThrough(k, s))
    BY <1>4, StandingIs
  <2>2. /\ Cardinality(LetThrough(k, s)') <= Cardinality(LetThrough(k, s))
        /\ IsFiniteSet(LetThrough(k, s)')
    BY <2>1, FS_Subset
  <2>3. Cardinality(LetThrough(k, s)) <= Limit(k)
    BY DEF ThrottleInv, LetCapped
  <2>4. Cardinality(LetThrough(k, s)') \in Nat
    BY <2>2, FS_CardinalityType
  <2> QED
    BY <2>2, <2>3, <2>4, StandingIs, Limits
<1>6. CountIsCharges'
  <2> SUFFICES ASSUME NEW k \in Keys, counter[k].start # Never
               PROVE  counter[k].count = Cardinality(Standing(k, counter[k].start)')
    BY DEF CountIsCharges
  <2>1. Standing(k, counter[k].start)' = Standing(k, counter[k].start)
    BY <1>3 DEF Standing
  <2> QED
    BY <2>1 DEF ThrottleInv, CountIsCharges
<1>7. \A b \in SignIns : WindowsFit(signIn[b])'
  BY <1>3 DEF ThrottleInv, WindowsFit
<1>8. \A b \in SignIns : \A c \in SignIns : Apart(signIn'[b], signIn'[c])
  BY <1>3 DEF ThrottleInv, Apart
<1>9. \A k \in Keys : RowFits(k)'
  BY DEF ThrottleInv, RowFits
<1>10. \A b \in SignIns : Coherent(signIn[b])'
  BY <1>3
<1>11. now' \in Moments /\ counter' \in [Keys -> [start : Times, count : Nat]]
  BY DEF ThrottleInv
<1>12. \A b \in SignIns : \A c \in SignIns : Apart(signIn[b], signIn[c])'
  BY <1>8 DEF Apart
<1> QED
  BY <1>2, <1>5, <1>6, <1>7, <1>9, <1>10, <1>11, <1>12 DEF ThrottleInv

\* An attempt begins, meets its password, or fails.
LEMMA NoChargeInv ==
  ASSUME ThrottleInv, NEW a \in SignIns,
         \/ \E u \in Accounts : Begin(a, u)
         \/ \E right \in BOOLEAN : TryPassword(a, right)
         \/ Fails(a)
  PROVE  ThrottleInv'
<1> DEFINE was == signIn[a]
<1>1. was \in Attempt /\ Coherent(was)
  BY DEF ThrottleInv
<1>2. ASSUME NEW u \in Accounts, Begin(a, u)
      PROVE  ThrottleInv'
  <2> DEFINE n == [NotMade EXCEPT !.at = "address", !.account = u]
  <2>1. u \in Keys /\ Address \in Keys
    BY DEF Keys
  <2>2. NotMade.charged \in [{} -> [start : Moments, made : Moments]]
    BY DEF NotMade
  <2>3. NotMade \in Attempt
    <3>1. {} \in SUBSET Keys
      OBVIOUS
    <3>2. NotMade.charged \in UNION {[D -> [start : Moments, made : Moments]] : D \in SUBSET Keys}
      BY <2>2, <3>1
    <3> QED
      BY <2>1, <3>2 DEF NotMade, Attempt
  <2>4. /\ n \in Attempt /\ n.at = "address" /\ n.account = u
        /\ n.charged = NotMade.charged /\ n.givenBack = {}
    BY <2>1, <2>3 DEF Attempt, NotMade
  <2>5. DOMAIN NotMade.charged = {}
    BY <2>2
  <2>6. Coherent(n)
    BY <2>4, <2>5 DEF Coherent
  <2>7. was.at = "none" /\ was.givenBack = {} /\ DOMAIN was.charged = {}
    BY <1>1, <1>2 DEF Begin, Coherent
  <2>8. was.charged = NotMade.charged
    <3>1. PICK D \in SUBSET Keys : was.charged \in [D -> [start : Moments, made : Moments]]
      BY <1>1 DEF Attempt
    <3> QED
      BY <2>2, <2>7, <3>1
  <2>9. signIn' = [signIn EXCEPT ![a] = n] /\ UNCHANGED <<counter, now>>
    BY <1>2 DEF Begin
  <2> HIDE DEF n
  <2> QED
    BY <2>4, <2>6, <2>7, <2>8, <2>9, AttemptGoes DEF PastLimit
<1>3. ASSUME NEW at \in {"refund", "refundAccount", "refused", "in", "unavailable"},
             SignInGoes(a, at), UNCHANGED <<counter, now>>,
             was.at \in {"address", "account", "password", "refund", "refundAccount"},
             at \in {"refund", "refused"} => was.at = "password",
             at \in {"refundAccount", "in"} => was.at \in {"refund", "refundAccount"},
             at = "unavailable" => was.at \in {"address", "account"}
      PROVE  ThrottleInv'
  <2> DEFINE n == [was EXCEPT !.at = at]
  <2>1. /\ n \in Attempt /\ n.at = at /\ n.account = was.account
        /\ n.charged = was.charged /\ n.givenBack = was.givenBack
    BY <1>1 DEF Attempt
  <2>2. signIn' = [signIn EXCEPT ![a] = n]
    BY <1>3 DEF SignInGoes, ThrottleInv
  <2> HIDE DEF n
  <2>3. Coherent(n)
    BY <1>1, <1>3, <2>1 DEF Coherent
  <2> QED
    BY <1>3, <2>1, <2>2, <2>3, AttemptGoes DEF PastLimit
<1>4. ASSUME NEW right \in BOOLEAN, TryPassword(a, right)
      PROVE  ThrottleInv'
  <2>1. /\ was.at = "password" /\ SignInGoes(a, AfterPassword(right)) /\ UNCHANGED <<counter, now>>
        /\ AfterPassword(right) \in {"refund", "refused"}
    BY <1>4 DEF TryPassword, AfterPassword
  <2> QED
    BY <1>3, <2>1
<1>5. CASE Fails(a)
  <2> DEFINE at == AfterFailure(was.at)
  <2>1. /\ was.at \in {"address", "account", "password", "refund", "refundAccount"}
        /\ UNCHANGED <<counter, now>> /\ SignInGoes(a, at)
    BY <1>5 DEF Fails
  <2>2. /\ at \in {"refundAccount", "refused", "in", "unavailable"}
        /\ at = "refused" => was.at = "password"
        /\ at \in {"refundAccount", "in"} => was.at \in {"refund", "refundAccount"}
        /\ at = "unavailable" => was.at \in {"address", "account"}
    BY <2>1 DEF AfterFailure, AfterRefund
  <2> HIDE DEF at
  <2> QED
    BY <1>3, <2>1, <2>2
<1> QED
  BY <1>2, <1>4, <1>5

\* Only the time passes, or old counters go.
LEMMA TimeInv ==
  ASSUME ThrottleInv, Tick \/ Prune
  PROVE  ThrottleInv'
<1>1. signIn' = signIn
  BY DEF Tick, Prune
<1>2. now' \in Moments /\ now <= now' /\ now \in Nat /\ now' \in Nat
  BY Limits DEF Tick, Prune, ThrottleInv, Moments
<1>3. ASSUME NEW k \in Keys
      PROVE  \/ counter'[k] = counter[k]
             \/ counter'[k] = NoRow /\ counter[k].start < now - KeptFor /\ now' = now
  BY DEF Tick, Prune, ThrottleInv
<1>4. NoRow \in [start : Times, count : Nat] /\ NoRow.start = Never /\ NoRow.count = 0
  BY DEF NoRow, Times
<1>5. counter' \in [Keys -> [start : Times, count : Nat]]
  <2>1. counter \in [Keys -> [start : Times, count : Nat]]
    BY DEF ThrottleInv
  <2>2. counter' = [k \in Keys |-> counter'[k]]
    BY <2>1 DEF Tick, Prune
  <2>3. \A k \in Keys : counter'[k] \in [start : Times, count : Nat]
    BY <1>3, <1>4, <2>1
  <2> QED
    BY <2>2, <2>3
<1>6. ASSUME NEW k \in Keys
      PROVE  RowFits(k)'
  <2>1. counter[k].start \in Times /\ counter[k].start \in Int
    BY Limits DEF ThrottleInv, Times, Never
  <2>2. counter[k].start <= now /\ (counter[k].start = Never => counter[k].count = 0)
    BY DEF ThrottleInv, RowFits
  <2> QED
    BY <1>2, <1>3, <1>4, <2>1, <2>2 DEF RowFits, Never
<1>7. ASSUME NEW a \in SignIns
      PROVE  WindowsFit(signIn[a])'
  <2> SUFFICES ASSUME NEW k \in DOMAIN signIn[a].charged
               PROVE  LET c == signIn[a].charged[k]
                      IN /\ c.start <= c.made /\ c.made <= now'
                         /\ c.made <= c.start + WindowLength
                         /\ IF counter'[k].start = Never THEN c.start + WindowLength < now'
                            ELSE c.start = counter'[k].start
                                 \/ c.start + WindowLength < counter'[k].start
    BY <1>1 DEF WindowsFit
  <2> DEFINE c == signIn[a].charged[k]
  <2>1. signIn[a] \in Attempt
    BY DEF ThrottleInv
  <2>2. c.start \in Nat /\ c.made \in Nat /\ k \in Keys
    BY <2>1, ChargeIs
  <2>3. /\ c.start <= c.made /\ c.made <= now /\ c.made <= c.start + WindowLength
        /\ IF counter[k].start = Never THEN c.start + WindowLength < now
           ELSE c.start = counter[k].start \/ c.start + WindowLength < counter[k].start
    BY DEF ThrottleInv, WindowsFit
  <2>4. counter[k].start \in Int
    BY <2>2, Limits DEF ThrottleInv, Times, Moments, Never
  <2> HIDE DEF c
  <2>5. CASE counter'[k] = counter[k]
    <3>1. /\ c.start <= c.made /\ c.made <= now' /\ c.made <= c.start + WindowLength
          /\ IF counter'[k].start = Never THEN c.start + WindowLength < now'
             ELSE c.start = counter'[k].start \/ c.start + WindowLength < counter'[k].start
      BY <1>2, <2>2, <2>3, <2>5, Limits
    <3> QED
      BY <3>1 DEF c
  <2>6. CASE counter'[k] = NoRow /\ counter[k].start < now - KeptFor /\ now' = now
    <3>1. c.start + WindowLength < now
      BY <1>2, <2>2, <2>3, <2>4, <2>6, Limits
    <3>2. /\ c.start <= c.made /\ c.made <= now' /\ c.made <= c.start + WindowLength
          /\ counter'[k].start = Never /\ c.start + WindowLength < now'
      BY <1>4, <2>3, <2>6, <3>1
    <3> QED
      BY <3>2 DEF c
  <2> QED
    BY <1>3, <2>2, <2>5, <2>6
<1>8. CountIsCharges'
  <2> SUFFICES ASSUME NEW k \in Keys, counter'[k].start # Never
               PROVE  counter'[k].count = Cardinality(Standing(k, counter[k].start)')
    BY DEF CountIsCharges
  <2>1. counter'[k] = counter[k]
    BY <1>3, <1>4
  <2>2. Standing(k, counter[k].start)' = Standing(k, counter[k].start)
    BY <1>1, <2>1 DEF Standing
  <2> QED
    BY <2>1, <2>2 DEF ThrottleInv, CountIsCharges
<1>9. LetCapped'
  BY <1>1 DEF ThrottleInv, LetCapped, LetThrough, Standing
<1>10. \A a \in SignIns : Coherent(signIn[a])'
  BY <1>1 DEF ThrottleInv, Coherent
<1>11. \A a \in SignIns : \A b \in SignIns : Apart(signIn[a], signIn[b])'
  BY <1>1 DEF ThrottleInv, Apart
<1> QED
  BY <1>1, <1>2, <1>5, <1>6, <1>7, <1>8, <1>9, <1>10, <1>11 DEF ThrottleInv


\* A key is charged: in the window of its counter, or in a new one.
LEMMA ChargedRow ==
  ASSUME ThrottleInv, NEW k \in Keys
  PROVE  LET row == Charged(k)
         IN /\ row \in [start : Moments, count : Nat]
            /\ row.start <= now /\ now <= row.start + WindowLength
            /\ row.count = Cardinality(Standing(k, row.start)) + 1
            /\ \A b \in SignIns : k \in DOMAIN signIn[b].charged =>
                 \/ signIn[b].charged[k].start = row.start
                 \/ signIn[b].charged[k].start + WindowLength < row.start
<1> DEFINE row == Charged(k)
           was == counter[k]
<1>1. was \in [start : Times, count : Nat] /\ was.start <= now
  BY DEF ThrottleInv, RowFits
<1>2. now \in Nat /\ now \in Moments /\ was.start \in Int
  BY <1>1, Limits DEF ThrottleInv, Moments, Times, Never
<1>3. ASSUME NEW b \in SignIns, k \in DOMAIN signIn[b].charged
      PROVE  /\ signIn[b].charged[k].start \in Nat
             /\ IF was.start = Never THEN signIn[b].charged[k].start + WindowLength < now
                ELSE signIn[b].charged[k].start = was.start
                     \/ signIn[b].charged[k].start + WindowLength < was.start
  BY <1>3, ChargeIs DEF ThrottleInv, WindowsFit
<1>4. CASE AgedOut(was)
  <2>1. row = [start |-> now, count |-> 1]
    BY <1>4 DEF Charged
  <2>2. was.start = Never \/ was.start + WindowLength < now
    BY <1>2, <1>4, Limits DEF AgedOut
  <2>3. ASSUME NEW b \in SignIns, k \in DOMAIN signIn[b].charged
        PROVE  signIn[b].charged[k].start + WindowLength < now
    <3> DEFINE s == signIn[b].charged[k].start
    <3>1. s \in Nat /\ IF was.start = Never THEN s + WindowLength < now
                       ELSE s = was.start \/ s + WindowLength < was.start
      BY <1>3, <2>3
    <3> HIDE DEF s, was
    <3>2. s + WindowLength < now
      BY <1>1, <1>2, <2>2, <3>1, Limits
    <3> QED
      BY <3>2 DEF s
  <2>4. Standing(k, now) = {}
    <3> SUFFICES ASSUME NEW b \in Standing(k, now)
                 PROVE  FALSE
      OBVIOUS
    <3>1. b \in SignIns /\ k \in DOMAIN signIn[b].charged /\ signIn[b].charged[k].start = now
      BY DEF Standing
    <3> QED
      BY <1>2, <2>3, <3>1, Limits
  <2>5. Cardinality(Standing(k, now)) = 0
    BY <2>4, FS_EmptySet
  <2>6. /\ row \in [start : Moments, count : Nat] /\ row.start = now /\ row.count = 1
    BY <1>2, <2>1
  <2> HIDE DEF row
  <2>7. /\ row \in [start : Moments, count : Nat]
        /\ row.start <= now /\ now <= row.start + WindowLength
        /\ row.count = Cardinality(Standing(k, row.start)) + 1
        /\ \A b \in SignIns : k \in DOMAIN signIn[b].charged =>
             \/ signIn[b].charged[k].start = row.start
             \/ signIn[b].charged[k].start + WindowLength < row.start
    BY <1>2, <2>3, <2>5, <2>6, Limits
  <2> QED
    BY <2>7 DEF row
<1>5. CASE ~AgedOut(was)
  <2>1. row = [was EXCEPT !.count = @ + 1]
    BY <1>5 DEF Charged
  <2>2. was.start # Never /\ now <= was.start + WindowLength
    BY <1>2, <1>5, Limits DEF AgedOut
  <2>3. was.start \in Moments
    BY <1>1, <2>2 DEF Times, Moments
  <2>4. /\ row \in [start : Moments, count : Nat] /\ row.start = was.start
        /\ row.count = was.count + 1
    BY <1>1, <2>1, <2>3
  <2>5. was.count = Cardinality(Standing(k, was.start))
    BY <2>2 DEF ThrottleInv, CountIsCharges
  <2> HIDE DEF row
  <2>6. /\ row \in [start : Moments, count : Nat]
        /\ row.start <= now /\ now <= row.start + WindowLength
        /\ row.count = Cardinality(Standing(k, row.start)) + 1
        /\ \A b \in SignIns : k \in DOMAIN signIn[b].charged =>
             \/ signIn[b].charged[k].start = row.start
             \/ signIn[b].charged[k].start + WindowLength < row.start
    BY <1>1, <1>3, <2>2, <2>4, <2>5
  <2> QED
    BY <2>6 DEF row
<1> QED
  BY <1>4, <1>5

\* What an attempt that is charged leaves of the others, and of its other charge.
LEMMA ChargeTo ==
  ASSUME ThrottleInv, NEW a \in SignIns, NEW k \in Keys, NEW m \in Attempt,
         NEW r \in [start : Moments, count : Nat],
         k \notin DOMAIN signIn[a].charged,
         DOMAIN m.charged = DOMAIN signIn[a].charged \cup {k},
         m.charged[k] = [start |-> r.start, made |-> now],
         \A c \in DOMAIN signIn[a].charged : m.charged[c] = signIn[a].charged[c],
         m.givenBack = {}, signIn[a].givenBack = {}, Coherent(m),
         m.at \in PastLimit => /\ r.count <= Limit(k)
                               /\ signIn[a].at \in PastLimit \/ DOMAIN signIn[a].charged = {},
         r.start <= now, now <= r.start + WindowLength,
         r.count = Cardinality(Standing(k, r.start)) + 1,
         \A b \in SignIns : k \in DOMAIN signIn[b].charged =>
            \/ signIn[b].charged[k].start = r.start
            \/ signIn[b].charged[k].start + WindowLength < r.start,
         counter' = [counter EXCEPT ![k] = r], signIn' = [signIn EXCEPT ![a] = m], now' = now
  PROVE  ThrottleInv'
<1>1. /\ signIn \in [SignIns -> Attempt] /\ counter \in [Keys -> [start : Times, count : Nat]]
      /\ now \in Moments
  BY DEF ThrottleInv
<1>2. /\ signIn' \in [SignIns -> Attempt] /\ signIn'[a] = m
      /\ \A b \in SignIns \ {a} : signIn'[b] = signIn[b]
  BY <1>1
<1>3. /\ counter' \in [Keys -> [start : Times, count : Nat]] /\ counter'[k] = r
      /\ \A c \in Keys \ {k} : counter'[c] = counter[c]
      /\ r.start # Never /\ r.start \in Nat /\ now \in Nat
  BY <1>1, Limits DEF Moments, Times, Never
<1>4. \A c \in Keys : RowFits(c)'
  BY <1>3 DEF ThrottleInv, RowFits
<1>5. \A b \in SignIns : Coherent(signIn[b])'
  BY <1>2 DEF ThrottleInv, Coherent
<1>6. ASSUME NEW b \in SignIns
      PROVE  WindowsFit(signIn[b])'
  <2> DEFINE Fits(ch, row) ==
        /\ ch.start <= ch.made /\ ch.made <= now /\ ch.made <= ch.start + WindowLength
        /\ IF row.start = Never THEN ch.start + WindowLength < now
           ELSE ch.start = row.start \/ ch.start + WindowLength < row.start
  <2> SUFFICES ASSUME NEW c \in DOMAIN signIn'[b].charged
               PROVE  Fits(signIn'[b].charged[c], counter'[c])
    BY DEF WindowsFit
  <2>1. ASSUME NEW d \in SignIns, NEW e \in DOMAIN signIn[d].charged
        PROVE  Fits(signIn[d].charged[e], counter'[e]) /\ e \in Keys
    <3>1. Fits(signIn[d].charged[e], counter[e])
      BY DEF ThrottleInv, WindowsFit
    <3>2. e \in Keys
      BY <1>1, ChargeIs
    <3>3. CASE e # k
      BY <1>3, <3>1, <3>2, <3>3
    <3>4. CASE e = k
      BY <1>3, <3>1, <3>2, <3>4
    <3> QED
      BY <3>3, <3>4
  <2>2. CASE b # a
    BY <1>2, <2>1, <2>2
  <2>3. CASE b = a /\ c # k
    BY <1>2, <2>1, <2>3
  <2>4. CASE b = a /\ c = k
    BY <1>2, <1>3, <2>4
  <2> QED
    BY <2>2, <2>3, <2>4
<1>7. ASSUME NEW b \in SignIns, NEW d \in SignIns
      PROVE  Apart(signIn[b], signIn[d])'
  <2> DEFINE Far(s, t) == s = t \/ s + WindowLength < t \/ t + WindowLength < s
  <2> SUFFICES ASSUME NEW c \in DOMAIN signIn'[b].charged \cap DOMAIN signIn'[d].charged
               PROVE  Far(signIn'[b].charged[c].start, signIn'[d].charged[c].start)
    BY DEF Apart
  <2>1. c # k => /\ c \in DOMAIN signIn[b].charged /\ signIn'[b].charged[c] = signIn[b].charged[c]
                 /\ c \in DOMAIN signIn[d].charged /\ signIn'[d].charged[c] = signIn[d].charged[c]
    BY <1>2
  <2>2. CASE c # k
    BY <2>1, <2>2 DEF ThrottleInv, Apart
  <2>3. CASE c = k
    <3>1. \A e \in {b, d} : \/ e = a /\ signIn'[e].charged[k].start = r.start
                           \/ /\ e # a /\ signIn'[e] = signIn[e] /\ k \in DOMAIN signIn[e].charged
                              /\ \/ signIn[e].charged[k].start = r.start
                                 \/ signIn[e].charged[k].start + WindowLength < r.start
      BY <1>2, <2>3
    <3>2. CASE b # a /\ d # a
      BY <1>2, <2>3, <3>2 DEF ThrottleInv, Apart
    <3> QED
      BY <2>3, <3>1, <3>2
  <2> QED
    BY <2>2, <2>3
<1>8. ASSUME NEW c \in Keys, NEW s
      PROVE  /\ c = k /\ s = r.start => Standing(c, s)' = Standing(c, s) \cup {a}
             /\ ~(c = k /\ s = r.start) => Standing(c, s)' = Standing(c, s)
             /\ a \notin Standing(k, s)
  <2>1. \A b \in SignIns \ {a} : b \in Standing(c, s)' <=> b \in Standing(c, s)
    BY <1>2 DEF Standing
  <2>2. a \in Standing(c, s)' <=> (c = k /\ s = r.start) \/ a \in Standing(c, s)
    BY <1>2 DEF Standing
  <2>3. Standing(c, s)' \subseteq SignIns /\ Standing(c, s) \subseteq SignIns
    BY DEF Standing
  <2>4. a \notin Standing(k, s)
    BY DEF Standing
  <2>5. ASSUME c = k, s = r.start
        PROVE  Standing(c, s)' = Standing(c, s) \cup {a}
    <3> DEFINE after == Standing(c, s)'
    <3>1. a \in after
      BY <2>2, <2>5
    <3> HIDE DEF after
    <3>2. after = Standing(c, s) \cup {a}
      BY <2>1, <2>3, <3>1 DEF after
    <3> QED
      BY <3>2 DEF after
  <2>6. ASSUME ~(c = k /\ s = r.start)
        PROVE  Standing(c, s)' = Standing(c, s)
    <3> DEFINE after == Standing(c, s)'
               before == Standing(c, s)
    <3>1. a \in after <=> a \in before
      BY <2>2, <2>6
    <3>2. /\ \A b \in SignIns \ {a} : b \in after <=> b \in before
          /\ after \subseteq SignIns /\ before \subseteq SignIns
      BY <2>1, <2>3
    <3> HIDE DEF after, before
    <3>3. ASSUME NEW b
          PROVE  b \in after <=> b \in before
      <4>1. CASE b = a
        BY <3>1, <4>1
      <4>2. CASE b # a
        BY <3>2, <4>2
      <4> QED
        BY <4>1, <4>2
    <3>4. after = before
      BY <3>3, Zenon
    <3> QED
      BY <3>4 DEF after, before
  <2> QED
    BY <2>4, <2>5, <2>6
<1>9. /\ Cardinality(Standing(k, r.start)') = r.count
      /\ IsFiniteSet(Standing(k, r.start)')
  <2>1. Standing(k, r.start)' = Standing(k, r.start) \cup {a} /\ a \notin Standing(k, r.start)
    BY <1>8
  <2> DEFINE was == Standing(k, r.start)
  <2>2. IsFiniteSet(was) /\ a \notin was /\ Cardinality(was) + 1 = r.count
    BY <2>1, StandingIs
  <2> HIDE DEF was
  <2>3. Cardinality(was \cup {a}) = r.count /\ IsFiniteSet(was \cup {a})
    BY <2>2, FS_AddElement
  <2> QED
    BY <2>1, <2>3 DEF was
<1>10. CountIsCharges'
  <2> SUFFICES ASSUME NEW c \in Keys, counter'[c].start # Never
               PROVE  counter'[c].count = Cardinality(Standing(c, counter[c].start)')
    BY DEF CountIsCharges
  <2>1. CASE c = k
    <3>1. Standing(c, counter[c].start)' = Standing(k, r.start)'
      BY <1>3, <2>1 DEF Standing
    <3> QED
      BY <1>3, <1>9, <2>1, <3>1
  <2>2. CASE c # k
    <3>1. counter'[c] = counter[c]
      BY <1>3, <2>2
    <3>2. Standing(c, counter[c].start)' = Standing(c, counter[c].start)
      <4>1. ASSUME NEW s
            PROVE  Standing(c, s)' = Standing(c, s)
        BY <1>8, <2>2
      <4>2. Standing(c, counter[c].start)' =
              {b \in SignIns : /\ c \in DOMAIN signIn'[b].charged \ signIn'[b].givenBack
                               /\ signIn'[b].charged[c].start = counter[c].start}
        BY <3>1 DEF Standing
      <4>3. PICK s : s = counter[c].start
        OBVIOUS
      <4>4. Standing(c, s)' = {b \in SignIns : /\ c \in DOMAIN signIn'[b].charged \ signIn'[b].givenBack
                                              /\ signIn'[b].charged[c].start = s}
        BY DEF Standing
      <4>5. Standing(c, s) = Standing(c, counter[c].start)
        BY <4>3
      <4> QED
        BY <4>1, <4>2, <4>3, <4>4, <4>5
    <3> QED
      BY <3>1, <3>2 DEF ThrottleInv, CountIsCharges
  <2> QED
    BY <2>1, <2>2
<1>11. LetCapped'
  <2> SUFFICES ASSUME NEW c \in Keys, NEW s \in Moments
               PROVE  Cardinality(LetThrough(c, s)') <= Limit(c)
    BY DEF LetCapped
  <2>1. CASE LetThrough(c, s)' \subseteq LetThrough(c, s)
    <3>1. /\ Cardinality(LetThrough(c, s)') <= Cardinality(LetThrough(c, s))
          /\ IsFiniteSet(LetThrough(c, s)')
      BY <2>1, StandingIs, FS_Subset
    <3>2. Cardinality(LetThrough(c, s)) <= Limit(c)
      BY DEF ThrottleInv, LetCapped
    <3>3. Cardinality(LetThrough(c, s)') \in Nat
      BY <3>1, FS_CardinalityType
    <3> QED
      BY <3>1, <3>2, <3>3, StandingIs, Limits
  <2>2. CASE c = k /\ s = r.start /\ m.at \in PastLimit
    <3>1. LetThrough(c, s)' \in SUBSET Standing(k, r.start)'
      BY <2>2 DEF LetThrough
    <3>2. Cardinality(LetThrough(c, s)') <= r.count /\ IsFiniteSet(LetThrough(c, s)')
      BY <1>9, <3>1, FS_Subset
    <3>3. Cardinality(LetThrough(c, s)') \in Nat
      BY <3>2, FS_CardinalityType
    <3> QED
      BY <2>2, <3>2, <3>3, Limits
  <2>3. CASE ~(c = k /\ s = r.start /\ m.at \in PastLimit)
    <3> SUFFICES ASSUME NEW b \in LetThrough(c, s)'
                 PROVE  b \in LetThrough(c, s)
      BY <2>1
    <3>1. b \in SignIns /\ b \in Standing(c, s)' /\ signIn'[b].at \in PastLimit
      BY DEF LetThrough, Standing
    <3>2. CASE b # a
      BY <1>2, <3>1, <3>2 DEF LetThrough, Standing
    <3>3. CASE b = a
      <4>1. ~(c = k /\ s = r.start)
        BY <1>2, <2>3, <3>1, <3>3
      <4>2. a \in Standing(c, s)
        BY <1>8, <3>1, <3>3, <4>1
      <4>3. signIn[a].at \in PastLimit
        BY <1>2, <3>1, <3>3, <4>2 DEF Standing
      <4> QED
        BY <3>3, <4>2, <4>3 DEF LetThrough
    <3> QED
      BY <3>2, <3>3
  <2> QED
    BY <2>2, <2>3
<1> QED
  BY <1>1, <1>2, <1>3, <1>4, <1>5, <1>6, <1>7, <1>10, <1>11 DEF ThrottleInv

\* The address is charged, or the account.
LEMMA ChargeInv ==
  ASSUME ThrottleInv, NEW a \in SignIns, NEW at \in {"address", "account"}, Charge(a, at)
  PROVE  ThrottleInv'
<1> DEFINE k == KeyOf(a, at)
           was == signIn[a]
           row == Charged(k)
           to == IF Allows(k) THEN AfterCharge(at) ELSE "limited"
           mine == [c \in DOMAIN was.charged \cup {k} |->
                      IF c = k THEN [start |-> row.start, made |-> now] ELSE was.charged[c]]
           n == [was EXCEPT !.at = to, !.charged = mine]
<1>1. was \in Attempt /\ Coherent(was) /\ was.at = at
  BY DEF ThrottleInv, Charge
<1>2. /\ k \in Keys /\ k \in {Address, was.account} /\ k \notin DOMAIN was.charged
      /\ was.account \in Accounts /\ was.givenBack = {}
      /\ at = "address" => DOMAIN was.charged = {} /\ k = Address
      /\ at = "account" => DOMAIN was.charged = {Address} /\ k = was.account
  BY <1>1, Limits DEF Coherent, KeyOf, Keys
<1>3. /\ row \in [start : Moments, count : Nat]
      /\ row.start <= now /\ now <= row.start + WindowLength
      /\ row.count = Cardinality(Standing(k, row.start)) + 1
      /\ \A b \in SignIns : k \in DOMAIN signIn[b].charged =>
           \/ signIn[b].charged[k].start = row.start
           \/ signIn[b].charged[k].start + WindowLength < row.start
  BY <1>2, ChargedRow
<1>4. /\ counter' = [counter EXCEPT ![k] = row] /\ signIn' = [signIn EXCEPT ![a] = n]
      /\ now' = now
  BY DEF Charge
<1>5. to \in {"account", "password", "limited"}
      /\ (to = "account" => at = "address") /\ (to # "limited" => row.count <= Limit(k))
  BY DEF AfterCharge, Allows
<1>6. /\ DOMAIN mine = DOMAIN was.charged \cup {k}
      /\ mine[k] = [start |-> row.start, made |-> now]
      /\ \A c \in DOMAIN was.charged : mine[c] = was.charged[c]
  BY <1>2
<1>7. now \in Moments /\ row.start \in Moments
  BY <1>3 DEF ThrottleInv
<1>8. mine \in UNION {[D -> [start : Moments, made : Moments]] : D \in SUBSET Keys}
  <2>1. PICK D \in SUBSET Keys : was.charged \in [D -> [start : Moments, made : Moments]]
    BY <1>1 DEF Attempt
  <2>2. D \cup {k} \in SUBSET Keys
    BY <1>2
  <2>3. mine \in [(D \cup {k}) -> [start : Moments, made : Moments]]
    BY <1>7, <2>1
  <2> QED
    BY <2>2, <2>3
<1> HIDE DEF mine, row, to
<1>9. /\ n \in Attempt /\ n.at = to /\ n.charged = mine
      /\ n.account = was.account /\ n.givenBack = {}
  BY <1>1, <1>2, <1>5, <1>8 DEF Attempt
<1> HIDE DEF n
<1>10. Coherent(n)
  BY <1>1, <1>2, <1>5, <1>6, <1>9 DEF Coherent
<1>11. n.at \in PastLimit =>
         row.count <= Limit(k) /\ (was.at \in PastLimit \/ DOMAIN was.charged = {})
  BY <1>1, <1>2, <1>5, <1>9 DEF PastLimit
<1>12. PICK m \in Attempt : m = n
  BY <1>9
<1>13. PICK r \in [start : Moments, count : Nat] : r = row
  BY <1>3
<1>14. PICK key \in Keys : key = k
  BY <1>2
<1>15. /\ key \notin DOMAIN signIn[a].charged
       /\ DOMAIN m.charged = DOMAIN signIn[a].charged \cup {key}
       /\ m.charged[key] = [start |-> r.start, made |-> now]
       /\ \A c \in DOMAIN signIn[a].charged : m.charged[c] = signIn[a].charged[c]
       /\ m.givenBack = {} /\ signIn[a].givenBack = {} /\ Coherent(m)
       /\ m.at \in PastLimit => /\ r.count <= Limit(key)
                                /\ signIn[a].at \in PastLimit \/ DOMAIN signIn[a].charged = {}
  BY <1>2, <1>6, <1>9, <1>10, <1>11, <1>12, <1>13, <1>14
<1>16. /\ r.start <= now /\ now <= r.start + WindowLength
       /\ r.count = Cardinality(Standing(key, r.start)) + 1
       /\ \A b \in SignIns : key \in DOMAIN signIn[b].charged =>
            \/ signIn[b].charged[key].start = r.start
            \/ signIn[b].charged[key].start + WindowLength < r.start
  BY <1>3, <1>13, <1>14
<1>17. /\ counter' = [counter EXCEPT ![key] = r] /\ signIn' = [signIn EXCEPT ![a] = m]
       /\ now' = now
  BY <1>4, <1>12, <1>13, <1>14
<1> HIDE DEF k, was
<1> QED
  BY <1>15, <1>16, <1>17, ChargeTo


\* A charge is given back.
LEMMA RefundInv ==
  ASSUME ThrottleInv, NEW a \in SignIns, NEW k \in Keys, Refund(a, k)
  PROVE  ThrottleInv'
<1> DEFINE was == signIn[a]
           to == AfterRefund(was.at)
           back == was.givenBack \cup {k}
           n == [was EXCEPT !.givenBack = back, !.at = to]
           c == was.charged[k]
<1>1. /\ was \in Attempt /\ Coherent(was) /\ was.at \in {"refund", "refundAccount"}
      /\ k \in DOMAIN was.charged /\ k \notin was.givenBack
      /\ to \in {"refundAccount", "in"}
  BY DEF ThrottleInv, Refund, RefundOf, AfterRefund
<1>2. signIn' = [signIn EXCEPT ![a] = n] /\ now' = now
  BY DEF Refund
<1>3. /\ n \in Attempt /\ n.at = to /\ n.account = was.account
      /\ n.charged = was.charged /\ n.givenBack = back
  BY <1>1 DEF Attempt
<1>4. Coherent(n) /\ n.at \in PastLimit
  BY <1>1, <1>3 DEF Coherent, PastLimit
<1>5. c.start \in Moments /\ c.start # Never
  BY <1>1, ChargeIs
<1> HIDE DEF n
<1>6. /\ signIn' \in [SignIns -> Attempt] /\ signIn'[a] = n
      /\ \A b \in SignIns \ {a} : signIn'[b] = signIn[b]
  BY <1>2, <1>3 DEF ThrottleInv
<1>7. \A b \in SignIns : signIn'[b].charged = signIn[b].charged
  BY <1>3, <1>6
<1>8. ASSUME NEW e, NEW s
      PROVE  /\ Standing(e, s)' = IF e = k /\ s = c.start THEN Standing(e, s) \ {a}
                                  ELSE Standing(e, s)
             /\ a \in Standing(k, c.start)
  <2> DEFINE after == Standing(e, s)'
             before == Standing(e, s)
  <2>1. /\ \A b \in SignIns \ {a} : b \in after <=> b \in before
        /\ after \subseteq SignIns /\ before \subseteq SignIns
    BY <1>6 DEF Standing
  <2>2. a \in after <=> ~(e = k /\ s = c.start) /\ a \in before
    BY <1>1, <1>3, <1>6 DEF Standing
  <2>3. a \in Standing(k, c.start)
    BY <1>1 DEF Standing
  <2> HIDE DEF after, before, c
  <2>4. CASE e = k /\ s = c.start
    <3>1. after = before \ {a}
      BY <2>1, <2>2, <2>4
    <3> QED
      BY <2>3, <2>4, <3>1 DEF after, before
  <2>5. CASE ~(e = k /\ s = c.start)
    <3>1. after = before
      BY <2>1, <2>2, <2>5
    <3> QED
      BY <2>3, <2>5, <3>1 DEF after, before
  <2> QED
    BY <2>4, <2>5
<1>9. counter \in [Keys -> [start : Times, count : Nat]]
  BY DEF ThrottleInv
<1>10. counter[k].start = c.start =>
         /\ counter[k].count = Cardinality(Standing(k, c.start))
         /\ counter[k].count > 0
         /\ counter[k].count - 1 = Cardinality(Standing(k, c.start) \ {a})
  <2> SUFFICES ASSUME counter[k].start = c.start
               PROVE  /\ counter[k].count = Cardinality(Standing(k, c.start))
                      /\ counter[k].count > 0
                      /\ counter[k].count - 1 = Cardinality(Standing(k, c.start) \ {a})
    OBVIOUS
  <2>1. counter[k].count = Cardinality(Standing(k, c.start))
    BY <1>5 DEF ThrottleInv, CountIsCharges
  <2>2. a \in Standing(k, c.start)
    BY <1>8
  <2> DEFINE S == Standing(k, c.start)
  <2>3. IsFiniteSet(S) /\ a \in S /\ Cardinality(S) \in Nat /\ counter[k].count = Cardinality(S)
    BY <2>1, <2>2, StandingIs
  <2> HIDE DEF S
  <2>4. /\ Cardinality(S \ {a}) = Cardinality(S) - 1
        /\ Cardinality(S) # 0
    BY <2>3, FS_RemoveElement, FS_EmptySet
  <2>5. counter[k].count > 0 /\ counter[k].count - 1 = Cardinality(S \ {a})
    BY <2>3, <2>4
  <2> QED
    BY <2>1, <2>5 DEF S
<1>11. counter' = IF counter[k].start = c.start THEN [counter EXCEPT ![k].count = @ - 1]
                  ELSE counter
  BY <1>10 DEF Refund, SameWindow
<1> HIDE DEF c
<1>12. /\ counter' \in [Keys -> [start : Times, count : Nat]]
       /\ \A e \in Keys : counter'[e].start = counter[e].start
       /\ \A e \in Keys : e = k /\ counter[k].start = c.start
                            => counter'[e].count = counter[k].count - 1
       /\ \A e \in Keys : ~(e = k /\ counter[k].start = c.start)
                            => counter'[e].count = counter[e].count
  <2>1. CASE counter[k].start = c.start
    <3> DEFINE row == [counter[k] EXCEPT !.count = @ - 1]
    <3>1. counter[k].count \in Nat /\ counter[k].count > 0
      BY <1>9, <1>10, <2>1
    <3>2. /\ row \in [start : Times, count : Nat] /\ row.start = counter[k].start
          /\ row.count = counter[k].count - 1
      BY <1>9, <3>1
    <3>3. counter' = [counter EXCEPT ![k] = row]
      BY <1>9, <1>11, <2>1
    <3> HIDE DEF row
    <3> QED
      BY <1>9, <2>1, <3>2, <3>3
  <2>2. CASE counter[k].start # c.start
    BY <1>9, <1>11, <2>2
  <2> QED
    BY <2>1, <2>2
<1>13. CountIsCharges'
  <2> SUFFICES ASSUME NEW e \in Keys, counter'[e].start # Never
               PROVE  counter'[e].count = Cardinality(Standing(e, counter[e].start)')
    BY DEF CountIsCharges
  <2>1. PICK s : s = counter[e].start /\ s = counter'[e].start /\ s # Never
    BY <1>12
  <2>2. Standing(e, counter[e].start)' = Standing(e, s)'
    BY <2>1 DEF Standing
  <2>3. counter[e].count = Cardinality(Standing(e, s))
    BY <2>1 DEF ThrottleInv, CountIsCharges
  <2>4. CASE e = k /\ s = c.start
    BY <1>8, <1>10, <1>12, <2>1, <2>2, <2>4
  <2>5. CASE ~(e = k /\ s = c.start)
    BY <1>8, <1>12, <2>1, <2>2, <2>3, <2>5
  <2> QED
    BY <2>4, <2>5
<1>14. LetCapped'
  <2> SUFFICES ASSUME NEW e \in Keys, NEW s \in Moments
               PROVE  Cardinality(LetThrough(e, s)') <= Limit(e)
    BY DEF LetCapped
  <2>1. LetThrough(e, s)' \in SUBSET LetThrough(e, s)
    <3> SUFFICES ASSUME NEW b \in LetThrough(e, s)'
                 PROVE  b \in LetThrough(e, s)
      OBVIOUS
    <3>1. b \in Standing(e, s)' /\ b \in SignIns /\ signIn'[b].at \in PastLimit
      BY DEF LetThrough, Standing
    <3>2. b \in Standing(e, s)
      BY <1>8, <3>1
    <3>3. signIn[b].at \in PastLimit
      BY <1>1, <1>6, <3>1 DEF PastLimit
    <3> QED
      BY <3>2, <3>3 DEF LetThrough
  <2>2. /\ Cardinality(LetThrough(e, s)') <= Cardinality(LetThrough(e, s))
        /\ IsFiniteSet(LetThrough(e, s)')
    BY <2>1, StandingIs, FS_Subset
  <2>3. Cardinality(LetThrough(e, s)) <= Limit(e)
    BY DEF ThrottleInv, LetCapped
  <2>4. Cardinality(LetThrough(e, s)') \in Nat
    BY <2>2, FS_CardinalityType
  <2> QED
    BY <2>2, <2>3, <2>4, StandingIs, Limits
<1>15. \A b \in SignIns : WindowsFit(signIn[b])'
  <2> SUFFICES ASSUME NEW b \in SignIns, NEW e \in DOMAIN signIn[b].charged
               PROVE  LET ch == signIn[b].charged[e]
                      IN /\ ch.start <= ch.made /\ ch.made <= now
                         /\ ch.made <= ch.start + WindowLength
                         /\ IF counter'[e].start = Never THEN ch.start + WindowLength < now
                            ELSE ch.start = counter'[e].start
                                 \/ ch.start + WindowLength < counter'[e].start
    BY <1>2, <1>7 DEF WindowsFit
  <2>1. e \in Keys
    BY ChargeIs DEF ThrottleInv
  <2>2. counter'[e].start = counter[e].start
    BY <1>12, <2>1
  <2> QED
    BY <2>2 DEF ThrottleInv, WindowsFit
<1>16. \A b \in SignIns : \A d \in SignIns : Apart(signIn[b], signIn[d])'
  BY <1>7 DEF ThrottleInv, Apart
<1>17. \A e \in Keys : RowFits(e)'
  <2> SUFFICES ASSUME NEW e \in Keys
               PROVE  RowFits(e)'
    OBVIOUS
  <2>1. RowFits(e)
    BY DEF ThrottleInv
  <2>2. counter'[e].start = Never => counter'[e].count = counter[e].count
    BY <1>5, <1>12
  <2> QED
    BY <1>2, <1>12, <2>1, <2>2 DEF RowFits
<1>18. \A b \in SignIns : Coherent(signIn[b])'
  BY <1>4, <1>6 DEF ThrottleInv, Coherent
<1>19. now' \in Moments
  BY <1>2 DEF ThrottleInv
<1> QED
  BY <1>6, <1>12, <1>13, <1>14, <1>15, <1>16, <1>17, <1>18, <1>19 DEF ThrottleInv

\* For any sign-ins, accounts, limits and window: a counter says what was charged and
\* not given back, and guesses are capped by the limit in a window, by twice the limit
\* in any stretch as long as one, however charges, refunds, roll-overs and the nightly
\* deletion fall together.
THEOREM ThrottleKeepsPromises == ThrottleSpec => []ThrottlePromises
<1>1. ThrottleInit => ThrottleInv
  <2> SUFFICES ASSUME ThrottleInit
               PROVE  ThrottleInv
    OBVIOUS
  <2>1. /\ counter = [k \in Keys |-> NoRow] /\ signIn = [a \in SignIns |-> NotMade] /\ now = 0
        /\ 0 \in Moments
    BY Limits DEF ThrottleInit, Moments
  <2>2. NoRow \in [start : Times, count : Nat] /\ NoRow.start = Never /\ NoRow.count = 0
    BY DEF NoRow, Times
  <2>3. /\ NotMade.charged \in [{} -> [start : Moments, made : Moments]]
        /\ NotMade.at = "none" /\ NotMade.givenBack = {} /\ NotMade.account = Address
    BY DEF NotMade
  <2>4. NotMade \in Attempt
    <3>1. {} \in SUBSET Keys
      OBVIOUS
    <3>2. NotMade.charged \in UNION {[D -> [start : Moments, made : Moments]] : D \in SUBSET Keys}
      BY <2>3, <3>1
    <3> QED
      BY <3>2, Limits DEF NotMade, Attempt
  <2>5. DOMAIN NotMade.charged = {}
    BY <2>3
  <2>6. Coherent(NotMade)
    BY <2>3, <2>5 DEF Coherent
  <2>7. \A a \in SignIns : WindowsFit(signIn[a])
    BY <2>1, <2>5 DEF WindowsFit
  <2>8. \A a \in SignIns : \A b \in SignIns : Apart(signIn[a], signIn[b])
    BY <2>1, <2>5 DEF Apart
  <2>9. \A k \in Keys : RowFits(k)
    BY <2>1, <2>2 DEF RowFits, Never
  <2>10. CountIsCharges
    BY <2>1, <2>2 DEF CountIsCharges
  <2>11. LetCapped
    <3> SUFFICES ASSUME NEW k \in Keys, NEW s \in Moments
                 PROVE  Cardinality(LetThrough(k, s)) <= Limit(k)
      BY DEF LetCapped
    <3>1. LetThrough(k, s) = {}
      BY <2>1, <2>5 DEF LetThrough, Standing
    <3> QED
      BY <3>1, FS_EmptySet, Limits
  <2> QED
    BY <2>1, <2>2, <2>4, <2>6, <2>7, <2>8, <2>9, <2>10, <2>11 DEF ThrottleInv
<1>2. ThrottleInv /\ [ThrottleNext]_throttleVars => ThrottleInv'
  <2> SUFFICES ASSUME ThrottleInv, [ThrottleNext]_throttleVars
               PROVE  ThrottleInv'
    OBVIOUS
  <2>1. CASE UNCHANGED throttleVars
    BY <2>1 DEF throttleVars, ThrottleInv, Coherent, WindowsFit, Apart, RowFits, CountIsCharges,
       LetCapped, LetThrough, Standing
  <2>2. ASSUME NEW a \in SignIns,
               \/ \E u \in Accounts : Begin(a, u)
               \/ \E at \in {"address", "account"} : Charge(a, at)
               \/ \E right \in BOOLEAN : TryPassword(a, right)
               \/ \E k \in Keys : Refund(a, k)
               \/ Fails(a)
        PROVE  ThrottleInv'
    BY <2>2, NoChargeInv, ChargeInv, RefundInv
  <2> QED
    BY <2>1, <2>2, TimeInv DEF ThrottleNext
<1> QED
  BY <1>1, <1>2, ThrottleHolds, PTL DEF ThrottleSpec
-----------------------------------------------------------------------------
(***************************************************************************)
(* Account requests (AccountRequests).  That an approved request keeps its *)
(* login is not inductive: nobody may be at work on a login that an        *)
(* approved request owns, and no two approvals on the same one.            *)
(***************************************************************************)
Decision == [at : DecidingAt, item : Applications \cup {NoItem}, id : Logins \cup {NoLogin}]

\* An approval has its login from the provider's answer to its removal; what it
\* decides it has claimed, and what it removes nobody owns.
DecisionFits(a) ==
  LET d == deciding[a]
  IN /\ d.at # "none" => d.item \in Applications
     /\ IF d.at \in {"claim", "decide", "undo", "remove"}
          THEN d.id \in Logins /\ login[d.id] = "live"
          ELSE d.id = NoLogin
     /\ d.at = "decide" => created[d.item] = d.id
     /\ d.at = "remove" => \A r \in Applications : created[r] # d.id

\* One approval works on a login.
OneAtWork ==
  \A a, b \in Approvers : deciding[a].id = deciding[b].id => a = b \/ deciding[a].id = NoLogin

\* A claimed login is there, and active.
ClaimFits(r) ==
  created[r] # NoLogin => login[created[r]] = "live" /\ profile[created[r]] = "active"

\* An approved request owns its login, unless its approver never heard.
OwnerFits(r) ==
  /\ application[r] = "approved" /\ r \notin unheard
       => created[r] # NoLogin /\ \A a \in Approvers : deciding[a].id # created[r]
  /\ application[r] = "rejected" => created[r] = NoLogin

AccountInv ==
  /\ AccountTypeOK /\ NoStrayLogin /\ OneAtWork
  /\ \A a \in Approvers : DecisionFits(a)
  /\ \A r \in Applications : ClaimFits(r) /\ OwnerFits(r)

\* What the proofs of the steps start from.
LEMMA AccountHas ==
  AccountInv =>
    /\ application \in [Applications -> RequestStates]
    /\ queued \in [Applications -> RequestStates]
    /\ created \in [Applications -> Logins \cup {NoLogin}]
    /\ login \in [Logins -> LoginStates] /\ profile \in [Logins -> ProfileStates]
    /\ deciding \in [Approvers -> Decision]
    /\ mislaid \subseteq Logins /\ told \subseteq Logins /\ unheard \subseteq Applications
    /\ NoStrayLogin /\ OneAtWork
    /\ \A a \in Approvers : DecisionFits(a)
    /\ \A r \in Applications : ClaimFits(r) /\ OwnerFits(r)
BY DEF AccountInv, AccountTypeOK, Decision

\* A handler goes on, or ends.
LEMMA DecisionGoes ==
  ASSUME AccountInv, NEW a \in Approvers, NEW step \in DecidingAt
  PROVE  /\ DecisionAt(a, step) => \E n \in Decision :
              /\ deciding' = [deciding EXCEPT ![a] = n]
              /\ n.at = step /\ n.item = deciding[a].item /\ n.id = deciding[a].id
         /\ EndDecision(a) => \E n \in Decision :
              /\ deciding' = [deciding EXCEPT ![a] = n] /\ n.at = "none" /\ n.id = NoLogin
<1>1. ASSUME DecisionAt(a, step)
      PROVE  \E n \in Decision : /\ deciding' = [deciding EXCEPT ![a] = n]
                                 /\ n.at = step /\ n.item = deciding[a].item
                                 /\ n.id = deciding[a].id
  <2> DEFINE n == [deciding[a] EXCEPT !.at = step]
  <2>1. n \in Decision /\ n.at = step /\ n.item = deciding[a].item /\ n.id = deciding[a].id
    BY AccountHas DEF Decision
  <2>2. deciding' = [deciding EXCEPT ![a] = n]
    BY <1>1, AccountHas DEF DecisionAt
  <2> HIDE DEF n
  <2> QED
    BY <2>1, <2>2
<1>2. NotDeciding \in Decision /\ NotDeciding.at = "none" /\ NotDeciding.id = NoLogin
  BY DEF NotDeciding, Decision, DecidingAt
<1> QED
  BY <1>1, <1>2 DEF EndDecision

\* Only a handler moves: it keeps its login, or has told of it.
LEMMA HandlerMoves ==
  ASSUME AccountInv, NEW a \in Approvers, NEW n \in Decision,
         deciding' = [deciding EXCEPT ![a] = n],
         UNCHANGED <<application, queued, created, login, profile>>,
         told \subseteq told', told' \subseteq Logins,
         mislaid \subseteq mislaid', mislaid' \subseteq Logins, unheard' = unheard,
         n.id = deciding[a].id
           \/ (n.id = NoLogin /\ deciding[a].id \in told' \cup mislaid' \cup {NoLogin}),
         n.at # "none" => n.item \in Applications,
         n.at \in {"claim", "decide", "remove"} => FALSE,
         n.at = "undo" => n.id # NoLogin /\ deciding[a].at \in {"claim", "decide"},
         n.at # "undo" => n.id = NoLogin
  PROVE  AccountInv'
<1>1. deciding \in [Approvers -> Decision]
  BY AccountHas
<1>2. /\ deciding' \in [Approvers -> Decision] /\ deciding'[a] = n
      /\ \A b \in Approvers \ {a} : deciding'[b] = deciding[b]
  BY <1>1
<1>3. AccountTypeOK'
  BY <1>2, AccountHas DEF AccountTypeOK, Decision
<1>4. NoStrayLogin'
  <2> SUFFICES ASSUME NEW i \in Live
               PROVE  \/ \E r \in Applications : application[r] = "approved" /\ created[r] = i
                      \/ \E b \in Approvers : deciding'[b].id = i
                      \/ i \in told' \cup mislaid'
    BY DEF NoStrayLogin, Live
  <2>1. i # NoLogin /\ i \in Logins
    BY AccountAssumption DEF Live
  <2>2. \/ \E r \in Applications : application[r] = "approved" /\ created[r] = i
        \/ \E b \in Approvers : deciding[b].id = i
        \/ i \in told \cup mislaid
    BY AccountHas DEF NoStrayLogin
  <2>3. ASSUME NEW b \in Approvers, deciding[b].id = i
        PROVE  deciding'[b].id = i \/ i \in told' \cup mislaid'
    BY <1>2, <2>1, <2>3
  <2> QED
    BY <2>2, <2>3
<1>5. \A b \in Approvers : deciding'[b].id = deciding[b].id \/ deciding'[b].id = NoLogin
  BY <1>2
<1>6. OneAtWork'
  BY <1>5, AccountHas DEF OneAtWork
<1>7. ASSUME NEW b \in Approvers
      PROVE  DecisionFits(b)'
  <2>1. CASE b = a
    <3>1. n.at = "undo" => n.id \in Logins /\ login[n.id] = "live"
      BY AccountHas DEF DecisionFits
    <3> QED
      BY <1>2, <2>1, <3>1 DEF DecisionFits, Decision
  <2>2. CASE b # a
    BY <1>2, <2>2, AccountHas DEF DecisionFits
  <2> QED
    BY <2>1, <2>2
<1>8. \A r \in Applications : ClaimFits(r)'
  BY AccountHas DEF ClaimFits
<1>9. \A r \in Applications : OwnerFits(r)'
  BY <1>5, AccountHas DEF OwnerFits
<1> QED
  BY <1>3, <1>4, <1>6, <1>7, <1>8, <1>9 DEF AccountInv

\* An approval or a rejection begins; the provider refuses; a statement fails; the
\* process dies.
LEMMA HandlerInv ==
  ASSUME AccountInv, NEW a \in Approvers,
         \/ \E r \in Applications : BeginApproval(a, r) \/ BeginRejection(a, r)
         \/ ProviderRefuses(a) \/ StepFails(a) \/ ApproverDies(a)
  PROVE  AccountInv'
<1>0. deciding[a] \in Decision /\ DecisionFits(a)
  BY AccountHas
<1>1. ASSUME NEW r \in Applications, BeginApproval(a, r) \/ BeginRejection(a, r)
      PROVE  AccountInv'
  <2>1. PICK at \in {"create", "reject"} :
               deciding' = [deciding EXCEPT ![a] = [at |-> at, item |-> r, id |-> NoLogin]]
    BY <1>1 DEF BeginApproval, BeginRejection
  <2> DEFINE n == [at |-> at, item |-> r, id |-> NoLogin]
  <2>2. n \in Decision /\ n.at = at /\ n.item = r /\ n.id = NoLogin
    BY DEF Decision, DecidingAt
  <2>3. deciding[a].id = NoLogin
    BY <1>0, <1>1 DEF BeginApproval, BeginRejection, DecisionFits
  <2>4. UNCHANGED <<application, queued, created, login, profile, told, mislaid, unheard>>
    BY <1>1 DEF BeginApproval, BeginRejection, applicationRows, people, fates
  <2>5. deciding' = [deciding EXCEPT ![a] = n]
    BY <2>1
  <2> HIDE DEF n
  <2>6. told' \subseteq Logins /\ mislaid' \subseteq Logins
    BY <2>4, AccountHas
  <2> QED
    BY <2>2, <2>3, <2>4, <2>5, <2>6, HandlerMoves
<1>2. CASE ProviderRefuses(a) \/ ApproverDies(a)
  <2>1. EndDecision(a) /\ UNCHANGED <<application, queued, created, login, profile, told, unheard>>
    BY <1>2 DEF ProviderRefuses, ApproverDies, applicationRows, people, fates
  <2>2. PICK n \in Decision : /\ deciding' = [deciding EXCEPT ![a] = n]
                              /\ n.at = "none" /\ n.id = NoLogin
    BY <2>1, DecisionGoes DEF DecidingAt
  <2>3. /\ mislaid \subseteq mislaid' /\ mislaid' \subseteq Logins
        /\ deciding[a].id \in told' \cup mislaid' \cup {NoLogin}
    BY <1>0, <1>2, AccountHas DEF ProviderRefuses, ApproverDies, fates, DecisionFits, Decision
  <2>4. told' \subseteq Logins
    BY <2>1, AccountHas
  <2> QED
    BY <2>1, <2>2, <2>3, <2>4, HandlerMoves
<1>3. CASE StepFails(a)
  <2>1. UNCHANGED <<application, queued, created, login, profile, mislaid, unheard>>
    BY <1>3 DEF StepFails, applicationRows, people
  <2>2. CASE deciding[a].at \in {"claim", "decide"} /\ DecisionAt(a, "undo") /\ told' = told
    <3>1. PICK n \in Decision : /\ deciding' = [deciding EXCEPT ![a] = n]
                                /\ n.at = "undo" /\ n.item = deciding[a].item
                                /\ n.id = deciding[a].id
      BY <2>2, DecisionGoes DEF DecidingAt
    <3>2. deciding[a].id \in Logins /\ deciding[a].item \in Applications /\ n.id # NoLogin
      BY <1>0, <2>2, <3>1, AccountAssumption DEF DecisionFits
    <3>3. told' \subseteq Logins /\ mislaid' \subseteq Logins
      BY <2>1, <2>2, AccountHas
    <3> QED
      BY <2>1, <2>2, <3>1, <3>2, <3>3, HandlerMoves
  <2>3. CASE /\ deciding[a].at \in {"undo", "remove"} /\ EndDecision(a)
             /\ told' = told \cup {deciding[a].id}
    <3>1. PICK n \in Decision : /\ deciding' = [deciding EXCEPT ![a] = n]
                                /\ n.at = "none" /\ n.id = NoLogin
      BY <2>3, DecisionGoes DEF DecidingAt
    <3>2. deciding[a].id \in Logins
      BY <1>0, <2>3 DEF DecisionFits
    <3>3. told' \subseteq Logins /\ mislaid' \subseteq Logins
      BY <2>1, <2>3, <3>2, AccountHas
    <3> QED
      BY <2>1, <2>3, <3>1, <3>2, <3>3, HandlerMoves
  <2> QED
    BY <1>3, <2>2, <2>3 DEF StepFails
<1> QED
  BY <1>1, <1>2, <1>3

\* A request is made.
LEMMA SubmitInv ==
  ASSUME AccountInv, NEW r \in Applications, SubmitRequest(r)
  PROVE  AccountInv'
<1>0. application[r] = "none"
  BY DEF SubmitRequest
<1>1. application' = [application EXCEPT ![r] = "pending"]
      /\ queued' = [queued EXCEPT ![r] = "pending"]
  BY DEF SubmitRequest
<1>2. UNCHANGED <<created, login, profile, deciding, mislaid, told, unheard>>
  BY DEF SubmitRequest, people, fates
<1>3. AccountTypeOK'
  BY <1>1, <1>2, AccountHas DEF AccountTypeOK, RequestStates, Decision
<1>4. \A q \in Applications : q # r => application'[q] = application[q]
  BY <1>1, AccountHas
<1>5. application'[r] = "pending"
  BY <1>1, AccountHas
<1>6. NoStrayLogin'
  BY <1>0, <1>2, <1>4, AccountHas DEF NoStrayLogin, Live
<1>7. OneAtWork' /\ \A a \in Approvers : DecisionFits(a)'
  BY <1>2, AccountHas DEF OneAtWork, DecisionFits
<1>8. \A q \in Applications : ClaimFits(q)'
  BY <1>2, AccountHas DEF ClaimFits
<1>9. \A q \in Applications : OwnerFits(q)'
  BY <1>2, <1>4, <1>5, AccountHas DEF OwnerFits
<1> QED
  BY <1>3, <1>6, <1>7, <1>8, <1>9 DEF AccountInv

\* The provider makes a login nobody had.
LEMMA CreatesInv ==
  ASSUME AccountInv, NEW a \in Approvers, NEW i \in Logins, NEW answered \in BOOLEAN,
         ProviderCreates(a, i, answered)
  PROVE  AccountInv'
<1>1. /\ deciding[a].at = "create" /\ login[i] = "unused" /\ Live = {}
      /\ login' = [login EXCEPT ![i] = "live"]
      /\ profile' = [profile EXCEPT ![i] = "inactive"]
      /\ UNCHANGED <<application, queued, created, told, unheard>>
  BY DEF ProviderCreates, applicationRows
<1>2. deciding[a] \in Decision /\ DecisionFits(a)
  BY AccountHas
<1>3. i # NoLogin
  BY AccountAssumption
<1>4. PICK n \in Decision :
        /\ deciding' = [deciding EXCEPT ![a] = n]
        /\ \/ n.at = "claim" /\ n.id = i /\ n.item \in Applications /\ mislaid' = mislaid
           \/ n.at = "none" /\ n.id = NoLogin /\ mislaid' = mislaid \cup {i}
  <2>1. CASE answered
    <3> DEFINE n == [deciding[a] EXCEPT !.at = "claim", !.id = i]
    <3>1. n \in Decision /\ n.at = "claim" /\ n.id = i /\ n.item = deciding[a].item
      BY <1>2 DEF Decision, DecidingAt
    <3>2. deciding' = [deciding EXCEPT ![a] = n] /\ mislaid' = mislaid
      BY <2>1, AccountHas DEF ProviderCreates
    <3>3. deciding[a].item \in Applications
      BY <1>1, <1>2 DEF DecisionFits
    <3> HIDE DEF n
    <3> QED
      BY <3>1, <3>2, <3>3
  <2>2. CASE ~answered
    <3>1. EndDecision(a) /\ mislaid' = mislaid \cup {i}
      BY <2>2 DEF ProviderCreates
    <3> QED
      BY <3>1, DecisionGoes DEF DecidingAt
  <2> QED
    BY <2>1, <2>2
<1>5. /\ deciding' \in [Approvers -> Decision] /\ deciding'[a] = n
      /\ \A b \in Approvers \ {a} : deciding'[b] = deciding[b]
  BY <1>4, AccountHas
<1>6. /\ login' \in [Logins -> LoginStates] /\ profile' \in [Logins -> ProfileStates]
      /\ login'[i] = "live"
      /\ \A j \in Logins \ {i} : login'[j] = login[j] /\ profile'[j] = profile[j]
  BY <1>1, AccountHas DEF LoginStates, ProfileStates
<1>7. mislaid' \subseteq Logins
  BY <1>4, AccountHas
<1>8. AccountTypeOK'
  BY <1>1, <1>5, <1>6, <1>7, AccountHas DEF AccountTypeOK, Decision
<1>9. \A j \in Logins : login[j] # "live"
  BY <1>1 DEF Live
<1>10. \A b \in Approvers : deciding[b].id # i
  <2> TAKE b \in Approvers
  <2> QED
    BY <1>3, <1>9, AccountHas DEF DecisionFits
<1>11. \A r \in Applications : created[r] = NoLogin
  BY <1>9, AccountHas DEF ClaimFits
<1>12. NoStrayLogin'
  <2> SUFFICES ASSUME NEW j \in Logins, login'[j] = "live"
               PROVE  (\E b \in Approvers : deciding'[b].id = j) \/ j \in mislaid'
    BY DEF NoStrayLogin, Live
  <2>1. j = i
    BY <1>6, <1>9
  <2> QED
    BY <1>4, <1>5, <2>1
<1>13. OneAtWork'
  BY <1>4, <1>5, <1>10, AccountHas DEF OneAtWork
<1>14. \A b \in Approvers : DecisionFits(b)'
  <2> TAKE b \in Approvers
  <2>1. CASE b = a
    BY <1>3, <1>4, <1>5, <1>6, <2>1 DEF DecisionFits
  <2>2. CASE b # a
    <3>1. deciding'[b] = deciding[b] /\ DecisionFits(b)
      BY <1>5, <2>2, AccountHas
    <3> QED
      BY <1>1, <1>6, <1>9, <3>1 DEF DecisionFits
  <2> QED
    BY <2>1, <2>2
<1>15. \A r \in Applications : ClaimFits(r)'
  BY <1>1, <1>11 DEF ClaimFits
<1>16. \A r \in Applications : OwnerFits(r)'
  BY <1>1, <1>11, AccountHas DEF OwnerFits
<1> QED
  BY <1>8, <1>12, <1>13, <1>14, <1>15, <1>16 DEF AccountInv

\* A login is claimed for a request, or its request was taken.
LEMMA ClaimInv ==
  ASSUME AccountInv, NEW a \in Approvers, NEW answered \in BOOLEAN, Claim(a, answered)
  PROVE  AccountInv'
<1> DEFINE r == deciding[a].item
           i == deciding[a].id
<1>0. deciding[a] \in Decision /\ DecisionFits(a) /\ deciding[a].at = "claim"
  BY AccountHas DEF Claim
<1>1. r \in Applications /\ i \in Logins /\ login[i] = "live"
  BY <1>0 DEF DecisionFits
<1>2. UNCHANGED <<application, queued, login, mislaid, told, unheard>>
  BY DEF Claim, fates
<1>3. PICK n \in Decision :
        /\ deciding' = [deciding EXCEPT ![a] = n] /\ n.item = r /\ n.id = i
        /\ \/ /\ Unclaimed(r) /\ n.at \in {"decide", "undo"}
              /\ profile' = [profile EXCEPT ![i] = "active"]
              /\ created' = [created EXCEPT ![r] = i]
           \/ n.at = "undo" /\ profile' = profile /\ created' = created
  <2>1. \A step \in DecidingAt : DecisionAt(a, step) => \E n \in Decision :
              /\ deciding' = [deciding EXCEPT ![a] = n]
              /\ n.at = step /\ n.item = r /\ n.id = i
    BY DecisionGoes
  <2>2. CASE Unclaimed(r)
    <3>1. PICK step \in {"decide", "undo"} : DecisionAt(a, step)
      BY <2>2 DEF Claim
    <3>2. profile' = [profile EXCEPT ![i] = "active"] /\ created' = [created EXCEPT ![r] = i]
      BY <2>2 DEF Claim
    <3>3. step \in DecidingAt
      BY DEF DecidingAt
    <3> QED
      BY <2>1, <2>2, <3>1, <3>2, <3>3
  <2>3. CASE ~Unclaimed(r)
    <3>1. DecisionAt(a, "undo") /\ profile' = profile /\ created' = created
      BY <2>3 DEF Claim
    <3> QED
      BY <2>1, <3>1 DEF DecidingAt
  <2> QED
    BY <2>2, <2>3
<1> HIDE DEF r, i
<1>4. /\ deciding' \in [Approvers -> Decision] /\ deciding'[a] = n
      /\ \A b \in Approvers \ {a} : deciding'[b] = deciding[b]
  BY <1>3, AccountHas
<1>5. \A b \in Approvers : deciding'[b].id = deciding[b].id
  BY <1>3, <1>4 DEF i
<1>6. profile' \in [Logins -> ProfileStates] /\ created' \in [Applications -> Logins \cup {NoLogin}]
  BY <1>1, <1>3, AccountHas DEF ProfileStates
<1>7. AccountTypeOK'
  BY <1>2, <1>4, <1>6, AccountHas DEF AccountTypeOK, Decision
<1>8. \A j \in Logins : profile[j] = "active" => profile'[j] = "active"
  BY <1>1, <1>3, AccountHas
<1>9. \A q \in Applications :
        created'[q] = created[q]
          \/ (q = r /\ created'[q] = i /\ profile'[i] = "active" /\ Unclaimed(r))
  BY <1>1, <1>3, AccountHas
<1>10. NoStrayLogin'
  <2>1. \A q \in Applications : application[q] = "approved" => created'[q] = created[q]
    BY <1>9 DEF Unclaimed
  <2> QED
    BY <1>2, <1>5, <2>1, AccountHas DEF NoStrayLogin, Live
<1>11. OneAtWork'
  BY <1>5, AccountHas DEF OneAtWork
<1>12. \A b \in Approvers : DecisionFits(b)'
  <2> TAKE b \in Approvers
  <2>1. CASE b = a
    <3>1. n.at = "decide" => created'[r] = i
      BY <1>1, <1>3, AccountHas
    <3> QED
      BY <1>1, <1>2, <1>3, <1>4, <2>1, <3>1 DEF DecisionFits
  <2>2. CASE b # a
    <3>1. deciding'[b] = deciding[b] /\ DecisionFits(b) /\ login' = login
      BY <1>2, <1>4, <2>2, AccountHas
    <3>2. deciding[b].id # NoLogin => deciding[b].id # i
      BY <2>2, AccountHas DEF OneAtWork, i
    <3>3. deciding[b].at = "decide" => created'[deciding[b].item] = deciding[b].id
      BY <1>9, <3>1, AccountAssumption DEF DecisionFits, Unclaimed
    <3>4. deciding[b].at = "remove" => \A q \in Applications : created'[q] # deciding[b].id
      BY <1>9, <3>1, <3>2, AccountAssumption DEF DecisionFits
    <3> QED
      BY <3>1, <3>3, <3>4 DEF DecisionFits
  <2> QED
    BY <2>1, <2>2
<1>13. \A q \in Applications : ClaimFits(q)'
  <2> TAKE q \in Applications
  <2>1. created[q] \in Logins \cup {NoLogin} /\ ClaimFits(q)
    BY AccountHas
  <2> QED
    BY <1>1, <1>2, <1>8, <1>9, <2>1 DEF ClaimFits
<1>14. \A q \in Applications : OwnerFits(q)'
  <2> TAKE q \in Applications
  <2>1. application[q] \in {"approved", "rejected"} => created'[q] = created[q]
    BY <1>9 DEF Unclaimed
  <2> QED
    BY <1>2, <1>5, <2>1, AccountHas DEF OwnerFits
<1> QED
  BY <1>7, <1>10, <1>11, <1>12, <1>13, <1>14 DEF AccountInv

\* A request and its row in the queue are decided, by a handler that then has no
\* login, keeps it to undo, or has approved a request with it.
LEMMA VerdictInv ==
  ASSUME AccountInv, NEW a \in Approvers, NEW r \in Applications, NEW n \in Decision,
         NEW verdict \in {"approved", "rejected"},
         deciding' = [deciding EXCEPT ![a] = n],
         application[r] = "pending", DecideBoth(r, verdict),
         UNCHANGED <<created, login, profile, mislaid, told>>,
         unheard' \subseteq Applications, unheard \subseteq unheard',
         \A q \in Applications : q # r => (q \in unheard' <=> q \in unheard),
         verdict = "rejected" => created[r] = NoLogin /\ deciding[a].id = NoLogin
                                 /\ unheard' = unheard,
         verdict = "approved" => created[r] = deciding[a].id /\ deciding[a].id # NoLogin,
         \/ n.at = "none" /\ n.id = NoLogin
         \/ /\ verdict = "approved" /\ r \in unheard'
            /\ n.at = "undo" /\ n.id = deciding[a].id /\ n.item \in Applications
  PROVE  AccountInv'
<1>1. /\ deciding' \in [Approvers -> Decision] /\ deciding'[a] = n
      /\ \A b \in Approvers \ {a} : deciding'[b] = deciding[b]
  BY AccountHas
<1>2. /\ application' \in [Applications -> RequestStates] /\ queued' \in [Applications -> RequestStates]
      /\ application'[r] = verdict
      /\ \A q \in Applications \ {r} : application'[q] = application[q]
  BY AccountHas DEF DecideBoth, RequestStates
<1>3. AccountTypeOK'
  BY <1>1, <1>2, AccountHas DEF AccountTypeOK, Decision
<1>4. \A b \in Approvers : deciding'[b].id \in {deciding[b].id, NoLogin}
  BY <1>1
<1>5. NoStrayLogin'
  <2> SUFFICES ASSUME NEW i \in Live
               PROVE  \/ \E q \in Applications : application'[q] = "approved" /\ created[q] = i
                      \/ \E b \in Approvers : deciding'[b].id = i
                      \/ i \in told \cup mislaid
    BY DEF NoStrayLogin, Live
  <2>1. i # NoLogin /\ i \in Logins
    BY AccountAssumption DEF Live
  <2>2. \/ \E q \in Applications : application[q] = "approved" /\ created[q] = i
        \/ \E b \in Approvers : deciding[b].id = i
        \/ i \in told \cup mislaid
    BY AccountHas DEF NoStrayLogin
  <2>3. ASSUME NEW b \in Approvers, deciding[b].id = i
        PROVE  \/ \E q \in Applications : application'[q] = "approved" /\ created[q] = i
               \/ deciding'[b].id = i
    BY <1>1, <1>2, <2>1, <2>3
  <2>4. ASSUME NEW q \in Applications, application[q] = "approved"
        PROVE  application'[q] = "approved"
    BY <1>2, <2>4
  <2> QED
    BY <2>2, <2>3, <2>4
<1>6. OneAtWork'
  BY <1>4, AccountHas DEF OneAtWork
<1>7. \A b \in Approvers : DecisionFits(b)'
  <2> TAKE b \in Approvers
  <2>1. CASE b = a
    <3>1. n.at = "undo" => n.id \in Logins /\ login[n.id] = "live"
      BY AccountHas DEF DecisionFits
    <3> QED
      BY <1>1, <2>1, <3>1 DEF DecisionFits
  <2>2. CASE b # a
    BY <1>1, <2>2, AccountHas DEF DecisionFits
  <2> QED
    BY <2>1, <2>2
<1>8. \A q \in Applications : ClaimFits(q)'
  BY AccountHas DEF ClaimFits
<1>9. \A q \in Applications : OwnerFits(q)'
  <2> TAKE q \in Applications
  <2>1. CASE q = r
    <3>1. ASSUME verdict = "approved", r \notin unheard', NEW b \in Approvers
          PROVE  deciding'[b].id # created[r]
      <4>1. n.at = "none" /\ n.id = NoLogin
        BY <3>1
      <4> QED
        BY <1>1, <3>1, <4>1, AccountHas DEF OneAtWork
    <3> QED
      BY <1>2, <2>1, <3>1 DEF OwnerFits
  <2>2. CASE q # r
    BY <1>2, <1>4, <2>2, AccountHas DEF OwnerFits
  <2> QED
    BY <2>1, <2>2
<1> QED
  BY <1>3, <1>5, <1>6, <1>7, <1>8, <1>9 DEF AccountInv

\* A request is approved, or is found decided, and its login undone; a request is
\* rejected, or found decided.
LEMMA DecideInv ==
  ASSUME AccountInv, NEW a \in Approvers,
         (\E answered \in BOOLEAN : DecideApproved(a, answered)) \/ DecideRejected(a)
  PROVE  AccountInv'
<1> DEFINE r == deciding[a].item
<1>0. deciding[a] \in Decision /\ DecisionFits(a)
  BY AccountHas
<1>1. ASSUME NEW answered \in BOOLEAN, DecideApproved(a, answered)
      PROVE  AccountInv'
  <2>0. deciding[a].at = "decide"
    BY <1>1 DEF DecideApproved
  <2>1. r \in Applications /\ created[r] = deciding[a].id /\ deciding[a].id # NoLogin
    BY <1>0, <2>0, AccountAssumption DEF DecisionFits
  <2>2. UNCHANGED <<created, login, profile, mislaid, told>>
    BY <1>1 DEF DecideApproved, people
  <2>3. PICK n \in Decision :
          /\ deciding' = [deciding EXCEPT ![a] = n]
          /\ \/ n.at = "none" /\ n.id = NoLogin /\ EndDecision(a)
             \/ /\ n.at = "undo" /\ n.id = deciding[a].id /\ n.item \in Applications
                /\ DecisionAt(a, "undo")
    <3>1. EndDecision(a) \/ DecisionAt(a, "undo")
      BY <1>1 DEF DecideApproved
    <3>2. EndDecision(a) => \E n \in Decision : /\ deciding' = [deciding EXCEPT ![a] = n]
                                                /\ n.at = "none" /\ n.id = NoLogin
      BY DecisionGoes DEF DecidingAt
    <3>3. DecisionAt(a, "undo") => \E n \in Decision :
              /\ deciding' = [deciding EXCEPT ![a] = n]
              /\ n.at = "undo" /\ n.item = r /\ n.id = deciding[a].id
      BY DecisionGoes DEF DecidingAt
    <3> QED
      BY <2>1, <3>1, <3>2, <3>3
  <2> HIDE DEF r
  <2>4. CASE queued[r] = "pending" /\ TakesApproval(r)
    <3>0. application[r] = "pending" /\ DecideBoth(r, "approved")
      BY <1>1, <2>4 DEF DecideApproved, TakesApproval, r
    <3>1. \/ EndDecision(a) /\ unheard' = unheard
          \/ unheard' = unheard \cup {r}
      BY <1>1, <2>4 DEF DecideApproved, r
    <3>2. (n.at = "none" /\ n.id = NoLogin) \/ (r \in unheard' /\ n.at = "undo")
      <4>1. EndDecision(a) => deciding'[a].at = "none" /\ deciding'[a].id = NoLogin
        BY AccountHas DEF EndDecision, NotDeciding
      <4>2. deciding'[a] = n
        BY <2>3, AccountHas
      <4> QED
        BY <2>3, <3>1, <4>1, <4>2
    <3>3. unheard' \subseteq Applications /\ unheard \subseteq unheard'
      BY <2>1, <3>1, AccountHas
    <3>4. \A q \in Applications : q # r => (q \in unheard' <=> q \in unheard)
      BY <3>1
    <3> QED
      BY <2>1, <2>2, <2>3, <3>0, <3>2, <3>3, <3>4, VerdictInv
  <2>5. CASE ~(queued[r] = "pending" /\ TakesApproval(r))
    <3>1. DecisionAt(a, "undo") /\ UNCHANGED <<application, queued, unheard>>
      BY <1>1, <2>5 DEF DecideApproved, r
    <3>2. StepFails(a)
      BY <2>0, <2>2, <3>1 DEF StepFails, applicationRows, people
    <3> QED
      BY <3>2, HandlerInv
  <2> QED
    BY <2>4, <2>5
<1>2. CASE DecideRejected(a)
  <2>0. deciding[a].at = "reject" /\ EndDecision(a)
    BY <1>2 DEF DecideRejected
  <2>1. r \in Applications /\ deciding[a].id = NoLogin
    BY <1>0, <2>0 DEF DecisionFits
  <2>2. UNCHANGED <<created, login, profile, mislaid, told, unheard>>
    BY <1>2 DEF DecideRejected, people, fates
  <2>3. PICK n \in Decision : /\ deciding' = [deciding EXCEPT ![a] = n]
                              /\ n.at = "none" /\ n.id = NoLogin
    BY <2>0, DecisionGoes DEF DecidingAt
  <2>4. unheard' \subseteq Applications /\ told' \subseteq Logins /\ mislaid' \subseteq Logins
    BY <2>2, AccountHas
  <2> HIDE DEF r
  <2>5. CASE queued[r] = "pending" /\ TakesRejection(r)
    <3>1. application[r] = "pending" /\ created[r] = NoLogin /\ DecideBoth(r, "rejected")
      BY <1>2, <2>5 DEF DecideRejected, TakesRejection, r
    <3> QED
      BY <2>1, <2>2, <2>3, <2>4, <3>1, VerdictInv
  <2>6. CASE ~(queued[r] = "pending" /\ TakesRejection(r))
    <3>1. UNCHANGED <<application, queued>>
      BY <1>2, <2>6 DEF DecideRejected, r
    <3> QED
      BY <2>1, <2>2, <2>3, <2>4, <3>1, HandlerMoves
  <2> QED
    BY <2>5, <2>6
<1> QED
  BY <1>1, <1>2

\* A profile is taken back with every claim on it.
LEMMA UndoInv ==
  ASSUME AccountInv, NEW a \in Approvers, NEW answered \in BOOLEAN, UndoProfile(a, answered)
  PROVE  AccountInv'
<1> DEFINE i == deciding[a].id
<1>0. deciding[a] \in Decision /\ DecisionFits(a) /\ deciding[a].at = "undo"
  BY AccountHas DEF UndoProfile
<1>1. i \in Logins /\ login[i] = "live" /\ deciding[a].item \in Applications /\ i # NoLogin
  BY <1>0, AccountAssumption DEF DecisionFits
<1>2. /\ UNCHANGED <<application, queued, login, mislaid, unheard>>
      /\ created' = Release(i) /\ profile' = [profile EXCEPT ![i] = "none"]
  BY DEF UndoProfile
<1>3. PICK n \in Decision :
        /\ deciding' = [deciding EXCEPT ![a] = n]
        /\ \/ n.at = "remove" /\ n.id = i /\ n.item \in Applications /\ told' = told
           \/ n.at = "none" /\ n.id = NoLogin /\ told' = told \cup {i}
  <2>1. \/ DecisionAt(a, "remove") /\ told' = told
        \/ EndDecision(a) /\ told' = told \cup {i}
    BY DEF UndoProfile
  <2>2. EndDecision(a) => \E n \in Decision : /\ deciding' = [deciding EXCEPT ![a] = n]
                                              /\ n.at = "none" /\ n.id = NoLogin
    BY DecisionGoes DEF DecidingAt
  <2>3. DecisionAt(a, "remove") => \E n \in Decision :
              /\ deciding' = [deciding EXCEPT ![a] = n]
              /\ n.at = "remove" /\ n.item = deciding[a].item /\ n.id = i
    BY DecisionGoes DEF DecidingAt
  <2> QED
    BY <1>1, <2>1, <2>2, <2>3
<1> HIDE DEF i
<1>4. /\ deciding' \in [Approvers -> Decision] /\ deciding'[a] = n
      /\ \A b \in Approvers \ {a} : deciding'[b] = deciding[b]
  BY <1>3, AccountHas
<1>5. /\ created' \in [Applications -> Logins \cup {NoLogin}]
      /\ \A q \in Applications : /\ created[q] # i => created'[q] = created[q]
                                 /\ created[q] = i => created'[q] = NoLogin
  BY <1>2, AccountHas DEF Release
<1>6. /\ profile' \in [Logins -> ProfileStates]
      /\ \A j \in Logins \ {i} : profile'[j] = profile[j]
  BY <1>1, <1>2, AccountHas DEF ProfileStates
<1>7. told \subseteq told' /\ told' \subseteq Logins
  BY <1>1, <1>3, AccountHas
<1>8. AccountTypeOK'
  BY <1>2, <1>4, <1>5, <1>6, <1>7, AccountHas DEF AccountTypeOK, Decision
<1>9. NoStrayLogin'
  <2> SUFFICES ASSUME NEW j \in Live
               PROVE  \/ \E q \in Applications : application[q] = "approved" /\ created'[q] = j
                      \/ \E b \in Approvers : deciding'[b].id = j
                      \/ j \in told' \cup mislaid'
    BY <1>2 DEF NoStrayLogin, Live
  <2>1. CASE j = i
    BY <1>3, <1>4, <2>1
  <2>2. CASE j # i
    <3>1. \/ \E q \in Applications : application[q] = "approved" /\ created[q] = j
          \/ \E b \in Approvers : deciding[b].id = j
          \/ j \in told \cup mislaid
      BY AccountHas DEF NoStrayLogin
    <3>2. ASSUME NEW q \in Applications, created[q] = j
          PROVE  created'[q] = j
      BY <1>5, <2>2, <3>2
    <3>3. ASSUME NEW b \in Approvers, deciding[b].id = j
          PROVE  deciding'[b].id = j
      <4>1. b # a
        BY <2>2, <3>3 DEF i
      <4> QED
        BY <1>4, <3>3, <4>1
    <3> QED
      BY <1>2, <1>7, <3>1, <3>2, <3>3
  <2> QED
    BY <2>1, <2>2
<1>10. \A b \in Approvers : deciding'[b].id \in {deciding[b].id, NoLogin}
  BY <1>3, <1>4 DEF i
<1>11. OneAtWork'
  BY <1>10, AccountHas DEF OneAtWork
<1>12. \A b \in Approvers : DecisionFits(b)'
  <2> TAKE b \in Approvers
  <2>1. CASE b = a
    <3>1. \A q \in Applications : created'[q] # i
      BY <1>1, <1>5
    <3> QED
      BY <1>1, <1>2, <1>3, <1>4, <2>1, <3>1 DEF DecisionFits
  <2>2. CASE b # a
    <3>1. deciding'[b] = deciding[b] /\ DecisionFits(b)
      BY <1>4, <2>2, AccountHas
    <3>2. deciding[b].id # NoLogin => deciding[b].id # i
      BY <2>2, AccountHas DEF OneAtWork, i
    <3> QED
      BY <1>2, <1>5, <3>1, <3>2, AccountAssumption DEF DecisionFits
  <2> QED
    BY <2>1, <2>2
<1>13. \A q \in Applications : ClaimFits(q)'
  <2> TAKE q \in Applications
  <2>1. created[q] \in Logins \cup {NoLogin} /\ ClaimFits(q)
    BY AccountHas
  <2> QED
    BY <1>2, <1>5, <1>6, <2>1 DEF ClaimFits
<1>14. \A q \in Applications : OwnerFits(q)'
  <2> TAKE q \in Applications
  <2>1. OwnerFits(q)
    BY AccountHas
  <2>2. CASE application[q] = "approved" /\ q \notin unheard
    <3>1. created[q] # NoLogin /\ \A b \in Approvers : deciding[b].id # created[q]
      BY <2>1, <2>2 DEF OwnerFits
    <3>2. created'[q] = created[q]
      BY <1>5, <3>1 DEF i
    <3> QED
      BY <1>2, <1>10, <2>2, <3>1, <3>2 DEF OwnerFits
  <2>3. CASE ~(application[q] = "approved" /\ q \notin unheard)
    BY <1>2, <1>5, <2>1, <2>3 DEF OwnerFits
  <2> QED
    BY <2>2, <2>3
<1> QED
  BY <1>8, <1>9, <1>11, <1>12, <1>13, <1>14 DEF AccountInv

\* A login nobody owns is removed.
LEMMA RemoveInv ==
  ASSUME AccountInv, NEW a \in Approvers, NEW answered \in BOOLEAN, RemoveLogin(a, answered)
  PROVE  AccountInv'
<1> DEFINE i == deciding[a].id
<1>0. deciding[a] \in Decision /\ DecisionFits(a) /\ deciding[a].at = "remove"
  BY AccountHas DEF RemoveLogin
<1>1. i \in Logins /\ i # NoLogin /\ \A q \in Applications : created[q] # i
  BY <1>0, AccountAssumption DEF DecisionFits
<1>2. /\ UNCHANGED <<application, queued, created, profile, mislaid, unheard>>
      /\ login' = [login EXCEPT ![i] = "deleted"] /\ EndDecision(a)
      /\ told' \in {told, told \cup {i}}
  BY DEF RemoveLogin, applicationRows
<1>3. PICK n \in Decision : /\ deciding' = [deciding EXCEPT ![a] = n]
                            /\ n.at = "none" /\ n.id = NoLogin
  BY <1>2, DecisionGoes DEF DecidingAt
<1> HIDE DEF i
<1>4. /\ deciding' \in [Approvers -> Decision] /\ deciding'[a] = n
      /\ \A b \in Approvers \ {a} : deciding'[b] = deciding[b]
  BY <1>3, AccountHas
<1>5. /\ login' \in [Logins -> LoginStates] /\ login'[i] = "deleted"
      /\ \A j \in Logins \ {i} : login'[j] = login[j]
  BY <1>1, <1>2, AccountHas DEF LoginStates
<1>6. told \subseteq told' /\ told' \subseteq Logins
  BY <1>1, <1>2, AccountHas
<1>7. AccountTypeOK'
  BY <1>2, <1>4, <1>5, <1>6, AccountHas DEF AccountTypeOK, Decision
<1>8. NoStrayLogin'
  <2> SUFFICES ASSUME NEW j \in Logins, login'[j] = "live"
               PROVE  \/ \E q \in Applications : application[q] = "approved" /\ created[q] = j
                      \/ \E b \in Approvers : deciding'[b].id = j
                      \/ j \in told' \cup mislaid
    BY <1>2 DEF NoStrayLogin, Live
  <2>1. j # i /\ j \in Live
    BY <1>5 DEF Live
  <2>2. ASSUME NEW b \in Approvers, deciding[b].id = j
        PROVE  deciding'[b].id = j
    <3>1. b # a
      BY <2>1, <2>2 DEF i
    <3> QED
      BY <1>4, <2>2, <3>1
  <2>3. \/ \E q \in Applications : application[q] = "approved" /\ created[q] = j
        \/ \E b \in Approvers : deciding[b].id = j
        \/ j \in told \cup mislaid
    BY <2>1, AccountHas DEF NoStrayLogin
  <2> QED
    BY <1>6, <2>2, <2>3
<1>9. \A b \in Approvers : deciding'[b].id \in {deciding[b].id, NoLogin}
  BY <1>3, <1>4
<1>10. OneAtWork'
  BY <1>9, AccountHas DEF OneAtWork
<1>11. \A b \in Approvers : DecisionFits(b)'
  <2> TAKE b \in Approvers
  <2>1. CASE b = a
    BY <1>3, <1>4, <2>1 DEF DecisionFits
  <2>2. CASE b # a
    <3>1. deciding'[b] = deciding[b] /\ DecisionFits(b)
      BY <1>4, <2>2, AccountHas
    <3>2. deciding[b].id # NoLogin => deciding[b].id # i
      BY <2>2, AccountHas DEF OneAtWork, i
    <3> QED
      BY <1>2, <1>5, <3>1, <3>2, AccountAssumption DEF DecisionFits
  <2> QED
    BY <2>1, <2>2
<1>12. \A q \in Applications : ClaimFits(q)'
  <2> TAKE q \in Applications
  <2>1. created[q] \in Logins \cup {NoLogin} /\ ClaimFits(q) /\ created[q] # i
    BY <1>1, AccountHas
  <2> QED
    BY <1>2, <1>5, <2>1 DEF ClaimFits
<1>13. \A q \in Applications : OwnerFits(q)'
  BY <1>2, <1>9, AccountHas DEF OwnerFits
<1> QED
  BY <1>7, <1>8, <1>10, <1>11, <1>12, <1>13 DEF AccountInv

\* Every step keeps the invariant.
LEMMA AccountStep ==
  ASSUME AccountInv, [AccountNext]_accountVars
  PROVE  AccountInv'
<1>1. CASE \E r \in Applications : SubmitRequest(r)
  BY <1>1, SubmitInv
<1>2. ASSUME NEW a \in Approvers, NEW i \in Logins, NEW answered \in BOOLEAN,
             ProviderCreates(a, i, answered)
      PROVE  AccountInv'
  BY <1>2, CreatesInv
<1>3. ASSUME NEW a \in Approvers, NEW answered \in BOOLEAN,
             \/ Claim(a, answered) \/ DecideApproved(a, answered)
             \/ UndoProfile(a, answered) \/ RemoveLogin(a, answered)
      PROVE  AccountInv'
  BY <1>3, ClaimInv, DecideInv, UndoInv, RemoveInv
<1>4. ASSUME NEW a \in Approvers,
             \/ \E r \in Applications : BeginApproval(a, r) \/ BeginRejection(a, r)
             \/ ProviderRefuses(a) \/ StepFails(a) \/ ApproverDies(a)
      PROVE  AccountInv'
  BY <1>4, HandlerInv
<1>5. ASSUME NEW a \in Approvers, DecideRejected(a)
      PROVE  AccountInv'
  BY <1>5, DecideInv
<1>6. CASE UNCHANGED accountVars
  BY <1>6 DEF accountVars, AccountInv, AccountTypeOK, NoStrayLogin, Live, OneAtWork, DecisionFits,
              ClaimFits, OwnerFits
<1> QED
  BY <1>1, <1>2, <1>3, <1>4, <1>5, <1>6 DEF AccountNext

\* The invariant holds at first.
LEMMA AccountInitInv == AccountInit => AccountInv
<1> SUFFICES ASSUME AccountInit PROVE AccountInv
  OBVIOUS
<1>1. NotDeciding \in Decision /\ NotDeciding.at = "none" /\ NotDeciding.id = NoLogin
  BY DEF NotDeciding, Decision, DecidingAt
<1>2. \A a \in Approvers : deciding[a] = NotDeciding
  BY DEF AccountInit
<1>3. deciding \in [Approvers -> Decision]
  BY <1>1 DEF AccountInit
<1>4. AccountTypeOK
  BY <1>3 DEF AccountInit, AccountTypeOK, RequestStates, LoginStates, ProfileStates, Decision
<1>5. NoStrayLogin
  BY DEF AccountInit, NoStrayLogin, Live
<1>6. OneAtWork /\ \A a \in Approvers : DecisionFits(a)
  BY <1>1, <1>2 DEF OneAtWork, DecisionFits
<1>7. \A r \in Applications : ClaimFits(r) /\ OwnerFits(r)
  BY DEF AccountInit, ClaimFits, OwnerFits
<1> QED
  BY <1>4, <1>5, <1>6, <1>7 DEF AccountInv

\* Whoever rejected, crashed, was undone or never heard, an approved request has
\* its live and active login, a rejected one has none, and a login no approved
\* request owns is at work, told of, or lost with an answer or a process.
THEOREM AccountKeepsPromises == AccountSpec => []AccountPromises
<1>1. AccountInv => AccountPromises
  <2> SUFFICES ASSUME AccountInv PROVE AccountPromises
    OBVIOUS
  <2>1. ApprovedHasLogin
    <3> SUFFICES ASSUME NEW r \in Applications, application[r] = "approved", r \notin unheard
                 PROVE  \E i \in Logins : /\ created[r] = i /\ login[i] = "live"
                                          /\ profile[i] = "active"
      BY DEF ApprovedHasLogin
    <3>1. created[r] # NoLogin /\ created[r] \in Logins \cup {NoLogin}
      BY AccountHas DEF OwnerFits
    <3>2. login[created[r]] = "live" /\ profile[created[r]] = "active"
      BY <3>1, AccountHas DEF ClaimFits
    <3> QED
      BY <3>1, <3>2
  <2>2. RejectedHasNoLogin
    BY AccountHas DEF RejectedHasNoLogin, OwnerFits
  <2> QED
    BY <2>1, <2>2 DEF AccountPromises, AccountInv
<1> QED
  BY <1>1, AccountInitInv, AccountStep, PTL DEF AccountSpec
-----------------------------------------------------------------------------
(***************************************************************************)
(* Grading scales (GradingScales).  What the requests found has to be      *)
(* carried along with them: a scale locked to become the default stays     *)
(* active, whoever switches off what became a default meanwhile crosses    *)
(* it, and whatever names a scale about to be deleted was named late.      *)
(***************************************************************************)
Request == [at : {"none", "default", "switch", "delete", "name"},
            scale : Scales \cup {NoScale}, other : Scales \cup {NoScale},
            what : {"none", "on", "off", "off and clear"} \cup Graded]

ScaleRec == [there : {"unborn", "there", "gone"}, on : BOOLEAN, default : BOOLEAN]

\* What a request about a scale knows.
RequestFits(a) ==
  LET q == asked[a]
  IN /\ q.at # "none" => q.scale \in Scales
     /\ q.at = "default" =>
          /\ There(q.scale) /\ scale[q.scale].on
          /\ q.other # NoScale => q.other # q.scale /\ ScaleKind[q.other] = ScaleKind[q.scale]
     /\ q.at = "switch" => q.what \in {"on", "off", "off and clear"}
     /\ q.at = "switch" /\ q.what = "off" /\ scale[q.scale].default => q.scale \in crossed
     /\ q.at = "delete" => \A g \in Naming(q.scale) : g \in lateNamed
     /\ q.at = "name" => q.what \in Graded /\ ScaleKind[q.scale] = GradedKind[q.what]

\* Two defaults are of two kinds.
DefaultsDiffer ==
  \A s, t \in Scales :
    scale[s].default /\ scale[t].default /\ ScaleKind[s] = ScaleKind[t] => s = t

GradingInv ==
  /\ GradingTypeOK /\ DefaultsDiffer /\ DefaultIsActive /\ NamedGrades
  /\ \A a \in Admins : RequestFits(a)

\* What the proofs of the steps start from.
LEMMA GradingHas ==
  GradingInv =>
    /\ scale \in [Scales -> ScaleRec] /\ named \in [Graded -> Scales \cup {NoScale}]
    /\ asked \in [Admins -> Request]
    /\ crossed \subseteq Scales /\ lateNamed \subseteq Graded
    /\ DefaultsDiffer /\ DefaultIsActive /\ NamedGrades
    /\ \A a \in Admins : RequestFits(a)
BY DEF GradingInv, GradingTypeOK, ScaleRec, Request

\* A request's row changes; a request without one knows nothing.
LEMMA AskedIs ==
  ASSUME GradingInv, NEW a \in Admins, NEW n \in Request, asked' = [asked EXCEPT ![a] = n]
  PROVE  /\ asked' \in [Admins -> Request] /\ asked'[a] = n
         /\ \A b \in Admins : b # a => asked'[b] = asked[b]
BY GradingHas

\* A request that is none.
LEMMA NotAskedIs ==
  NotAsked \in Request /\ NotAsked.at = "none"
BY DEF NotAsked, Request

\* A request learns something, or is refused, and nothing else moves.
LEMMA AsksInv ==
  ASSUME GradingInv, NEW a \in Admins, NEW n \in Request, asked' = [asked EXCEPT ![a] = n],
         UNCHANGED <<scale, named, crossed, lateNamed>>,
         n.at # "none" => n.scale \in Scales,
         n.at = "default" =>
           /\ There(n.scale) /\ scale[n.scale].on
           /\ n.other # NoScale => n.other # n.scale /\ ScaleKind[n.other] = ScaleKind[n.scale],
         n.at = "switch" => n.what \in {"on", "off", "off and clear"},
         n.at = "switch" /\ n.what = "off" => ~scale[n.scale].default,
         n.at = "delete" => Naming(n.scale) = {},
         n.at = "name" => n.what \in Graded /\ ScaleKind[n.scale] = GradedKind[n.what]
  PROVE  GradingInv'
<1>1. /\ asked' \in [Admins -> Request] /\ asked'[a] = n
      /\ \A b \in Admins : b # a => asked'[b] = asked[b]
  BY AskedIs
<1>2. GradingTypeOK'
  BY <1>1, GradingHas DEF GradingTypeOK, ScaleRec, Request
<1>3. DefaultsDiffer' /\ DefaultIsActive' /\ NamedGrades'
  BY GradingHas DEF DefaultsDiffer, DefaultIsActive, NamedGrades, There
<1>4. \A b \in Admins : RequestFits(b)'
  <2> TAKE b \in Admins
  <2>1. CASE b = a
    BY <1>1, <2>1 DEF RequestFits, Naming, There
  <2>2. CASE b # a
    BY <1>1, <2>2, GradingHas DEF RequestFits, Naming, There
  <2> QED
    BY <2>1, <2>2
<1> QED
  BY <1>2, <1>3, <1>4 DEF GradingInv

\* What a request knows stays true when what it rests on does.
LEMMA RequestStays ==
  ASSUME NEW b \in Admins, RequestFits(b), asked'[b] = asked[b],
         asked[b].at = "default" => scale'[asked[b].scale].there = "there"
                                    /\ scale'[asked[b].scale].on,
         asked[b].at = "switch" /\ asked[b].what = "off" /\ scale'[asked[b].scale].default
           => asked[b].scale \in crossed',
         asked[b].at = "delete" => \A g \in Graded : named'[g] = asked[b].scale => g \in lateNamed'
  PROVE  RequestFits(b)'
<1>1. asked[b].at = "default" =>
        /\ There(asked[b].scale)' /\ scale'[asked[b].scale].on
        /\ asked[b].other # NoScale => /\ asked[b].other # asked[b].scale
                                       /\ ScaleKind[asked[b].other] = ScaleKind[asked[b].scale]
  BY DEF RequestFits, There
<1>2. asked[b].at = "delete" => \A g \in Naming(asked[b].scale)' : g \in lateNamed'
  BY DEF Naming
<1>3. /\ asked[b].at # "none" => asked[b].scale \in Scales
      /\ asked[b].at = "switch" => asked[b].what \in {"on", "off", "off and clear"}
      /\ asked[b].at = "name" => /\ asked[b].what \in Graded
                                 /\ ScaleKind[asked[b].scale] = GradedKind[asked[b].what]
  BY DEF RequestFits
<1> QED
  BY <1>1, <1>2, <1>3 DEF RequestFits

\* Requests begin, and fail.
LEMMA BeginsInv ==
  ASSUME GradingInv, NEW a \in Admins,
         \/ \E s \in Scales :
              \/ BeginDefault(a, s) \/ BeginDeleteScale(a, s)
              \/ \E what \in {"on", "off"} : BeginSwitch(a, s, what)
              \/ \E g \in Graded : BeginNaming(a, g, s)
         \/ DefaultRefused(a) \/ GradingFails(a)
  PROVE  GradingInv'
<1>1. ASSUME NEW s \in Scales, BeginDefault(a, s)
      PROVE  GradingInv'
  <2> DEFINE o == OtherDefault(s)
             n == [at |-> "default", scale |-> s, other |-> o, what |-> "none"]
  <2>1. o = NoScale \/ (o \in DefaultsOf(ScaleKind[s]) /\ o # s)
    BY DEF OtherDefault
  <2>2. o \in Scales \cup {NoScale} /\ (o # NoScale => o # s /\ ScaleKind[o] = ScaleKind[s])
    BY <2>1 DEF DefaultsOf
  <2>3. asked' = [asked EXCEPT ![a] = n] /\ UNCHANGED <<scale, named, crossed, lateNamed>>
    BY <1>1 DEF BeginDefault, Ask
  <2>4. There(s) /\ scale[s].on
    BY <1>1 DEF BeginDefault, MayDefault
  <2> HIDE DEF o
  <2>5. n \in Request /\ n.at = "default" /\ n.scale = s /\ n.other = o /\ n.what = "none"
    BY <2>2 DEF Request
  <2> HIDE DEF n
  <2> QED
    BY <2>2, <2>3, <2>4, <2>5, AsksInv
<1>2. ASSUME NEW s \in Scales, BeginDeleteScale(a, s)
      PROVE  GradingInv'
  <2> DEFINE n == [at |-> "delete", scale |-> s, other |-> NoScale, what |-> "none"]
  <2>1. asked' = [asked EXCEPT ![a] = n] /\ UNCHANGED <<scale, named, crossed, lateNamed>>
    BY <1>2 DEF BeginDeleteScale, Ask
  <2>2. Naming(s) = {}
    BY <1>2 DEF BeginDeleteScale, Unused
  <2>3. n \in Request /\ n.at = "delete" /\ n.scale = s
    BY DEF Request
  <2> HIDE DEF n
  <2> QED
    BY <2>1, <2>2, <2>3, AsksInv
<1>3. ASSUME NEW s \in Scales, NEW what \in {"on", "off"}, BeginSwitch(a, s, what)
      PROVE  GradingInv'
  <2> DEFINE w == IF what = "off" /\ scale[s].default THEN "off and clear" ELSE what
             n == [at |-> "switch", scale |-> s, other |-> NoScale, what |-> w]
  <2>1. asked' = [asked EXCEPT ![a] = n] /\ UNCHANGED <<scale, named, crossed, lateNamed>>
    BY <1>3 DEF BeginSwitch, Ask
  <2>2. w \in {"on", "off", "off and clear"} /\ (w = "off" => ~scale[s].default)
    OBVIOUS
  <2> HIDE DEF w
  <2>3. n \in Request /\ n.at = "switch" /\ n.scale = s /\ n.what = w
    BY <2>2 DEF Request
  <2> HIDE DEF n
  <2> QED
    BY <2>1, <2>2, <2>3, AsksInv
<1>4. ASSUME NEW s \in Scales, NEW g \in Graded, BeginNaming(a, g, s)
      PROVE  GradingInv'
  <2> DEFINE n == [at |-> "name", scale |-> s, other |-> NoScale, what |-> g]
  <2>1. asked' = [asked EXCEPT ![a] = n] /\ UNCHANGED <<scale, named, crossed, lateNamed>>
    BY <1>4 DEF BeginNaming, Ask
  <2>2. ScaleKind[s] = GradedKind[g]
    BY <1>4 DEF BeginNaming
  <2>3. n \in Request /\ n.at = "name" /\ n.scale = s /\ n.what = g
    BY DEF Request
  <2> HIDE DEF n
  <2> QED
    BY <2>1, <2>2, <2>3, AsksInv
<1>5. CASE DefaultRefused(a) \/ GradingFails(a)
  BY <1>5, NotAskedIs, AsksInv DEF DefaultRefused, GradingFails, Answered
<1> QED
  BY <1>1, <1>2, <1>3, <1>4, <1>5

\* A scale is made the default of its kind: the one before it is none.
LEMMA CommitDefaultInv ==
  ASSUME GradingInv, NEW a \in Admins, CommitDefault(a)
  PROVE  GradingInv'
<1> DEFINE s == asked[a].scale
           o == asked[a].other
<1>1. /\ asked[a].at = "default" /\ IndexAllows(a) /\ scale' = AfterDefault(s, o)
      /\ UNCHANGED <<named, lateNamed>>
      /\ asked' = [asked EXCEPT ![a] = NotAsked]
      /\ crossed' = (IF SwitchingOff(s) THEN crossed \cup {s} ELSE crossed)
  BY DEF CommitDefault, Asks, Answered
<1>3. s \in Scales /\ There(s) /\ scale[s].on /\ o # s
  BY <1>1, GradingHas, GradingAssumption DEF RequestFits
<1>4. DefaultsOf(ScaleKind[s]) \subseteq {s, o}
  BY <1>1 DEF IndexAllows
<1>5. /\ asked' \in [Admins -> Request] /\ asked'[a].at = "none"
      /\ \A b \in Admins : b # a => asked'[b] = asked[b]
  BY <1>1, NotAskedIs, AskedIs
<1>6. ASSUME NEW x \in Scales
      PROVE  /\ scale'[x] \in ScaleRec /\ scale'[x].there = scale[x].there
             /\ scale'[x].on = scale[x].on
             /\ scale'[x].default = ((x = s) \/ (scale[x].default /\ x # o))
  <2> DEFINE d == (x = s) \/ (scale[x].default /\ x # o)
             n == [scale[x] EXCEPT !.default = d]
  <2>1. scale'[x] = n
    BY <1>1 DEF AfterDefault
  <2>2. scale[x] \in ScaleRec /\ d \in BOOLEAN
    BY GradingHas DEF ScaleRec
  <2> HIDE DEF d
  <2>3. n \in ScaleRec /\ n.there = scale[x].there /\ n.on = scale[x].on /\ n.default = d
    BY <2>2 DEF ScaleRec
  <2> HIDE DEF n
  <2> QED
    BY <2>1, <2>3 DEF d
<1>7. scale' \in [Scales -> ScaleRec]
  <2>1. scale' = [x \in Scales |-> scale'[x]]
    BY <1>1 DEF AfterDefault
  <2> QED
    BY <1>6, <2>1
<1>8. crossed \subseteq crossed' /\ crossed' \subseteq Scales /\ (SwitchingOff(s) => s \in crossed')
  BY <1>1, <1>3, GradingHas
<1> HIDE DEF s, o
<1>9. GradingTypeOK'
  BY <1>1, <1>5, <1>7, <1>8, GradingHas DEF GradingTypeOK, ScaleRec, Request
<1>10. \A x \in Scales : There(x)' <=> There(x)
  BY <1>6 DEF There
<1>11. \A x \in Scales : scale'[x].default => x = s \/ (scale[x].default /\ x # o)
  BY <1>6
<1>12. \A x \in Scales : scale'[x].default /\ ScaleKind[x] = ScaleKind[s] => x = s
  BY <1>4, <1>11 DEF DefaultsOf
<1>13. DefaultsDiffer'
  BY <1>11, <1>12, GradingHas DEF DefaultsDiffer
<1>14. DefaultIsActive'
  BY <1>3, <1>6, <1>8, <1>10, <1>11, GradingHas DEF DefaultIsActive
<1>15. NamedGrades'
  BY <1>1, <1>10, GradingHas DEF NamedGrades
<1>16. \A b \in Admins : RequestFits(b)'
  <2> TAKE b \in Admins
  <2>1. CASE b = a
    BY <1>5, <2>1 DEF RequestFits
  <2>2. CASE b # a
    <3>1. asked'[b] = asked[b] /\ RequestFits(b)
      BY <1>5, <2>2, GradingHas
    <3>2. asked[b].at = "switch" /\ asked[b].what = "off" /\ scale'[asked[b].scale].default
            => asked[b].scale \in crossed'
      <4> SUFFICES ASSUME asked[b].at = "switch", asked[b].what = "off",
                          scale'[asked[b].scale].default
                   PROVE  asked[b].scale \in crossed'
        OBVIOUS
      <4>1. asked[b].scale \in Scales
        BY <3>1 DEF RequestFits
      <4>2. CASE asked[b].scale = s
        BY <1>8, <4>2 DEF SwitchingOff, Asks
      <4>3. CASE asked[b].scale # s
        BY <1>8, <1>11, <3>1, <4>1, <4>3 DEF RequestFits
      <4> QED
        BY <4>2, <4>3
    <3>3. Naming(asked[b].scale)' = Naming(asked[b].scale)
      BY <1>1, <3>1 DEF Naming
    <3> QED
      BY <1>1, <1>6, <1>10, <3>1, <3>2, <3>3 DEF RequestFits
  <2> QED
    BY <2>1, <2>2
<1> QED
  BY <1>9, <1>13, <1>14, <1>15, <1>16 DEF GradingInv

\* A scale is switched on or off.
LEMMA CommitSwitchInv ==
  ASSUME GradingInv, NEW a \in Admins, CommitSwitch(a)
  PROVE  GradingInv'
<1> DEFINE s == asked[a].scale
           what == asked[a].what
<1>1. /\ asked[a].at = "switch" /\ s \notin Held
      /\ scale' = (IF There(s) THEN Switched(s, what) ELSE scale)
      /\ UNCHANGED <<named, crossed, lateNamed>>
      /\ asked' = [asked EXCEPT ![a] = NotAsked]
  BY DEF CommitSwitch, Asks, Answered
<1>2. s \in Scales
  BY <1>1, GradingHas DEF RequestFits
<1>3. /\ asked' \in [Admins -> Request] /\ asked'[a].at = "none"
      /\ \A b \in Admins : b # a => asked'[b] = asked[b]
  BY <1>1, NotAskedIs, AskedIs
<1>4. PICK n \in ScaleRec :
        /\ scale' = [scale EXCEPT ![s] = n]
        /\ n.there = scale[s].there
        /\ \/ n = scale[s]
           \/ /\ n.default => scale[s].default /\ what # "off and clear"
              /\ n.on = (what = "on")
  <2> DEFINE on == what = "on"
             d == scale[s].default /\ what # "off and clear"
             n == [scale[s] EXCEPT !.on = on, !.default = d]
  <2>1. CASE There(s)
    <3>1. scale' = [scale EXCEPT ![s] = n]
      BY <1>1, <1>2, <2>1, GradingHas DEF Switched
    <3>2. on \in BOOLEAN /\ d \in BOOLEAN /\ scale[s] \in ScaleRec
      BY <1>2, GradingHas DEF ScaleRec
    <3> HIDE DEF on, d
    <3>3. n \in ScaleRec /\ n.there = scale[s].there /\ n.on = on /\ n.default = d
      BY <3>2 DEF ScaleRec
    <3> HIDE DEF n
    <3> QED
      BY <3>1, <3>3 DEF on, d
  <2>2. CASE ~There(s)
    <3>1. scale' = [scale EXCEPT ![s] = scale[s]]
      BY <1>1, <1>2, <2>2, GradingHas
    <3> QED
      BY <1>2, <3>1, GradingHas
  <2> QED
    BY <2>1, <2>2
<1>5. what \in {"on", "off", "off and clear"}
  BY <1>1, GradingHas DEF RequestFits
<1> HIDE DEF s, what
<1>6. /\ scale' \in [Scales -> ScaleRec] /\ scale'[s] = n
      /\ \A x \in Scales : x # s => scale'[x] = scale[x]
  BY <1>2, <1>4, GradingHas
<1>7. GradingTypeOK'
  BY <1>1, <1>3, <1>6, GradingHas DEF GradingTypeOK, ScaleRec, Request
<1>8. \A x \in Scales : There(x)' <=> There(x)
  BY <1>4, <1>6 DEF There
<1>9. \A x \in Scales : scale'[x].default => scale[x].default
  BY <1>4, <1>6
<1>10. DefaultsDiffer'
  BY <1>9, GradingHas DEF DefaultsDiffer
<1>11. scale'[s].default => scale'[s].on \/ s \in crossed
  <2> SUFFICES ASSUME n.default, n # scale[s] PROVE n.on \/ s \in crossed
    BY <1>2, <1>6, GradingHas DEF DefaultIsActive
  <2>1. scale[s].default /\ what # "off and clear" /\ n.on = (what = "on")
    BY <1>4
  <2>2. what = "off" => s \in crossed
    BY <1>1, <2>1, GradingHas DEF RequestFits, s, what
  <2>3. CASE what = "on"
    BY <2>1, <2>3
  <2> QED
    BY <1>5, <2>1, <2>2, <2>3
<1>12. DefaultIsActive'
  BY <1>1, <1>6, <1>8, <1>9, <1>11, GradingHas DEF DefaultIsActive
<1>13. NamedGrades'
  BY <1>1, <1>8, GradingHas DEF NamedGrades
<1>14. \A b \in Admins : RequestFits(b)'
  <2> TAKE b \in Admins
  <2>1. CASE b = a
    BY <1>3, <2>1 DEF RequestFits
  <2>2. CASE b # a
    <3>1. asked'[b] = asked[b] /\ RequestFits(b)
      BY <1>3, <2>2, GradingHas
    <3>2. asked[b].at = "default" => asked[b].scale # s
      BY <1>1 DEF Held, Asks
    <3>3. asked[b].at = "default" => scale'[asked[b].scale] = scale[asked[b].scale]
      BY <1>6, <3>1, <3>2 DEF RequestFits
    <3>4. asked[b].at = "default" => scale'[asked[b].scale].there = "there"
                                     /\ scale'[asked[b].scale].on
      BY <3>1, <3>3 DEF RequestFits, There
    <3>5. asked[b].at = "switch" /\ asked[b].what = "off" /\ scale'[asked[b].scale].default
            => asked[b].scale \in crossed'
      BY <1>1, <1>9, <3>1 DEF RequestFits
    <3>6. asked[b].at = "delete" => \A g \in Graded : named'[g] = asked[b].scale => g \in lateNamed'
      BY <1>1, <3>1 DEF RequestFits, Naming
    <3> QED
      BY <3>1, <3>4, <3>5, <3>6, RequestStays
  <2> QED
    BY <2>1, <2>2
<1> QED
  BY <1>7, <1>10, <1>12, <1>13, <1>14 DEF GradingInv

\* A scale is deleted: what names it names none.
LEMMA CommitDeleteInv ==
  ASSUME GradingInv, NEW a \in Admins, CommitDeleteScale(a)
  PROVE  GradingInv'
<1> DEFINE s == asked[a].scale
<1>1. /\ asked[a].at = "delete" /\ s \notin Held
      /\ scale' = [scale EXCEPT ![s] = IF There(s) THEN ScaleRow("gone", FALSE, FALSE) ELSE @]
      /\ named' = [g \in Graded |-> IF named[g] = s THEN NoScale ELSE named[g]]
      /\ UNCHANGED <<crossed, lateNamed>>
      /\ asked' = [asked EXCEPT ![a] = NotAsked]
  BY DEF CommitDeleteScale, Asks, Answered
<1>2. s \in Scales
  BY <1>1, GradingHas DEF RequestFits
<1>3. /\ asked' \in [Admins -> Request] /\ asked'[a].at = "none"
      /\ \A b \in Admins : b # a => asked'[b] = asked[b]
  BY <1>1, NotAskedIs, AskedIs
<1>4. /\ scale' \in [Scales -> ScaleRec] /\ scale'[s].there # "there"
      /\ \A x \in Scales : x # s => scale'[x] = scale[x]
      /\ scale'[s].default => scale[s].default /\ ~There(s)
  <2>1. /\ ScaleRow("gone", FALSE, FALSE) \in ScaleRec
        /\ ScaleRow("gone", FALSE, FALSE).there = "gone"
        /\ ~ScaleRow("gone", FALSE, FALSE).default
    BY DEF ScaleRow, ScaleRec
  <2> QED
    BY <1>1, <1>2, <2>1, GradingHas DEF There
<1>5. scale'[s].default => FALSE
  BY <1>2, <1>4, GradingHas DEF DefaultIsActive
<1>6. /\ named' \in [Graded -> Scales \cup {NoScale}]
      /\ \A g \in Graded : named'[g] # NoScale => named'[g] = named[g] /\ named[g] # s
  BY <1>1, GradingHas
<1> HIDE DEF s
<1>7. GradingTypeOK'
  BY <1>1, <1>3, <1>4, <1>6, GradingHas DEF GradingTypeOK, ScaleRec, Request
<1>8. DefaultsDiffer'
  BY <1>4, <1>5, GradingHas DEF DefaultsDiffer
<1>9. DefaultIsActive'
  BY <1>1, <1>4, <1>5, GradingHas DEF DefaultIsActive, There
<1>10. NamedGrades'
  BY <1>4, <1>6, GradingHas DEF NamedGrades, There
<1>11. \A b \in Admins : RequestFits(b)'
  <2> TAKE b \in Admins
  <2>1. CASE b = a
    BY <1>3, <2>1 DEF RequestFits
  <2>2. CASE b # a
    <3>1. asked'[b] = asked[b] /\ RequestFits(b)
      BY <1>3, <2>2, GradingHas
    <3>2. asked[b].at = "default" => asked[b].scale # s
      BY <1>1 DEF Held, Asks
    <3>3. asked[b].at = "default" => scale'[asked[b].scale] = scale[asked[b].scale]
      BY <1>4, <3>1, <3>2 DEF RequestFits
    <3>4. asked[b].at = "default" => scale'[asked[b].scale].there = "there"
                                     /\ scale'[asked[b].scale].on
      BY <3>1, <3>3 DEF RequestFits, There
    <3>5. asked[b].at = "switch" /\ asked[b].what = "off" /\ scale'[asked[b].scale].default
            => asked[b].scale \in crossed'
      BY <1>1, <1>4, <1>5, <3>1 DEF RequestFits
    <3>6. asked[b].at = "delete" => \A g \in Graded : named'[g] = asked[b].scale => g \in lateNamed'
      BY <1>1, <1>6, <3>1, GradingAssumption DEF RequestFits, Naming
    <3> QED
      BY <3>1, <3>4, <3>5, <3>6, RequestStays
  <2> QED
    BY <2>1, <2>2
<1> QED
  BY <1>7, <1>8, <1>9, <1>10, <1>11 DEF GradingInv

\* A scale is named.
LEMMA CommitNamingInv ==
  ASSUME GradingInv, NEW a \in Admins, CommitNaming(a)
  PROVE  GradingInv'
<1> DEFINE s == asked[a].scale
           g == asked[a].what
<1>1. /\ asked[a].at = "name" /\ There(s)
      /\ named' = [named EXCEPT ![g] = s]
      /\ lateNamed' = (IF \E b \in Admins : Asks(b, "delete") /\ asked[b].scale = s
                         THEN lateNamed \cup {g} ELSE lateNamed \ {g})
      /\ UNCHANGED <<scale, crossed>>
      /\ asked' = [asked EXCEPT ![a] = NotAsked]
  BY DEF CommitNaming, Asks, Answered, ReferenceHolds
<1>2. s \in Scales /\ g \in Graded /\ ScaleKind[s] = GradedKind[g]
  BY <1>1, GradingHas DEF RequestFits
<1>3. /\ asked' \in [Admins -> Request] /\ asked'[a].at = "none"
      /\ \A b \in Admins : b # a => asked'[b] = asked[b]
  BY <1>1, NotAskedIs, AskedIs
<1>4. /\ named' \in [Graded -> Scales \cup {NoScale}] /\ named'[g] = s
      /\ \A h \in Graded : h # g => named'[h] = named[h]
  BY <1>1, <1>2, GradingHas
<1>5. /\ lateNamed' \subseteq Graded
      /\ \A h \in lateNamed : h # g => h \in lateNamed'
      /\ \A b \in Admins : asked[b].at = "delete" /\ asked[b].scale = s => g \in lateNamed'
  BY <1>1, <1>2, GradingHas DEF Asks
<1> HIDE DEF s, g
<1>6. GradingTypeOK'
  BY <1>1, <1>3, <1>4, <1>5, GradingHas DEF GradingTypeOK, ScaleRec, Request
<1>7. DefaultsDiffer' /\ DefaultIsActive'
  BY <1>1, GradingHas DEF DefaultsDiffer, DefaultIsActive, There
<1>8. NamedGrades'
  BY <1>1, <1>2, <1>4, GradingHas DEF NamedGrades, There
<1>9. \A b \in Admins : RequestFits(b)'
  <2> TAKE b \in Admins
  <2>1. CASE b = a
    BY <1>3, <2>1 DEF RequestFits
  <2>2. CASE b # a
    <3>1. asked'[b] = asked[b] /\ RequestFits(b)
      BY <1>3, <2>2, GradingHas
    <3>2. asked[b].at = "delete" => \A h \in Graded : named'[h] = asked[b].scale => h \in lateNamed'
      <4> SUFFICES ASSUME asked[b].at = "delete", NEW h \in Graded, named'[h] = asked[b].scale
                   PROVE  h \in lateNamed'
        OBVIOUS
      <4>1. CASE h = g
        BY <1>4, <1>5, <4>1
      <4>2. CASE h # g
        BY <1>4, <1>5, <3>1, <4>2 DEF RequestFits, Naming
      <4> QED
        BY <4>1, <4>2
    <3> QED
      BY <1>1, <3>1, <3>2, RequestStays DEF RequestFits, There
  <2> QED
    BY <2>1, <2>2
<1> QED
  BY <1>6, <1>7, <1>8, <1>9 DEF GradingInv

\* A scale is made, or one is named no more.
LEMMA PlainInv ==
  ASSUME GradingInv, (\E s \in Scales : CreateScale(s)) \/ (\E g \in Graded : NameNone(g))
  PROVE  GradingInv'
<1>1. ASSUME NEW s \in Scales, CreateScale(s)
      PROVE  GradingInv'
  <2>1. /\ scale[s].there = "unborn" /\ scale' = [scale EXCEPT ![s] = ScaleRow("there", TRUE, FALSE)]
        /\ UNCHANGED <<named, asked, crossed, lateNamed>>
    BY <1>1 DEF CreateScale
  <2>2. /\ ScaleRow("there", TRUE, FALSE) \in ScaleRec
        /\ ScaleRow("there", TRUE, FALSE).there = "there"
        /\ ~ScaleRow("there", TRUE, FALSE).default
    BY DEF ScaleRow, ScaleRec
  <2>3. /\ scale' \in [Scales -> ScaleRec] /\ scale'[s].there = "there" /\ ~scale'[s].default
        /\ \A x \in Scales : x # s => scale'[x] = scale[x]
    BY <2>1, <2>2, GradingHas
  <2>4. GradingTypeOK'
    BY <2>1, <2>3, GradingHas DEF GradingTypeOK, ScaleRec, Request
  <2>5. DefaultsDiffer'
    BY <2>3, GradingHas DEF DefaultsDiffer
  <2>6. DefaultIsActive'
    BY <2>1, <2>3, GradingHas DEF DefaultIsActive, There
  <2>7. NamedGrades'
    BY <2>1, <2>3, GradingHas DEF NamedGrades, There
  <2>8. \A b \in Admins : RequestFits(b)'
    <3> TAKE b \in Admins
    <3>1. RequestFits(b) /\ asked'[b] = asked[b]
      BY <2>1, GradingHas
    <3>2. asked[b].at = "default" => asked[b].scale # s
      BY <2>1, <3>1 DEF RequestFits, There
    <3>3. asked[b].at = "default" => scale'[asked[b].scale] = scale[asked[b].scale]
      BY <2>3, <3>1, <3>2 DEF RequestFits
    <3>4. asked[b].at = "default" => scale'[asked[b].scale].there = "there"
                                     /\ scale'[asked[b].scale].on
      BY <3>1, <3>3 DEF RequestFits, There
    <3>5. asked[b].at = "switch" /\ asked[b].what = "off" /\ scale'[asked[b].scale].default
            => asked[b].scale \in crossed'
      BY <2>1, <2>3, <3>1 DEF RequestFits
    <3>6. asked[b].at = "delete" => \A g \in Graded : named'[g] = asked[b].scale => g \in lateNamed'
      BY <2>1, <3>1 DEF RequestFits, Naming
    <3> QED
      BY <3>1, <3>4, <3>5, <3>6, RequestStays
  <2> QED
    BY <2>4, <2>5, <2>6, <2>7, <2>8 DEF GradingInv
<1>2. ASSUME NEW g \in Graded, NameNone(g)
      PROVE  GradingInv'
  <2>1. /\ named' = [named EXCEPT ![g] = NoScale] /\ lateNamed' = lateNamed \ {g}
        /\ UNCHANGED <<scale, asked, crossed>>
    BY <1>2 DEF NameNone
  <2>2. /\ named' \in [Graded -> Scales \cup {NoScale}] /\ named'[g] = NoScale
        /\ \A h \in Graded : h # g => named'[h] = named[h]
    BY <2>1, GradingHas
  <2>3. GradingTypeOK'
    BY <2>1, <2>2, GradingHas DEF GradingTypeOK, ScaleRec, Request
  <2>4. DefaultsDiffer' /\ DefaultIsActive'
    BY <2>1, GradingHas DEF DefaultsDiffer, DefaultIsActive, There
  <2>5. NamedGrades'
    BY <2>1, <2>2, GradingHas DEF NamedGrades, There
  <2>6. \A b \in Admins : RequestFits(b)'
    <3> TAKE b \in Admins
    <3>1. RequestFits(b) /\ asked'[b] = asked[b]
      BY <2>1, GradingHas
    <3>2. asked[b].at = "delete" => \A h \in Graded : named'[h] = asked[b].scale => h \in lateNamed'
      <4> SUFFICES ASSUME asked[b].at = "delete", NEW h \in Graded, named'[h] = asked[b].scale
                   PROVE  h \in lateNamed'
        OBVIOUS
      <4>1. h # g
        BY <2>2, <3>1, GradingAssumption DEF RequestFits
      <4> QED
        BY <2>1, <2>2, <3>1, <4>1 DEF RequestFits, Naming
    <3> QED
      BY <2>1, <3>1, <3>2, RequestStays DEF RequestFits, There
  <2> QED
    BY <2>3, <2>4, <2>5, <2>6 DEF GradingInv
<1> QED
  BY <1>1, <1>2

\* Every step keeps the invariant.
LEMMA GradingStep ==
  ASSUME GradingInv, [GradingNext]_gradingVars
  PROVE  GradingInv'
<1>1. CASE GradingNext
  BY <1>1, BeginsInv, CommitDefaultInv, CommitSwitchInv, CommitDeleteInv, CommitNamingInv,
     PlainInv DEF GradingNext
<1>2. CASE UNCHANGED gradingVars
  BY <1>2 DEF gradingVars, GradingInv, GradingTypeOK, DefaultsDiffer, DefaultIsActive,
              NamedGrades, RequestFits, There, Naming
<1> QED
  BY <1>1, <1>2

\* The invariant holds at first.
LEMMA GradingInitInv == GradingInit => GradingInv
<1> SUFFICES ASSUME GradingInit PROVE GradingInv
  OBVIOUS
<1>1. scale \in [Scales -> ScaleRec] /\ \A s \in Scales : ~scale[s].default
  <2>1. ASSUME NEW there \in {"there", "unborn"}
        PROVE  ScaleRow(there, TRUE, FALSE) \in ScaleRec /\ ~ScaleRow(there, TRUE, FALSE).default
    BY DEF ScaleRow, ScaleRec
  <2> QED
    BY <2>1 DEF GradingInit
<1>2. asked \in [Admins -> Request] /\ \A a \in Admins : asked[a].at = "none"
  BY NotAskedIs DEF GradingInit
<1>3. /\ named \in [Graded -> Scales \cup {NoScale}] /\ \A g \in Graded : named[g] = NoScale
      /\ crossed = {} /\ lateNamed = {}
  BY DEF GradingInit
<1>4. GradingTypeOK
  BY <1>1, <1>2, <1>3 DEF GradingTypeOK, ScaleRec, Request
<1>5. DefaultsDiffer /\ DefaultIsActive /\ NamedGrades
  BY <1>1, <1>3 DEF DefaultsDiffer, DefaultIsActive, NamedGrades
<1>6. \A a \in Admins : RequestFits(a)
  BY <1>2 DEF RequestFits
<1> QED
  BY <1>4, <1>5, <1>6 DEF GradingInv

\* Only a switch or a deletion leaves a kind without the default it had.
LEMMA ReplacesDefault ==
  ASSUME GradingInv, [GradingNext]_gradingVars, NEW kind \in GradeKinds,
         DefaultsOf(kind) # {}, DefaultsOf(kind)' = {}
  PROVE  \E s \in DefaultsOf(kind) : ~There(s)' \/ ~scale'[s].on
<1>1. PICK d \in Scales : scale[d].default /\ ScaleKind[d] = kind
  BY DEF DefaultsOf
<1>2. ~scale'[d].default
  BY <1>1 DEF DefaultsOf
<1>3. d \in DefaultsOf(kind)
  BY <1>1 DEF DefaultsOf
<1>4. scale' # scale
  BY <1>1, <1>2
<1>5. ASSUME NEW a \in Admins, CommitDefault(a)
      PROVE  FALSE
  <2> DEFINE s == asked[a].scale
             o == asked[a].other
  <2>1. asked[a].at = "default" /\ scale' = AfterDefault(s, o)
    BY <1>5 DEF CommitDefault, Asks
  <2>2. s \in Scales /\ (o # NoScale => ScaleKind[o] = ScaleKind[s])
    BY <2>1, GradingHas DEF RequestFits
  <2> HIDE DEF s, o
  <2>3. scale[d] \in ScaleRec /\ scale[s] \in ScaleRec
    BY <1>1, <2>2, GradingHas
  <2>4. scale'[s].default /\ (d # o => scale'[d].default)
    BY <1>1, <2>1, <2>2, <2>3 DEF AfterDefault, ScaleRec
  <2>5. d = o /\ ScaleKind[s] = kind
    BY <1>1, <1>2, <2>2, <2>4, GradingAssumption
  <2> QED
    BY <2>2, <2>4, <2>5 DEF DefaultsOf
<1>6. ASSUME NEW a \in Admins, CommitSwitch(a)
      PROVE  ~scale'[d].on
  <2> DEFINE s == asked[a].scale
             what == asked[a].what
             n == [scale[s] EXCEPT !.on = (what = "on"),
                                   !.default = scale[s].default /\ what # "off and clear"]
  <2>1. asked[a].at = "switch" /\ scale' = Switched(s, what)
    BY <1>4, <1>6 DEF CommitSwitch, Asks
  <2>2. s \in Scales
    BY <2>1, GradingHas DEF RequestFits
  <2>3. scale' = [scale EXCEPT ![s] = n]
    BY <2>1, <2>2, GradingHas DEF Switched
  <2>4. scale[s] \in ScaleRec
    BY <2>2, GradingHas
  <2>5. n.default = (scale[s].default /\ what # "off and clear") /\ n.on = (what = "on")
    BY <2>4 DEF ScaleRec
  <2> HIDE DEF n
  <2>6. d = s /\ scale'[d] = n
    BY <1>1, <1>2, <2>2, <2>3, GradingHas
  <2> QED
    BY <1>1, <1>2, <2>5, <2>6
<1>7. ASSUME NEW a \in Admins, CommitDeleteScale(a)
      PROVE  ~There(d)'
  <2> DEFINE s == asked[a].scale
  <2>1. scale' = [scale EXCEPT ![s] = IF There(s) THEN ScaleRow("gone", FALSE, FALSE) ELSE @]
    BY <1>7 DEF CommitDeleteScale
  <2>2. d = s /\ There(s)
    BY <1>1, <1>2, <2>1, GradingHas
  <2>3. scale'[d] = ScaleRow("gone", FALSE, FALSE)
    BY <1>1, <2>1, <2>2, GradingHas
  <2> QED
    BY <2>3 DEF There, ScaleRow
<1>8. ASSUME NEW s \in Scales, CreateScale(s)
      PROVE  FALSE
  <2>1. scale[s].there = "unborn" /\ scale' = [scale EXCEPT ![s] = ScaleRow("there", TRUE, FALSE)]
    BY <1>8 DEF CreateScale
  <2>2. d = s
    BY <1>1, <1>2, <2>1, GradingHas
  <2> QED
    BY <1>1, <2>1, <2>2, GradingHas DEF DefaultIsActive, There
<1> QED
  BY <1>3, <1>4, <1>5, <1>6, <1>7, <1>8
     DEF GradingNext, gradingVars, BeginDefault, BeginDeleteScale, BeginSwitch, BeginNaming,
         DefaultRefused, GradingFails, CommitNaming, NameNone

\* Only a late naming loses its scale.
LEMMA NamedStays ==
  ASSUME GradingInv, [GradingNext]_gradingVars, NEW g \in Graded, named[g] # NoScale
  PROVE  scale'[named[g]].there = "there" \/ g \in lateNamed
<1>1. named[g] \in Scales /\ There(named[g])
  BY GradingHas DEF NamedGrades
<1>2. ASSUME NEW a \in Admins, CommitDeleteScale(a), asked[a].scale = named[g]
      PROVE  g \in lateNamed
  BY <1>2, GradingHas DEF CommitDeleteScale, Asks, RequestFits, Naming
<1>3. ASSUME NEW a \in Admins, CommitDeleteScale(a), asked[a].scale # named[g]
      PROVE  scale'[named[g]] = scale[named[g]]
  BY <1>1, <1>3, GradingHas DEF CommitDeleteScale
<1>4. ASSUME NEW a \in Admins, CommitDefault(a)
      PROVE  scale'[named[g]].there = scale[named[g]].there
  <2>1. scale[named[g]] \in ScaleRec
    BY <1>1, GradingHas
  <2> QED
    BY <1>1, <1>4, <2>1 DEF CommitDefault, AfterDefault, ScaleRec
<1>5. ASSUME NEW a \in Admins, CommitSwitch(a)
      PROVE  scale'[named[g]].there = scale[named[g]].there
  <2> DEFINE s == asked[a].scale
             what == asked[a].what
             n == [scale[s] EXCEPT !.on = (what = "on"),
                                   !.default = scale[s].default /\ what # "off and clear"]
  <2>1. asked[a].at = "switch" /\ scale' \in {scale, Switched(s, what)}
    BY <1>5 DEF CommitSwitch, Asks
  <2>2. s \in Scales
    BY <2>1, GradingHas DEF RequestFits
  <2>3. scale' \in {scale, [scale EXCEPT ![s] = n]}
    BY <2>1, <2>2, GradingHas DEF Switched
  <2>4. scale[s] \in ScaleRec
    BY <2>2, GradingHas
  <2>5. n.there = scale[s].there
    BY <2>4 DEF ScaleRec
  <2> HIDE DEF n
  <2> QED
    BY <1>1, <2>2, <2>3, <2>5, GradingHas
<1>6. ASSUME NEW s \in Scales, CreateScale(s)
      PROVE  scale'[named[g]] = scale[named[g]]
  BY <1>1, <1>6, GradingHas DEF CreateScale, There
<1>7. UNCHANGED scale => scale'[named[g]].there = "there"
  BY <1>1 DEF There
<1> QED
  BY <1>1, <1>2, <1>3, <1>4, <1>5, <1>6, <1>7
     DEF There, GradingNext, gradingVars, BeginDefault, BeginDeleteScale, BeginSwitch,
         BeginNaming, DefaultRefused, GradingFails, CommitNaming, NameNone

\* For any administrators' requests over any scales: one default of a kind, active
\* unless two requests crossed, replaced and not lost; and what names a scale names
\* one that is there and grades its kind, until it is told otherwise.
THEOREM GradingKeepsPromises == GradingSpec => GradingPromises
<1> DEFINE Parts == GradingTypeOK /\ OneDefault /\ DefaultIsActive /\ NamedGrades
           Replaces == \A kind \in GradeKinds :
                         (DefaultsOf(kind) # {} /\ DefaultsOf(kind)' = {})
                           => \E s \in DefaultsOf(kind) : ~There(s)' \/ ~scale'[s].on
           Stays == \A g \in Graded :
                      named[g] # NoScale => scale'[named[g]].there = "there" \/ g \in lateNamed
<1>1. GradingInv => Parts
  <2> SUFFICES ASSUME GradingInv PROVE OneDefault
    BY DEF GradingInv
  <2> SUFFICES ASSUME NEW kind \in GradeKinds PROVE Cardinality(DefaultsOf(kind)) <= 1
    BY DEF OneDefault
  <2>1. CASE DefaultsOf(kind) = {}
    BY <2>1, FS_EmptySet
  <2>2. CASE DefaultsOf(kind) # {}
    <3>1. PICK d : d \in DefaultsOf(kind)
      BY <2>2
    <3>2. DefaultsOf(kind) = {d}
      BY <3>1, GradingHas DEF DefaultsDiffer, DefaultsOf
    <3>3. Cardinality(DefaultsOf(kind)) = 1
      BY <3>2, FS_Singleton
    <3> QED
      BY <3>3
  <2> QED
    BY <2>1, <2>2
<1>2. GradingInv /\ [GradingNext]_gradingVars => Replaces /\ Stays
  BY ReplacesDefault, NamedStays
<1> HIDE DEF Parts, Replaces, Stays
<1>3. GradingSpec => []Parts /\ [][Replaces]_gradingVars /\ [][Stays]_gradingVars
  BY <1>1, <1>2, GradingInitInv, GradingStep, PTL DEF GradingSpec
<1> QED
  BY <1>3 DEF Parts, Replaces, Stays, GradingPromises, DefaultIsReplaced, NamedScaleStays
-----------------------------------------------------------------------------
(***************************************************************************)
(* The sessions of a class (SessionRecords).  The percentage follows from  *)
(* what each open transaction has computed, and from whether another       *)
(* committed since; a session under a lock is not sent.                    *)
(***************************************************************************)
FormRec == [at : {"none", "marks", "update", "marking", "updating", "submit"},
            s : Sessions \cup {NoSession}, read : SessionStates,
            to : SessionStates \cup Marks,
            seen : [Sessions -> Marks], fresh : BOOLEAN]

\* A request is about a session; in its transaction the session is locked and not
\* sent, and what it computed is current while it is fresh.
FormFits(t) ==
  LET f == form[t]
  IN /\ f.at # "none" => f.s \in Sessions
     /\ f.at \in {"marks", "marking"} => f.to \in Marks
     /\ f.at \in {"update", "updating"} => f.to \in SessionStates
     /\ InTransaction(t) => f.s \in unlocked
     /\ f.at = "marking" /\ f.fresh => f.seen = Counted(held, [mark EXCEPT ![f.s] = f.to])
     /\ f.at = "updating" /\ f.fresh => f.seen = Counted([held EXCEPT ![f.s] = f.to], mark)

\* One transaction holds a session.
OneLock ==
  \A t, u \in Forms :
    InTransaction(t) /\ InTransaction(u) /\ form[t].s = form[u].s => t = u

SessionInv ==
  SessionTypeOK /\ TotalsAreCurrent /\ OneLock /\ \A t \in Forms : FormFits(t)

\* What the proofs of the steps start from.
LEMMA SessionHas ==
  SessionInv =>
    /\ held \in [Sessions -> SessionStates] /\ mark \in [Sessions -> Marks]
    /\ tally \in [Sessions -> [total : 0..1, attended : 0..1]]
    /\ percent \in [Sessions -> Marks] /\ unlocked \subseteq Sessions
    /\ form \in [Forms -> FormRec] /\ saves \in 0..MaxSaves /\ excused \in BOOLEAN
    /\ \A s \in Sessions : tally[s] = CountOf(mark[s])
    /\ excused \/ percent = Counted(held, mark)
    /\ OneLock /\ \A t \in Forms : FormFits(t)
BY DEF SessionInv, SessionTypeOK, TotalsAreCurrent, FormRec

\* The percentage's marks, for any statuses and marks.
LEMMA CountedIs ==
  ASSUME NEW states, NEW marks \in [Sessions -> Marks]
  PROVE  Counted(states, marks) \in [Sessions -> Marks]
BY DEF Counted, Marks

\* A form that asks for nothing.
LEMMA IdleIs == Idle \in FormRec /\ Idle.at = "none"
<1>1. "none" \in Marks /\ "planned" \in SessionStates
  BY DEF Marks, SessionStates
<1>2. QED
  <2> DEFINE z == [s \in Sessions |-> "none"]
             y == TRUE
  <2>1. z \in [Sessions -> Marks]
    BY <1>1
  <2>2. Idle = [at |-> "none", s |-> NoSession, read |-> "planned", to |-> "planned",
                seen |-> z, fresh |-> y]
    BY DEF Idle
  <2>3. y \in BOOLEAN
    OBVIOUS
  <2> HIDE DEF z, y
  <2>4. "planned" \in SessionStates \cup Marks
    BY <1>1
  <2> QED
    BY <1>1, <2>1, <2>2, <2>3, <2>4 DEF FormRec

\* A form moves outside a transaction; a session may be sent, if nobody holds it, or
\* sent back.
LEMMA FormMoves ==
  ASSUME SessionInv, NEW t \in Forms, NEW n \in FormRec, form' = [form EXCEPT ![t] = n],
         UNCHANGED <<held, mark, tally, percent, saves, excused>>,
         unlocked' \subseteq Sessions,
         \A s \in Sessions : s \in unlocked /\ s \notin unlocked' => ~LockHeld(s),
         n.at \notin {"marking", "updating"},
         n.at # "none" => n.s \in Sessions,
         n.at = "marks" => n.to \in Marks,
         n.at = "update" => n.to \in SessionStates
  PROVE  SessionInv'
<1>1. /\ form' \in [Forms -> FormRec] /\ form'[t] = n
      /\ \A u \in Forms : u # t => form'[u] = form[u]
  BY SessionHas
<1>2. SessionTypeOK'
  BY <1>1, SessionHas DEF SessionTypeOK, FormRec
<1>3. TotalsAreCurrent'
  BY SessionHas DEF TotalsAreCurrent
<1>4. \A u \in Forms : InTransaction(u)' => u # t /\ InTransaction(u)
  BY <1>1 DEF InTransaction
<1>5. OneLock'
  BY <1>1, <1>4, SessionHas DEF OneLock
<1>6. \A u \in Forms : FormFits(u)'
  <2> TAKE u \in Forms
  <2>1. CASE u = t
    BY <1>1, <2>1 DEF FormFits, InTransaction
  <2>2. CASE u # t
    <3>1. form'[u] = form[u] /\ FormFits(u)
      BY <1>1, <2>2, SessionHas
    <3>2. InTransaction(u) => form[u].s \in unlocked'
      BY <3>1, SessionHas DEF FormFits, LockHeld
    <3> QED
      BY <3>1, <3>2 DEF FormFits, InTransaction
  <2> QED
    BY <2>1, <2>2
<1> QED
  BY <1>2, <1>3, <1>5, <1>6 DEF SessionInv

\* Requests begin, are refused, given up, or send a session.
LEMMA FormsInv ==
  ASSUME SessionInv, NEW t \in Forms,
         \/ \E s \in Sessions :
              \/ \E m \in Marks \ {"none"} : BeginMarks(t, s, m)
              \/ \E status \in SessionStates : BeginUpdate(t, s, status)
              \/ BeginSessionSubmit(t, s)
         \/ FoundLocked(t) \/ SubmitSession(t) \/ AbandonForm(t)
  PROVE  SessionInv'
<1>1. ASSUME NEW s \in Sessions, NEW m \in Marks \ {"none"}, BeginMarks(t, s, m)
      PROVE  SessionInv'
  <2> DEFINE n == [Idle EXCEPT !.at = "marks", !.s = s, !.to = m]
  <2>1. n \in FormRec /\ n.at = "marks" /\ n.s = s /\ n.to = m
    BY IdleIs DEF FormRec
  <2>2. /\ form' = [form EXCEPT ![t] = n]
        /\ UNCHANGED <<held, mark, tally, percent, unlocked, saves, excused>>
    BY <1>1 DEF BeginMarks, tables
  <2> HIDE DEF n
  <2> QED
    BY <2>1, <2>2, FormMoves, SessionHas
<1>2. ASSUME NEW s \in Sessions, NEW status \in SessionStates, BeginUpdate(t, s, status)
      PROVE  SessionInv'
  <2> DEFINE r == held[s]
             n == [Idle EXCEPT !.at = "update", !.s = s, !.read = r, !.to = status]
  <2>1. r \in SessionStates
    BY SessionHas
  <2>2. /\ form' = [form EXCEPT ![t] = n]
        /\ UNCHANGED <<held, mark, tally, percent, unlocked, saves, excused>>
    BY <1>2 DEF BeginUpdate, tables
  <2> HIDE DEF r
  <2>3. n \in FormRec /\ n.at = "update" /\ n.s = s /\ n.to = status
    BY <2>1, IdleIs DEF FormRec
  <2> HIDE DEF n
  <2> QED
    BY <2>2, <2>3, FormMoves, SessionHas
<1>3. ASSUME NEW s \in Sessions, BeginSessionSubmit(t, s)
      PROVE  SessionInv'
  <2> DEFINE n == [Idle EXCEPT !.at = "submit", !.s = s]
  <2>1. n \in FormRec /\ n.at = "submit" /\ n.s = s
    BY IdleIs DEF FormRec
  <2>2. /\ form' = [form EXCEPT ![t] = n]
        /\ UNCHANGED <<held, mark, tally, percent, unlocked, saves, excused>>
    BY <1>3 DEF BeginSessionSubmit, tables
  <2> HIDE DEF n
  <2> QED
    BY <2>1, <2>2, FormMoves, SessionHas
<1>4. CASE FoundLocked(t) \/ AbandonForm(t)
  <2>1. /\ form' = [form EXCEPT ![t] = Idle]
        /\ UNCHANGED <<held, mark, tally, percent, unlocked, saves, excused>>
    BY <1>4 DEF FoundLocked, AbandonForm, tables
  <2> QED
    BY <2>1, FormMoves, IdleIs, SessionHas
<1>5. CASE SubmitSession(t)
  <2>1. /\ form' = [form EXCEPT ![t] = Idle] /\ ~LockHeld(form[t].s)
        /\ unlocked' = unlocked \ {form[t].s}
        /\ UNCHANGED <<held, mark, tally, percent, saves, excused>>
    BY <1>5 DEF SubmitSession, tables
  <2>2. \A s \in Sessions : s \in unlocked /\ s \notin unlocked' => ~LockHeld(s)
    BY <2>1
  <2> QED
    BY <2>1, <2>2, FormMoves, IdleIs, SessionHas
<1> QED
  BY <1>1, <1>2, <1>3, <1>4, <1>5

\* A session is sent back.
LEMMA SendBackInv ==
  ASSUME SessionInv, NEW s \in Sessions, SendBack(s)
  PROVE  SessionInv'
<1>1. /\ unlocked' = unlocked \cup {s}
      /\ UNCHANGED <<held, mark, tally, percent, form, saves, excused>>
  BY DEF SendBack, tables
<1> QED
  BY <1>1, SessionHas DEF SessionInv, SessionTypeOK, TotalsAreCurrent, OneLock, FormFits,
                          InTransaction, FormRec

\* A transaction locks its session and computes what it will write.
LEMMA WritesInv ==
  ASSUME SessionInv, NEW t \in Forms, WriteMarks(t) \/ WriteUpdate(t)
  PROVE  SessionInv'
<1> DEFINE s == form[t].s
           to == form[t].to
<1>1. /\ form[t].at \in {"marks", "update"} /\ ~LockHeld(s) /\ s \in unlocked
      /\ UNCHANGED <<held, mark, tally, percent, unlocked, saves, excused>>
  BY DEF WriteMarks, WriteUpdate, LockEditableSession, tables
<1>2. form[t] \in FormRec /\ FormFits(t) /\ s \in Sessions
  BY <1>1, SessionHas DEF FormFits
<1>3. \E n \in FormRec :
        /\ form' = [form EXCEPT ![t] = n] /\ n.s = s /\ n.to = to
        /\ \/ n.at = "marking" /\ to \in Marks /\ n.seen = Counted(held, [mark EXCEPT ![s] = to])
           \/ /\ n.at = "updating" /\ to \in SessionStates
              /\ n.seen = Counted([held EXCEPT ![s] = to], mark)
  <2>1. CASE WriteMarks(t)
    <3> DEFINE c == Counted(held, [mark EXCEPT ![s] = to])
               n == [form[t] EXCEPT !.at = "marking", !.fresh = TRUE, !.seen = c]
    <3>1. to \in Marks
      BY <1>2, <2>1 DEF WriteMarks, FormFits
    <3>2. c \in [Sessions -> Marks]
      BY <3>1, CountedIs, SessionHas
    <3>3. form' = [form EXCEPT ![t] = n]
      BY <2>1, SessionHas DEF WriteMarks
    <3> HIDE DEF c
    <3>4. n \in FormRec /\ n.s = s /\ n.to = to /\ n.at = "marking" /\ n.seen = c
      BY <1>2, <3>2 DEF FormRec
    <3> HIDE DEF n
    <3> QED
      BY <3>1, <3>3, <3>4 DEF c
  <2>2. CASE WriteUpdate(t)
    <3> DEFINE c == Counted([held EXCEPT ![s] = to], mark)
               n == [form[t] EXCEPT !.at = "updating", !.fresh = TRUE, !.seen = c]
    <3>1. to \in SessionStates
      BY <1>2, <2>2 DEF WriteUpdate, FormFits
    <3>2. c \in [Sessions -> Marks]
      BY <3>1, CountedIs, SessionHas
    <3>3. form' = [form EXCEPT ![t] = n]
      BY <2>2, SessionHas DEF WriteUpdate
    <3> HIDE DEF c
    <3>4. n \in FormRec /\ n.s = s /\ n.to = to /\ n.at = "updating" /\ n.seen = c
      BY <1>2, <3>2 DEF FormRec
    <3> HIDE DEF n
    <3> QED
      BY <3>1, <3>3, <3>4 DEF c
  <2> QED
    BY <2>1, <2>2
<1> HIDE DEF s, to
<1>4. PICK n \in FormRec :
        /\ form' = [form EXCEPT ![t] = n] /\ n.s = s /\ n.to = to
        /\ \/ n.at = "marking" /\ to \in Marks /\ n.seen = Counted(held, [mark EXCEPT ![s] = to])
           \/ /\ n.at = "updating" /\ to \in SessionStates
              /\ n.seen = Counted([held EXCEPT ![s] = to], mark)
  BY <1>3
<1>5. /\ form' \in [Forms -> FormRec] /\ form'[t] = n
      /\ \A u \in Forms : u # t => form'[u] = form[u]
  BY <1>4, SessionHas
<1>6. SessionTypeOK'
  BY <1>1, <1>5, SessionHas DEF SessionTypeOK, FormRec
<1>7. TotalsAreCurrent'
  BY <1>1, SessionHas DEF TotalsAreCurrent
<1>8. OneLock'
  <2> SUFFICES ASSUME NEW u \in Forms, NEW v \in Forms, InTransaction(u)', InTransaction(v)',
                      form'[u].s = form'[v].s
               PROVE  u = v
    BY DEF OneLock
  <2>1. \A w \in Forms : w # t /\ InTransaction(w)' => InTransaction(w) /\ form'[w].s # s
    BY <1>1, <1>5 DEF InTransaction, LockHeld
  <2> QED
    BY <1>4, <1>5, <2>1, SessionHas DEF OneLock
<1>9. \A u \in Forms : FormFits(u)'
  <2> TAKE u \in Forms
  <2>1. CASE u = t
    BY <1>1, <1>2, <1>4, <1>5, <2>1 DEF FormFits, InTransaction
  <2>2. CASE u # t
    BY <1>1, <1>5, <2>2, SessionHas DEF FormFits, InTransaction
  <2> QED
    BY <2>1, <2>2
<1> QED
  BY <1>6, <1>7, <1>8, <1>9 DEF SessionInv

\* What a commit leaves of the forms: its own is done, and no other transaction is
\* fresh.
LEMMA OvertakenIs ==
  ASSUME SessionInv, NEW t \in Forms, form' = Overtaken(t)
  PROVE  /\ form' \in [Forms -> FormRec] /\ form'[t] = Idle
         /\ \A u \in Forms : u # t /\ ~InTransaction(u) => form'[u] = form[u]
         /\ \A u \in Forms : u # t /\ InTransaction(u) =>
              /\ form'[u].at = form[u].at /\ form'[u].s = form[u].s /\ form'[u].to = form[u].to
              /\ ~form'[u].fresh
<1>1. ASSUME NEW u \in Forms, u # t, InTransaction(u)
      PROVE  /\ form'[u] \in FormRec
             /\ form'[u].at = form[u].at /\ form'[u].s = form[u].s /\ form'[u].to = form[u].to
             /\ ~form'[u].fresh
  <2> DEFINE n == [form[u] EXCEPT !.fresh = FALSE]
  <2>1. form'[u] = n
    BY <1>1 DEF Overtaken
  <2>2. form[u] \in FormRec
    BY SessionHas
  <2>3. n \in FormRec /\ n.at = form[u].at /\ n.s = form[u].s /\ n.to = form[u].to /\ ~n.fresh
    BY <2>2 DEF FormRec
  <2> HIDE DEF n
  <2> QED
    BY <2>1, <2>3
<1>2. form'[t] = Idle /\ \A u \in Forms : u # t /\ ~InTransaction(u) => form'[u] = form[u]
  BY DEF Overtaken
<1>3. \A u \in Forms : form'[u] \in FormRec
  BY <1>1, <1>2, IdleIs, SessionHas
<1>4. form' = [u \in Forms |-> form'[u]]
  BY DEF Overtaken
<1> QED
  BY <1>1, <1>2, <1>3, <1>4

\* Whatever a commit writes to its own session, no other transaction's request is
\* upset, and the sessions stay locked one by one.
LEMMA CommitKeeps ==
  ASSUME SessionInv, NEW t \in Forms, form' = Overtaken(t), unlocked' = unlocked
  PROVE  OneLock' /\ \A u \in Forms : FormFits(u)'
<1>1. \A u \in Forms : InTransaction(u)' =>
        u # t /\ InTransaction(u) /\ form'[u].s = form[u].s
  BY OvertakenIs, IdleIs DEF InTransaction
<1>2. OneLock'
  BY <1>1, SessionHas DEF OneLock
<1>3. \A u \in Forms : FormFits(u)'
  <2> TAKE u \in Forms
  <2>1. CASE u = t
    BY <2>1, OvertakenIs, IdleIs DEF FormFits, InTransaction
  <2>2. CASE u # t /\ ~InTransaction(u)
    <3>1. form'[u] = form[u] /\ FormFits(u)
      BY <2>2, OvertakenIs, SessionHas
    <3> QED
      BY <2>2, <3>1 DEF FormFits, InTransaction
  <2>3. CASE u # t /\ InTransaction(u)
    <3>1. /\ form'[u].at = form[u].at /\ form'[u].s = form[u].s /\ form'[u].to = form[u].to
          /\ ~form'[u].fresh /\ FormFits(u)
      BY <2>3, OvertakenIs, SessionHas
    <3> QED
      BY <3>1 DEF FormFits, InTransaction
  <2> QED
    BY <2>1, <2>2, <2>3
<1> QED
  BY <1>2, <1>3

\* Marks are committed, and the session's counts and the percentage with them.
LEMMA CommitMarksInv ==
  ASSUME SessionInv, NEW t \in Forms, CommitMarks(t)
  PROVE  SessionInv'
<1> DEFINE s == form[t].s
           to == form[t].to
<1>1. /\ form[t].at = "marking" /\ saves < MaxSaves /\ saves' = saves + 1
      /\ form' = Overtaken(t) /\ unlocked' = unlocked /\ held' = held
      /\ mark' = [mark EXCEPT ![s] = to]
      /\ tally' = [tally EXCEPT ![s] = CountOf(to)]
      /\ percent' = form[t].seen /\ excused' = ~form[t].fresh
  BY DEF CommitMarks, Commit
<1>2. form[t] \in FormRec /\ FormFits(t) /\ s \in Sessions /\ to \in Marks
  BY <1>1, SessionHas DEF FormFits
<1>3. form[t].fresh => form[t].seen = Counted(held, [mark EXCEPT ![s] = to])
  BY <1>1, <1>2 DEF FormFits
<1>4. form[t].seen \in [Sessions -> Marks]
  BY <1>2 DEF FormRec
<1> HIDE DEF s, to
<1>5. mark' \in [Sessions -> Marks] /\ saves' \in 0..MaxSaves /\ excused' \in BOOLEAN
  BY <1>1, <1>2, SessionHas, SessionAssumption
<1>6. CountOf(to) \in [total : 0..1, attended : 0..1]
  BY <1>2 DEF CountOf
<1>7. SessionTypeOK'
  <2>1. tally' \in [Sessions -> [total : 0..1, attended : 0..1]]
    BY <1>1, <1>2, <1>6, SessionHas
  <2> QED
    BY <1>1, <1>4, <1>5, <2>1, OvertakenIs, SessionHas DEF SessionTypeOK, FormRec
<1>8. \A x \in Sessions : tally'[x] = CountOf(mark'[x])
  BY <1>1, <1>2, SessionHas
<1>9. TotalsAreCurrent'
  <2>1. excused' \/ percent' = Counted(held, mark)'
    BY <1>1, <1>3 DEF Counted
  <2> QED
    BY <1>8, <2>1 DEF TotalsAreCurrent, CountOf
<1> QED
  BY <1>1, <1>7, <1>9, CommitKeeps DEF SessionInv

\* A session's status is committed, and the percentage when it may have changed.
LEMMA CommitUpdateInv ==
  ASSUME SessionInv, NEW t \in Forms, CommitUpdate(t)
  PROVE  SessionInv'
<1> DEFINE s == form[t].s
           to == form[t].to
           read == form[t].read
<1>1. /\ form[t].at = "updating" /\ saves < MaxSaves /\ saves' = saves + 1
      /\ form' = Overtaken(t) /\ unlocked' = unlocked
      /\ held' = [held EXCEPT ![s] = to] /\ mark' = mark /\ tally' = tally
      /\ \/ percent' = form[t].seen /\ excused' = ~form[t].fresh
         \/ /\ ~(Refreshes(read, to) /\ mark[s] # "none")
            /\ percent' = percent /\ excused' = (excused \/ read # held[s])
  BY DEF CommitUpdate, Commit
<1>2. form[t] \in FormRec /\ FormFits(t) /\ s \in Sessions /\ to \in SessionStates
  BY <1>1, SessionHas DEF FormFits
<1>3. form[t].fresh => form[t].seen = Counted([held EXCEPT ![s] = to], mark)
  BY <1>1, <1>2 DEF FormFits
<1>4. form[t].seen \in [Sessions -> Marks]
  BY <1>2 DEF FormRec
<1> HIDE DEF s, to, read
<1>5. held' \in [Sessions -> SessionStates] /\ saves' \in 0..MaxSaves /\ excused' \in BOOLEAN
      /\ percent' \in [Sessions -> Marks]
  <2>1. held' \in [Sessions -> SessionStates] /\ percent' \in [Sessions -> Marks]
    BY <1>1, <1>2, <1>4, SessionHas
  <2>2. saves' \in 0..MaxSaves
    BY <1>1, SessionHas, SessionAssumption
  <2>3. excused' \in BOOLEAN
    BY <1>1
  <2> QED
    BY <2>1, <2>2, <2>3
<1>6. SessionTypeOK'
  BY <1>1, <1>5, OvertakenIs, SessionHas DEF SessionTypeOK, FormRec
<1>7. excused' \/ percent' = Counted(held, mark)'
  <2>1. CASE percent' = form[t].seen /\ excused' = ~form[t].fresh
    BY <1>1, <1>3, <2>1 DEF Counted
  <2>2. CASE /\ ~(Refreshes(read, to) /\ mark[s] # "none")
             /\ percent' = percent /\ excused' = (excused \/ read # held[s])
    <3> SUFFICES ASSUME ~excused, read = held[s]
                 PROVE  Counted(held', mark) = Counted(held, mark)
      BY <1>1, <2>2, SessionHas DEF Counted
    <3>1. ASSUME NEW x \in Sessions
          PROVE  (IF held'[x] = "cancelled" THEN "none" ELSE mark[x])
                   = (IF held[x] = "cancelled" THEN "none" ELSE mark[x])
      <4>1. CASE x # s
        BY <1>1, <4>1, SessionHas
      <4>2. CASE x = s
        <5>1. held'[x] = to
          BY <1>1, <1>2, <4>2, SessionHas
        <5> QED
          BY <2>2, <4>2, <5>1 DEF Refreshes
      <4> QED
        BY <4>1, <4>2
    <3> QED
      BY <3>1 DEF Counted
  <2> QED
    BY <1>1, <2>1, <2>2
<1>8. TotalsAreCurrent'
  BY <1>1, <1>7, SessionHas DEF TotalsAreCurrent
<1> QED
  BY <1>1, <1>6, <1>8, CommitKeeps DEF SessionInv

\* Every step keeps the invariant.
LEMMA SessionStep ==
  ASSUME SessionInv, [SessionNext]_sessionVars
  PROVE  SessionInv'
<1>1. CASE SessionNext
  BY <1>1, FormsInv, WritesInv, CommitMarksInv, CommitUpdateInv, SendBackInv DEF SessionNext
<1>2. CASE UNCHANGED sessionVars
  BY <1>2 DEF sessionVars, SessionInv, SessionTypeOK, TotalsAreCurrent, OneLock, FormFits,
              InTransaction
<1> QED
  BY <1>1, <1>2

\* The invariant holds at first.
LEMMA SessionInitInv == SessionInit => SessionInv
<1> SUFFICES ASSUME SessionInit PROVE SessionInv
  OBVIOUS
<1>1. /\ "none" \in Marks /\ "planned" \in SessionStates
      /\ CountOf("none") \in [total : 0..1, attended : 0..1]
  BY DEF Marks, SessionStates, CountOf
<1>2. /\ held \in [Sessions -> SessionStates] /\ mark \in [Sessions -> Marks]
      /\ tally \in [Sessions -> [total : 0..1, attended : 0..1]]
      /\ percent \in [Sessions -> Marks] /\ unlocked = Sessions
      /\ form \in [Forms -> FormRec] /\ \A t \in Forms : form[t].at = "none"
      /\ saves \in 0..MaxSaves /\ excused \in BOOLEAN
  <2>1. /\ held \in [Sessions -> SessionStates] /\ mark \in [Sessions -> Marks]
        /\ percent \in [Sessions -> Marks] /\ unlocked = Sessions
    BY <1>1 DEF SessionInit
  <2>2. tally \in [Sessions -> [total : 0..1, attended : 0..1]]
    BY <1>1 DEF SessionInit
  <2>3. form \in [Forms -> FormRec] /\ \A t \in Forms : form[t].at = "none"
    BY IdleIs DEF SessionInit
  <2>4. saves = 0 /\ excused = FALSE
    BY DEF SessionInit
  <2>5. saves \in 0..MaxSaves
    BY <2>4, SessionAssumption
  <2>6. excused \in BOOLEAN
    BY <2>4, Zenon
  <2> QED
    BY <2>1, <2>2, <2>3, <2>5, <2>6
<1>3. SessionTypeOK
  BY <1>2 DEF SessionTypeOK, FormRec
<1>4. TotalsAreCurrent
  BY DEF SessionInit, TotalsAreCurrent, Counted
<1>5. OneLock /\ \A t \in Forms : FormFits(t)
  BY <1>2 DEF OneLock, FormFits, InTransaction
<1> QED
  BY <1>3, <1>4, <1>5 DEF SessionInv

\* No step touches what a session was sent with.
LEMMA SentKeeps ==
  ASSUME SessionInv, [SessionNext]_sessionVars, NEW s \in Sessions, s \notin unlocked
  PROVE  held'[s] = held[s] /\ mark'[s] = mark[s] /\ tally'[s] = tally[s]
<1>1. ASSUME NEW t \in Forms, CommitMarks(t) \/ CommitUpdate(t)
      PROVE  held'[s] = held[s] /\ mark'[s] = mark[s] /\ tally'[s] = tally[s]
  <2>1. form[t].s # s
    BY <1>1, SessionHas DEF CommitMarks, CommitUpdate, FormFits, InTransaction
  <2> QED
    BY <1>1, <2>1, SessionHas DEF CommitMarks, CommitUpdate
<1> QED
  BY <1>1 DEF SessionNext, sessionVars, BeginMarks, BeginUpdate, BeginSessionSubmit, WriteMarks,
     WriteUpdate, FoundLocked, SubmitSession, AbandonForm, SendBack, tables

\* For any forms, sessions and number of saves: a session's counts are its marks',
\* the percentage is current but for the two reasons TotalsAreCurrent names, and a
\* session that was sent stays as it was sent.
THEOREM SessionKeepsPromises == SessionSpec => SessionPromises
<1> DEFINE Parts == SessionTypeOK /\ TotalsAreCurrent
           Stays == \A s \in Sessions :
                      s \notin unlocked => /\ held'[s] = held[s]
                                           /\ mark'[s] = mark[s]
                                           /\ tally'[s] = tally[s]
<1>1. SessionInv => Parts
  BY DEF SessionInv
<1>2. SessionInv /\ [SessionNext]_sessionVars => Stays
  BY SentKeeps
<1> HIDE DEF Parts, Stays
<1>3. SessionSpec => []Parts /\ [][Stays]_sessionVars
  BY <1>1, <1>2, SessionInitInv, SessionStep, PTL DEF SessionSpec
<1> QED
  BY <1>3 DEF Parts, Stays, SessionPromises, SentStays
-----------------------------------------------------------------------------
(***************************************************************************)
(* The data tables (DataGrid).  A session's count is current because every *)
(* session whose rows an open transaction changes is still to be counted,  *)
(* waits to be stored, or is stored with a number that is right while no   *)
(* other commit touches it; and a session that goes takes its rows because *)
(* of what the row locks keep apart.                                       *)
(***************************************************************************)
WorkRec == [at : {"none", "open", "counting"}, work : Work \cup {"none"},
            rows : SUBSET Marked, to : Places, before : [Marked -> Places],
            shown : SUBSET Marked, after : [Marked -> Places], todo : SUBSET Registers,
            waits : Places, number : [Registers -> SUBSET Marked],
            stored : SUBSET Registers, fresh : SUBSET Registers]

Counting(t) == working[t].at = "counting"

\* The sessions whose count a transaction will have written when it commits, and
\* those that need none.
Settles(t) ==
  working[t].todo \cup {working[t].waits, Nowhere} \cup working[t].stored
    \cup (Registers \ existing)

\* A transaction that puts rows into its session.
PutsRows(t) == working[t].work \in {"mark", "add", "move", "import"}

\* What a transaction holds, and what it has counted.
WorkFits(t) ==
  LET d == working[t]
  IN /\ d.at # "counting" => d.waits = Nowhere /\ d.stored = {} /\ d.fresh = {}
     /\ d.at = "counting" =>
          /\ d.work \in {"session", "drop"} => d.todo = {} /\ d.waits = Nowhere /\ d.stored = {}
          /\ d.work = "session" => d.rows = {}
          /\ d.work # "remove" => d.to \in Registers
          /\ \A r \in d.rows : d.after[r] = IF PutsRows(t) THEN d.to ELSE Nowhere
          /\ PutsRows(t) /\ d.rows # {} => d.to \in existing
          /\ d.work = "drop" => RowsIn(place, d.to) = d.rows
          /\ d.work # "drop" /\ ~Misread(t) =>
               \A r \in d.rows : d.after[r] \in Settles(t) /\ place[r] \in Settles(t)
          /\ \A s \in d.fresh : d.number[s] = RowsIn(View(t), s)

\* Two transactions hold no row in common, and one that locks a session has no
\* other that locks it or puts new rows into it.
HeldApart ==
  \A t, u \in Clerks :
    t # u /\ Counting(t) /\ Counting(u) =>
      /\ working[t].rows \cap working[u].rows = {}
      /\ \A s \in Registers : LocksSession(t, s) => ~LocksSession(u, s) /\ ~RefersTo(u, s)

GridInv ==
  /\ GridTypeOK /\ working \in [Clerks -> WorkRec]
  /\ MarksHaveSession /\ CountsAreCurrent /\ HeldApart
  /\ \A t \in Clerks : WorkFits(t)

\* What the proofs of the steps start from.
LEMMA GridHas ==
  GridInv =>
    /\ place \in [Marked -> Places] /\ tallied \in [Registers -> SUBSET Marked]
    /\ existing \subseteq Registers /\ spoiled \subseteq Registers /\ commits \in 0..MaxCommits
    /\ working \in [Clerks -> WorkRec]
    /\ \A r \in Marked : place[r] \in existing \cup {Nowhere}
    /\ \A s \in existing \ spoiled : tallied[s] = RowsIn(place, s)
    /\ HeldApart /\ \A t \in Clerks : WorkFits(t)
BY DEF GridInv, GridTypeOK, MarksHaveSession, CountsAreCurrent

\* The tables of the next state, and what each person is doing in it.
LEMMA GridSays ==
  ASSUME place' \in [Marked -> Places], tallied' \in [Registers -> SUBSET Marked],
         existing' \subseteq Registers, spoiled' \subseteq Registers, commits' \in 0..MaxCommits,
         working' \in [Clerks -> WorkRec],
         \A r \in Marked : place'[r] \in existing' \cup {Nowhere},
         \A s \in existing' \ spoiled' : tallied'[s] = RowsIn(place, s)',
         HeldApart', \A t \in Clerks : WorkFits(t)'
  PROVE  GridInv'
<1>1. GridTypeOK'
  BY DEF GridTypeOK, WorkRec
<1>2. MarksHaveSession' /\ CountsAreCurrent'
  BY DEF MarksHaveSession, CountsAreCurrent
<1> QED
  BY <1>1, <1>2 DEF GridInv

\* One who has begun nothing.
LEMMA NoWorkIs ==
  /\ NoWork \in WorkRec /\ NoWork.at = "none" /\ NoWork.waits = Nowhere
  /\ NoWork.stored = {} /\ NoWork.fresh = {}
<1> DEFINE z == NoRows
           y == [s \in Registers |-> {}]
<1>1. z \in [Marked -> Places] /\ y \in [Registers -> SUBSET Marked] /\ Nowhere \in Places
  BY DEF NoRows, Places
<1>2. NoWork = [at |-> "none", work |-> "none", rows |-> {}, to |-> Nowhere,
                before |-> z, shown |-> {}, after |-> z, todo |-> {},
                waits |-> Nowhere, number |-> y, stored |-> {}, fresh |-> {}]
  BY DEF NoWork
<1> HIDE DEF z, y
<1> QED
  BY <1>1, <1>2 DEF WorkRec

\* A person's work changes, outside a transaction or within one; the tables do not.
LEMMA WorkMoves ==
  ASSUME GridInv, NEW t \in Clerks, NEW n \in WorkRec,
         working' = [working EXCEPT ![t] = n],
         UNCHANGED <<place, tallied, existing, commits, spoiled>>,
         WorkFits(t)',
         n.at = "counting" =>
           \A u \in Clerks \ {t} : Counting(u) =>
             /\ n.rows \cap working[u].rows = {}
             /\ \A s \in Registers :
                  /\ LocksSession(t, s)' => ~LocksSession(u, s) /\ ~RefersTo(u, s)
                  /\ LocksSession(u, s) => ~LocksSession(t, s)' /\ ~RefersTo(t, s)'
  PROVE  GridInv'
<1>1. /\ working' \in [Clerks -> WorkRec] /\ working'[t] = n
      /\ \A u \in Clerks : u # t => working'[u] = working[u]
  BY GridHas
<1>2. \A u \in Clerks : u # t =>
        /\ Counting(u)' <=> Counting(u)
        /\ \A s \in Registers : /\ LocksSession(u, s)' <=> LocksSession(u, s)
                                /\ RefersTo(u, s)' <=> RefersTo(u, s)
  BY <1>1 DEF Counting, LocksSession, RefersTo
<1>3. HeldApart'
  <2> SUFFICES ASSUME NEW a \in Clerks, NEW b \in Clerks, a # b, Counting(a)', Counting(b)'
               PROVE  /\ working'[a].rows \cap working'[b].rows = {}
                      /\ \A s \in Registers :
                           LocksSession(a, s)' => ~LocksSession(b, s)' /\ ~RefersTo(b, s)'
    BY DEF HeldApart
  <2>1. CASE a = t
    BY <1>1, <1>2, <2>1 DEF Counting
  <2>2. CASE b = t
    BY <1>1, <1>2, <2>2 DEF Counting
  <2>3. CASE a # t /\ b # t
    <3>1. HeldApart /\ working'[a] = working[a] /\ working'[b] = working[b]
      BY <1>1, <2>3, GridHas
    <3>2. Counting(a) /\ Counting(b)
      BY <1>2, <2>3
    <3>3. /\ working[a].rows \cap working[b].rows = {}
          /\ \A s \in Registers : LocksSession(a, s) => ~LocksSession(b, s) /\ ~RefersTo(b, s)
      BY <3>1, <3>2, Zenon DEF HeldApart
    <3> QED
      BY <1>2, <2>3, <3>1, <3>3
  <2> QED
    BY <2>1, <2>2, <2>3
<1>4. \A u \in Clerks : WorkFits(u)'
  <2> TAKE u \in Clerks
  <2>1. CASE u # t
    <3>1. working'[u] = working[u] /\ WorkFits(u)
      BY <1>1, <2>1, GridHas
    <3> QED
      BY <3>1 DEF WorkFits, PutsRows, RowsIn, Misread, Settles, View
  <2> QED
    BY <2>1
<1> QED
  BY <1>1, <1>3, <1>4, GridHas, GridSays DEF RowsIn

\* A person is outside a transaction.
LEMMA OutsideMoves ==
  ASSUME GridInv, NEW t \in Clerks, NEW n \in WorkRec, working' = [working EXCEPT ![t] = n],
         UNCHANGED <<place, tallied, existing, commits, spoiled>>,
         n.at # "counting", n.waits = Nowhere, n.stored = {}, n.fresh = {}
  PROVE  GridInv'
<1>1. WorkFits(t)'
  BY GridHas DEF WorkFits
<1> QED
  BY <1>1, WorkMoves

\* A transaction is over.
LEMMA RollBackInv ==
  ASSUME GridInv, NEW t \in Clerks, RollBack(t)
  PROVE  GridInv'
BY NoWorkIs, OutsideMoves DEF RollBack

\* A form or a file is opened.
LEMMA FormsOpen ==
  ASSUME GridInv, NEW t \in Clerks, NEW s \in Registers,
         \/ \E rows \in SUBSET Marked : OpenForm(t, "import", rows, s)
         \/ OpenForm(t, "session", {}, s)
  PROVE  GridInv'
<1>0. /\ place \in [Marked -> Places] /\ tallied[s] \in SUBSET Marked /\ s \in Places
      /\ "import" \in Work /\ "session" \in Work
  BY GridHas DEF Places, Work
<1>1. ASSUME NEW work \in Work, NEW rows \in SUBSET Marked, OpenForm(t, work, rows, s)
      PROVE  GridInv'
  <2> DEFINE b == IF work = "import" THEN place ELSE NoWork.before
             c == IF work = "session" THEN tallied[s] ELSE NoWork.shown
             n == [NoWork EXCEPT !.at = "open", !.work = work, !.rows = rows, !.to = s,
                                 !.before = b, !.shown = c]
  <2>1. b \in [Marked -> Places] /\ c \in SUBSET Marked
    BY <1>0, NoWorkIs DEF WorkRec
  <2>2. /\ working' = [working EXCEPT ![t] = n]
        /\ UNCHANGED <<place, tallied, existing, commits, spoiled>>
    BY <1>1 DEF OpenForm
  <2> HIDE DEF b, c
  <2>3. /\ n \in WorkRec /\ n.at = "open" /\ n.waits = Nowhere
        /\ n.stored = {} /\ n.fresh = {}
    BY <1>0, <2>1, NoWorkIs DEF WorkRec
  <2> HIDE DEF n
  <2> QED
    BY <2>2, <2>3, OutsideMoves
<1> QED
  BY <1>0, <1>1

\* A transaction writes.
LEMMA WriteStarts ==
  ASSUME GridInv, NEW t \in Clerks, NEW work \in Work, NEW rows \in SUBSET Marked,
         NEW s \in Places, NEW holds \in Places, NEW todo \in SUBSET Registers,
         HoldRows(t, work, rows, s, holds, todo), working[t].at # "counting",
         s = IF work \in {"mark", "add", "move", "import"} THEN holds ELSE Nowhere,
         work \in {"session", "drop"} => todo = {},
         work = "session" => rows = {},
         work # "remove" => holds \in existing,
         work = "drop" => RowsIn(place, holds) = rows,
         work # "drop"
           /\ ~(work = "import" /\ \E r \in rows : working[t].before[r] # place[r])
           => \A r \in rows : s \in todo \cup {Nowhere} /\ place[r] \in todo \cup {Nowhere},
         work \in {"mark", "session", "drop"} =>
           \A u \in Others(t) : ~LocksSession(u, holds) /\ ~RefersTo(u, holds),
         work \in {"add", "move", "import"} /\ (\E r \in rows : place[r] # holds) =>
           \A u \in Others(t) : ~LocksSession(u, holds)
  PROVE  GridInv'
<1> DEFINE after == [r \in Marked |-> IF r \in rows THEN s ELSE Nowhere]
           d == working[t]
           n == [d EXCEPT !.at = "counting", !.work = work, !.rows = rows, !.to = holds,
                          !.todo = todo, !.after = after]
<1>1. after \in [Marked -> Places] /\ \A r \in rows : after[r] = s
  BY DEF Places
<1>2. /\ working' = [working EXCEPT ![t] = n] /\ MayWrite(t, rows)
      /\ UNCHANGED <<place, tallied, existing, commits, spoiled>>
  BY DEF HoldRows
<1>3. d \in WorkRec /\ d.waits = Nowhere /\ d.stored = {} /\ d.fresh = {}
  BY GridHas DEF WorkFits
<1>4. d = working[t]
  OBVIOUS
<1> HIDE DEF after, d
<1>5. /\ n \in WorkRec /\ n.at = "counting" /\ n.work = work /\ n.rows = rows
      /\ n.to = holds /\ n.todo = todo /\ n.after = after /\ n.before = d.before
      /\ n.waits = Nowhere /\ n.stored = {} /\ n.fresh = {}
  BY <1>1, <1>3 DEF WorkRec
<1> HIDE DEF n
<1>6. working'[t] = n
  BY <1>2, GridHas
<1>7. WorkFits(t)'
  <2>1. PutsRows(t)' <=> work \in {"mark", "add", "move", "import"}
    BY <1>5, <1>6 DEF PutsRows
  <2>2. Misread(t)' <=> work = "import" /\ \E r \in rows : d.before[r] # place[r]
    BY <1>2, <1>5, <1>6 DEF Misread
  <2>3. todo \cup {Nowhere} \subseteq Settles(t)'
    BY <1>5, <1>6 DEF Settles
  <2>4. RowsIn(place, holds)' = RowsIn(place, holds)
    BY <1>2 DEF RowsIn
  <2>5. holds \in existing' <=> holds \in existing
    BY <1>2
  <2> DEFINE P == PutsRows(t)'
             M == Misread(t)'
             A == Settles(t)'
             R == RowsIn(place, holds)'
             N == \A x \in {} : n.number[x] = RowsIn(View(t), x)'
  <2>6. N
    OBVIOUS
  <2>7. /\ n.at # "counting" => n.waits = Nowhere /\ n.stored = {} /\ n.fresh = {}
        /\ n.at = "counting" =>
          /\ n.work \in {"session", "drop"} => n.todo = {} /\ n.waits = Nowhere /\ n.stored = {}
          /\ n.work = "session" => n.rows = {}
          /\ n.work # "remove" => n.to \in Registers
          /\ \A r \in n.rows : n.after[r] = IF P THEN n.to ELSE Nowhere
          /\ P /\ n.rows # {} => n.to \in existing'
          /\ n.work = "drop" => R = n.rows
          /\ n.work # "drop" /\ ~M =>
               \A r \in n.rows : n.after[r] \in A /\ place'[r] \in A
          /\ \A x \in n.fresh : n.number[x] = RowsIn(View(t), x)'
    <3> HIDE DEF P, M, A, R
    <3> QED
      BY <1>1, <1>2, <1>4, <1>5, <2>1, <2>2, <2>3, <2>4, <2>5, GridHas DEF P, M, A, R
  <2> QED
    BY <1>5, <1>6, <2>7 DEF WorkFits
<1>8. ASSUME NEW u \in Clerks \ {t}, Counting(u)
      PROVE  /\ n.rows \cap working[u].rows = {}
             /\ \A x \in Registers :
                  /\ LocksSession(t, x)' => ~LocksSession(u, x) /\ ~RefersTo(u, x)
                  /\ LocksSession(u, x) => ~LocksSession(t, x)' /\ ~RefersTo(t, x)'
  <2>1. u \in Others(t)
    BY <1>8 DEF Others, Counting
  <2>2. n.rows \cap working[u].rows = {}
    BY <1>2, <1>5, <2>1 DEF MayWrite
  <2>3. \A x \in Registers :
          /\ LocksSession(t, x)' <=> work \in {"mark", "session", "drop"} /\ x = holds
          /\ RefersTo(t, x)' <=> /\ work \in {"add", "move", "import"} /\ x = holds
                                 /\ \E r \in rows : place[r] # x
    BY <1>2, <1>5, <1>6 DEF LocksSession, RefersTo
  <2> QED
    BY <2>1, <2>2, <2>3
<1> QED
  BY <1>2, <1>5, <1>7, <1>8, WorkMoves

\* One with nothing open has no transaction, nor has one with a form or a file open.
LEMMA NotCounting ==
  ASSUME NEW t \in Clerks, Fresh(t) \/ \E work \in Work : Opened(t, work)
  PROVE  working[t].at # "counting"
BY DEF Fresh, Opened

\* The writes of marks, of rows and of sessions.
LEMMA RowWritesInv ==
  ASSUME GridInv, NEW t \in Clerks, NEW s \in Registers,
         \/ \E rows \in SUBSET Marked : WriteMarking(t, rows, s) \/ WriteAdded(t, rows, s)
         \/ \E r \in Marked : WriteMoved(t, r, s)
         \/ WriteDropped(t, s)
  PROVE  GridInv'
<1>0. /\ place \in [Marked -> Places] /\ s \in Places /\ Nowhere \in Places
      /\ s # Nowhere /\ {s} \in SUBSET Registers
      /\ \A r \in Marked : place[r] \in existing \cup {Nowhere}
      /\ {"mark", "add", "move", "drop"} \subseteq Work
      /\ RowsIn(place, s) \in SUBSET Marked
  BY GridHas, GridAssumption DEF Places, Work, RowsIn
<1>1. ASSUME NEW rows \in SUBSET Marked, WriteMarking(t, rows, s)
      PROVE  GridInv'
  <2>1. /\ s \in existing /\ \A r \in rows : place[r] \in {Nowhere, s}
        /\ HoldRows(t, "mark", rows, s, s, {s}) /\ working[t].at # "counting"
        /\ \A u \in Others(t) : ~LocksSession(u, s) /\ ~RefersTo(u, s)
    BY <1>1, NotCounting DEF WriteMarking, MayLock
  <2> QED
    BY <1>0, <2>1, WriteStarts
<1>2. ASSUME NEW rows \in SUBSET Marked, WriteAdded(t, rows, s)
      PROVE  GridInv'
  <2>1. /\ s \in existing /\ \A r \in rows : place[r] = Nowhere
        /\ HoldRows(t, "add", rows, s, s, {s}) /\ working[t].at # "counting"
        /\ (\E r \in rows : place[r] # s) => \A u \in Others(t) : ~LocksSession(u, s)
    BY <1>2, NotCounting DEF WriteAdded, MayRefer
  <2> QED
    BY <1>0, <2>1, WriteStarts
<1>3. ASSUME NEW r \in Marked, WriteMoved(t, r, s)
      PROVE  GridInv'
  <2> DEFINE rows == {r}
             todo == {place[r], s}
  <2>1. /\ s \in existing /\ place[r] # Nowhere
        /\ HoldRows(t, "move", rows, s, s, todo) /\ working[t].at # "counting"
        /\ (\E x \in rows : place[x] # s) => \A u \in Others(t) : ~LocksSession(u, s)
    BY <1>3, NotCounting DEF WriteMoved, MayRefer, BothSides
  <2>2. rows \in SUBSET Marked /\ todo \in SUBSET Registers
    BY <1>0, <2>1 DEF Places
  <2>3. \A x \in rows : s \in todo /\ place[x] \in todo
    OBVIOUS
  <2> HIDE DEF rows, todo
  <2> QED
    BY <1>0, <2>1, <2>2, <2>3, WriteStarts
<1>4. CASE WriteDropped(t, s)
  <2> DEFINE rows == RowsIn(place, s)
  <2>1. /\ s \in existing
        /\ HoldRows(t, "drop", rows, Nowhere, s, {}) /\ working[t].at # "counting"
        /\ \A u \in Others(t) : ~LocksSession(u, s) /\ ~RefersTo(u, s)
    BY <1>4, NotCounting DEF WriteDropped, MayLock
  <2> QED
    BY <1>0, <2>1, WriteStarts
<1> QED
  BY <1>1, <1>2, <1>3, <1>4

\* Rows are deleted.
LEMMA RemovalInv ==
  ASSUME GridInv, NEW t \in Clerks, NEW rows \in SUBSET Marked, WriteRemoved(t, rows)
  PROVE  GridInv'
<1> DEFINE todo == {place[r] : r \in rows}
<1>1. /\ HoldRows(t, "remove", rows, Nowhere, Nowhere, todo) /\ working[t].at # "counting"
      /\ \A r \in rows : place[r] # Nowhere
  BY NotCounting DEF WriteRemoved
<1>2. todo \in SUBSET Registers /\ Nowhere \in Places /\ "remove" \in Work
  BY <1>1, GridHas DEF Places, Work
<1>3. \A r \in rows : place[r] \in todo
  OBVIOUS
<1> HIDE DEF todo
<1> QED
  BY <1>1, <1>2, <1>3, WriteStarts

\* A file is imported, and a session saved.
LEMMA FilesInv ==
  ASSUME GridInv, NEW t \in Clerks, WriteImported(t) \/ WriteSession(t)
  PROVE  GridInv'
<1> DEFINE s == working[t].to
<1>0. /\ place \in [Marked -> Places] /\ working[t] \in WorkRec /\ existing \subseteq Registers
      /\ "import" \in Work /\ "session" \in Work /\ s \in Places /\ Nowhere \in Places
  BY GridHas DEF WorkRec, Work, Places
<1>1. CASE WriteImported(t)
  <2> DEFINE rows == Accepted(t)
             todo == FileSessions(t)
  <2>1. /\ s \in existing /\ HoldRows(t, "import", rows, s, s, todo) /\ working[t].at # "counting"
        /\ (\E r \in rows : place[r] # s) => \A u \in Others(t) : ~LocksSession(u, s)
    BY <1>1 DEF WriteImported, Opened, MayRefer
  <2>2. rows \in SUBSET Marked /\ \A r \in rows : r \in working[t].rows
    BY <1>0 DEF Accepted, WorkRec
  <2>3. todo \in SUBSET Registers
    BY <1>0 DEF FileSessions, WorkRec, Places
  <2>4. s \in todo
    BY <1>0, <2>1, GridAssumption DEF FileSessions
  <2>5. \A r \in rows : working[t].before[r] = place[r] => place[r] \in todo \cup {Nowhere}
    BY <1>0, <2>2 DEF FileSessions
  <2> HIDE DEF rows, todo
  <2> QED
    BY <1>0, <2>1, <2>2, <2>3, <2>4, <2>5, WriteStarts
<1>2. CASE WriteSession(t)
  <2>1. /\ s \in existing /\ HoldRows(t, "session", {}, Nowhere, s, {}) /\ working[t].at # "counting"
        /\ \A u \in Others(t) : ~LocksSession(u, s) /\ ~RefersTo(u, s)
    BY <1>2 DEF WriteSession, Opened, MayLock
  <2> QED
    BY <1>0, <2>1, WriteStarts
<1> QED
  BY <1>1, <1>2

\* A transaction counts and stores: its rows, its session and what it made of them
\* stay, and the sessions it settles do.
LEMMA CountMoves ==
  ASSUME GridInv, NEW t \in Clerks, NEW n \in WorkRec, Counting(t),
         working' = [working EXCEPT ![t] = n],
         UNCHANGED <<place, tallied, existing, commits, spoiled>>,
         n.at = "counting", n.work = working[t].work, n.rows = working[t].rows,
         n.to = working[t].to, n.before = working[t].before, n.after = working[t].after,
         Settles(t) \subseteq Settles(t)',
         working[t].work \notin {"session", "drop"},
         \A s \in n.fresh : n.number[s] = RowsIn(View(t), s)
  PROVE  GridInv'
<1> DEFINE d == working[t]
<1>1. /\ working'[t] = n /\ WorkFits(t) /\ d.at = "counting"
      /\ \A u \in Clerks : u # t => working'[u] = working[u]
  BY GridHas DEF Counting
<1>2. /\ PutsRows(t)' <=> PutsRows(t)
      /\ Misread(t)' <=> Misread(t)
      /\ \A s : RowsIn(View(t), s)' = RowsIn(View(t), s)
  BY <1>1 DEF PutsRows, Misread, RowsIn, View
<1>3. WorkFits(t)'
  <2>1. /\ \A r \in d.rows : d.after[r] = IF PutsRows(t) THEN d.to ELSE Nowhere
        /\ PutsRows(t) /\ d.rows # {} => d.to \in existing
        /\ d.work # "remove" => d.to \in Registers
        /\ ~Misread(t) => \A r \in d.rows : d.after[r] \in Settles(t) /\ place[r] \in Settles(t)
    BY <1>1 DEF WorkFits
  <2> DEFINE P == PutsRows(t)'
             M == Misread(t)'
             A == Settles(t)'
             R == RowsIn(place, n.to)'
  <2>2. \A s \in n.fresh : n.number[s] = RowsIn(View(t), s)'
    BY <1>2
  <2>3. /\ n.at # "counting" => n.waits = Nowhere /\ n.stored = {} /\ n.fresh = {}
        /\ n.at = "counting" =>
          /\ n.work \in {"session", "drop"} => n.todo = {} /\ n.waits = Nowhere /\ n.stored = {}
          /\ n.work = "session" => n.rows = {}
          /\ n.work # "remove" => n.to \in Registers
          /\ \A r \in n.rows : n.after[r] = IF P THEN n.to ELSE Nowhere
          /\ P /\ n.rows # {} => n.to \in existing'
          /\ n.work = "drop" => R = n.rows
          /\ n.work # "drop" /\ ~M =>
               \A r \in n.rows : n.after[r] \in A /\ place'[r] \in A
          /\ \A s \in n.fresh : n.number[s] = RowsIn(View(t), s)'
    <3>1. (P <=> PutsRows(t)) /\ (M <=> Misread(t)) /\ Settles(t) \subseteq A
      BY <1>2
    <3> HIDE DEF P, M, A, R
    <3> QED
      BY <2>1, <2>2, <3>1
  <2> QED
    BY <1>1, <2>3 DEF WorkFits
<1>4. ASSUME NEW u \in Clerks \ {t}, Counting(u)
      PROVE  /\ n.rows \cap working[u].rows = {}
             /\ \A s \in Registers :
                  /\ LocksSession(t, s)' => ~LocksSession(u, s) /\ ~RefersTo(u, s)
                  /\ LocksSession(u, s) => ~LocksSession(t, s)' /\ ~RefersTo(t, s)'
  <2>1. \A s \in Registers : /\ LocksSession(t, s)' <=> LocksSession(t, s)
                             /\ RefersTo(t, s)' <=> RefersTo(t, s)
    BY <1>1 DEF LocksSession, RefersTo
  <2>2. HeldApart
    BY GridHas
  <2>3. /\ working[t].rows \cap working[u].rows = {}
        /\ \A s \in Registers : /\ LocksSession(t, s) => ~LocksSession(u, s) /\ ~RefersTo(u, s)
                                /\ LocksSession(u, s) => ~LocksSession(t, s) /\ ~RefersTo(t, s)
    BY <1>4, <2>2 DEF HeldApart
  <2> QED
    BY <2>1, <2>3
<1> QED
  BY <1>3, <1>4, WorkMoves

\* The SELECT of a count.
LEMMA CountInv ==
  ASSUME GridInv, NEW t \in Clerks, NEW s \in Registers, CountRows(t, s)
  PROVE  GridInv'
<1> DEFINE d == working[t]
           todo == d.todo \ {s}
           waits == IF s \in existing THEN s ELSE Nowhere
           counts == [d.number EXCEPT ![s] = RowsIn(View(t), s)]
           fresh == d.fresh \cup {s}
           n == [d EXCEPT !.todo = todo, !.waits = waits, !.number = counts, !.fresh = fresh]
<1>1. d.at = "counting" /\ d.waits = Nowhere /\ s \in d.todo /\ Counting(t)
  BY DEF CountRows, Counting
<1>2. /\ working' = [working EXCEPT ![t] = n]
      /\ UNCHANGED <<place, tallied, existing, commits, spoiled>>
  BY DEF CountRows, Seen
<1>3. d \in WorkRec /\ WorkFits(t)
  BY GridHas
<1>4. /\ d.work \notin {"session", "drop"}
      /\ \A x \in d.fresh : d.number[x] = RowsIn(View(t), x)
  BY <1>1, <1>3 DEF WorkFits
<1>5. /\ todo \in SUBSET Registers /\ waits \in Places /\ fresh \in SUBSET Registers
      /\ RowsIn(View(t), s) \in SUBSET Marked /\ d.number \in [Registers -> SUBSET Marked]
  BY <1>3 DEF WorkRec, Places, RowsIn
<1>6. /\ counts \in [Registers -> SUBSET Marked]
      /\ \A x \in fresh : counts[x] = RowsIn(View(t), x)
  BY <1>3, <1>4, <1>5 DEF WorkRec
<1>7. d.todo \subseteq todo \cup {waits, Nowhere} \cup (Registers \ existing)
  BY <1>3, <1>1
<1>8. d = working[t]
  OBVIOUS
<1> HIDE DEF todo, waits, counts, fresh, d
<1>9. /\ n \in WorkRec /\ n.at = d.at /\ n.work = d.work /\ n.rows = d.rows /\ n.to = d.to
      /\ n.before = d.before /\ n.after = d.after /\ n.todo = todo /\ n.waits = waits
      /\ n.stored = d.stored /\ n.number = counts /\ n.fresh = fresh
  BY <1>3, <1>5, <1>6 DEF WorkRec
<1> HIDE DEF n
<1>10. working'[t] = n
  BY <1>2, GridHas
<1>11. Settles(t) \subseteq Settles(t)'
  BY <1>1, <1>2, <1>7, <1>8, <1>9, <1>10 DEF Settles
<1> QED
  BY <1>1, <1>2, <1>4, <1>6, <1>8, <1>9, <1>11, CountMoves

\* The UPDATE of a count.
LEMMA StoreInv ==
  ASSUME GridInv, NEW t \in Clerks, StoreCount(t)
  PROVE  GridInv'
<1> DEFINE d == working[t]
           s == d.waits
           stored == IF s \in existing THEN d.stored \cup {s} ELSE d.stored
           n == [d EXCEPT !.waits = Nowhere, !.stored = stored]
<1>1. s # Nowhere
  BY DEF StoreCount
<1>2. /\ working' = [working EXCEPT ![t] = n]
      /\ UNCHANGED <<place, tallied, existing, commits, spoiled>>
  BY DEF StoreCount
<1>3. d \in WorkRec /\ WorkFits(t) /\ s \in Registers
  BY <1>1, GridHas DEF WorkRec, Places
<1>4. /\ d.at = "counting" /\ Counting(t) /\ d.work \notin {"session", "drop"}
      /\ \A x \in d.fresh : d.number[x] = RowsIn(View(t), x)
  BY <1>1, <1>3 DEF WorkFits, Counting
<1>5. /\ stored \in SUBSET Registers /\ Nowhere \in Places
      /\ d.stored \cup {s} \subseteq stored \cup (Registers \ existing)
  BY <1>3 DEF WorkRec, Places
<1>6. d = working[t] /\ s = d.waits
  OBVIOUS
<1> HIDE DEF stored, s, d
<1>7. /\ n \in WorkRec /\ n.at = d.at /\ n.work = d.work /\ n.rows = d.rows /\ n.to = d.to
      /\ n.before = d.before /\ n.after = d.after /\ n.todo = d.todo /\ n.waits = Nowhere
      /\ n.stored = stored /\ n.number = d.number /\ n.fresh = d.fresh
  BY <1>3, <1>5 DEF WorkRec
<1> HIDE DEF n
<1>8. working'[t] = n
  BY <1>2, GridHas
<1>9. Settles(t) \subseteq Settles(t)'
  BY <1>2, <1>5, <1>6, <1>7, <1>8 DEF Settles
<1> QED
  BY <1>2, <1>4, <1>6, <1>7, <1>9, CountMoves

\* Where the rows are after a commit: each session's, of those it touched and of those
\* another transaction holds.
LEMMA RowsAfter ==
  ASSUME GridInv, NEW t \in Clerks, Counting(t)
  PROVE  /\ View(t) \in [Marked -> Places]
         /\ \A r \in Marked : View(t)[r] = IF r \in working[t].rows THEN working[t].after[r]
                                           ELSE place[r]
         /\ \A u \in Clerks : u # t /\ Counting(u) =>
              \A r \in working[u].rows : r \notin working[t].rows /\ View(t)[r] = place[r]
<1>1. /\ place \in [Marked -> Places] /\ working[t] \in WorkRec /\ HeldApart
      /\ \A u \in Clerks : working[u].rows \subseteq Marked
  BY GridHas DEF WorkRec
<1>2. View(t) \in [Marked -> Places]
  BY <1>1 DEF View, WorkRec
<1>3. \A u \in Clerks : u # t /\ Counting(u) => working[t].rows \cap working[u].rows = {}
  BY <1>1 DEF HeldApart
<1> QED
  BY <1>1, <1>2, <1>3 DEF View

\* A transaction's commit leaves every mark a session.
LEMMA CommitKeepsSessions ==
  ASSUME GridInv, NEW t \in Clerks, CommitWork(t)
  PROVE  \A r \in Marked : place'[r] \in existing' \cup {Nowhere}
<1> DEFINE d == working[t]
<1>1. /\ d.at = "counting" /\ Counting(t) /\ place' = View(t)
      /\ existing' = IF d.work = "drop" THEN existing \ {d.to} ELSE existing
  BY DEF CommitWork, Counting
<1>2. /\ PutsRows(t) => d.work # "drop"
      /\ \A r \in d.rows : d.after[r] = IF PutsRows(t) THEN d.to ELSE Nowhere
      /\ PutsRows(t) /\ d.rows # {} => d.to \in existing
      /\ d.work = "drop" => RowsIn(place, d.to) = d.rows
  BY <1>1, GridHas DEF WorkFits, PutsRows
<1>3. \A r \in Marked : r \notin d.rows /\ d.work = "drop" => place[r] # d.to
  BY <1>2 DEF RowsIn
<1>4. \A r \in Marked : View(t)[r] = IF r \in d.rows THEN d.after[r] ELSE place[r]
  BY <1>1, RowsAfter
<1> QED
  BY <1>1, <1>2, <1>3, <1>4, GridHas

\* It leaves the counts current that it does not spoil.
LEMMA CommitKeepsCounts ==
  ASSUME GridInv, NEW t \in Clerks, CommitWork(t)
  PROVE  \A s \in existing' \ spoiled' : tallied'[s] = RowsIn(place, s)'
<1> DEFINE d == working[t]
<1>1. /\ d.at = "counting" /\ d.todo = {} /\ d.waits = Nowhere /\ Counting(t)
      /\ place' = View(t) /\ existing' = IF d.work = "drop" THEN existing \ {d.to} ELSE existing
  BY DEF CommitWork, Counting
<1>2. /\ d \in WorkRec /\ existing \subseteq Registers /\ WorkFits(t)
      /\ \A s \in existing \ spoiled : tallied[s] = RowsIn(place, s)
  BY GridHas
<1>3. /\ d.work \in {"session", "drop"} => d.stored = {}
      /\ d.work = "session" => d.rows = {}
      /\ \A r \in d.rows : d.after[r] = IF PutsRows(t) THEN d.to ELSE Nowhere
      /\ d.work = "drop" => RowsIn(place, d.to) = d.rows
      /\ d.work # "drop" /\ ~Misread(t) =>
           \A r \in d.rows : d.after[r] \in Settles(t) /\ place[r] \in Settles(t)
      /\ \A s \in d.fresh : d.number[s] = RowsIn(View(t), s)
  BY <1>1, <1>2 DEF WorkFits
<1>4. \A s \in existing : s \in Settles(t) => s \in d.stored
  BY <1>1, <1>2, GridAssumption DEF Settles
<1>5. \A r \in Marked : View(t)[r] = IF r \in d.rows THEN d.after[r] ELSE place[r]
  BY <1>1, RowsAfter
<1> SUFFICES ASSUME NEW s \in existing', s \notin spoiled'
             PROVE  tallied'[s] = RowsIn(View(t), s)
  BY <1>1 DEF RowsIn
<1>6. s \in existing /\ s \in Registers /\ s # Nowhere
  BY <1>1, <1>2, GridAssumption
<1>7. /\ d.work = "session" /\ s = d.to =>
           d.shown = tallied[s] /\ tallied'[s] = d.shown
      /\ ~(d.work = "session" /\ s = d.to) =>
           tallied'[s] = IF s \in d.stored THEN d.number[s] ELSE tallied[s]
      /\ s \in d.stored => s \in d.fresh
      /\ s \notin d.stored => s \notin spoiled
      /\ Misread(t) /\ s \notin d.stored => s \notin Touched(t)
  BY <1>6 DEF CommitWork
<1>8. CASE s \in d.stored
  BY <1>3, <1>7, <1>8
<1>9. CASE s \notin d.stored
  <2>1. tallied'[s] = tallied[s] /\ tallied[s] = RowsIn(place, s)
    BY <1>2, <1>6, <1>7, <1>9
  <2>2. RowsIn(View(t), s) = RowsIn(place, s)
    <3>1. CASE d.work = "drop"
      <4>1. s # d.to /\ \A r \in d.rows : place[r] = d.to /\ d.after[r] = Nowhere
        BY <1>1, <1>3, <3>1 DEF RowsIn, PutsRows
      <4> QED
        BY <1>5, <1>6, <4>1 DEF RowsIn
    <3>2. CASE d.work # "drop" /\ ~Misread(t)
      <4>1. \A r \in d.rows : d.after[r] # s /\ place[r] # s
        BY <1>3, <1>4, <1>6, <1>9, <3>2
      <4> QED
        BY <1>5, <4>1 DEF RowsIn
    <3>3. CASE Misread(t)
      BY <1>6, <1>7, <1>9, <3>3 DEF Touched
    <3> QED
      BY <3>1, <3>2, <3>3
  <2> QED
    BY <2>1, <2>2
<1> QED
  BY <1>8, <1>9

\* And the transactions of the others as they were, but for the counts it touched.
LEMMA CommitKeepsOthers ==
  ASSUME GridInv, NEW t \in Clerks, CommitWork(t), NEW u \in Clerks, u # t, Counting(u),
         NEW n \in WorkRec, working'[u] = n,
         n.at = "counting", n.work = working[u].work, n.rows = working[u].rows,
         n.to = working[u].to, n.before = working[u].before, n.after = working[u].after,
         n.todo = working[u].todo, n.waits = working[u].waits,
         n.stored = working[u].stored, n.number = working[u].number,
         n.fresh = working[u].fresh \ Touched(t)
  PROVE  WorkFits(u)'
<1> DEFINE d == working[t]
           e == working[u]
<1>1. /\ d.at = "counting" /\ e.at = "counting" /\ Counting(t) /\ place' = View(t)
      /\ existing' = IF d.work = "drop" THEN existing \ {d.to} ELSE existing
  BY DEF CommitWork, Counting
<1>2. /\ d \in WorkRec /\ e \in WorkRec /\ WorkFits(t) /\ WorkFits(u)
      /\ existing \subseteq Registers /\ HeldApart
  BY GridHas
<1>3. /\ \A r \in Marked : View(t)[r] = IF r \in d.rows THEN d.after[r] ELSE place[r]
      /\ \A r \in e.rows : r \notin d.rows /\ View(t)[r] = place[r]
  BY <1>1, RowsAfter
<1>4. \A s \in Registers : /\ LocksSession(t, s) => ~LocksSession(u, s) /\ ~RefersTo(u, s)
                           /\ LocksSession(u, s) => ~LocksSession(t, s) /\ ~RefersTo(t, s)
  BY <1>1, <1>2 DEF HeldApart
<1>5. /\ d.work = "session" => d.rows = {}
      /\ d.work # "remove" => d.to \in Registers
      /\ \A r \in d.rows : d.after[r] = IF PutsRows(t) THEN d.to ELSE Nowhere
      /\ d.work = "drop" => RowsIn(place, d.to) = d.rows
  BY <1>1, <1>2 DEF WorkFits
<1>6. /\ e.work \in {"session", "drop"} => e.todo = {} /\ e.waits = Nowhere /\ e.stored = {}
      /\ e.work = "session" => e.rows = {}
      /\ e.work # "remove" => e.to \in Registers
      /\ \A r \in e.rows : e.after[r] = IF PutsRows(u) THEN e.to ELSE Nowhere
      /\ PutsRows(u) /\ e.rows # {} => e.to \in existing
      /\ e.work = "drop" => RowsIn(place, e.to) = e.rows
      /\ e.work # "drop" /\ ~Misread(u) =>
           \A r \in e.rows : e.after[r] \in Settles(u) /\ place[r] \in Settles(u)
      /\ \A s \in e.fresh : e.number[s] = RowsIn(View(u), s)
  BY <1>1, <1>2 DEF WorkFits
<1>7. (PutsRows(u)' <=> PutsRows(u)) /\ (Misread(u)' <=> Misread(u))
  BY <1>1, <1>3 DEF PutsRows, Misread
<1>8. Settles(u) \subseteq Settles(u)'
  BY <1>1 DEF Settles
<1>9. PutsRows(u) /\ e.rows # {} => e.to \in existing'
  <2>1. CASE d.work = "drop" /\ e.to = d.to /\ PutsRows(u) /\ e.rows # {}
    <3>1. d.to \in Registers /\ ~LocksSession(u, d.to) /\ ~RefersTo(u, d.to)
      BY <1>4, <1>5, <2>1 DEF LocksSession
    <3>2. e.work \in {"add", "move", "import"}
      BY <2>1, <3>1 DEF LocksSession, PutsRows
    <3>3. \A r \in e.rows : place[r] = d.to
      BY <2>1, <3>1, <3>2 DEF RefersTo
    <3>4. \A r \in e.rows : r \in d.rows
      BY <1>2, <1>5, <2>1, <3>3 DEF RowsIn, WorkRec
    <3> QED
      BY <1>3, <2>1, <3>4
  <2> QED
    BY <1>1, <1>6, <2>1
<1>10. e.work = "drop" => RowsIn(View(t), e.to) = e.rows
  <2> SUFFICES ASSUME e.work = "drop" PROVE RowsIn(View(t), e.to) = e.rows
    OBVIOUS
  <2>1. /\ e.to \in Registers /\ e.to # Nowhere /\ RowsIn(place, e.to) = e.rows
        /\ ~LocksSession(t, e.to) /\ ~RefersTo(t, e.to)
    BY <1>4, <1>6, GridAssumption DEF LocksSession
  <2>2. ASSUME NEW r \in d.rows, d.after[r] = e.to
        PROVE  FALSE
    <3>1. PutsRows(t) /\ d.to = e.to
      BY <1>5, <2>1, <2>2
    <3>2. d.work \in {"add", "move", "import"}
      BY <2>1, <3>1 DEF LocksSession, PutsRows
    <3>3. place[r] = e.to
      BY <2>1, <3>1, <3>2 DEF RefersTo
    <3>4. r \in e.rows
      BY <1>2, <2>1, <3>3 DEF RowsIn, WorkRec
    <3> QED
      BY <1>3, <3>4
  <2>3. \A r \in Marked : View(t)[r] = e.to <=> place[r] = e.to
    <3> TAKE r \in Marked
    <3>1. place[r] = e.to => r \in e.rows
      BY <2>1 DEF RowsIn
    <3> QED
      BY <1>3, <2>2, <3>1
  <2> QED
    BY <2>1, <2>3 DEF RowsIn
<1>11. \A s \in n.fresh : n.number[s] = RowsIn(View(u), s)'
  <2> TAKE s \in n.fresh
  <2>1. s \in e.fresh /\ s \in Registers /\ RowsIn(View(t), s) = RowsIn(place, s)
    BY <1>2 DEF Touched, WorkRec
  <2>2. \A r \in Marked : View(t)[r] = s <=> place[r] = s
    BY <2>1 DEF RowsIn
  <2>3. RowsIn(View(u), s)' = {r \in Marked : (IF r \in e.rows THEN e.after[r] ELSE View(t)[r]) = s}
    BY <1>1 DEF RowsIn, View
  <2>4. RowsIn(View(u), s) = {r \in Marked : (IF r \in e.rows THEN e.after[r] ELSE place[r]) = s}
    BY DEF RowsIn, View
  <2> QED
    BY <1>6, <2>1, <2>2, <2>3, <2>4
<1> DEFINE P == PutsRows(u)'
           M == Misread(u)'
           A == Settles(u)'
           R == RowsIn(place, n.to)'
<1>12. R = RowsIn(View(t), e.to)
  BY <1>1 DEF RowsIn
<1>13. /\ n.at # "counting" => n.waits = Nowhere /\ n.stored = {} /\ n.fresh = {}
       /\ n.at = "counting" =>
          /\ n.work \in {"session", "drop"} => n.todo = {} /\ n.waits = Nowhere /\ n.stored = {}
          /\ n.work = "session" => n.rows = {}
          /\ n.work # "remove" => n.to \in Registers
          /\ \A r \in n.rows : n.after[r] = IF P THEN n.to ELSE Nowhere
          /\ P /\ n.rows # {} => n.to \in existing'
          /\ n.work = "drop" => R = n.rows
          /\ n.work # "drop" /\ ~M =>
               \A r \in n.rows : n.after[r] \in A /\ place'[r] \in A
          /\ \A s \in n.fresh : n.number[s] = RowsIn(View(u), s)'
  <2>1. (P <=> PutsRows(u)) /\ (M <=> Misread(u)) /\ Settles(u) \subseteq A
    BY <1>7, <1>8
  <2>2. \A r \in e.rows : place'[r] = place[r]
    BY <1>1, <1>3
  <2> HIDE DEF P, M, A, R, d
  <2> QED
    BY <1>6, <1>9, <1>10, <1>11, <1>12, <2>1, <2>2
<1> QED
  BY <1>13 DEF WorkFits

\* A commit.
LEMMA CommitInv ==
  ASSUME GridInv, NEW t \in Clerks, CommitWork(t)
  PROVE  GridInv'
<1> DEFINE d == working[t]
           touched == Touched(t)
           m(u) == [working[u] EXCEPT !.fresh = working[u].fresh \ touched]
<1>1. /\ Counting(t) /\ place' = View(t) /\ commits < MaxCommits /\ commits' = commits + 1
      /\ existing' = IF d.work = "drop" THEN existing \ {d.to} ELSE existing
  BY DEF CommitWork, Counting
<1>2. /\ working \in [Clerks -> WorkRec] /\ existing \subseteq Registers
      /\ spoiled \subseteq Registers /\ tallied \in [Registers -> SUBSET Marked]
      /\ commits \in 0..MaxCommits /\ HeldApart /\ \A u \in Clerks : WorkFits(u)
      /\ touched \subseteq Registers
  BY GridHas DEF Touched
<1>3. \A u \in Clerks :
        /\ m(u) \in WorkRec /\ m(u).at = working[u].at /\ m(u).work = working[u].work
        /\ m(u).rows = working[u].rows /\ m(u).to = working[u].to
        /\ m(u).before = working[u].before /\ m(u).after = working[u].after
        /\ m(u).todo = working[u].todo /\ m(u).waits = working[u].waits
        /\ m(u).stored = working[u].stored /\ m(u).number = working[u].number
        /\ m(u).fresh = working[u].fresh \ touched
  <2> TAKE u \in Clerks
  <2> DEFINE fresh == working[u].fresh \ touched
  <2>1. working[u] \in WorkRec
    BY <1>2
  <2>2. fresh \in SUBSET Registers
    BY <2>1 DEF WorkRec
  <2> HIDE DEF fresh
  <2> QED
    BY <2>1, <2>2 DEF WorkRec
<1>4. working' = [u \in Clerks |-> IF u = t THEN NoWork ELSE m(u)]
  BY DEF CommitWork
<1>5. touched = Touched(t)
  OBVIOUS
<1> HIDE DEF touched, m
<1>6. /\ working' \in [Clerks -> WorkRec] /\ working'[t] = NoWork
      /\ \A u \in Clerks : u # t => working'[u] = m(u)
  BY <1>3, <1>4, NoWorkIs
<1>7. place' \in [Marked -> Places] /\ existing' \subseteq Registers /\ commits' \in 0..MaxCommits
  BY <1>1, <1>2, RowsAfter, GridAssumption
<1>8. tallied' \in [Registers -> SUBSET Marked] /\ spoiled' \subseteq Registers
  <2>1. d \in WorkRec
    BY <1>2
  <2>2. d.stored \in SUBSET Registers /\ d.shown \in SUBSET Marked
        /\ d.number \in [Registers -> SUBSET Marked]
    BY <2>1 DEF WorkRec
  <2>3. tallied' \in [Registers -> SUBSET Marked]
    BY <1>2, <2>2 DEF CommitWork
  <2>4. d.work = "session" => d.to \in Registers
    BY <1>1, <1>2 DEF WorkFits, Counting
  <2>5. spoiled' \subseteq Registers
    BY <1>2, <1>5, <2>2, <2>4 DEF CommitWork
  <2> QED
    BY <2>3, <2>5
<1>9. HeldApart'
  <2> SUFFICES ASSUME NEW a \in Clerks, NEW b \in Clerks, a # b, Counting(a)', Counting(b)'
               PROVE  /\ working'[a].rows \cap working'[b].rows = {}
                      /\ \A s \in Registers :
                           LocksSession(a, s)' => ~LocksSession(b, s)' /\ ~RefersTo(b, s)'
    BY DEF HeldApart
  <2>1. /\ a # t /\ b # t /\ Counting(a) /\ Counting(b)
        /\ working'[a] = m(a) /\ working'[b] = m(b)
    BY <1>3, <1>6, NoWorkIs DEF Counting
  <2>2. \A r \in working[b].rows : place'[r] = place[r]
    BY <1>1, <2>1, RowsAfter
  <2>3. \A s \in Registers : /\ LocksSession(a, s)' <=> LocksSession(a, s)
                             /\ LocksSession(b, s)' <=> LocksSession(b, s)
                             /\ RefersTo(b, s)' <=> RefersTo(b, s)
    BY <1>3, <2>1, <2>2 DEF LocksSession, RefersTo
  <2>4. /\ working[a].rows \cap working[b].rows = {}
        /\ \A s \in Registers : LocksSession(a, s) => ~LocksSession(b, s) /\ ~RefersTo(b, s)
    BY <1>2, <2>1 DEF HeldApart
  <2> QED
    BY <1>3, <2>1, <2>3, <2>4
<1>10. \A u \in Clerks : WorkFits(u)'
  <2> TAKE u \in Clerks
  <2>1. CASE u = t
    BY <1>6, <2>1, NoWorkIs DEF WorkFits
  <2>2. CASE u # t /\ ~Counting(u)
    BY <1>2, <1>3, <1>6, <2>2 DEF WorkFits, Counting
  <2>3. CASE u # t /\ Counting(u)
    <3>1. working[u].at = "counting"
      BY <2>3 DEF Counting
    <3> QED
      BY <1>3, <1>5, <1>6, <2>3, <3>1, CommitKeepsOthers
  <2> QED
    BY <2>1, <2>2, <2>3
<1> QED
  BY <1>6, <1>7, <1>8, <1>9, <1>10, CommitKeepsSessions, CommitKeepsCounts, GridSays

\* A step keeps the tables right.
LEMMA GridStep == GridInv /\ [GridNext]_gridVars => GridInv'
<1> SUFFICES ASSUME GridInv, [GridNext]_gridVars PROVE GridInv'
  OBVIOUS
<1>1. CASE UNCHANGED gridVars
  <2>1. UNCHANGED <<place, tallied, existing, working, commits, spoiled>>
    BY <1>1 DEF gridVars
  <2>2. HeldApart' <=> HeldApart
    BY <2>1 DEF HeldApart, Counting, LocksSession, RefersTo
  <2>3. \A t \in Clerks : WorkFits(t)' <=> WorkFits(t)
    BY <2>1 DEF WorkFits, RowsIn, PutsRows, Misread, Settles, View
  <2>4. GridTypeOK' /\ MarksHaveSession' /\ CountsAreCurrent'
    BY <2>1 DEF GridInv, GridTypeOK, MarksHaveSession, CountsAreCurrent, RowsIn
  <2> QED
    BY <2>1, <2>2, <2>3, <2>4 DEF GridInv
<1>2. CASE GridNext
  <2> PICK t \in Clerks :
        \/ \E s \in Registers :
             \/ \E rows \in SUBSET Marked \ {{}} :
                  \/ WriteMarking(t, rows, s) \/ WriteAdded(t, rows, s)
                  \/ OpenForm(t, "import", rows, s)
             \/ \E r \in Marked : WriteMoved(t, r, s)
             \/ OpenForm(t, "session", {}, s) \/ WriteDropped(t, s)
             \/ CountRows(t, s)
        \/ \E rows \in SUBSET Marked \ {{}} : WriteRemoved(t, rows)
        \/ WriteImported(t) \/ WriteSession(t)
        \/ StoreCount(t) \/ CommitWork(t) \/ RollBack(t)
    BY <1>2 DEF GridNext
  <2>1. ASSUME NEW s \in Registers,
               \/ \E rows \in SUBSET Marked \ {{}} :
                    \/ WriteMarking(t, rows, s) \/ WriteAdded(t, rows, s)
                    \/ OpenForm(t, "import", rows, s)
               \/ \E r \in Marked : WriteMoved(t, r, s)
               \/ OpenForm(t, "session", {}, s) \/ WriteDropped(t, s)
               \/ CountRows(t, s)
        PROVE  GridInv'
    <3>1. CASE \/ \E rows \in SUBSET Marked : WriteMarking(t, rows, s) \/ WriteAdded(t, rows, s)
               \/ \E r \in Marked : WriteMoved(t, r, s)
               \/ WriteDropped(t, s)
      BY <3>1, RowWritesInv
    <3>2. CASE \/ \E rows \in SUBSET Marked : OpenForm(t, "import", rows, s)
               \/ OpenForm(t, "session", {}, s)
      BY <3>2, FormsOpen
    <3>3. CASE CountRows(t, s)
      BY <3>3, CountInv
    <3> QED
      BY <2>1, <3>1, <3>2, <3>3
  <2> QED
    BY <2>1, RemovalInv, FilesInv, StoreInv, CommitInv, RollBackInv
<1> QED
  BY <1>1, <1>2

\* Whoever marks, edits, moves, deletes or imports, and however their transactions
\* interleave, the registers and the numbers shown of them agree.
THEOREM GridKeepsPromises == GridSpec => []GridPromises
<1>1. GridInit => GridInv
  <2> SUFFICES ASSUME GridInit PROVE GridInv
    OBVIOUS
  <2>1. /\ place \in [Marked -> Places] /\ tallied = [s \in Registers |-> RowsIn(place, s)]
        /\ existing = Registers /\ working = [t \in Clerks |-> NoWork]
        /\ commits = 0 /\ spoiled = {}
    BY DEF GridInit
  <2>2. /\ tallied \in [Registers -> SUBSET Marked] /\ working \in [Clerks -> WorkRec]
        /\ commits \in 0..MaxCommits
    BY <2>1, NoWorkIs, GridAssumption DEF RowsIn
  <2>3. GridTypeOK
    BY <2>1, <2>2 DEF GridTypeOK, WorkRec
  <2>4. MarksHaveSession /\ CountsAreCurrent
    BY <2>1 DEF MarksHaveSession, CountsAreCurrent, Places
  <2>5. HeldApart /\ \A t \in Clerks : WorkFits(t)
    BY <2>1, NoWorkIs DEF HeldApart, WorkFits, Counting
  <2> QED
    BY <2>2, <2>3, <2>4, <2>5 DEF GridInv
<1>2. GridInv => GridPromises
  BY DEF GridInv, GridPromises
<1> QED
  BY <1>1, <1>2, GridStep, PTL DEF GridSpec
=============================================================================
