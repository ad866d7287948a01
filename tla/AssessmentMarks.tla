-------------------------- MODULE AssessmentMarks --------------------------
(***************************************************************************)
(* The marks of one assessment (apps/web lib/grading/marks.ts,             *)
(* teaching/marks/actions.ts): the teacher's forms save marks and change   *)
(* the maximum they are out of, and send the lot for approval.             *)
(*                                                                         *)
(* A form is read against the assessment as it was when the request came;  *)
(* its transaction looks at the approval state again, and at nothing else. *)
(***************************************************************************)
EXTENDS FiniteSets, Naturals

CONSTANTS Sheets,   \* the teacher's requests in flight
          Learners, \* the class's roster
          TopMark,  \* the largest maximum
          MaxWrites

ASSUME MarksAssumption == TopMark \in Nat \ {0} /\ MaxWrites \in Nat

VARIABLES outOf,    \* assessments.max_marks
          given,    \* each learner's marks; Unmarked without a row
          standing, \* assessments.approval_status
          sheet,    \* each request
          written,
          stale,    \* a write was judged by a maximum, or by marks, since changed
          emptied   \* the last mark was cleared while a submission was under way

marksVars == <<outOf, given, standing, sheet, written, stale, emptied>>
-----------------------------------------------------------------------------
MarkVerdicts == {"approved", "changes_requested", "rejected"}

\* More than any mark: a learner with no row.
Unmarked == TopMark + 1
Values   == 0..TopMark \cup {Unmarked}
NoMarks  == [l \in Learners |-> Unmarked]

Blank == [at |-> "none", out |-> 0, marks |-> NoMarks]

MarksInit ==
  /\ outOf = TopMark
  /\ given = NoMarks
  /\ standing = "draft"
  /\ sheet = [t \in Sheets |-> Blank]
  /\ written = 0
  /\ stale = FALSE /\ emptied = FALSE

\* isEditable().
MayChange == standing \in {"draft", "changes_requested", "rejected"}

\* hasMarks().
HasMarks == given # NoMarks

Within(marks, most) == \A l \in Learners : marks[l] = Unmarked \/ marks[l] <= most

Clear(t) == sheet' = [sheet EXCEPT ![t] = Blank]
-----------------------------------------------------------------------------
\* A bug for TLC to find: marks not held against the maximum.
ParsesAny(marks) == TRUE

\* parseMarks() of every learner's field.
Parses(marks) == Within(marks, outOf)

\* saveMarks() up to its transaction: every mark parsed against the maximum.
ParseMarks(t, marks) ==
  /\ sheet[t].at = "none"
  /\ MayChange /\ Parses(marks)
  /\ sheet' = [sheet EXCEPT ![t] = [at |-> "save", out |-> outOf, marks |-> marks]]
  /\ UNCHANGED <<outOf, given, standing, written, stale, emptied>>

\* A bug for TLC to find: the state not looked at again.
HoldAny == TRUE

\* SELECT ... FOR UPDATE of the assessment: still editable.
HoldEditable == MayChange

\* Its transaction: rows written, and cleared where the form left a blank.
SaveMarks(t) ==
  /\ sheet[t].at = "save" /\ HoldEditable
  /\ written < MaxWrites /\ written' = written + 1
  /\ given' = sheet[t].marks
  /\ stale' = (stale \/ outOf # sheet[t].out)
  /\ emptied' = (emptied \/ (given' = NoMarks /\ \E u \in Sheets : sheet[u].at = "send"))
  /\ Clear(t)
  /\ UNCHANGED <<outOf, standing>>

\* A bug for TLC to find: a maximum below marks already given.
AnyMaximum(most) == TRUE

\* The highest mark given is no more than the new maximum.
Allowed(most) == Within(given, most)

\* updateAssessment() up to its UPDATE.
CheckMaximum(t, most) ==
  /\ sheet[t].at = "none"
  /\ MayChange /\ Allowed(most)
  /\ sheet' = [sheet EXCEPT ![t] = [at |-> "update", out |-> most, marks |-> given]]
  /\ UNCHANGED <<outOf, given, standing, written, stale, emptied>>

\* Its UPDATE, where the state is editable still.
ChangeMaximum(t) ==
  /\ sheet[t].at = "update" /\ MayChange
  /\ written < MaxWrites /\ written' = written + 1
  /\ outOf' = sheet[t].out
  /\ stale' = (stale \/ given # sheet[t].marks)
  /\ Clear(t)
  /\ UNCHANGED <<given, standing, emptied>>

\* "locked", or the request fails.
SheetRefused(t) ==
  /\ sheet[t].at # "none"
  /\ Clear(t)
  /\ UNCHANGED <<outOf, given, standing, written, stale, emptied>>

\* A bug for TLC to find: an assessment sent with nothing to approve.
SendBlank == MayChange

\* submitAssessmentAction() and canSubmit().
MaySend == MayChange /\ HasMarks

BeginSendMarks(t) ==
  /\ sheet[t].at = "none" /\ MaySend
  /\ sheet' = [sheet EXCEPT ![t].at = "send"]
  /\ UNCHANGED <<outOf, given, standing, written, stale, emptied>>

\* submitForApproval()'s transaction: one pending request, and onSubmit().
SendMarks(t) ==
  /\ sheet[t].at = "send" /\ standing # "pending"
  /\ standing' = "pending"
  /\ Clear(t)
  /\ UNCHANGED <<outOf, given, written, stale, emptied>>

\* decideApproval() and onDecision().
DecideMarks(verdict) ==
  /\ standing = "pending" /\ standing' = verdict
  /\ UNCHANGED <<outOf, given, sheet, written, stale, emptied>>

MarksNext ==
  \/ \E t \in Sheets :
       \/ \E marks \in [Learners -> Values] : ParseMarks(t, marks)
       \/ \E most \in 1..TopMark : CheckMaximum(t, most)
       \/ SaveMarks(t) \/ ChangeMaximum(t) \/ SheetRefused(t)
       \/ BeginSendMarks(t) \/ SendMarks(t)
  \/ \E verdict \in MarkVerdicts : DecideMarks(verdict)

MarksSpec == MarksInit /\ [][MarksNext]_marksVars
-----------------------------------------------------------------------------
\* The values of the assessment, its marks and the requests: a form that saves
\* has marks within the maximum it read.
MarksTypeOK ==
  /\ outOf \in 1..TopMark
  /\ given \in [Learners -> Values]
  /\ standing \in MarkVerdicts \cup {"draft", "pending"}
  /\ sheet \in [Sheets -> [at : {"none", "save", "update", "send"}, out : 0..TopMark,
                           marks : [Learners -> Values]]]
  /\ \A t \in Sheets : sheet[t].at = "save" => Within(sheet[t].marks, sheet[t].out)
  /\ written \in 0..MaxWrites
  /\ stale \in BOOLEAN /\ emptied \in BOOLEAN

\* No mark is above the maximum, whichever of them was written last, unless two
\* writes overlapped and each was judged by what the other was changing.
MarksWithinMaximum == stale \/ Within(given, outOf)

\* What waits for approval, or has it, has marks, unless they were cleared while
\* it was being sent.
SentHasMarks == standing \in {"pending", "approved"} => (HasMarks \/ emptied)

\* The marks and the maximum an approver reads are those she decides on, and
\* those that stay approved.
MarksStay == [][~MayChange => UNCHANGED <<outOf, given>>]_marksVars

\* Marks, their maximum and their approval agree however the writes interleave.
MarksPromises == [](MarksTypeOK /\ MarksWithinMaximum /\ SentHasMarks) /\ MarksStay
=============================================================================
