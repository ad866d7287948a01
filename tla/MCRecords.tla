----------------------------- MODULE MCRecords -----------------------------
(***************************************************************************)
(* Instances of the records people write, send and decide, of the draft of *)
(* a form, the grading scales and the throttle on signing in, for TLC.     *)
(* The parts do not interact: a behaviour is one of them, chosen at the    *)
(* start.                                                                  *)
(***************************************************************************)
EXTENDS ObservationSignoff, AccountRequests, LessonPlans, SessionRecords,
        TeachBack, AssessmentMarks, SignInThrottle, GradingScales,
        FormDrafts, TLC

CONSTANTS a1, a2, a3, p1, p2, q1, q2, r1, r2, r3, x1, x2, g1, g2, one

VARIABLE part

\* Nothing tells apart the three people.
SameKind == Permutations({a1, a2, a3})
-----------------------------------------------------------------------------
Parts == {"signoff", "account", "plan", "session", "teach", "marks", "throttle",
          "grading", "draft"}

\* Two scales for quizzes; one quiz, and an observation's rubric.
OfQuizzes == [s \in Scales |-> "quiz"]
Grades == [g \in Graded |-> IF g = g1 THEN "quiz" ELSE "observation"]

RecordsInit ==
  /\ part \in Parts
  /\ Init /\ AccountInit /\ PlanInit /\ SessionInit /\ TeachInit /\ MarksInit
  /\ ThrottleInit /\ GradingInit /\ DraftInit
  /\ part # "teach" => reviewedBy = NoReviewer

\* The part moves; the others stay as they were at the start.
RecordsNext ==
  /\ UNCHANGED part
  /\ IF part = "signoff" THEN Next ELSE UNCHANGED vars
  /\ IF part = "account" THEN AccountNext ELSE UNCHANGED accountVars
  /\ IF part = "plan" THEN PlanNext ELSE UNCHANGED planVars
  /\ IF part = "session" THEN SessionNext ELSE UNCHANGED sessionVars
  /\ IF part = "teach" THEN TeachNext ELSE UNCHANGED teachVars
  /\ IF part = "marks" THEN MarksNext ELSE UNCHANGED marksVars
  /\ IF part = "throttle" THEN ThrottleNext ELSE UNCHANGED throttleVars
  /\ IF part = "grading" THEN GradingNext ELSE UNCHANGED gradingVars
  /\ IF part = "draft" THEN DraftNext ELSE UNCHANGED draftVars

RecordsSpec ==
  /\ RecordsInit
  /\ [][RecordsNext]_<<part, vars, accountVars, planVars, sessionVars, teachVars,
                       marksVars, throttleVars, gradingVars, draftVars>>

\* A draft is followed for as long as anything is promised of it: a request that
\* arrives late, or both kinds of overlap with a submission, except all there is.
StillPromised == ~late /\ ~(typedOn /\ queuedOn)
=============================================================================
