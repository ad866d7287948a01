---------------------------- MODULE LessonPlans ----------------------------
(***************************************************************************)
(* A teacher's lesson plan: its numbered lessons, written from several     *)
(* tabs (apps/web teaching/plans/actions.ts, lib/teaching/records.ts), and *)
(* its way through the approvals queue (lib/approvals/index.ts and         *)
(* handlers/records.ts, whose three handlers read alike).                  *)
(*                                                                         *)
(* A write looks at the plan's state before its transaction and again in   *)
(* it, with the row locked; a submission looks before only.                *)
(***************************************************************************)
EXTENDS Integers, FiniteSets

CONSTANTS Writers,    \* the teacher's pages with a request in flight
          Readers,    \* programme admins with the plan open
          Lessons,    \* ids of outline_lessons rows
          Sendings,   \* ids of approvals rows of the plan
          NoSending,
          MaxVersions \* how many times the plan is written

ASSUME PlanAssumption ==
  IsFiniteSet(Lessons) /\ NoSending \notin Sendings /\ MaxVersions \in Nat

VARIABLES plan,    \* course_outlines.approval_status, or "deleted"
          number,  \* each lesson's sequence, 0 for one that is not there
          counted, \* course_outlines.sessions_count
          version, \* how many times the plan was written
          sending, \* the plan's approvals rows, and the version each sent
          tab,     \* where each tab's request is
          reader   \* what each admin has open, and the version it showed

planVars == <<plan, number, counted, version, sending, tab, reader>>
-----------------------------------------------------------------------------
Verdicts   == {"approved", "changes_requested", "rejected"}
PlanStates == Verdicts \cup {"draft", "pending", "deleted"}

\* isEditable().
EditableState(state) == state \in {"draft", "changes_requested", "rejected"}

NotYetSent    == [status |-> "none", version |-> 0]
NotReading == [open |-> NoSending, version |-> 0]

\* A tab remembers how many requests there had been when its check passed: a
\* ghost, for PlanStaysApproved.
AtRest == [at |-> "none", since |-> 0]

EverSent == {q \in Sendings : sending[q].status # "none"}
Open == {q \in Sendings : sending[q].status = "pending"}

Present == {l \in Lessons : number[l] > 0}

PlanInit ==
  /\ plan = "draft"
  /\ number = [l \in Lessons |-> 0]
  /\ counted = 0
  /\ version = 0
  /\ sending = [q \in Sendings |-> NotYetSent]
  /\ tab = [t \in Writers |-> AtRest]
  /\ reader = [b \in Readers |-> NotReading]

lessonRows == <<number, counted>>
-----------------------------------------------------------------------------
\* editablePlan(): every write starts here.
BeginWrite(t) ==
  /\ tab[t].at = "none"
  /\ EditableState(plan)
  /\ tab' = [tab EXCEPT ![t].at = "write"]
  /\ UNCHANGED <<plan, lessonRows, version, sending, reader>>

\* A bug for TLC to find: the state not looked at again under the lock.
LockAnyPlan == plan # "deleted"

\* lockEditablePlan().
LockEditablePlan == EditableState(plan)

\* A transaction that holds the plan's lock.
Writing(t) ==
  /\ tab[t].at = "write" /\ LockEditablePlan
  /\ version < MaxVersions
  /\ version' = version + 1
  /\ tab' = [tab EXCEPT ![t] = AtRest]
  /\ UNCHANGED <<sending, reader>>

\* The transaction found the plan sent, decided or gone.
WriteRefused(t) ==
  /\ tab[t].at = "write" /\ ~LockEditablePlan
  /\ tab' = [tab EXCEPT ![t] = AtRest]
  /\ UNCHANGED <<plan, lessonRows, version, sending, reader>>

\* updatePlanAction(), and saveLessonAction() of a lesson that is there.
RewriteText(t) == Writing(t) /\ UNCHANGED <<plan, lessonRows>>

Largest(f) == CHOOSE n \in {f[l] : l \in Lessons} : \A l \in Lessons : f[l] <= n

\* saveLessonAction() without an id: at the end, and the count is synced.
AddLesson(t, l) ==
  /\ Writing(t)
  /\ number[l] = 0
  /\ number' = [number EXCEPT ![l] = Largest(number) + 1]
  /\ counted' = Cardinality(Present) + 1
  /\ UNCHANGED plan

\* A bug for TLC to find: the hole left where the lesson was.
LeaveHole(l) == [number EXCEPT ![l] = 0]

\* Another: every other lesson moved up, wherever it stood.
MoveAllUp(l) == [m \in Lessons |-> IF m = l THEN 0 ELSE number[m] - 1]

\* renumberLessons(): 1, 2, ... in the order they stand.
Without(l) ==
  [m \in Lessons |-> IF m = l THEN 0
                     ELSE IF number[m] > number[l] THEN number[m] - 1
                     ELSE number[m]]

\* deleteLessonAction().
DeleteLesson(t, l) ==
  /\ Writing(t)
  /\ number[l] > 0
  /\ number' = Without(l)
  /\ counted' = Cardinality(Present) - 1
  /\ UNCHANGED plan

\* moveLessonAction(): swapped with its neighbour.
MoveLesson(t, l, m) ==
  /\ Writing(t)
  /\ number[l] > 0 /\ number[m] = number[l] + 1
  /\ number' = [number EXCEPT ![l] = number[m], ![m] = number[l]]
  /\ UNCHANGED <<plan, counted>>

\* deletePlanAction(): the lessons, then the plan.
DeletePlan(t) ==
  /\ Writing(t)
  /\ plan' = "deleted"
  /\ number' = [l \in Lessons |-> 0]
  /\ counted' = 0
-----------------------------------------------------------------------------
\* A bug for TLC to find: an approved plan may be sent again.
MayBeSentAgain == Present # {} /\ plan \notin {"pending", "deleted"}

\* submitPlanAction() up to submitForApproval()'s transaction: hers, editable,
\* with a lesson, and canSubmit() says so too.
MayBeSent == EditableState(plan) /\ Present # {}

BeginSend(t) ==
  /\ tab[t].at = "none"
  /\ MayBeSent
  /\ tab' = [tab EXCEPT ![t] = [at |-> "send", since |-> Cardinality(EverSent)]]
  /\ UNCHANGED <<plan, lessonRows, version, sending, reader>>

\* submitForApproval()'s transaction: the request, and onSubmit()'s UPDATE by
\* id, which finds no row when the plan is gone.
Send(t, q) ==
  /\ tab[t].at = "send"
  /\ Open = {} /\ sending[q].status = "none"
  /\ sending' = [sending EXCEPT ![q] = [status |-> "pending", version |-> version]]
  /\ plan' = IF plan = "deleted" THEN "deleted" ELSE "pending"
  /\ tab' = [tab EXCEPT ![t] = AtRest]
  /\ UNCHANGED <<lessonRows, version, reader>>

\* approvals_one_pending_uq: already_pending.
SendRefused(t) ==
  /\ tab[t].at = "send" /\ Open # {}
  /\ tab' = [tab EXCEPT ![t] = AtRest]
  /\ UNCHANGED <<plan, lessonRows, version, sending, reader>>

\* The request was cut off.
PlanCutOff(t) ==
  /\ tab[t].at # "none"
  /\ tab' = [tab EXCEPT ![t] = AtRest]
  /\ UNCHANGED <<plan, lessonRows, version, sending, reader>>

\* An admin opens a pending request and the record it is about.
OpenRequest(b, q) ==
  /\ reader[b].open = NoSending
  /\ sending[q].status = "pending"
  /\ reader' = [reader EXCEPT ![b] = [open |-> q, version |-> version]]
  /\ UNCHANGED <<plan, lessonRows, version, sending, tab>>

\* A bug for TLC to find: a request decided already, decided from an old page.
StillShown(q) == q # NoSending

\* decideApproval()'s UPDATE, by id and while it is pending.
StillPending(q) == q # NoSending /\ sending[q].status = "pending"

\* decideApproval(): the pending request and, through onDecision(), the record.
DecidePlan(b, verdict) ==
  LET q == reader[b].open
  IN /\ StillPending(q)
     /\ sending' = [sending EXCEPT ![q].status = verdict]
     /\ plan' = IF plan = "deleted" THEN "deleted" ELSE verdict
     /\ reader' = [reader EXCEPT ![b] = NotReading]
     /\ UNCHANGED <<lessonRows, version, tab>>

\* not_pending, or the page is left.
ClosePage(b) ==
  /\ reader[b].open # NoSending
  /\ reader' = [reader EXCEPT ![b] = NotReading]
  /\ UNCHANGED <<plan, lessonRows, version, sending, tab>>

PlanNext ==
  \/ \E t \in Writers :
       \/ BeginWrite(t) \/ WriteRefused(t) \/ PlanCutOff(t)
       \/ RewriteText(t) \/ DeletePlan(t)
       \/ \E l \in Lessons : AddLesson(t, l) \/ DeleteLesson(t, l)
       \/ \E l, m \in Lessons : MoveLesson(t, l, m)
       \/ BeginSend(t) \/ SendRefused(t)
       \/ \E q \in Sendings : Send(t, q)
  \/ \E b \in Readers :
       \/ \E q \in Sendings : OpenRequest(b, q)
       \/ \E verdict \in Verdicts : DecidePlan(b, verdict)
       \/ ClosePage(b)

PlanSpec == PlanInit /\ [][PlanNext]_planVars
-----------------------------------------------------------------------------
\* The values of the rows and of the handlers' local state.
PlanTypeOK ==
  /\ plan \in PlanStates
  /\ number \in [Lessons -> Nat]
  /\ counted \in Nat
  /\ version \in 0..MaxVersions
  /\ sending \in [Sendings -> [status : Verdicts \cup {"none", "pending"}, version : Nat]]
  /\ tab \in [Writers -> [at : {"none", "write", "send"}, since : Nat]]
  /\ reader \in [Readers -> [open : Sendings \cup {NoSending}, version : Nat]]

\* However adds, removals and moves from several tabs interleave, the lessons
\* are numbered 1 to n and sessions_count says n.
LessonsNumbered ==
  /\ {number[l] : l \in Present} = 1..counted
  /\ Cardinality(Present) = counted

\* The plan waits for a decision exactly while a request of it is open (a plan
\* deleted under a submission leaves its request behind).
PendingHasRequest == plan # "deleted" => (plan = "pending" <=> Open # {})

\* What an approver has open is what was sent: nothing is written between the
\* submission and the decision, so no verdict falls on a text its author never
\* read.
DecidedAsRead ==
  \A b \in Readers :
    LET q == reader[b].open
    IN (q # NoSending /\ q \in Open) =>
         /\ reader[b].version = sending[q].version
         /\ plan # "deleted" => version = sending[q].version

\* No write, unless a submission sets the plan pending whose check was answered
\* before the last request was opened.
UntouchedOrSent ==
  \/ UNCHANGED <<plan, lessonRows, version>>
  \/ /\ plan' = "pending"
     /\ \E t \in Writers : tab[t].at = "send" /\ tab[t].since < Cardinality(EverSent)

\* An approved plan changes in one way only: a submission whose check was
\* answered before the request that was approved was even opened.
PlanStaysApproved == [][plan = "approved" => UntouchedOrSent]_planVars

\* Tabs, submissions and approvers together leave the lessons numbered, the plan
\* and its requests in agreement, and verdicts on what was read.
PlanPromises ==
  [](PlanTypeOK /\ LessonsNumbered /\ PendingHasRequest /\ DecidedAsRead) /\ PlanStaysApproved
=============================================================================
