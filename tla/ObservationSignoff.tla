-------------------------- MODULE ObservationSignoff --------------------------
(***************************************************************************)
(* One observation cycle from its nomination to its sign-off: the stage    *)
(* forms, scores and notes of the server actions in apps/web               *)
(* observation/[cycleId]/actions.ts, and the sign-off request that goes    *)
(* through the approvals queue (lib/approvals/index.ts, lib/observation/   *)
(* signoff.ts and cycle-signoff.ts).                                       *)
(*                                                                         *)
(* Every handler reads first and writes in a transaction later; other      *)
(* people act in between, from stale pages and second tabs, and a request  *)
(* may be cut off anywhere.  A transaction is one step; so is a run of     *)
(* reads whose last answer the transaction checks again.                   *)
(***************************************************************************)
EXTENDS Integers, FiniteSets

CONSTANTS Actors,    \* people with a request in flight
          Requests,  \* ids of the cycle's rows in approvals
          NoRequest,
          MaxEdits   \* how many times the record is written in all

ASSUME SignoffAssumption ==
  /\ IsFiniteSet(Requests)
  /\ NoRequest \notin Requests
  /\ MaxEdits \in Nat

VARIABLES status,   \* observation_cycles.status
          forms,    \* the kinds of observation_forms the cycle has
          edits,    \* writes to its forms, scores and remark so far
          request,  \* the approvals rows of the cycle
          signed,   \* whether audit_log says observation.signed_off
          doing     \* each actor's handler, between its reads and its write

vars == <<status, forms, edits, request, signed, doing>>
-----------------------------------------------------------------------------
Stages    == {"nominated", "pre_submitted", "observed", "post_submitted", "complete"}
Kinds     == {"pre", "observer", "post"}
Decisions == {"approved", "changes_requested", "rejected"}

RequestStatus == Decisions \cup {"none", "pending"}

\* The handlers' resting points: a revision of the scores or a note; a sign-off
\* request to be checked, and to be inserted; a decision on a request, and one
\* for a cycle that had no request.
Steps == {"none", "scores", "note", "check", "insert", "decide", "direct", "again"}

Resting == [at |-> "none", req |-> NoRequest, decision |-> "approved"]

Pending == {r \in Requests : request[r] = "pending"}

Approved == {r \in Requests : request[r] = "approved"}

Init ==
  /\ status = "nominated"
  /\ forms = {}
  /\ edits = 0
  /\ request = [r \in Requests |-> "none"]
  /\ signed = FALSE
  /\ doing = [a \in Actors |-> Resting]

At(a, step) == doing[a].at = step

Goto(a, step) == doing' = [doing EXCEPT ![a] = [Resting EXCEPT !.at = step]]

Choose(a, step, r, decision) ==
  doing' = [doing EXCEPT ![a] = [at |-> step, req |-> r, decision |-> decision]]

Return(a) == doing' = [doing EXCEPT ![a] = Resting]

record == <<forms, edits>>
-----------------------------------------------------------------------------
(***************************************************************************)
(* The record: forms, scores, notes.                                       *)
(***************************************************************************)

From(kind) == CASE kind = "pre"      -> "nominated"
                [] kind = "observer" -> "pre_submitted"
                [] kind = "post"     -> "observed"

To(kind) == CASE kind = "pre"      -> "pre_submitted"
              [] kind = "observer" -> "observed"
              [] kind = "post"     -> "post_submitted"

\* A bug for TLC to find: the form inserted before the transition is refused.
SubmitFormAnyway(a, kind) ==
  /\ At(a, "none") /\ edits < MaxEdits
  /\ status' = IF status = From(kind) THEN To(kind) ELSE status
  /\ forms' = forms \cup {kind}
  /\ edits' = edits + 1
  /\ UNCHANGED <<request, signed, doing>>

\* submitFormAndTransition(): the guarded UPDATE and the form's upsert (with
\* the observer's scores), in one transaction.  The post form's handler goes on
\* to ask for sign-off.
SubmitForm(a, kind) ==
  /\ At(a, "none") /\ edits < MaxEdits
  /\ status = From(kind)
  /\ status' = To(kind)
  /\ forms' = forms \cup {kind}
  /\ edits' = edits + 1
  /\ IF kind = "post" THEN Goto(a, "check") ELSE UNCHANGED doing
  /\ UNCHANGED <<request, signed>>

\* saveScoresAction() and addNoteAction() look at the status first, for the
\* message, and again in the UPDATE.
MayEdit(what) ==
  IF what = "scores" THEN status \in {"observed", "post_submitted"}
                     ELSE status # "complete"

BeginEdit(a, what) ==
  /\ At(a, "none") /\ MayEdit(what)
  /\ Goto(a, what)
  /\ UNCHANGED <<status, record, request, signed>>

\* A bug for TLC to find: the UPDATE trusting the status read before.
EditUnchecked(a, what) ==
  /\ At(a, what) /\ edits < MaxEdits
  /\ edits' = edits + 1
  /\ Return(a)
  /\ UNCHANGED <<status, forms, request, signed>>

Edit(a, what) ==
  /\ At(a, what) /\ edits < MaxEdits
  /\ edits' = IF MayEdit(what) THEN edits + 1 ELSE edits
  /\ Return(a)
  /\ UNCHANGED <<status, forms, request, signed>>
-----------------------------------------------------------------------------
(***************************************************************************)
(* requestSignOff(): submitForApproval() after the form has committed.     *)
(***************************************************************************)

\* canSubmit() reads the status.
CheckSubmit(a) ==
  /\ At(a, "check")
  /\ IF status = "post_submitted" THEN Goto(a, "insert") ELSE Return(a)
  /\ UNCHANGED <<status, record, request, signed>>

\* The INSERT, which approvals_one_pending_uq refuses while a request is open.
\* Sign-off has no onSubmit().
InsertRequest(a) ==
  /\ At(a, "insert")
  /\ IF Pending = {}
     THEN \E r \in Requests : request[r] = "none" /\ request' = [request EXCEPT ![r] = "pending"]
     ELSE UNCHANGED request
  /\ Return(a)
  /\ UNCHANGED <<status, record, signed>>
-----------------------------------------------------------------------------
(***************************************************************************)
(* Deciding, from the cycle's page or from /approvals.                     *)
(***************************************************************************)

\* The reads of decideSignOff() and decideApproval().
BeginDecide(a, decision) ==
  /\ At(a, "none")
  /\ \/ \E r \in Pending : Choose(a, "decide", r, decision)
     \/ Pending = {} /\ Choose(a, "direct", NoRequest, decision)
  /\ UNCHANGED <<status, record, request, signed>>

\* A bug for TLC to find: the decision written as the cycle's status.
OutcomeVerbatim(decision) == IF decision = "approved" THEN "complete" ELSE decision

\* The status a decision moves the cycle to.
Outcome(decision) == IF decision = "approved" THEN "complete" ELSE "observed"

\* completeCycle()'s audit row, written beside the transaction: best effort.
Audit(decision) ==
  signed' \in IF decision = "approved" THEN {signed, TRUE} ELSE {signed}

\* A bug for TLC to find: transitionCycleStatus() without its precondition.
MovesUnguarded == TRUE

\* transitionCycleStatus() matches the cycle's row.
Moves == status = "post_submitted"

\* The handler's guarded UPDATE holds and the transaction commits; or it does
\* not hold, and CycleStateError rolls everything back; or the commit itself
\* fails, after the audit row.
Apply(a, r) ==
  LET decision == doing[a].decision IN
  \/ /\ Moves
     /\ request' = [request EXCEPT ![r] = decision]
     /\ status' = Outcome(decision)
     /\ Audit(decision)
  \/ ~Moves /\ UNCHANGED <<status, request, signed>>
  \/ /\ Moves
     /\ Audit(decision)
     /\ UNCHANGED <<status, request>>

\* decideApproval(): taken only while the request is pending.
Decide(a) ==
  LET r == doing[a].req IN
  /\ At(a, "decide")
  /\ IF request[r] = "pending" THEN Apply(a, r) ELSE UNCHANGED <<status, request, signed>>
  /\ Return(a)
  /\ UNCHANGED record

\* decideWithoutRequest(): the request is written decided.  One that was opened
\* meanwhile is looked up again and decided instead.
DecideDirect(a) ==
  /\ At(a, "direct")
  /\ IF Pending = {}
     THEN (\E r \in Requests : request[r] = "none" /\ Apply(a, r)) /\ Return(a)
     ELSE /\ doing' = [doing EXCEPT ![a].at = "again"]
          /\ UNCHANGED <<status, request, signed>>
  /\ UNCHANGED record

DecideAgain(a) ==
  /\ At(a, "again")
  /\ \/ Pending = {} /\ Return(a)
     \/ \E r \in Pending : Choose(a, "decide", r, doing[a].decision)
  /\ UNCHANGED <<status, record, request, signed>>

\* The browser goes away, the server restarts, a statement fails.
CutOff(a) ==
  /\ ~At(a, "none")
  /\ Return(a)
  /\ UNCHANGED <<status, record, request, signed>>
-----------------------------------------------------------------------------
Next ==
  \E a \in Actors :
    \/ \E kind \in Kinds : SubmitForm(a, kind)
    \/ \E what \in {"scores", "note"} : BeginEdit(a, what) \/ Edit(a, what)
    \/ CheckSubmit(a) \/ InsertRequest(a)
    \/ \E decision \in Decisions : BeginDecide(a, decision)
    \/ Decide(a) \/ DecideDirect(a) \/ DecideAgain(a)
    \/ CutOff(a)

Spec == Init /\ [][Next]_vars
-----------------------------------------------------------------------------
(***************************************************************************)
(* Properties.                                                             *)
(***************************************************************************)

\* Every variable stays within the values its columns and locals can hold.
TypeOK ==
  /\ status \in Stages /\ forms \subseteq Kinds /\ edits \in 0..MaxEdits
  /\ request \in [Requests -> RequestStatus] /\ signed \in BOOLEAN
  /\ doing \in [Actors -> [at : Steps, req : Requests \cup {NoRequest},
                           decision : Decisions]]

\* A signed-off record is closed: whatever was checked before the signature, no
\* form, score or note is written after it, and the cycle never reopens
\* (actions.ts: "A SIGNED-OFF RECORD IS CLOSED").
RecordLocked ==
  [][status = "complete" => UNCHANGED <<status, forms, edits>>]_vars

\* The queue and the cycle agree: a cycle is complete exactly when one request
\* of it was approved, however many approvers decide at once and from wherever.
OneApproval ==
  Cardinality(Approved) = (IF status = "complete" THEN 1 ELSE 0)

\* A cycle has the forms its stage says and none of a later stage, but for the
\* post form it was sent back with: no form stands on a cycle that did not
\* reach the corresponding stage.
FormsMatchStage ==
  CASE status = "nominated"     -> forms = {}
    [] status = "pre_submitted" -> forms = {"pre"}
    [] status = "observed"      ->
         /\ {"pre", "observer"} \subseteq forms
         /\ "post" \in forms => \E r \in Requests : request[r] \in {"changes_requested", "rejected"}
    [] OTHER                    -> forms = Kinds

\* The audit log says signed off only of a cycle that is complete.
SignedIsComplete == signed => status = "complete"

\* An open request is one for a cycle that waits for sign-off, so that it can
\* be decided.
OpenIsDecidable == Pending # {} => status = "post_submitted"

\* However people on stale pages sign, send back, write and approve, a cycle is
\* signed off once, on the forms of its stage, and is closed from then on.
SignoffPromises == [](TypeOK /\ OneApproval /\ FormsMatchStage) /\ RecordLocked
=============================================================================
