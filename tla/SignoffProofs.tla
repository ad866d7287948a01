---------------------------- MODULE SignoffProofs ----------------------------
(***************************************************************************)
(* What ObservationSignoff promises for any number of people and requests. *)
(*                                                                         *)
(* OneApproval is not inductive by itself: that a decision lands on a      *)
(* request of the cycle (Targets) and that nothing is approved before the  *)
(* cycle completes (ApprovedOnce) have to be carried along.                *)
(***************************************************************************)
EXTENDS ObservationSignoff, FiniteSetTheorems, TLAPS

\* A handler about to decide a request looked that request up.
Targets == \A a \in Actors : At(a, "decide") => doing[a].req \in Requests

\* One request is approved if the cycle is complete, and none before.
ApprovedOnce ==
  IF status = "complete" THEN \E r \in Requests : Approved = {r} ELSE Approved = {}

SignoffInv == TypeOK /\ Targets /\ ApprovedOnce /\ FormsMatchStage
-----------------------------------------------------------------------------
\* Going to a step or returning keeps the handlers' locals typed and targeted.
LEMMA Moving ==
  ASSUME TypeOK, Targets, NEW a \in Actors, NEW step \in Steps \ {"decide"},
         Goto(a, step) \/ Return(a) \/ UNCHANGED doing
  PROVE  /\ doing' \in [Actors -> [at : Steps, req : Requests \cup {NoRequest},
                                   decision : Decisions]]
         /\ Targets'
<1>1. CASE Goto(a, step)
  <2>1. [Resting EXCEPT !.at = step] = [at |-> step, req |-> NoRequest, decision |-> "approved"]
    BY DEF Resting
  <2>2. doing' = [doing EXCEPT ![a] = [at |-> step, req |-> NoRequest, decision |-> "approved"]]
    BY <1>1, <2>1 DEF Goto
  <2> QED BY <2>2 DEF TypeOK, Targets, At, Decisions, Steps
<1>2. CASE Return(a)
  BY <1>2 DEF Return, Resting, TypeOK, Targets, At, Decisions, Steps
<1>3. CASE UNCHANGED doing
  BY <1>3 DEF TypeOK, Targets, At
<1> QED BY <1>1, <1>2, <1>3
-----------------------------------------------------------------------------
\* Initially nobody acts and nothing is asked for.
LEMMA InitInv == Init => SignoffInv
<1> SUFFICES ASSUME Init PROVE SignoffInv
  OBVIOUS
<1>1. status \in Stages /\ forms \subseteq Kinds /\ edits \in 0..MaxEdits
  BY SignoffAssumption DEF Init, Stages
<1>2. request \in [Requests -> RequestStatus] /\ signed \in BOOLEAN
  BY DEF Init, RequestStatus
<1>3. doing \in [Actors -> [at : Steps, req : Requests \cup {NoRequest}, decision : Decisions]]
  BY DEF Init, Resting, Decisions, Steps
<1>4. Targets /\ ApprovedOnce /\ FormsMatchStage
  BY DEF Init, Targets, At, Resting, ApprovedOnce, Approved, FormsMatchStage
<1> QED BY <1>1, <1>2, <1>3, <1>4 DEF SignoffInv, TypeOK

\* A form moves the cycle to the next stage with it.
LEMMA SubmitFormInv ==
  ASSUME SignoffInv, NEW a \in Actors, NEW kind \in Kinds, SubmitForm(a, kind)
  PROVE  SignoffInv'
<1>1. (Goto(a, "check") \/ UNCHANGED doing) /\ "check" \in Steps \ {"decide"}
  BY DEF SubmitForm, Steps
<1>2. TypeOK'
  <2>1. status' \in Stages /\ forms' \subseteq Kinds
    BY DEF SubmitForm, To, Stages, Kinds, SignoffInv, TypeOK
  <2>2. edits' \in 0..MaxEdits
    BY SignoffAssumption DEF SubmitForm, SignoffInv, TypeOK
  <2> QED BY <1>1, <2>1, <2>2, Moving DEF SubmitForm, SignoffInv, TypeOK
<1>3. Targets'
  BY <1>1, Moving DEF SignoffInv
<1>4. ApprovedOnce'
  BY DEF SubmitForm, From, To, Kinds, SignoffInv, ApprovedOnce, Approved
<1>5. FormsMatchStage'
  BY DEF SubmitForm, From, To, Kinds, SignoffInv, TypeOK, FormsMatchStage, Stages
<1> QED BY <1>2, <1>3, <1>4, <1>5 DEF SignoffInv

\* The checks made before a write, and a request cut off, move handlers only.
LEMMA CheckInv ==
  ASSUME SignoffInv, NEW a \in Actors, UNCHANGED <<status, record, request, signed>>,
         NEW step \in Steps \ {"decide"}, Goto(a, step) \/ Return(a)
  PROVE  SignoffInv'
<1>1. TypeOK' /\ Targets'
  BY Moving DEF SignoffInv, TypeOK, record
<1>2. ApprovedOnce' /\ FormsMatchStage'
  BY DEF SignoffInv, ApprovedOnce, Approved, FormsMatchStage, record
<1> QED BY <1>1, <1>2 DEF SignoffInv

\* A revision or a note counts as a write at most.
LEMMA EditInv ==
  ASSUME SignoffInv, NEW a \in Actors, NEW what, Edit(a, what)
  PROVE  SignoffInv'
<1>1. TypeOK' /\ Targets'
  <2>1. edits' \in 0..MaxEdits
    BY SignoffAssumption DEF Edit, SignoffInv, TypeOK
  <2>2. "none" \in Steps \ {"decide"}
    BY DEF Steps
  <2> QED BY <2>1, <2>2, Moving DEF Edit, SignoffInv, TypeOK
<1>2. ApprovedOnce' /\ FormsMatchStage'
  BY DEF Edit, SignoffInv, ApprovedOnce, Approved, FormsMatchStage
<1> QED BY <1>1, <1>2 DEF SignoffInv

\* Opening a request approves nothing and forgets no decision.
LEMMA InsertInv ==
  ASSUME SignoffInv, NEW a \in Actors, InsertRequest(a)
  PROVE  SignoffInv'
<1>1. "none" \in Steps \ {"decide"}
  BY DEF Steps
<1>2. CASE UNCHANGED request
  <2>1. TypeOK' /\ Targets'
    BY <1>1, <1>2, Moving DEF InsertRequest, SignoffInv, TypeOK, record
  <2>2. ApprovedOnce' /\ FormsMatchStage'
    BY <1>2 DEF InsertRequest, SignoffInv, ApprovedOnce, Approved, FormsMatchStage, record
  <2> QED BY <2>1, <2>2 DEF SignoffInv
<1>3. ASSUME NEW r \in Requests, request[r] = "none", request' = [request EXCEPT ![r] = "pending"]
      PROVE  SignoffInv'
  <2>1. TypeOK' /\ Targets'
    BY <1>1, <1>3, Moving DEF InsertRequest, SignoffInv, TypeOK, record, RequestStatus
  <2>2. Approved' = Approved
    BY <1>3 DEF SignoffInv, TypeOK, Approved
  <2>3. ApprovedOnce' /\ FormsMatchStage'
    BY <1>3, <2>2 DEF InsertRequest, SignoffInv, TypeOK, ApprovedOnce, FormsMatchStage, record
  <2> QED BY <2>1, <2>3 DEF SignoffInv
<1> QED BY <1>2, <1>3 DEF InsertRequest

\* A decision starts on a request, or on a cycle without one.
LEMMA BeginDecideInv ==
  ASSUME SignoffInv, NEW a \in Actors,
         (\E decision \in Decisions : BeginDecide(a, decision)) \/ DecideAgain(a)
  PROVE  SignoffInv'
<1>1. TypeOK' /\ Targets'
  <2>1. ASSUME NEW r \in Requests, NEW decision \in Decisions,
               Choose(a, "decide", r, decision),
               UNCHANGED <<status, record, request, signed>>
        PROVE  TypeOK' /\ Targets'
    BY <2>1 DEF Choose, SignoffInv, TypeOK, Targets, At, Steps, record
  <2>2. ASSUME NEW decision \in Decisions, BeginDecide(a, decision)
        PROVE  TypeOK' /\ Targets'
    <3>1. CASE Pending = {}
      BY <2>2, <3>1 DEF BeginDecide, Choose, SignoffInv, TypeOK, Targets, At, Steps, record
    <3>2. CASE Pending # {}
      BY <2>1, <2>2, <3>2 DEF BeginDecide, Pending
    <3> QED BY <3>1, <3>2
  <2>3. CASE DecideAgain(a)
    <3>1. CASE Return(a)
      <4>1. "none" \in Steps \ {"decide"}
        BY DEF Steps
      <4> QED BY <2>3, <3>1, <4>1, Moving DEF DecideAgain, SignoffInv, TypeOK, record
    <3>2. ASSUME NEW r \in Pending, Choose(a, "decide", r, doing[a].decision)
          PROVE  TypeOK' /\ Targets'
      <4>1. r \in Requests /\ doing[a].decision \in Decisions
        BY <3>2 DEF Pending, SignoffInv, TypeOK
      <4> QED BY <2>1, <2>3, <3>2, <4>1 DEF DecideAgain
    <3> QED BY <2>3, <3>1, <3>2 DEF DecideAgain
  <2> QED BY <2>2, <2>3
<1>2. ApprovedOnce' /\ FormsMatchStage'
  BY DEF BeginDecide, DecideAgain, SignoffInv, ApprovedOnce, Approved, FormsMatchStage, record
<1> QED BY <1>1, <1>2 DEF SignoffInv

\* A decision on one request, applied or rolled back, whoever else decided.
LEMMA ApplyInv ==
  ASSUME SignoffInv, NEW a \in Actors, NEW r \in Requests,
         request[r] \in {"none", "pending"}, Apply(a, r), UNCHANGED record
  PROVE  /\ status' \in Stages /\ request' \in [Requests -> RequestStatus] /\ signed' \in BOOLEAN
         /\ ApprovedOnce' /\ FormsMatchStage'
<1> DEFINE decision == doing[a].decision
<1>0. decision \in Decisions
  BY DEF SignoffInv, TypeOK
<1>1. signed' \in BOOLEAN
  BY DEF Apply, Audit, SignoffInv, TypeOK
<1>2. CASE UNCHANGED <<status, request>>
  BY <1>1, <1>2 DEF SignoffInv, TypeOK, ApprovedOnce, Approved, FormsMatchStage, record
<1>3. CASE Moves /\ request' = [request EXCEPT ![r] = decision] /\ status' = Outcome(decision)
  <2>1. status' \in Stages /\ request' \in [Requests -> RequestStatus]
    BY <1>0, <1>3 DEF Outcome, Stages, SignoffInv, TypeOK, RequestStatus
  <2>2. Approved = {} /\ forms = Kinds
    BY <1>3 DEF Moves, SignoffInv, ApprovedOnce, FormsMatchStage
  <2>3. Approved' = IF decision = "approved" THEN {r} ELSE {}
    BY <1>3, <2>2 DEF SignoffInv, TypeOK, Approved
  <2>4. ApprovedOnce'
    BY <1>3, <2>3 DEF Outcome, ApprovedOnce
  <2>5. FormsMatchStage'
    <3>1. CASE decision = "approved"
      BY <1>3, <2>2, <3>1 DEF Outcome, FormsMatchStage, record
    <3>2. CASE decision # "approved"
      <4>1. request'[r] \in {"changes_requested", "rejected"} /\ status' = "observed"
        BY <1>0, <1>3, <3>2 DEF Outcome, Decisions, SignoffInv, TypeOK
      <4> QED BY <2>2, <4>1 DEF FormsMatchStage, Kinds, record
    <3> QED BY <3>1, <3>2
  <2> QED BY <1>1, <2>1, <2>4, <2>5
<1> QED BY <1>2, <1>3 DEF Apply

\* Both ways of deciding, on a request that is still open or not there.
LEMMA DecideInv ==
  ASSUME SignoffInv, NEW a \in Actors, Decide(a) \/ DecideDirect(a)
  PROVE  SignoffInv'
<1>1. doing' \in [Actors -> [at : Steps, req : Requests \cup {NoRequest}, decision : Decisions]]
      /\ Targets'
  <2>1. CASE Return(a)
    <3>1. "none" \in Steps \ {"decide"}
      BY DEF Steps
    <3> QED BY <2>1, <3>1, Moving DEF SignoffInv
  <2>2. CASE doing' = [doing EXCEPT ![a].at = "again"]
    BY <2>2 DEF SignoffInv, TypeOK, Targets, At, Steps
  <2> QED BY <2>1, <2>2 DEF Decide, DecideDirect
<1>2. (UNCHANGED <<status, request, signed>>)
      \/ \E r \in Requests : request[r] \in {"none", "pending"} /\ Apply(a, r)
  BY DEF Decide, DecideDirect, SignoffInv, Targets
<1>3. UNCHANGED record
  BY DEF Decide, DecideDirect
<1>4. CASE UNCHANGED <<status, request, signed>>
  <2>1. TypeOK'
    BY <1>1, <1>3, <1>4 DEF SignoffInv, TypeOK, record
  <2>2. ApprovedOnce' /\ FormsMatchStage'
    BY <1>3, <1>4 DEF SignoffInv, ApprovedOnce, Approved, FormsMatchStage, record
  <2> QED BY <1>1, <2>1, <2>2 DEF SignoffInv
<1>5. CASE \E r \in Requests : request[r] \in {"none", "pending"} /\ Apply(a, r)
  <2>1. PICK r \in Requests : request[r] \in {"none", "pending"} /\ Apply(a, r)
    BY <1>5
  <2>2. /\ status' \in Stages /\ request' \in [Requests -> RequestStatus] /\ signed' \in BOOLEAN
        /\ ApprovedOnce' /\ FormsMatchStage'
    BY <1>3, <2>1, ApplyInv
  <2> QED BY <1>1, <1>3, <2>2 DEF SignoffInv, TypeOK, record
<1> QED BY <1>2, <1>4, <1>5
-----------------------------------------------------------------------------
\* The strengthening is an invariant of every cycle.
THEOREM SignoffInvariance == Spec => []SignoffInv
<1>1. SignoffInv /\ [Next]_vars => SignoffInv'
  <2> SUFFICES ASSUME SignoffInv, [Next]_vars PROVE SignoffInv'
    OBVIOUS
  <2>1. CASE UNCHANGED vars
    BY <2>1 DEF vars, SignoffInv, TypeOK, Targets, At, ApprovedOnce, Approved, FormsMatchStage
  <2>2. ASSUME NEW a \in Actors,
               \/ \E what \in {"scores", "note"} : BeginEdit(a, what)
               \/ CheckSubmit(a)
               \/ CutOff(a)
        PROVE  SignoffInv'
    <3>1. {"scores", "note", "insert", "none"} \subseteq Steps \ {"decide"}
      BY DEF Steps
    <3>2. UNCHANGED <<status, record, request, signed>>
      BY <2>2 DEF BeginEdit, CheckSubmit, CutOff
    <3>3. \E step \in {"scores", "note", "insert", "none"} : Goto(a, step) \/ Return(a)
      BY <2>2 DEF BeginEdit, CheckSubmit, CutOff
    <3> QED BY <3>1, <3>2, <3>3, CheckInv
  <2>3. ASSUME NEW a \in Actors,
               \/ \E kind \in Kinds : SubmitForm(a, kind)
               \/ \E what \in {"scores", "note"} : Edit(a, what)
               \/ InsertRequest(a)
               \/ \E decision \in Decisions : BeginDecide(a, decision)
               \/ DecideAgain(a) \/ Decide(a) \/ DecideDirect(a)
        PROVE  SignoffInv'
    BY <2>3, SubmitFormInv, EditInv, InsertInv, BeginDecideInv, DecideInv
  <2> QED BY <2>1, <2>2, <2>3 DEF Next
<1> QED BY <1>1, InitInv, PTL DEF Spec

\* Statuses, requests and the handlers' locals stay what their types allow.
THEOREM SignoffTypeCorrect == Spec => []TypeOK
BY SignoffInvariance, PTL DEF SignoffInv

\* However many people decide at once, from the cycle's page or the queue, a
\* cycle is complete exactly when one of its requests was approved.
THEOREM OneApprovalAlways == Spec => []OneApproval
<1>1. SignoffInv => OneApproval
  <2>1. \A r \in Requests : Cardinality({r}) = 1
    BY FS_Singleton
  <2> QED BY <2>1, FS_EmptySet DEF SignoffInv, ApprovedOnce, OneApproval
<1> QED BY <1>1, SignoffInvariance, PTL

\* No form stands on a cycle that did not reach its stage.
THEOREM FormsAlwaysMatch == Spec => []FormsMatchStage
BY SignoffInvariance, PTL DEF SignoffInv

\* No form, score or note is written to a cycle after its sign-off, and it
\* never reopens.
THEOREM RecordStaysLocked == Spec => RecordLocked
<1>1. SignoffInv /\ [Next]_vars => (status = "complete" => UNCHANGED <<status, forms, edits>>)
  <2> SUFFICES ASSUME SignoffInv, [Next]_vars, status = "complete"
               PROVE  UNCHANGED <<status, forms, edits>>
    OBVIOUS
  <2>1. CASE UNCHANGED vars
    BY <2>1 DEF vars
  <2>2. ASSUME NEW a \in Actors, NEW kind \in Kinds, SubmitForm(a, kind)
        PROVE  FALSE
    BY <2>2 DEF SubmitForm, From, Kinds
  <2>3. ASSUME NEW a \in Actors, NEW what \in {"scores", "note"}, Edit(a, what)
        PROVE  UNCHANGED <<status, forms, edits>>
    BY <2>3 DEF Edit, MayEdit
  <2>4. ASSUME NEW a \in Actors, NEW r, Apply(a, r)
        PROVE  UNCHANGED status
    BY <2>4 DEF Apply, Moves
  <2>5. ASSUME NEW a \in Actors, Decide(a) \/ DecideDirect(a)
        PROVE  UNCHANGED <<status, forms, edits>>
    BY <2>4, <2>5 DEF Decide, DecideDirect, record
  <2>6. ASSUME NEW a \in Actors,
               \/ \E what \in {"scores", "note"} : BeginEdit(a, what)
               \/ CheckSubmit(a) \/ InsertRequest(a) \/ CutOff(a)
               \/ \E decision \in Decisions : BeginDecide(a, decision)
               \/ DecideAgain(a)
        PROVE  UNCHANGED <<status, forms, edits>>
    BY <2>6 DEF BeginEdit, CheckSubmit, InsertRequest, CutOff, BeginDecide, DecideAgain, record
  <2> QED BY <2>1, <2>2, <2>3, <2>5, <2>6 DEF Next
<1> QED BY <1>1, SignoffInvariance, PTL DEF Spec, RecordLocked

\* All that is promised of a sign-off, for any people and requests.
THEOREM SignoffKeepsPromises == Spec => SignoffPromises
BY SignoffTypeCorrect, OneApprovalAlways, FormsAlwaysMatch, RecordStaysLocked, PTL
   DEF SignoffPromises
=============================================================================
