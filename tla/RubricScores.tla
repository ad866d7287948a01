---------------------------- MODULE RubricScores ----------------------------
(***************************************************************************)
(* Observation rubrics and the scores given by them (apps/web              *)
(* lib/grading/admin.ts, lib/observation/rubric.ts and the observer's two  *)
(* actions of observation/[cycleId]/actions.ts): administrators change a   *)
(* rubric's criteria while observers score cycles against them.  Whether a *)
(* cycle may be scored still is ObservationSignoff's.                      *)
(*                                                                         *)
(* An observer's form is read against the criteria as they were when the   *)
(* request came; an administrator's against the scores there were.  A      *)
(* transaction's writes are one step, at its commit.                       *)
(***************************************************************************)
EXTENDS FiniteSets, Naturals

CONSTANTS Requests,  \* administrators' and observers' requests in flight
          Rubrics, FirstRubrics, Criteria, Cycles,
          NoRubric, NoCycle,
          Top        \* the largest maximum of a criterion

ASSUME RubricAssumption ==
  /\ Top \in Nat \ {0} /\ NoRubric \notin Rubrics /\ FirstRubrics \subseteq Rubrics
  /\ NoCycle \notin Cycles

VARIABLES rubrics,   \* each row of observation_rubrics: unborn, there or gone
          default,   \* the active default
          criteria,  \* rubric_criteria: each one's rubric and maximum
          made,      \* criteria made so far: an id is not used again
          own,       \* each cycle's rubric
          score,     \* observation_scores
          request,   \* each request, between its reads and its writes
          overlapped,   \* criteria saved and scored by two requests that overlapped
          later,     \* criteria added to a rubric that was already scored by
          twoFirsts      \* cycles whose first scorings overlapped, by two rubrics

rubricVars ==
  <<rubrics, default, criteria, made, own, score, request, overlapped, later, twoFirsts>>

catalogue == <<rubrics, default, criteria, made>>
-----------------------------------------------------------------------------
\* More than any score: a criterion that has none.
Unscored == Top + 1

NoScores == [c \in Criteria |-> Unscored]

NoCriterion == [of |-> NoRubric, max |-> 0]

\* A form names criteria: a maximum for each of an administrator's, a score for
\* each of an observer's.
NoForm == [c \in Criteria |-> Unscored]

\* A request that scores a cycle which had no rubric is its first.
Unasked == [at |-> "none", rubric |-> NoRubric, cycle |-> NoCycle, form |-> NoForm,
         first |-> FALSE]

Stands(a, at) == request[a].at = at

Of(r) == {c \in Criteria : criteria[c].of = r /\ r # NoRubric}

In(form) == {c \in Criteria : form[c] # Unscored}

Scored(c) == \E y \in Cycles : score[y][c] # Unscored

Close(a) == request' = [request EXCEPT ![a] = Unasked]

RubricInit ==
  /\ rubrics = [r \in Rubrics |-> IF r \in FirstRubrics THEN "there" ELSE "unborn"] /\ default = NoRubric
  /\ criteria = [c \in Criteria |-> NoCriterion] /\ made = {}
  /\ own = [y \in Cycles |-> NoRubric]
  /\ score = [y \in Cycles |-> NoScores]
  /\ request = [a \in Requests |-> Unasked]
  /\ overlapped = {} /\ later = {} /\ twoFirsts = {}
-----------------------------------------------------------------------------
(***************************************************************************)
(* Administrators.                                                         *)
(***************************************************************************)

\* saveRubric() without an id.
CreateRubric(r) ==
  /\ rubrics[r] = "unborn"
  /\ rubrics' = [rubrics EXCEPT ![r] = "there"]
  /\ UNCHANGED <<default, criteria, made, own, score, request, overlapped, later, twoFirsts>>

\* setDefaultRubric() and setRubricActive(): another default, or none.
ChangeDefault(r) ==
  /\ r # NoRubric => rubrics[r] = "there"
  /\ default' = r
  /\ UNCHANGED <<rubrics, criteria, made, own, score, request, overlapped, later, twoFirsts>>

\* The rubric's row, locked by a request that saves its criteria.
HeldBy(r) == {a \in Requests : Stands(a, "criteria") /\ request[a].rubric = r}

\* A bug for TLC to find: a criterion with scores removed, or lowered below them.
SparesAny(r, form) == TRUE

\* What has been scored stays, and no maximum falls below a score given.
Spares(r, form) ==
  \A c \in Of(r) : Scored(c) => \A y \in Cycles :
    /\ c \in In(form)
    /\ score[y][c] # Unscored => score[y][c] <= form[c]

\* saveCriteria(): the rubric is locked, its criteria and their scores read.
BeginCriteria(a, r, form) ==
  /\ Stands(a, "none") /\ rubrics[r] = "there" /\ HeldBy(r) = {}
  /\ In(form) # {} /\ In(form) \subseteq Of(r) \cup (Criteria \ made)
  /\ Spares(r, form)
  /\ request' = [request EXCEPT ![a] = [Unasked EXCEPT !.at = "criteria", !.rubric = r,
                                                    !.form = form]]
  /\ UNCHANGED <<catalogue, own, score, overlapped, later, twoFirsts>>

\* A bug for TLC to find: scores deleted with their criterion.
RestrictedNot(removed) == TRUE

\* The foreign key of observation_scores: a criterion with scores is not deleted.
Restricted(removed) == \A c \in removed : ~Scored(c)

\* Requests whose form was read against a rubric.
Scoring(r) == {b \in Requests : Stands(b, "score") /\ request[b].rubric = r}

InUse(r) == Scoring(r) # {} \/ \E y \in Cycles : own[y] = r

\* The rows removed, changed and added, committed.
CommitCriteria(a) ==
  LET r       == request[a].rubric
      form    == request[a].form
      removed == Of(r) \ In(form)
      added   == In(form) \ Of(r)
  IN /\ Stands(a, "criteria") /\ Restricted(removed) /\ added \cap made = {}
     /\ criteria' = [c \in Criteria |-> IF c \in removed THEN NoCriterion
                                        ELSE IF c \in In(form) THEN [of |-> r, max |-> form[c]]
                                        ELSE criteria[c]]
     /\ made' = made \cup added
     /\ Close(a)
     /\ overlapped' = IF Scoring(r) # {} THEN overlapped \cup In(form) ELSE overlapped
     /\ later' = IF InUse(r) THEN later \cup added ELSE later
     /\ UNCHANGED <<rubrics, default, own, score, twoFirsts>>

\* deleteRubric(): refused where a cycle was scored by it, and by the foreign
\* key where one has been since.
BeginDeleteRubric(a, r) ==
  /\ Stands(a, "none") /\ rubrics[r] = "there" /\ \A c \in Of(r) : ~Scored(c)
  /\ request' = [request EXCEPT ![a] = [Unasked EXCEPT !.at = "delete", !.rubric = r]]
  /\ UNCHANGED <<catalogue, own, score, overlapped, later, twoFirsts>>

CommitDeleteRubric(a) ==
  LET r == request[a].rubric
  IN /\ Stands(a, "delete") /\ HeldBy(r) = {} /\ Restricted(Of(r))
     /\ rubrics' = [rubrics EXCEPT ![r] = "gone"]
     /\ default' = IF default = r THEN NoRubric ELSE default
     /\ criteria' = [c \in Criteria |-> IF c \in Of(r) THEN NoCriterion ELSE criteria[c]]
     /\ own' = [y \in Cycles |-> IF own[y] = r THEN NoRubric ELSE own[y]]
     /\ Close(a)
     /\ UNCHANGED <<made, score, overlapped, later, twoFirsts>>
-----------------------------------------------------------------------------
(***************************************************************************)
(* Observers.                                                              *)
(***************************************************************************)
\* A bug for TLC to find: a score out of more than its criterion's maximum.
ParsesAnyScores(r, form) == In(form) = Of(r)

\* parseRubricScores(): every criterion of the rubric, each within its maximum.
ParsesScores(r, form) == In(form) = Of(r) /\ \A c \in Of(r) : form[c] <= criteria[c].max

\* submitObserverFormAction() and saveScoresAction() read the cycle, the rubric
\* it names or the default, and the form against that.  Where it has no criteria,
\* there is nothing to score by.
BeginScores(a, y, form) ==
  LET r == IF own[y] # NoRubric THEN own[y] ELSE default
  IN /\ Stands(a, "none") /\ Of(r) # {} /\ ParsesScores(r, form)
     /\ request' = [request EXCEPT ![a] = [at |-> "score", rubric |-> r, cycle |-> y,
                                          form |-> form, first |-> own[y] = NoRubric]]
     /\ UNCHANGED <<catalogue, own, score, overlapped, later, twoFirsts>>

\* A bug for TLC to find: the scores of another rubric left beside the new ones.
ScoresBeside(old, form) ==
  [c \in Criteria |-> IF c \in In(form) THEN form[c] ELSE old[c]]

\* writeScores(): the form's scores, and no others.
ScoresAfter(old, form) == form

\* The transaction: the scores and their rubric.
CommitScores(a) ==
  LET y    == request[a].cycle
      r    == request[a].rubric
      form == request[a].form
  IN /\ Stands(a, "score") /\ \A c \in In(form) : criteria[c].of # NoRubric
     /\ score' = [score EXCEPT ![y] = ScoresAfter(score[y], form)]
     /\ own' = [own EXCEPT ![y] = r]
     /\ Close(a)
     /\ overlapped' = IF HeldBy(r) # {} THEN overlapped \cup In(form) ELSE overlapped
     /\ twoFirsts' = IF request[a].first /\ own[y] \notin {r, NoRubric}
                   THEN twoFirsts \cup {y} ELSE twoFirsts
     /\ UNCHANGED <<catalogue, later>>

\* A request that is refused or fails.
RequestEnds(a) ==
  /\ ~Stands(a, "none") /\ Close(a)
  /\ UNCHANGED <<catalogue, own, score, overlapped, later, twoFirsts>>

\* A score of 0 is within any maximum, as one of 1 is: it is left out.
Forms == [Criteria -> 1..Unscored]

RubricNext ==
  \/ \E r \in Rubrics : CreateRubric(r)
  \/ \E r \in Rubrics \cup {NoRubric} : ChangeDefault(r)
  \/ \E a \in Requests :
       \/ \E r \in Rubrics : BeginDeleteRubric(a, r)
       \/ \E r \in Rubrics, form \in Forms : BeginCriteria(a, r, form)
       \/ CommitCriteria(a) \/ CommitDeleteRubric(a) \/ RequestEnds(a)
       \/ \E y \in Cycles, form \in Forms : BeginScores(a, y, form)
       \/ CommitScores(a)

RubricSpec == RubricInit /\ [][RubricNext]_rubricVars
-----------------------------------------------------------------------------
\* The values of the tables and of the requests.
RubricTypeOK ==
  /\ rubrics \in [Rubrics -> {"unborn", "there", "gone"}]
  /\ default \in {r \in Rubrics : rubrics[r] = "there"} \cup {NoRubric}
  /\ criteria \in [Criteria -> [of : Rubrics \cup {NoRubric}, max : 0..Top]]
  /\ own \in [Cycles -> Rubrics \cup {NoRubric}]
  /\ score \in [Cycles -> Forms]
  /\ request \in [Requests -> [at : {"none", "criteria", "delete", "score"},
                                rubric : Rubrics \cup {NoRubric},
                                cycle : Cycles \cup {NoCycle}, form : Forms, first : BOOLEAN]]
  /\ made \subseteq Criteria /\ overlapped \subseteq Criteria /\ later \subseteq made
  /\ twoFirsts \subseteq Cycles

\* A cycle's scores are of one rubric, its own, and of every criterion of it but
\* those added after the scoring began: the total is out of what was scored.
ScoresAreWhole ==
  \A y \in Cycles :
    /\ In(score[y]) \subseteq Of(own[y]) /\ Of(own[y]) \ In(score[y]) \subseteq later
    /\ own[y] # NoRubric => In(score[y]) # {}

\* No score is out of more than its criterion's maximum, unless requests that
\* overlapped wrote the two, each judged by the other's earlier value.
ScoreWithinMaximum ==
  \A y \in Cycles : \A c \in In(score[y]) \ overlapped : score[y][c] <= criteria[c].max

\* A score stays until its cycle is scored again: no change of a rubric deletes
\* one.
ScoresStay ==
  [][\A y \in Cycles : score'[y] # score[y] =>
       \E a \in Requests : Stands(a, "score") /\ request[a].cycle = y /\ request'[a] = Unasked
    ]_rubricVars

\* A cycle keeps the rubric it was first scored by, unless two were its first at
\* once.
RubricStays ==
  [][\A y \in Cycles \ twoFirsts' : own[y] # NoRubric => own'[y] = own[y]]_rubricVars

\* Rubrics, scores and cycles agree however the requests interleave.
RubricPromises ==
  /\ [](RubricTypeOK /\ ScoresAreWhole /\ ScoreWithinMaximum)
  /\ ScoresStay /\ RubricStays
=============================================================================
