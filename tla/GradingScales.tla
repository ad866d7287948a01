--------------------------- MODULE GradingScales ---------------------------
(***************************************************************************)
(* Grading scales (apps/web lib/grading/admin.ts, scales.ts): made, made   *)
(* the default of their kind, switched on and off, deleted, and named by   *)
(* quizzes, assessments and rubrics, which otherwise grade by the default. *)
(*                                                                         *)
(* Administrators' requests overlap.  A statement reads the rows committed *)
(* when it starts and writes them when nobody else holds them; a           *)
(* transaction's writes are one step, at its commit.                       *)
(***************************************************************************)
EXTENDS FiniteSets, Naturals

CONSTANTS Admins,   \* requests in flight
          Scales, Seeded,
          Graded,   \* what may name a scale
          GradeKinds, ScaleKind, GradedKind,
          NoScale

ASSUME GradingAssumption ==
  /\ Seeded \subseteq Scales /\ NoScale \notin Scales
  /\ ScaleKind \in [Scales -> GradeKinds] /\ GradedKind \in [Graded -> GradeKinds]

VARIABLES scale,    \* the rows of grading_scales
          named,    \* grading_scale_id of what names one
          asked,     \* each administrator's request
          crossed,  \* scales made a default while being switched off
          lateNamed \* what named a scale while it was being deleted

gradingVars == <<scale, named, asked, crossed, lateNamed>>
-----------------------------------------------------------------------------
ScaleRow(there, on, default) == [there |-> there, on |-> on, default |-> default]

NotAsked == [at |-> "none", scale |-> NoScale, other |-> NoScale, what |-> "none"]

Asks(a, at) == asked[a].at = at

There(s) == scale[s].there = "there"

DefaultsOf(kind) == {s \in Scales : scale[s].default /\ ScaleKind[s] = kind}

\* A committed default of a scale's kind other than the scale, if there is one.
OtherDefault(s) ==
  LET others == DefaultsOf(ScaleKind[s]) \ {s}
  IN IF others = {} THEN NoScale ELSE CHOOSE d \in others : TRUE

\* Rows locked by a transaction that makes its scale the default.
Held == {asked[a].scale : a \in {b \in Admins : Asks(b, "default")}}

Naming(s) == {g \in Graded : named[g] = s}

Ask(a, at, s, other, what) ==
  asked' = [asked EXCEPT ![a] = [at |-> at, scale |-> s, other |-> other, what |-> what]]

Answered(a) == asked' = [asked EXCEPT ![a] = NotAsked]

GradingInit ==
  /\ scale = [s \in Scales |-> ScaleRow(IF s \in Seeded THEN "there" ELSE "unborn", TRUE, FALSE)]
  /\ named = [g \in Graded |-> NoScale]
  /\ asked = [a \in Admins |-> NotAsked]
  /\ crossed = {} /\ lateNamed = {}

\* saveScale() without an id.
CreateScale(s) ==
  /\ scale[s].there = "unborn"
  /\ scale' = [scale EXCEPT ![s] = ScaleRow("there", TRUE, FALSE)]
  /\ UNCHANGED <<named, asked, crossed, lateNamed>>
-----------------------------------------------------------------------------
(***************************************************************************)
(* setDefaultScale(): the scale's row is locked and found active; the      *)
(* default to clear is the one committed when the statement that clears it *)
(* starts, and it may be no default any more when it is reached.           *)
(***************************************************************************)

\* A bug for TLC to find: a scale that is switched off made the default.
MayDefaultAny(s) == There(s)

MayDefault(s) == There(s) /\ scale[s].on

BeginDefault(a, s) ==
  /\ Asks(a, "none") /\ MayDefault(s) /\ s \notin Held
  /\ Ask(a, "default", s, OtherDefault(s), "none")
  /\ UNCHANGED <<scale, named, crossed, lateNamed>>

\* A bug for TLC to find: no unique index, whoever else is a default by now.
NoneInTheWay(a) == TRUE

\* grading_scales_one_default_uq, once the default seen before is cleared.
IndexAllows(a) ==
  DefaultsOf(ScaleKind[asked[a].scale]) \subseteq {asked[a].scale, asked[a].other}

\* A bug for TLC to find: the default before it left as it was.
AfterDefaultOnly(s, other) == [scale EXCEPT ![s].default = TRUE]

AfterDefault(s, other) ==
  [x \in Scales |-> [scale[x] EXCEPT !.default = (x = s) \/ (@ /\ x # other)]]

\* The scales a request that switches off read as no default.
SwitchingOff(s) ==
  \E a \in Admins : Asks(a, "switch") /\ asked[a].scale = s /\ asked[a].what = "off"

CommitDefault(a) ==
  LET s == asked[a].scale
  IN /\ Asks(a, "default") /\ IndexAllows(a)
     /\ asked[a].other \notin Held
     /\ scale' = AfterDefault(s, asked[a].other)
     /\ crossed' = IF SwitchingOff(s) THEN crossed \cup {s} ELSE crossed
     /\ Answered(a)
     /\ UNCHANGED <<named, lateNamed>>

\* "busy" on the index, or the transaction fails: nothing is written.
DefaultRefused(a) ==
  /\ Asks(a, "default") /\ Answered(a)
  /\ UNCHANGED <<scale, named, crossed, lateNamed>>
-----------------------------------------------------------------------------
(***************************************************************************)
(* setScaleActive(): whether it is the default is read before the UPDATE.  *)
(***************************************************************************)
BeginSwitch(a, s, what) ==
  /\ Asks(a, "none") /\ There(s)
  /\ Ask(a, "switch", s, NoScale,
         IF what = "off" /\ scale[s].default THEN "off and clear" ELSE what)
  /\ UNCHANGED <<scale, named, crossed, lateNamed>>

\* A bug for TLC to find: the default switched off and left the default.
SwitchedKeeps(s, what) == [scale EXCEPT ![s].on = (what = "on")]

Switched(s, what) ==
  [scale EXCEPT ![s] = [@ EXCEPT !.on = (what = "on"),
                                 !.default = scale[s].default /\ what # "off and clear"]]

CommitSwitch(a) ==
  LET s == asked[a].scale
  IN /\ Asks(a, "switch") /\ s \notin Held
     /\ scale' = IF There(s) THEN Switched(s, asked[a].what) ELSE scale
     /\ Answered(a)
     /\ UNCHANGED <<named, crossed, lateNamed>>
-----------------------------------------------------------------------------
(***************************************************************************)
(* deleteScale(), and naming a scale: setQuizScale(), saveRubric(), an     *)
(* assessment's checkFields().                                             *)
(***************************************************************************)

\* A bug for TLC to find: a scale in use deleted.
UnusedAny(s) == TRUE

\* scaleUsage().
Unused(s) == Naming(s) = {}

BeginDeleteScale(a, s) ==
  /\ Asks(a, "none") /\ There(s) /\ Unused(s)
  /\ Ask(a, "delete", s, NoScale, "none")
  /\ UNCHANGED <<scale, named, crossed, lateNamed>>

\* The DELETE: foreign keys of what names the scale are set to null.
CommitDeleteScale(a) ==
  LET s == asked[a].scale
  IN /\ Asks(a, "delete") /\ s \notin Held
     /\ scale' = [scale EXCEPT ![s] = IF There(s) THEN ScaleRow("gone", FALSE, FALSE) ELSE @]
     /\ named' = [g \in Graded |-> IF named[g] = s THEN NoScale ELSE named[g]]
     /\ Answered(a)
     /\ UNCHANGED <<crossed, lateNamed>>

\* The scale exists and grades this kind of thing.
BeginNaming(a, g, s) ==
  /\ Asks(a, "none") /\ There(s) /\ ScaleKind[s] = GradedKind[g]
  /\ Ask(a, "name", s, NoScale, g)
  /\ UNCHANGED <<scale, named, crossed, lateNamed>>

\* A bug for TLC to find: no foreign key.
ReferenceHoldsAny(s) == TRUE

\* The foreign key.
ReferenceHolds(s) == There(s)

CommitNaming(a) ==
  LET s == asked[a].scale
      g == asked[a].what
  IN /\ Asks(a, "name") /\ s \notin Held /\ ReferenceHolds(s)
     /\ named' = [named EXCEPT ![g] = s]
     /\ lateNamed' = IF \E b \in Admins : Asks(b, "delete") /\ asked[b].scale = s
                       THEN lateNamed \cup {g} ELSE lateNamed \ {g}
     /\ Answered(a)
     /\ UNCHANGED <<scale, crossed>>

\* Naming none: the default again.
NameNone(g) ==
  /\ named' = [named EXCEPT ![g] = NoScale]
  /\ lateNamed' = lateNamed \ {g}
  /\ UNCHANGED <<scale, asked, crossed>>

\* A request that fails, or finds its scale gone.
GradingFails(a) ==
  /\ asked[a].at \in {"switch", "delete", "name"} /\ Answered(a)
  /\ UNCHANGED <<scale, named, crossed, lateNamed>>

GradingNext ==
  \/ \E s \in Scales : CreateScale(s)
  \/ \E g \in Graded : NameNone(g)
  \/ \E a \in Admins :
       \/ \E s \in Scales :
            \/ BeginDefault(a, s) \/ BeginDeleteScale(a, s)
            \/ \E what \in {"on", "off"} : BeginSwitch(a, s, what)
            \/ \E g \in Graded : BeginNaming(a, g, s)
       \/ CommitDefault(a) \/ DefaultRefused(a) \/ CommitSwitch(a)
       \/ CommitDeleteScale(a) \/ CommitNaming(a) \/ GradingFails(a)

GradingSpec == GradingInit /\ [][GradingNext]_gradingVars
-----------------------------------------------------------------------------
\* resolveScale(): the scale named, or the active default, or none.
Resolve(g) ==
  LET active == {d \in DefaultsOf(GradedKind[g]) : scale[d].on}
  IN IF named[g] # NoScale THEN named[g]
     ELSE IF active = {} THEN NoScale ELSE CHOOSE d \in active : TRUE

\* The values of the tables and of the requests.
GradingTypeOK ==
  /\ scale \in [Scales -> [there : {"unborn", "there", "gone"}, on : BOOLEAN,
                           default : BOOLEAN]]
  /\ named \in [Graded -> Scales \cup {NoScale}]
  /\ asked \in [Admins -> [at : {"none", "default", "switch", "delete", "name"},
                          scale : Scales \cup {NoScale}, other : Scales \cup {NoScale},
                          what : {"none", "on", "off", "off and clear"} \cup Graded]]
  /\ crossed \subseteq Scales /\ lateNamed \subseteq Graded

\* A kind has one default at most, whoever sets it beside whom.
OneDefault == \A kind \in GradeKinds : Cardinality(DefaultsOf(kind)) <= 1

\* The default can be graded by, unless it was made the default while a request
\* that had seen it was not one switched it off.
DefaultIsActive ==
  \A s \in Scales : scale[s].default => There(s) /\ (scale[s].on \/ s \in crossed)

\* What names a scale names one that exists and grades its kind.
NamedGrades ==
  \A g \in Graded : named[g] # NoScale => /\ There(named[g])
                                          /\ ScaleKind[named[g]] = GradedKind[g]

\* A kind that has a default keeps one, except by its being switched off or
\* deleted: making another the default leaves no moment without.
DefaultIsReplaced ==
  [][\A kind \in GradeKinds :
       (DefaultsOf(kind) # {} /\ DefaultsOf(kind)' = {})
         => \E s \in DefaultsOf(kind) : ~There(s)' \/ ~scale'[s].on]_gradingVars

\* What names a scale is graded by it until it is told otherwise: the scale is
\* not deleted under it, unless it was named while that was under way.
NamedScaleStays ==
  [][\A g \in Graded :
       named[g] # NoScale => scale'[named[g]].there = "there" \/ g \in lateNamed]_gradingVars

\* Scales and what they grade agree however administrators' requests overlap.
GradingPromises ==
  /\ [](GradingTypeOK /\ OneDefault /\ DefaultIsActive /\ NamedGrades)
  /\ DefaultIsReplaced /\ NamedScaleStays
=============================================================================
