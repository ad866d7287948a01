--------------------------- MODULE SectionAccess ---------------------------
(***************************************************************************)
(* Who may see which record (apps/web lib/authz.ts, lib/visibility.ts,     *)
(* lib/gated-reads.ts, the video pages): a record page decides on one row  *)
(* what a list page decides in a query built from several reads, and both  *)
(* ask for the section's grant apart.                                      *)
(*                                                                         *)
(* A page is a sequence of reads, and what they are of may change between  *)
(* two of them: pairings are paused and resumed, observers reassigned,     *)
(* sections unlocked and locked again.  Cycles are past nomination, when   *)
(* their teacher is fixed; a meeting is named by its pairing and a         *)
(* classroom session by its teacher.                                       *)
(***************************************************************************)
EXTENDS Naturals

CONSTANTS People,
          Role,         \* users.role of each: "admin" is either admin role
          Rows,         \* ids of teachers and mentors
          NoProfile,
          TeacherOf,    \* the teachers row of a login, or NoProfile
          MentorOf,     \* the mentors row of a login, or NoProfile
          Cycles, CycleTeacher,
          Nominated,    \* the observer a cycle was nominated with
          Pairings, PairMentor, PairTeacher,
          Videos,
          Context,      \* what a video is attached to
          SubmittedBy,
          NoPerson,
          MaxMoves      \* changes while a page is rendered

Sections == {"observation", "mentorship"}

ASSUME AccessAssumption ==
  /\ NoProfile \notin Rows /\ NoPerson \notin People /\ MaxMoves \in Nat
  /\ Cycles \cap Videos = {}
  /\ Role \in [People -> {"admin", "observer", "mentor", "teacher"}]
  /\ TeacherOf \in [People -> Rows \cup {NoProfile}] /\ MentorOf \in [People -> Rows \cup {NoProfile}]
  /\ CycleTeacher \in [Cycles -> Rows] /\ Nominated \in [Cycles -> People]
  /\ PairMentor \in [Pairings -> Rows] /\ PairTeacher \in [Pairings -> Rows]
  /\ SubmittedBy \in [Videos -> People]
  /\ \A v \in Videos :
       \/ Context[v].type = "observation_cycle" /\ Context[v].of \in Cycles
       \/ Context[v].type \in {"mentee_quarterly", "mentor_meeting"}
          /\ Context[v].of \in Pairings
       \/ Context[v].type = "classroom_session" /\ Context[v].of \in Rows
       \/ Context[v].type \in {"teach_back", "generic"}

VARIABLES observerOf, \* observation_cycles.observer_id
          activePair, \* the pairings whose status is active
          unlocked,   \* section_gate_grants that are live: <<who, section>>
          page,       \* the page being rendered
          moves

accessVars == <<observerOf, activePair, unlocked, page, moves>>
-----------------------------------------------------------------------------
\* lib/authz.ts, the record checks.

IsAdmin(p) == Role[p] = "admin"

\* A bug for TLC to find: a pairing that is over still opens her cycles.
AnyPairing(m, t) == m # NoProfile /\ \E q \in Pairings : PairMentor[q] = m /\ PairTeacher[q] = t

PairedWith(m, t) ==
  m # NoProfile /\ \E q \in activePair : PairMentor[q] = m /\ PairTeacher[q] = t

CanAccessCycle(p, c) ==
  \/ IsAdmin(p)
  \/ Role[p] = "observer" /\ observerOf[c] = p
  \/ Role[p] = "teacher" /\ TeacherOf[p] = CycleTeacher[c]
  \/ Role[p] = "mentor" /\ PairedWith(MentorOf[p], CycleTeacher[c])

CanAccessPairing(p, q) ==
  \/ IsAdmin(p)
  \/ Role[p] = "mentor" /\ MentorOf[p] = PairMentor[q]
  \/ Role[p] = "teacher" /\ TeacherOf[p] = PairTeacher[q]

CanAccessVideo(p, v) ==
  LET x == Context[v]
  IN \/ IsAdmin(p)
     \/ SubmittedBy[v] = p
     \/ x.type = "observation_cycle" /\ CanAccessCycle(p, x.of)
     \/ x.type \in {"mentee_quarterly", "mentor_meeting"} /\ CanAccessPairing(p, x.of)
     \/ x.type = "teach_back" /\ Role[p] \in {"mentor", "observer"}
     \/ x.type = "classroom_session" /\ Role[p] = "teacher" /\ TeacherOf[p] = x.of

\* videoGateSlug().
GateOf(v) == CASE Context[v].type = "observation_cycle" -> {"observation"}
               [] Context[v].type \in {"mentee_quarterly", "mentor_meeting"} -> {"mentorship"}
               [] OTHER -> {}

\* videoGateRequired(): one's own upload is not gated.
Ungated(p, v) ==
  SubmittedBy[v] = p \/ \A s \in GateOf(v) : <<p, s>> \in unlocked
-----------------------------------------------------------------------------
\* What a page has read, what it shows, and three ghosts: what its reader could
\* see, and had unlocked, at some moment since it began, and all the while.
Blank == [of |-> NoPerson, kind |-> "none", at |-> "idle",
          mentees |-> {}, cycles |-> {}, pairings |-> {}, locked |-> {}, shown |-> {},
          saw |-> {}, free |-> {}, always |-> {}]

\* Records of either kind a page may show.
Visible(p) == {c \in Cycles : CanAccessCycle(p, c)} \cup {v \in Videos : CanAccessVideo(p, v)}

Free(p) ==
  (IF <<p, "observation">> \in unlocked THEN Cycles ELSE {}) \cup {v \in Videos : Ungated(p, v)}

AccessInit ==
  /\ observerOf = Nominated
  /\ activePair = {}
  /\ unlocked = {}
  /\ page = Blank
  /\ moves = 0

Rendering == page.at \notin {"idle", "served"}

\* The ghosts follow what changes while the page is rendered.
Noted ==
  \E p \in {page.of} :
    page' = IF Rendering
              THEN [page EXCEPT !.saw    = @ \cup Visible(p)',
                                !.free   = @ \cup Free(p)',
                                !.always = @ \cap (Visible(p) \cap Free(p))']
              ELSE page

\* A page that was served is looked at before anything else happens.
Move == page.at # "served" /\ moves < MaxMoves /\ moves' = moves + 1

\* A pairing is paused, completed, ended, or active (again).
SetPairing(q) ==
  /\ Move
  /\ activePair' = IF q \in activePair THEN activePair \ {q} ELSE activePair \cup {q}
  /\ UNCHANGED <<observerOf, unlocked>>
  /\ Noted

Reassign(c, p) ==
  /\ Move /\ Role[p] = "observer" /\ observerOf[c] # p
  /\ observerOf' = [observerOf EXCEPT ![c] = p]
  /\ UNCHANGED <<activePair, unlocked>>
  /\ Noted

\* The section password is given; the grant expires, or a rotation deletes it.
SetGrant(p, s) ==
  /\ Move
  /\ unlocked' = IF <<p, s>> \in unlocked THEN unlocked \ {<<p, s>>}
                 ELSE unlocked \cup {<<p, s>>}
  /\ UNCHANGED <<observerOf, activePair>>
  /\ Noted
-----------------------------------------------------------------------------
\* What each kind of page reads first: the grant, by observationAccess() before
\* a list of cycles; the row's edges, before one video or the library.
FirstRead(kind) == CASE kind = "cycles"  -> "grants"
                     [] kind = "library" -> "mentees"
                     [] kind = "video"   -> "edges"

OpenPage(p, kind) ==
  /\ page.at = "idle"
  /\ page' = [Blank EXCEPT !.of = p, !.kind = kind, !.at = FirstRead(kind),
                !.saw = Visible(p), !.free = Free(p), !.always = Visible(p) \cap Free(p)]
  /\ UNCHANGED <<observerOf, activePair, unlocked, moves>>

Reads(view) == page' = view /\ UNCHANGED <<observerOf, activePair, unlocked, moves>>

\* A bug for TLC to find: the mentees of every pairing there has been.
EveryMentee(m) == {PairTeacher[q] : q \in {r \in Pairings : PairMentor[r] = m}}

\* menteeTeacherIds().
MenteesOf(m) == {PairTeacher[q] : q \in {r \in activePair : PairMentor[r] = m}}

\* cycleVisibility() and videoVisibilityFilter(), for a mentor with a row.
ReadMentees ==
  /\ page.at = "mentees"
  /\ Reads([page EXCEPT
       !.mentees = IF Role[page.of] = "mentor" /\ MentorOf[page.of] # NoProfile
                     THEN MenteesOf(MentorOf[page.of]) ELSE {},
       !.at = IF page.kind = "cycles" THEN "query" ELSE "cycles"])

\* The predicate of a list of cycles; the mentees are those read before.
CycleScope(p, mentees) ==
  CASE Role[p] = "admin"    -> Cycles
    [] Role[p] = "observer" -> {c \in Cycles : observerOf[c] = p}
    [] Role[p] = "teacher"  -> {c \in Cycles : TeacherOf[p] = CycleTeacher[c]}
    [] Role[p] = "mentor"   -> {c \in Cycles : CycleTeacher[c] \in mentees}

\* The library asks for the ids of the cycles first.
ReadCycles ==
  /\ page.at = "cycles"
  /\ Reads([page EXCEPT !.cycles = CycleScope(page.of, page.mentees), !.at = "pairings"])

\* A mentor's pairings, of any status, and their meetings.
ReadPairings ==
  /\ page.at = "pairings"
  /\ Reads([page EXCEPT
       !.pairings = IF Role[page.of] = "mentor"
                      THEN {q \in Pairings : PairMentor[q] = MentorOf[page.of]} ELSE {},
       !.at = "grants"])

\* A bug for TLC to find: an administrator is not asked for the password.
LockedUnlessAdmin(p) == {s \in Sections : ~IsAdmin(p) /\ <<p, s>> \notin unlocked}

LockedFor(p) == {s \in Sections : <<p, s>> \notin unlocked}

\* observationAccess() runs no query without the grant; lockedVideoScope().
ReadGrants ==
  LET locked == LockedFor(page.of)
  IN /\ page.at = "grants"
     /\ Reads([page EXCEPT
          !.locked = locked,
          !.at = IF page.kind = "library" THEN "query"
                 ELSE IF "observation" \in locked THEN "served" ELSE "mentees"])

\* A bug for TLC to find: an own upload hides with its section.
HiddenWhenLocked(v) == GateOf(v) \cap page.locked = {}

NotHidden(v) == SubmittedBy[v] = page.of \/ GateOf(v) \cap page.locked = {}

\* videoVisibilityFilter()'s clauses.
InLibrary(v) ==
  LET x == Context[v]
      p == page.of
  IN \/ IsAdmin(p)
     \/ SubmittedBy[v] = p
     \/ x.type = "observation_cycle" /\ x.of \in page.cycles
     \/ x.type \in {"mentee_quarterly", "mentor_meeting"} /\ x.of \in page.pairings
     \/ x.type = "teach_back" /\ Role[p] \in {"mentor", "observer"}
     \/ x.type = "classroom_session" /\ Role[p] = "teacher" /\ TeacherOf[p] = x.of

\* The list itself.
Query ==
  /\ page.at = "query"
  /\ Reads([page EXCEPT
       !.shown = IF page.kind = "cycles" THEN CycleScope(page.of, page.mentees)
                 ELSE {v \in Videos : InLibrary(v) /\ NotHidden(v)},
       !.at = "served"])

\* assertCanAccessVideo(), then videoGateRequired(): a page or a playlist of one.
CheckVideo(v) ==
  /\ page.at = "edges"
  /\ Reads(IF CanAccessVideo(page.of, v)
             THEN [page EXCEPT !.shown = {v}, !.at = "gate"] ELSE [page EXCEPT !.at = "served"])

CheckGate ==
  /\ page.at = "gate"
  /\ Reads([page EXCEPT !.shown = {v \in @ : Ungated(page.of, v)}, !.at = "served"])

\* The page has been sent.
ClosePage == page.at = "served" /\ Reads(Blank)

AccessNext ==
  \/ \E q \in Pairings : SetPairing(q)
  \/ \E c \in Cycles, p \in People : Reassign(c, p)
  \/ \E p \in People, s \in Sections : SetGrant(p, s)
  \/ \E p \in People, kind \in {"cycles", "library", "video"} : OpenPage(p, kind)
  \/ ReadMentees \/ ReadCycles \/ ReadPairings \/ ReadGrants \/ Query
  \/ \E v \in Videos : CheckVideo(v)
  \/ CheckGate \/ ClosePage

AccessSpec == AccessInit /\ [][AccessNext]_accessVars
-----------------------------------------------------------------------------
AccessTypeOK ==
  /\ observerOf \in [Cycles -> People] /\ activePair \subseteq Pairings
  /\ unlocked \subseteq People \X Sections /\ moves \in 0..MaxMoves
  /\ page.shown \subseteq Cycles \cup Videos
  /\ page.locked \subseteq Sections /\ page.mentees \subseteq Rows

\* A list, and a page or playlist of one video, shows only what its reader could
\* see at some moment since it was asked for, and had unlocked at some moment,
\* whatever changed between the reads it is put together from (lib/authz.ts).
ServedWasVisible ==
  page.at = "served" => page.shown \subseteq page.saw \cap page.free

\* A mentee may open what is attached to her pairing, and the library does not
\* list it: the predicate has no clause for her.
Unlisted(p) ==
  {v \in Videos : /\ Role[p] = "teacher" /\ SubmittedBy[v] # p
                  /\ Context[v].type \in {"mentee_quarterly", "mentor_meeting"}}

\* A list leaves out nothing its reader could open all the while, except that
\* (lib/visibility.ts: "the list-surface mirror of assertCanAccessCycle").
NothingMissed ==
  page.at = "served" /\ page.kind \in {"cycles", "library"} =>
    LET listed == IF page.kind = "cycles" THEN Cycles ELSE Videos \ Unlisted(page.of)
    IN page.always \cap listed \subseteq page.shown

\* At one moment, the list of cycles of whoever reads a page is exactly the
\* cycles whose own page would open.
ListMirrorsRecord ==
  \A p \in {page.of} \ {NoPerson} :
    CycleScope(p, IF MentorOf[p] = NoProfile THEN {} ELSE MenteesOf(MentorOf[p]))
      = {c \in Cycles : CanAccessCycle(p, c)}

\* Lists and records of the gated sections agree.
AccessPromises ==
  AccessTypeOK /\ ServedWasVisible /\ NothingMissed /\ ListMirrorsRecord
=============================================================================
