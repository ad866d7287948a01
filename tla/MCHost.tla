------------------------------- MODULE MCHost -------------------------------
(***************************************************************************)
(* Instances, for TLC, of what a host keeps running whoever is signed in:  *)
(* the queue and its workers, the releases, the administrators' accounts,  *)
(* and who may see which record.  The parts do not interact: a behaviour   *)
(* is one of them, chosen at the start.                                    *)
(***************************************************************************)
EXTENDS MCJobQueue, Deployment, UserAccounts, SectionAccess

CONSTANTS t1, t2, u1, u2,
          anAdmin, anObserver, another, aMentor, aTeacher,
          teacherRow, strangerRow, mentorRow,
          hers, others, thePairing,
          ofCycle, ofQuarter, ofMeeting, ofSession, ofTeachBack, ofOthers

VARIABLE part
-----------------------------------------------------------------------------
\* One person of each role and a second observer, the teacher's cycle and that of
\* a teacher without a login, one pairing, and a video of each kind.
TheRoles == [p \in People |-> CASE p = anAdmin  -> "admin"
                               [] p \in {anObserver, another} -> "observer"
                               [] p = aMentor  -> "mentor"
                               [] p = aTeacher -> "teacher"]
TheTeachers == [p \in People |-> IF p = aTeacher THEN teacherRow ELSE NoProfile]
TheMentors  == [p \in People |-> IF p = aMentor THEN mentorRow ELSE NoProfile]
TheCycles   == [c \in Cycles |-> IF c = hers THEN teacherRow ELSE strangerRow]
TheObserver == [c \in Cycles |-> anObserver]
TheMentor   == [q \in Pairings |-> mentorRow]
TheMentee   == [q \in Pairings |-> teacherRow]

Attached(type, of) == [type |-> type, of |-> of]

TheContexts == [v \in Videos |->
  CASE v = ofCycle     -> Attached("observation_cycle", hers)
    [] v = ofOthers    -> Attached("observation_cycle", others)
    [] v = ofQuarter   -> Attached("mentee_quarterly", thePairing)
    [] v = ofMeeting   -> Attached("mentor_meeting", thePairing)
    [] v = ofSession   -> Attached("classroom_session", teacherRow)
    [] v = ofTeachBack -> Attached("teach_back", NoProfile)]
TheSubmitters == [v \in Videos |-> CASE v \in {ofCycle, ofQuarter, ofTeachBack} -> aTeacher
                                    [] v \in {ofMeeting, ofSession} -> aMentor
                                    [] v = ofOthers -> anObserver]
-----------------------------------------------------------------------------
Parts == {"queue", "deploy", "user", "access"}

HostInit ==
  /\ part \in Parts
  /\ Init /\ DeployInit /\ UserInit /\ AccessInit

\* The part moves; the others stay as they were at the start.
HostNext ==
  /\ UNCHANGED part
  /\ IF part = "queue" THEN Next ELSE UNCHANGED vars
  /\ IF part = "deploy" THEN DeployNext ELSE UNCHANGED deployVars
  /\ IF part = "user" THEN UserNext ELSE UNCHANGED userVars
  /\ IF part = "access" THEN AccessNext ELSE UNCHANGED accessVars

HostSpec ==
  /\ HostInit
  /\ [][HostNext]_<<part, vars, deployVars, userVars, accessVars>>
=============================================================================
