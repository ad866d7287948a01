---------------------------- MODULE MentorPairing ----------------------------
(***************************************************************************)
(* One mentor's pairing with a teacher (apps/web mentorship/[pairingId]/   *)
(* actions.ts): meetings logged and removed, commitments added and ticked, *)
(* the pairing completed, and the videos uploads attach to its meetings.   *)
(*                                                                         *)
(* An action reads what it needs, then runs one transaction.  Transactions *)
(* are READ COMMITTED: an update waits for the row's lock, and a subquery  *)
(* in it sees what was committed when the statement began.  A meeting is   *)
(* known by its date, and the meetings' dates differ.                      *)
(***************************************************************************)
EXTENDS FiniteSets, FiniteSetsExt, Naturals, Sequences

CONSTANTS Callers,  \* requests in flight
          Meetings, \* dates
          OpenCap,  \* 50: commitments not yet done
          HardCap   \* 500: commitments, done or not

ASSUME MentorAssumption ==
  /\ IsFiniteSet(Meetings) /\ Meetings \subseteq Nat \ {0}
  /\ OpenCap \in Nat /\ HardCap \in Nat /\ OpenCap <= HardCap

VARIABLES meetings,    \* mentor_meetings, as committed
          logged,      \* every meeting ever logged: its row's id is not reused
          count,       \* mentor_pairings.meetings_count
          last,        \* mentor_pairings.last_meeting_at, 0 for null
          closed,      \* how many times status was set to complete
          commitments, \* done or not, in order
          recorded,    \* meetings a video submission names
          call,        \* each tab's action
          waited,      \* a removal last recounted after waiting for the row
          unticked,    \* a done commitment was opened again
          mixed        \* meetings whose removal and recording overlapped

mentorVars == <<meetings, logged, count, last, closed, commitments, recorded,
                call, waited, unticked, mixed>>
-----------------------------------------------------------------------------
Ops == {"log", "cancel", "complete", "add", "toggle", "record"}

\* The phases: checked; its row deleted; waiting for the pairing's row; holding it.
Phases == {"none", "checked", "deleted", "waits", "holds"}

NoRequestYet ==
  [at |-> "none", op |-> "log", which |-> 0, sees |-> {}, late |-> FALSE]

counters == <<count, last>>
listed   == <<commitments, unticked>>

MentorInit ==
  /\ meetings = {} /\ logged = {}
  /\ count = 0 /\ last = 0
  /\ closed = 0
  /\ commitments = <<>>
  /\ recorded = {}
  /\ call = [t \in Callers |-> NoRequestYet]
  /\ waited = FALSE /\ unticked = FALSE
  /\ mixed = {}

LatestOf(S) == IF S = {} THEN 0 ELSE Max(S)

Doing(t, op, at) == call[t].op = op /\ call[t].at = at
Enter(t, at)     == call' = [call EXCEPT ![t].at = at]
EndCall(t)        == call' = [call EXCEPT ![t] = NoRequestYet]

OtherCallers(t) == Callers \ {t}
RowFree(t) == \A other \in OtherCallers(t) : call[other].at # "holds"

\* A bug for TLC to find: a recording does not keep its meeting.
MayRemoveAny(m) == m \in meetings

\* cancelMeetingAction() finds the meeting and no video that names it.
MayRemove(m) == m \in meetings /\ m \notin recorded

\* What each action asks before its transaction.
Permits(op, m) ==
  CASE op = "log"      -> m \in Meetings \ logged
    [] op = "cancel"   -> MayRemove(m)
    [] op = "record"   -> m \in meetings
    [] op = "toggle"   -> m \in 1..HardCap
    [] OTHER           -> m = 0

\* Up to the transaction.  Every action but the completion of a pairing and an
\* upload refuses on a closed one.
CheckCall(t, op, m) ==
  /\ call[t].at = "none"
  /\ op \in {"complete", "record"} \/ closed = 0
  /\ Permits(op, m)
  /\ logged' = IF op = "log" THEN logged \cup {m} ELSE logged
  /\ call' = [call EXCEPT ![t] =
       [at |-> "checked", op |-> op, which |-> m, sees |-> {}, late |-> FALSE]]
  /\ UNCHANGED <<meetings, counters, closed, listed, recorded, waited, mixed>>

\* cancelMeetingAction(): the DELETE, which waits for another of the same row.
Delete(t) ==
  /\ Doing(t, "cancel", "checked")
  /\ \A other \in OtherCallers(t) :
       ~(/\ call[other].op = "cancel" /\ call[other].which = call[t].which
         /\ call[other].at \in {"deleted", "waits", "holds"})
  /\ Enter(t, "deleted")
  /\ UNCHANGED <<meetings, logged, counters, closed, listed, recorded, waited, mixed>>

\* The UPDATE of the pairing begins: what it sees of the meetings is fixed now.
StartUpdate(t) ==
  /\ \/ call[t].op \in {"log", "complete", "add", "toggle"} /\ call[t].at = "checked"
     \/ Doing(t, "cancel", "deleted")
  /\ call' = [call EXCEPT ![t] =
       [@ EXCEPT !.at = IF RowFree(t) THEN "holds" ELSE "waits",
                 !.sees = meetings \ {call[t].which}]]
  /\ UNCHANGED <<meetings, logged, counters, closed, listed, recorded, waited, mixed>>

TakeRow(t) ==
  /\ call[t].at = "waits" /\ RowFree(t)
  /\ call' = [call EXCEPT ![t] = [@ EXCEPT !.at = "holds", !.late = TRUE]]
  /\ UNCHANGED <<meetings, logged, counters, closed, listed, recorded, waited, mixed>>

\* logMeetingAction() commits: the row, the counter and the latest date.
CommitLog(t) ==
  LET m == call[t].which
  IN /\ Doing(t, "log", "holds")
     /\ meetings' = meetings \cup {m}
     /\ count' = count + 1
     /\ last' = LatestOf({last, m})
     /\ EndCall(t)
     /\ UNCHANGED <<logged, closed, listed, recorded, waited, mixed>>

\* A bug for TLC to find: one less, whatever the DELETE removed.
OneLess(t) == count - 1

\* The count of what the statement sees.
Recount(t) == Cardinality(call[t].sees)

\* cancelMeetingAction() commits.
CommitCancel(t) ==
  LET m == call[t].which
  IN /\ Doing(t, "cancel", "holds")
     /\ meetings' = meetings \ {m}
     /\ count' = Recount(t)
     /\ last' = LatestOf(call[t].sees)
     /\ waited' = call[t].late
     /\ EndCall(t)
     /\ UNCHANGED <<logged, closed, listed, recorded, mixed>>

\* A bug for TLC to find: a re-post completes a complete pairing.
CompletesAgain == TRUE

\* notInArray(status, ["complete", "ended"]).
StillOpen == closed = 0

\* completePairingAction(): ended_at is written with the status.
CommitComplete(t) ==
  /\ Doing(t, "complete", "holds")
  /\ closed' = IF StillOpen THEN closed + 1 ELSE closed
  /\ EndCall(t)
  /\ UNCHANGED <<meetings, logged, counters, listed, recorded, waited, mixed>>

OpenCount == Cardinality({i \in DOMAIN commitments : ~commitments[i]})

\* A bug for TLC to find: one more than the caps allow.
FullPast == OpenCount > OpenCap \/ Len(commitments) > HardCap

Full == OpenCount >= OpenCap \/ Len(commitments) >= HardCap

\* addCommitmentAction(): appended by the statement itself, or not at all.
CommitAdd(t) ==
  /\ Doing(t, "add", "holds")
  /\ commitments' = IF Full THEN commitments ELSE Append(commitments, FALSE)
  /\ EndCall(t)
  /\ UNCHANGED <<meetings, logged, counters, closed, recorded, waited, unticked, mixed>>

\* toggleCommitmentAction(): an unknown id changes nothing (and on an empty list
\* the statement fails).
CommitToggle(t) ==
  LET i == call[t].which
  IN /\ Doing(t, "toggle", "holds")
     /\ IF i \in DOMAIN commitments
          THEN /\ commitments' = [commitments EXCEPT ![i] = ~@]
               /\ unticked' = (unticked \/ commitments[i])
          ELSE UNCHANGED listed
     /\ EndCall(t)
     /\ UNCHANGED <<meetings, logged, counters, closed, recorded, waited, mixed>>

BeingRemoved(m) == \E t \in Callers : call[t].op = "cancel" /\ call[t].which = m
                                   /\ call[t].at # "none"

\* An upload for a meeting, its context checked before, is recorded.
AttachVideo(t) ==
  LET m == call[t].which
  IN /\ Doing(t, "record", "checked")
     /\ recorded' = recorded \cup {m}
     /\ mixed' = IF m \in meetings /\ ~BeingRemoved(m) THEN mixed ELSE mixed \cup {m}
     /\ EndCall(t)
     /\ UNCHANGED <<meetings, logged, counters, closed, listed, waited>>

\* The process dies, or the transaction fails: it is rolled back.
RollBack(t) ==
  /\ call[t].at # "none"
  /\ EndCall(t)
  /\ UNCHANGED <<meetings, logged, counters, closed, listed, recorded, waited, mixed>>

MentorNext ==
  \E t \in Callers :
    \/ \E op \in Ops, m \in Meetings \cup 0..HardCap : CheckCall(t, op, m)
    \/ Delete(t) \/ StartUpdate(t) \/ TakeRow(t)
    \/ CommitLog(t) \/ CommitCancel(t) \/ CommitComplete(t)
    \/ CommitAdd(t) \/ CommitToggle(t)
    \/ AttachVideo(t) \/ RollBack(t)

MentorSpec == MentorInit /\ [][MentorNext]_mentorVars
-----------------------------------------------------------------------------
\* The values of the pairing, its meetings and the requests on it.
MentorTypeOK ==
  /\ meetings \subseteq Meetings /\ logged \subseteq Meetings
  /\ recorded \subseteq Meetings /\ mixed \subseteq Meetings
  /\ count \in 0..Cardinality(Meetings) /\ last \in Meetings \cup {0}
  /\ closed \in Nat
  /\ commitments \in Seq(BOOLEAN)
  /\ call \in [Callers -> [at : Phases, op : Ops, which : Meetings \cup 0..HardCap,
                           sees : SUBSET Meetings, late : BOOLEAN]]
  /\ waited \in BOOLEAN /\ unticked \in BOOLEAN
  /\ Cardinality({t \in Callers : call[t].at = "holds"}) <= 1

\* The cached counters say what the meetings are, however logs and removals
\* overlap, except after a removal whose recount waited for another
\* transaction; the next one that does not wait puts them right.
CountersAreCurrent ==
  waited \/ (count = Cardinality(meetings) /\ last = LatestOf(meetings))

\* No video is left without its meeting, unless it was uploaded while the
\* meeting was being removed.
RecordingsKeepMeetings == recorded \subseteq meetings \cup mixed

\* A pairing is completed once: a re-post, or a second administrator at the same
\* time, does not write its end again.
CompletedOnce == closed <= 1

\* Additions that overlap never pass the caps; only opening a done commitment
\* again does.
WithinCaps ==
  Len(commitments) <= HardCap /\ (unticked \/ OpenCount <= OpenCap)

\* The actions on a pairing, called at once: its counters, its recordings, its
\* end and its commitments stay what its rows say.
MentorPromises ==
  MentorTypeOK /\ CountersAreCurrent /\ RecordingsKeepMeetings /\ CompletedOnce /\ WithinCaps
=============================================================================
