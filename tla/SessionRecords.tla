--------------------------- MODULE SessionRecords ---------------------------
(***************************************************************************)
(* The sessions a teacher records for a class, one student's attendance in *)
(* them, and the percentage kept on that student (apps/web                 *)
(* teaching/sessions/actions.ts, lib/teaching/records.ts).                 *)
(*                                                                         *)
(* A transaction is two steps, because PostgreSQL's READ COMMITTED lets    *)
(* two of them pass each other: it locks its session and computes what it  *)
(* will write from what is committed and from its own writes; then it      *)
(* commits.  A refresh that waits for the student's row still writes what  *)
(* it computed before it waited.                                           *)
(***************************************************************************)
EXTENDS Naturals

CONSTANTS Forms,   \* the teacher's forms with a request in flight
          Sessions,
          NoSession,
          MaxSaves \* how many transactions commit

ASSUME SessionAssumption == NoSession \notin Sessions /\ MaxSaves \in Nat

VARIABLES held,     \* sessions.status
          mark,     \* the student's session_attendance row
          tally,    \* sessions.attended_count and total_count
          percent,  \* the marks learners.attendance_pct was computed from
          unlocked, \* sessions whose approval_status is editable
          form,     \* each form's request
          saves,
          excused   \* the percentage may be stale, for one of the two reasons
                    \* TotalsAreCurrent names

sessionVars == <<held, mark, tally, percent, unlocked, form, saves, excused>>
-----------------------------------------------------------------------------
SessionStates == {"planned", "complete", "cancelled"}
Marks         == {"none", "present", "absent"}

Idle == [at |-> "none", s |-> NoSession, read |-> "planned", to |-> "planned",
         seen |-> [s \in Sessions |-> "none"], fresh |-> TRUE]

\* recomputeSessionCounts(): who is marked, and who of them attended.
CountOf(m) == [total    |-> IF m = "none" THEN 0 ELSE 1,
             attended |-> IF m = "present" THEN 1 ELSE 0]

\* The marks refreshLearnerAttendance() counts: those of sessions not cancelled.
Counted(states, marks) ==
  [s \in Sessions |-> IF states[s] = "cancelled" THEN "none" ELSE marks[s]]

SessionInit ==
  /\ held = [s \in Sessions |-> "planned"]
  /\ mark = [s \in Sessions |-> "none"]
  /\ tally = [s \in Sessions |-> CountOf("none")]
  /\ percent = [s \in Sessions |-> "none"]
  /\ unlocked = Sessions
  /\ form = [t \in Forms |-> Idle]
  /\ saves = 0
  /\ excused = FALSE

InTransaction(t) == form[t].at \in {"marking", "updating"}

\* SELECT ... FOR UPDATE of the session's row.
LockHeld(s) == \E t \in Forms : InTransaction(t) /\ form[t].s = s

tables == <<held, mark, tally, percent>>
-----------------------------------------------------------------------------
\* saveAttendanceAction(): editable and not cancelled, when it looked.
Markable(s) == s \in unlocked /\ held[s] # "cancelled"

BeginMarks(t, s, m) ==
  /\ form[t].at = "none"
  /\ Markable(s)
  /\ form' = [form EXCEPT ![t] = [Idle EXCEPT !.at = "marks", !.s = s, !.to = m]]
  /\ UNCHANGED <<tables, unlocked, saves, excused>>

\* updateSessionAction(): what it knows of the status it read here.
BeginUpdate(t, s, status) ==
  /\ form[t].at = "none"
  /\ s \in unlocked
  /\ form' = [form EXCEPT ![t] = [Idle EXCEPT !.at = "update", !.s = s,
                                              !.read = held[s], !.to = status]]
  /\ UNCHANGED <<tables, unlocked, saves, excused>>

\* A bug for TLC to find: the lock taken, and the state not read with it.
LockSession(s) == ~LockHeld(s)

\* lockEditableSession().
LockEditableSession(s) == ~LockHeld(s) /\ s \in unlocked

\* saveSessionMarks(): under the lock, the mark and what follows from it.
WriteMarks(t) ==
  LET s == form[t].s
  IN /\ form[t].at = "marks"
     /\ LockEditableSession(s)
     /\ form' = [form EXCEPT ![t] = [@ EXCEPT !.at = "marking", !.fresh = TRUE,
                   !.seen = Counted(held, [mark EXCEPT ![s] = form[t].to])]]
     /\ UNCHANGED <<tables, unlocked, saves, excused>>

\* updateSessionAction()'s transaction.
WriteUpdate(t) ==
  LET s == form[t].s
  IN /\ form[t].at = "update"
     /\ LockEditableSession(s)
     /\ form' = [form EXCEPT ![t] = [@ EXCEPT !.at = "updating", !.fresh = TRUE,
                   !.seen = Counted([held EXCEPT ![s] = form[t].to], mark)]]
     /\ UNCHANGED <<tables, unlocked, saves, excused>>

\* The session was sent meanwhile: refused.
FoundLocked(t) ==
  /\ form[t].at \in {"marks", "update"}
  /\ ~LockHeld(form[t].s) /\ form[t].s \notin unlocked
  /\ form' = [form EXCEPT ![t] = Idle]
  /\ UNCHANGED <<tables, unlocked, saves, excused>>

\* Every other open transaction computed its percentage without this one.
Overtaken(t) ==
  [u \in Forms |-> IF u = t THEN Idle
                   ELSE IF InTransaction(u) THEN [form[u] EXCEPT !.fresh = FALSE]
                   ELSE form[u]]

Commit(t) ==
  /\ saves < MaxSaves /\ saves' = saves + 1
  /\ form' = Overtaken(t)
  /\ UNCHANGED unlocked

\* A bug for TLC to find: a count that grows with every save.
CommitMore(t) ==
  LET s == form[t].s
  IN /\ form[t].at = "marking" /\ Commit(t)
     /\ mark' = [mark EXCEPT ![s] = form[t].to]
     /\ tally' = [tally EXCEPT ![s].total = tally[s].total + 1]
     /\ percent' = form[t].seen
     /\ excused' = ~form[t].fresh
     /\ UNCHANGED held

CommitMarks(t) ==
  LET s == form[t].s
  IN /\ form[t].at = "marking" /\ Commit(t)
     /\ mark' = [mark EXCEPT ![s] = form[t].to]
     /\ tally' = [tally EXCEPT ![s] = CountOf(form[t].to)]
     /\ percent' = form[t].seen
     /\ excused' = ~form[t].fresh
     /\ UNCHANGED held

\* A bug for TLC to find: the percentage left alone when a session is cancelled.
RefreshOnReturn(from, to) == from # to /\ from = "cancelled"

\* The update refreshes the percentage when, as far as it knows, the session
\* becomes cancelled or stops being so.
Refreshes(from, to) == from # to /\ "cancelled" \in {from, to}

CommitUpdate(t) ==
  LET s == form[t].s
  IN /\ form[t].at = "updating" /\ Commit(t)
     /\ held' = [held EXCEPT ![s] = form[t].to]
     /\ IF Refreshes(form[t].read, form[t].to) /\ mark[s] # "none"
          THEN percent' = form[t].seen /\ excused' = ~form[t].fresh
          ELSE /\ UNCHANGED percent
               /\ excused' = (excused \/ form[t].read # held[s])
     /\ UNCHANGED <<mark, tally>>

\* Rolled back, or never got that far.
AbandonForm(t) ==
  /\ form[t].at # "none"
  /\ form' = [form EXCEPT ![t] = Idle]
  /\ UNCHANGED <<tables, unlocked, saves, excused>>

\* sessionSubmitBlocker(): it happened, with the student marked, or it was
\* cancelled.
HasHappened(s) == held[s] = "cancelled" \/ (held[s] = "complete" /\ mark[s] # "none")

BeginSessionSubmit(t, s) ==
  /\ form[t].at = "none"
  /\ s \in unlocked /\ HasHappened(s)
  /\ form' = [form EXCEPT ![t] = [Idle EXCEPT !.at = "submit", !.s = s]]
  /\ UNCHANGED <<tables, unlocked, saves, excused>>

\* onSubmit()'s UPDATE waits for the lock.
SubmitSession(t) ==
  /\ form[t].at = "submit" /\ ~LockHeld(form[t].s)
  /\ unlocked' = unlocked \ {form[t].s}
  /\ form' = [form EXCEPT ![t] = Idle]
  /\ UNCHANGED <<tables, saves, excused>>

\* An approver sends it back, or approves it for good.
SendBack(s) ==
  /\ s \notin unlocked /\ unlocked' = unlocked \cup {s}
  /\ UNCHANGED <<tables, form, saves, excused>>

SessionNext ==
  \/ \E t \in Forms :
       \/ \E s \in Sessions :
            \/ \E m \in Marks \ {"none"} : BeginMarks(t, s, m)
            \/ \E status \in SessionStates : BeginUpdate(t, s, status)
            \/ BeginSessionSubmit(t, s)
       \/ WriteMarks(t) \/ WriteUpdate(t) \/ FoundLocked(t)
       \/ CommitMarks(t) \/ CommitUpdate(t)
       \/ SubmitSession(t) \/ AbandonForm(t)
  \/ \E s \in Sessions : SendBack(s)

SessionSpec == SessionInit /\ [][SessionNext]_sessionVars
-----------------------------------------------------------------------------
\* The values of the rows and of the handlers' local state.
SessionTypeOK ==
  /\ held \in [Sessions -> SessionStates]
  /\ mark \in [Sessions -> Marks]
  /\ tally \in [Sessions -> [total : 0..1, attended : 0..1]]
  /\ percent \in [Sessions -> Marks]
  /\ unlocked \subseteq Sessions
  /\ form \in [Forms -> [at : {"none", "marks", "update", "marking", "updating", "submit"},
                         s : Sessions \cup {NoSession}, read : SessionStates,
                         to : SessionStates \cup Marks,
                         seen : [Sessions -> Marks], fresh : BOOLEAN]]
  /\ saves \in 0..MaxSaves
  /\ excused \in BOOLEAN

\* A session's counts are those of its marks, and the student's percentage is
\* that of her marks in the sessions that were not cancelled.  Two things only
\* make it wrong, until the next refresh that neither happens to: its last
\* refresh overlapped another transaction about her, or a session was saved from
\* a form that showed a status it no longer had.
TotalsAreCurrent ==
  /\ \A s \in Sessions : tally[s] = CountOf(mark[s])
  /\ excused \/ percent = Counted(held, mark)

\* A session sent for approval keeps the status, marks and counts it was sent
\* with until it is sent back.
SentStays ==
  [][\A s \in Sessions :
       s \notin unlocked => /\ held'[s] = held[s]
                            /\ mark'[s] = mark[s]
                            /\ tally'[s] = tally[s]]_sessionVars

\* The registers of a student's sessions and what is computed from them agree,
\* and a session that was sent stays as it was sent.
SessionPromises == [](SessionTypeOK /\ TotalsAreCurrent) /\ SentStays
=============================================================================
