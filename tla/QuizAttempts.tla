---------------------------- MODULE QuizAttempts ----------------------------
(***************************************************************************)
(* One learner's attempts at one quiz (apps/web quizzes/[slug]/page.tsx,   *)
(* components/quiz/QuizRunner.tsx, deadline.ts): the page opens an attempt *)
(* or continues the open one, the runner counts down to the attempt's end  *)
(* and submits, and the submit closes the attempt and is scored.           *)
(*                                                                         *)
(* The page is four statements, the submit one transaction whose first     *)
(* statement locks the attempt; the learner has several tabs, and a        *)
(* request may be lost on either side.  Time is in ticks.                  *)
(***************************************************************************)
EXTENDS FiniteSets, Integers

CONSTANTS LearnerTabs,  \* the learner's tabs and devices
          Attempts,     \* ids of quiz_attempts
          NoQuizAttempt, NoTab,
          TimeLimit,    \* quizzes.time_limit_seconds
          SubmitGrace,  \* SUBMIT_GRACE_SECONDS
          LongestLoad,  \* MAX_LOAD_LATENCY_MS
          TriesAllowed, \* quizzes.max_attempts
          LastTick

ASSUME QuizAssumption ==
  /\ NoQuizAttempt \notin Attempts /\ NoTab \notin LearnerTabs
  /\ {TimeLimit, SubmitGrace, LongestLoad, TriesAllowed, LastTick} \subseteq Nat

VARIABLES attemptRow, \* quiz_attempts
          screen,     \* each tab: its page load, its runner, its submit
          lockedBy,   \* the tab whose transaction holds an attempt's row
          tick

quizVars == <<attemptRow, screen, lockedBy, tick>>
-----------------------------------------------------------------------------
\* An attempt: when it was opened and closed (0 if not yet), and when the submit
\* scored in it began; quiz_submissions are the scored attempts.
NotOpened == [opened |-> 0, closed |-> 0, scored |-> 0]

\* A tab: where it is, the attempt it was sent and the time, and when that was.
Seen(at, a, left, since) ==
  [at |-> at, for |-> a, until |-> left, since |-> since, trusted |-> TRUE]

Away == Seen("away", NoQuizAttempt, 0, 0)

QuizInit ==
  /\ attemptRow = [a \in Attempts |-> NotOpened]
  /\ screen = [s \in LearnerTabs |-> Away]
  /\ lockedBy = [a \in Attempts |-> NoTab]
  /\ tick = 1

AttemptOpen(a) == attemptRow[a].opened # 0 /\ attemptRow[a].closed = 0

Submissions == {a \in Attempts : attemptRow[a].scored # 0}

Elapsed(a, at) == at - attemptRow[a].opened

NoneLocked == \A a \in Attempts : lockedBy[a] = NoTab

Show(s, view) == screen' = [screen EXCEPT ![s] = view]

MoveTo(s, at) == screen' = [screen EXCEPT ![s].at = at]
-----------------------------------------------------------------------------
\* QuizRunnerPage: the submissions are counted first.
CountTries(s) ==
  /\ screen[s].at = "away" /\ Cardinality(Submissions) < TriesAllowed
  /\ MoveTo(s, "counted")
  /\ UNCHANGED <<attemptRow, lockedBy, tick>>

\* A bug for TLC to find: every page load starts an attempt.
AlwaysFresh == TRUE

\* The partial unique index: no second open attempt.
NoneOpen == \A a \in Attempts : ~AttemptOpen(a)

\* INSERT ... ON CONFLICT DO NOTHING waits for a transaction closing the attempt.
OpenAttempt(s) ==
  /\ screen[s].at = "counted" /\ NoneLocked
  /\ IF NoneOpen
       THEN \E a \in Attempts :
              /\ attemptRow[a] = NotOpened
              /\ attemptRow' = [attemptRow EXCEPT ![a].opened = tick]
       ELSE UNCHANGED attemptRow
  /\ MoveTo(s, "opened")
  /\ UNCHANGED <<lockedBy, tick>>

\* Math.max(0, ...).
TimeLeft(a) == IF Elapsed(a, tick) >= TimeLimit THEN 0 ELSE TimeLimit - Elapsed(a, tick)

\* A bug for TLC to find: an answer on its way when time ran out is too late.
NoGrace(a, at) == Elapsed(a, at) > TimeLimit

TooLate(a, at) == Elapsed(a, at) > TimeLimit + SubmitGrace

\* The open attempt is read back: past its grace it is to be closed, within it
\* there is no runner, and otherwise the page goes out with the time left.
ReadBack(s) ==
  /\ screen[s].at = "opened"
  /\ \/ /\ NoneOpen
        /\ Show(s, Seen("runner", NoQuizAttempt, 0, 0))
     \/ \E a \in Attempts :
          /\ AttemptOpen(a)
          /\ Show(s, IF TooLate(a, tick) THEN Seen("expired", a, 0, 0)
                     ELSE IF TimeLeft(a) = 0 THEN Away
                     ELSE Seen("sent", a, TimeLeft(a), tick))
  /\ UNCHANGED <<attemptRow, lockedBy, tick>>

\* The page's UPDATE, guarded as the submit's is.
CloseExpired(s) ==
  LET a == screen[s].for
  IN /\ screen[s].at = "expired" /\ lockedBy[a] = NoTab
     /\ attemptRow' = IF AttemptOpen(a) /\ TooLate(a, tick)
                        THEN [attemptRow EXCEPT ![a].closed = tick] ELSE attemptRow
     /\ Show(s, Away)
     /\ UNCHANGED <<lockedBy, tick>>

\* A bug for TLC to find: the countdown starts when the page arrives.
FromMount(s, left, took) == tick + left

\* loadLatencyMs(): what the page took is taken off, if the device's clock makes
\* it a page load; 0 is a clock set wrong.
Deadline(s, left, took) == tick + left - took

\* The runner mounts.
Mount(s) ==
  LET gap == tick - screen[s].since
  IN /\ screen[s].at = "sent"
     /\ \E took \in {0, gap} :
          Show(s, [at |-> "runner", for |-> screen[s].for, since |-> screen[s].since,
                   until |-> Deadline(s, screen[s].until,
                                      IF took <= LongestLoad THEN took ELSE 0),
                   trusted |-> took = gap /\ gap <= LongestLoad])
     /\ UNCHANGED <<attemptRow, lockedBy, tick>>

\* onSubmit() at any time, or autoSubmit() at 00:00; submittedRef lets one go.
SendAnswers(s) ==
  /\ screen[s].at = "runner"
  /\ MoveTo(s, "sending")
  /\ UNCHANGED <<attemptRow, lockedBy, tick>>

\* submitQuizAttempt() begins its transaction: now() is this moment.
Arrive(s) ==
  /\ screen[s].at = "sending"
  /\ screen' = [screen EXCEPT ![s].at = "begun", ![s].since = tick]
  /\ UNCHANGED <<attemptRow, lockedBy, tick>>

\* A bug for TLC to find: whichever attempt is open is closed.
WhicheverOpen(s, a) == AttemptOpen(a)

\* The attempt the runner was rendered for, open still.
ClosedBySubmit(s, a) == a = screen[s].for /\ AttemptOpen(a)

\* Its first UPDATE closes the attempt, and holds its row ...
TakeAttempt(s) ==
  /\ screen[s].at = "begun" /\ NoneLocked
  /\ \E a \in Attempts :
       ClosedBySubmit(s, a) /\ lockedBy' = [lockedBy EXCEPT ![a] = s]
  /\ MoveTo(s, "holding")
  /\ UNCHANGED <<attemptRow, tick>>

\* ... or finds none: attempt_closed.
AttemptGone(s) ==
  /\ screen[s].at = "begun" /\ NoneLocked
  /\ \A a \in Attempts : ~ClosedBySubmit(s, a)
  /\ Show(s, Away)
  /\ UNCHANGED <<attemptRow, lockedBy, tick>>

\* A bug for TLC to find: a late submit scored like any other.
InAnyTime(s, a) == Cardinality(Submissions) < TriesAllowed

\* Neither time_expired nor attempts_exhausted.
Scores(s, a) == ~TooLate(a, screen[s].since) /\ Cardinality(Submissions) < TriesAllowed

ReleaseAttempt(s) ==
  lockedBy' = [a \in Attempts |-> IF lockedBy[a] = s THEN NoTab ELSE lockedBy[a]]

\* The transaction commits; its answer reaches the runner, or is lost.
CommitSubmit(s) ==
  /\ screen[s].at = "holding"
  /\ \E a \in Attempts :
       /\ lockedBy[a] = s
       /\ attemptRow' = [attemptRow EXCEPT
            ![a].closed = screen[s].since,
            ![a].scored = IF Scores(s, a) THEN screen[s].since ELSE 0]
  /\ ReleaseAttempt(s)
  /\ Show(s, Away) \/ MoveTo(s, "runner")
  /\ UNCHANGED tick

\* The request is lost, or its transaction rolls back: the runner may send again.
SubmitFails(s) ==
  /\ screen[s].at \in {"sending", "begun", "holding"}
  /\ MoveTo(s, "runner") /\ ReleaseAttempt(s)
  /\ UNCHANGED <<attemptRow, tick>>

\* The page load fails, or the tab is closed.
LeaveQuiz(s) ==
  /\ screen[s].at \in {"counted", "opened", "expired", "sent", "runner"}
  /\ Show(s, Away)
  /\ UNCHANGED <<attemptRow, lockedBy, tick>>

TickQuiz ==
  /\ tick < LastTick /\ tick' = tick + 1
  /\ UNCHANGED <<attemptRow, screen, lockedBy>>

QuizNext ==
  \/ \E s \in LearnerTabs :
       \/ CountTries(s) \/ OpenAttempt(s) \/ ReadBack(s) \/ CloseExpired(s)
       \/ Mount(s) \/ SendAnswers(s) \/ Arrive(s) \/ TakeAttempt(s) \/ AttemptGone(s)
       \/ CommitSubmit(s) \/ SubmitFails(s) \/ LeaveQuiz(s)
  \/ TickQuiz

QuizSpec == QuizInit /\ [][QuizNext]_quizVars
-----------------------------------------------------------------------------
TabSteps == {"away", "counted", "opened", "expired", "sent", "runner", "sending", "begun",
             "holding"}

TabView == [at : TabSteps, for : Attempts \cup {NoQuizAttempt}, until : Int, since : Nat,
            trusted : BOOLEAN]
AttemptTimes == [opened : Nat, closed : Nat, scored : Nat]

\* The values of the attempts, of the tabs and of the locks.
QuizTypeOK ==
  /\ attemptRow \in [Attempts -> AttemptTimes]
  /\ screen \in [LearnerTabs -> TabView]
  /\ lockedBy \in [Attempts -> LearnerTabs \cup {NoTab}]
  /\ tick \in Nat \ {0}

\* A learner has one attempt open at a time, whichever tabs load the page.
OneOpenAttempt == \A a, b \in Attempts : AttemptOpen(a) /\ AttemptOpen(b) => a = b

\* No more submissions are scored than the quiz allows, however submits, page
\* loads and lost answers fall together, and none past its attempt's time.
TriesAndTimeHold ==
  /\ Cardinality(Submissions) <= TriesAllowed
  /\ \A a \in Submissions : attemptRow[a].scored - attemptRow[a].opened <= TimeLimit + SubmitGrace

\* An attempt is closed without a score only when its time was over or the tries
\* were used: a try the learner still had is never spent by another tab.
UnscoredIsLate ==
  \A a \in Attempts :
    attemptRow[a].closed # 0 /\ attemptRow[a].scored = 0 =>
      \/ attemptRow[a].closed - attemptRow[a].opened > TimeLimit + SubmitGrace
      \/ Cardinality(Submissions) = TriesAllowed

\* A countdown whose device's clock was right ends when its attempt's time does:
\* what a page load or a reload took is not added to it.
CountdownIsAttempts ==
  \A s \in LearnerTabs :
    screen[s].at = "runner" /\ screen[s].for # NoQuizAttempt /\ screen[s].trusted =>
      screen[s].until = attemptRow[screen[s].for].opened + TimeLimit

\* An attempt whose score changes is the one the submit's runner was shown.
ScoredByItsRunner ==
  \A a \in Attempts :
    attemptRow[a].scored # attemptRow'[a].scored =>
      \E s \in LearnerTabs : screen[s].at = "holding" /\ screen[s].for = a

\* What a submit closes is the attempt its own runner was shown: a runner left
\* open on an earlier attempt does not spend the one the learner is sitting.
ScoresItsOwn == [][ScoredByItsRunner]_quizVars

\* Page loads, countdowns and submits from several tabs: one attempt at a time,
\* tries and time as the quiz has them, and no tab spends another's.
QuizPromises ==
  /\ [](QuizTypeOK /\ OneOpenAttempt /\ TriesAndTimeHold /\ UnscoredIsLate
        /\ CountdownIsAttempts)
  /\ ScoresItsOwn
=============================================================================
