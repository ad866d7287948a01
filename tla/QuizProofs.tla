----------------------------- MODULE QuizProofs -----------------------------
(***************************************************************************)
(* What learners and their mentors are promised, for any number of them    *)
(* and however their requests overlap: quizzes (QuizAttempts), mentors'    *)
(* pairings (MentorPairing), rubrics and scores (RubricScores), the record *)
(* of a SCORM module (ScormAttempt).                                       *)
(*                                                                         *)
(* A quiz's properties speak of rows; they hold because of what each tab's *)
(* request remembers of a row (Remembers) and because a row is locked only *)
(* by the submit of its own runner, while it is open (LocksOpen).          *)
(***************************************************************************)
EXTENDS QuizAttempts, MentorPairing, RubricScores, ScormAttempt,
        FiniteSetTheorems, TLAPS

\* Where a runner is mounted.
Mounted == {"runner", "sending", "begun", "holding"}

QuizRows ==
  /\ QuizTypeOK
  /\ \A a \in Attempts : attemptRow[a].opened = 0 => attemptRow[a] = NotOpened
  /\ \A a \in Attempts : attemptRow[a].scored # 0 => attemptRow[a].closed # 0

\* What a tab's request remembers of its attempt, and of when it read it.
Remembers ==
  \A s \in LearnerTabs :
    LET v == screen[s] IN
      /\ v.since <= tick
      /\ v.for # NoQuizAttempt => attemptRow[v.for].opened # 0
      /\ v.at = "sent" => /\ v.for # NoQuizAttempt
                          /\ v.until = attemptRow[v.for].opened + TimeLimit - v.since
      /\ v.at \in Mounted /\ v.for # NoQuizAttempt /\ v.trusted =>
           v.until = attemptRow[v.for].opened + TimeLimit
      /\ v.at \in {"begun", "holding"} => v.since # 0
      /\ v.at = "expired" => v.for # NoQuizAttempt

\* A row is locked by the submit of its runner, while it is open.
LocksOpen ==
  \A a \in Attempts : lockedBy[a] # NoTab =>
    /\ AttemptOpen(a)
    /\ screen[lockedBy[a]].at = "holding" /\ screen[lockedBy[a]].for = a

QuizInv ==
  /\ QuizRows /\ Remembers /\ LocksOpen
  /\ IsFiniteSet(Submissions)
  /\ OneOpenAttempt /\ TriesAndTimeHold /\ UnscoredIsLate
-----------------------------------------------------------------------------
\* Steps that write no attempt and take no lock: the tab's view is all there is.
LEMMA ViewInv ==
  ASSUME QuizInv, NEW s \in LearnerTabs, NEW v \in TabView, UNCHANGED <<attemptRow, tick>>,
         screen' = [screen EXCEPT ![s] = v],
         v.since <= tick,
         v.for # NoQuizAttempt => attemptRow[v.for].opened # 0,
         v.at = "sent" => /\ v.for # NoQuizAttempt
                          /\ v.until = attemptRow[v.for].opened + TimeLimit - v.since,
         v.at \in Mounted /\ v.for # NoQuizAttempt /\ v.trusted =>
           v.until = attemptRow[v.for].opened + TimeLimit,
         v.at \in {"begun", "holding"} => v.since # 0,
         v.at = "expired" => v.for # NoQuizAttempt,
         lockedBy' \in [Attempts -> LearnerTabs \cup {NoTab}],
         LocksOpen'
  PROVE  QuizInv'
<1>1. QuizRows'
  BY DEF QuizInv, QuizRows, QuizTypeOK
<1>2. Remembers'
  BY DEF QuizInv, QuizRows, QuizTypeOK, Remembers
<1>3. Submissions' = Submissions
  BY DEF Submissions
<1>4. OneOpenAttempt'
  BY DEF QuizInv, OneOpenAttempt, AttemptOpen
<1>5. TriesAndTimeHold' /\ UnscoredIsLate'
  BY <1>3 DEF QuizInv, TriesAndTimeHold, UnscoredIsLate
<1> QED BY <1>1, <1>2, <1>3, <1>4, <1>5 DEF QuizInv

\* A tab that holds nothing changes nobody's lock.
LEMMA LocksKept ==
  ASSUME QuizInv, NEW s \in LearnerTabs, screen[s].at # "holding",
         \A r \in LearnerTabs \ {s} : screen'[r] = screen[r],
         UNCHANGED lockedBy, UNCHANGED attemptRow
  PROVE  LocksOpen' /\ lockedBy' \in [Attempts -> LearnerTabs \cup {NoTab}]
BY DEF QuizInv, QuizRows, QuizTypeOK, LocksOpen, AttemptOpen

\* A change of step alone.
LEMMA MoveIs ==
  ASSUME QuizInv, NEW s \in LearnerTabs, NEW at \in TabSteps, MoveTo(s, at)
  PROVE  LET v == [at |-> at, for |-> screen[s].for, until |-> screen[s].until,
                   since |-> screen[s].since, trusted |-> screen[s].trusted]
         IN v \in TabView /\ screen' = [screen EXCEPT ![s] = v]
<1> DEFINE c == screen[s]
           v == [at |-> at, for |-> c.for, until |-> c.until, since |-> c.since,
                 trusted |-> c.trusted]
<1>1. c \in TabView
  BY DEF QuizInv, QuizRows, QuizTypeOK
<1>2. v \in TabView
  BY <1>1 DEF TabView
<1>3. [c EXCEPT !.at = at] = v
  BY <1>1 DEF TabView
<1>4. screen' = [screen EXCEPT ![s] = [c EXCEPT !.at = at]]
  BY DEF MoveTo
<1> QED BY <1>2, <1>3, <1>4

\* A closed tab is a tab.
LEMMA AwayView == Away \in TabView
BY DEF Away, Seen, TabView, TabSteps

\* Back to the list.
LEMMA AwayInv ==
  ASSUME QuizInv, NEW s \in LearnerTabs, Show(s, Away), screen[s].at # "holding",
         UNCHANGED <<attemptRow, lockedBy, tick>>
  PROVE  QuizInv'
<1>1. LocksOpen' /\ lockedBy' \in [Attempts -> LearnerTabs \cup {NoTab}]
  BY LocksKept DEF Show, QuizInv, QuizRows, QuizTypeOK
<1>2. /\ Away.since = 0 /\ Away.for = NoQuizAttempt /\ Away.at = "away"
      /\ Away.at \notin Mounted
  BY DEF Away, Seen, Mounted
<1>3. Away.since <= tick
  BY <1>2 DEF QuizInv, QuizRows, QuizTypeOK
<1>4. screen' = [screen EXCEPT ![s] = Away]
  BY DEF Show
<1> QED BY <1>1, <1>2, <1>3, <1>4, AwayView, ViewInv

\* Steps of a page load, or of a runner, that keep what they remember.
LEMMA MoveInv ==
  ASSUME QuizInv, NEW s \in LearnerTabs, screen[s].at # "holding",
         NEW at \in TabSteps, MoveTo(s, at), UNCHANGED <<attemptRow, lockedBy, tick>>,
         \/ at \in {"counted", "opened"}
         \/ at \in {"runner", "sending"} /\ screen[s].at \in Mounted
  PROVE  QuizInv'
<1> DEFINE v == [at |-> at, for |-> screen[s].for, until |-> screen[s].until,
                 since |-> screen[s].since, trusted |-> screen[s].trusted]
<1>1. v \in TabView /\ screen' = [screen EXCEPT ![s] = v]
  BY MoveIs
<1>2. LocksOpen' /\ lockedBy' \in [Attempts -> LearnerTabs \cup {NoTab}]
  BY <1>1, LocksKept DEF QuizInv, QuizRows, QuizTypeOK
<1>3. /\ v.at = at /\ v.for = screen[s].for /\ v.until = screen[s].until
      /\ v.since = screen[s].since /\ v.trusted = screen[s].trusted
  OBVIOUS
<1> HIDE DEF v
<1>4. /\ v.since <= tick
      /\ v.for # NoQuizAttempt => attemptRow[v.for].opened # 0
      /\ v.at \in Mounted /\ v.for # NoQuizAttempt /\ v.trusted =>
           v.until = attemptRow[v.for].opened + TimeLimit
      /\ v.at \notin {"sent", "begun", "holding", "expired"}
  BY <1>3 DEF QuizInv, Remembers, Mounted
<1> QED BY <1>1, <1>2, <1>4, ViewInv
-----------------------------------------------------------------------------
\* The attempt is read back: expired, none left, or sent with the time left.
LEMMA ReadBackInv ==
  ASSUME QuizInv, NEW s \in LearnerTabs, ReadBack(s)
  PROVE  QuizInv'
<1>0. UNCHANGED <<attemptRow, lockedBy, tick>> /\ screen[s].at # "holding"
  BY DEF ReadBack
<1>1. CASE Show(s, Seen("runner", NoQuizAttempt, 0, 0))
  <2> DEFINE v == Seen("runner", NoQuizAttempt, 0, 0)
  <2>2. v \in TabView /\ v.for = NoQuizAttempt /\ v.since = 0 /\ v.at = "runner"
    BY DEF Seen, TabView, TabSteps
  <2>3. screen' = [screen EXCEPT ![s] = v]
    BY <1>1 DEF Show
  <2>4. LocksOpen' /\ lockedBy' \in [Attempts -> LearnerTabs \cup {NoTab}]
    BY <1>0, <2>3, LocksKept DEF QuizInv, QuizRows, QuizTypeOK
  <2>5. v.since <= tick
    BY <2>2 DEF QuizInv, QuizRows, QuizTypeOK
  <2> HIDE DEF v
  <2> QED BY <1>0, <2>2, <2>3, <2>4, <2>5, ViewInv
<1>2. ASSUME NEW a \in Attempts, AttemptOpen(a),
             Show(s, Seen("expired", a, 0, 0))
      PROVE  QuizInv'
  <2> DEFINE v == Seen("expired", a, 0, 0)
  <2>2. /\ v \in TabView /\ v.for = a /\ v.since = 0 /\ v.at = "expired" /\ a # NoQuizAttempt
        /\ v.at \notin Mounted
    BY QuizAssumption DEF Seen, TabView, TabSteps, Mounted
  <2>3. screen' = [screen EXCEPT ![s] = v]
    BY <1>2 DEF Show
  <2>4. LocksOpen' /\ lockedBy' \in [Attempts -> LearnerTabs \cup {NoTab}]
    BY <1>0, <2>3, LocksKept DEF QuizInv, QuizRows, QuizTypeOK
  <2>5. v.since <= tick /\ attemptRow[a].opened # 0
    BY <1>2, <2>2 DEF QuizInv, QuizRows, QuizTypeOK, AttemptOpen
  <2> HIDE DEF v
  <2> QED BY <1>0, <2>2, <2>3, <2>4, <2>5, ViewInv
<1>3. ASSUME NEW a \in Attempts, AttemptOpen(a), TimeLeft(a) # 0,
             Show(s, Seen("sent", a, TimeLeft(a), tick))
      PROVE  QuizInv'
  <2> DEFINE v == Seen("sent", a, TimeLeft(a), tick)
  <2>2. /\ TimeLeft(a) = attemptRow[a].opened + TimeLimit - tick
        /\ TimeLeft(a) \in Int /\ tick \in Nat /\ attemptRow[a].opened # 0
    BY <1>3, QuizAssumption DEF TimeLeft, Elapsed, AttemptOpen, QuizInv, QuizRows, QuizTypeOK, AttemptTimes
  <2>3. /\ v \in TabView /\ v.for = a /\ v.since = tick /\ v.at = "sent" /\ a # NoQuizAttempt
        /\ v.until = TimeLeft(a) /\ v.at \notin Mounted
    BY <2>2, QuizAssumption DEF Seen, TabView, TabSteps, Mounted
  <2>4. screen' = [screen EXCEPT ![s] = v]
    BY <1>3 DEF Show
  <2>5. LocksOpen' /\ lockedBy' \in [Attempts -> LearnerTabs \cup {NoTab}]
    BY <1>0, <2>4, LocksKept DEF QuizInv, QuizRows, QuizTypeOK
  <2>6. v.since <= tick
    BY <2>2, <2>3
  <2> HIDE DEF v
  <2> QED BY <1>0, <2>2, <2>3, <2>4, <2>5, <2>6, ViewInv
<1>4. CASE Show(s, Away)
  BY <1>0, <1>4, AwayInv
<1> QED BY <1>1, <1>2, <1>3, <1>4 DEF ReadBack

\* The runner mounts with the attempt's end, if its clock can be trusted.
LEMMA MountInv ==
  ASSUME QuizInv, NEW s \in LearnerTabs, Mount(s)
  PROVE  QuizInv'
<1> DEFINE c == screen[s]
           gap == tick - c.since
<1>1. /\ c \in TabView /\ c.at = "sent" /\ c.for # NoQuizAttempt /\ c.since <= tick
      /\ attemptRow[c.for].opened # 0 /\ c.since \in Nat /\ tick \in Nat /\ c.until \in Int
      /\ c.for \in Attempts /\ attemptRow[c.for].opened \in Nat
      /\ c.until = attemptRow[c.for].opened + TimeLimit - c.since
  BY DEF Mount, QuizInv, QuizRows, QuizTypeOK, Remembers, TabView, AttemptTimes
<1>2. gap \in Nat
  BY <1>1
<1>3. PICK took \in {0, gap} :
        screen' = [screen EXCEPT ![s] =
          [at |-> "runner", for |-> c.for, since |-> c.since,
           until |-> Deadline(s, c.until, IF took <= LongestLoad THEN took ELSE 0),
           trusted |-> took = gap /\ gap <= LongestLoad]]
  BY DEF Mount, Show
<1> DEFINE off == IF took <= LongestLoad THEN took ELSE 0
           ok == took = gap /\ gap <= LongestLoad
           v == [at |-> "runner", for |-> c.for, since |-> c.since,
                 until |-> Deadline(s, c.until, off), trusted |-> ok]
<1>4. off \in Nat /\ ok \in BOOLEAN /\ (ok => off = tick - c.since)
  BY <1>1, <1>2
<1>5. Deadline(s, c.until, off) = tick + c.until - off
  BY DEF Deadline
<1>6. ok => tick + c.until - off = attemptRow[c.for].opened + TimeLimit
  BY <1>1, <1>4, QuizAssumption
<1>7. v \in TabView
  BY <1>1, <1>4, <1>5 DEF TabView, TabSteps
<1>8. /\ v.at = "runner" /\ v.for = c.for /\ v.since = c.since /\ v.trusted = ok
      /\ v.until = tick + c.until - off /\ screen' = [screen EXCEPT ![s] = v]
  BY <1>3, <1>5
<1>9. /\ UNCHANGED <<attemptRow, lockedBy, tick>>
      /\ LocksOpen' /\ lockedBy' \in [Attempts -> LearnerTabs \cup {NoTab}]
  BY <1>1, <1>8, LocksKept DEF Mount, QuizInv, QuizRows, QuizTypeOK
<1> HIDE DEF v, ok, off
<1> QED BY <1>1, <1>6, <1>7, <1>8, <1>9, ViewInv

\* The submit's transaction begins.
LEMMA ArriveInv ==
  ASSUME QuizInv, NEW s \in LearnerTabs, Arrive(s)
  PROVE  QuizInv'
<1> DEFINE c == screen[s]
           v == [at |-> "begun", for |-> c.for, until |-> c.until, since |-> tick,
                 trusted |-> c.trusted]
           w == [at |-> "begun", for |-> c.for, until |-> c.until, since |-> c.since,
                 trusted |-> c.trusted]
<1>1. c \in TabView /\ tick \in Nat \ {0} /\ c.at = "sending"
  BY DEF Arrive, QuizInv, QuizRows, QuizTypeOK
<1>2. v \in TabView
  BY <1>1 DEF TabView, TabSteps
<1>3. [c EXCEPT !.at = "begun", !.since = tick] = v
  <2>1. [c EXCEPT !.at = "begun"] = w
    BY <1>1 DEF TabView
  <2>2. [w EXCEPT !.since = tick] = v
    OBVIOUS
  <2>3. [c EXCEPT !.at = "begun", !.since = tick] = [[c EXCEPT !.at = "begun"] EXCEPT !.since = tick]
    BY <1>1 DEF TabView
  <2> QED BY <2>1, <2>2, <2>3
<1>4. screen' = [screen EXCEPT ![s] = [c EXCEPT !.at = "begun", !.since = tick]]
  BY DEF Arrive
<1>5. screen' = [screen EXCEPT ![s] = v]
  BY <1>3, <1>4
<1>6. /\ UNCHANGED <<attemptRow, lockedBy, tick>>
      /\ LocksOpen' /\ lockedBy' \in [Attempts -> LearnerTabs \cup {NoTab}]
  BY <1>1, <1>5, LocksKept DEF Arrive, QuizInv, QuizRows, QuizTypeOK
<1>7. /\ v.at = "begun" /\ v.for = c.for /\ v.until = c.until /\ v.since = tick
      /\ v.trusted = c.trusted
  OBVIOUS
<1>8. /\ c.for # NoQuizAttempt => attemptRow[c.for].opened # 0
      /\ c.for # NoQuizAttempt /\ c.trusted => c.until = attemptRow[c.for].opened + TimeLimit
  BY <1>1 DEF QuizInv, Remembers, Mounted
<1> HIDE DEF v
<1>9. /\ v.since <= tick /\ v.since # 0
      /\ v.for # NoQuizAttempt => attemptRow[v.for].opened # 0
      /\ v.for # NoQuizAttempt /\ v.trusted => v.until = attemptRow[v.for].opened + TimeLimit
  BY <1>1, <1>7, <1>8
<1> QED BY <1>2, <1>5, <1>6, <1>7, <1>9, ViewInv

\* The submit closes the attempt of its own runner, and holds the row.
LEMMA TakeInv ==
  ASSUME QuizInv, NEW s \in LearnerTabs, TakeAttempt(s)
  PROVE  QuizInv'
<1> DEFINE v == [at |-> "holding", for |-> screen[s].for, until |-> screen[s].until,
                 since |-> screen[s].since, trusted |-> screen[s].trusted]
<1>1. PICK a \in Attempts : /\ a = screen[s].for /\ AttemptOpen(a)
                           /\ lockedBy' = [lockedBy EXCEPT ![a] = s]
  BY DEF TakeAttempt, ClosedBySubmit
<1>2. v \in TabView /\ screen' = [screen EXCEPT ![s] = v]
  BY MoveIs DEF TakeAttempt, TabSteps
<1>3. /\ v.at = "holding" /\ v.for = screen[s].for /\ v.until = screen[s].until
      /\ v.since = screen[s].since /\ v.trusted = screen[s].trusted
  OBVIOUS
<1> HIDE DEF v
<1>4. UNCHANGED <<attemptRow, tick>> /\ NoneLocked /\ screen[s].at = "begun"
  BY DEF TakeAttempt
<1>5. lockedBy' \in [Attempts -> LearnerTabs \cup {NoTab}]
  BY <1>1 DEF QuizInv, QuizRows, QuizTypeOK
<1>6. LocksOpen'
  BY <1>1, <1>2, <1>3, <1>4 DEF NoneLocked, LocksOpen, AttemptOpen, QuizInv, QuizRows, QuizTypeOK
<1>7. /\ v.since <= tick /\ v.since # 0
      /\ v.for # NoQuizAttempt => attemptRow[v.for].opened # 0
      /\ v.for # NoQuizAttempt /\ v.trusted => v.until = attemptRow[v.for].opened + TimeLimit
  BY <1>3, <1>4 DEF QuizInv, Remembers, Mounted
<1> QED BY <1>2, <1>3, <1>4, <1>5, <1>6, <1>7, ViewInv

\* A submit that fails lets its row go, open as it was.
LEMMA SubmitFailsInv ==
  ASSUME QuizInv, NEW s \in LearnerTabs, SubmitFails(s)
  PROVE  QuizInv'
<1> DEFINE v == [at |-> "runner", for |-> screen[s].for, until |-> screen[s].until,
                 since |-> screen[s].since, trusted |-> screen[s].trusted]
<1>1. v \in TabView /\ screen' = [screen EXCEPT ![s] = v]
  BY MoveIs DEF SubmitFails, TabSteps
<1>2. /\ v.at = "runner" /\ v.for = screen[s].for /\ v.until = screen[s].until
      /\ v.since = screen[s].since /\ v.trusted = screen[s].trusted
  OBVIOUS
<1> HIDE DEF v
<1>3. /\ UNCHANGED <<attemptRow, tick>> /\ screen[s].at \in Mounted
      /\ lockedBy' = [a \in Attempts |-> IF lockedBy[a] = s THEN NoTab ELSE lockedBy[a]]
  BY DEF SubmitFails, ReleaseAttempt, Mounted
<1>4. lockedBy' \in [Attempts -> LearnerTabs \cup {NoTab}] /\ LocksOpen'
  BY <1>1, <1>3 DEF QuizInv, QuizRows, QuizTypeOK, LocksOpen, AttemptOpen
<1>5. /\ v.since <= tick
      /\ v.for # NoQuizAttempt => attemptRow[v.for].opened # 0
      /\ v.for # NoQuizAttempt /\ v.trusted => v.until = attemptRow[v.for].opened + TimeLimit
  BY <1>2, <1>3 DEF QuizInv, Remembers
<1> QED BY <1>1, <1>2, <1>3, <1>4, <1>5, ViewInv
-----------------------------------------------------------------------------
\* What the tabs remember holds of rows that keep when they were opened.
LEMMA RowsMove ==
  ASSUME QuizInv, NEW s \in LearnerTabs, NEW v \in TabView, screen' = [screen EXCEPT ![s] = v],
         UNCHANGED tick,
         \A a \in Attempts : attemptRow[a].opened # 0 =>
                              attemptRow'[a].opened = attemptRow[a].opened,
         v.since <= tick, v.for # NoQuizAttempt => attemptRow[v.for].opened # 0,
         v.at \notin {"sent", "begun", "holding", "expired"},
         v.at = "runner" /\ v.for # NoQuizAttempt /\ v.trusted =>
           v.until = attemptRow[v.for].opened + TimeLimit,
         v.at # "sending"
  PROVE  Remembers'
<1>1. ASSUME NEW r \in LearnerTabs, screen'[r].for # NoQuizAttempt
      PROVE  /\ screen'[r].for \in Attempts /\ attemptRow[screen'[r].for].opened # 0
             /\ attemptRow'[screen'[r].for].opened = attemptRow[screen'[r].for].opened
  <2>1. screen'[r] \in TabView
    BY DEF QuizInv, QuizRows, QuizTypeOK
  <2>2. screen'[r].for \in Attempts
    BY <1>1, <2>1 DEF TabView
  <2>3. attemptRow[screen'[r].for].opened # 0
    BY <1>1 DEF QuizInv, QuizRows, QuizTypeOK, Remembers
  <2> QED BY <2>2, <2>3
<1> SUFFICES ASSUME NEW r \in LearnerTabs
             PROVE  LET u == screen'[r] IN
                      /\ u.since <= tick
                      /\ u.for # NoQuizAttempt => attemptRow'[u.for].opened # 0
                      /\ u.at = "sent" => /\ u.for # NoQuizAttempt
                                          /\ u.until = attemptRow'[u.for].opened + TimeLimit
                                                         - u.since
                      /\ u.at \in Mounted /\ u.for # NoQuizAttempt /\ u.trusted =>
                           u.until = attemptRow'[u.for].opened + TimeLimit
                      /\ u.at \in {"begun", "holding"} => u.since # 0
                      /\ u.at = "expired" => u.for # NoQuizAttempt
  BY DEF Remembers
<1>2. CASE r = s
  BY <1>1, <1>2 DEF QuizInv, QuizRows, QuizTypeOK, Mounted
<1>3. CASE r # s
  <2>1. screen'[r] = screen[r]
    BY <1>3 DEF QuizInv, QuizRows, QuizTypeOK
  <2> QED BY <1>1, <2>1 DEF QuizInv, Remembers
<1> QED BY <1>2, <1>3

\* The page opens an attempt, where none is open.
LEMMA OpenInv ==
  ASSUME QuizInv, NEW s \in LearnerTabs, OpenAttempt(s)
  PROVE  QuizInv'
<1>1. CASE UNCHANGED attemptRow
  <2>1. MoveTo(s, "opened") /\ screen[s].at # "holding" /\ "opened" \in TabSteps
        /\ UNCHANGED <<lockedBy, tick>>
    BY DEF OpenAttempt, TabSteps
  <2> QED BY <1>1, <2>1, MoveInv
<1>2. ASSUME NoneOpen, NEW a \in Attempts, attemptRow[a] = NotOpened,
             attemptRow' = [attemptRow EXCEPT ![a].opened = tick]
      PROVE  QuizInv'
  <2> DEFINE v == [at |-> "opened", for |-> screen[s].for, until |-> screen[s].until,
                   since |-> screen[s].since, trusted |-> screen[s].trusted]
  <2>1. /\ attemptRow'[a] = [opened |-> tick, closed |-> 0, scored |-> 0]
        /\ \A b \in Attempts \ {a} : attemptRow'[b] = attemptRow[b]
        /\ attemptRow' \in [Attempts -> AttemptTimes] /\ tick \in Nat \ {0}
    BY <1>2 DEF NotOpened, QuizInv, QuizRows, QuizTypeOK, AttemptTimes
  <2>2. v \in TabView /\ screen' = [screen EXCEPT ![s] = v]
    BY MoveIs DEF OpenAttempt, TabSteps
  <2>3. v.at = "opened" /\ v.for = screen[s].for /\ v.since = screen[s].since
    OBVIOUS
  <2> HIDE DEF v
  <2>4. NoneLocked /\ UNCHANGED <<lockedBy, tick>>
    BY DEF OpenAttempt
  <2>5. \A b \in Attempts : attemptRow[b].opened # 0 =>
                             attemptRow'[b].opened = attemptRow[b].opened
    BY <1>2, <2>1 DEF NotOpened
  <2>6. Remembers'
    <3>1. v.since <= tick /\ (v.for # NoQuizAttempt => attemptRow[v.for].opened # 0)
      BY <2>3 DEF QuizInv, Remembers
    <3> QED BY <2>2, <2>3, <2>4, <2>5, <3>1, RowsMove
  <2>7. LocksOpen'
    BY <2>4 DEF NoneLocked, LocksOpen
  <2>8. QuizRows'
    BY <2>1, <2>2, <2>4 DEF QuizInv, QuizRows, QuizTypeOK
  <2>9. Submissions' = Submissions
    BY <1>2, <2>1 DEF Submissions, NotOpened
  <2>10. OneOpenAttempt'
    BY <1>2, <2>1 DEF NoneOpen, OneOpenAttempt, AttemptOpen
  <2>11. TriesAndTimeHold' /\ UnscoredIsLate'
    <3>1. a \notin Submissions
      BY <1>2 DEF Submissions, NotOpened
    <3>2. \A b \in Submissions : attemptRow'[b] = attemptRow[b]
      BY <2>1, <3>1 DEF Submissions
    <3> QED BY <2>1, <2>9, <3>2 DEF QuizInv, TriesAndTimeHold, UnscoredIsLate
  <2> QED BY <2>6, <2>7, <2>8, <2>9, <2>10, <2>11 DEF QuizInv
<1> QED BY <1>1, <1>2 DEF OpenAttempt

\* The page closes an attempt whose time is over.
LEMMA ExpireInv ==
  ASSUME QuizInv, NEW s \in LearnerTabs, CloseExpired(s)
  PROVE  QuizInv'
<1> DEFINE a == screen[s].for
<1>1. /\ Show(s, Away) /\ UNCHANGED <<lockedBy, tick>> /\ screen[s].at = "expired"
      /\ lockedBy[a] = NoTab
  BY DEF CloseExpired
<1>2. CASE UNCHANGED attemptRow
  BY <1>1, <1>2, AwayInv
<1>3. ASSUME AttemptOpen(a), TooLate(a, tick),
             attemptRow' = [attemptRow EXCEPT ![a].closed = tick]
      PROVE  QuizInv'
  <2>0. a \in Attempts
    BY <1>1 DEF QuizInv, QuizRows, QuizTypeOK, TabView, Remembers
  <2>1. /\ attemptRow'[a] = [opened |-> attemptRow[a].opened, closed |-> tick,
                            scored |-> attemptRow[a].scored]
        /\ \A b \in Attempts \ {a} : attemptRow'[b] = attemptRow[b]
        /\ attemptRow' \in [Attempts -> AttemptTimes] /\ tick \in Nat \ {0}
        /\ attemptRow[a].opened # 0 /\ attemptRow[a].closed = 0 /\ attemptRow[a].scored = 0
        /\ attemptRow[a].opened \in Nat
    BY <1>3, <2>0 DEF AttemptOpen, QuizInv, QuizRows, QuizTypeOK, AttemptTimes
  <2>2. screen' = [screen EXCEPT ![s] = Away] /\ Away.since = 0 /\ Away.for = NoQuizAttempt
        /\ Away.at = "away"
    BY <1>1 DEF Show, Away, Seen
  <2>3. \A b \in Attempts : attemptRow'[b].opened = attemptRow[b].opened
    BY <2>1
  <2>4. Remembers'
    <3>1. Away.since <= tick /\ ~(Away.at = "runner" /\ Away.for # NoQuizAttempt /\ Away.trusted)
      BY <2>1, <2>2
    <3> QED BY <1>1, <2>2, <2>3, <3>1, AwayView, RowsMove
  <2>5. LocksOpen'
    BY <1>1, <2>0, <2>1, <2>2 DEF QuizInv, QuizRows, QuizTypeOK, LocksOpen, AttemptOpen
  <2>6. QuizRows'
    BY <1>1, <2>1, <2>2, AwayView DEF QuizInv, QuizRows, QuizTypeOK
  <2>7. Submissions' = Submissions
    BY <2>1 DEF Submissions
  <2>8. OneOpenAttempt'
    BY <2>1 DEF QuizInv, OneOpenAttempt, AttemptOpen
  <2>9. TriesAndTimeHold'
    BY <2>1, <2>7 DEF QuizInv, TriesAndTimeHold, Submissions
  <2>10. UnscoredIsLate'
    BY <1>3, <2>1, <2>7 DEF QuizInv, UnscoredIsLate, TooLate, Elapsed
  <2> QED BY <2>4, <2>5, <2>6, <2>7, <2>8, <2>9, <2>10 DEF QuizInv
<1> QED BY <1>2, <1>3 DEF CloseExpired

\* The submit commits: the attempt is closed, and scored if it may be.
LEMMA CommitInv ==
  ASSUME QuizInv, NEW s \in LearnerTabs, CommitSubmit(s)
  PROVE  QuizInv'
<1> DEFINE c == screen[s]
           back == [at |-> "runner", for |-> c.for, until |-> c.until, since |-> c.since,
                    trusted |-> c.trusted]
<1>1. PICK a \in Attempts :
        /\ lockedBy[a] = s
        /\ attemptRow' = [attemptRow EXCEPT ![a].closed = c.since,
                                           ![a].scored = IF Scores(s, a) THEN c.since ELSE 0]
  BY DEF CommitSubmit
<1> DEFINE result == IF Scores(s, a) THEN c.since ELSE 0
           old == attemptRow[a]
<1>2. /\ a = c.for /\ AttemptOpen(a) /\ old.opened # 0 /\ old.closed = 0 /\ old.scored = 0
      /\ c.since \in Nat \ {0} /\ c.since <= tick /\ old \in AttemptTimes /\ s # NoTab /\ c.at = "holding"
  BY <1>1, QuizAssumption DEF CommitSubmit, QuizInv, QuizRows, QuizTypeOK, LocksOpen, AttemptOpen, Remembers,
                              TabView
<1>3. /\ attemptRow'[a] = [opened |-> old.opened, closed |-> c.since, scored |-> result]
      /\ \A b \in Attempts \ {a} : attemptRow'[b] = attemptRow[b]
  <2>1. old = [opened |-> old.opened, closed |-> old.closed, scored |-> old.scored]
    BY <1>2 DEF AttemptTimes
  <2>2. attemptRow' = [attemptRow EXCEPT ![a] = [old EXCEPT !.closed = c.since,
                                                          !.scored = result]]
    BY <1>1
  <2>3. [old EXCEPT !.closed = c.since, !.scored = result]
          = [opened |-> old.opened, closed |-> c.since, scored |-> result]
    <3>1. [old EXCEPT !.closed = c.since]
            = [opened |-> old.opened, closed |-> c.since, scored |-> old.scored]
      BY <2>1
    <3>2. [[opened |-> old.opened, closed |-> c.since, scored |-> old.scored]
             EXCEPT !.scored = result]
            = [opened |-> old.opened, closed |-> c.since, scored |-> result]
      OBVIOUS
    <3>3. [old EXCEPT !.closed = c.since, !.scored = result]
            = [[old EXCEPT !.closed = c.since] EXCEPT !.scored = result]
      BY <1>2 DEF AttemptTimes
    <3> QED BY <3>1, <3>2, <3>3
  <2> QED BY <2>2, <2>3 DEF QuizInv, QuizRows, QuizTypeOK
<1>4. /\ UNCHANGED tick
      /\ lockedBy' = [b \in Attempts |-> IF lockedBy[b] = s THEN NoTab ELSE lockedBy[b]]
  BY DEF CommitSubmit, ReleaseAttempt
<1>5. result \in Nat /\ attemptRow' \in [Attempts -> AttemptTimes]
  <2>1. result \in Nat
    BY <1>2
  <2>2. [opened |-> old.opened, closed |-> c.since, scored |-> result] \in AttemptTimes
    BY <1>2, <2>1 DEF AttemptTimes
  <2> QED BY <1>1, <1>3, <2>1, <2>2 DEF QuizInv, QuizRows, QuizTypeOK
<1>6. PICK v \in TabView :
        /\ screen' = [screen EXCEPT ![s] = v] /\ v.since <= tick
        /\ v.for # NoQuizAttempt => attemptRow[v.for].opened # 0
        /\ v.at \in {"runner", "away"}
        /\ v.at = "runner" /\ v.for # NoQuizAttempt /\ v.trusted =>
             v.until = attemptRow[v.for].opened + TimeLimit
  <2>1. CASE Show(s, Away)
    <3>1. Away.since = 0 /\ Away.for = NoQuizAttempt /\ Away.at = "away" /\ 0 <= tick
      BY DEF Away, Seen, QuizInv, QuizRows, QuizTypeOK
    <3> QED BY <2>1, <3>1, AwayView DEF Show
  <2>2. CASE MoveTo(s, "runner")
    <3>1. back \in TabView /\ screen' = [screen EXCEPT ![s] = back]
      BY <2>2, MoveIs DEF TabSteps
    <3>2. /\ back.at = "runner" /\ back.for = c.for /\ back.since = c.since
          /\ back.until = c.until /\ back.trusted = c.trusted
      OBVIOUS
    <3> HIDE DEF back
    <3>3. /\ c.for # NoQuizAttempt => attemptRow[c.for].opened # 0
          /\ c.for # NoQuizAttempt /\ c.trusted =>
               c.until = attemptRow[c.for].opened + TimeLimit
      BY <1>2 DEF QuizInv, Remembers, Mounted
    <3> QED BY <1>2, <3>1, <3>2, <3>3
  <2> QED BY <2>1, <2>2 DEF CommitSubmit
<1> HIDE DEF result, back, old
<1>7. Remembers'
  <2>1. \A b \in Attempts : attemptRow'[b].opened = attemptRow[b].opened
    BY <1>3 DEF old
  <2> QED BY <1>4, <1>6, <2>1, RowsMove
<1>8. LocksOpen'
  BY <1>1, <1>2, <1>3, <1>4, <1>6 DEF QuizInv, QuizRows, QuizTypeOK, LocksOpen, AttemptOpen
<1>9. QuizRows'
  <2>1. \A b \in Attempts : /\ attemptRow'[b].opened = 0 => attemptRow'[b] = NotOpened
                            /\ attemptRow'[b].scored # 0 => attemptRow'[b].closed # 0
    BY <1>2, <1>3 DEF QuizInv, QuizRows, QuizTypeOK
  <2>2. lockedBy' \in [Attempts -> LearnerTabs \cup {NoTab}]
    BY <1>4 DEF QuizInv, QuizRows, QuizTypeOK
  <2>3. screen' \in [LearnerTabs -> TabView]
    BY <1>6 DEF QuizInv, QuizRows, QuizTypeOK
  <2> QED BY <1>4, <1>5, <2>1, <2>2, <2>3 DEF QuizInv, QuizRows, QuizTypeOK
<1>10. OneOpenAttempt'
  BY <1>2, <1>3 DEF QuizInv, OneOpenAttempt, AttemptOpen
<1>11. CASE Scores(s, a)
  <2>1. result = c.since /\ result # 0
    BY <1>2, <1>11 DEF result
  <2>2. Submissions' = Submissions \cup {a} /\ a \notin Submissions
    BY <1>2, <1>3, <2>1 DEF Submissions, old
  <2>3. /\ IsFiniteSet(Submissions') /\ Cardinality(Submissions') = Cardinality(Submissions) + 1
        /\ Cardinality(Submissions) \in Nat /\ Cardinality(Submissions) < TriesAllowed
    BY <1>11, <2>2, FS_AddElement, FS_CardinalityType DEF QuizInv, Scores
  <2>4. c.since - old.opened <= TimeLimit + SubmitGrace
    BY <1>2, <1>11, QuizAssumption DEF Scores, TooLate, Elapsed, old, AttemptTimes
  <2>5. TriesAndTimeHold'
    <3>1. Cardinality(Submissions') <= TriesAllowed
      BY <2>3, QuizAssumption
    <3>2. \A b \in Submissions :
            attemptRow[b].scored - attemptRow[b].opened <= TimeLimit + SubmitGrace
      BY DEF QuizInv, TriesAndTimeHold
    <3> QED BY <1>3, <2>1, <2>2, <2>4, <3>1, <3>2 DEF TriesAndTimeHold, Submissions
  <2>6. UnscoredIsLate'
    <3> SUFFICES ASSUME NEW b \in Attempts, attemptRow'[b].closed # 0, attemptRow'[b].scored = 0
                 PROVE  attemptRow'[b].closed - attemptRow'[b].opened > TimeLimit + SubmitGrace
      BY DEF UnscoredIsLate
    <3>1. b # a /\ attemptRow'[b] = attemptRow[b]
      BY <1>3, <2>1
    <3> QED BY <2>3, <3>1, QuizAssumption DEF QuizInv, UnscoredIsLate
  <2> QED BY <1>7, <1>8, <1>9, <1>10, <2>3, <2>5, <2>6 DEF QuizInv
<1>12. CASE ~Scores(s, a)
  <2>1. result = 0
    BY <1>12 DEF result
  <2>2. Submissions' = Submissions
    BY <1>2, <1>3, <2>1 DEF Submissions, old
  <2>3. TriesAndTimeHold'
    BY <1>2, <1>3, <2>1, <2>2 DEF QuizInv, TriesAndTimeHold, Submissions, old
  <2>4. UnscoredIsLate'
    <3>1. \/ c.since - old.opened > TimeLimit + SubmitGrace
          \/ Cardinality(Submissions) = TriesAllowed
      <4>1. Cardinality(Submissions) \in Nat /\ Cardinality(Submissions) <= TriesAllowed
        BY FS_CardinalityType DEF QuizInv, TriesAndTimeHold
      <4>2. TooLate(a, c.since) \/ ~(Cardinality(Submissions) < TriesAllowed)
        BY <1>12 DEF Scores
      <4> QED BY <4>1, <4>2, QuizAssumption DEF TooLate, Elapsed, old
    <3> QED BY <1>3, <2>1, <2>2, <3>1 DEF QuizInv, UnscoredIsLate
  <2> QED BY <1>7, <1>8, <1>9, <1>10, <2>2, <2>3, <2>4 DEF QuizInv
<1> QED BY <1>11, <1>12
-----------------------------------------------------------------------------
\* Time passes, or nothing happens.
LEMMA TickInv ==
  ASSUME QuizInv, TickQuiz \/ UNCHANGED quizVars
  PROVE  QuizInv'
<1>1. /\ UNCHANGED <<attemptRow, screen, lockedBy>> /\ tick' >= tick
      /\ tick \in Nat \ {0} /\ tick' \in Nat \ {0}
  BY DEF TickQuiz, quizVars, QuizInv, QuizRows, QuizTypeOK
<1>2. QuizRows' /\ LocksOpen' /\ OneOpenAttempt'
  BY <1>1 DEF QuizInv, QuizRows, QuizTypeOK, LocksOpen, OneOpenAttempt, AttemptOpen
<1>3. Remembers'
  <2>1. \A s \in LearnerTabs : screen[s].since \in Nat /\ screen[s].since <= tick'
    BY <1>1 DEF QuizInv, QuizRows, QuizTypeOK, TabView, Remembers
  <2> QED BY <1>1, <2>1 DEF QuizInv, Remembers
<1>4. Submissions' = Submissions
  BY <1>1 DEF Submissions
<1>5. TriesAndTimeHold' /\ UnscoredIsLate'
  BY <1>1, <1>4 DEF QuizInv, TriesAndTimeHold, UnscoredIsLate
<1> QED BY <1>2, <1>3, <1>4, <1>5 DEF QuizInv

\* At the start.
LEMMA InitQuiz == QuizInit => QuizInv
<1> SUFFICES ASSUME QuizInit PROVE QuizInv
  OBVIOUS
<1>1. /\ \A a \in Attempts : attemptRow[a] = NotOpened /\ lockedBy[a] = NoTab
      /\ \A s \in LearnerTabs : screen[s] = Away
      /\ tick = 1
  BY DEF QuizInit
<1>2. NotOpened \in AttemptTimes
  BY DEF NotOpened, AttemptTimes
<1>3. QuizRows
  <2>1. screen \in [LearnerTabs -> TabView]
    BY AwayView DEF QuizInit
  <2> QED BY <1>1, <1>2, <2>1 DEF QuizInit, QuizRows, QuizTypeOK, NotOpened
<1>4. Away.since = 0 /\ Away.for = NoQuizAttempt /\ Away.at = "away"
  BY DEF Away, Seen
<1>5. Remembers
  BY <1>1, <1>4 DEF Remembers, Mounted
<1>6. Submissions = {}
  BY <1>1 DEF Submissions, NotOpened
<1>7. IsFiniteSet(Submissions) /\ Cardinality(Submissions) = 0
  BY <1>6, FS_EmptySet
<1>8. LocksOpen /\ OneOpenAttempt /\ UnscoredIsLate
  BY <1>1 DEF LocksOpen, OneOpenAttempt, AttemptOpen, UnscoredIsLate, NotOpened
<1>9. TriesAndTimeHold
  BY <1>6, <1>7, QuizAssumption DEF TriesAndTimeHold
<1> QED BY <1>3, <1>5, <1>7, <1>8, <1>9 DEF QuizInv

\* Every step of the quiz.
LEMMA StepQuiz == QuizInv /\ [QuizNext]_quizVars => QuizInv'
<1> SUFFICES ASSUME QuizInv, [QuizNext]_quizVars PROVE QuizInv'
  OBVIOUS
<1>1. ASSUME NEW s \in LearnerTabs, CountTries(s) PROVE QuizInv'
  BY <1>1, MoveInv DEF CountTries, TabSteps
<1>2. ASSUME NEW s \in LearnerTabs, SendAnswers(s) PROVE QuizInv'
  BY <1>2, MoveInv DEF SendAnswers, TabSteps, Mounted
<1>3. ASSUME NEW s \in LearnerTabs, AttemptGone(s) PROVE QuizInv'
  BY <1>3, AwayInv DEF AttemptGone
<1>4. ASSUME NEW s \in LearnerTabs, LeaveQuiz(s) PROVE QuizInv'
  BY <1>4, AwayInv DEF LeaveQuiz
<1>5. CASE TickQuiz \/ UNCHANGED quizVars
  BY <1>5, TickInv
<1> QED BY <1>1, <1>2, <1>3, <1>4, <1>5, OpenInv, ReadBackInv, ExpireInv, MountInv, ArriveInv,
           TakeInv, CommitInv, SubmitFailsInv DEF QuizNext

\* The inductive invariant of the attempts, the tabs and the locks.
THEOREM QuizInvariance == QuizSpec => []QuizInv
BY InitQuiz, StepQuiz, PTL DEF QuizSpec

\* However tabs load the page together, one attempt is open at a time.
THEOREM AttemptsOneOpen == QuizSpec => []OneOpenAttempt
<1>1. QuizInv => OneOpenAttempt
  BY DEF QuizInv
<1> QED BY <1>1, QuizInvariance, PTL

\* No more is scored than the quiz allows, and nothing past its time.
THEOREM TriesAndTimeAlwaysHold == QuizSpec => []TriesAndTimeHold
<1>1. QuizInv => TriesAndTimeHold
  BY DEF QuizInv
<1> QED BY <1>1, QuizInvariance, PTL

\* A try the learner still had is never closed without a score.
THEOREM UnscoredAlwaysLate == QuizSpec => []UnscoredIsLate
<1>1. QuizInv => UnscoredIsLate
  BY DEF QuizInv
<1> QED BY <1>1, QuizInvariance, PTL

\* The countdown a trusted clock shows is its attempt's.
THEOREM CountdownAlwaysAttempts == QuizSpec => []CountdownIsAttempts
<1>1. QuizInv => CountdownIsAttempts
  BY DEF QuizInv, Remembers, CountdownIsAttempts, Mounted
<1> QED BY <1>1, QuizInvariance, PTL

\* A submit scores the attempt its own runner was shown, and no other.
THEOREM ScoresAlwaysItsOwn == QuizSpec => ScoresItsOwn
<1>1. QuizInv /\ [QuizNext]_quizVars => [ScoredByItsRunner]_quizVars
  <2> SUFFICES ASSUME QuizInv, QuizNext, NEW a \in Attempts,
                      attemptRow[a].scored # attemptRow'[a].scored
               PROVE  \E s \in LearnerTabs : screen[s].at = "holding" /\ screen[s].for = a
    BY DEF ScoredByItsRunner
  <2>1. attemptRow \in [Attempts -> AttemptTimes] /\ attemptRow' # attemptRow
    BY DEF QuizInv, QuizRows, QuizTypeOK
  <2>2. ASSUME NEW s \in LearnerTabs, OpenAttempt(s) PROVE FALSE
    BY <2>1, <2>2 DEF OpenAttempt, AttemptTimes
  <2>3. ASSUME NEW s \in LearnerTabs, CloseExpired(s) PROVE FALSE
    BY <2>1, <2>3 DEF CloseExpired, AttemptTimes
  <2>4. ASSUME NEW s \in LearnerTabs, CommitSubmit(s)
        PROVE  screen[s].at = "holding" /\ screen[s].for = a
    <3>1. PICK b \in Attempts :
            /\ lockedBy[b] = s
            /\ attemptRow' = [attemptRow EXCEPT ![b].closed = screen[s].since,
                  ![b].scored = IF Scores(s, b) THEN screen[s].since ELSE 0]
      BY <2>4 DEF CommitSubmit
    <3>2. a = b
      BY <2>1, <3>1
    <3>3. s # NoTab /\ screen[s].at = "holding"
      BY <2>4, QuizAssumption DEF CommitSubmit
    <3> QED BY <3>1, <3>2, <3>3 DEF QuizInv, LocksOpen
  <2> QED BY <2>1, <2>2, <2>3, <2>4 DEF QuizNext, CountTries, ReadBack, Mount, SendAnswers,
       Arrive, TakeAttempt, AttemptGone, SubmitFails, LeaveQuiz, TickQuiz
<1> QED BY <1>1, QuizInvariance, PTL DEF QuizSpec, ScoresItsOwn

\* The attempts, the tabs and the locks keep their types.
THEOREM QuizTypeCorrect == QuizSpec => []QuizTypeOK
<1>1. QuizInv => QuizTypeOK
  BY DEF QuizInv, QuizRows
<1> QED BY <1>1, QuizInvariance, PTL

\* All that is promised of a quiz, for any tabs, attempts and limits.
THEOREM QuizKeepsPromises == QuizSpec => QuizPromises
BY QuizTypeCorrect, AttemptsOneOpen, TriesAndTimeAlwaysHold, UnscoredAlwaysLate,
   CountdownAlwaysAttempts, ScoresAlwaysItsOwn, PTL DEF QuizPromises

-----------------------------------------------------------------------------
(***************************************************************************)
(* A mentor's pairing (MentorPairing).  The counters are current because   *)
(* what a removal that did not wait sees of the meetings is what there is  *)
(* until it commits, and they stay within bounds, even when they are not,  *)
(* because they count meetings whose logging is over.                      *)
(***************************************************************************)
CallRec == [at : Phases, op : Ops, which : Meetings \cup 0..HardCap,
            sees : SUBSET Meetings, late : BOOLEAN]

\* The meetings being logged, and those whose logging is over, committed or not.
BeingLogged(t) == call[t].op = "log" /\ call[t].at # "none"

Over == {m \in logged : \A t \in Callers : BeingLogged(t) => call[t].which # m}

\* What a call under way still has of what it read.
CallFits(t) ==
  LET d == call[t]
  IN /\ d.sees \subseteq Over
     /\ BeingLogged(t) => d.which \in logged
     /\ d.op = "cancel" /\ d.at # "none" =>
          d.which \in Meetings /\ d.which \notin recorded \ mixed
     /\ d.op = "record" /\ d.at # "none" => d.which \in Meetings
     /\ d.at = "holds" /\ ~d.late => d.sees = meetings \ {d.which}

\* Two logs are of two meetings, and one call holds the pairing's row.
CallsApart ==
  \A t, u \in Callers : t # u =>
    /\ BeingLogged(t) /\ BeingLogged(u) => call[t].which # call[u].which
    /\ ~(call[t].at = "holds" /\ call[u].at = "holds")

MentorInv ==
  /\ MentorPromises
  /\ meetings \subseteq Over /\ count <= Cardinality(Over)
  /\ CallsApart /\ \A t \in Callers : CallFits(t)

\* A set of numbers that has one has a least.
LEMMA LeastIs ==
  ASSUME NEW S \in SUBSET Nat, S # {}
  PROVE  \E n \in S : \A m \in S : n <= m
<1> DEFINE R == {p \in Nat \X Nat : p[1] < p[2]}
<1>1. IsWellFoundedOn(R, Nat)
  BY NatLessThanWellFounded DEF OpToRel
<1>2. PICK n \in S : \A m \in S : ~(<<m, n>> \in R)
  <2> HIDE DEF R
  <2> QED
    BY <1>1, WFMin
<1>3. \A m \in S : ~(m < n)
  BY <1>2
<1> QED
  BY <1>3

\* A finite set of numbers has a bound: the least that has none would have one
\* without one of its members.
LEMMA BoundIs ==
  ASSUME NEW S \in SUBSET Nat, IsFiniteSet(S)
  PROVE  \E b \in Nat : \A x \in S : x <= b
<1> DEFINE Bounded(X) == \E b \in Nat : \A x \in X : x <= b
           Sizes == {Cardinality(X) : X \in {Y \in SUBSET S : ~Bounded(Y)}}
<1>1. \A X \in SUBSET S : IsFiniteSet(X) /\ Cardinality(X) \in Nat
  BY FS_Subset, FS_CardinalityType
<1>2. ASSUME Sizes # {}
      PROVE  FALSE
  <2>1. PICK n \in Sizes : \A m \in Sizes : n <= m
    <3>1. Sizes \subseteq Nat
      BY <1>1
    <3> HIDE DEF Sizes
    <3> QED
      BY <1>2, <3>1, LeastIs
  <2>2. PICK X \in SUBSET S : ~Bounded(X) /\ n = Cardinality(X)
    BY <2>1
  <2>3. PICK x \in X : TRUE
    <3>1. CASE X = {}
      BY <2>2, <3>1
    <3> QED
      BY <3>1
  <2> DEFINE Z == X \ {x}
  <2>4. Cardinality(Z) = n - 1 /\ n \in Nat
    BY <1>1, <2>2, <2>3, FS_RemoveElement
  <2>5. Bounded(Z)
    <3>1. ~Bounded(Z) => Cardinality(Z) \in Sizes
      OBVIOUS
    <3> HIDE DEF Sizes, Z, Bounded
    <3> QED
      BY <2>1, <2>4, <3>1
  <2>6. PICK b \in Nat : \A y \in Z : y <= b
    BY <2>5
  <2>7. x \in Nat /\ \A y \in X : y \in Nat
    BY <2>2, <2>3
  <2>8. CASE x <= b
    BY <2>2, <2>6, <2>7, <2>8
  <2>9. CASE ~(x <= b)
    <3>1. \A y \in X : y <= x
      BY <2>6, <2>7, <2>9
    <3> QED
      BY <2>2, <2>7, <3>1
  <2> QED
    BY <2>8, <2>9
<1>3. Bounded(S)
  <2>1. ~Bounded(S) => Cardinality(S) \in Sizes
    OBVIOUS
  <2> HIDE DEF Sizes, Bounded
  <2> QED
    BY <1>2, <2>1
<1> QED
  BY <1>3

\* The latest of some meetings is one of them, and none is later.
LEMMA LatestIs ==
  ASSUME NEW S \in SUBSET Nat, IsFiniteSet(S)
  PROVE  /\ S = {} => LatestOf(S) = 0
         /\ S # {} => LatestOf(S) \in S /\ \A x \in S : x <= LatestOf(S)
<1>1. CASE S = {}
  BY <1>1 DEF LatestOf
<1>2. CASE S # {}
  <2> DEFINE Bounds == {b \in Nat : \A x \in S : x <= b}
  <2>1. Bounds # {}
    BY BoundIs
  <2>2. PICK u \in Bounds : \A b \in Bounds : u <= b
    <3>1. Bounds \subseteq Nat
      OBVIOUS
    <3> HIDE DEF Bounds
    <3> QED
      BY <2>1, <3>1, LeastIs
  <2>3. u \in S
    <3> SUFFICES ASSUME u \notin S PROVE FALSE
      OBVIOUS
    <3>1. u # 0
      <4>1. PICK x \in S : x <= u /\ x \in Nat
        BY <1>2, <2>2
      <4> QED
        BY <4>1
    <3>2. u - 1 \in Nat /\ \A x \in S : x <= u - 1
      BY <2>2, <3>1
    <3>3. u - 1 \in Bounds
      BY <3>2
    <3> QED
      BY <2>2, <3>3
  <2>4. \A x \in S : u >= x
    BY <2>2
  <2>5. Max(S) \in S /\ \A x \in S : Max(S) >= x
    BY <2>3, <2>4 DEF Max
  <2>6. LatestOf(S) = Max(S)
    BY <1>2 DEF LatestOf
  <2>7. \A x \in S : Max(S) \in Nat /\ x \in Nat
    BY <2>5
  <2> QED
    BY <1>2, <2>5, <2>6, <2>7
<1> QED
  BY <1>1, <1>2

\* So with one more meeting, the latest is that or the latest before.
LEMMA LatestWith ==
  ASSUME NEW S \in SUBSET (Nat \ {0}), IsFiniteSet(S), NEW m \in Nat \ {0}
  PROVE  LatestOf({LatestOf(S), m}) = LatestOf(S \cup {m})
<1> DEFINE a == LatestOf(S)
           T == S \cup {m}
           P == {a, m}
<1>1. a \in Nat /\ (S = {} => a = 0) /\ (S # {} => a \in S /\ \A x \in S : x <= a)
  <2>1. S \in SUBSET Nat
    OBVIOUS
  <2>2. (S = {} => a = 0) /\ (S # {} => a \in S /\ \A x \in S : x <= a)
    BY <2>1, LatestIs
  <2> HIDE DEF a
  <2>3. a \in Nat
    <3>1. CASE S = {}
      BY <2>2, <3>1
    <3>2. CASE S # {}
      BY <2>2, <3>2
    <3> QED
      BY <3>1, <3>2
  <2> QED
    BY <2>2, <2>3
<1>2. IsFiniteSet(T) /\ T \in SUBSET Nat /\ T # {}
  BY FS_AddElement
<1>3. IsFiniteSet(P) /\ P \in SUBSET Nat /\ P # {}
  <2>1. IsFiniteSet({a})
    BY FS_Singleton
  <2>2. P = {a} \cup {m}
    OBVIOUS
  <2>3. IsFiniteSet({a} \cup {m})
    BY <2>1, FS_AddElement
  <2> QED
    BY <1>1, <2>2, <2>3
<1>4. LatestOf(T) \in T /\ \A x \in T : x <= LatestOf(T)
  BY <1>2, LatestIs
<1>5. LatestOf(P) \in P /\ \A x \in P : x <= LatestOf(P)
  BY <1>3, LatestIs
<1>6. LatestOf(P) \in Nat /\ LatestOf(T) \in Nat
  BY <1>2, <1>3, <1>4, <1>5
<1>7. LatestOf(P) <= LatestOf(T)
  <2>1. m <= LatestOf(T) /\ (S # {} => a <= LatestOf(T))
    BY <1>1, <1>4
  <2> QED
    BY <1>1, <1>5, <1>6, <2>1
<1>8. LatestOf(T) <= LatestOf(P)
  <2>1. m <= LatestOf(P) /\ a <= LatestOf(P)
    BY <1>5
  <2>2. \A x \in S : x <= a /\ x \in Nat
    BY <1>1
  <2> QED
    BY <1>1, <1>4, <1>6, <2>1, <2>2
<1> QED
  BY <1>6, <1>7, <1>8

\* What the proofs of the steps start from.
LEMMA MentorHas ==
  MentorInv =>
    /\ meetings \subseteq Over /\ Over \subseteq logged /\ logged \subseteq Meetings
    /\ recorded \subseteq Meetings /\ mixed \subseteq Meetings
    /\ count \in 0..Cardinality(Meetings) /\ last \in Meetings \cup {0}
    /\ closed \in Nat /\ closed <= 1
    /\ commitments \in Seq(BOOLEAN) /\ waited \in BOOLEAN /\ unticked \in BOOLEAN
    /\ call \in [Callers -> CallRec]
    /\ waited \/ (count = Cardinality(meetings) /\ last = LatestOf(meetings))
    /\ recorded \subseteq meetings \cup mixed
    /\ Len(commitments) <= HardCap /\ (unticked \/ OpenCount <= OpenCap)
    /\ count <= Cardinality(Over)
    /\ CallsApart /\ \A t \in Callers : CallFits(t)
BY DEF MentorInv, MentorPromises, MentorTypeOK, CallRec, CountersAreCurrent,
       RecordingsKeepMeetings, CompletedOnce, WithinCaps, Over

\* Finite sets of meetings.
LEMMA MeetingsFinite ==
  ASSUME NEW S \in SUBSET Meetings
  PROVE  /\ IsFiniteSet(S) /\ Cardinality(S) \in Nat /\ Cardinality(S) <= Cardinality(Meetings)
         /\ Cardinality(Meetings) \in Nat /\ S \in SUBSET Nat
BY MentorAssumption, FS_Subset, FS_CardinalityType

\* One holder at most is a set of one at most.
LEMMA HoldersAre ==
  CallsApart => Cardinality({t \in Callers : call[t].at = "holds"}) <= 1
<1> SUFFICES ASSUME CallsApart
             PROVE  Cardinality({t \in Callers : call[t].at = "holds"}) <= 1
  OBVIOUS
<1> DEFINE H == {t \in Callers : call[t].at = "holds"}
<1>1. CASE H = {}
  BY <1>1, FS_EmptySet
<1>2. CASE H # {}
  <2>1. PICK t \in H : TRUE
    BY <1>2
  <2>2. H = {t}
    BY <2>1 DEF CallsApart
  <2>3. Cardinality({t}) = 1
    BY FS_Singleton
  <2> QED
    BY <2>2, <2>3
<1> QED
  BY <1>1, <1>2

\* The pairing and the calls of the next state.
LEMMA MentorSays ==
  ASSUME meetings' \subseteq Over', logged' \subseteq Meetings,
         recorded' \subseteq Meetings, mixed' \subseteq Meetings,
         count' \in Nat, count' <= Cardinality(Over'), last' \in Meetings \cup {0},
         closed' \in Nat, closed' <= 1,
         commitments' \in Seq(BOOLEAN), waited' \in BOOLEAN, unticked' \in BOOLEAN,
         call' \in [Callers -> CallRec],
         waited' \/ (count' = Cardinality(meetings') /\ last' = LatestOf(meetings')),
         recorded' \subseteq meetings' \cup mixed',
         Len(commitments') <= HardCap, unticked' \/ OpenCount' <= OpenCap,
         CallsApart', \A t \in Callers : CallFits(t)'
  PROVE  MentorInv'
<1>1. (CallsApart => Cardinality({t \in Callers : call[t].at = "holds"}) <= 1)'
  BY HoldersAre, PTL
<1>2. Over' \subseteq Meetings /\ meetings' \subseteq Meetings
  BY DEF Over
<1>3. count' \in 0..Cardinality(Meetings)
  <2> DEFINE O == Over'
  <2>1. O \in SUBSET Meetings /\ count' <= Cardinality(O)
    BY <1>2
  <2> HIDE DEF O
  <2> QED
    BY <2>1, MeetingsFinite
<1>4. MentorTypeOK'
  BY <1>1, <1>2, <1>3 DEF MentorTypeOK, CallRec
<1>5. CountersAreCurrent' /\ RecordingsKeepMeetings' /\ CompletedOnce' /\ WithinCaps'
  BY DEF CountersAreCurrent, RecordingsKeepMeetings, CompletedOnce, WithinCaps, LatestOf
<1> QED
  BY <1>4, <1>5 DEF MentorInv, MentorPromises

\* One call moves; the others fit what they read still.
LEMMA CallsAfter ==
  ASSUME MentorInv, NEW t \in Callers, NEW n \in CallRec, call' = [call EXCEPT ![t] = n],
         logged \subseteq logged', meetings' = meetings \/ call[t].at = "holds",
         \A u \in Callers \ {t} : call[u].op = "cancel" /\ call[u].at # "none" =>
           call[u].which \notin (recorded' \ mixed') \ (recorded \ mixed),
         n.sees \subseteq Over,
         n.op = "log" /\ n.at # "none" =>
           /\ n.which \in logged' /\ n.which \notin Over
           /\ \A u \in Callers \ {t} : BeingLogged(u) => call[u].which # n.which,
         n.op = "cancel" /\ n.at # "none" =>
           n.which \in Meetings /\ n.which \notin recorded' \ mixed',
         n.op = "record" /\ n.at # "none" => n.which \in Meetings,
         n.at = "holds" => /\ \A u \in Callers \ {t} : call[u].at # "holds"
                           /\ ~n.late => n.sees = meetings' \ {n.which}
  PROVE  /\ call' \in [Callers -> CallRec] /\ Over \subseteq Over' /\ CallsApart'
         /\ \A u \in Callers : CallFits(u)'
<1>1. /\ call' \in [Callers -> CallRec] /\ call'[t] = n
      /\ \A u \in Callers : u # t => call'[u] = call[u]
  BY MentorHas
<1>2. \A u \in Callers : u # t => (BeingLogged(u)' <=> BeingLogged(u))
  BY <1>1 DEF BeingLogged
<1>3. BeingLogged(t)' <=> n.op = "log" /\ n.at # "none"
  BY <1>1 DEF BeingLogged
<1>4. Over \subseteq Over'
  <2> SUFFICES ASSUME NEW m \in Over, NEW u \in Callers, BeingLogged(u)'
               PROVE  m \in logged' /\ call'[u].which # m
    BY DEF Over
  <2>1. CASE u = t
    BY <1>1, <1>3, <2>1 DEF Over
  <2>2. CASE u # t
    BY <1>1, <1>2, <2>2 DEF Over
  <2> QED
    BY <2>1, <2>2
<1>5. CallsApart'
  <2> SUFFICES ASSUME NEW u \in Callers, NEW v \in Callers, u # v
               PROVE  /\ BeingLogged(u)' /\ BeingLogged(v)' => call'[u].which # call'[v].which
                      /\ ~(call'[u].at = "holds" /\ call'[v].at = "holds")
    BY DEF CallsApart
  <2>1. CASE u # t /\ v # t
    BY <1>1, <1>2, <2>1, MentorHas DEF CallsApart
  <2>2. CASE u = t \/ v = t
    BY <1>1, <1>2, <1>3, <2>2
  <2> QED
    BY <2>1, <2>2
<1>6. ASSUME NEW u \in Callers
      PROVE  CallFits(u)'
  <2>1. CASE u = t
    BY <1>1, <1>3, <1>4, <2>1 DEF CallFits
  <2>2. CASE u # t
    <3>1. /\ call'[u] = call[u] /\ CallFits(u) /\ (BeingLogged(u)' <=> BeingLogged(u))
          /\ call[u].at = "holds" => meetings' = meetings
      BY <1>1, <1>2, <2>2, MentorHas DEF CallsApart
    <3> QED
      BY <1>4, <2>2, <3>1 DEF CallFits
  <2> QED
    BY <2>1, <2>2
<1> QED
  BY <1>1, <1>4, <1>5, <1>6

\* What a call that moves leaves alone is right still.
LEMMA CallMoves ==
  ASSUME MentorInv, call' \in [Callers -> CallRec], Over \subseteq Over', CallsApart',
         \A u \in Callers : CallFits(u)',
         UNCHANGED <<meetings, count, last, recorded, waited, mixed>>,
         logged' \subseteq Meetings, closed' \in Nat, closed' <= 1,
         commitments' \in Seq(BOOLEAN), unticked' \in BOOLEAN,
         Len(commitments') <= HardCap, unticked' \/ OpenCount' <= OpenCap
  PROVE  MentorInv'
<1>1. Cardinality(Over) <= Cardinality(Over') /\ Cardinality(Over) \in Nat
      /\ Cardinality(Over') \in Nat
  <2> DEFINE O == Over
             N == Over'
  <2>1. O \subseteq N /\ O \in SUBSET Meetings /\ N \in SUBSET Meetings
    BY MentorHas DEF Over
  <2> HIDE DEF O, N
  <2>2. /\ IsFiniteSet(N) /\ Cardinality(N) \in Nat /\ Cardinality(O) \in Nat
        /\ Cardinality(O) <= Cardinality(N)
    BY <2>1, MeetingsFinite, FS_Subset
  <2> QED
    BY <2>2 DEF O, N
<1>2. count \in Nat /\ count <= Cardinality(Over')
  BY <1>1, MentorHas
<1>3. waited' \/ (count' = Cardinality(meetings') /\ last' = LatestOf(meetings'))
  BY MentorHas
<1> QED
  BY <1>2, <1>3, MentorHas, MentorSays

\* A call that is over.
LEMMA NoRequestIs ==
  NoRequestYet \in CallRec /\ NoRequestYet.at = "none" /\ NoRequestYet.sees = {}
<1> DEFINE y == FALSE
<1>1. NoRequestYet = [at |-> "none", op |-> "log", which |-> 0, sees |-> {}, late |-> y]
  BY DEF NoRequestYet
<1>2. y \in BOOLEAN
  OBVIOUS
<1> HIDE DEF y
<1> QED
  BY <1>1, <1>2, MentorAssumption DEF CallRec, Phases, Ops

\* A call under way goes on, or is over.
LEMMA CallGoesOn ==
  ASSUME MentorInv, NEW t \in Callers, NEW n \in CallRec, call' = [call EXCEPT ![t] = n],
         UNCHANGED <<meetings, logged, count, last, closed, commitments, unticked, recorded,
                     waited, mixed>>,
         n.at = "none" \/ /\ call[t].at # "none"
                          /\ n.op = call[t].op /\ n.which = call[t].which,
         n.sees \subseteq Over,
         n.at = "holds" => /\ \A u \in Callers \ {t} : call[u].at # "holds"
                           /\ ~n.late => n.sees = meetings \ {n.which}
  PROVE  MentorInv'
<1>1. CallFits(t) /\ CallsApart
  BY MentorHas
<1>2. n.op = "log" /\ n.at # "none" =>
        /\ n.which \in logged' /\ n.which \notin Over
        /\ \A u \in Callers \ {t} : BeingLogged(u) => call[u].which # n.which
  BY <1>1 DEF CallFits, CallsApart, BeingLogged, Over
<1>3. /\ n.op = "cancel" /\ n.at # "none" => n.which \in Meetings /\ n.which \notin recorded \ mixed
      /\ n.op = "record" /\ n.at # "none" => n.which \in Meetings
  BY <1>1 DEF CallFits
<1>4. OpenCount' = OpenCount
  BY DEF OpenCount
<1>5. /\ call' \in [Callers -> CallRec] /\ Over \subseteq Over' /\ CallsApart'
      /\ \A u \in Callers : CallFits(u)'
  BY <1>2, <1>3, CallsAfter
<1> QED
  BY <1>4, <1>5, CallMoves, MentorHas

\* A call is checked.
LEMMA CheckInv ==
  ASSUME MentorInv, NEW t \in Callers, NEW op \in Ops, NEW m \in Meetings \cup 0..HardCap,
         CheckCall(t, op, m)
  PROVE  MentorInv'
<1> DEFINE y == FALSE
           n == [at |-> "checked", op |-> op, which |-> m, sees |-> {}, late |-> y]
<1>1. y \in BOOLEAN
  OBVIOUS
<1>2. /\ call[t].at = "none" /\ Permits(op, m) /\ call' = [call EXCEPT ![t] = n]
      /\ logged' = IF op = "log" THEN logged \cup {m} ELSE logged
      /\ UNCHANGED <<meetings, count, last, closed, commitments, unticked, recorded, waited, mixed>>
  BY DEF CheckCall, counters, listed
<1> HIDE DEF y
<1>3. /\ n \in CallRec /\ n.at = "checked" /\ n.op = op /\ n.which = m /\ n.sees = {}
  BY <1>1 DEF CallRec, Phases
<1> HIDE DEF n
<1>4. /\ op = "log" => m \in Meetings \ logged
      /\ op = "cancel" => m \in meetings /\ m \notin recorded
      /\ op = "record" => m \in meetings
  BY <1>2 DEF Permits, MayRemove
<1>5. meetings \subseteq Meetings /\ Over \subseteq logged /\ logged \subseteq Meetings
  BY MentorHas
<1>6. op = "log" => \A u \in Callers \ {t} : BeingLogged(u) => call[u].which # m
  BY <1>4, MentorHas DEF CallFits
<1>7. /\ call' \in [Callers -> CallRec] /\ Over \subseteq Over' /\ CallsApart'
      /\ \A u \in Callers : CallFits(u)'
  BY <1>2, <1>3, <1>4, <1>5, <1>6, CallsAfter
<1>8. OpenCount' = OpenCount /\ logged' \subseteq Meetings
  BY <1>2, <1>4, <1>5 DEF OpenCount
<1> QED
  BY <1>2, <1>7, <1>8, CallMoves, MentorHas

\* A call deletes its row, begins its update, waits for the pairing's row and takes it,
\* or fails.
LEMMA CallsInv ==
  ASSUME MentorInv, NEW t \in Callers,
         Delete(t) \/ StartUpdate(t) \/ TakeRow(t) \/ RollBack(t)
  PROVE  MentorInv'
<1> DEFINE d == call[t]
<1>1. d \in CallRec /\ CallFits(t) /\ d.sees \subseteq Over /\ meetings \subseteq Over
      /\ meetings \subseteq Meetings
  BY MentorHas DEF CallFits
<1>2. CASE Delete(t)
  <2> DEFINE n == [d EXCEPT !.at = "deleted"]
  <2>1. /\ call' = [call EXCEPT ![t] = n] /\ d.at # "none"
        /\ UNCHANGED <<meetings, logged, count, last, closed, commitments, unticked, recorded,
                       waited, mixed>>
    BY <1>2 DEF Delete, Enter, Doing, counters, listed
  <2>2. /\ n \in CallRec /\ n.at = "deleted" /\ n.op = d.op /\ n.which = d.which
        /\ n.sees = d.sees
    BY <1>1 DEF CallRec, Phases
  <2> HIDE DEF n
  <2> QED
    BY <1>1, <2>1, <2>2, CallGoesOn
<1>3. CASE StartUpdate(t)
  <2> DEFINE a == IF RowFree(t) THEN "holds" ELSE "waits"
             s == meetings \ {d.which}
             n == [d EXCEPT !.at = a, !.sees = s]
  <2>1. /\ call' = [call EXCEPT ![t] = n] /\ d.at # "none"
        /\ UNCHANGED <<meetings, logged, count, last, closed, commitments, unticked, recorded,
                       waited, mixed>>
    BY <1>3 DEF StartUpdate, Doing, counters, listed
  <2>2. /\ a \in Phases /\ s \in SUBSET Meetings /\ s \subseteq Over
        /\ a = "holds" => \A u \in Callers \ {t} : call[u].at # "holds"
    BY <1>1 DEF Phases, RowFree, OtherCallers
  <2>3. s = meetings \ {d.which}
    OBVIOUS
  <2> HIDE DEF a, s
  <2>4. n \in CallRec /\ n.at = a /\ n.op = d.op /\ n.which = d.which /\ n.sees = s
    BY <1>1, <2>2 DEF CallRec
  <2> HIDE DEF n
  <2> QED
    BY <2>1, <2>2, <2>3, <2>4, CallGoesOn
<1>4. CASE TakeRow(t)
  <2> DEFINE y == TRUE
             n == [d EXCEPT !.at = "holds", !.late = y]
  <2>1. /\ call' = [call EXCEPT ![t] = n] /\ d.at # "none"
        /\ \A u \in Callers \ {t} : call[u].at # "holds"
        /\ UNCHANGED <<meetings, logged, count, last, closed, commitments, unticked, recorded,
                       waited, mixed>>
    BY <1>4 DEF TakeRow, RowFree, OtherCallers, counters, listed
  <2>2. y \in BOOLEAN /\ y
    OBVIOUS
  <2> HIDE DEF y
  <2>3. /\ n \in CallRec /\ n.at = "holds" /\ n.op = d.op /\ n.which = d.which
        /\ n.sees = d.sees /\ n.late = y
    BY <1>1, <2>2 DEF CallRec, Phases
  <2> HIDE DEF n
  <2>4. n.late
    BY <2>2, <2>3
  <2> QED
    BY <1>1, <2>1, <2>3, <2>4, CallGoesOn
<1>5. CASE RollBack(t)
  <2>1. /\ call' = [call EXCEPT ![t] = NoRequestYet]
        /\ UNCHANGED <<meetings, logged, count, last, closed, commitments, unticked, recorded,
                       waited, mixed>>
    BY <1>5 DEF RollBack, EndCall, counters, listed
  <2> QED
    BY <2>1, NoRequestIs, CallGoesOn
<1> QED
  BY <1>2, <1>3, <1>4, <1>5

\* One more commitment to do.
LEMMA AppendedIs ==
  ASSUME NEW s \in Seq(BOOLEAN), NEW z, z = Append(s, FALSE)
  PROVE  /\ z \in Seq(BOOLEAN) /\ Len(z) = Len(s) + 1
         /\ Cardinality({i \in DOMAIN z : ~z[i]}) = Cardinality({i \in DOMAIN s : ~s[i]}) + 1
<1> DEFINE S == {i \in DOMAIN s : ~s[i]}
           Z == {i \in DOMAIN z : ~z[i]}
           n == Len(s) + 1
<1>1. z \in Seq(BOOLEAN) /\ Len(z) = n /\ Len(s) \in Nat
  OBVIOUS
<1>2. DOMAIN s = 1..Len(s) /\ DOMAIN z = 1..n
  BY <1>1
<1>3. ~z[n] /\ \A i \in 1..Len(s) : z[i] = s[i]
  OBVIOUS
<1>4. n \in 1..n /\ n \notin 1..Len(s) /\ 1..n = (1..Len(s)) \cup {n}
  BY <1>1
<1>5. Z = S \cup {n} /\ n \notin S
  <2>1. \A i : i \in Z <=> i \in 1..n /\ ~z[i]
    BY <1>2
  <2>2. \A i : i \in S <=> i \in 1..Len(s) /\ ~s[i]
    BY <1>2
  <2> HIDE DEF S, Z, n
  <2>3. \A i : i \in Z <=> i \in S \/ i = n
    BY <1>3, <1>4, <2>1, <2>2, Zenon
  <2> QED
    BY <1>4, <2>2, <2>3
<1>6. IsFiniteSet(S)
  <2>1. IsFiniteSet(1..Len(s)) /\ S \subseteq 1..Len(s)
    BY <1>1, <1>2, FS_Interval
  <2> HIDE DEF S
  <2> QED
    BY <2>1, FS_Subset
<1> HIDE DEF S, Z, n
<1>7. Cardinality(Z) = Cardinality(S) + 1
  BY <1>5, <1>6, FS_AddElement
<1> QED
  BY <1>1, <1>7 DEF S, Z, n

\* One commitment ticked, or opened again.
LEMMA TickedIs ==
  ASSUME NEW s \in Seq(BOOLEAN), NEW i \in DOMAIN s, NEW z, z = [s EXCEPT ![i] = ~s[i]]
  PROVE  /\ z \in Seq(BOOLEAN) /\ Len(z) = Len(s)
         /\ ~s[i] => Cardinality({j \in DOMAIN z : ~z[j]}) <= Cardinality({j \in DOMAIN s : ~s[j]})
<1> DEFINE S == {j \in DOMAIN s : ~s[j]}
           Z == {j \in DOMAIN z : ~z[j]}
           b == ~s[i]
<1>1. b \in BOOLEAN
  OBVIOUS
<1>2. z = [s EXCEPT ![i] = b]
  OBVIOUS
<1>3. Len(s) \in Nat /\ DOMAIN s = 1..Len(s) /\ s \in [1..Len(s) -> BOOLEAN]
  OBVIOUS
<1>4. b <=> ~s[i]
  OBVIOUS
<1> HIDE DEF b
<1>5. z \in [1..Len(s) -> BOOLEAN] /\ DOMAIN z = DOMAIN s
  BY <1>1, <1>2, <1>3
<1>6. z \in Seq(BOOLEAN) /\ Len(z) = Len(s)
  BY <1>3, <1>5
<1>7. z[i] = b /\ \A j \in DOMAIN s : j # i => z[j] = s[j]
  BY <1>2, <1>3
<1>8. ~s[i] => Z \subseteq S
  BY <1>4, <1>5, <1>7, Zenon
<1>9. IsFiniteSet(S)
  <2>1. IsFiniteSet(1..Len(s)) /\ S \subseteq 1..Len(s)
    BY <1>3, FS_Interval
  <2> HIDE DEF S
  <2> QED
    BY <2>1, FS_Subset
<1> HIDE DEF S, Z
<1>10. ~s[i] => Cardinality(Z) <= Cardinality(S)
  BY <1>8, <1>9, FS_Subset
<1> QED
  BY <1>6, <1>10 DEF S, Z

\* How many are to do is a number.
LEMMA OpenIsNumber ==
  ASSUME NEW s \in Seq(BOOLEAN)
  PROVE  Cardinality({i \in DOMAIN s : ~s[i]}) \in Nat
<1> DEFINE S == {i \in DOMAIN s : ~s[i]}
<1>1. Len(s) \in Nat /\ DOMAIN s = 1..Len(s)
  OBVIOUS
<1>2. IsFiniteSet(1..Len(s)) /\ S \subseteq 1..Len(s)
  BY <1>1, FS_Interval
<1> HIDE DEF S
<1>3. Cardinality(S) \in Nat
  BY <1>2, FS_Subset, FS_CardinalityType
<1> QED
  BY <1>3 DEF S

\* The pairing is completed, or a commitment added, ticked or opened again.
LEMMA CommitsInv ==
  ASSUME MentorInv, NEW t \in Callers,
         CommitComplete(t) \/ CommitAdd(t) \/ CommitToggle(t)
  PROVE  MentorInv'
<1>1. /\ call' = [call EXCEPT ![t] = NoRequestYet]
      /\ UNCHANGED <<meetings, logged, count, last, recorded, waited, mixed>>
  BY DEF CommitComplete, CommitAdd, CommitToggle, EndCall, counters
<1>2. /\ call' \in [Callers -> CallRec] /\ Over \subseteq Over' /\ CallsApart'
      /\ \A u \in Callers : CallFits(u)'
  BY <1>1, NoRequestIs, CallsAfter
<1>3. /\ commitments \in Seq(BOOLEAN) /\ unticked \in BOOLEAN /\ Len(commitments) <= HardCap
      /\ unticked \/ OpenCount <= OpenCap
      /\ closed \in Nat /\ closed <= 1 /\ logged' \subseteq Meetings
      /\ OpenCap \in Nat /\ HardCap \in Nat
  BY <1>1, MentorHas, MentorAssumption
<1>4. OpenCount \in Nat
  BY <1>3, OpenIsNumber DEF OpenCount
<1>5. CASE CommitComplete(t)
  <2>1. closed' \in Nat /\ closed' <= 1 /\ UNCHANGED <<commitments, unticked>>
    BY <1>3, <1>5 DEF CommitComplete, StillOpen, listed
  <2>2. OpenCount' = OpenCount
    BY <2>1 DEF OpenCount
  <2> QED
    BY <1>1, <1>2, <1>3, <2>1, <2>2, CallMoves
<1>6. CASE CommitAdd(t)
  <2>1. /\ commitments' = IF Full THEN commitments ELSE Append(commitments, FALSE)
        /\ UNCHANGED <<closed, unticked>>
    BY <1>6 DEF CommitAdd
  <2>2. commitments' \in Seq(BOOLEAN) /\ Len(commitments') <= HardCap
        /\ (unticked' \/ OpenCount' <= OpenCap)
    <3>1. CASE Full
      <4>1. commitments' = commitments
        BY <2>1, <3>1
      <4>2. OpenCount' = OpenCount
        BY <4>1 DEF OpenCount
      <4> QED
        BY <1>3, <2>1, <4>1, <4>2
    <3>2. CASE ~Full
      <4>1. commitments' = Append(commitments, FALSE)
        BY <2>1, <3>2
      <4>2. ~(OpenCount >= OpenCap) /\ ~(Len(commitments) >= HardCap)
        BY <3>2 DEF Full
      <4>3. PICK z : z = commitments'
        OBVIOUS
      <4>4. z \in Seq(BOOLEAN) /\ Len(z) = Len(commitments) + 1
            /\ Cardinality({i \in DOMAIN z : ~z[i]}) = OpenCount + 1
        BY <1>3, <4>1, <4>3, AppendedIs DEF OpenCount
      <4>5. OpenCount' = OpenCount + 1
        BY <4>3, <4>4 DEF OpenCount
      <4>6. Len(commitments) \in Nat
        BY <1>3
      <4> QED
        BY <1>3, <1>4, <4>2, <4>3, <4>4, <4>5, <4>6
    <3> QED
      BY <3>1, <3>2
  <2> QED
    BY <1>1, <1>2, <1>3, <2>1, <2>2, CallMoves
<1>7. CASE CommitToggle(t)
  <2> DEFINE i == call[t].which
  <2>1. /\ closed' = closed
        /\ IF i \in DOMAIN commitments
             THEN /\ commitments' = [commitments EXCEPT ![i] = ~commitments[i]]
                  /\ unticked' = (unticked \/ commitments[i])
             ELSE UNCHANGED <<commitments, unticked>>
    BY <1>7 DEF CommitToggle, listed
  <2> HIDE DEF i
  <2>2. commitments' \in Seq(BOOLEAN) /\ Len(commitments') <= HardCap /\ unticked' \in BOOLEAN
        /\ (unticked' \/ OpenCount' <= OpenCap)
    <3>1. CASE i \notin DOMAIN commitments
      <4>1. UNCHANGED <<commitments, unticked>>
        BY <2>1, <3>1
      <4>2. OpenCount' = OpenCount
        BY <4>1 DEF OpenCount
      <4> QED
        BY <1>3, <4>1, <4>2
    <3>2. CASE i \in DOMAIN commitments
      <4>1. commitments' = [commitments EXCEPT ![i] = ~commitments[i]]
        BY <2>1, <3>2
      <4>2. PICK z : z = commitments'
        OBVIOUS
      <4>3. /\ z \in Seq(BOOLEAN) /\ Len(z) = Len(commitments)
            /\ ~commitments[i] => Cardinality({j \in DOMAIN z : ~z[j]}) <= OpenCount
        BY <1>3, <3>2, <4>1, <4>2, TickedIs DEF OpenCount
      <4>4. OpenCount' = Cardinality({j \in DOMAIN z : ~z[j]})
        BY <4>2 DEF OpenCount
      <4>5. ~commitments[i] => OpenCount' <= OpenCount
        BY <4>3, <4>4
      <4>6. unticked' \in BOOLEAN
        <5>1. unticked' = (unticked \/ commitments[i])
          BY <2>1, <3>2
        <5> QED
          BY <5>1, Zenon
      <4>7. unticked \/ commitments[i] => unticked'
        BY <2>1, <3>2, Zenon
      <4>8. OpenCount' \in Nat
        BY <4>3, <4>4, OpenIsNumber
      <4>9. unticked' \/ OpenCount' <= OpenCap
        <5>1. ~unticked' => ~unticked /\ ~commitments[i]
          BY <4>7
        <5> QED
          BY <1>3, <1>4, <4>5, <4>8, <5>1
      <4> QED
        BY <1>3, <4>2, <4>3, <4>6, <4>9
    <3> QED
      BY <3>1, <3>2
  <2> QED
    BY <1>1, <1>2, <1>3, <2>1, <2>2, CallMoves
<1> QED
  BY <1>5, <1>6, <1>7

\* A meeting is logged.
LEMMA CommitLogInv ==
  ASSUME MentorInv, NEW t \in Callers, CommitLog(t)
  PROVE  MentorInv'
<1> DEFINE m == call[t].which
           before == Over
<1>1. /\ call[t].op = "log" /\ call[t].at = "holds"
      /\ meetings' = meetings \cup {m} /\ count' = count + 1 /\ last' = LatestOf({last, m})
      /\ call' = [call EXCEPT ![t] = NoRequestYet]
      /\ UNCHANGED <<logged, closed, commitments, unticked, recorded, waited, mixed>>
  BY DEF CommitLog, Doing, EndCall, listed
<1>2. BeingLogged(t) /\ m \in logged /\ m \in Meetings
  BY <1>1, MentorHas DEF BeingLogged, CallFits
<1>3. /\ call' \in [Callers -> CallRec] /\ Over \subseteq Over' /\ CallsApart'
      /\ \A u \in Callers : CallFits(u)'
  BY <1>1, NoRequestIs, CallsAfter
<1>4. m \notin Over /\ m \notin meetings
  BY <1>2, MentorHas DEF Over
<1>5. m \in Over'
  <2> SUFFICES ASSUME NEW u \in Callers, BeingLogged(u)'
               PROVE  call'[u].which # m
    BY <1>1, <1>2 DEF Over
  <2>1. u # t /\ call'[u] = call[u]
    BY <1>1, NoRequestIs, MentorHas DEF BeingLogged
  <2> QED
    BY <1>2, <2>1, MentorHas DEF CallsApart, BeingLogged
<1>6. count' \in Nat /\ count' <= Cardinality(Over')
  <2> DEFINE N == Over'
             P == before \cup {m}
  <2>1. /\ before \in SUBSET Meetings /\ N \in SUBSET Meetings /\ P \subseteq N
        /\ m \notin before
        /\ count \in Nat /\ count <= Cardinality(before)
    BY <1>1, <1>3, <1>4, <1>5, MentorHas DEF Over
  <2> HIDE DEF N, before, m
  <2>2. IsFiniteSet(before) /\ IsFiniteSet(N) /\ Cardinality(before) \in Nat
    BY <2>1, MeetingsFinite
  <2>3. IsFiniteSet(P) /\ Cardinality(P) = Cardinality(before) + 1
    BY <2>1, <2>2, FS_AddElement
  <2> HIDE DEF P
  <2>4. Cardinality(P) <= Cardinality(N) /\ Cardinality(N) \in Nat
    BY <2>1, <2>2, FS_Subset, FS_CardinalityType
  <2>5. count + 1 <= Cardinality(N)
    BY <2>1, <2>2, <2>3, <2>4
  <2> QED
    BY <1>1, <2>1, <2>5 DEF N
<1>7. waited' \/ (count' = Cardinality(meetings') /\ last' = LatestOf(meetings'))
  <2> SUFFICES ASSUME ~waited
               PROVE  count' = Cardinality(meetings') /\ last' = LatestOf(meetings')
    BY <1>1
  <2>1. count = Cardinality(meetings) /\ last = LatestOf(meetings)
        /\ meetings \in SUBSET Meetings
    BY MentorHas
  <2> HIDE DEF m
  <2>2. IsFiniteSet(meetings)
    BY <2>1, MeetingsFinite
  <2>3. Cardinality(meetings \cup {m}) = Cardinality(meetings) + 1
    BY <1>4, <2>2, FS_AddElement
  <2>4. meetings \in SUBSET (Nat \ {0}) /\ m \in Nat \ {0}
    BY <1>2, <2>1, MentorAssumption
  <2>5. LatestOf({LatestOf(meetings), m}) = LatestOf(meetings \cup {m})
    BY <2>2, <2>4, LatestWith
  <2> QED
    BY <1>1, <2>1, <2>3, <2>5
<1>8. last' \in Meetings \cup {0}
  <2> HIDE DEF m
  <2>0. last \in Meetings \cup {0} /\ m \in Meetings
    BY <1>2, MentorHas
  <2>1. last \in Nat /\ m \in Nat
    BY <2>0, MentorAssumption
  <2>2. IsFiniteSet({last}) /\ IsFiniteSet({last} \cup {m})
    BY FS_Singleton, FS_AddElement
  <2>3. {last, m} = {last} \cup {m}
    OBVIOUS
  <2>4. LatestOf({last, m}) \in {last, m}
    BY <2>1, <2>2, <2>3, LatestIs
  <2> QED
    BY <1>1, <2>0, <2>4
<1>9. OpenCount' = OpenCount
  BY <1>1 DEF OpenCount
<1> HIDE DEF before, m
<1>10. meetings' \subseteq Over' /\ recorded' \subseteq meetings' \cup mixed'
  BY <1>1, <1>3, <1>5, MentorHas
<1> QED
  BY <1>1, <1>3, <1>6, <1>7, <1>8, <1>9, <1>10, MentorHas, MentorSays

\* A meeting is removed, its recount what the statement saw when it began.
LEMMA CommitCancelInv ==
  ASSUME MentorInv, NEW t \in Callers, CommitCancel(t)
  PROVE  MentorInv'
<1> DEFINE m == call[t].which
           s == call[t].sees
<1>1. /\ call[t].op = "cancel" /\ call[t].at = "holds"
      /\ meetings' = meetings \ {m} /\ count' = Cardinality(s) /\ last' = LatestOf(s)
      /\ waited' = call[t].late /\ call' = [call EXCEPT ![t] = NoRequestYet]
      /\ UNCHANGED <<logged, closed, commitments, unticked, recorded, mixed>>
  BY DEF CommitCancel, Doing, EndCall, Recount, listed
<1>2. /\ s \subseteq Over /\ m \notin recorded \ mixed
      /\ ~call[t].late => s = meetings \ {m}
      /\ call[t].late \in BOOLEAN
  BY <1>1, MentorHas DEF CallFits, CallRec
<1>3. /\ call' \in [Callers -> CallRec] /\ Over \subseteq Over' /\ CallsApart'
      /\ \A u \in Callers : CallFits(u)'
  BY <1>1, NoRequestIs, CallsAfter
<1>4. s \in SUBSET Meetings /\ Over' \in SUBSET Meetings
  BY <1>1, <1>2, MentorHas DEF Over
<1>5. count' \in Nat /\ count' <= Cardinality(Over')
  <2> DEFINE N == Over'
  <2>1. s \subseteq N /\ N \in SUBSET Meetings
    BY <1>2, <1>3, <1>4
  <2> HIDE DEF N, s
  <2>2. IsFiniteSet(N) /\ Cardinality(s) \in Nat
    BY <1>4, <2>1, MeetingsFinite
  <2>3. Cardinality(s) <= Cardinality(N)
    BY <2>1, <2>2, FS_Subset
  <2> QED
    BY <1>1, <2>2, <2>3 DEF N
<1>6. last' \in Meetings \cup {0}
  <2> HIDE DEF s
  <2>1. s \in SUBSET Nat /\ IsFiniteSet(s)
    BY <1>4, MeetingsFinite
  <2>2. (s = {} => LatestOf(s) = 0) /\ (s # {} => LatestOf(s) \in s)
    BY <2>1, LatestIs
  <2> QED
    BY <1>1, <1>4, <2>2
<1> HIDE DEF m, s
<1>7. waited' \in BOOLEAN /\ (waited' \/ (count' = Cardinality(meetings') /\ last' = LatestOf(meetings')))
  BY <1>1, <1>2
<1>8. OpenCount' = OpenCount
  BY <1>1 DEF OpenCount
<1>9. meetings' \subseteq Over' /\ recorded' \subseteq meetings' \cup mixed'
  BY <1>1, <1>2, <1>3, MentorHas
<1> QED
  BY <1>1, <1>3, <1>5, <1>6, <1>7, <1>8, <1>9, MentorHas, MentorSays

\* A video is recorded for a meeting, which a removal under way does not forget.
LEMMA AttachInv ==
  ASSUME MentorInv, NEW t \in Callers, AttachVideo(t)
  PROVE  MentorInv'
<1> DEFINE m == call[t].which
<1>1. /\ call[t].op = "record" /\ call[t].at = "checked"
      /\ recorded' = recorded \cup {m}
      /\ mixed' = IF m \in meetings /\ ~BeingRemoved(m) THEN mixed ELSE mixed \cup {m}
      /\ call' = [call EXCEPT ![t] = NoRequestYet]
      /\ UNCHANGED <<meetings, logged, count, last, closed, commitments, unticked, waited>>
  BY DEF AttachVideo, Doing, EndCall, counters, listed
<1>2. m \in Meetings
  BY <1>1, MentorHas DEF CallFits
<1>3. \A u \in Callers : call[u].op = "cancel" /\ call[u].at # "none" =>
        call[u].which \notin (recorded' \ mixed') \ (recorded \ mixed)
  BY <1>1 DEF BeingRemoved
<1>4. /\ call' \in [Callers -> CallRec] /\ Over \subseteq Over' /\ CallsApart'
      /\ \A u \in Callers : CallFits(u)'
  BY <1>1, <1>3, NoRequestIs, CallsAfter
<1>5. count' \in Nat /\ count' <= Cardinality(Over')
  <2> DEFINE O == Over
             N == Over'
  <2>1. O \subseteq N /\ N \in SUBSET Meetings /\ O \in SUBSET Meetings
        /\ count \in Nat /\ count <= Cardinality(O)
    BY <1>1, <1>4, MentorHas DEF Over
  <2> HIDE DEF N, O
  <2>2. IsFiniteSet(N) /\ Cardinality(O) \in Nat /\ Cardinality(N) \in Nat
    BY <2>1, MeetingsFinite
  <2>3. Cardinality(O) <= Cardinality(N)
    BY <2>1, <2>2, FS_Subset
  <2> QED
    BY <1>1, <2>1, <2>2, <2>3 DEF N
<1>6. OpenCount' = OpenCount
  BY <1>1 DEF OpenCount
<1> HIDE DEF m
<1>7. /\ meetings' \subseteq Over' /\ recorded' \subseteq meetings' \cup mixed'
      /\ recorded' \subseteq Meetings /\ mixed' \subseteq Meetings
  BY <1>1, <1>2, <1>4, MentorHas
<1>8. waited' \/ (count' = Cardinality(meetings') /\ last' = LatestOf(meetings'))
  BY <1>1, MentorHas
<1> QED
  BY <1>1, <1>4, <1>5, <1>6, <1>7, <1>8, MentorHas, MentorSays

\* A step keeps the pairing right.
LEMMA MentorStep == MentorInv /\ [MentorNext]_mentorVars => MentorInv'
<1> SUFFICES ASSUME MentorInv, [MentorNext]_mentorVars PROVE MentorInv'
  OBVIOUS
<1>1. CASE UNCHANGED mentorVars
  <2>1. UNCHANGED <<meetings, logged, count, last, closed, commitments, recorded, call, waited,
                    unticked, mixed>>
    BY <1>1 DEF mentorVars
  <2>2. (Over' = Over) /\ (CallsApart' <=> CallsApart) /\ OpenCount' = OpenCount
    BY <2>1 DEF Over, CallsApart, BeingLogged, OpenCount
  <2>3. \A t \in Callers : CallFits(t)' <=> CallFits(t)
    BY <2>1, <2>2 DEF CallFits, BeingLogged
  <2>4. count' \in Nat
    BY <2>1, MentorHas
  <2> QED
    BY <2>1, <2>2, <2>3, <2>4, MentorHas, CallMoves
<1>2. CASE MentorNext
  <2> PICK t \in Callers :
        \/ \E op \in Ops, m \in Meetings \cup 0..HardCap : CheckCall(t, op, m)
        \/ Delete(t) \/ StartUpdate(t) \/ TakeRow(t)
        \/ CommitLog(t) \/ CommitCancel(t) \/ CommitComplete(t)
        \/ CommitAdd(t) \/ CommitToggle(t)
        \/ AttachVideo(t) \/ RollBack(t)
    BY <1>2 DEF MentorNext
  <2> QED
    BY CheckInv, CallsInv, CommitsInv, CommitLogInv, CommitCancelInv, AttachInv
<1> QED
  BY <1>1, <1>2

\* However the actions on a pairing overlap, its counters, its recordings, its end and
\* its commitments stay what its rows say.
THEOREM MentorKeepsPromises == MentorSpec => []MentorPromises
<1>1. MentorInit => MentorInv
  <2> SUFFICES ASSUME MentorInit PROVE MentorInv
    OBVIOUS
  <2>1. /\ meetings = {} /\ logged = {} /\ count = 0 /\ last = 0 /\ closed = 0
        /\ commitments = <<>> /\ recorded = {} /\ call = [t \in Callers |-> NoRequestYet]
        /\ waited = FALSE /\ unticked = FALSE /\ mixed = {}
    BY DEF MentorInit
  <2>2. waited \in BOOLEAN /\ unticked \in BOOLEAN
    BY <2>1, Zenon
  <2>3. Over = {} /\ Cardinality({}) = 0 /\ LatestOf({}) = 0
    BY <2>1, FS_EmptySet DEF Over, LatestOf
  <2>4. CallsApart /\ \A t \in Callers : CallFits(t)
    BY <2>1, NoRequestIs DEF CallsApart, CallFits, BeingLogged
  <2>5. Cardinality({t \in Callers : call[t].at = "holds"}) <= 1
    BY <2>4, HoldersAre
  <2>6. Cardinality(Meetings) \in Nat
    BY MeetingsFinite
  <2>7. MentorTypeOK
    BY <2>1, <2>2, <2>5, <2>6, NoRequestIs DEF MentorTypeOK, CallRec
  <2>8. CountersAreCurrent /\ RecordingsKeepMeetings /\ CompletedOnce
    BY <2>1, <2>3 DEF CountersAreCurrent, RecordingsKeepMeetings, CompletedOnce
  <2>9. WithinCaps
    <3>1. {i \in DOMAIN commitments : ~commitments[i]} = {} /\ Len(commitments) = 0
      BY <2>1
    <3>2. OpenCount = 0
      BY <2>3, <3>1 DEF OpenCount
    <3> QED
      BY <3>1, <3>2, MentorAssumption DEF WithinCaps
  <2> QED
    BY <2>1, <2>3, <2>4, <2>7, <2>8, <2>9 DEF MentorInv, MentorPromises
<1>2. MentorInv => MentorPromises
  BY DEF MentorInv
<1> QED
  BY <1>1, <1>2, MentorStep, PTL DEF MentorSpec

-----------------------------------------------------------------------------
(***************************************************************************)
(* Rubrics and the scores given by them (RubricScores).  The scores of a   *)
(* cycle fit its rubric because of what each request under way still has   *)
(* of what it read: an administrator's maximums spare the scores there are *)
(* and an observer's form is of the rubric's criteria, but for those that  *)
(* overlapped, came later or are gone.                                     *)
(***************************************************************************)
RequestRec == [at : {"none", "criteria", "delete", "score"}, rubric : Rubrics \cup {NoRubric},
               cycle : Cycles \cup {NoCycle}, form : Forms, first : BOOLEAN]

\* What a form of criteria still spares, and what a form of scores still fits.
FormSpares(d) ==
  \A c \in (In(d.form) \cap Of(d.rubric)) \ overlapped : \A y \in Cycles :
    score[y][c] # Unscored => score[y][c] <= d.form[c]

FormFits(d) ==
  /\ In(d.form) # {} /\ In(d.form) \subseteq made /\ Of(d.rubric) \ In(d.form) \subseteq later
  /\ \A c \in In(d.form) :
       /\ criteria[c].of \in {d.rubric, NoRubric}
       /\ criteria[c].of # NoRubric /\ c \notin overlapped => d.form[c] <= criteria[c].max

\* An administrator's form is of a rubric that stays; an observer's of the rubric of
\* her cycle, unless it had none or was scored first by two.
RequestFits(d) ==
  /\ d.at = "criteria" => d.rubric \in Rubrics /\ rubrics[d.rubric] = "there" /\ FormSpares(d)
  /\ d.at = "delete" => d.rubric \in Rubrics
  /\ d.at = "score" => /\ d.rubric \in Rubrics /\ d.cycle \in Cycles /\ FormFits(d)
                       /\ ~d.first => own[d.cycle] = d.rubric \/ d.cycle \in twoFirsts

\* One request at most holds a rubric.
OneHolder ==
  \A a, b \in Requests :
    Stands(a, "criteria") /\ Stands(b, "criteria") /\ request[a].rubric = request[b].rubric
      => a = b

\* Every criterion of a rubric was made, and its id is not used again.
CriteriaMade == \A c \in Criteria : criteria[c].of # NoRubric => c \in made

RubricInv ==
  /\ RubricTypeOK /\ ScoresAreWhole /\ ScoreWithinMaximum /\ OneHolder /\ CriteriaMade
  /\ \A a \in Requests : RequestFits(request[a])

\* What the proofs of the steps start from.
LEMMA RubricHas ==
  RubricInv =>
    /\ rubrics \in [Rubrics -> {"unborn", "there", "gone"}]
    /\ default \in {r \in Rubrics : rubrics[r] = "there"} \cup {NoRubric}
    /\ criteria \in [Criteria -> [of : Rubrics \cup {NoRubric}, max : 0..Top]]
    /\ own \in [Cycles -> Rubrics \cup {NoRubric}] /\ score \in [Cycles -> Forms]
    /\ request \in [Requests -> RequestRec]
    /\ made \subseteq Criteria /\ overlapped \subseteq Criteria /\ later \subseteq made
    /\ twoFirsts \subseteq Cycles
    /\ \A y \in Cycles :
         /\ In(score[y]) \subseteq Of(own[y]) /\ Of(own[y]) \ In(score[y]) \subseteq later
         /\ own[y] # NoRubric => In(score[y]) # {}
         /\ \A c \in In(score[y]) \ overlapped : score[y][c] <= criteria[c].max
    /\ OneHolder /\ CriteriaMade
    /\ \A a \in Requests : RequestFits(request[a])
BY DEF RubricInv, RubricTypeOK, ScoresAreWhole, ScoreWithinMaximum, RequestRec

\* The tables and the requests of the next state.
LEMMA RubricSays ==
  ASSUME rubrics' \in [Rubrics -> {"unborn", "there", "gone"}],
         default' \in {r \in Rubrics : rubrics'[r] = "there"} \cup {NoRubric},
         criteria' \in [Criteria -> [of : Rubrics \cup {NoRubric}, max : 0..Top]],
         own' \in [Cycles -> Rubrics \cup {NoRubric}], score' \in [Cycles -> Forms],
         request' \in [Requests -> RequestRec],
         made' \subseteq Criteria, overlapped' \subseteq Criteria, later' \subseteq made',
         twoFirsts' \subseteq Cycles,
         \A y \in Cycles :
           /\ In(score[y])' \subseteq Of(own[y])' /\ Of(own[y])' \ In(score[y])' \subseteq later'
           /\ own'[y] # NoRubric => In(score[y])' # {}
           /\ \A c \in In(score[y])' \ overlapped' : score'[y][c] <= criteria'[c].max,
         OneHolder', CriteriaMade',
         \A a \in Requests : RequestFits(request[a])'
  PROVE  RubricInv'
<1>1. RubricTypeOK'
  BY DEF RubricTypeOK, RequestRec
<1>2. ScoresAreWhole'
  BY DEF ScoresAreWhole
<1>3. ScoreWithinMaximum'
  BY DEF ScoreWithinMaximum
<1> QED
  BY <1>1, <1>2, <1>3 DEF RubricInv

\* Nothing asked, and the scores of nothing.
LEMMA UnaskedIs ==
  /\ Unasked \in RequestRec /\ Unasked.at = "none" /\ RequestFits(Unasked)
  /\ NoForm \in Forms /\ NoScores \in Forms /\ In(NoScores) = {}
<1>1. NoForm \in Forms /\ NoScores \in Forms /\ In(NoScores) = {}
  BY RubricAssumption DEF NoForm, NoScores, Forms, Unscored, In
<1> DEFINE y == FALSE
<1>2. Unasked = [at |-> "none", rubric |-> NoRubric, cycle |-> NoCycle, form |-> NoForm,
                 first |-> y]
  BY DEF Unasked
<1>3. y \in BOOLEAN
  OBVIOUS
<1> HIDE DEF y
<1>4. Unasked \in RequestRec /\ Unasked.at = "none"
  BY <1>1, <1>2, <1>3 DEF RequestRec
<1>5. RequestFits(Unasked)
  BY <1>4 DEF RequestFits
<1> QED
  BY <1>1, <1>4, <1>5

\* A request moves before its transaction.
LEMMA RequestMoves ==
  ASSUME RubricInv, NEW a \in Requests, NEW n \in RequestRec,
         request' = [request EXCEPT ![a] = n],
         UNCHANGED <<rubrics, default, criteria, made, own, score, overlapped, later, twoFirsts>>,
         RequestFits(n), n.at = "criteria" => HeldBy(n.rubric) = {}
  PROVE  RubricInv'
<1>1. /\ request' \in [Requests -> RequestRec] /\ request'[a] = n
      /\ \A b \in Requests : b # a => request'[b] = request[b]
  BY RubricHas
<1>2. \A b \in Requests : b # a /\ request[b].at = "criteria" /\ n.at = "criteria" =>
        request[b].rubric # n.rubric
  BY DEF HeldBy, Stands
<1>3. OneHolder'
  BY <1>1, <1>2, RubricHas DEF OneHolder, Stands
<1>4. \A d \in RequestRec : RequestFits(d) => RequestFits(d)'
  BY DEF RequestFits, FormSpares, FormFits, Of, In
<1>5. \A b \in Requests : RequestFits(request[b])'
  <2> TAKE b \in Requests
  <2>1. PICK d \in RequestRec : d = request'[b]
    BY <1>1
  <2>2. RequestFits(d)'
    BY <1>1, <1>4, <2>1, RubricHas
  <2> QED
    BY <2>1, <2>2 DEF RequestFits, FormSpares, FormFits, In, Of
<1>6. \A y \in Cycles : In(score[y])' = In(score[y]) /\ Of(own[y])' = Of(own[y])
  BY DEF In, Of
<1> QED
  BY <1>1, <1>3, <1>5, <1>6, RubricHas, RubricSays DEF CriteriaMade

\* Requests read what they need, are refused, or fail.
LEMMA BeginsInv ==
  ASSUME RubricInv, NEW a \in Requests,
         \/ \E r \in Rubrics : BeginDeleteRubric(a, r)
         \/ \E r \in Rubrics, form \in Forms : BeginCriteria(a, r, form)
         \/ \E y \in Cycles, form \in Forms : BeginScores(a, y, form)
         \/ RequestEnds(a)
  PROVE  RubricInv'
<1>1. ASSUME NEW r \in Rubrics, BeginDeleteRubric(a, r)
      PROVE  RubricInv'
  <2> DEFINE n == [Unasked EXCEPT !.at = "delete", !.rubric = r]
  <2>1. n \in RequestRec /\ n.at = "delete" /\ n.rubric = r
    BY UnaskedIs DEF RequestRec
  <2>2. /\ request' = [request EXCEPT ![a] = n]
        /\ UNCHANGED <<rubrics, default, criteria, made, own, score, overlapped, later, twoFirsts>>
    BY <1>1 DEF BeginDeleteRubric, catalogue
  <2> HIDE DEF n
  <2>3. RequestFits(n)
    BY <2>1 DEF RequestFits
  <2> QED
    BY <2>1, <2>2, <2>3, RequestMoves
<1>2. ASSUME NEW r \in Rubrics, NEW form \in Forms, BeginCriteria(a, r, form)
      PROVE  RubricInv'
  <2> DEFINE n == [Unasked EXCEPT !.at = "criteria", !.rubric = r, !.form = form]
  <2>1. n \in RequestRec /\ n.at = "criteria" /\ n.rubric = r /\ n.form = form
    BY UnaskedIs DEF RequestRec
  <2>2. /\ request' = [request EXCEPT ![a] = n] /\ HeldBy(r) = {}
        /\ rubrics[r] = "there" /\ Spares(r, form)
        /\ UNCHANGED <<rubrics, default, criteria, made, own, score, overlapped, later, twoFirsts>>
    BY <1>2 DEF BeginCriteria, catalogue
  <2> HIDE DEF n
  <2>3. FormSpares(n)
    BY <2>1, <2>2 DEF FormSpares, Spares, Scored
  <2>4. RequestFits(n)
    BY <2>1, <2>2, <2>3 DEF RequestFits
  <2> QED
    BY <2>1, <2>2, <2>4, RequestMoves
<1>3. ASSUME NEW y \in Cycles, NEW form \in Forms, BeginScores(a, y, form)
      PROVE  RubricInv'
  <2> DEFINE r == IF own[y] # NoRubric THEN own[y] ELSE default
             f == own[y] = NoRubric
             n == [at |-> "score", rubric |-> r, cycle |-> y, form |-> form, first |-> f]
  <2>1. /\ request' = [request EXCEPT ![a] = n] /\ Of(r) # {} /\ In(form) = Of(r)
        /\ \A c \in Of(r) : form[c] <= criteria[c].max
        /\ UNCHANGED <<rubrics, default, criteria, made, own, score, overlapped, later, twoFirsts>>
    BY <1>3 DEF BeginScores, ParsesScores, catalogue
  <2>2. r \in Rubrics
    BY <2>1, RubricHas DEF Of
  <2>3. ~f => own[y] = r
    OBVIOUS
  <2>4. f \in BOOLEAN
    OBVIOUS
  <2> HIDE DEF r, f
  <2>5. /\ n \in RequestRec /\ n.at = "score" /\ n.rubric = r /\ n.cycle = y /\ n.form = form
        /\ n.first = f
    BY <2>2, <2>4 DEF RequestRec
  <2> HIDE DEF n
  <2>6. FormFits(n)
    BY <2>1, <2>2, <2>5, RubricHas DEF FormFits, Of, CriteriaMade
  <2>7. RequestFits(n)
    BY <2>2, <2>3, <2>5, <2>6 DEF RequestFits
  <2> QED
    BY <2>1, <2>5, <2>7, RequestMoves
<1>4. CASE RequestEnds(a)
  <2>1. /\ request' = [request EXCEPT ![a] = Unasked]
        /\ UNCHANGED <<rubrics, default, criteria, made, own, score, overlapped, later, twoFirsts>>
    BY <1>4 DEF RequestEnds, Close, catalogue
  <2> QED
    BY <2>1, UnaskedIs, RequestMoves
<1> QED
  BY <1>1, <1>2, <1>3, <1>4

\* A rubric is made, and another is the default, or none.
LEMMA CatalogueInv ==
  ASSUME RubricInv,
         \/ \E r \in Rubrics : CreateRubric(r)
         \/ \E r \in Rubrics \cup {NoRubric} : ChangeDefault(r)
  PROVE  RubricInv'
<1>1. UNCHANGED <<criteria, made, own, score, request, overlapped, later, twoFirsts>>
  BY DEF CreateRubric, ChangeDefault
<1>2. /\ rubrics' \in [Rubrics -> {"unborn", "there", "gone"}]
      /\ \A r \in Rubrics : rubrics[r] = "there" => rubrics'[r] = "there"
  BY RubricHas DEF CreateRubric, ChangeDefault
<1>3. default' \in {r \in Rubrics : rubrics'[r] = "there"} \cup {NoRubric}
  BY <1>2, RubricHas DEF CreateRubric, ChangeDefault
<1>4. \A d \in RequestRec : RequestFits(d) => RequestFits(d)'
  BY <1>1, <1>2 DEF RequestFits, FormSpares, FormFits, Of, In
<1>5. \A b \in Requests : RequestFits(request[b])'
  <2> TAKE b \in Requests
  <2>1. PICK d \in RequestRec : d = request[b]
    BY RubricHas
  <2>2. RequestFits(d)'
    BY <1>4, <2>1, RubricHas
  <2> QED
    BY <1>1, <2>1, <2>2 DEF RequestFits, FormSpares, FormFits, In, Of
<1>6. \A y \in Cycles : In(score[y])' = In(score[y]) /\ Of(own[y])' = Of(own[y])
  BY <1>1 DEF In, Of
<1>7. OneHolder'
  BY <1>1, RubricHas DEF OneHolder, Stands
<1> QED
  BY <1>1, <1>2, <1>3, <1>5, <1>6, <1>7, RubricHas, RubricSays DEF CriteriaMade

\* A transaction commits: its request is over, and the other requests fit what it left.
LEMMA RequestCommits ==
  ASSUME RubricInv, NEW a \in Requests, request' = [request EXCEPT ![a] = Unasked],
         \A b \in Requests \ {a}, d \in RequestRec : d = request[b] => RequestFits(d)'
  PROVE  /\ request' \in [Requests -> RequestRec] /\ OneHolder'
         /\ \A b \in Requests : RequestFits(request[b])'
<1>1. /\ request' \in [Requests -> RequestRec] /\ request'[a] = Unasked
      /\ \A b \in Requests : b # a => request'[b] = request[b]
  BY UnaskedIs, RubricHas
<1>2. OneHolder'
  BY <1>1, UnaskedIs, RubricHas DEF OneHolder, Stands
<1>3. ASSUME NEW b \in Requests
      PROVE  RequestFits(request[b])'
  <2>1. CASE b = a
    BY <1>1, <2>1, UnaskedIs DEF RequestFits
  <2>2. CASE b # a
    <3>1. PICK d \in RequestRec : d = request[b]
      BY RubricHas
    <3>2. RequestFits(d)' /\ d = request'[b]
      BY <1>1, <2>2, <3>1
    <3> QED
      BY <3>2 DEF RequestFits, FormSpares, FormFits, In, Of
  <2> QED
    BY <2>1, <2>2
<1> QED
  BY <1>1, <1>2, <1>3

\* What the commit of an administrator's form makes of the criteria.
LEMMA CriteriaAfter ==
  ASSUME RubricInv, NEW a \in Requests, CommitCriteria(a)
  PROVE  LET r    == request[a].rubric
             form == request[a].form
         IN /\ r \in Rubrics /\ r # NoRubric /\ rubrics[r] = "there" /\ form \in Forms
            /\ FormSpares(request[a])
            /\ criteria' \in [Criteria -> [of : Rubrics \cup {NoRubric}, max : 0..Top]]
            /\ \A c \in Criteria :
                 /\ c \in In(form) => criteria'[c].of = r /\ criteria'[c].max = form[c]
                 /\ c \notin In(form) /\ c \in Of(r) => criteria'[c] = NoCriterion
                 /\ c \notin In(form) /\ c \notin Of(r) => criteria'[c] = criteria[c]
            /\ \A c \in In(form) : c \in Of(r) \/ c \notin made
            /\ \A c \in Of(r) \ In(form), y \in Cycles : score[y][c] = Unscored
<1> DEFINE r == request[a].rubric
           form == request[a].form
<1>1. request[a] \in RequestRec /\ request[a].at = "criteria" /\ RequestFits(request[a])
  BY RubricHas DEF CommitCriteria, Stands
<1>2. r \in Rubrics /\ rubrics[r] = "there" /\ form \in Forms /\ FormSpares(request[a])
  BY <1>1 DEF RequestFits, RequestRec
<1>3. r # NoRubric
  BY <1>2, RubricAssumption
<1>4. /\ criteria' = [c \in Criteria |-> IF c \in Of(r) \ In(form) THEN NoCriterion
                                         ELSE IF c \in In(form) THEN [of |-> r, max |-> form[c]]
                                         ELSE criteria[c]]
      /\ (In(form) \ Of(r)) \cap made = {}
      /\ \A c \in Of(r) \ In(form) : ~Scored(c)
  BY DEF CommitCriteria, Restricted
<1>5. \A c \in In(form) : c \in Criteria /\ form[c] \in 0..Top
  BY <1>2, RubricAssumption DEF In, Forms, Unscored
<1>6. NoCriterion \in [of : Rubrics \cup {NoRubric}, max : 0..Top]
  BY RubricAssumption DEF NoCriterion
<1> HIDE DEF r, form
<1>7. criteria' \in [Criteria -> [of : Rubrics \cup {NoRubric}, max : 0..Top]]
  BY <1>2, <1>4, <1>5, <1>6, RubricHas
<1>8. \A c \in Criteria :
        /\ c \in In(form) => criteria'[c].of = r /\ criteria'[c].max = form[c]
        /\ c \notin In(form) /\ c \in Of(r) => criteria'[c] = NoCriterion
        /\ c \notin In(form) /\ c \notin Of(r) => criteria'[c] = criteria[c]
  BY <1>4
<1>9. \A c \in Of(r) \ In(form), y \in Cycles : score[y][c] = Unscored
  BY <1>4 DEF Scored
<1> QED
  BY <1>2, <1>3, <1>4, <1>7, <1>8, <1>9 DEF r, form

\* An administrator's form is written.
LEMMA CommitCriteriaInv ==
  ASSUME RubricInv, NEW a \in Requests, CommitCriteria(a)
  PROVE  RubricInv'
<1>0. PICK r \in Rubrics, form \in Forms : r = request[a].rubric /\ form = request[a].form
  BY CriteriaAfter
<1> DEFINE new == In(form) \ Of(r)
<1>1. /\ r \in Rubrics /\ r # NoRubric /\ rubrics[r] = "there" /\ form \in Forms
      /\ FormSpares(request[a])
      /\ criteria' \in [Criteria -> [of : Rubrics \cup {NoRubric}, max : 0..Top]]
      /\ \A c \in Criteria :
           /\ c \in In(form) => criteria'[c].of = r /\ criteria'[c].max = form[c]
           /\ c \notin In(form) /\ c \in Of(r) => criteria'[c] = NoCriterion
           /\ c \notin In(form) /\ c \notin Of(r) => criteria'[c] = criteria[c]
      /\ \A c \in In(form) : c \in Of(r) \/ c \notin made
      /\ \A c \in Of(r) \ In(form), y \in Cycles : score[y][c] = Unscored
  BY <1>0, CriteriaAfter
<1>2. /\ request[a].at = "criteria" /\ made' = made \cup new
      /\ request' = [request EXCEPT ![a] = Unasked]
      /\ overlapped' = IF Scoring(r) # {} THEN overlapped \cup In(form) ELSE overlapped
      /\ later' = IF InUse(r) THEN later \cup new ELSE later
      /\ UNCHANGED <<rubrics, default, own, score, twoFirsts>>
  BY <1>0 DEF CommitCriteria, Stands, Close
<1>3. /\ In(form) \subseteq Criteria /\ new \subseteq In(form)
      /\ \A c \in Criteria : criteria[c].of # NoRubric => c \in made
      /\ NoCriterion.of = NoRubric
      /\ criteria \in [Criteria -> [of : Rubrics \cup {NoRubric}, max : 0..Top]]
  BY RubricHas DEF In, CriteriaMade, NoCriterion
<1>5. \A c \in In(form) \cap Of(r) : criteria[c].of = r
  BY DEF Of
<1>6. \A c \in Criteria : c \in Of(r) => criteria[c].of = r
  BY DEF Of
<1>7. \A c \in Criteria : c \in In(form) => c \in Of(r) \/ c \in new
  OBVIOUS
<1>8. \A c \in In(form) \cap Of(r) : c \notin overlapped =>
        \A y \in Cycles : score[y][c] # Unscored => score[y][c] <= form[c]
  BY <1>0, <1>1 DEF FormSpares
<1>9. \A y \in Cycles : /\ In(score[y])' = In(score[y])
                        /\ \A c \in In(score[y]) : c \in Criteria /\ score[y][c] # Unscored
  BY <1>2 DEF In
<1>10. \A y \in Cycles : own[y] = r => InUse(r)
  BY DEF InUse
<1>11. \A x \in Rubrics \cup {NoRubric} : \A c \in Criteria :
         c \in Of(x) <=> criteria[c].of = x /\ x # NoRubric
  BY DEF Of
<1>12. \A x \in Rubrics \cup {NoRubric} : \A c \in Criteria :
         c \in Of(x)' <=> criteria'[c].of = x /\ x # NoRubric
  BY DEF Of
<1>13. \A x \in Rubrics \cup {NoRubric} : Of(x) \subseteq Criteria /\ Of(x)' \subseteq Criteria
  BY DEF Of
<1> HIDE DEF new
<1>16. \A x \in Rubrics \cup {NoRubric} : x # r => Of(x)' = Of(x)
  <2> SUFFICES ASSUME NEW x \in Rubrics \cup {NoRubric}, x # r, NEW c \in Criteria
               PROVE  c \in Of(x)' <=> c \in Of(x)
    BY <1>13
  <2> QED
    BY <1>1, <1>3, <1>11, <1>12
<1>17. Of(r)' = In(form)
  <2> SUFFICES ASSUME NEW c \in Criteria
               PROVE  c \in Of(r)' <=> c \in In(form)
    BY <1>3, <1>13
  <2>1. c \in Of(r)' <=> criteria'[c].of = r
    BY <1>1, <1>12
  <2> QED
    BY <1>1, <1>3, <1>11, <2>1
<1>18. \A y \in Cycles :
         /\ In(score[y]) \subseteq Of(own[y])' /\ Of(own[y])' \ In(score[y]) \subseteq later'
         /\ \A c \in In(score[y]) \ overlapped' : score[y][c] <= criteria'[c].max
  <2> SUFFICES ASSUME NEW y \in Cycles
               PROVE  /\ In(score[y]) \subseteq Of(own[y])'
                      /\ Of(own[y])' \ In(score[y]) \subseteq later'
                      /\ \A c \in In(score[y]) \ overlapped' : score[y][c] <= criteria'[c].max
    OBVIOUS
  <2>1. /\ own[y] \in Rubrics \cup {NoRubric} /\ In(score[y]) \subseteq Of(own[y])
        /\ Of(own[y]) \ In(score[y]) \subseteq later
        /\ \A c \in In(score[y]) \ overlapped : score[y][c] <= criteria[c].max
    BY RubricHas
  <2>2. CASE own[y] = r
    <3>1. \A c \in In(score[y]) : c \in In(form) /\ c \in Of(r)
      BY <1>1, <1>9, <2>1, <2>2
    <3>2. Of(own[y])' = In(form) /\ later' = later \cup new
      BY <1>2, <1>10, <1>17, <2>2
    <3>3. \A c \in In(form) : c \notin In(score[y]) => c \in later \/ c \in new
      BY <1>3, <1>7, <2>1, <2>2
    <3>4. ASSUME NEW c \in In(score[y]) \ overlapped'
          PROVE  score[y][c] <= criteria'[c].max
      BY <1>1, <1>2, <1>3, <1>8, <1>9, <3>1, <3>4
    <3> QED
      BY <3>1, <3>2, <3>3, <3>4
  <2>3. CASE own[y] # r
    <3>1. Of(own[y])' = Of(own[y]) /\ later \subseteq later' /\ overlapped \subseteq overlapped'
      BY <1>2, <1>16, <2>1, <2>3
    <3>2. \A c \in In(score[y]) : criteria'[c] = criteria[c]
      <4> TAKE c \in In(score[y])
      <4>1. c \in Criteria /\ criteria[c].of = own[y] /\ own[y] # NoRubric
        BY <1>9, <1>11, <2>1
      <4>2. c \in made /\ c \notin Of(r) /\ c \notin In(form)
        BY <1>1, <1>3, <1>6, <2>3, <4>1
      <4> QED
        BY <1>1, <4>1, <4>2
    <3> QED
      BY <2>1, <3>1, <3>2
  <2> QED
    BY <2>2, <2>3
<1>19. ASSUME NEW b \in Requests \ {a}, NEW d \in RequestRec, d = request[b]
       PROVE  RequestFits(d)'
  <2>1. RequestFits(d) /\ (d.at = "criteria" => d.rubric # r)
    BY <1>2, <1>0, <1>19, RubricHas DEF OneHolder, Stands
  <2>2. d.rubric \in Rubrics \cup {NoRubric} /\ d.form \in Forms /\ In(d.form)' = In(d.form)
        /\ In(d.form) \subseteq Criteria
    BY DEF RequestRec, In
  <2>3. overlapped \subseteq overlapped' /\ later \subseteq later' /\ made \subseteq made'
    BY <1>2
  <2>4. d.at = "criteria" => FormSpares(d)'
    <3>1. d.at = "criteria" => Of(d.rubric)' = Of(d.rubric) /\ FormSpares(d)
      BY <1>16, <2>1, <2>2 DEF RequestFits
    <3> QED
      BY <1>2, <2>2, <2>3, <3>1 DEF FormSpares
  <2>5. ASSUME d.at = "score"
        PROVE  FormFits(d)'
    <3>1. FormFits(d)
      BY <2>1, <2>5 DEF RequestFits
    <3>2. /\ In(d.form) # {} /\ In(d.form) \subseteq made
          /\ Of(d.rubric) \ In(d.form) \subseteq later
          /\ \A c \in In(d.form) :
               /\ criteria[c].of \in {d.rubric, NoRubric}
               /\ criteria[c].of # NoRubric /\ c \notin overlapped => d.form[c] <= criteria[c].max
      BY <3>1 DEF FormFits
    <3>3. d.rubric = r => b \in Scoring(r) /\ InUse(r)
      BY <1>19, <2>5 DEF Scoring, InUse, Stands
    <3>4. Of(d.rubric)' \ In(d.form) \subseteq later'
      <4>1. CASE d.rubric = r
        BY <1>2, <1>7, <1>17, <1>3, <3>2, <3>3, <4>1
      <4>2. CASE d.rubric # r
        BY <1>16, <2>2, <2>3, <3>2, <4>2
      <4> QED
        BY <4>1, <4>2
    <3>5. ASSUME NEW c \in In(d.form)
          PROVE  /\ criteria'[c].of \in {d.rubric, NoRubric}
                 /\ criteria'[c].of # NoRubric /\ c \notin overlapped' =>
                      d.form[c] <= criteria'[c].max
      <4>1. CASE c \in In(form)
        <5>1. c \in Of(r) /\ criteria[c].of = r /\ d.rubric = r
          BY <1>1, <1>6, <2>2, <3>2, <4>1
        <5>2. criteria'[c].of = r /\ c \in overlapped'
          BY <1>1, <1>2, <1>3, <3>3, <4>1, <5>1
        <5> QED
          BY <5>1, <5>2
      <4>2. CASE c \notin In(form) /\ c \in Of(r)
        BY <1>1, <1>3, <2>2, <4>2
      <4>3. CASE c \notin In(form) /\ c \notin Of(r)
        BY <1>1, <2>2, <2>3, <3>2, <4>3
      <4> QED
        BY <4>1, <4>2, <4>3
    <3> QED
      BY <2>2, <2>3, <3>2, <3>4, <3>5 DEF FormFits
  <2> QED
    BY <1>2, <2>1, <2>4, <2>5 DEF RequestFits
<1>20. /\ request' \in [Requests -> RequestRec] /\ OneHolder'
       /\ \A b \in Requests : RequestFits(request[b])'
  BY <1>2, <1>19, RequestCommits
<1>21. CriteriaMade'
  <2> SUFFICES ASSUME NEW c \in Criteria, criteria'[c].of # NoRubric
               PROVE  c \in made'
    BY DEF CriteriaMade
  <2>1. c \in In(form) => c \in made \/ c \in new
    BY <1>1, <1>3, <1>6, <1>7
  <2>2. c \notin In(form) => c \in made
    BY <1>1, <1>3
  <2> QED
    BY <1>2, <2>1, <2>2
<1>22. /\ made' \subseteq Criteria /\ overlapped' \subseteq Criteria /\ later' \subseteq made'
  BY <1>2, <1>3, RubricHas
<1> QED
  BY <1>1, <1>2, <1>9, <1>18, <1>20, <1>21, <1>22, RubricHas, RubricSays

\* A rubric is deleted: nothing is scored by it.
LEMMA CommitDeleteInv ==
  ASSUME RubricInv, NEW a \in Requests, CommitDeleteRubric(a)
  PROVE  RubricInv' /\ own' = own
<1>0. PICK r \in Rubrics : r = request[a].rubric
  BY RubricHas DEF CommitDeleteRubric, Stands, RequestFits
<1>1. /\ HeldBy(r) = {} /\ \A c \in Of(r) : ~Scored(c)
      /\ rubrics' = [rubrics EXCEPT ![r] = "gone"]
      /\ default' = IF default = r THEN NoRubric ELSE default
      /\ criteria' = [c \in Criteria |-> IF c \in Of(r) THEN NoCriterion ELSE criteria[c]]
      /\ own' = [y \in Cycles |-> IF own[y] = r THEN NoRubric ELSE own[y]]
      /\ request' = [request EXCEPT ![a] = Unasked]
      /\ UNCHANGED <<made, score, overlapped, later, twoFirsts>>
  BY <1>0 DEF CommitDeleteRubric, Restricted, Close
<1>2. r # NoRubric /\ NoCriterion.of = NoRubric
      /\ NoCriterion \in [of : Rubrics \cup {NoRubric}, max : 0..Top]
  BY RubricAssumption DEF NoCriterion
<1>3. \A y \in Cycles : own[y] # r
  <2> SUFFICES ASSUME NEW y \in Cycles, own[y] = r PROVE FALSE
    OBVIOUS
  <2>1. PICK c \in In(score[y]) : c \in Of(r)
    BY <1>2, RubricHas
  <2> QED
    BY <1>1, <2>1 DEF Scored, In
<1>4. own' = own
  BY <1>1, <1>3, RubricHas
<1>5. criteria' \in [Criteria -> [of : Rubrics \cup {NoRubric}, max : 0..Top]]
  BY <1>1, <1>2, RubricHas
<1>6. \A c \in Criteria : criteria'[c] = criteria[c] \/ criteria'[c] = NoCriterion
  BY <1>1
<1>7. \A x \in Rubrics \cup {NoRubric} : /\ Of(x)' \subseteq Of(x)
                                         /\ x # r => Of(x)' = Of(x)
  <2> SUFFICES ASSUME NEW x \in Rubrics \cup {NoRubric}, NEW c \in Criteria
               PROVE  /\ c \in Of(x)' => c \in Of(x)
                      /\ x # r => (c \in Of(x)' <=> c \in Of(x))
    BY DEF Of
  <2>1. CASE c \in Of(r)
    BY <1>1, <1>2, <2>1 DEF Of
  <2>2. CASE c \notin Of(r)
    BY <1>1, <2>2 DEF Of
  <2> QED
    BY <2>1, <2>2
<1>8. ASSUME NEW y \in Cycles
      PROVE  /\ In(score[y])' = In(score[y]) /\ Of(own[y])' = Of(own[y])
             /\ \A c \in In(score[y]) : criteria'[c] = criteria[c]
  <2>1. own[y] \in Rubrics \cup {NoRubric} /\ own'[y] = own[y]
    BY <1>4, RubricHas
  <2>2. PICK x \in Rubrics \cup {NoRubric} : x = own[y]
    BY <2>1
  <2>3. Of(x)' = Of(x)
    BY <1>3, <1>7, <2>2
  <2>4. Of(own[y])' = Of(own[y])
    BY <2>1, <2>2, <2>3 DEF Of
  <2>5. In(score[y])' = In(score[y])
    BY <1>1 DEF In
  <2>6. \A c \in In(score[y]) : c \in Criteria /\ c \notin Of(r)
    BY <1>1 DEF Scored, In
  <2> QED
    BY <1>1, <2>4, <2>5, <2>6
<1>9. ASSUME NEW b \in Requests \ {a}, NEW d \in RequestRec, d = request[b]
      PROVE  RequestFits(d)'
  <2>1. RequestFits(d) /\ (d.at = "criteria" => d.rubric # r)
    BY <1>1, <1>9, RubricHas DEF HeldBy, Stands
  <2>2. d.rubric \in Rubrics \cup {NoRubric} /\ In(d.form)' = In(d.form)
        /\ In(d.form) \subseteq Criteria
    BY DEF RequestRec, In
  <2>3. d.at = "criteria" => rubrics'[d.rubric] = "there" /\ FormSpares(d)'
    <3>1. d.at = "criteria" =>
            Of(d.rubric)' = Of(d.rubric) /\ FormSpares(d) /\ rubrics[d.rubric] = "there"
      BY <1>7, <2>1, <2>2 DEF RequestFits
    <3> QED
      BY <1>1, <2>1, <2>2, <3>1, RubricHas DEF FormSpares
  <2>4. ASSUME d.at = "score"
        PROVE  FormFits(d)'
    <3>1. /\ In(d.form) # {} /\ In(d.form) \subseteq made
          /\ Of(d.rubric) \ In(d.form) \subseteq later
          /\ \A c \in In(d.form) :
               /\ criteria[c].of \in {d.rubric, NoRubric}
               /\ criteria[c].of # NoRubric /\ c \notin overlapped => d.form[c] <= criteria[c].max
      BY <2>1, <2>4 DEF RequestFits, FormFits
    <3>2. Of(d.rubric)' \ In(d.form) \subseteq later
      BY <1>7, <2>2, <3>1
    <3>3. \A c \in In(d.form) :
            /\ criteria'[c].of \in {d.rubric, NoRubric}
            /\ criteria'[c].of # NoRubric /\ c \notin overlapped => d.form[c] <= criteria'[c].max
      BY <1>2, <1>6, <2>2, <3>1
    <3> QED
      BY <1>1, <2>2, <3>1, <3>2, <3>3 DEF FormFits
  <2> QED
    BY <1>1, <1>4, <2>1, <2>3, <2>4 DEF RequestFits
<1>10. /\ request' \in [Requests -> RequestRec] /\ OneHolder'
       /\ \A b \in Requests : RequestFits(request[b])'
  BY <1>1, <1>9, RequestCommits
<1>11. CriteriaMade'
  BY <1>1, <1>2, <1>6, RubricHas DEF CriteriaMade
<1>12. rubrics' \in [Rubrics -> {"unborn", "there", "gone"}]
       /\ default' \in {x \in Rubrics : rubrics'[x] = "there"} \cup {NoRubric}
  BY <1>1, RubricHas
<1>13. ASSUME NEW y \in Cycles
       PROVE  /\ In(score[y])' \subseteq Of(own[y])'
              /\ Of(own[y])' \ In(score[y])' \subseteq later'
              /\ own'[y] # NoRubric => In(score[y])' # {}
              /\ \A c \in In(score[y])' \ overlapped' : score'[y][c] <= criteria'[c].max
  <2>1. /\ In(score[y]) \subseteq Of(own[y]) /\ Of(own[y]) \ In(score[y]) \subseteq later
        /\ own[y] # NoRubric => In(score[y]) # {}
        /\ \A c \in In(score[y]) \ overlapped : score[y][c] <= criteria[c].max
    BY RubricHas
  <2>2. /\ In(score[y])' = In(score[y]) /\ Of(own[y])' = Of(own[y])
        /\ \A c \in In(score[y]) : criteria'[c] = criteria[c]
    BY <1>8
  <2>3. later' = later /\ overlapped' = overlapped /\ score' = score /\ own'[y] = own[y]
    BY <1>1, <1>4
  <2>4. /\ In(score[y])' \subseteq Of(own[y])'
        /\ Of(own[y])' \ In(score[y])' \subseteq later'
        /\ own'[y] # NoRubric => In(score[y])' # {}
    BY <2>1, <2>2, <2>3
  <2>5. \A c \in In(score[y])' \ overlapped' : score'[y][c] <= criteria'[c].max
    BY <2>1, <2>2, <2>3
  <2> QED
    BY <2>4, <2>5
<1>14. RubricInv'
  BY <1>1, <1>4, <1>5, <1>13, <1>10, <1>11, <1>12, RubricHas, RubricSays
<1> QED
  BY <1>4, <1>14

\* A cycle is scored: by its rubric, but for two that were its first at once.
LEMMA CommitScoresInv ==
  ASSUME RubricInv, NEW a \in Requests, CommitScores(a)
  PROVE  /\ RubricInv'
         /\ \A y \in Cycles \ twoFirsts' : own[y] # NoRubric => own'[y] = own[y]
         /\ \A y \in Cycles : score'[y] # score[y] => request[a].cycle = y
<1>0. PICK y \in Cycles, r \in Rubrics, form \in Forms :
        y = request[a].cycle /\ r = request[a].rubric /\ form = request[a].form
  BY RubricHas DEF CommitScores, Stands, RequestFits, RequestRec
<1>1. /\ \A c \in In(form) : criteria[c].of # NoRubric
      /\ score' = [score EXCEPT ![y] = form] /\ own' = [own EXCEPT ![y] = r]
      /\ request' = [request EXCEPT ![a] = Unasked]
      /\ overlapped' = IF HeldBy(r) # {} THEN overlapped \cup In(form) ELSE overlapped
      /\ twoFirsts' = IF request[a].first /\ own[y] \notin {r, NoRubric}
                        THEN twoFirsts \cup {y} ELSE twoFirsts
      /\ UNCHANGED <<rubrics, default, criteria, made, later>>
  BY <1>0 DEF CommitScores, ScoresAfter, Close, catalogue
<1>2. /\ In(form) # {} /\ In(form) \subseteq made /\ Of(r) \ In(form) \subseteq later
      /\ \A c \in In(form) :
           /\ criteria[c].of \in {r, NoRubric}
           /\ criteria[c].of # NoRubric /\ c \notin overlapped => form[c] <= criteria[c].max
      /\ ~request[a].first => own[y] = r \/ y \in twoFirsts
  BY <1>0, RubricHas DEF CommitScores, Stands, RequestFits, FormFits
<1>3. r # NoRubric /\ In(form) \subseteq Criteria /\ In(form) \subseteq Of(r)
      /\ \A c \in In(form) : form[c] <= criteria[c].max \/ c \in overlapped
  BY <1>1, <1>2, RubricAssumption DEF In, Of
<1>4. /\ overlapped \subseteq overlapped' /\ twoFirsts \subseteq twoFirsts'
      /\ overlapped' \subseteq Criteria /\ twoFirsts' \subseteq Cycles
  BY <1>1, <1>3, RubricHas
<1>5. own[y] # NoRubric /\ own[y] # r => y \in twoFirsts'
  BY <1>1, <1>2
<1>6. /\ score' \in [Cycles -> Forms] /\ own' \in [Cycles -> Rubrics \cup {NoRubric}]
      /\ score'[y] = form /\ own'[y] = r
      /\ \A x \in Cycles : x # y => score'[x] = score[x] /\ own'[x] = own[x]
  BY <1>1, RubricHas
<1>7. \A x : Of(x)' = Of(x)
  BY <1>1 DEF Of
<1>8. ASSUME NEW x \in Cycles
      PROVE  /\ In(score[x])' \subseteq Of(own[x])' /\ Of(own[x])' \ In(score[x])' \subseteq later'
             /\ own'[x] # NoRubric => In(score[x])' # {}
             /\ \A c \in In(score[x])' \ overlapped' : score'[x][c] <= criteria'[c].max
  <2>1. CASE x = y
    <3>1. In(score[x])' = In(form) /\ Of(own[x])' = Of(r)
      BY <1>1, <1>6, <2>1 DEF In, Of
    <3> QED
      BY <1>1, <1>2, <1>3, <1>4, <1>6, <2>1, <3>1
  <2>2. CASE x # y
    <3>1. In(score[x])' = In(score[x]) /\ Of(own[x])' = Of(own[x])
      BY <1>1, <1>6, <2>2 DEF In, Of
    <3> QED
      BY <1>1, <1>4, <1>6, <2>2, <3>1, RubricHas
  <2> QED
    BY <2>1, <2>2
<1>9. ASSUME NEW b \in Requests \ {a}, NEW d \in RequestRec, d = request[b]
      PROVE  RequestFits(d)'
  <2>1. RequestFits(d)
    BY <1>9, RubricHas
  <2>2. In(d.form)' = In(d.form) /\ In(d.form) \subseteq Criteria
    BY DEF In
  <2>3. ASSUME d.at = "criteria"
        PROVE  FormSpares(d)'
    <3>1. FormSpares(d)
      BY <2>1, <2>3 DEF RequestFits
    <3>2. d.rubric = r => HeldBy(r) # {}
      BY <1>9, <2>3 DEF HeldBy, Stands
    <3> SUFFICES ASSUME NEW c \in (In(d.form) \cap Of(d.rubric)) \ overlapped', NEW x \in Cycles,
                        score'[x][c] # Unscored
                 PROVE  score'[x][c] <= d.form[c]
      BY <1>7, <2>2 DEF FormSpares
    <3>3. CASE x = y
      <4>1. c \in In(form)
        BY <1>6, <2>2, <3>3 DEF In
      <4>2. d.rubric = r
        BY <1>3, <4>1 DEF Of
      <4> QED
        BY <1>1, <3>2, <4>1, <4>2
    <3>4. CASE x # y
      BY <1>4, <1>6, <3>1, <3>4 DEF FormSpares
    <3> QED
      BY <3>3, <3>4
  <2>4. ASSUME d.at = "score"
        PROVE  /\ FormFits(d)'
               /\ ~d.first => own'[d.cycle] = d.rubric \/ d.cycle \in twoFirsts'
    <3>1. /\ FormFits(d) /\ d.rubric \in Rubrics /\ d.cycle \in Cycles
          /\ ~d.first => own[d.cycle] = d.rubric \/ d.cycle \in twoFirsts
      BY <2>1, <2>4 DEF RequestFits
    <3>2. FormFits(d)'
      BY <1>1, <1>4, <1>7, <2>2, <3>1 DEF FormFits
    <3>3. d.rubric # NoRubric
      BY <3>1, RubricAssumption
    <3>4. ~d.first => own'[d.cycle] = d.rubric \/ d.cycle \in twoFirsts'
      <4>1. CASE d.cycle = y
        BY <1>4, <1>5, <1>6, <3>1, <3>3, <4>1
      <4>2. CASE d.cycle # y
        BY <1>4, <1>6, <3>1, <4>2
      <4> QED
        BY <4>1, <4>2
    <3> QED
      BY <3>2, <3>4
  <2> QED
    BY <1>1, <2>1, <2>3, <2>4 DEF RequestFits
<1>10. /\ request' \in [Requests -> RequestRec] /\ OneHolder'
       /\ \A b \in Requests : RequestFits(request[b])'
  BY <1>1, <1>9, RequestCommits
<1>11. RubricInv'
  BY <1>1, <1>4, <1>6, <1>8, <1>10, RubricHas, RubricSays DEF CriteriaMade
<1> QED
  BY <1>0, <1>4, <1>5, <1>6, <1>11

\* A step keeps the tables right, the scores of a cycle until it is scored again, and
\* its rubric.
LEMMA RubricStep ==
  ASSUME RubricInv, [RubricNext]_rubricVars
  PROVE  /\ RubricInv'
         /\ \A y \in Cycles : score'[y] # score[y] =>
              \E a \in Requests :
                Stands(a, "score") /\ request[a].cycle = y /\ request'[a] = Unasked
         /\ \A y \in Cycles \ twoFirsts' : own[y] # NoRubric => own'[y] = own[y]
<1> USE DEF catalogue
<1>1. CASE UNCHANGED rubricVars
  <2>1. UNCHANGED <<rubrics, default, criteria, made, own, score, request, overlapped, later,
                    twoFirsts>>
    BY <1>1 DEF rubricVars
  <2>2. RubricInv'
    BY <2>1 DEF RubricInv, RubricTypeOK, ScoresAreWhole, ScoreWithinMaximum, OneHolder,
                CriteriaMade, RequestFits, FormSpares, FormFits, Stands, In, Of
  <2> QED
    BY <2>1, <2>2
<1>2. CASE \/ \E r \in Rubrics : CreateRubric(r)
           \/ \E r \in Rubrics \cup {NoRubric} : ChangeDefault(r)
  BY <1>2, CatalogueInv DEF CreateRubric, ChangeDefault
<1>3. ASSUME NEW a \in Requests,
             \/ \E r \in Rubrics : BeginDeleteRubric(a, r)
             \/ \E r \in Rubrics, form \in Forms : BeginCriteria(a, r, form)
             \/ \E y \in Cycles, form \in Forms : BeginScores(a, y, form)
             \/ RequestEnds(a)
      PROVE  RubricInv' /\ UNCHANGED <<own, score>>
  BY <1>3, BeginsInv DEF BeginDeleteRubric, BeginCriteria, BeginScores, RequestEnds
<1>4. ASSUME NEW a \in Requests, CommitCriteria(a)
      PROVE  RubricInv' /\ UNCHANGED <<own, score>>
  BY <1>4, CommitCriteriaInv DEF CommitCriteria
<1>5. ASSUME NEW a \in Requests, CommitDeleteRubric(a)
      PROVE  RubricInv' /\ UNCHANGED <<own, score>>
  BY <1>5, CommitDeleteInv DEF CommitDeleteRubric
<1>6. ASSUME NEW a \in Requests, CommitScores(a)
      PROVE  Stands(a, "score") /\ request'[a] = Unasked
  BY <1>6, RubricHas DEF CommitScores, Close
<1>7. CASE \E a \in Requests : CommitScores(a)
  BY <1>6, <1>7, CommitScoresInv
<1> QED
  BY <1>1, <1>2, <1>3, <1>4, <1>5, <1>7 DEF RubricNext

\* However administrators change rubrics while observers score by them, the scores of a
\* cycle are of one rubric, whole and within its maximums, and stay.
THEOREM RubricsKeepPromises == RubricSpec => RubricPromises
<1> DEFINE Parts == RubricTypeOK /\ ScoresAreWhole /\ ScoreWithinMaximum
<1>1. RubricInit => RubricInv
  <2> SUFFICES ASSUME RubricInit PROVE RubricInv
    OBVIOUS
  <2>1. /\ rubrics = [r \in Rubrics |-> IF r \in FirstRubrics THEN "there" ELSE "unborn"]
        /\ default = NoRubric /\ criteria = [c \in Criteria |-> NoCriterion] /\ made = {}
        /\ own = [y \in Cycles |-> NoRubric] /\ score = [y \in Cycles |-> NoScores]
        /\ request = [a \in Requests |-> Unasked]
        /\ overlapped = {} /\ later = {} /\ twoFirsts = {}
    BY DEF RubricInit
  <2>2. /\ NoCriterion \in [of : Rubrics \cup {NoRubric}, max : 0..Top]
        /\ NoCriterion.of = NoRubric
    BY RubricAssumption DEF NoCriterion
  <2>3. RubricTypeOK
    BY <2>1, <2>2, UnaskedIs DEF RubricTypeOK, RequestRec
  <2>4. ScoresAreWhole /\ ScoreWithinMaximum
    BY <2>1, UnaskedIs DEF ScoresAreWhole, ScoreWithinMaximum, Of
  <2>5. OneHolder /\ CriteriaMade /\ \A a \in Requests : RequestFits(request[a])
    BY <2>1, <2>2, UnaskedIs DEF OneHolder, CriteriaMade, Stands
  <2> QED
    BY <2>3, <2>4, <2>5 DEF RubricInv
<1>2. RubricInv => Parts
  BY DEF RubricInv
<1>3. RubricInv /\ [RubricNext]_rubricVars =>
        /\ RubricInv'
        /\ [\A y \in Cycles : score'[y] # score[y] =>
              \E a \in Requests :
                Stands(a, "score") /\ request[a].cycle = y /\ request'[a] = Unasked]_rubricVars
        /\ [\A y \in Cycles \ twoFirsts' : own[y] # NoRubric => own'[y] = own[y]]_rubricVars
  BY RubricStep
<1> HIDE DEF Parts
<1>4. RubricSpec => []Parts /\ ScoresStay /\ RubricStays
  BY <1>1, <1>2, <1>3, PTL DEF RubricSpec, ScoresStay, RubricStays
<1> QED
  BY <1>4 DEF Parts, RubricPromises

-----------------------------------------------------------------------------
(***************************************************************************)
(* A learner's SCORM record (ScormAttempt).  The record is the best of     *)
(* what was heard because its newest commit was handled, and no handled    *)
(* commit of its launch is newer; a loss is told because the newest send   *)
(* of a player is on its way, failed, or carried a commit that was handled.*)
(***************************************************************************)
LaunchRec == [phase : {"idle", "running", "finished"}, sent : Seq(LessonStatuses),
              mine : Nat, ok : Nat, failed : [mine : Nat, seq : Nat], overtook : BOOLEAN]

FetchRec == [l : Launches, seq : Nat, mine : Nat, at : {"sent", "first", "done"},
             heard : BOOLEAN]

Statuses == {"none", "incomplete", "failed", "completed", "passed"}

AttemptRec == [status : Statuses, launch : Launches \cup {NoLaunch}, seq : Nat,
               total : Nat, sessions : Nat, completed : BOOLEAN]

\* What a player counts, and that its newest send is on its way, failed, or
\* carried a commit that was handled.
LaunchFits(l) ==
  LET p == player[l]
  IN /\ p.ok <= p.mine /\ p.failed.mine <= p.mine /\ p.failed.seq <= Len(p.sent)
     /\ p.failed = NoFailure \/ (p.failed.mine >= 1 /\ p.failed.seq >= 1)
     /\ Len(p.sent) <= p.mine /\ Len(p.sent) <= MaxCommits
     /\ ~p.overtook /\ p.sent # <<>> =>
          \/ <<l, Len(p.sent)>> \in handled
          \/ p.failed.mine = p.mine
          \/ \E r \in wire : r.l = l /\ r.mine = p.mine /\ ~r.heard

\* What a request under way says of the player that made it.
FetchFits(r) ==
  LET p == player[r.l]
  IN /\ r.seq >= 1 /\ r.seq <= Len(p.sent) /\ r.mine >= 1 /\ r.mine <= p.mine
     /\ r.at = "done" => <<r.l, r.seq>> \in handled
     /\ ~r.heard => r.mine # p.ok /\ r.mine # p.failed.mine
     /\ r.mine = p.mine /\ ~p.overtook => r.seq = Len(p.sent)

\* The requests of one launch are known by the player's own count, and two that
\* found no row raced.
FetchesApart ==
  /\ \A r, q \in wire : r.l = q.l /\ r.mine = q.mine => r = q
  /\ \/ raced
     \/ /\ \A r, q \in wire : r.at = "first" /\ q.at = "first" => r = q
        /\ \A r \in wire : r.at = "first" => attempt = NoAttempt

\* What the row says of the commits that were handled.
RowFits ==
  /\ attempt.launch = NoLaunch =>
       /\ attempt = NoAttempt /\ handled = {} /\ ~interleaved
       /\ \A l \in Launches : finishes[l] = 0
  /\ attempt.launch # NoLaunch =>
       attempt.seq >= 1 /\ <<attempt.launch, attempt.seq>> \in handled
  /\ \A c \in handled : /\ c[2] <= Len(player[c[1]].sent)
                        /\ c[1] = attempt.launch => interleaved \/ c[2] <= attempt.seq

\* Who was audited as finished has handled the commit that finished.
FinishFits(l) ==
  finishes[l] >= 1 =>
    \/ interleaved \/ raced
    \/ player[l].phase = "finished" /\ <<l, Len(player[l].sent)>> \in handled

ScormInv ==
  /\ player \in [Launches -> LaunchRec]
  /\ wire \subseteq FetchRec
  /\ attempt \in AttemptRec
  /\ handled \subseteq Launches \X (1..MaxCommits)
  /\ finishes \in [Launches -> Nat]
  /\ interleaved \in BOOLEAN /\ raced \in BOOLEAN
  /\ \A l \in Launches : LaunchFits(l) /\ FinishFits(l)
  /\ \A r \in wire : FetchFits(r)
  /\ FetchesApart /\ RowFits
  /\ LastWordCounts /\ TimeCountsOnce /\ FinishAuditedOnce

\* The ranks are numbers, of the statuses.
LEMMA RankIs ==
  /\ DOMAIN Rank = Statuses
  /\ \A s \in Statuses : Rank[s] \in Nat
BY DEF Rank, Statuses

\* What the invariant says of each part of the state.
LEMMA ScormHas ==
  ASSUME ScormInv
  PROVE  /\ \A l \in Launches :
              /\ player[l] \in LaunchRec
              /\ player[l].phase \in {"idle", "running", "finished"}
              /\ player[l].sent \in Seq(LessonStatuses) /\ Len(player[l].sent) \in Nat
              /\ player[l].mine \in Nat /\ player[l].ok \in Nat
              /\ player[l].failed \in [mine : Nat, seq : Nat]
              /\ player[l].failed.mine \in Nat /\ player[l].failed.seq \in Nat
              /\ player[l].overtook \in BOOLEAN
              /\ LaunchFits(l) /\ FinishFits(l)
         /\ \A r \in wire :
              /\ r \in FetchRec /\ r.l \in Launches /\ r.seq \in Nat /\ r.mine \in Nat
              /\ r.at \in {"sent", "first", "done"} /\ r.heard \in BOOLEAN
              /\ FetchFits(r)
              /\ r.seq \in 1..MaxCommits
              /\ StatusOf(r) \in Statuses
         /\ attempt.status \in Statuses /\ attempt.launch \in Launches \cup {NoLaunch}
         /\ attempt.seq \in Nat /\ attempt.total \in Nat /\ attempt.sessions \in Nat
         /\ attempt.completed \in BOOLEAN
<1>1. \A l \in Launches :
        /\ player[l] \in LaunchRec
        /\ player[l].phase \in {"idle", "running", "finished"}
        /\ player[l].sent \in Seq(LessonStatuses) /\ Len(player[l].sent) \in Nat
        /\ player[l].mine \in Nat /\ player[l].ok \in Nat
        /\ player[l].failed \in [mine : Nat, seq : Nat]
        /\ player[l].failed.mine \in Nat /\ player[l].failed.seq \in Nat
        /\ player[l].overtook \in BOOLEAN
        /\ LaunchFits(l) /\ FinishFits(l)
  BY DEF ScormInv, LaunchRec
<1>2. \A r \in wire :
        /\ r \in FetchRec /\ r.l \in Launches /\ r.seq \in Nat /\ r.mine \in Nat
        /\ r.at \in {"sent", "first", "done"} /\ r.heard \in BOOLEAN
        /\ FetchFits(r)
  BY DEF ScormInv, FetchRec
<1>3. ASSUME NEW r \in wire
      PROVE  r.seq \in 1..MaxCommits /\ StatusOf(r) \in Statuses
  <2> DEFINE l == r.l
  <2>0. l \in Launches /\ FetchFits(r) /\ LaunchFits(l) /\ r.seq \in Nat
    BY <1>1, <1>2
  <2>1. r.seq \in 1..Len(player[l].sent) /\ r.seq \in 1..MaxCommits
    <3>1. Len(player[l].sent) <= MaxCommits
      BY <2>0 DEF LaunchFits
    <3>2. r.seq >= 1 /\ r.seq <= Len(player[l].sent)
      BY <2>0 DEF FetchFits
    <3>3. Len(player[l].sent) \in Nat /\ MaxCommits \in Nat
      BY <1>1, <2>0, ScormAssumption
    <3> QED
      BY <2>0, <3>1, <3>2, <3>3
  <2>2. StatusOf(r) \in LessonStatuses
    BY <1>1, <2>0, <2>1 DEF StatusOf
  <2> QED
    BY <2>1, <2>2, ScormAssumption DEF Statuses
<1>4. /\ attempt.status \in Statuses /\ attempt.launch \in Launches \cup {NoLaunch}
      /\ attempt.seq \in Nat /\ attempt.total \in Nat /\ attempt.sessions \in Nat
      /\ attempt.completed \in BOOLEAN
  BY DEF ScormInv, AttemptRec
<1> QED
  BY <1>1, <1>2, <1>3, <1>4

\* Numbers from one above k to n, of one launch: there are n - k.
LEMMA UnitsCount ==
  ASSUME NEW l, NEW k \in Nat, NEW n \in Nat, k <= n
  PROVE  /\ IsFiniteSet({l} \X ((k + 1)..n))
         /\ Cardinality({l} \X ((k + 1)..n)) = n - k
<1> DEFINE I == (k + 1)..n
           U == {l} \X I
           f == [i \in I |-> <<l, i>>]
<1>1. IsFiniteSet(I) /\ Cardinality(I) = n - k
  <2>1. k + 1 \in Int /\ n \in Int
    OBVIOUS
  <2>2. IsFiniteSet(I) /\ Cardinality(I) = IF k + 1 > n THEN 0 ELSE n - (k + 1) + 1
    BY <2>1, FS_Interval
  <2> DEFINE c == Cardinality(I)
             d == n - k
  <2> HIDE DEF I, c, d
  <2>3. k + 1 > n => c = d
    <3> SUFFICES ASSUME k + 1 > n PROVE c = d
      OBVIOUS
    <3>1. c = 0
      BY <2>2 DEF c
    <3>2. d = 0
      BY DEF d
    <3> QED
      BY <3>1, <3>2
  <2>4. ~(k + 1 > n) => c = d
    <3> SUFFICES ASSUME ~(k + 1 > n) PROVE c = d
      OBVIOUS
    <3>1. c = n - (k + 1) + 1
      BY <2>2 DEF c
    <3>2. d = n - (k + 1) + 1
      BY DEF d
    <3> QED
      BY <3>1, <3>2
  <2>5. c = d
    BY <2>3, <2>4
  <2>6. Cardinality(I) = n - k
    BY <2>5 DEF c, d
  <2>7. IsFiniteSet(I)
    BY <2>2
  <2> QED
    BY <2>6, <2>7
<1>2. f \in Bijection(I, U)
  <2> HIDE DEF I
  <2>1. f \in [I -> U]
    OBVIOUS
  <2>2. \A i, j \in I : f[i] = f[j] => i = j
    OBVIOUS
  <2>3. \A u \in U : \E i \in I : f[i] = u
    OBVIOUS
  <2> HIDE DEF f, U
  <2> QED
    BY <2>1, <2>2, <2>3 DEF Bijection, Injection, Surjection, IsInjective
<1>3. ExistsBijection(I, U)
  BY <1>2 DEF ExistsBijection
<1> QED
  BY <1>1, <1>3, FS_Bijection

\* What was reported is finite.
LEMMA ReportedFinite == IsFiniteSet(Reported) /\ Cardinality(Reported) \in Nat
<1>1. IsFiniteSet(1..MaxCommits)
  BY ScormAssumption, FS_Interval
<1>2. IsFiniteSet(Launches \X (1..MaxCommits))
  BY <1>1, ScormAssumption, FS_Product
<1>3. Reported \subseteq Launches \X (1..MaxCommits)
  BY DEF Reported
<1> QED
  BY <1>2, <1>3, FS_Subset, FS_CardinalityType

\* A commit numbered n adds what its launch has not reported yet.
LEMMA ReportedGrows ==
  ASSUME handled \subseteq Launches \X (1..MaxCommits),
         NEW l \in Launches, NEW n \in 1..MaxCommits, NEW k \in Nat,
         k # 0 => <<l, k>> \in handled,
         \A c \in handled : c[1] = l => c[2] <= k,
         handled' = handled \cup {<<l, n>>}
  PROVE  Cardinality(Reported') = Cardinality(Reported) + (IF n > k THEN n - k ELSE 0)
<1> DEFINE N == {l} \X ((k + 1)..n)
           R == Reported
<1>0. MaxCommits \in Nat /\ n \in Nat /\ (k # 0 => k <= MaxCommits)
  BY ScormAssumption
<1>1. Reported' = R \cup N
  <2>1. ASSUME NEW c \in Launches \X (1..MaxCommits), c \in Reported'
        PROVE  c \in R \cup N
    <3>1. PICK m \in c[2]..MaxCommits : <<c[1], m>> \in handled'
      BY <2>1 DEF Reported
    <3>2. CASE <<c[1], m>> \in handled
      BY <3>1, <3>2 DEF Reported
    <3>3. CASE c[1] = l /\ m = n /\ c[2] <= k
      <4>1. k \in c[2]..MaxCommits /\ <<l, k>> \in handled
        BY <1>0, <3>3
      <4> QED
        BY <3>3, <4>1 DEF Reported
    <3>4. CASE c[1] = l /\ m = n /\ ~(c[2] <= k)
      <4>1. c = <<l, c[2]>> /\ c[2] \in (k + 1)..n
        BY <1>0, <3>1, <3>4
      <4> QED
        BY <4>1
    <3> QED
      BY <3>1, <3>2, <3>3, <3>4
  <2>2. ASSUME NEW c \in R
        PROVE  c \in Reported'
    BY <2>2 DEF Reported
  <2>3. ASSUME NEW c \in N
        PROVE  c \in Reported'
    <3>1. c \in Launches \X (1..MaxCommits) /\ c[1] = l /\ n \in c[2]..MaxCommits
      BY <1>0, <2>3
    <3>2. <<c[1], n>> \in handled'
      BY <3>1
    <3> QED
      BY <3>1, <3>2 DEF Reported
  <2>4. Reported' \subseteq Launches \X (1..MaxCommits)
    BY DEF Reported
  <2> QED
    BY <2>1, <2>2, <2>3, <2>4
<1>2. R \cap N = {}
  <2> SUFFICES ASSUME NEW c \in R, c \in N
               PROVE  FALSE
    OBVIOUS
  <2>1. PICK m \in c[2]..MaxCommits : <<c[1], m>> \in handled
    BY DEF Reported
  <2>2. c[1] = l /\ c[2] > k /\ c[2] \in Nat
    BY <1>0
  <2>3. m <= k
    BY <2>1, <2>2
  <2> QED
    BY <2>1, <2>2, <2>3
<1>3. IsFiniteSet(R) /\ Cardinality(R) \in Nat
  BY ReportedFinite
<1>4. CASE n > k
  <2>1. IsFiniteSet(N) /\ Cardinality(N) = n - k
    BY <1>0, <1>4, UnitsCount
  <2> HIDE DEF N, R
  <2>2. Cardinality(R \cup N) = Cardinality(R) + Cardinality(N) - Cardinality({})
    BY <1>2, <1>3, <2>1, FS_Union
  <2>3. Cardinality(R \cup N) = Cardinality(R) + (n - k)
    BY <1>0, <1>3, <2>1, <2>2, FS_EmptySet
  <2> QED
    BY <1>1, <1>4, <2>3 DEF R
<1>5. CASE ~(n > k)
  <2>1. N = {}
    BY <1>0, <1>5
  <2>2. Reported' = Reported
    BY <1>1, <2>1
  <2> QED
    BY <1>3, <1>5, <2>2
<1> QED
  BY <1>4, <1>5

\* What the upsert makes of the row.
LEMMA WriteIs ==
  ASSUME ScormInv, NEW r \in wire, NEW newer \in BOOLEAN, WriteCommit(r, newer)
  PROVE  /\ attempt' \in AttemptRec
         /\ attempt'.launch = r.l
         /\ attempt'.seq = IF Newer(r) THEN r.seq ELSE attempt.seq
         /\ attempt'.total = Total(r)
         /\ attempt'.status \in Statuses
         /\ Rank[attempt'.status] >= Rank[attempt.status]
         /\ Newer(r) => Rank[attempt'.status] >= Rank[StatusOf(r)]
         /\ attempt.completed => attempt'.completed
<1> DEFINE st == IF Better(r) THEN StatusOf(r) ELSE attempt.status
           done == attempt.completed \/ (Better(r) /\ StatusOf(r) \in FinishedAs)
           sq == IF Newer(r) THEN r.seq ELSE attempt.seq
           ss == IF r.l # attempt.launch THEN attempt.sessions + 1 ELSE attempt.sessions
<1>1. attempt' = [status |-> st, launch |-> r.l, seq |-> sq, total |-> Total(r),
                  sessions |-> ss, completed |-> done]
  BY DEF WriteCommit, Upserted
<1>2. /\ st \in Statuses /\ sq \in Nat /\ ss \in Nat /\ Total(r) \in Nat
      /\ r.l \in Launches \cup {NoLaunch}
  BY ScormHas DEF Total
<1>3. done \in BOOLEAN /\ (attempt.completed => done)
  OBVIOUS
<1>4. Rank[st] >= Rank[attempt.status] /\ (Newer(r) => Rank[st] >= Rank[StatusOf(r)])
  <2>1. /\ Rank[StatusOf(r)] \in Nat /\ Rank[attempt.status] \in Nat
    BY ScormHas, RankIs
  <2> QED
    BY <2>1 DEF Better
<1>5. sq = IF Newer(r) THEN r.seq ELSE attempt.seq
  OBVIOUS
<1> HIDE DEF st, done, sq, ss
<1>6. /\ attempt'.launch = r.l /\ attempt'.seq = sq /\ attempt'.total = Total(r)
      /\ attempt'.status = st /\ attempt'.completed = done
  BY <1>1
<1>7. attempt' \in AttemptRec
  BY <1>1, <1>2, <1>3 DEF AttemptRec
<1> QED
  BY <1>2, <1>3, <1>4, <1>5, <1>6, <1>7

\* What it notes of the commits handled.
LEMMA WriteNotes ==
  ASSUME ScormInv, NEW r \in wire, NEW newer \in BOOLEAN, WriteCommit(r, newer)
  PROVE  /\ handled' = handled \cup {<<r.l, r.seq>>}
         /\ handled' \subseteq Launches \X (1..MaxCommits)
         /\ finishes' = IF IsFinal(r) /\ newer
                          THEN [finishes EXCEPT ![r.l] = @ + 1] ELSE finishes
         /\ finishes' \in [Launches -> Nat]
         /\ interleaved' \in BOOLEAN
         /\ interleaved => interleaved'
         /\ r.l # attempt.launch =>
              interleaved' \/ \A c \in handled : c[1] # r.l
<1>1. handled' = handled \cup {<<r.l, r.seq>>} /\ handled' \subseteq Launches \X (1..MaxCommits)
  BY ScormHas DEF WriteCommit, ScormInv
<1>2. finishes' = IF IsFinal(r) /\ newer
                    THEN [finishes EXCEPT ![r.l] = @ + 1] ELSE finishes
  BY DEF WriteCommit
<1>3. finishes' \in [Launches -> Nat]
  BY <1>2, ScormHas DEF ScormInv
<1>4. interleaved' = \/ interleaved
                     \/ r.l # attempt.launch /\ \E c \in handled : c[1] = r.l
  BY DEF WriteCommit
<1>5. interleaved' \in BOOLEAN
  BY <1>4, Zenon
<1>6. interleaved => interleaved'
  BY <1>4, Zenon
<1>7. r.l # attempt.launch => interleaved' \/ \A c \in handled : c[1] # r.l
  BY <1>4, Zenon
<1> QED
  BY <1>1, <1>2, <1>3, <1>5, <1>6, <1>7

\* A request keeps its place among the others when only the server's side of it
\* moves on.
LEMMA WireMoves ==
  ASSUME ScormInv, NEW r \in wire, NEW at \in {"sent", "first", "done"}, Step(r, at),
         player' = player, handled \subseteq handled',
         at = "done" => <<r.l, r.seq>> \in handled'
  PROVE  /\ wire' \subseteq FetchRec
         /\ \A q \in wire' : FetchFits(q)'
         /\ \A l \in Launches : LaunchFits(l)'
         /\ \A q, x \in wire' : q.l = x.l /\ q.mine = x.mine => q = x
         /\ \A q \in wire' : q \in wire \ {r} \/ q.at = at
<1> DEFINE s == [r EXCEPT !.at = at]
<1>1. /\ s \in FetchRec /\ s.l = r.l /\ s.seq = r.seq /\ s.mine = r.mine
      /\ s.heard = r.heard /\ s.at = at
  BY ScormHas DEF FetchRec
<1>2. wire' = (wire \ {r}) \cup {s}
  BY DEF Step
<1> HIDE DEF s
<1>3. ASSUME NEW q \in wire'
      PROVE  FetchFits(q)'
  <2>1. CASE q \in wire
    BY <2>1, ScormHas DEF FetchFits
  <2>2. CASE q = s
    <3>1. FetchFits(r)
      BY ScormHas
    <3> QED
      BY <1>1, <2>2, <3>1 DEF FetchFits
  <2> QED
    BY <1>2, <2>1, <2>2
<1>4. ASSUME NEW l \in Launches
      PROVE  LaunchFits(l)'
  <2>1. LaunchFits(l)
    BY ScormHas
  <2>2. ASSUME NEW q \in wire, q.l = l, q.mine = player[l].mine, ~q.heard
        PROVE  \E x \in wire' : x.l = l /\ x.mine = player[l].mine /\ ~x.heard
    <3>1. CASE q = r
      BY <1>1, <1>2, <2>2, <3>1
    <3> QED
      BY <1>2, <2>2, <3>1
  <2> QED
    BY <2>1, <2>2 DEF LaunchFits
<1>5. ASSUME NEW q \in wire', NEW x \in wire', q.l = x.l, q.mine = x.mine
      PROVE  q = x
  <2>1. \A a, b \in wire : a.l = b.l /\ a.mine = b.mine => a = b
    BY DEF ScormInv, FetchesApart
  <2> QED
    BY <1>1, <1>2, <1>5, <2>1
<1> QED
  BY <1>1, <1>2, <1>3, <1>4, <1>5, ScormHas DEF ScormInv

\* The row stays what was handled says, whoever records a commit, newer than the
\* row if it was told so, but in a race.
LEMMA WriteFits ==
  ASSUME ScormInv, NEW r \in wire, NEW newer \in BOOLEAN, WriteCommit(r, newer),
         player' = player, raced' = raced,
         newer => raced \/ Newer(r)
  PROVE  /\ RowFits' /\ LastWordCounts' /\ TimeCountsOnce' /\ FinishAuditedOnce'
         /\ \A l \in Launches : FinishFits(l)'
         /\ attempt' # NoAttempt
<1> DEFINE k == IF r.l = attempt.launch THEN attempt.seq ELSE 0
<1>1. /\ r.l \in Launches /\ r.seq \in 1..MaxCommits /\ FetchFits(r)
      /\ r.l # NoLaunch
  BY ScormHas, ScormAssumption
<1>2. /\ attempt'.launch = r.l
      /\ attempt'.seq = IF Newer(r) THEN r.seq ELSE attempt.seq
      /\ attempt'.total = Total(r)
      /\ attempt'.status \in Statuses
      /\ Rank[attempt'.status] >= Rank[attempt.status]
      /\ Newer(r) => Rank[attempt'.status] >= Rank[StatusOf(r)]
  BY WriteIs
<1>3. /\ handled' = handled \cup {<<r.l, r.seq>>}
      /\ finishes' = IF IsFinal(r) /\ newer
                       THEN [finishes EXCEPT ![r.l] = @ + 1] ELSE finishes
      /\ interleaved => interleaved'
      /\ r.l # attempt.launch =>
           interleaved' \/ \A c \in handled : c[1] # r.l
  BY WriteNotes
<1>4. /\ handled \subseteq Launches \X (1..MaxCommits)
      /\ finishes \in [Launches -> Nat]
      /\ RowFits /\ LastWordCounts /\ TimeCountsOnce /\ FinishAuditedOnce
  BY DEF ScormInv
<1>5. /\ attempt.seq \in Nat /\ attempt.total \in Nat /\ attempt.status \in Statuses
      /\ MaxCommits \in Nat /\ r.seq \in Nat /\ r.seq >= 1
      /\ \A l \in Launches : Len(player[l].sent) \in Nat
      /\ \A c \in handled : c[1] \in Launches /\ c[2] \in Nat
  BY <1>1, <1>4, ScormHas, ScormAssumption
<1>6. \/ interleaved'
      \/ \A c \in handled : c[1] = r.l => c[2] <= k
  BY <1>3, <1>4 DEF RowFits
<1>7. RowFits'
  <2>1. attempt'.launch # NoLaunch /\ attempt'.seq >= 1
    BY <1>1, <1>2, <1>4, <1>5 DEF Newer, RowFits
  <2>2. <<attempt'.launch, attempt'.seq>> \in handled'
    <3>1. CASE Newer(r)
      BY <1>2, <1>3, <3>1
    <3>2. CASE ~Newer(r)
      BY <1>1, <1>2, <1>3, <1>4, <3>2 DEF Newer, RowFits
    <3> QED
      BY <3>1, <3>2
  <2>3. ASSUME NEW c \in handled'
        PROVE  /\ c[2] <= Len(player[c[1]].sent)
               /\ c[1] = r.l => interleaved' \/ c[2] <= attempt'.seq
    <3>1. CASE c = <<r.l, r.seq>>
      <4>1. r.seq <= Len(player[r.l].sent)
        BY <1>1 DEF FetchFits
      <4>2. r.seq <= attempt'.seq
        BY <1>2, <1>5 DEF Newer
      <4> QED
        BY <3>1, <4>1, <4>2
    <3>2. CASE c \in handled
      <4>1. c[2] <= Len(player[c[1]].sent)
        BY <1>4, <3>2 DEF RowFits
      <4>2. k <= attempt'.seq /\ attempt'.seq \in Nat
        BY <1>2, <1>5 DEF Newer
      <4>3. c[1] = r.l => interleaved' \/ c[2] <= attempt'.seq
        BY <1>5, <1>6, <3>2, <4>2
      <4> QED
        BY <4>1, <4>3
    <3> QED
      BY <1>3, <3>1, <3>2
  <2> QED
    BY <1>2, <2>1, <2>2, <2>3 DEF RowFits
<1>8. LastWordCounts'
  <2> SUFFICES ASSUME NEW l \in Launches, Len(player[l].sent) > 0,
                      <<l, Len(player[l].sent)>> \in handled'
               PROVE  Rank[attempt'.status] >= Rank[player[l].sent[Len(player[l].sent)]]
    BY DEF LastWordCounts
  <2> DEFINE n == Len(player[l].sent)
  <2>0. Rank[attempt'.status] \in Nat /\ Rank[attempt.status] \in Nat
    BY <1>2, <1>5, RankIs
  <2>1. CASE <<l, n>> \in handled
    <3>1. Rank[attempt.status] >= Rank[player[l].sent[n]]
      BY <1>4, <2>1 DEF LastWordCounts
    <3>2. player[l].sent[n] \in Statuses
      <4>1. player[l].sent \in Seq(LessonStatuses) /\ n \in 1..Len(player[l].sent)
        BY ScormHas, <1>5
      <4>2. player[l].sent[n] \in LessonStatuses
        BY <4>1
      <4> QED
        BY <4>2, ScormAssumption DEF Statuses
    <3>3. Rank[player[l].sent[n]] \in Nat
      BY <3>2, RankIs
    <3> QED
      BY <1>2, <2>0, <3>1, <3>3
  <2>2. CASE <<l, n>> \notin handled
    <3>1. l = r.l /\ n = r.seq
      BY <1>3, <2>2
    <3>2. StatusOf(r) = player[l].sent[n]
      BY <3>1 DEF StatusOf
    <3>3. Newer(r)
      <4> SUFFICES ASSUME ~Newer(r) PROVE FALSE
        OBVIOUS
      <4>1. r.l = attempt.launch /\ n <= attempt.seq
        BY <1>5, <3>1 DEF Newer
      <4>2. <<attempt.launch, attempt.seq>> \in handled
        BY <1>1, <1>4, <4>1 DEF RowFits
      <4>3. attempt.seq <= n
        BY <1>4, <3>1, <4>1, <4>2 DEF RowFits
      <4> QED
        BY <1>5, <2>2, <3>1, <4>1, <4>2, <4>3
    <3> QED
      BY <1>2, <3>2, <3>3
  <2> QED
    BY <2>1, <2>2
<1>9. TimeCountsOnce'
  <2> SUFFICES ASSUME ~interleaved'
               PROVE  attempt'.total + attempt'.seq = Cardinality(Reported')
    BY DEF TimeCountsOnce
  <2>1. attempt.total + attempt.seq = Cardinality(Reported)
    BY <1>3, <1>4 DEF TimeCountsOnce
  <2>2. k \in Nat /\ (k # 0 => <<r.l, k>> \in handled)
    BY <1>1, <1>4, <1>5 DEF RowFits
  <2>3. \A c \in handled : c[1] = r.l => c[2] <= k
    BY <1>6
  <2> HIDE DEF k
  <2>4. Cardinality(Reported') = Cardinality(Reported) + (IF r.seq > k THEN r.seq - k ELSE 0)
    BY <1>1, <1>3, <1>4, <2>2, <2>3, ReportedGrows
  <2> QED
    BY <1>2, <1>5, <2>1, <2>4 DEF k, Newer, Total
<1>10. \A l \in Launches : FinishFits(l)' /\ (finishes'[l] <= 1 \/ interleaved' \/ raced')
  <2> SUFFICES ASSUME NEW l \in Launches, ~interleaved', ~raced
               PROVE  FinishFits(l)' /\ finishes'[l] <= 1
    BY DEF FinishFits
  <2>1. finishes[l] \in Nat /\ finishes[l] <= 1 /\ FinishFits(l) /\ ~interleaved
    BY <1>3, <1>4, ScormHas DEF FinishAuditedOnce
  <2>2. CASE l = r.l /\ IsFinal(r) /\ newer
    <3>1. finishes'[l] = finishes[l] + 1
      BY <1>3, <1>4, <2>2
    <3>2. /\ player[l].phase = "finished" /\ r.seq = Len(player[l].sent)
          /\ Newer(r)
      BY <2>2 DEF IsFinal
    <3>3. <<l, r.seq>> \notin handled
      <4> SUFFICES ASSUME <<l, r.seq>> \in handled PROVE FALSE
        OBVIOUS
      <4>1. r.seq <= k
        BY <1>6, <2>2
      <4> QED
        BY <1>5, <3>2, <4>1 DEF Newer
    <3>4. finishes[l] = 0
      BY <2>1, <3>2, <3>3 DEF FinishFits
    <3> QED
      BY <1>3, <2>2, <3>1, <3>2, <3>4 DEF FinishFits
  <2>3. CASE ~(l = r.l /\ IsFinal(r) /\ newer)
    <3>1. finishes'[l] = finishes[l]
      BY <1>3, <1>4, <2>3
    <3> QED
      BY <1>3, <2>1, <3>1 DEF FinishFits
  <2> QED
    BY <2>2, <2>3
<1>11. attempt' # NoAttempt
  BY <1>1, <1>2 DEF NoAttempt
<1> QED
  BY <1>7, <1>8, <1>9, <1>10, <1>11 DEF FinishAuditedOnce

\* At first.
LEMMA ScormInitInv == ScormInit => ScormInv
<1> SUFFICES ASSUME ScormInit PROVE ScormInv
  OBVIOUS
<1> USE DEF ScormInit
<1>1. Unopened \in LaunchRec
  BY DEF Unopened, NoFailure, LaunchRec
<1>2. player \in [Launches -> LaunchRec] /\ \A l \in Launches : player[l] = Unopened
  BY <1>1
<1>3. attempt \in AttemptRec
  BY DEF NoAttempt, AttemptRec, Statuses
<1>4. ASSUME NEW l \in Launches
      PROVE  LaunchFits(l) /\ FinishFits(l) /\ finishes[l] = 0 /\ Len(player[l].sent) = 0
  BY <1>2, ScormAssumption DEF Unopened, NoFailure, LaunchFits, FinishFits
<1>5. FetchesApart /\ RowFits
  BY DEF FetchesApart, RowFits, NoAttempt
<1>6. LastWordCounts /\ FinishAuditedOnce
  BY <1>4 DEF LastWordCounts, FinishAuditedOnce
<1>7. TimeCountsOnce
  <2>1. Reported = {}
    BY DEF Reported
  <2> QED
    BY <2>1, FS_EmptySet DEF TimeCountsOnce, NoAttempt
<1> QED
  BY <1>2, <1>3, <1>4, <1>5, <1>6, <1>7 DEF ScormInv

\* What the row and its commits say holds while only players move on, when none
\* of them takes back what it sent, and a finished one sends nothing new.
LEMMA RowStays ==
  ASSUME ScormInv, UNCHANGED recordRow,
         \A l \in Launches :
           \/ player'[l].sent = player[l].sent
              /\ (player[l].phase = "finished" => player'[l].phase = "finished")
           \/ /\ player[l].phase # "finished"
              /\ \E status \in LessonStatuses : player'[l].sent = Append(player[l].sent, status)
  PROVE  /\ RowFits' /\ LastWordCounts' /\ TimeCountsOnce' /\ FinishAuditedOnce'
         /\ \A l \in Launches : FinishFits(l)'
<1>1. /\ attempt' = attempt /\ handled' = handled /\ finishes' = finishes
      /\ interleaved' = interleaved /\ raced' = raced
  BY DEF recordRow
<1>2. /\ handled \subseteq Launches \X (1..MaxCommits)
      /\ finishes \in [Launches -> Nat]
      /\ RowFits /\ LastWordCounts /\ TimeCountsOnce /\ FinishAuditedOnce
  BY DEF ScormInv
<1>3. ASSUME NEW l \in Launches
      PROVE  /\ Len(player[l].sent) \in Nat
             /\ \/ player'[l].sent = player[l].sent
                \/ /\ player[l].phase # "finished"
                   /\ Len(player'[l].sent) = Len(player[l].sent) + 1
  BY ScormHas
<1>4. RowFits'
  <2>1. ASSUME NEW c \in handled
        PROVE  /\ c[2] <= Len(player'[c[1]].sent)
               /\ c[1] = attempt.launch => interleaved \/ c[2] <= attempt.seq
    <3>1. c[1] \in Launches /\ c[2] \in Nat
      BY <1>2, ScormAssumption
    <3>2. c[2] <= Len(player[c[1]].sent)
      BY <1>2 DEF RowFits
    <3> QED
      BY <1>2, <1>3, <3>1, <3>2 DEF RowFits
  <2> QED
    BY <1>1, <1>2, <2>1 DEF RowFits
<1>5. LastWordCounts'
  <2> SUFFICES ASSUME NEW l \in Launches, Len(player'[l].sent) > 0,
                      <<l, Len(player'[l].sent)>> \in handled
               PROVE  Rank[attempt.status] >= Rank[player'[l].sent[Len(player'[l].sent)]]
    BY <1>1 DEF LastWordCounts
  <2>1. Len(player'[l].sent) <= Len(player[l].sent)
    BY <1>2 DEF RowFits
  <2>2. player'[l].sent = player[l].sent
    BY <1>3, <2>1
  <2> QED
    BY <1>2, <2>2 DEF LastWordCounts
<1>6. TimeCountsOnce' /\ FinishAuditedOnce'
  BY <1>1, <1>2 DEF TimeCountsOnce, FinishAuditedOnce, Reported
<1>7. ASSUME NEW l \in Launches
      PROVE  FinishFits(l)'
  <2>1. FinishFits(l)
    BY ScormHas
  <2>2. \/ player'[l].sent = player[l].sent
           /\ (player[l].phase = "finished" => player'[l].phase = "finished")
        \/ player[l].phase # "finished"
    OBVIOUS
  <2> QED
    BY <1>1, <2>1, <2>2 DEF FinishFits
<1> QED
  BY <1>4, <1>5, <1>6, <1>7

\* A runtime that may number another payload has room for it.
LEMMA CommitHasRoom ==
  ASSUME ScormInv, NEW l \in Launches, Committed < MaxCommits
  PROVE  Len(player[l].sent) + 1 <= MaxCommits
<1> DEFINE S == {c \in Launches \X (1..MaxCommits) : c[2] <= Len(player[c[1]].sent)}
           n == Len(player[l].sent)
           none == 0
           U == {l} \X ((none + 1)..MaxCommits)
<1>1. n \in Nat /\ MaxCommits \in Nat
  BY ScormHas, ScormAssumption
<1> SUFFICES ASSUME ~(n + 1 <= MaxCommits) PROVE FALSE
  OBVIOUS
<1>2. IsFiniteSet(S) /\ Cardinality(S) \in Nat
  <2>1. IsFiniteSet(1..MaxCommits)
    BY <1>1, FS_Interval
  <2>2. IsFiniteSet(Launches \X (1..MaxCommits))
    BY <2>1, ScormAssumption, FS_Product
  <2> QED
    BY <2>2, FS_Subset, FS_CardinalityType
<1>3. U \subseteq S
  <2> SUFFICES ASSUME NEW c \in U PROVE c \in S
    OBVIOUS
  <2>1. c[1] = l /\ c[2] \in 1..MaxCommits /\ c \in Launches \X (1..MaxCommits)
    BY <1>1
  <2>2. c[2] <= n
    BY <1>1, <2>1
  <2> QED
    BY <2>1, <2>2
<1>4. Cardinality(U) = MaxCommits
  <2>1. none \in Nat /\ none <= MaxCommits /\ MaxCommits - none = MaxCommits
    BY <1>1
  <2> HIDE DEF none
  <2> QED
    BY <1>1, <2>1, UnitsCount
<1>5. Committed = Cardinality(S)
  BY DEF Committed
<1> HIDE DEF S, U, n
<1>6. Cardinality(U) <= Cardinality(S)
  BY <1>2, <1>3, FS_Subset
<1> QED
  BY <1>1, <1>2, <1>4, <1>5, <1>6

\* A commit is recorded, under the row's lock or as the first.
LEMMA RecordInv ==
  ASSUME ScormInv, NEW r \in wire, RecordUnderLock(r) \/ RecordFirst(r)
  PROVE  ScormInv'
<1>1. PICK newer \in BOOLEAN : WriteCommit(r, newer) /\ (newer => raced \/ Newer(r))
  <2>1. CASE RecordUnderLock(r)
    BY <2>1 DEF RecordUnderLock, Newer
  <2>2. CASE RecordFirst(r)
    <3>1. raced \/ attempt = NoAttempt
      BY <2>2 DEF RecordFirst, ScormInv, FetchesApart
    <3>2. attempt = NoAttempt => Newer(r)
      BY ScormHas, ScormAssumption DEF NoAttempt, Newer
    <3> QED
      BY <2>2, <3>1, <3>2 DEF RecordFirst
  <2> QED
    BY <2>1, <2>2
<1>2. Step(r, "done") /\ player' = player /\ raced' = raced
  BY DEF RecordUnderLock, RecordFirst
<1>3. handled \subseteq handled' /\ <<r.l, r.seq>> \in handled'
  BY <1>1, WriteNotes
<1>4. /\ wire' \subseteq FetchRec
      /\ \A q \in wire' : FetchFits(q)'
      /\ \A l \in Launches : LaunchFits(l)'
      /\ \A q, x \in wire' : q.l = x.l /\ q.mine = x.mine => q = x
      /\ \A q \in wire' : q \in wire \ {r} \/ q.at = "done"
  BY <1>2, <1>3, WireMoves
<1>5. /\ RowFits' /\ LastWordCounts' /\ TimeCountsOnce' /\ FinishAuditedOnce'
      /\ \A l \in Launches : FinishFits(l)'
  BY <1>1, <1>2, WriteFits
<1>6. attempt' \in AttemptRec
  BY <1>1, WriteIs
<1>7. /\ handled' \subseteq Launches \X (1..MaxCommits)
      /\ finishes' \in [Launches -> Nat] /\ interleaved' \in BOOLEAN
  BY <1>1, WriteNotes
<1>8. FetchesApart'
  <2> SUFFICES ASSUME ~raced
               PROVE  \A q \in wire' : q.at # "first"
    BY <1>2, <1>4 DEF FetchesApart
  <2> SUFFICES ASSUME NEW q \in wire', q.at = "first"
               PROVE  FALSE
    OBVIOUS
  <2>1. q \in wire \ {r}
    BY <1>4
  <2>2. /\ \A x, y \in wire : x.at = "first" /\ y.at = "first" => x = y
        /\ attempt = NoAttempt
    BY <2>1 DEF ScormInv, FetchesApart
  <2>3. r.at = "first"
    BY <2>2 DEF RecordUnderLock, RecordFirst
  <2> QED
    BY <2>1, <2>2, <2>3
<1> QED
  BY <1>2, <1>4, <1>5, <1>6, <1>7, <1>8 DEF ScormInv

\* A first commit looks for the row, and finds none.
LEMMA FindNoRowInv ==
  ASSUME ScormInv, NEW r \in wire, FindNoRow(r)
  PROVE  ScormInv'
<1>1. /\ r.at = "sent" /\ attempt = NoAttempt /\ Step(r, "first")
      /\ player' = player /\ attempt' = attempt /\ handled' = handled
      /\ finishes' = finishes /\ interleaved' = interleaved
      /\ raced' = (raced \/ \E other \in wire : other.at = "first")
  BY DEF FindNoRow
<1>2. raced' \in BOOLEAN
  BY <1>1, Zenon
<1>3. raced \/ (\E other \in wire : other.at = "first") <=> raced'
  BY <1>1, Zenon
<1>4. /\ wire' \subseteq FetchRec
      /\ \A q \in wire' : FetchFits(q)'
      /\ \A l \in Launches : LaunchFits(l)'
      /\ \A q, x \in wire' : q.l = x.l /\ q.mine = x.mine => q = x
  BY <1>1, WireMoves
<1>5. FetchesApart'
  <2> SUFFICES ASSUME ~raced'
               PROVE  \A q, x \in wire' : q.at = "first" /\ x.at = "first" => q = x
    BY <1>1, <1>4 DEF FetchesApart
  <2>1. \A q \in wire : q.at # "first"
    BY <1>3
  <2> QED
    BY <1>1, <2>1 DEF Step
<1>6. /\ RowFits' /\ LastWordCounts' /\ TimeCountsOnce'
  BY <1>1 DEF ScormInv, RowFits, LastWordCounts, TimeCountsOnce, Reported
<1>7. FinishAuditedOnce' /\ \A l \in Launches : FinishFits(l)'
  BY <1>1, <1>3 DEF ScormInv, FinishAuditedOnce, FinishFits
<1> QED
  BY <1>1, <1>2, <1>4, <1>5, <1>6, <1>7 DEF ScormInv

\* A request whose failure was reported is lost.
LEMMA LoseFetchInv ==
  ASSUME ScormInv, NEW r \in wire, LoseFetch(r)
  PROVE  ScormInv'
<1>1. r.heard /\ wire' = wire \ {r} /\ player' = player /\ UNCHANGED recordRow
  BY DEF LoseFetch
<1>2. /\ attempt' = attempt /\ handled' = handled /\ finishes' = finishes
      /\ interleaved' = interleaved /\ raced' = raced
  BY <1>1 DEF recordRow
<1>3. /\ RowFits' /\ LastWordCounts' /\ TimeCountsOnce' /\ FinishAuditedOnce'
      /\ \A l \in Launches : FinishFits(l)'
  BY <1>1, RowStays
<1>4. ASSUME NEW l \in Launches
      PROVE  LaunchFits(l)'
  <2>1. LaunchFits(l)
    BY ScormHas
  <2> QED
    BY <1>1, <1>2, <2>1 DEF LaunchFits
<1>5. \A q \in wire' : FetchFits(q)'
  BY <1>1, <1>2 DEF ScormInv, FetchFits
<1>6. FetchesApart' /\ wire' \subseteq FetchRec
  BY <1>1, <1>2 DEF ScormInv, FetchesApart
<1> QED
  BY <1>1, <1>2, <1>3, <1>4, <1>5, <1>6 DEF ScormInv

\* A launch's session begins.
LEMMA InitializeInv ==
  ASSUME ScormInv, NEW l \in Launches, Initialize(l)
  PROVE  ScormInv'
<1> DEFINE n == [player[l] EXCEPT !.phase = "running"]
<1>1. /\ player[l].phase = "idle" /\ player' = [player EXCEPT ![l] = n]
      /\ wire' = wire /\ UNCHANGED recordRow
  BY DEF Initialize
<1>2. /\ attempt' = attempt /\ handled' = handled /\ finishes' = finishes
      /\ interleaved' = interleaved /\ raced' = raced
  BY <1>1 DEF recordRow
<1>3. /\ n \in LaunchRec /\ n.sent = player[l].sent /\ n.mine = player[l].mine
      /\ n.ok = player[l].ok /\ n.failed = player[l].failed
      /\ n.overtook = player[l].overtook
  BY ScormHas DEF LaunchRec
<1> HIDE DEF n
<1>4. /\ player' \in [Launches -> LaunchRec]
      /\ \A x \in Launches : player'[x] = IF x = l THEN n ELSE player[x]
  BY <1>1, <1>3 DEF ScormInv
<1>5. /\ RowFits' /\ LastWordCounts' /\ TimeCountsOnce' /\ FinishAuditedOnce'
      /\ \A x \in Launches : FinishFits(x)'
  BY <1>1, <1>3, <1>4, RowStays
<1>6. ASSUME NEW x \in Launches
      PROVE  LaunchFits(x)'
  <2>1. LaunchFits(x)
    BY ScormHas
  <2> QED
    BY <1>1, <1>2, <1>3, <1>4, <2>1 DEF LaunchFits
<1>7. ASSUME NEW q \in wire
      PROVE  FetchFits(q)'
  <2>1. FetchFits(q) /\ q.l \in Launches
    BY ScormHas
  <2> QED
    BY <1>2, <1>3, <1>4, <2>1 DEF FetchFits
<1>8. FetchesApart'
  BY <1>1, <1>2 DEF ScormInv, FetchesApart
<1> QED
  BY <1>1, <1>2, <1>4, <1>5, <1>6, <1>7, <1>8 DEF ScormInv

\* n is p with what it sent, or with one more payload.
SentOn(p, n) ==
  \/ n.sent = p.sent /\ n.phase = p.phase
  \/ p.phase # "finished" /\ \E status \in LessonStatuses : n.sent = Append(p.sent, status)

\* A player sends anew: a payload it numbers now, or the last that failed.
LEMMA SendInv ==
  ASSUME ScormInv, NEW l \in Launches, NEW n \in LaunchRec, NEW k \in Nat,
         UNCHANGED recordRow,
         player' = [player EXCEPT ![l] = n],
         wire' = wire \cup {Fetch(l, k, n.mine)},
         n.mine = player[l].mine + 1, n.ok = player[l].ok, n.failed = player[l].failed,
         SentOn(player[l], n), Len(n.sent) <= MaxCommits,
         k >= 1 /\ k <= Len(n.sent), ~n.overtook => k = Len(n.sent)
  PROVE  ScormInv'
<1> DEFINE r == Fetch(l, k, n.mine)
<1>1. /\ attempt' = attempt /\ handled' = handled /\ finishes' = finishes
      /\ interleaved' = interleaved /\ raced' = raced
  BY DEF recordRow
<1>2. /\ player' \in [Launches -> LaunchRec]
      /\ \A x \in Launches : player'[x] = IF x = l THEN n ELSE player[x]
  BY DEF ScormInv
<1>3. /\ LaunchFits(l) /\ player[l].mine \in Nat /\ Len(player[l].sent) \in Nat
      /\ player[l].ok \in Nat /\ player[l].failed.mine \in Nat
      /\ player[l].failed.seq \in Nat /\ MaxCommits \in Nat
  BY ScormHas, ScormAssumption
<1>4. /\ Len(n.sent) \in Nat
      /\ Len(n.sent) = Len(player[l].sent) \/ Len(n.sent) = Len(player[l].sent) + 1
  BY ScormHas DEF SentOn
<1>5. /\ r \in FetchRec /\ r.l = l /\ r.seq = k /\ r.mine = n.mine /\ r.at = "sent"
      /\ r.heard = FALSE
  <2> DEFINE no == FALSE
  <2>1. no \in BOOLEAN
    OBVIOUS
  <2>2. r = [l |-> l, seq |-> k, mine |-> n.mine, at |-> "sent", heard |-> no]
    BY DEF Fetch
  <2>3. n.mine \in Nat
    BY <1>3
  <2> HIDE DEF no, r
  <2>4. r \in FetchRec /\ r.l = l /\ r.seq = k /\ r.mine = n.mine /\ r.at = "sent"
        /\ r.heard = no
    BY <2>1, <2>2, <2>3 DEF FetchRec
  <2> QED
    BY <2>4 DEF no
<1> HIDE DEF r
<1>6. wire' = wire \cup {r}
  BY DEF r
<1>7. /\ RowFits' /\ LastWordCounts' /\ TimeCountsOnce' /\ FinishAuditedOnce'
      /\ \A x \in Launches : FinishFits(x)'
  BY <1>2, RowStays DEF SentOn
<1>8. ASSUME NEW x \in Launches
      PROVE  LaunchFits(x)'
  <2>1. CASE x = l
    <3>1. \E q \in wire' : q.l = x /\ q.mine = n.mine /\ ~q.heard
      BY <1>5, <1>6, <2>1
    <3>2. /\ n.ok <= n.mine /\ n.failed.mine <= n.mine /\ n.failed.seq <= Len(n.sent)
          /\ n.failed = NoFailure \/ (n.failed.mine >= 1 /\ n.failed.seq >= 1)
          /\ Len(n.sent) <= n.mine
      <4> DEFINE p == player[l]
      <4>1. /\ p.ok <= p.mine /\ p.failed.mine <= p.mine /\ p.failed.seq <= Len(p.sent)
            /\ p.failed = NoFailure \/ (p.failed.mine >= 1 /\ p.failed.seq >= 1)
            /\ Len(p.sent) <= p.mine
        BY <1>3 DEF LaunchFits
      <4>2. /\ p.mine \in Nat /\ Len(p.sent) \in Nat /\ p.ok \in Nat
            /\ p.failed.mine \in Nat /\ p.failed.seq \in Nat
            /\ n.mine = p.mine + 1 /\ n.ok = p.ok /\ n.failed = p.failed
            /\ Len(n.sent) \in Nat
            /\ Len(n.sent) = Len(p.sent) \/ Len(n.sent) = Len(p.sent) + 1
        BY <1>3, <1>4
      <4> HIDE DEF p
      <4>3. n.ok <= n.mine /\ n.failed.mine <= n.mine
        BY <4>1, <4>2
      <4>4. n.failed.seq <= Len(n.sent) /\ Len(n.sent) <= n.mine
        BY <4>1, <4>2
      <4>5. n.failed = NoFailure \/ (n.failed.mine >= 1 /\ n.failed.seq >= 1)
        BY <4>1, <4>2
      <4> QED
        BY <4>3, <4>4, <4>5
    <3>3. player'[x] = n
      BY <1>2, <2>1
    <3> QED
      BY <1>1, <3>1, <3>2, <3>3 DEF LaunchFits
  <2>2. CASE x # l
    <3>1. LaunchFits(x)
      BY ScormHas
    <3> QED
      BY <1>1, <1>2, <1>6, <2>2, <3>1 DEF LaunchFits
  <2> QED
    BY <2>1, <2>2
<1>9. ASSUME NEW q \in wire'
      PROVE  FetchFits(q)'
  <2>1. CASE q = r
    <3>1. player'[q.l] = n /\ q.seq = k /\ q.mine = n.mine /\ q.at = "sent"
      BY <1>2, <1>5, <2>1
    <3>2. n.mine # n.ok /\ n.mine # n.failed.mine /\ n.mine >= 1 /\ n.mine <= n.mine
      <4>1. player[l].ok <= player[l].mine /\ player[l].failed.mine <= player[l].mine
        BY <1>3 DEF LaunchFits
      <4> QED
        BY <1>3, <4>1
    <3>3. q.seq >= 1 /\ q.seq <= Len(n.sent) /\ (~n.overtook => q.seq = Len(n.sent))
      BY <3>1
    <3> QED
      BY <3>1, <3>2, <3>3 DEF FetchFits
  <2>2. CASE q \in wire
    <3>1. FetchFits(q) /\ q.l \in Launches /\ q.mine \in Nat /\ q.seq \in Nat
      BY <2>2, ScormHas
    <3>2. q.l # l => FetchFits(q)'
      BY <1>1, <1>2, <3>1 DEF FetchFits
    <3>3. ASSUME q.l = l
          PROVE  FetchFits(q)'
      <4>1. /\ q.seq >= 1 /\ q.seq <= Len(player[l].sent)
            /\ q.mine >= 1 /\ q.mine <= player[l].mine
            /\ q.at = "done" => <<q.l, q.seq>> \in handled
            /\ ~q.heard => q.mine # player[l].ok /\ q.mine # player[l].failed.mine
        BY <3>1, <3>3 DEF FetchFits
      <4>2. q.mine <= n.mine /\ q.mine # n.mine /\ q.seq <= Len(n.sent)
        <5>1. q.mine <= player[l].mine /\ q.seq <= Len(player[l].sent)
          BY <4>1
        <5> QED
          BY <1>3, <1>4, <3>1, <5>1
      <4>3. player'[q.l] = n /\ handled' = handled
        BY <1>1, <1>2, <3>3
      <4> QED
        BY <4>1, <4>2, <4>3 DEF FetchFits
    <3> QED
      BY <3>2, <3>3
  <2> QED
    BY <1>6, <2>1, <2>2
<1>10. FetchesApart'
  <2>1. ASSUME NEW q \in wire
        PROVE  q.l # r.l \/ q.mine # r.mine
    <3>1. FetchFits(q) /\ q.mine \in Nat
      BY ScormHas
    <3> QED
      BY <1>3, <1>5, <3>1 DEF FetchFits
  <2> QED
    BY <1>1, <1>5, <1>6, <2>1 DEF ScormInv, FetchesApart
<1>11. wire' \subseteq FetchRec
  BY <1>5, <1>6 DEF ScormInv
<1> QED
  BY <1>1, <1>2, <1>7, <1>8, <1>9, <1>10, <1>11 DEF ScormInv

\* A payload is numbered and sent.
LEMMA NumberInv ==
  ASSUME ScormInv, NEW l \in Launches, NEW status \in LessonStatuses,
         NEW final \in BOOLEAN, Commits(l, status, final)
  PROVE  ScormInv'
<1> DEFINE p == player[l]
           sent == Append(p.sent, status)
           phase == IF final THEN "finished" ELSE "running"
           mine == p.mine + 1
           n == [p EXCEPT !.sent = sent, !.mine = mine, !.phase = phase]
           k == Len(p.sent) + 1
<1>1. /\ p.phase = "running" /\ Committed < MaxCommits
      /\ player' = [player EXCEPT ![l] = n]
      /\ wire' = wire \cup {Fetch(l, k, mine)} /\ UNCHANGED recordRow
  BY DEF Commits
<1>2. /\ p \in LaunchRec /\ p.sent \in Seq(LessonStatuses) /\ p.mine \in Nat
      /\ Len(p.sent) \in Nat
  BY ScormHas
<1>3. sent \in Seq(LessonStatuses) /\ Len(sent) = k /\ k \in Nat /\ k >= 1
  BY <1>2
<1>4. phase \in {"idle", "running", "finished"} /\ mine \in Nat
  BY <1>2
<1>5. k <= MaxCommits
  BY <1>1, CommitHasRoom
<1>6. p.phase # "finished" /\ mine = p.mine + 1 /\ sent = Append(p.sent, status)
  BY <1>1
<1> HIDE DEF sent, phase, mine, k
<1>7. /\ n \in LaunchRec /\ n.mine = mine /\ n.sent = sent
      /\ n.ok = p.ok /\ n.failed = p.failed
  BY <1>2, <1>3, <1>4 DEF LaunchRec
<1> HIDE DEF n
<1>8. /\ wire' = wire \cup {Fetch(l, k, n.mine)}
      /\ n.mine = player[l].mine + 1 /\ n.ok = player[l].ok /\ n.failed = player[l].failed
      /\ SentOn(player[l], n)
      /\ Len(n.sent) <= MaxCommits /\ k \in Nat /\ k >= 1 /\ k <= Len(n.sent)
      /\ k = Len(n.sent)
  BY <1>1, <1>3, <1>5, <1>6, <1>7 DEF SentOn
<1> HIDE DEF p
<1> QED
  BY <1>1, <1>7, <1>8, SendInv

\* A lost payload is sent again.
LEMMA ResendOlderInv ==
  ASSUME ScormInv, NEW l \in Launches, ResendOlder(l)
  PROVE  ScormInv'
<1> DEFINE p == player[l]
           mine == p.mine + 1
           over == p.overtook \/ p.failed.seq < Len(p.sent)
           n == [p EXCEPT !.mine = mine, !.overtook = over]
           k == p.failed.seq
<1>1. /\ p.failed # NoFailure
      /\ player' = [player EXCEPT ![l] = n]
      /\ wire' = wire \cup {Fetch(l, k, mine)} /\ UNCHANGED recordRow
  BY DEF ResendOlder
<1>2. /\ p \in LaunchRec /\ p.mine \in Nat /\ k \in Nat /\ Len(p.sent) \in Nat
      /\ LaunchFits(l)
  BY ScormHas
<1>3. k >= 1 /\ k <= Len(p.sent) /\ Len(p.sent) <= MaxCommits
  BY <1>1, <1>2 DEF LaunchFits
<1>4. over \in BOOLEAN /\ (~over => k = Len(p.sent))
  BY <1>2, <1>3
<1>5. mine \in Nat /\ mine = p.mine + 1
  BY <1>2
<1> HIDE DEF over, mine, k
<1>6. /\ n \in LaunchRec /\ n.mine = mine /\ n.sent = p.sent /\ n.phase = p.phase
      /\ n.ok = p.ok /\ n.failed = p.failed /\ n.overtook = over
  BY <1>2, <1>4, <1>5 DEF LaunchRec
<1> HIDE DEF n
<1>7. ~n.overtook => k = Len(n.sent)
  <2>1. ~n.overtook => ~over
    BY <1>6, Zenon
  <2> QED
    BY <1>4, <1>6, <2>1
<1>8. /\ wire' = wire \cup {Fetch(l, k, n.mine)}
      /\ n.mine = player[l].mine + 1 /\ n.ok = player[l].ok /\ n.failed = player[l].failed
      /\ SentOn(player[l], n)
      /\ Len(n.sent) <= MaxCommits /\ k \in Nat /\ k >= 1 /\ k <= Len(n.sent)
  BY <1>1, <1>2, <1>3, <1>5, <1>6 DEF SentOn
<1> HIDE DEF p
<1> QED
  BY <1>1, <1>6, <1>7, <1>8, SendInv

\* A player hears of a request: it was done, or it failed.
LEMMA HearInv ==
  ASSUME ScormInv, NEW r \in wire, NEW n \in LaunchRec, ~r.heard,
         UNCHANGED recordRow,
         player' = [player EXCEPT ![r.l] = n],
         n.phase = player[r.l].phase, n.sent = player[r.l].sent,
         n.mine = player[r.l].mine, n.overtook = player[r.l].overtook,
         n.ok = player[r.l].ok \/ n.ok = r.mine,
         n.failed = NoFailure \/ n.failed = player[r.l].failed
           \/ n.failed = [mine |-> r.mine, seq |-> r.seq],
         wire' \subseteq (wire \ {r}) \cup {[r EXCEPT !.heard = TRUE]},
         wire \ {r} \subseteq wire',
         r.mine # n.mine \/ n.failed.mine = n.mine
           \/ <<r.l, Len(n.sent)>> \in handled \/ n.overtook \/ n.sent = <<>>,
         player[r.l].failed.mine = n.mine => n.failed.mine = n.mine
  PROVE  ScormInv'
<1> DEFINE l == r.l
           y == TRUE
           s == [r EXCEPT !.heard = y]
<1>1. /\ attempt' = attempt /\ handled' = handled /\ finishes' = finishes
      /\ interleaved' = interleaved /\ raced' = raced
  BY DEF recordRow
<1>2. /\ player' \in [Launches -> LaunchRec] /\ l \in Launches
      /\ \A x \in Launches : player'[x] = IF x = l THEN n ELSE player[x]
  BY ScormHas DEF ScormInv
<1>3. /\ LaunchFits(l) /\ player[l].mine \in Nat /\ Len(player[l].sent) \in Nat
      /\ player[l].ok \in Nat /\ player[l].failed.mine \in Nat
      /\ player[l].failed.seq \in Nat
      /\ r.mine \in Nat /\ r.seq \in Nat /\ FetchFits(r)
  BY ScormHas
<1>4. /\ s \in FetchRec /\ s.l = l /\ s.seq = r.seq /\ s.mine = r.mine /\ s.at = r.at
      /\ s.heard = y
  <2>1. r \in FetchRec /\ y \in BOOLEAN
    BY ScormHas
  <2> HIDE DEF y
  <2> QED
    BY <2>1 DEF FetchRec
<1>5. s.heard
  BY <1>4
<1>6. \A q \in wire' : q \in wire \ {r} \/ q = s
  OBVIOUS
<1> HIDE DEF s, y
<1>7. /\ RowFits' /\ LastWordCounts' /\ TimeCountsOnce' /\ FinishAuditedOnce'
      /\ \A x \in Launches : FinishFits(x)'
  BY <1>2, RowStays
<1>8. ASSUME NEW x \in Launches
      PROVE  LaunchFits(x)'
  <2>1. CASE x = l
    <3>1. /\ n.ok <= n.mine /\ n.failed.mine <= n.mine /\ n.failed.seq <= Len(n.sent)
          /\ n.failed = NoFailure \/ (n.failed.mine >= 1 /\ n.failed.seq >= 1)
          /\ Len(n.sent) <= n.mine /\ Len(n.sent) <= MaxCommits
      BY <1>3 DEF LaunchFits, FetchFits, NoFailure
    <3>2. ~n.overtook /\ n.sent # <<>> =>
            \/ <<l, Len(n.sent)>> \in handled
            \/ n.failed.mine = n.mine
            \/ \E q \in wire' : q.l = l /\ q.mine = n.mine /\ ~q.heard
      <4> SUFFICES ASSUME ~n.overtook, n.sent # <<>>,
                          <<l, Len(n.sent)>> \notin handled, n.failed.mine # n.mine
                   PROVE  \E q \in wire' : q.l = l /\ q.mine = n.mine /\ ~q.heard
        OBVIOUS
      <4>1. r.mine # n.mine /\ player[l].failed.mine # n.mine
        OBVIOUS
      <4>2. PICK q \in wire : q.l = l /\ q.mine = n.mine /\ ~q.heard
        BY <1>3, <4>1 DEF LaunchFits
      <4>3. q \in wire'
        BY <4>1, <4>2
      <4> QED
        BY <4>2, <4>3
    <3>3. player'[x] = n
      BY <1>2, <2>1
    <3> QED
      BY <1>1, <2>1, <3>1, <3>2, <3>3 DEF LaunchFits
  <2>2. CASE x # l
    <3>1. LaunchFits(x)
      BY ScormHas
    <3>2. ASSUME NEW q \in wire, q.l = x
          PROVE  q \in wire'
      BY <2>2, <3>2
    <3> QED
      BY <1>1, <1>2, <2>2, <3>1, <3>2 DEF LaunchFits
  <2> QED
    BY <2>1, <2>2
<1>9. ASSUME NEW q \in wire'
      PROVE  FetchFits(q)'
  <2>1. CASE q = s
    <3>1. player'[q.l] = n
      BY <1>2, <1>4, <2>1
    <3> QED
      BY <1>1, <1>3, <1>4, <1>5, <2>1, <3>1 DEF FetchFits
  <2>2. CASE q \in wire \ {r}
    <3>1. FetchFits(q) /\ q.l \in Launches /\ q.mine \in Nat /\ q.seq \in Nat
      BY <2>2, ScormHas
    <3>2. q.l # l => FetchFits(q)'
      BY <1>1, <1>2, <3>1 DEF FetchFits
    <3>3. ASSUME q.l = l
          PROVE  FetchFits(q)'
      <4>1. q.mine # r.mine
        BY <2>2, <3>3 DEF ScormInv, FetchesApart
      <4>2. player'[q.l] = n /\ player[q.l] = player[l]
        BY <1>2, <3>3
      <4>3. q.mine >= 1
        BY <3>1 DEF FetchFits
      <4>4. ~q.heard => q.mine # n.ok /\ q.mine # n.failed.mine
        BY <1>3, <3>1, <4>1, <4>2, <4>3 DEF FetchFits, NoFailure
      <4> QED
        BY <1>1, <3>1, <4>2, <4>4 DEF FetchFits
    <3> QED
      BY <3>2, <3>3
  <2> QED
    BY <1>6, <2>1, <2>2
<1>10. FetchesApart'
  <2>1. FetchesApart
    BY DEF ScormInv
  <2>2. ASSUME NEW q \in wire', NEW x \in wire', q.l = x.l, q.mine = x.mine
        PROVE  q = x
    BY <1>4, <1>6, <2>1, <2>2 DEF FetchesApart
  <2>3. ASSUME NEW q \in wire', NEW x \in wire', ~raced, q.at = "first", x.at = "first"
        PROVE  q = x /\ attempt = NoAttempt
    BY <1>4, <1>6, <2>1, <2>3 DEF FetchesApart
  <2> QED
    BY <1>1, <2>2, <2>3 DEF FetchesApart
<1>11. wire' \subseteq FetchRec
  BY <1>4, <1>6 DEF ScormInv
<1> QED
  BY <1>1, <1>2, <1>7, <1>8, <1>9, <1>10, <1>11 DEF ScormInv

\* An answer that comes after its player gave up on it changes the wire alone.
LEMMA HearsLateInv ==
  ASSUME ScormInv, NEW r \in wire, r.heard, wire' = wire \ {r},
         UNCHANGED <<player, recordRow>>
  PROVE  ScormInv'
<1>1. /\ player' = player /\ attempt' = attempt /\ handled' = handled
      /\ finishes' = finishes /\ interleaved' = interleaved /\ raced' = raced
  BY DEF recordRow
<1>2. /\ RowFits' /\ LastWordCounts' /\ TimeCountsOnce' /\ FinishAuditedOnce'
      /\ \A l \in Launches : FinishFits(l)'
  BY <1>1, RowStays
<1>3. ASSUME NEW l \in Launches
      PROVE  LaunchFits(l)'
  <2>1. LaunchFits(l)
    BY ScormHas
  <2> QED
    BY <1>1, <2>1 DEF LaunchFits
<1>4. \A q \in wire' : FetchFits(q)'
  BY <1>1 DEF ScormInv, FetchFits
<1>5. FetchesApart' /\ wire' \subseteq FetchRec
  BY <1>1 DEF ScormInv, FetchesApart
<1> QED
  BY <1>1, <1>2, <1>3, <1>4, <1>5 DEF ScormInv

\* A player hears that a request was done.
LEMMA HearsInv ==
  ASSUME ScormInv, NEW r \in wire, Hears(r)
  PROVE  ScormInv'
<1> DEFINE p == player[r.l]
           ok == IF r.mine > p.ok THEN r.mine ELSE p.ok
           failed == IF p.failed.mine <= r.mine THEN NoFailure ELSE p.failed
           n == [p EXCEPT !.ok = ok, !.failed = failed]
<1>1. r.at = "done" /\ wire' = wire \ {r} /\ UNCHANGED recordRow
  BY DEF Hears
<1>2. CASE r.heard
  <2>1. UNCHANGED <<player, recordRow>>
    BY <1>1, <1>2 DEF Hears
  <2> QED
    BY <1>1, <1>2, <2>1, HearsLateInv
<1>3. CASE ~r.heard
  <2>1. player' = [player EXCEPT ![r.l] = n]
    BY <1>3 DEF Hears
  <2>2. /\ r.l \in Launches /\ p \in LaunchRec /\ p.mine \in Nat /\ p.ok \in Nat /\ r.mine \in Nat
        /\ p.failed \in [mine : Nat, seq : Nat] /\ p.failed.mine \in Nat
        /\ p.overtook \in BOOLEAN
        /\ FetchFits(r) /\ LaunchFits(r.l)
    BY ScormHas
  <2>3. NoFailure \in [mine : Nat, seq : Nat] /\ NoFailure.mine = 0
    BY DEF NoFailure
  <2>4. /\ ok \in Nat /\ (ok = p.ok \/ ok = r.mine)
        /\ failed \in [mine : Nat, seq : Nat] /\ (failed = NoFailure \/ failed = p.failed)
    BY <2>2, <2>3
  <2>5. p.failed.mine = p.mine => failed.mine = p.mine
    <3>1. r.mine <= p.mine /\ r.mine # p.failed.mine
      BY <1>3, <2>2 DEF FetchFits
    <3> QED
      BY <2>2, <3>1
  <2>6. r.mine # p.mine \/ <<r.l, Len(p.sent)>> \in handled \/ p.overtook
    BY <1>1, <2>2 DEF FetchFits
  <2> HIDE DEF ok, failed
  <2>7. /\ n \in LaunchRec /\ n.ok = ok /\ n.failed = failed /\ n.phase = p.phase
        /\ n.sent = p.sent /\ n.mine = p.mine /\ n.overtook = p.overtook
    BY <2>2, <2>4 DEF LaunchRec
  <2> HIDE DEF n
  <2>8. /\ n.phase = player[r.l].phase /\ n.sent = player[r.l].sent
        /\ n.mine = player[r.l].mine /\ n.overtook = player[r.l].overtook
        /\ n.ok = player[r.l].ok \/ n.ok = r.mine
        /\ n.failed = NoFailure \/ n.failed = player[r.l].failed
             \/ n.failed = [mine |-> r.mine, seq |-> r.seq]
        /\ player[r.l].failed.mine = n.mine => n.failed.mine = n.mine
    BY <2>4, <2>5, <2>7
  <2>9. r.mine # n.mine \/ n.failed.mine = n.mine
           \/ <<r.l, Len(n.sent)>> \in handled \/ n.overtook \/ n.sent = <<>>
    BY <2>6, <2>7
  <2>10. /\ wire' \subseteq (wire \ {r}) \cup {[r EXCEPT !.heard = TRUE]}
         /\ wire \ {r} \subseteq wire'
    BY <1>1
  <2> HIDE DEF p
  <2> QED
    BY <1>1, <1>3, <2>1, <2>7, <2>8, <2>9, <2>10, HearInv
<1> QED
  BY <1>2, <1>3

\* A player gives up on a request, or learns that it failed.
LEMMA FetchGivesUpInv ==
  ASSUME ScormInv, NEW r \in wire, FetchGivesUp(r)
  PROVE  ScormInv'
<1> DEFINE p == player[r.l]
           failed == IF IsLost(p, r) THEN [mine |-> r.mine, seq |-> r.seq] ELSE p.failed
           n == [p EXCEPT !.failed = failed]
<1>1. /\ ~r.heard /\ UNCHANGED recordRow
      /\ wire' = (wire \ {r}) \cup {[r EXCEPT !.heard = TRUE]}
      /\ IF IsLost(p, r)
           THEN player' = [player EXCEPT
                  ![r.l] = [p EXCEPT !.failed = [mine |-> r.mine, seq |-> r.seq]]]
           ELSE UNCHANGED player
  BY DEF FetchGivesUp
<1>2. /\ r.l \in Launches /\ p \in LaunchRec /\ p.mine \in Nat /\ p.ok \in Nat
      /\ r.mine \in Nat /\ r.seq \in Nat
      /\ p.failed \in [mine : Nat, seq : Nat] /\ p.failed.mine \in Nat
      /\ FetchFits(r) /\ LaunchFits(r.l) /\ player \in [Launches -> LaunchRec]
  BY ScormHas DEF ScormInv
<1>3. /\ failed \in [mine : Nat, seq : Nat]
      /\ failed = p.failed \/ failed = [mine |-> r.mine, seq |-> r.seq]
  BY <1>2
<1>4. r.mine = p.mine \/ p.failed.mine = p.mine => failed.mine = p.mine
  <2>1. /\ r.mine >= 1 /\ r.mine <= p.mine /\ r.mine # p.ok /\ r.mine # p.failed.mine
        /\ p.ok <= p.mine /\ p.failed.mine <= p.mine
    BY <1>1, <1>2 DEF FetchFits, LaunchFits
  <2> QED
    BY <1>2, <2>1 DEF IsLost
<1>5. player' = [player EXCEPT ![r.l] = n]
  <2>1. CASE IsLost(p, r)
    BY <1>1, <2>1
  <2>2. CASE ~IsLost(p, r)
    <3>1. failed = p.failed /\ player' = player
      BY <1>1, <2>2
    <3> HIDE DEF failed
    <3>2. n = p
      BY <1>2, <3>1 DEF LaunchRec
    <3> HIDE DEF n
    <3> QED
      BY <1>2, <3>1, <3>2
  <2> QED
    BY <2>1, <2>2
<1> HIDE DEF failed
<1>6. /\ n \in LaunchRec /\ n.ok = p.ok /\ n.failed = failed /\ n.phase = p.phase
      /\ n.sent = p.sent /\ n.mine = p.mine /\ n.overtook = p.overtook
  BY <1>2, <1>3 DEF LaunchRec
<1> HIDE DEF n
<1>7. /\ n.phase = player[r.l].phase /\ n.sent = player[r.l].sent
      /\ n.mine = player[r.l].mine /\ n.overtook = player[r.l].overtook
      /\ n.ok = player[r.l].ok \/ n.ok = r.mine
      /\ n.failed = NoFailure \/ n.failed = player[r.l].failed
           \/ n.failed = [mine |-> r.mine, seq |-> r.seq]
      /\ player[r.l].failed.mine = n.mine => n.failed.mine = n.mine
      /\ r.mine # n.mine \/ n.failed.mine = n.mine
  BY <1>3, <1>4, <1>6
<1>8. /\ wire' \subseteq (wire \ {r}) \cup {[r EXCEPT !.heard = TRUE]}
      /\ wire \ {r} \subseteq wire'
  BY <1>1
<1> HIDE DEF p
<1> QED
  BY <1>1, <1>5, <1>6, <1>7, <1>8, HearInv

\* Every step keeps the invariant.
LEMMA ScormStepInv == ScormInv /\ [ScormNext]_scormVars => ScormInv'
<1> SUFFICES ASSUME ScormInv, [ScormNext]_scormVars PROVE ScormInv'
  OBVIOUS
<1>1. ASSUME NEW l \in Launches, Initialize(l) PROVE ScormInv'
  BY <1>1, InitializeInv
<1>2. ASSUME NEW l \in Launches, ResendOlder(l) PROVE ScormInv'
  BY <1>2, ResendOlderInv
<1>3. ASSUME NEW l \in Launches, NEW status \in LessonStatuses, NEW final \in BOOLEAN,
             Commits(l, status, final)
      PROVE  ScormInv'
  BY <1>3, NumberInv
<1>4. ASSUME NEW r \in wire, RecordUnderLock(r) \/ RecordFirst(r) PROVE ScormInv'
  BY <1>4, RecordInv
<1>5. ASSUME NEW r \in wire, FindNoRow(r) PROVE ScormInv'
  BY <1>5, FindNoRowInv
<1>6. ASSUME NEW r \in wire, LoseFetch(r) PROVE ScormInv'
  BY <1>6, LoseFetchInv
<1>7. ASSUME NEW r \in wire, Hears(r) PROVE ScormInv'
  BY <1>7, HearsInv
<1>8. ASSUME NEW r \in wire, FetchGivesUp(r) PROVE ScormInv'
  BY <1>8, FetchGivesUpInv
<1>9. CASE UNCHANGED scormVars
  <2>1. /\ player' = player /\ wire' = wire /\ attempt' = attempt /\ handled' = handled
        /\ finishes' = finishes /\ interleaved' = interleaved /\ raced' = raced
    BY <1>9 DEF scormVars
  <2>2. UNCHANGED recordRow
    BY <2>1 DEF recordRow
  <2>3. /\ RowFits' /\ LastWordCounts' /\ TimeCountsOnce' /\ FinishAuditedOnce'
        /\ \A l \in Launches : FinishFits(l)'
    BY <2>1, <2>2, RowStays
  <2>4. /\ \A l \in Launches : LaunchFits(l)' = LaunchFits(l)
        /\ \A r \in wire : FetchFits(r)' = FetchFits(r)
        /\ FetchesApart' = FetchesApart
    BY <2>1 DEF LaunchFits, FetchFits, FetchesApart
  <2> QED
    BY <2>1, <2>3, <2>4 DEF ScormInv
<1> QED
  BY <1>1, <1>2, <1>3, <1>4, <1>5, <1>6, <1>7, <1>8, <1>9 DEF ScormNext

\* The invariant holds of every state.
THEOREM ScormInvariance == ScormSpec => []ScormInv
<1>1. ScormInit => ScormInv
  BY ScormInitInv
<1>2. ScormInv /\ [ScormNext]_scormVars => ScormInv'
  BY ScormStepInv
<1> QED
  BY <1>1, <1>2, PTL DEF ScormSpec

\* Its values are those declared, and a player that shows no warning and waits
\* for nothing has had its newest commit recorded.
LEMMA ScormShows ==
  ASSUME ScormInv
  PROVE  ScormTypeOK /\ LastWordCounts /\ TimeCountsOnce /\ FinishAuditedOnce /\ NoSilentLoss
<1>1. ASSUME NEW l \in Launches
      PROVE  /\ player[l].phase \in {"idle", "running", "finished"}
             /\ player[l].sent \in Seq(LessonStatuses)
             /\ player[l].ok \in 0..player[l].mine
             /\ player[l].overtook \in BOOLEAN
             /\ player[l].failed \in [mine : 0..player[l].mine, seq : 0..Len(player[l].sent)]
  <2>1. /\ player[l].phase \in {"idle", "running", "finished"}
        /\ player[l].sent \in Seq(LessonStatuses) /\ Len(player[l].sent) \in Nat
        /\ player[l].mine \in Nat /\ player[l].ok \in Nat
        /\ player[l].failed \in [mine : Nat, seq : Nat]
        /\ player[l].overtook \in BOOLEAN /\ LaunchFits(l)
    BY ScormHas
  <2>2. /\ player[l].ok <= player[l].mine /\ player[l].failed.mine <= player[l].mine
        /\ player[l].failed.seq <= Len(player[l].sent)
    BY <2>1 DEF LaunchFits
  <2> QED
    BY <2>1, <2>2
<1>2. ASSUME NEW r \in wire
      PROVE  /\ r.l \in Launches
             /\ r.seq \in 1..Len(player[r.l].sent)
             /\ r.mine \in 1..player[r.l].mine
             /\ r.at \in {"sent", "first", "done"} /\ r.heard \in BOOLEAN
  <2>1. /\ r.l \in Launches /\ r.seq \in Nat /\ r.mine \in Nat /\ FetchFits(r)
        /\ r.at \in {"sent", "first", "done"} /\ r.heard \in BOOLEAN
    BY ScormHas
  <2>2. Len(player[r.l].sent) \in Nat /\ player[r.l].mine \in Nat
    BY <2>1, ScormHas
  <2> QED
    BY <2>1, <2>2 DEF FetchFits
<1>3. /\ attempt.status \in DOMAIN Rank
      /\ attempt.launch \in Launches \cup {NoLaunch}
  BY ScormHas, RankIs
<1>4. ScormTypeOK
  BY <1>1, <1>2, <1>3 DEF ScormTypeOK, ScormInv
<1>5. NoSilentLoss
  <2> SUFFICES ASSUME NEW l \in Launches, player[l].sent # <<>>,
                      player[l].failed = NoFailure, \A r \in wire : r.l = l => r.heard,
                      ~player[l].overtook
               PROVE  <<l, Len(player[l].sent)>> \in handled
    BY DEF NoSilentLoss
  <2>1. /\ LaunchFits(l) /\ player[l].sent \in Seq(LessonStatuses)
        /\ Len(player[l].sent) \in Nat /\ player[l].mine \in Nat
    BY ScormHas
  <2>2. Len(player[l].sent) # 0
    BY <2>1
  <2>3. player[l].failed.mine # player[l].mine
    BY <2>1, <2>2 DEF LaunchFits, NoFailure
  <2> QED
    BY <2>1, <2>3 DEF LaunchFits
<1> QED
  BY <1>4, <1>5 DEF ScormInv

\* No step makes the record worse, or forgets that it was finished.
LEMMA ScormStepNeverWorse ==
  ASSUME ScormInv, [ScormNext]_scormVars
  PROVE  /\ Rank[attempt'.status] >= Rank[attempt.status]
         /\ attempt.completed => attempt'.completed
         /\ attempt'.launch = attempt.launch => attempt'.seq >= attempt.seq
<1>1. CASE attempt' = attempt
  <2>1. Rank[attempt.status] \in Nat /\ attempt.seq \in Nat
    BY ScormHas, RankIs
  <2> QED
    BY <1>1, <2>1
<1>2. ASSUME NEW r \in wire, NEW newer \in BOOLEAN, WriteCommit(r, newer)
      PROVE  /\ Rank[attempt'.status] >= Rank[attempt.status]
             /\ attempt.completed => attempt'.completed
             /\ attempt'.launch = attempt.launch => attempt'.seq >= attempt.seq
  <2>1. attempt'.seq = IF Newer(r) THEN r.seq ELSE attempt.seq
    BY <1>2, WriteIs
  <2>2. attempt'.launch = r.l /\ attempt.seq \in Nat /\ r.seq \in Nat
    BY <1>2, WriteIs, ScormHas
  <2>3. attempt'.launch = attempt.launch => attempt'.seq >= attempt.seq
    BY <2>1, <2>2 DEF Newer
  <2> QED
    BY <1>2, <2>3, WriteIs
<1>3. ASSUME NEW r \in wire, RecordUnderLock(r) \/ RecordFirst(r)
      PROVE  \E newer \in BOOLEAN : WriteCommit(r, newer)
  BY <1>3 DEF RecordUnderLock, RecordFirst, Newer
<1>4. \/ attempt' = attempt
      \/ \E r \in wire : RecordUnderLock(r) \/ RecordFirst(r)
  BY DEF ScormNext, scormVars, recordRow, Initialize, ResendOlder, Commits,
         FindNoRow, LoseFetch, Hears, FetchGivesUp
<1> QED
  BY <1>1, <1>2, <1>3, <1>4

\* Whatever commits are lost, doubled, reordered or sent from two launches, the
\* record is the best the server heard, and the learner is told of what it did
\* not (ScormAttempt).
THEOREM ScormKeepsPromises == ScormSpec => ScormPromises
<1> DEFINE Parts == ScormTypeOK /\ LastWordCounts /\ TimeCountsOnce
                      /\ FinishAuditedOnce /\ NoSilentLoss
           Keeps == /\ Rank[attempt'.status] >= Rank[attempt.status]
                    /\ attempt.completed => attempt'.completed
                    /\ attempt'.launch = attempt.launch => attempt'.seq >= attempt.seq
<1>1. ScormInv => Parts
  BY ScormShows
<1>2. ScormInv /\ [ScormNext]_scormVars => [Keeps]_scormVars
  BY ScormStepNeverWorse
<1> HIDE DEF Parts, Keeps
<1>3. ScormSpec => []Parts
  BY <1>1, ScormInvariance, PTL
<1>4. ScormSpec => [][Keeps]_scormVars
  BY <1>2, ScormInvariance, PTL DEF ScormSpec
<1> QED
  BY <1>3, <1>4, PTL DEF ScormPromises, NeverWorse, Parts, Keeps
=============================================================================
