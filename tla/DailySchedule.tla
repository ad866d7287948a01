--------------------------- MODULE DailySchedule ---------------------------
(***************************************************************************)
(* The daily sweep's schedule (apps/worker index.ts scheduleDailyWork,     *)
(* packages/db queue.ts enqueue with `once`, pruneFinished): every worker  *)
(* replica enqueues the day's job each hour and after every restart, under *)
(* the day's key, and finished jobs are pruned after a while.              *)
(*                                                                         *)
(* The INSERT looks for a job of the key as of its beginning, and meets    *)
(* the index over live jobs at its end: two steps.  The hours of a day are *)
(* as many as HoursADay.  The replicas' clocks agree with the database's.  *)
(***************************************************************************)
EXTENDS Naturals

CONSTANTS Replicas,
          Days,          \* how many days
          HoursADay,     \* 24
          RetentionHour, \* 3
          KeptHours      \* 24: a succeeded job is pruned after it

ASSUME ScheduleAssumption ==
  /\ {Days, HoursADay, RetentionHour, KeptHours} \subseteq Nat
  /\ Days > 0 /\ RetentionHour < HoursADay
  /\ KeptHours >= HoursADay - RetentionHour

VARIABLES hour,     \* since the first midnight
          sweep,    \* each day's job: its status, and when it ended
          replica,  \* each worker: its timer and its INSERT under way
          enqueued, \* how many jobs each day's key was given
          slept,    \* days with an hour, from RetentionHour on, when no replica
                    \* tried, or a try failed
          straddled \* days one of whose INSERTs lasted through a whole job

scheduleVars == <<hour, sweep, replica, enqueued, slept, straddled>>
-----------------------------------------------------------------------------
Dates == 0..Days - 1
Today == hour \div HoursADay
Due   == hour % HoursADay >= RetentionHour

NoSweep == [is |-> "none", ended |-> 0]
Down    == [up |-> FALSE, due |-> FALSE, inserts |-> FALSE, for |-> 0, sees |-> FALSE]

ScheduleInit ==
  /\ hour = 0
  /\ sweep = [d \in Dates |-> NoSweep]
  /\ replica = [w \in Replicas |-> Down]
  /\ enqueued = [d \in Dates |-> 0]
  /\ slept = {} /\ straddled = {}

Alive(d) == sweep[d].is \in {"queued", "running"}
-----------------------------------------------------------------------------
\* main(): scheduleDailyWork() at once, then each hour.
StartReplica(w) ==
  /\ ~replica[w].up
  /\ replica' = [replica EXCEPT ![w] = [Down EXCEPT !.up = TRUE, !.due = TRUE]]
  /\ UNCHANGED <<hour, sweep, enqueued, slept, straddled>>

\* A bug for TLC to find: the timer left to run.
StopsListening(w) ==
  /\ replica[w].up
  /\ replica' = [replica EXCEPT ![w].up = FALSE]
  /\ UNCHANGED <<hour, sweep, enqueued, slept, straddled>>

\* Shut down, or killed.
StopReplica(w) ==
  /\ replica[w].up
  /\ replica' = [replica EXCEPT ![w] = Down]
  /\ UNCHANGED <<hour, sweep, enqueued, slept, straddled>>

\* `once`: NOT EXISTS a job of the key, whatever became of it.
Exists(d) == sweep[d].is # "none"

\* A bug for TLC to find: the date checked and not the hour.
AnyHour == TRUE

\* RETENTION_HOUR_UTC has come.
HourHasCome == Due

\* scheduleDailyWork() to the beginning of its INSERT.
LookForSweep(w) ==
  /\ replica[w].due /\ ~replica[w].inserts
  /\ replica' = IF HourHasCome
       THEN [replica EXCEPT ![w] = [@ EXCEPT !.inserts = TRUE, !.for = Today,
                                             !.sees = Exists(Today)]]
       ELSE [replica EXCEPT ![w].due = FALSE]
  /\ UNCHANGED <<hour, sweep, enqueued, slept, straddled>>

\* The INSERT's end: ON CONFLICT with a live job, nothing.
InsertSweep(w) ==
  LET d == replica[w].for
  IN /\ replica[w].inserts
     /\ IF replica[w].sees \/ Alive(d)
          THEN UNCHANGED <<sweep, enqueued, straddled>>
          ELSE /\ sweep' = [sweep EXCEPT ![d] = [is |-> "queued", ended |-> 0]]
               /\ enqueued' = [enqueued EXCEPT ![d] = @ + 1]
               /\ straddled' = IF sweep[d].is # "none" THEN straddled \cup {d}
                               ELSE straddled
     /\ replica' = [replica EXCEPT ![w] = [@ EXCEPT !.inserts = FALSE, !.due = FALSE]]
     /\ UNCHANGED <<hour, slept>>

\* The INSERT fails: logged, and left to the next hour.
InsertFails(w) ==
  /\ replica[w].inserts
  /\ replica' = [replica EXCEPT ![w] = [@ EXCEPT !.inserts = FALSE, !.due = FALSE]]
  /\ slept' = slept \cup {replica[w].for}
  /\ UNCHANGED <<hour, sweep, enqueued, straddled>>

\* The queue: claimed, and ended for good or for bad.
ClaimSweep(d) ==
  /\ sweep[d].is = "queued"
  /\ sweep' = [sweep EXCEPT ![d].is = "running"]
  /\ UNCHANGED <<hour, replica, enqueued, slept, straddled>>

EndSweep(d, as) ==
  /\ sweep[d].is = "running" /\ as \in {"succeeded", "dead"}
  /\ sweep' = [sweep EXCEPT ![d] = [is |-> as, ended |-> hour]]
  /\ UNCHANGED <<hour, replica, enqueued, slept, straddled>>

\* A bug for TLC to find: a finished job pruned at once.
AnyAge(d) == TRUE

OldEnough(d) == hour > sweep[d].ended + KeptHours

\* pruneFinished(): a dead job outlives the days modelled.
PruneSweep(d) ==
  /\ sweep[d].is = "succeeded" /\ OldEnough(d)
  /\ sweep' = [sweep EXCEPT ![d] = NoSweep]
  /\ UNCHANGED <<hour, replica, enqueued, slept, straddled>>

\* A bug for TLC to find: the work scheduled at the start alone.
NoTimer(w) == FALSE

\* setInterval(): an hour later, again.
TimerFires(w) == replica[w].up

\* An hour passes: every replica that is up has had its tick, and no statement
\* lasts past midnight.
HourPasses ==
  /\ hour + 1 < Days * HoursADay
  /\ \A w \in Replicas : ~replica[w].due /\ ~replica[w].inserts
  /\ hour' = hour + 1
  /\ replica' = [w \in Replicas |-> [replica[w] EXCEPT !.due = TimerFires(w)]]
  /\ slept' = IF Due /\ \A w \in Replicas : ~replica[w].up THEN slept \cup {Today}
              ELSE slept
  /\ UNCHANGED <<sweep, enqueued, straddled>>

ScheduleNext ==
  \/ \E w \in Replicas :
       \/ StartReplica(w) \/ StopReplica(w)
       \/ LookForSweep(w) \/ InsertSweep(w) \/ InsertFails(w)
  \/ \E d \in Dates : \/ ClaimSweep(d) \/ PruneSweep(d)
                      \/ \E as \in {"succeeded", "dead"} : EndSweep(d, as)
  \/ HourPasses

ScheduleSpec == ScheduleInit /\ [][ScheduleNext]_scheduleVars
-----------------------------------------------------------------------------
\* The values of the clock, the jobs and the replicas, which are at rest when
\* they are down.
ScheduleTypeOK ==
  /\ hour \in 0..(Days * HoursADay - 1)
  /\ sweep \in [Dates -> [is : {"none", "queued", "running", "succeeded", "dead"},
                          ended : Nat]]
  /\ replica \in [Replicas -> [up : BOOLEAN, due : BOOLEAN, inserts : BOOLEAN,
                               for : Dates, sees : BOOLEAN]]
  /\ \A w \in Replicas : replica[w].due \/ replica[w].inserts => replica[w].up
  /\ enqueued \in [Dates -> Nat]
  /\ slept \subseteq Dates /\ straddled \subseteq Dates

\* A day's sweep is enqueued once: not again by the ticks and restarts after it
\* finished, nor when its job has been pruned; unless one INSERT outlasted the
\* whole of another's job.
OncePerDay == \A d \in Dates : enqueued[d] <= 1 \/ d \in straddled

\* No sweep runs before its day's hour: not at midnight, by a replica restarted
\* then, nor ahead of its day.
NotBeforeItsHour ==
  \A d \in Dates : enqueued[d] > 0 => hour >= d * HoursADay + RetentionHour

\* A day that is over had its sweep, if from the hour on a replica was up at
\* some time of every hour and no try failed.
EveryDaySwept ==
  \A d \in Dates : (d < Today /\ enqueued[d] = 0) => d \in slept

\* scheduleDailyWork() on all replicas: each day's sweep once, not early, and
\* in the end.
SchedulePromises == ScheduleTypeOK /\ OncePerDay /\ NotBeforeItsHour /\ EveryDaySwept
=============================================================================
