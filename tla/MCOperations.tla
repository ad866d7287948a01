---------------------------- MODULE MCOperations ----------------------------
(***************************************************************************)
(* Instances, for TLC, of the ingest of messages by two replicas, and of   *)
(* what stands beside it: the daily schedule and the data tables of the    *)
(* administration.  The parts do not interact: a behaviour is one of them, *)
(* chosen at the start.                                                    *)
(***************************************************************************)
EXTENDS MCIngest, DailySchedule, DataGrid

CONSTANTS s1, s2, x1, x2

VARIABLE part
-----------------------------------------------------------------------------
Parts == {"ingest", "schedule", "grid"}

OperationsInit ==
  /\ part \in Parts
  /\ IngestInit /\ ScheduleInit /\ GridInit
  /\ part # "grid" => place = NoRows

\* The part moves; the others stay as they were at the start.
OperationsNext ==
  /\ UNCHANGED part
  /\ IF part = "ingest" THEN IngestNext ELSE UNCHANGED ivars
  /\ IF part = "schedule" THEN ScheduleNext ELSE UNCHANGED scheduleVars
  /\ IF part = "grid" THEN GridNext ELSE UNCHANGED gridVars

OperationsSpec ==
  /\ OperationsInit
  /\ [][OperationsNext]_<<part, ivars, scheduleVars, gridVars>>
=============================================================================
