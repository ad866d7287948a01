----------------------------- MODULE Deployment -----------------------------
(***************************************************************************)
(* A host's releases (scripts/deploy.sh, scripts/rollback.sh): the image   *)
(* tags :current, :previous and :pre-deploy of each service, and what the  *)
(* containers run.  A run of either script is a sequence of Docker         *)
(* commands; any of them may fail, and a run may be interrupted between    *)
(* two of them.  One run at a time: the scripts are an operator's.         *)
(*                                                                         *)
(* An image is known by the build that made it; an untagged one is lost.   *)
(* The image that migrates is kept and put back beside the two that run,   *)
(* and its tag is compared with nothing: it is left out.                   *)
(***************************************************************************)
EXTENDS Naturals

CONSTANTS MaxBuilds,    \* bound: releases made
          MaxInterrupts \* bound

ASSUME DeploymentAssumption == MaxBuilds \in Nat /\ MaxInterrupts \in Nat

VARIABLES current, previous, saved, \* the image each tag names, 0 for none
          serving,   \* the image of each running container
          run,       \* the script that runs
          builds,    \* releases made so far
          released,  \* releases whose migrations were applied
          interrupts,
          torn,      \* pairs of images an interruption left behind a tag
          good,      \* the release last found healthy, or rolled back to
          risked,    \* a deploy began over another release than that
          rolled     \* :current was last moved by a rollback

deployVars == <<current, previous, saved, serving, run, builds, released, interrupts,
                torn, good, risked, rolled>>
history == <<builds, released, interrupts, torn, good, risked, rolled>>
-----------------------------------------------------------------------------
Services == {"app", "worker"}

\* The scripts' loops take the services in this order.
Rank == [app |-> 1, worker |-> 2]

NoRelease == [s \in Services |-> 0]

\* A deploy's phases, then a rollback's; a phase goes through the services left.
NoRun == [at |-> "rest", left |-> {}, roll |-> {}, apart |-> FALSE]

Enter(at, left) == [run EXCEPT !.at = at, !.left = left]

Turn(at, s) ==
  /\ run.at = at /\ s \in run.left
  /\ \A o \in run.left : Rank[s] <= Rank[o]

PastService(s, then) ==
  IF run.left = {s} THEN then ELSE [run EXCEPT !.left = @ \ {s}]

DeployInit ==
  /\ current = NoRelease /\ previous = NoRelease /\ saved = NoRelease
  /\ serving = NoRelease /\ run = NoRun
  /\ builds = 0 /\ released = {} /\ interrupts = 0 /\ torn = {}
  /\ good = NoRelease /\ risked = FALSE /\ rolled = FALSE
-----------------------------------------------------------------------------
(***************************************************************************)
(* deploy.sh.                                                              *)
(***************************************************************************)

\* A bug for TLC to find: the images' ids noted, and no tag put on them.
HeldNothing == saved

\* What is there gets a name of its own; where there is nothing, a name left by an
\* earlier run is taken away.
HeldNow == current

\* The checks before anything is built have passed; of the same code or of new.
\* An interruption among the tags leaves names the next run replaces: one step.
BeginDeploy(n) ==
  /\ run = NoRun /\ n <= MaxBuilds
  /\ saved' = HeldNow
  /\ run' = Enter("build", Services)
  /\ builds' = n
  /\ risked' = (risked \/ current # good)
  /\ UNCHANGED <<current, previous, serving, released, interrupts, torn, good, rolled>>

Tagged(s) == {current[s], previous[s], saved[s]} \ {0}

\* A service's image is built: a new one, or one that is there already.
Build(s, image) ==
  /\ run.at = "build" /\ s \in run.left /\ image \in Tagged(s) \cup {builds}
  /\ current' = [current EXCEPT ![s] = image]
  /\ run' = PastService(s, Enter("migrate", {}))
  /\ UNCHANGED <<previous, saved, serving, history>>

\* A bug for TLC to find: set -e ends the script where a build fails.
Bare == NoRun

Recovery == Enter("restore", Services)

BuildFails ==
  /\ run.at = "build" /\ run' = Recovery
  /\ UNCHANGED <<current, previous, saved, serving, history>>

MigrationsFail ==
  /\ run.at = "migrate" /\ run' = Recovery
  /\ UNCHANGED <<current, previous, saved, serving, history>>

Migrate ==
  /\ run.at = "migrate" /\ run' = Enter("tag", Services)
  /\ released' = released \cup {current}
  /\ UNCHANGED <<current, previous, saved, serving, builds, interrupts, torn, good, risked,
                 rolled>>

\* restore_current(): two commands for each service, of which the second takes
\* away a name the next run would put elsewhere anyway.
Restore(s) ==
  /\ Turn("restore", s)
  /\ current' = [current EXCEPT ![s] = saved[s]]
  /\ saved' = [saved EXCEPT ![s] = 0]
  /\ run' = PastService(s, NoRun)
  /\ UNCHANGED <<previous, serving, history>>

\* A bug for TLC to find: every run moves :previous.
ChangedAlways(s) == TRUE

\* A bug for TLC to find: only the service whose image changed moves.
ChangedItself(s) == saved[s] # current[s]

\* release_changed: a release is a unit.
Changed(s) == \E o \in Services : saved[o] \notin {0, current[o]}

TagRelease(s) ==
  /\ Turn("tag", s)
  /\ previous' = IF saved[s] # 0 /\ Changed(s) THEN [previous EXCEPT ![s] = saved[s]]
                 ELSE previous
  /\ rolled' = (rolled /\ ~Changed(s))
  /\ run' = PastService(s, Enter("drop", {}))
  /\ UNCHANGED <<current, saved, serving, builds, released, interrupts, torn, good, risked>>

DropHeld ==
  /\ run.at = "drop" /\ run' = Enter("up", Services)
  /\ saved' = NoRelease
  /\ UNCHANGED <<current, previous, serving, history>>

\* docker compose up replaces the containers whose image changed.
StartContainer(s) ==
  /\ run.at = "up" /\ s \in run.left
  /\ serving' = [serving EXCEPT ![s] = current[s]]
  /\ run' = PastService(s, Enter("health", {}))
  /\ UNCHANGED <<current, previous, saved, history>>

\* up fails, the site is not healthy in time.
NotHealthy ==
  /\ run.at \in {"up", "health"} /\ run' = NoRun
  /\ UNCHANGED <<current, previous, saved, serving, history>>

Healthy ==
  /\ run.at = "health" /\ run' = NoRun
  /\ good' = current /\ risked' = FALSE
  /\ UNCHANGED <<current, previous, saved, serving, builds, released, interrupts, torn, rolled>>
-----------------------------------------------------------------------------
(***************************************************************************)
(* rollback.sh.                                                            *)
(***************************************************************************)

\* The services the last release changed: :previous is another image than
\* :current.
ToRoll == {s \in Services : previous[s] # current[s]}

BeginRollback ==
  /\ run = NoRun /\ ToRoll # {} /\ \A s \in Services : previous[s] # 0
  /\ run' = [at |-> "retag", left |-> ToRoll, roll |-> ToRoll,
             apart |-> current # serving]
  /\ good' = previous /\ risked' = FALSE
  /\ UNCHANGED <<current, previous, saved, serving, builds, released, interrupts, torn, rolled>>

Retag(s) ==
  /\ Turn("retag", s)
  /\ current' = [current EXCEPT ![s] = previous[s]]
  /\ rolled' = TRUE
  /\ run' = PastService(s, Enter("restart", run.roll))
  /\ UNCHANGED <<previous, saved, serving, builds, released, interrupts, torn, good, risked>>

\* A bug for TLC to find: the application alone is restarted.
NotWorker(s) == s = "worker"

LeftAlone(s) == FALSE

Restart(s) ==
  /\ run.at = "restart" /\ s \in run.left
  /\ serving' = IF LeftAlone(s) THEN serving ELSE [serving EXCEPT ![s] = current[s]]
  /\ run' = PastService(s, Enter("probe", {}))
  /\ UNCHANGED <<current, previous, saved, history>>

\* The restart fails, or the verdict is in, whichever it is.
EndRollback ==
  /\ run.at \in {"restart", "probe"} /\ run' = NoRun
  /\ UNCHANGED <<current, previous, saved, serving, history>>
-----------------------------------------------------------------------------
\* A closed terminal, a reboot: containers and tags stay as they are.
Interrupt ==
  /\ run # NoRun /\ run' = NoRun
  /\ interrupts < MaxInterrupts /\ interrupts' = interrupts + 1
  /\ torn' = torn \cup ({current, previous} \ {NoRelease})
  /\ UNCHANGED <<current, previous, saved, serving, builds, released, good, risked, rolled>>

DeployNext ==
  \/ \E n \in {builds, builds + 1} \ {0} : BeginDeploy(n)
  \/ \E s \in Services :
       \/ Restore(s) \/ TagRelease(s) \/ StartContainer(s) \/ Retag(s) \/ Restart(s)
       \/ \E image \in 1..MaxBuilds : Build(s, image)
  \/ BuildFails \/ MigrationsFail \/ Migrate \/ DropHeld \/ NotHealthy \/ Healthy
  \/ BeginRollback \/ EndRollback \/ Interrupt

DeploySpec == DeployInit /\ [][DeployNext]_deployVars
-----------------------------------------------------------------------------
Releases == [Services -> 0..MaxBuilds]

\* The values of the tags, the containers and the run.
DeployTypeOK ==
  /\ {current, previous, saved, serving, good} \subseteq Releases
  /\ run \in [at : {"rest", "build", "migrate", "restore", "tag", "drop", "up",
                    "health", "retag", "restart", "probe"},
              left : SUBSET Services, roll : SUBSET Services, apart : BOOLEAN]
  /\ released \subseteq Releases /\ torn \subseteq Releases
  /\ builds \in 0..MaxBuilds /\ interrupts \in 0..MaxInterrupts
  /\ {risked, rolled} \subseteq BOOLEAN

Whole == released \cup torn \cup {NoRelease}

\* No container runs an image whose migrations were not applied, but for one an
\* interrupted deploy left behind a tag.
StartedIsMigrated ==
  \A s \in Services : \E release \in Whole : release[s] = serving[s]

\* Between runs :current names one release, migrated: whatever a failed build or
\* migration moved is put back, unless it was interrupted.
CurrentIsMigrated == run = NoRun => current \in Whole

\* The target of a rollback is one release, of every service.
TargetIsRelease == run.at # "tag" => previous \in Whole

\* There is something to go back to: the target is not the release itself, unless
\* a rollback has gone there, or an interruption left it so.
TargetDiffers ==
  (run = NoRun /\ previous # NoRelease /\ previous = current)
    => rolled \/ current \in torn

\* The release last found healthy keeps a tag, until a deploy begins over one that
\* was not.
GoodKept ==
  ~risked => \A s \in Services : good[s] \in Tagged(s) \cup {0}

\* A rollback restarts every service on the target, unless it began with :current
\* naming another release than the containers run.
RollbackRestarts ==
  [][(run.at = "restart" /\ run'.at = "probe")
       => run.apart \/ \A s \in Services : serving'[s] = previous[s]]_deployVars

\* A host can go back, whole, to a release that served, whichever command fails.
DeployPromises ==
  /\ [](DeployTypeOK /\ StartedIsMigrated /\ CurrentIsMigrated /\ TargetIsRelease
        /\ TargetDiffers /\ GoodKept)
  /\ RollbackRestarts
=============================================================================
