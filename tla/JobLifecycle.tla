---------------------------- MODULE JobLifecycle ----------------------------
(***************************************************************************)
(* What the queue promises its producers and its handlers, with no         *)
(* workers, leases, retries of writes or shutdowns in sight.               *)
(*                                                                         *)
(* A job is submitted under a key that no unsettled job carries, is held   *)
(* by one worker at a time, at most Budget[key] times not counting the     *)
(* refunded ones, and is settled once: done or dead, until forgotten.      *)
(* JobQueue implements it, `life` read off the table's rows.               *)
(***************************************************************************)
EXTENDS Integers

CONSTANTS Jobs, Keys, Workers, Budget, NoKey, NoWorker

VARIABLE life

Unsettled(x) == x.phase \in {"waiting", "held"}

Entry(phase, key, holder, taken) ==
  [phase |-> phase, key |-> key, holder |-> holder, taken |-> taken]

Unknown == Entry("none", NoKey, NoWorker, 0)

Init == life = [j \in Jobs |-> Unknown]

\* Each move relates a job's entry before (x) to its entry after (y).
Submitted(x, y) ==
  /\ x = Unknown
  /\ y.key \in Keys
  /\ y = Entry("waiting", y.key, NoWorker, 0)

Taken(x, y) ==
  /\ x.phase = "waiting" /\ x.taken < Budget[x.key]
  /\ y.holder \in Workers
  /\ y = Entry("held", x.key, y.holder, x.taken + 1)

\* A failed run with attempts left, or an interrupted one, which is refunded.
PutBack(x, y) ==
  /\ x.phase = "held"
  /\ \/ x.taken < Budget[x.key] /\ y.taken = x.taken
     \/ y.taken = x.taken - 1
  /\ y = Entry("waiting", x.key, NoWorker, y.taken)

Settled(x, y) ==
  /\ x.phase = "held"
  /\ y.phase \in {"done", "dead"}
  /\ y = Entry(y.phase, x.key, NoWorker, x.taken)

\* Pruned when old, or withdrawn by an operator, who may withdraw a waiting job.
Forgotten(x, y) == x.phase \in {"done", "dead", "waiting"} /\ y = Unknown

Move(x, y) ==
  Submitted(x, y) \/ Taken(x, y) \/ PutBack(x, y) \/ Settled(x, y) \/ Forgotten(x, y)

KeysDistinct(l) ==
  \A i, j \in Jobs :
    (Unsettled(l[i]) /\ Unsettled(l[j]) /\ l[i].key = l[j].key) => i = j

\* Several jobs may move at once (the reaper), never two onto one key.
Next ==
  /\ \A j \in Jobs : life'[j] = life[j] \/ Move(life[j], life'[j])
  /\ KeysDistinct(life')

Spec == Init /\ [][Next]_life
=============================================================================
