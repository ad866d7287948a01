---------------------------- MODULE MCJobQueue ----------------------------
(***************************************************************************)
(* Instances of JobQueue for TLC.  A key is served by every loop unless a  *)
(* configuration separates the queues.                                     *)
(***************************************************************************)
EXTENDS JobQueue, TLC

CONSTANTS c1, c2, p1, p2, k1, k2, j1, j2

\* Two replicas (the overlap of a deploy), one loop each.
ReplicaLoops == (c1 :> p1) @@ (c2 :> p2)

\* One process with two loops (WORKER_CONCURRENCY = 2, or two queues).
SingleProcess == (c1 :> p1) @@ (c2 :> p1)

ServesAll == [c \in {c1, c2} |-> {k1, k2}]

\* max_attempts differs by producer: 3 for a transcode, 2 for the retention
\* sweep, 4 for a fetch, 1 for a reply.  Here a key that is retried and one that
\* is not.
MixedAttempts == (k1 :> 2) @@ (k2 :> 1)
=============================================================================
