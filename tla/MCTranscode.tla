---------------------------- MODULE MCTranscode ----------------------------
(***************************************************************************)
(* Instances of TranscodePipeline for TLC.                                 *)
(***************************************************************************)
EXTENDS TranscodePipeline, TLC

CONSTANTS c1, c2, p1, p2, s1, j1, j2, a1, a2

\* Two replicas (the overlap of a deploy), one transcode loop each.
ReplicaLoops == (c1 :> p1) @@ (c2 :> p2)
BothServe    == [c \in {c1, c2} |-> {s1}]

\* One worker, replaced by its own restart.
OneLoop   == c1 :> p1
OneServes == c1 :> {s1}

TwoAttempts == s1 :> 2
=============================================================================
