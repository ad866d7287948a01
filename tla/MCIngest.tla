------------------------------ MODULE MCIngest ------------------------------
(***************************************************************************)
(* Instances of WhatsAppIngest for TLC.                                    *)
(***************************************************************************)
EXTENDS WhatsAppIngest, TLC

CONSTANTS c1, c2, p1, p2, m1, m2, j1, j2, r1, r2, o1

\* Two replicas (the overlap of a deploy), one fetch loop each.
ReplicaLoops == (c1 :> p1) @@ (c2 :> p2)
BothServe    == [c \in {c1, c2} |-> Keys]

\* One worker, replaced by its own restart.
OneLoop   == c1 :> p1
OneServes == c1 :> Keys

TwoAttempts == [m \in Keys |-> 2]
=============================================================================
