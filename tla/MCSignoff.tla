----------------------------- MODULE MCSignoff -----------------------------
(***************************************************************************)
(* Instances of ObservationSignoff for TLC.                                *)
(***************************************************************************)
EXTENDS ObservationSignoff, TLC

CONSTANTS a1, a2, a3, r1, r2, r3

\* Nothing tells apart people or ids.
Alike == Permutations({a1, a2, a3}) \cup Permutations({r1, r2, r3})
=============================================================================
