----------------------------- MODULE MCDevices -----------------------------
(***************************************************************************)
(* Instances, for TLC, of what a browser begins and a server finishes: a   *)
(* direct upload and its sweep, the phone's upload screen, a form's draft. *)
(* The parts do not interact: a behaviour is one of them, chosen at the    *)
(* start.                                                                  *)
(***************************************************************************)
EXTENDS DirectUpload, UploadClient, FormDrafts

CONSTANTS u1, cy1, b1, b2, w1, f1, f2, k1, k2

VARIABLE part
-----------------------------------------------------------------------------
Parts == {"upload", "client", "draft"}

DevicesInit == part \in Parts /\ Init /\ ClientInit /\ DraftInit

\* The part moves; the others stay as they were at the start.
DevicesNext ==
  /\ UNCHANGED part
  /\ IF part = "upload" THEN Next ELSE UNCHANGED vars
  /\ IF part = "client" THEN ClientNext ELSE UNCHANGED clientVars
  /\ IF part = "draft" THEN DraftNext ELSE UNCHANGED draftVars

\* At the start of a part none of its fair actions is enabled: the fairness of
\* those that stay there asks nothing.
DevicesSpec ==
  /\ DevicesInit /\ [][DevicesNext]_<<part, vars, clientVars, draftVars>>
  /\ Fairness /\ ClientFairness /\ DraftFairness
=============================================================================
