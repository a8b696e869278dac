--------------------------- MODULE MCVisionMission ---------------------------
(* Instances of VisionMission for TLC. *)
EXTENDS VisionMission

CONSTANTS main, dialog, f1, f2, click

\* The dialog belongs to the main window.
DialogOwner == [w \in Windows |-> IF w = dialog THEN main ELSE NULL]
=============================================================================
