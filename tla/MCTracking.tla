----------------------------- MODULE MCTracking -----------------------------
(***************************************************************************)
(* Instances of Tracking for TLC.                                           *)
(***************************************************************************)
EXTENDS Tracking

\* A range that ends before the room does, and one parted by an excluded zone
\* wider than a step of the scan, the camera at home on its edge.
Ranges ==
  {[IsExclude |-> FALSE, limit_left |-> 0, limit_right |-> 4,
    exclude_left |-> 1, exclude_right |-> 2, home |-> 2],
   [IsExclude |-> TRUE, limit_left |-> 0, limit_right |-> 5,
    exclude_left |-> 1, exclude_right |-> 4, home |-> 4]}
=============================================================================
