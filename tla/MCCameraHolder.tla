--------------------------- MODULE MCCameraHolder ---------------------------
(***************************************************************************)
(* An instance of CameraHolder for TLC.  The teacher's holder has seven    *)
(* presets and gets the orders that bring it home; the student's has one   *)
(* and gets every manual order.                                            *)
(***************************************************************************)
EXTENDS CameraHolder

OrdersOf == [c \in {"teacher", "student"} |->
               IF c = "teacher" THEN {"start"} ELSE {"pan", "zoom", "recall", "store"}]
=============================================================================
