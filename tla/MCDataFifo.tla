----------------------------- MODULE MCDataFifo -----------------------------
(***************************************************************************)
(* An instance of DataFifo for TLC: one producer with several consumers,   *)
(* as main connects Ctrl_producer_fifo.  Many producers with one consumer  *)
(* (V_consumer_fifo) are in MCIngest.                                      *)
(***************************************************************************)
EXTENDS DataFifo, TLC

CONSTANTS p1, c1, c2, d1, d2

\* One producer, two consumers (Ctrl_producer_fifo).
FanOut == (p1 :> <<c2, c1>>)
FanOutCnt == (p1 :> 2 @@ c1 :> 1 @@ c2 :> 1)

A(f, d, n) == [flags |-> f, data |-> d, len |-> n]

\* The packets of a stream: the first of a frame, one in the middle, the last,
\* and the first of a new stream.  Frames may have any length, also more than
\* a buffer holds, and may lack their last packet.  One that is refused may be
\* followed by a shorter one that fits.
Packets ==
  {A({"NEWFRAME"}, d1, 1), A({"NEWFRAME"}, d2, 2), A({}, d1, 2), A({"FRAMEEND"}, d1, 1),
   A({"NEWFRAME", "FIRSTFRAME"}, d2, 1)}
=============================================================================
