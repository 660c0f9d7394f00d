------------------------------ MODULE MCIngest ------------------------------
(***************************************************************************)
(* Instances of Ingest for TLC: the video of cores A and B, both drained   *)
(* by thread_localsave; one stream of images, drained by thread_img, some  *)
(* of which do not fit into a buffer; messages that are whole frames.      *)
(* Of <<1, 3, 4>> the second packet does not fit and the third one does;   *)
(* <<3>> is a packet longer than a buffer.                                 *)
(***************************************************************************)
EXTENDS Ingest, TLC

S(b, c, a, k) == [board |-> b, cmd |-> c, channel |-> 0, audio |-> a, frames |-> k]

Lengths == {<<1>>, <<2>>, <<3>>, <<1, 2>>, <<1, 3, 4>>}
Video == {S("A", "GETDATA_ACK", FALSE, {<<1>>}), S("B", "GETDATA_ACK", FALSE, {<<1>>})}
Images(frames) == {S("A", "EVENT_UCI", FALSE, frames)}
Short == {S("A", "GETDATA_ACK", TRUE, {<<1>>}), S("A", "BYP_RSP", FALSE, {<<2>>}),
          S("B", "GETDATA_ACK", TRUE, {<<1>>})}
U(streams, resume) == [streams |-> streams, resume |-> resume]
Together ==
  {U(Video, "frame"), U(Images({<<1, 2>>, <<1, 3, 4>>}), "start"),
   U(Images({<<1, 2>>, <<3>>}), "frame"), U(Images({<<1, 2>>}), "packet"), U(Short, "frame")}

V == <<"localsave", "V">>
Img == <<"img", "Img">>
RX == <<"SwitchTracking", "RX">>
Drains == {V, Img, RX}
Wiring == (<<"A", "Vstore">> :> <<V>> @@ <<"A", "Audio">> :> <<V>> @@ <<"B", "V1">> :> <<V>>
             @@ <<"A", "ImgV">> :> <<Img>> @@ <<"A", "RX1">> :> <<RX>>)
Fifos == DOMAIN Wiring
Pools == [f \in Fifos \cup Drains |->
            IF f \in {<<"A", "Vstore">>, <<"A", "ImgV">>, V} THEN 2 ELSE 1]
AllCalls == {AddCall(f, d) :
               f \in SUBSET {"NEWFRAME", "FRAMEEND", "FIRSTFRAME", "KEYFRAME"}, d \in Data}
=============================================================================
