------------------------------- MODULE Ingest -------------------------------
(***************************************************************************)
(* What the boards send and what the server makes of it: DevAMsgHandle,    *)
(* DevBCMsgHandle and DevDMsgHandle of recbc_srv.c, composed with the      *)
(* frame queue they call.                                                  *)
(*                                                                         *)
(* A board sends the frames of its streams in numbered packets, one packet *)
(* to a message, over a connection that delivers in order and may break    *)
(* between any two of them.  The board's thread takes one message at a     *)
(* time, derives the flags of datafifo_producer_data_add from the numbers  *)
(* and calls it, for the answer of a camera once for every byte.  While a  *)
(* call waits for a free buffer the thread takes no other message.         *)
(*                                                                         *)
(* The boards are external.  A fifo is the pair <<thread, name>>.  A frame *)
(* is the sequence of the places its packets end at: <<2, 5>> is five      *)
(* bytes in two packets.  Data of a packet are its frame, its number in    *)
(* it, and stamp, which tells a frame from the next one of its stream.     *)
(***************************************************************************)
EXTENDS DataFifo

CONSTANTS
  Setups,    \* what the boards may be: [streams, resume].  A stream is a
             \* [board, cmd, channel, audio, frames]; over a new connection a
             \* board goes on with frame 0 ("start"), a later frame ("frame")
             \* or the last packet of one ("packet")
  Frames,    \* the frames there are
  MaxPkts    \* bound: packets in a frame

Stream == UNION {u.streams : u \in Setups}
Boards == {s.board : s \in Stream}
Cmd == {"GETDATA_ACK", "EVENT_UCI", "EVENT", "BYP_RSP"}
Data == {d \in [stamp : 0..1, num : 0 .. MaxPkts - 1, of : Frames] : d.num < Len(d.of)}

\* The place before a packet's first byte, its number of bytes, and whether a
\* frame fits into a buffer.
Start(d) == IF d.num = 0 THEN 0 ELSE d.of[d.num]
Size(d) == d.of[d.num + 1] - Start(d)
Fits(k) == k[Len(k)] <= DataMaxLen

ASSUME IngestAssumption ==
  /\ Stream \subseteq [board : {"A", "B", "C", "D"}, cmd : Cmd, channel : 0..1,
                       audio : BOOLEAN, frames : SUBSET Frames]
  /\ MaxPkts \in Nat \ {0}
  /\ Frames \subseteq Seq(Nat \ {0})
  /\ \A k \in Frames : /\ Len(k) \in 1..MaxPkts
                       /\ \A i, j \in 1..Len(k) : i < j => k[i] < k[j]
  /\ <<1>> \in Frames
  /\ \A u \in Setups : u.resume \in {"start", "frame", "packet"}
  /\ Data \subseteq Payload

VARIABLES
  boards,  \* what the boards are: a member of Setups; never changes
  frame,   \* the frame each stream is sending: number (0 or 1 for a later
           \* one), stamp, the frame, and the packet that comes next
  todo     \* the calls the board's thread still makes for its message

srcVars == <<boards, frame>>
allVars == <<vars, srcVars, todo>>

-----------------------------------------------------------------------------
(* The handlers *)

\* Mutant of Flags: the first frame of a stream is not marked.
FlagsNoFirst(m) ==
  {f \in {"NEWFRAME", "KEYFRAME", "FRAMEEND"} :
     \/ f = "NEWFRAME" /\ m.packet_num = 0
     \/ f = "KEYFRAME" /\ m.packet_num = 0 /\ m.frame_type = "VIDEO_IDR"
     \/ f = "FRAMEEND" /\ m.packet_num = m.pkts_in_frame - 1}

\* Mutant of Flags: NEWFRAME is set on the first frame only.
FlagsFirstOnly(m) ==
  {f \in {"NEWFRAME", "FIRSTFRAME", "FRAMEEND"} :
     \/ f \in {"NEWFRAME", "FIRSTFRAME"} /\ m.packet_num = 0 /\ m.frame_num = 0
     \/ f = "FRAMEEND" /\ m.packet_num = m.pkts_in_frame - 1}

\* The flags of a packet, from its Info attribute.  Only video has key frames.
Flags(m) ==
  {f \in {"NEWFRAME", "FIRSTFRAME", "KEYFRAME", "FRAMEEND"} :
     \/ f = "NEWFRAME" /\ m.packet_num = 0
     \/ f = "FIRSTFRAME" /\ m.packet_num = 0 /\ m.frame_num = 0
     \/ f = "KEYFRAME" /\ m.packet_num = 0 /\ m.cmd = "GETDATA_ACK"
                       /\ m.frame_type \in {"VIDEO_I", "VIDEO_IDR"}
     \/ f = "FRAMEEND" /\ m.packet_num = m.pkts_in_frame - 1}

\* The fifo a message's stream goes to, by the board's handler.  Audio is
\* taken from core A only, a camera's answer from A, B and C.
Dest(b, m) ==
  CASE m.cmd = "GETDATA_ACK" /\ m.frame_type = "AUDIO" -> <<b, "Audio">>
    [] m.cmd = "GETDATA_ACK" /\ b = "A" -> <<b, IF m.channel = 0 THEN "Vstore" ELSE "Vlive">>
    [] m.cmd = "GETDATA_ACK" -> <<b, IF m.channel = 0 THEN "V1" ELSE "V2">>
    [] m.cmd = "EVENT_UCI" /\ b = "A" -> <<b, IF m.channel = 0 THEN "ImgV" ELSE "ImgM">>
    [] m.cmd = "EVENT_UCI" -> <<b, IF m.channel = 0 THEN "Img1" ELSE "Img2">>
    [] m.cmd = "EVENT" -> <<b, "Event">>
    [] m.cmd = "BYP_RSP" -> <<b, IF m.channel = 0 THEN "RX1" ELSE "RX2">>

Dropped(b, m) ==
  \/ m.cmd = "GETDATA_ACK" /\ m.frame_type = "AUDIO" /\ b # "A"
  \/ m.cmd = "BYP_RSP" /\ b = "D"

\* What the handler of a stream's board tells it by, the fifo it goes to, and
\* whether it is taken at all.
Kind(s) == [cmd |-> s.cmd, channel |-> s.channel,
            frame_type |-> IF s.audio THEN "AUDIO" ELSE "VIDEO_P"]
Target(s) == Dest(s.board, Kind(s))
Taken(s) == ~Dropped(s.board, Kind(s))

\* Every stream that is taken has its fifo (recbc_srv.c creates them all), and
\* the streams of a board have different ones.  The calls that come are those
\* this module makes; their len is the value_len of the packet.
AddCall(f, d) == [flags |-> f, data |-> d, len |-> Size(d)]

ASSUME WiringAssumption ==
  /\ \A s \in Stream : Taken(s) => Target(s) \in Producers
  /\ \A u \in Setups : \A s, t \in u.streams :
        Taken(s) /\ Taken(t) /\ Target(s) = Target(t) => s = t
  /\ Calls = {AddCall(f, d) :
                 f \in SUBSET {"NEWFRAME", "FRAMEEND", "FIRSTFRAME", "KEYFRAME"}, d \in Data}

\* The calls of datafifo_producer_data_add one message leads to.  An event, or
\* a byte of an answer, is a frame that fits.
CallsFor(b, m) ==
  IF Dropped(b, m) THEN <<>>
  ELSE LET add(f, d) == [fifo |-> Dest(b, m), arg |-> AddCall(f, d)]
           whole == add({"NEWFRAME", "FRAMEEND"}, [stamp |-> 0, num |-> 0, of |-> <<1>>])
       IN  CASE m.cmd = "EVENT" -> <<whole>>
             [] m.cmd = "BYP_RSP" -> [i \in 1 .. Size(m.data) |-> whole]
             [] OTHER -> <<add(Flags(m), m.data)>>

\* The board's thread is back in its loop.
Ready(b) == todo[b] = <<>> /\ \A p \in Producers : p[1] = b => pc[p] = "idle"

MsgHandle(b, m) ==
  /\ Ready(b)
  /\ todo' = [todo EXCEPT ![b] = CallsFor(b, m)]
  /\ UNCHANGED vars

\* The next of the calls of a message, once the one before has returned.
NextCall(b) ==
  /\ todo[b] # <<>>
  /\ \A p \in Producers : p[1] = b => pc[p] = "idle"
  /\ Call(Head(todo[b]).fifo, Head(todo[b]).arg)
  /\ todo' = [todo EXCEPT ![b] = Tail(@)]
  /\ UNCHANGED srcVars

-----------------------------------------------------------------------------
(* The boards *)

\* Events and answers of a camera are one message each.
OnePacket(s) == s.cmd \in {"EVENT", "BYP_RSP"}

Message(s, k) ==
  [cmd |-> s.cmd, channel |-> s.channel,
   frame_type |-> IF s.audio THEN "AUDIO"
                  ELSE IF frame[s].number = 0 THEN "VIDEO_IDR" ELSE "VIDEO_P",
   frame_num |-> frame[s].number, packet_num |-> frame[s].next, pkts_in_frame |-> Len(k),
   data |-> [stamp |-> frame[s].stamp, num |-> frame[s].next, of |-> k]]

\* Where a stream that was at f is after a packet of frame k.
Advanced(s, k, f) ==
  IF OnePacket(s) \/ f.next = Len(k) - 1
  THEN [number |-> 1, stamp |-> 1 - f.stamp, of |-> <<1>>, next |-> 0]
  ELSE [number |-> f.number, stamp |-> f.stamp, of |-> k, next |-> f.next + 1]

\* The board sends the next packet of a frame k, and the thread takes it.
Receive(s, k) ==
  /\ frame[s].next > 0 => k = frame[s].of
  /\ MsgHandle(s.board, Message(s, k))
  /\ frame' = [frame EXCEPT ![s] = Advanced(s, k, @)]
  /\ UNCHANGED boards

\* Where a stream that was at f goes on over a new connection; with the last
\* packet of frame k, if boards do that and k is one of its frames.
Resumed(s, k, f) ==
  LET of == IF boards.resume = "packet" /\ k \in s.frames THEN k ELSE <<1>>
  IN  [number |-> IF boards.resume = "start" THEN 0 ELSE 1,
       stamp |-> IF f.next > 0 THEN 1 - f.stamp ELSE f.stamp,
       of |-> of, next |-> Len(of) - 1]

\* The connection of a board breaks and is made again (CoreLink).
Reconnect(b) ==
  /\ Ready(b)
  /\ \E k \in Frames :
       frame' = [s \in Stream |-> IF s \in boards.streams /\ s.board = b
                                  THEN Resumed(s, k, frame[s]) ELSE frame[s]]
  /\ UNCHANGED <<vars, boards, todo>>

-----------------------------------------------------------------------------

SysInit ==
  /\ Init
  /\ boards \in Setups
  /\ frame = [s \in Stream |-> [number |-> 0, stamp |-> 0, of |-> <<1>>, next |-> 0]]
  /\ todo = [b \in Boards |-> <<>>]

Boardside ==
  \/ \E s \in boards.streams : \E k \in s.frames : Receive(s, k)
  \/ \E b \in Boards : Reconnect(b)

Fifoside(A) == A /\ UNCHANGED <<srcVars, todo>>

SysNext ==
  /\ ~crashed
  /\ \/ Boardside
     \/ \E b \in Boards : NextCall(b)
     \/ \E p \in Producers : Fifoside(ProducerStep(p))
     \/ \E c \in Consumers : Fifoside(ConsumerStep(c))

SysSpec == SysInit /\ [][SysNext]_allVars

-----------------------------------------------------------------------------
(* Properties                                                              *)

\* datafifo.c:192 reads listtail->status although a list may be empty.  What
\* keeps the process alive is only how the boards number their packets: they
\* never continue a frame that is not there unless a board goes on in the
\* middle of one after a lost connection, and then it does die.
CrashNeedsMidFrame == crashed => boards.resume = "packet"

\* Bytes of one frame, e behind c.
Before(c, e) ==
  /\ c[1].stamp = e[1].stamp /\ c[1].of = e[1].of
  /\ c[1].num < e[1].num \/ (c[1].num = e[1].num /\ c[2] < e[2])

\* All of the packet that the i-th byte belongs to is there.
PacketWhole(body, i) ==
  LET d == body[i][1]  k == body[i][2] IN
    /\ k > 1 => i > 1 /\ body[i - 1] = <<d, k - 1>>
    /\ k < Size(d) => i < Len(body) /\ body[i + 1] = <<d, k + 1>>

\* Whole packets of one frame in their order.
InOrder(body) ==
  \A i \in DOMAIN body :
    /\ PacketWhole(body, i)
    /\ \A j \in DOMAIN body : i < j => Before(body[i], body[j])

\* Every byte is at its place in its frame.
Beginning(body) ==
  \A i \in DOMAIN body : Start(body[i][1]) + body[i][2] = i

\* Nothing is left of a frame whose packets are all too long, and of one that
\* a board does not finish but starts again with frame 0, when it is emptied
\* (FRAME_FLAG_FIRSTFRAME).
MayBeEmpty(p) ==
  \/ boards.resume = "start"
  \/ \E s \in boards.streams : Target(s) = p /\ \E k \in s.frames : ~Fits(k)

\* What may come out of fifo p: a frame that fits into a buffer is all there,
\* or its beginning if its board goes on after a break with the next one as if
\* nothing had happened.  Of a longer one each packet that did not fit behind
\* those before it is missing, also from the middle.
Whole(p, body) ==
  /\ InOrder(body)
  /\ body = <<>> => MayBeEmpty(p)
  /\ body # <<>> /\ Fits(body[1][1].of) =>
       /\ Beginning(body)
       /\ boards.resume = "frame" \/ Len(body) = Last(body[1][1].of)

\* What a consumer gets is never a mixture of two frames, a frame out of order
\* or a piece of a packet, wherever connections broke, and a gap only where a
\* frame is too long: the flags the handlers derive from the packets' numbers
\* make data_add begin, continue, flush and empty frames at the right places.
\* Boards that go on in the middle of a frame are left out, data_add takes
\* their packets for those of the frame it is filling.
FramesWhole ==
  boards.resume # "packet" =>
    \A c \in Consumers : \A i \in DOMAIN QueueOf(c) :
      Whole(QueueOf(c)[i].from, QueueOf(c)[i].body)
=============================================================================
