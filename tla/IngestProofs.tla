---------------------------- MODULE IngestProofs ----------------------------
(***************************************************************************)
(* Theorems about Ingest: the boards, the packet handlers and the frame    *)
(* queue together, for any boards and streams, frames of any length and    *)
(* pools of any size.                                                      *)
(***************************************************************************)
EXTENDS Ingest, DataFifoProofs

-----------------------------------------------------------------------------
(* The composition is a frame queue: what the handlers do to the queue is   *)
(* to call it.                                                              *)

\* The fifos a board's thread fills, and a call it makes.
FifosOf(b) == {p \in Producers : p[1] = b}
CallOf(b) == [fifo : FifosOf(b), arg : Calls]

Position == [number : 0..1, stamp : 0..1, of : Frames, next : Nat]

\* A stream that is inside a frame, one of its own, has packets left to send.
SysType ==
  /\ boards \in Setups
  /\ frame \in [Stream -> Position]
  /\ todo = [b \in Boards |-> todo[b]]
  /\ \A b \in Boards : todo[b] \in Seq(CallOf(b))
  /\ \A s \in Stream : frame[s].next < Len(frame[s].of)
  /\ \A s \in Stream : frame[s].next > 0 => frame[s].of \in s.frames

\* The packets of a frame end one behind the other.
LEMMA FrameType ==
  ASSUME NEW k \in Frames
  PROVE  /\ k \in Seq(Nat \ {0}) /\ Len(k) \in Nat \ {0}
         /\ \A i \in 1..Len(k) : k[i] \in Nat \ {0}
         /\ \A i, j \in 1..Len(k) : i < j => k[i] < k[j]
BY IngestAssumption

\* Where a packet lies in its frame.
LEMMA PacketType ==
  ASSUME NEW d \in Data
  PROVE  /\ d.of \in Frames /\ d.stamp \in 0..1 /\ d.num \in Nat /\ d.num < Len(d.of)
         /\ d = [stamp |-> d.stamp, num |-> d.num, of |-> d.of]
         /\ Start(d) \in Nat /\ Size(d) \in Nat \ {0}
         /\ Start(d) + Size(d) = d.of[d.num + 1]
         /\ Start(d) + Size(d) <= d.of[Len(d.of)]
<1>1. /\ d.of \in Frames /\ d.stamp \in 0..1 /\ d.num \in Nat /\ d.num < Len(d.of)
      /\ d = [stamp |-> d.stamp, num |-> d.num, of |-> d.of]
  BY IngestAssumption DEF Data
<1> DEFINE k == d.of
<1> DEFINE n == d.num
<1>2. /\ Len(k) \in Nat \ {0} /\ \A i \in 1..Len(k) : k[i] \in Nat \ {0}
      /\ \A i, j \in 1..Len(k) : i < j => k[i] < k[j]
  BY <1>1, FrameType
<1>3. n + 1 \in 1..Len(k) /\ Len(k) \in 1..Len(k) /\ (n # 0 => n \in 1..Len(k))
  BY <1>1, <1>2
<1>4. /\ k[n + 1] \in Nat \ {0} /\ k[Len(k)] \in Nat \ {0}
      /\ n # 0 => k[n] \in Nat \ {0} /\ k[n] < k[n + 1]
      /\ n + 1 # Len(k) => k[n + 1] < k[Len(k)]
  BY <1>2, <1>3
<1>5. Start(d) = (IF n = 0 THEN 0 ELSE k[n]) /\ Size(d) = k[n + 1] - Start(d)
  BY DEF Start, Size
<1> HIDE DEF k, n
<1>6. /\ Start(d) \in Nat /\ Size(d) \in Nat \ {0} /\ Start(d) + Size(d) = k[n + 1]
      /\ Start(d) + Size(d) <= k[Len(k)]
  <2>1. CASE n = 0 BY <1>4, <1>5, <2>1
  <2>2. CASE n # 0 BY <1>4, <1>5, <2>2
  <2>3. QED BY <2>1, <2>2
<1>7. QED BY <1>1, <1>6 DEF k, n

\* The calls there are.
LEMMA CallsAre ==
  /\ \A a \in Calls : a.data \in Data /\ a.len = Size(a.data)
  /\ \A f \in SUBSET {"NEWFRAME", "FRAMEEND", "FIRSTFRAME", "KEYFRAME"} : \A d \in Data :
       AddCall(f, d) \in Calls
BY WiringAssumption DEF AddCall

\* The streams there are, and the fields of one.
LEMMA StreamType ==
  ASSUME NEW s \in Stream
  PROVE  /\ s.board \in Boards /\ s.board \in {"A", "B", "C", "D"} /\ s.cmd \in Cmd
         /\ s.channel \in 0..1 /\ s.audio \in BOOLEAN /\ s.frames \subseteq Frames
BY IngestAssumption DEF Boards

\* The handler recognises the stream in each of its messages, and the fifo is
\* one of its own thread.
LEMMA DestIsTarget ==
  ASSUME NEW s \in Stream, NEW n
  PROVE  /\ Dest(s.board, Message(s, n)) = Target(s)
         /\ Dropped(s.board, Message(s, n)) <=> ~Taken(s)
         /\ Target(s)[1] = s.board
         /\ Taken(s) => Target(s) \in FifosOf(s.board)
<1>1. /\ Message(s, n).cmd = s.cmd /\ Message(s, n).channel = s.channel
      /\ Message(s, n).frame_type = "AUDIO" <=> s.audio
  BY StreamType DEF Message
<1>2. /\ Kind(s).cmd = s.cmd /\ Kind(s).channel = s.channel
      /\ Kind(s).frame_type = "AUDIO" <=> s.audio
  BY StreamType DEF Kind
<1>3. Dest(s.board, Message(s, n)) = Target(s)
  BY <1>1, <1>2 DEF Dest, Target
<1>4. Dropped(s.board, Message(s, n)) <=> ~Taken(s)
  BY <1>1, <1>2 DEF Dropped, Taken
<1>5. Target(s)[1] = s.board
  BY <1>2, StreamType DEF Target, Dest, Cmd
<1>6. QED BY <1>3, <1>4, <1>5, WiringAssumption DEF FifosOf

\* What a message leads to: nothing, whole frames, or one packet.
LEMMA CallsForType ==
  ASSUME SysType, NEW s \in Stream, NEW k \in Frames, frame[s].next < Len(k)
  PROVE  LET t == CallsFor(s.board, Message(s, k)) IN
         /\ t \in Seq(CallOf(s.board))
         /\ ~Taken(s) => t = <<>>
         /\ Taken(s) => t # <<>>
         /\ \A i \in 1..Len(t) : t[i].fifo = Target(s)
         /\ OnePacket(s) => \A i \in 1..Len(t) :
              t[i].arg = AddCall({"NEWFRAME", "FRAMEEND"}, [stamp |-> 0, num |-> 0, of |-> <<1>>])
         /\ (Taken(s) /\ ~OnePacket(s)) =>
              t = <<[fifo |-> Target(s),
                     arg |-> AddCall(Flags(Message(s, k)),
                                     [stamp |-> frame[s].stamp, num |-> frame[s].next,
                                      of |-> k])]>>
<1> DEFINE m == Message(s, k)
<1> DEFINE add(f, d) == [fifo |-> Target(s), arg |-> AddCall(f, d)]
<1> DEFINE d0 == [stamp |-> 0, num |-> 0, of |-> <<1>>]
<1> DEFINE d1 == [stamp |-> frame[s].stamp, num |-> frame[s].next, of |-> k]
<1> DEFINE whole == add({"NEWFRAME", "FRAMEEND"}, d0)
<1> DEFINE t == CallsFor(s.board, Message(s, k))
<1>1. d0 \in Data /\ d1 \in Data
  <2>1. d0 \in Data BY IngestAssumption DEF Data
  <2>2. /\ frame[s].stamp \in 0..1 /\ frame[s].next \in Nat
        /\ Len(k) \in 1..MaxPkts /\ MaxPkts \in Nat
    BY IngestAssumption DEF SysType, Position
  <2>3. frame[s].next \in 0 .. MaxPkts - 1 BY <2>2
  <2>4. QED BY <2>1, <2>2, <2>3 DEF Data
<1>2. Flags(m) \subseteq {"NEWFRAME", "FRAMEEND", "FIRSTFRAME", "KEYFRAME"}
  BY DEF Flags
<1>3. m.cmd = s.cmd /\ m.data = d1
  BY DEF Message
<1>4. Taken(s) => Target(s) \in FifosOf(s.board) BY DestIsTarget
<1>5. Taken(s) => whole \in CallOf(s.board) /\ add(Flags(m), d1) \in CallOf(s.board)
  <2>1. AddCall({"NEWFRAME", "FRAMEEND"}, d0) \in Calls /\ AddCall(Flags(m), d1) \in Calls
    BY <1>1, <1>2, CallsAre
  <2>2. QED BY <1>4, <2>1 DEF CallOf
<1>n. PICK n \in Nat \ {0} : n = Size(d1) BY <1>1, PacketType
<1>6. ~Taken(s) => t = <<>> BY DestIsTarget DEF CallsFor
<1>7. Taken(s) =>
        t = CASE s.cmd = "EVENT" -> <<whole>>
              [] s.cmd = "BYP_RSP" -> [i \in 1..n |-> whole]
              [] OTHER -> <<add(Flags(m), d1)>>
  BY <1>3, <1>n, DestIsTarget DEF CallsFor
<1> HIDE DEF t, whole, add, d0, d1, m
<1> DEFINE Goal ==
      /\ t \in Seq(CallOf(s.board))
      /\ ~Taken(s) => t = <<>>
      /\ Taken(s) => t # <<>>
      /\ \A i \in 1..Len(t) : t[i].fifo = Target(s)
      /\ OnePacket(s) => \A i \in 1..Len(t) : t[i].arg = whole.arg
      /\ (Taken(s) /\ ~OnePacket(s)) => t = <<add(Flags(m), d1)>>
<1>8. ASSUME ~Taken(s) PROVE Goal
  <2>1. t = <<>> BY <1>6, <1>8
  <2>2. t \in Seq(CallOf(s.board)) /\ 1..Len(t) = {} BY <2>1
  <2>3. QED BY <1>8, <2>1, <2>2
<1>9. ASSUME Taken(s), s.cmd = "EVENT" PROVE Goal
  <2>1. t = <<whole>> BY <1>7, <1>9
  <2>2. OnePacket(s) BY <1>9 DEF OnePacket
  <2>3. QED BY <1>5, <1>9, <2>1, <2>2 DEF whole, add
<1>10. ASSUME Taken(s), s.cmd = "BYP_RSP" PROVE Goal
  <2>1. t = [i \in 1..n |-> whole] BY <1>7, <1>10
  <2>2. OnePacket(s) BY <1>10 DEF OnePacket
  <2>3. t \in Seq(CallOf(s.board)) /\ Len(t) = n BY <1>5, <1>10, <2>1
  <2>4. (\A i \in 1..n : t[i] = whole) /\ t # <<>> BY <2>1, <2>3
  <2>5. whole.fifo = Target(s) BY DEF whole, add
  <2>6. QED BY <1>10, <2>2, <2>3, <2>4, <2>5
<1>11. ASSUME Taken(s), s.cmd \notin {"EVENT", "BYP_RSP"} PROVE Goal
  <2>1. t = <<add(Flags(m), d1)>> BY <1>7, <1>11
  <2>2. ~OnePacket(s) BY <1>11 DEF OnePacket
  <2>3. QED BY <1>5, <1>11, <2>1, <2>2 DEF add
<1>12. Goal BY <1>8, <1>9, <1>10, <1>11
<1>13. whole.arg = AddCall({"NEWFRAME", "FRAMEEND"}, [stamp |-> 0, num |-> 0, of |-> <<1>>])
  BY DEF whole, add, d0
<1>14. QED BY <1>12, <1>13 DEF t, m, add, d1

\* Receiving moves a stream on inside its frame, or to the next frame.
LEMMA ReceiveFrame ==
  ASSUME SysType, NEW s \in Stream, NEW k \in s.frames, Receive(s, k)
  PROVE  /\ k \in Frames /\ frame[s].next < Len(k)
         /\ frame'[s] \in Position /\ frame'[s].next < Len(frame'[s].of)
         /\ frame'[s].next > 0 => frame'[s].of \in s.frames
         /\ \A u \in Stream : u # s => frame'[u] = frame[u]
         /\ frame' \in [Stream -> Position]
         /\ frame'[s].next > 0 => ~OnePacket(s) /\ frame[s].next # Len(k) - 1
<1>1. k \in Frames /\ Len(k) \in Nat \ {0} BY StreamType, FrameType
<1>2. frame[s] \in Position /\ frame[s].next \in Nat /\ frame[s].next < Len(frame[s].of)
  <2>1. frame \in [Stream -> Position] BY DEF SysType
  <2>2. \A u \in Stream : frame[u].next < Len(frame[u].of) BY DEF SysType
  <2>3. QED BY <2>1, <2>2 DEF Position
<1>3. frame[s].next < Len(k)
  <2>1. CASE frame[s].next > 0 BY <1>2, <2>1 DEF Receive
  <2>2. CASE ~(frame[s].next > 0) BY <1>1, <1>2, <2>2
  <2>3. QED BY <2>1, <2>2
<1> DEFINE next == Advanced(s, k, frame[s])
<1>4. frame' = [frame EXCEPT ![s] = next] BY DEF Receive
<1>5. /\ next \in Position /\ next.next < Len(next.of)
      /\ next.next > 0 => ~OnePacket(s) /\ frame[s].next # Len(k) - 1 /\ next.of \in s.frames
  <2>1. CASE OnePacket(s) \/ frame[s].next = Len(k) - 1
    <3>1. <<1>> \in Frames /\ Len(<<1>>) = 1 BY IngestAssumption
    <3>2. next = [number |-> 1, stamp |-> 1 - frame[s].stamp, of |-> <<1>>, next |-> 0]
      BY <2>1 DEF Advanced
    <3>3. 1 - frame[s].stamp \in 0..1 BY <1>2 DEF Position
    <3>4. QED BY <3>1, <3>2, <3>3 DEF Position
  <2>2. CASE ~(OnePacket(s) \/ frame[s].next = Len(k) - 1)
    <3>1. frame[s].next + 1 \in Nat /\ frame[s].next + 1 < Len(k) BY <1>1, <1>2, <1>3, <2>2
    <3>2. next = [number |-> frame[s].number, stamp |-> frame[s].stamp, of |-> k,
                  next |-> frame[s].next + 1]
      BY <2>2 DEF Advanced
    <3>3. QED BY <1>1, <1>2, <2>2, <3>1, <3>2 DEF Position
  <2>3. QED BY <2>1, <2>2
<1> HIDE DEF next
<1>6. frame'[s] = next BY <1>4 DEF SysType
<1>7. frame' \in [Stream -> Position] /\ \A u \in Stream : u # s => frame'[u] = frame[u]
  BY <1>4, <1>5 DEF SysType
<1>8. QED BY <1>1, <1>3, <1>5, <1>6, <1>7

\* A connection that breaks leaves every stream at a packet of a frame.
LEMMA ReconnectFrame ==
  ASSUME SysType, NEW b \in Boards, Reconnect(b)
  PROVE  /\ frame' \in [Stream -> Position]
         /\ \A s \in Stream : frame'[s].next < Len(frame'[s].of)
         /\ \A s \in Stream : frame'[s].next > 0 => frame'[s].of \in s.frames
         /\ \A s \in Stream : s \notin boards.streams \/ s.board # b => frame'[s] = frame[s]
         /\ boards.resume # "packet" =>
              \A s \in Stream : s \in boards.streams /\ s.board = b =>
                /\ frame'[s].next = 0
                /\ frame'[s].number = IF boards.resume = "start" THEN 0 ELSE 1
<1>1. PICK k \in Frames :
        frame' = [s \in Stream |-> IF s \in boards.streams /\ s.board = b
                                   THEN Resumed(s, k, frame[s]) ELSE frame[s]]
  BY DEF Reconnect
<1>2. ASSUME NEW s \in Stream, NEW g, g = Resumed(s, k, frame[s])
      PROVE  /\ g \in Position /\ g.next < Len(g.of) /\ (g.next > 0 => g.of \in s.frames)
             /\ boards.resume # "packet" =>
                  g.next = 0 /\ g.number = IF boards.resume = "start" THEN 0 ELSE 1
  <2> DEFINE of == IF boards.resume = "packet" /\ k \in s.frames THEN k ELSE <<1>>
  <2>1. of \in Frames /\ Len(of) \in Nat \ {0} BY IngestAssumption, FrameType
  <2>2. Len(<<1>>) = 1 OBVIOUS
  <2>3. /\ g = [number |-> IF boards.resume = "start" THEN 0 ELSE 1,
                stamp |-> IF frame[s].next > 0 THEN 1 - frame[s].stamp ELSE frame[s].stamp,
                of |-> of, next |-> Len(of) - 1]
    BY <1>2 DEF Resumed
  <2>4. frame[s].stamp \in 0..1 BY DEF SysType, Position
  <2>5. of = <<1>> \/ of \in s.frames OBVIOUS
  <2>6. boards.resume # "packet" => of = <<1>> OBVIOUS
  <2> HIDE DEF of
  <2>7. Len(of) - 1 \in Nat /\ Len(of) - 1 < Len(of) /\ (of = <<1>> => Len(of) - 1 = 0)
    BY <2>1, <2>2
  <2>8. g \in Position BY <2>1, <2>3, <2>4, <2>7 DEF Position
  <2>9. g.next = Len(of) - 1 /\ g.of = of /\ g.number = IF boards.resume = "start" THEN 0 ELSE 1
    BY <2>3
  <2>10. g.next > 0 => g.of \in s.frames
    <3>1. CASE of \in s.frames BY <2>9, <3>1
    <3>2. CASE of = <<1>>
      <4>1. g.next = 0 BY <2>7, <2>9, <3>2
      <4>2. QED BY <4>1
    <3>3. QED BY <2>5, <3>1, <3>2
  <2>11. QED BY <2>6, <2>7, <2>8, <2>9, <2>10
<1>3. \A s \in Stream : Resumed(s, k, frame[s]) \in Position BY <1>2
<1>4. frame' \in [Stream -> Position] BY <1>1, <1>3 DEF SysType
<1>5. ASSUME NEW s \in Stream
      PROVE  /\ s \in boards.streams /\ s.board = b => frame'[s] = Resumed(s, k, frame[s])
             /\ s \notin boards.streams \/ s.board # b => frame'[s] = frame[s]
  BY <1>1
<1> HIDE DEF Resumed
<1>6. QED BY <1>2, <1>4, <1>5 DEF SysType

\* The type invariant of the composition.
LEMMA SysTypeKept == SysType /\ [SysNext]_allVars => SysType'
<1> SUFFICES ASSUME SysType, [SysNext]_allVars PROVE SysType' OBVIOUS
<1>1. CASE UNCHANGED allVars BY <1>1 DEF SysType, allVars, srcVars
<1>2. ASSUME NEW s \in boards.streams, NEW k \in s.frames, Receive(s, k) PROVE SysType'
  <2>1. s \in Stream BY DEF SysType, Stream
  <2>2. /\ todo' = [todo EXCEPT ![s.board] = CallsFor(s.board, Message(s, k))]
        /\ boards' = boards
    BY <1>2 DEF Receive, MsgHandle
  <2>3. k \in Frames /\ frame[s].next < Len(k) BY <1>2, <2>1, ReceiveFrame
  <2>4. CallsFor(s.board, Message(s, k)) \in Seq(CallOf(s.board)) BY <2>1, <2>3, CallsForType
  <2>5. /\ todo' = [b \in Boards |-> todo'[b]]
        /\ \A b \in Boards : todo'[b] \in Seq(CallOf(b))
    BY <2>2, <2>4 DEF SysType
  <2>6. /\ frame' \in [Stream -> Position]
        /\ \A u \in Stream : frame'[u].next < Len(frame'[u].of)
        /\ \A u \in Stream : frame'[u].next > 0 => frame'[u].of \in u.frames
    BY <1>2, <2>1, ReceiveFrame DEF SysType
  <2>7. QED BY <2>2, <2>5, <2>6 DEF SysType
<1>3. ASSUME NEW b \in Boards, Reconnect(b) PROVE SysType'
  BY <1>3, ReconnectFrame DEF SysType, Reconnect
<1>4. ASSUME NEW b \in Boards, NextCall(b) PROVE SysType'
  <2>1. /\ todo[b] # <<>> /\ todo' = [todo EXCEPT ![b] = Tail(@)] /\ UNCHANGED srcVars
    BY <1>4 DEF NextCall
  <2>2. todo[b] \in Seq(CallOf(b)) BY DEF SysType
  <2>3. Tail(todo[b]) \in Seq(CallOf(b)) BY <2>1, <2>2
  <2>4. QED BY <2>1, <2>3 DEF SysType, srcVars
<1>5. ASSUME UNCHANGED <<srcVars, todo>> PROVE SysType' BY <1>5 DEF SysType, srcVars
<1>6. QED BY <1>1, <1>2, <1>3, <1>4, <1>5 DEF SysNext, Boardside, Fifoside

\* The next call is one the queue expects.
LEMMA NextCallIsCall ==
  ASSUME SysType, NEW b \in Boards, NextCall(b)
  PROVE  /\ todo[b] # <<>> /\ todo[b] \in Seq(CallOf(b)) /\ Head(todo[b]) = todo[b][1]
         /\ Head(todo[b]).fifo \in FifosOf(b) /\ Head(todo[b]).fifo \in Producers
         /\ Head(todo[b]).arg \in Calls
         /\ Call(Head(todo[b]).fifo, Head(todo[b]).arg)
<1>1. todo[b] # <<>> /\ todo[b] \in Seq(CallOf(b)) /\ Call(Head(todo[b]).fifo, Head(todo[b]).arg)
  BY DEF NextCall, SysType
<1>2. Head(todo[b]) \in CallOf(b) /\ Head(todo[b]) = todo[b][1] BY <1>1
<1>3. QED BY <1>1, <1>2 DEF CallOf, FifosOf

\* A step of the composition is a step of the queue or does not touch it.
LEMMA SysStep == SysType /\ [SysNext]_allVars => [Next]_vars
<1> SUFFICES ASSUME SysType, [SysNext]_allVars PROVE [Next]_vars OBVIOUS
<1>1. CASE UNCHANGED allVars BY <1>1 DEF allVars
<1>2. ASSUME Boardside PROVE UNCHANGED vars
  BY <1>2 DEF Boardside, Receive, MsgHandle, Reconnect
<1>3. ASSUME ~crashed, NEW b \in Boards, NextCall(b) PROVE Next
  BY <1>3, NextCallIsCall DEF Next
<1>4. QED BY <1>1, <1>2, <1>3 DEF SysNext, Fifoside, Next

\* The types of the composition's own variables hold throughout.
THEOREM SysTypeCorrect == SysSpec => []SysType
<1>1. SysInit => SysType
  <2> SUFFICES ASSUME SysInit PROVE SysType OBVIOUS
  <2>1. <<1>> \in Frames /\ Len(<<1>>) = 1 BY IngestAssumption
  <2>2. QED BY <2>1 DEF SysInit, SysType, Position
<1>2. QED BY <1>1, SysTypeKept, PTL DEF SysSpec

\* Whatever the boards send and wherever their connections break, the handlers
\* use the queue as DataFifo's specification allows.
THEOREM SysIsQueue == SysSpec => Spec
<1>1. SysInit => Init BY DEF SysInit
<1>2. QED BY <1>1, SysStep, SysTypeCorrect, PTL DEF SysSpec, Spec

\* So every theorem about the queue holds of it inside the server, in
\* particular the frames reach the consumers as in a broadcast.
THEOREM SysImplements == SysSpec => ImplementsBroadcast
BY SysIsQueue, Implements, PTL

-----------------------------------------------------------------------------
(* No packet continues a frame that is not there                            *)

\* Fifo p is at, or on its way to, a frame that waits for more packets.
Begun(p) ==
  \/ pc[p] = "idle" /\ Filling(p)
  \/ /\ "FRAMEEND" \notin call[p].flags
     /\ \/ pc[p] \in {"alloc", "flush", "link"}
        \/ pc[p] \in Distributing \cup {"check"} /\ ret[p] = "link"
        \/ pc[p] \in {"tail", "copy"} /\ Filling(p)

\* A call that is still to be made for a message begins a frame, or it is the
\* only one and its frame waits for it.
PendingInv ==
  \A b \in Boards : \A i \in 1..Len(todo[b]) :
    \/ "NEWFRAME" \in todo[b][i].arg.flags
    \/ /\ Len(todo[b]) = 1
       /\ pc[todo[b][i].fifo] = "idle"
       /\ Filling(todo[b][i].fifo)

\* The fifo of a stream that is inside a frame is inside that frame too, once
\* the call for the last packet has been made.
StreamInv ==
  \A s \in Stream : frame[s].next > 0 =>
    /\ s \in boards.streams
    /\ ~OnePacket(s)
    /\ Taken(s) =>
         /\ \A i \in 1..Len(todo[s.board]) :
              todo[s.board][i].fifo = Target(s) => "FRAMEEND" \notin todo[s.board][i].arg.flags
         /\ (\A i \in 1..Len(todo[s.board]) : todo[s.board][i].fifo # Target(s))
              => Begun(Target(s))

SysInv == SysType /\ IInv /\ TailInv /\ NoCrash /\ PendingInv /\ StreamInv

\* A thread inside data_add leaves the others' calls alone.
LEMMA OwnCallOnly ==
  ASSUME IInv, NEW q \in Producers, ProducerStep(q)
  PROVE  /\ call' = call
         /\ \A p \in Producers : p # q => pc'[p] = pc[p] /\ ret'[p] = ret[p]
<1> USE DEF IInv, TypeOK, Goto
<1>1. CASE AllocFrame(q) \/ LinkFrame(q) \/ CheckTail(q)
  BY <1>1 DEF AllocFrame, LinkFrame, CheckTail
<1>2. CASE Flush(q) BY <1>2 DEF Flush
<1>3. CASE CopyPacket(q) BY <1>3 DEF CopyPacket, FrameEnd
<1>4. CASE AllocForConsumer(q) \/ CountReference(q) \/ AddToConsumer(q)
             \/ SetDoing(q) \/ ProducerCheck(q)
  BY <1>4 DEF AllocForConsumer, CountReference, AddToConsumer, SetDoing, ProducerCheck
<1>5. QED BY <1>1, <1>2, <1>3, <1>4 DEF ProducerStep

\* A thread that is not inside a call takes no step.
LEMMA StepNotIdle ==
  ASSUME NEW p \in Producers, ProducerStep(p)
  PROVE  pc[p] # "idle"
BY DEF ProducerStep, AllocFrame, Flush, LinkFrame, CheckTail, CopyPacket, FrameEnd,
   AllocForConsumer, CountReference, AddToConsumer, SetDoing, ProducerCheck

\* A frame that waits for more packets stays so, whatever the threads do,
\* until the next call for it.
LEMMA BegunKept ==
  ASSUME IInv, NEW p \in Producers, Begun(p), [Next]_vars,
         ~ \E a \in Calls : Call(p, a)
  PROVE  Begun(p)'
<1>0. IInv' BY NextIInv
<1>1. ASSUME pc'[p] = pc[p], call'[p] = call[p], ret'[p] = ret[p] PROVE Begun(p)'
  <2>1. CASE pc[p] \in {"idle", "tail", "copy"}
    <3>1. Filling(p) BY <2>1 DEF Begun, Distributing
    <3>2. Filling(p)' BY <1>1, <2>1, <3>1, FillingKept
    <3>3. QED BY <1>1, <2>1, <3>2 DEF Begun, Distributing
  <2>2. CASE pc[p] \notin {"idle", "tail", "copy"}
    BY <1>1, <2>2 DEF Begun
  <2>3. QED BY <2>1, <2>2
<1>2. CASE UNCHANGED vars BY <1>1, <1>2 DEF vars, prodVars
<1>3. ASSUME NEW c \in Consumers, ConsumerStep(c) PROVE Begun(p)'
  <2>1. UNCHANGED prodVars BY <1>3 DEF ConsumerStep, Release, ConsumerCheck, Unlink
  <2>2. QED BY <1>1, <2>1 DEF prodVars
<1>4. ASSUME NEW q \in Producers, NEW a \in Calls, Call(q, a) PROVE Begun(p)'
  BY <1>1, <1>4 DEF Call, Goto, IInv, TypeOK
<1>5. ASSUME NEW q \in Producers, q # p, ProducerStep(q) PROVE Begun(p)'
  BY <1>1, <1>5, OwnCallOnly
<1>6. ASSUME ProducerStep(p) PROVE Begun(p)'
  <2>1. call' = call BY <1>6, OwnCallOnly
  <2>2. "FRAMEEND" \notin call[p].flags
    <3>1. pc[p] # "idle" BY <1>6, StepNotIdle
    <3>2. QED BY <3>1 DEF Begun
  <2> USE DEF Goto, IInv, TypeOK
  <2>3. CASE AllocFrame(p) BY <2>1, <2>2, <2>3 DEF AllocFrame, Begun
  <2>4. CASE Flush(p)
    <3>1. pc'[p] = "link" \/ (pc'[p] = "next_con" /\ ret'[p] = "link")
      <4>1. \/ pc' = [pc EXCEPT ![p] = "link"]
            \/ pc' = [pc EXCEPT ![p] = "next_con"] /\ ret' = [ret EXCEPT ![p] = "link"]
        BY <2>4 DEF Flush
      <4>2. pc \in [Producers -> ProducerPc] /\ ret \in [Producers -> {"idle", "link"}]
        OBVIOUS
      <4> HIDE DEF IInv, TypeOK
      <4>3. QED BY <4>1, <4>2
    <3>2. QED BY <2>1, <2>2, <3>1 DEF Begun, Distributing
  <2>5. CASE LinkFrame(p)
    <3>1. pc'[p] = "copy" BY <2>5 DEF LinkFrame
    <3>2. Filling(p)' BY <1>0, <3>1 DEF CopyInv
    <3>3. QED BY <2>1, <2>2, <3>1, <3>2 DEF Begun
  <2>6. CASE CheckTail(p)
    <3>1. pc[p] = "tail" /\ Filling(p) /\ list' = list /\ status' = status
      BY <2>6 DEF CheckTail, Begun, Distributing, fifoVars
    <3>2. pc'[p] = "copy" /\ Filling(p)' BY <2>6, <3>1 DEF CheckTail, Filling
    <3>3. QED BY <2>1, <2>2, <3>2 DEF Begun
  <2>7. CASE CopyPacket(p)
    <3>1. pc[p] = "copy" /\ Filling(p) BY <2>7 DEF CopyPacket, FrameEnd, CopyInv
    <3>2. pc'[p] = "idle" /\ list' = list /\ status' = status
      BY <2>2, <2>7 DEF CopyPacket, FrameEnd
    <3>3. QED BY <3>1, <3>2 DEF Begun, Filling
  <2>8. CASE AllocForConsumer(p) \/ CountReference(p) \/ AddToConsumer(p)
    <3>1. pc[p] \in Distributing /\ pc'[p] \in Distributing /\ ret' = ret
      BY <2>8 DEF AllocForConsumer, CountReference, AddToConsumer, Distributing
    <3>2. QED BY <2>1, <2>2, <3>1 DEF Begun, Distributing
  <2>9. CASE SetDoing(p)
    <3>1. pc[p] = "next_con" /\ pc'[p] = "check" /\ ret' = ret BY <2>9 DEF SetDoing
    <3>2. QED BY <2>1, <2>2, <3>1 DEF Begun, Distributing
  <2>10. CASE ProducerCheck(p)
    <3>1. pc[p] = "check" /\ pc'[p] = ret[p] BY <2>10 DEF ProducerCheck
    <3>2. QED BY <2>1, <2>2, <3>1 DEF Begun, Distributing
  <2>11. QED
    BY <1>6, <2>3, <2>4, <2>5, <2>6, <2>7, <2>8, <2>9, <2>10 DEF ProducerStep
<1>7. QED BY <1>2, <1>3, <1>4, <1>5, <1>6 DEF Next

\* The calls of a list go to fifos of the board.
LEMMA CallFifo ==
  ASSUME NEW b, NEW t \in Seq(CallOf(b)), NEW i \in 1..Len(t)
  PROVE  t[i].fifo \in Producers /\ t[i].fifo[1] = b
<1>1. t[i] \in CallOf(b) OBVIOUS
<1>2. QED BY <1>1 DEF CallOf, FifosOf

\* A message is taken when the thread is back in its loop.
LEMMA ReceiveKeeps ==
  ASSUME SysInv, NEW s \in boards.streams, NEW k \in s.frames, Receive(s, k)
  PROVE  PendingInv' /\ StreamInv'
<1> USE DEF SysInv
<1>1. s \in Stream BY DEF SysType, Stream
<1> DEFINE b == s.board
<1> DEFINE t == CallsFor(s.board, Message(s, k))
<1>2. /\ todo[b] = <<>> /\ todo' = [todo EXCEPT ![b] = t] /\ UNCHANGED vars /\ boards' = boards
      /\ \A p \in Producers : p[1] = b => pc[p] = "idle"
  BY DEF Receive, MsgHandle, Ready
<1>3. /\ k \in Frames /\ frame[s].next < Len(k)
      /\ frame'[s].next > 0 => ~OnePacket(s) /\ frame[s].next # Len(k) - 1
      /\ \A u \in Stream : u # s => frame'[u] = frame[u]
  BY <1>1, ReceiveFrame
<1>4. /\ t \in Seq(CallOf(b))
      /\ ~Taken(s) => t = <<>>
      /\ \A i \in 1..Len(t) : t[i].fifo = Target(s)
      /\ OnePacket(s) => \A i \in 1..Len(t) : "NEWFRAME" \in t[i].arg.flags
      /\ (Taken(s) /\ ~OnePacket(s)) =>
           /\ Len(t) = 1
           /\ "NEWFRAME" \in t[1].arg.flags <=> frame[s].next = 0
           /\ "FRAMEEND" \in t[1].arg.flags <=> frame[s].next = Len(k) - 1
  <2>0. PICK F : F = Flags(Message(s, k)) OBVIOUS
  <2>1. /\ t \in Seq(CallOf(b))
        /\ ~Taken(s) => t = <<>>
        /\ \A i \in 1..Len(t) : t[i].fifo = Target(s)
        /\ OnePacket(s) => \A i \in 1..Len(t) :
             t[i].arg = AddCall({"NEWFRAME", "FRAMEEND"}, [stamp |-> 0, num |-> 0, of |-> <<1>>])
        /\ (Taken(s) /\ ~OnePacket(s)) =>
             t = <<[fifo |-> Target(s),
                    arg |-> AddCall(F, [stamp |-> frame[s].stamp, num |-> frame[s].next,
                                        of |-> k])]>>
    BY <1>1, <1>3, <2>0, CallsForType
  <2> HIDE DEF t
  <2>2. /\ "NEWFRAME" \in F <=> frame[s].next = 0
        /\ "FRAMEEND" \in F <=> frame[s].next = Len(k) - 1
    BY <2>0 DEF Flags, Message
  <2>3. \A f, d : AddCall(f, d).flags = f BY DEF AddCall
  <2>4. QED BY <2>1, <2>2, <2>3
<1> HIDE DEF t
<1>6. todo'[b] = t /\ \A c \in Boards : c # b => todo'[c] = todo[c]
  BY <1>1, <1>2, StreamType DEF SysType
<1>7. PendingInv'
  <2>1. ASSUME NEW i \in 1..Len(t)
        PROVE  \/ "NEWFRAME" \in t[i].arg.flags
               \/ Len(t) = 1 /\ pc[t[i].fifo] = "idle" /\ Filling(t[i].fifo)
    <3>1. Taken(s) BY <1>4
    <3>2. CASE OnePacket(s) BY <1>4, <3>2
    <3>3. CASE ~OnePacket(s) /\ frame[s].next = 0
      <4>1. Len(t) = 1 /\ "NEWFRAME" \in t[1].arg.flags BY <1>4, <3>1, <3>3
      <4>2. i = 1 BY <4>1
      <4>3. QED BY <4>1, <4>2
    <3>4. CASE ~OnePacket(s) /\ frame[s].next # 0
      <4>1. frame[s].next > 0 BY <1>1, <3>4 DEF SysType, Position
      <4>2. Begun(Target(s)) BY <1>1, <1>2, <3>1, <4>1 DEF StreamInv
      <4>3. Target(s) \in Producers /\ pc[Target(s)] = "idle"
        BY <1>1, <1>2, <3>1, DestIsTarget DEF FifosOf
      <4>4. Filling(Target(s)) BY <4>2, <4>3 DEF Begun, Distributing
      <4>5. QED BY <1>4, <3>1, <3>4, <4>3, <4>4
    <3>5. QED BY <3>2, <3>3, <3>4
  <2>2. UNCHANGED <<pc, list, status>> BY <1>2 DEF vars, fifoVars, prodVars
  <2>3. SUFFICES ASSUME NEW c \in Boards, NEW i \in 1..Len(todo'[c])
                 PROVE  \/ "NEWFRAME" \in todo'[c][i].arg.flags
                        \/ /\ Len(todo'[c]) = 1 /\ pc[todo'[c][i].fifo] = "idle"
                           /\ Filling(todo'[c][i].fifo)
    BY <2>2 DEF PendingInv, Filling, Last
  <2>4. CASE c = b BY <1>6, <2>1, <2>4
  <2>5. CASE c # b BY <1>6, <2>5 DEF PendingInv
  <2>6. QED BY <2>4, <2>5
<1>8. StreamInv'
  <2>1. \A p \in Producers : Begun(p)' <=> Begun(p)
    BY <1>2 DEF vars, fifoVars, prodVars, Begun, Filling
  <2>2. SUFFICES ASSUME NEW u \in Stream, frame'[u].next > 0
                 PROVE  /\ u \in boards.streams /\ ~OnePacket(u)
                        /\ Taken(u) =>
                             /\ \A i \in 1..Len(todo'[u.board]) :
                                  todo'[u.board][i].fifo = Target(u)
                                    => "FRAMEEND" \notin todo'[u.board][i].arg.flags
                             /\ (\A i \in 1..Len(todo'[u.board]) :
                                  todo'[u.board][i].fifo # Target(u)) => Begun(Target(u))'
    BY <1>2 DEF StreamInv
  <2>3. CASE u = s
    <3>1. ~OnePacket(s) /\ frame[s].next # Len(k) - 1 BY <1>3, <2>2, <2>3
    <3>2. Taken(s) => Len(t) = 1 /\ t[1].fifo = Target(s) /\ "FRAMEEND" \notin t[1].arg.flags
      BY <1>4, <3>1
    <3>3. QED BY <1>6, <2>3, <3>1, <3>2
  <2>4. CASE u # s
    <3>1. frame[u].next > 0 BY <1>3, <2>2, <2>4
    <3>2. u \in boards.streams /\ ~OnePacket(u) BY <3>1 DEF StreamInv
    <3>3. ASSUME Taken(u)
          PROVE  /\ \A i \in 1..Len(todo'[u.board]) :
                      todo'[u.board][i].fifo = Target(u)
                        => "FRAMEEND" \notin todo'[u.board][i].arg.flags
                 /\ (\A i \in 1..Len(todo'[u.board]) :
                      todo'[u.board][i].fifo # Target(u)) => Begun(Target(u))'
      <4>1. Target(u) \in Producers BY <3>3, WiringAssumption
      <4>2. CASE u.board = b
        <5>1. Begun(Target(u)) BY <1>2, <3>1, <3>3, <4>2 DEF StreamInv
        <5>2. \A i \in 1..Len(t) : t[i].fifo # Target(u)
          <6>1. Taken(s) => Target(u) # Target(s)
            BY <2>4, <3>2, <3>3, WiringAssumption DEF SysType
          <6>2. QED BY <1>4, <6>1
        <5>3. QED BY <1>6, <2>1, <4>1, <4>2, <5>1, <5>2
      <4>3. CASE u.board # b
        <5>1. todo'[u.board] = todo[u.board] BY <1>6, <4>3, StreamType
        <5>2. QED BY <2>1, <3>1, <3>3, <4>1, <5>1 DEF StreamInv
      <4>4. QED BY <4>2, <4>3
    <3>4. QED BY <3>2, <3>3
  <2>5. QED BY <2>3, <2>4
<1>9. QED BY <1>7, <1>8

\* A broken connection takes its streams out of their frames.
LEMMA ReconnectKeeps ==
  ASSUME SysInv, boards.resume # "packet", NEW b \in Boards, Reconnect(b)
  PROVE  PendingInv' /\ StreamInv'
<1> USE DEF SysInv
<1>1. UNCHANGED <<vars, boards, todo>> BY DEF Reconnect
<1>2. \A s \in Stream : frame'[s].next > 0 => frame'[s] = frame[s]
  <2> TAKE s \in Stream
  <2>1. frame'[s].next = 0 => ~(frame'[s].next > 0) OBVIOUS
  <2>2. QED BY <2>1, ReconnectFrame
<1>3. PendingInv' BY <1>1 DEF vars, fifoVars, prodVars, PendingInv, Filling, Last
<1>4. StreamInv'
  <2>1. UNCHANGED <<pc, call, ret, list, status>> BY <1>1 DEF vars, fifoVars, prodVars
  <2>2. SUFFICES ASSUME NEW s \in Stream, frame'[s].next > 0
                 PROVE  /\ s \in boards.streams /\ ~OnePacket(s)
                        /\ Taken(s) =>
                             /\ \A i \in 1..Len(todo[s.board]) :
                                  todo[s.board][i].fifo = Target(s)
                                    => "FRAMEEND" \notin todo[s.board][i].arg.flags
                             /\ (\A i \in 1..Len(todo[s.board]) :
                                  todo[s.board][i].fifo # Target(s)) => Begun(Target(s))
    BY <1>1, <2>1 DEF StreamInv, Begun, Filling, Last
  <2>3. frame[s].next > 0 BY <1>2, <2>2
  <2>4. QED BY <2>3 DEF StreamInv
<1>5. QED BY <1>3, <1>4

\* A step inside the queue leaves the messages and the streams alone.
LEMMA FifoKeeps ==
  ASSUME SysInv, [Next]_vars, UNCHANGED <<srcVars, todo>>,
         \A p \in Producers : ~ \E a \in Calls : Call(p, a),
         \A p \in Producers : pc[p] = "idle" => pc'[p] = "idle"
  PROVE  PendingInv' /\ StreamInv'
<1> USE DEF SysInv
<1>1. \A p \in Producers : Begun(p) => Begun(p)' BY BegunKept
<1>2. ASSUME NEW p \in Producers, pc[p] = "idle", Filling(p)
      PROVE  pc'[p] = "idle" /\ Filling(p)'
  BY <1>2, FillingKept
<1>3. PendingInv'
  <2>1. SUFFICES ASSUME NEW b \in Boards, NEW i \in 1..Len(todo[b]), NEW p, p = todo[b][i].fifo,
                        "NEWFRAME" \notin todo[b][i].arg.flags
                 PROVE  Len(todo[b]) = 1 /\ pc'[p] = "idle" /\ Filling(p)'
    BY DEF PendingInv, Filling, Last
  <2>2. p \in Producers BY <2>1, CallFifo DEF SysType
  <2>3. Len(todo[b]) = 1 /\ pc[p] = "idle" /\ Filling(p) BY <2>1 DEF PendingInv
  <2>4. QED BY <1>2, <2>2, <2>3
<1>4. StreamInv'
  <2>1. SUFFICES ASSUME NEW s \in Stream, frame[s].next > 0
                 PROVE  /\ s \in boards.streams /\ ~OnePacket(s)
                        /\ Taken(s) =>
                             /\ \A i \in 1..Len(todo[s.board]) :
                                  todo[s.board][i].fifo = Target(s)
                                    => "FRAMEEND" \notin todo[s.board][i].arg.flags
                             /\ (\A i \in 1..Len(todo[s.board]) :
                                  todo[s.board][i].fifo # Target(s)) => Begun(Target(s))'
    BY DEF StreamInv, srcVars
  <2>2. Taken(s) => Target(s) \in Producers BY WiringAssumption
  <2>3. QED BY <1>1, <2>1, <2>2 DEF StreamInv
<1>5. QED BY <1>3, <1>4

\* A call takes its frame up where the message left it.
LEMMA NextCallKeeps ==
  ASSUME SysInv, [Next]_vars, NEW b \in Boards, NextCall(b)
  PROVE  TailInv' /\ PendingInv' /\ StreamInv'
<1> USE DEF SysInv
<1>1. PICK p \in Producers, a \in Calls :
        /\ p = todo[b][1].fifo /\ a = todo[b][1].arg /\ Call(p, a) /\ p[1] = b
  BY NextCallIsCall DEF FifosOf
<1>2. /\ todo[b] \in Seq(CallOf(b)) /\ todo[b] # <<>>
      /\ todo' = [todo EXCEPT ![b] = Tail(@)] /\ UNCHANGED srcVars
      /\ \A q \in Producers : q[1] = b => pc[q] = "idle"
  BY NextCallIsCall DEF NextCall
<1>3. /\ UNCHANGED <<list, status, ret>> /\ pc[p] = "idle"
      /\ call' = [call EXCEPT ![p] = a]
      /\ pc' = [pc EXCEPT ![p] = IF "NEWFRAME" \in a.flags THEN "alloc" ELSE "tail"]
  BY <1>1 DEF Call, Goto, fifoVars
<1>4. "NEWFRAME" \notin a.flags => Len(todo[b]) = 1 /\ Filling(p)
  <2>1. 1 \in 1..Len(todo[b]) BY <1>2
  <2>2. QED BY <1>1, <2>1 DEF PendingInv
<1>5. /\ call'[p] = a /\ pc'[p] = (IF "NEWFRAME" \in a.flags THEN "alloc" ELSE "tail")
      /\ \A q \in Producers : q # p => pc'[q] = pc[q] /\ call'[q] = call[q]
  BY <1>3 DEF IInv, TypeOK
<1>6. /\ todo'[b] = Tail(todo[b]) /\ Len(todo'[b]) = Len(todo[b]) - 1 /\ Len(todo[b]) \in Nat
      /\ \A i \in 1..Len(todo'[b]) : i + 1 \in 1..Len(todo[b]) /\ todo'[b][i] = todo[b][i + 1]
      /\ \A c \in Boards : c # b => todo'[c] = todo[c]
  BY <1>2 DEF SysType
<1>7. TailInv'
  <2>1. SUFFICES ASSUME NEW q \in Producers, pc'[q] = "tail" PROVE Filling(q)
    BY <1>3 DEF TailInv, Filling, Last
  <2>2. CASE q = p BY <1>4, <1>5, <2>1, <2>2
  <2>3. CASE q # p BY <1>5, <2>1, <2>3 DEF TailInv
  <2>4. QED BY <2>2, <2>3
<1>8. PendingInv'
  <2>1. SUFFICES ASSUME NEW c \in Boards, NEW i \in 1..Len(todo'[c]),
                        "NEWFRAME" \notin todo'[c][i].arg.flags
                 PROVE  /\ Len(todo'[c]) = 1 /\ pc'[todo'[c][i].fifo] = "idle"
                        /\ Filling(todo'[c][i].fifo)
    BY <1>3 DEF PendingInv, Filling, Last
  <2>2. CASE c = b
    <3>1. i + 1 \in 1..Len(todo[b]) /\ "NEWFRAME" \notin todo[b][i + 1].arg.flags
      BY <1>6, <2>1, <2>2
    <3>2. Len(todo[b]) = 1 BY <3>1 DEF PendingInv
    <3>3. i \in 1..Len(todo'[b]) BY <2>2
    <3>4. Len(todo'[b]) = 0 BY <1>6, <3>2
    <3>5. QED BY <3>3, <3>4
  <2>3. CASE c # b
    <3>1. todo'[c] = todo[c] /\ todo[c] \in Seq(CallOf(c)) BY <1>6, <2>3 DEF SysType
    <3>2. todo[c][i].fifo \in Producers /\ todo[c][i].fifo[1] = c BY <3>1, CallFifo
    <3>3. todo[c][i].fifo # p BY <1>1, <2>3, <3>2
    <3>4. Len(todo[c]) = 1 /\ pc[todo[c][i].fifo] = "idle" /\ Filling(todo[c][i].fifo)
      BY <2>1, <3>1 DEF PendingInv
    <3>5. QED BY <1>5, <3>1, <3>2, <3>3, <3>4
  <2>4. QED BY <2>2, <2>3
<1>9. StreamInv'
  <2>1. SUFFICES ASSUME NEW s \in Stream, frame[s].next > 0
                 PROVE  /\ s \in boards.streams /\ ~OnePacket(s)
                        /\ Taken(s) =>
                             /\ \A i \in 1..Len(todo'[s.board]) :
                                  todo'[s.board][i].fifo = Target(s)
                                    => "FRAMEEND" \notin todo'[s.board][i].arg.flags
                             /\ (\A i \in 1..Len(todo'[s.board]) :
                                  todo'[s.board][i].fifo # Target(s)) => Begun(Target(s))'
    BY <1>2 DEF StreamInv, srcVars
  <2>2. s \in boards.streams /\ ~OnePacket(s) BY <2>1 DEF StreamInv
  <2>3. ASSUME Taken(s)
        PROVE  /\ \A i \in 1..Len(todo'[s.board]) :
                    todo'[s.board][i].fifo = Target(s)
                      => "FRAMEEND" \notin todo'[s.board][i].arg.flags
               /\ (\A i \in 1..Len(todo'[s.board]) :
                    todo'[s.board][i].fifo # Target(s)) => Begun(Target(s))'
    <3>1. Target(s) \in Producers /\ Target(s)[1] = s.board /\ s.board \in Boards
      BY <2>3, DestIsTarget, StreamType DEF FifosOf
    <3>2. /\ \A i \in 1..Len(todo[s.board]) :
               todo[s.board][i].fifo = Target(s)
                 => "FRAMEEND" \notin todo[s.board][i].arg.flags
          /\ (\A i \in 1..Len(todo[s.board]) :
               todo[s.board][i].fifo # Target(s)) => Begun(Target(s))
      BY <2>1, <2>3 DEF StreamInv
    <3>3. Begun(Target(s)) /\ Target(s) # p => Begun(Target(s))'
      <4>1. ASSUME Target(s) # p
            PROVE  pc'[Target(s)] = pc[Target(s)] /\ call'[Target(s)] = call[Target(s)]
        BY <1>5, <3>1, <4>1
      <4>2. QED BY <1>3, <4>1 DEF Begun, Filling, Last
    <3>4. CASE s.board # b
      BY <1>1, <1>6, <3>1, <3>2, <3>3, <3>4
    <3>5. CASE s.board = b
      <4>1. \A i \in 1..Len(todo'[b]) : todo'[b][i].fifo = Target(s)
              => "FRAMEEND" \notin todo'[b][i].arg.flags
        BY <1>6, <3>2, <3>5
      <4>2. 1 \in 1..Len(todo[b]) BY <1>2
      <4>3. CASE Target(s) = p
        <5>1. "FRAMEEND" \notin a.flags BY <1>1, <3>2, <3>5, <4>2, <4>3
        <5>2. Begun(p)'
          BY <1>3, <1>4, <1>5, <5>1 DEF Begun, Filling, Last
        <5>3. QED BY <3>5, <4>1, <4>3, <5>2
      <4>4. CASE Target(s) # p
        <5>1. ASSUME \A i \in 1..Len(todo'[b]) : todo'[b][i].fifo # Target(s),
                     NEW i \in 1..Len(todo[b])
              PROVE  todo[b][i].fifo # Target(s)
          <6>1. CASE i = 1 BY <1>1, <4>4, <6>1
          <6>2. CASE i # 1
            <7>1. i - 1 \in 1..Len(todo'[b]) /\ (i - 1) + 1 = i BY <1>6, <6>2
            <7>2. todo'[b][i - 1] = todo[b][i] BY <1>6, <7>1
            <7>3. QED BY <5>1, <7>1, <7>2
          <6>3. QED BY <6>1, <6>2
        <5>2. QED BY <3>2, <3>3, <3>5, <4>1, <4>4, <5>1
      <4>5. QED BY <4>3, <4>4
    <3>6. QED BY <3>4, <3>5
  <2>4. QED BY <2>2, <2>3
<1>10. QED BY <1>7, <1>8, <1>9

\* The inductive step.
LEMMA SysInvKept ==
  ASSUME boards.resume # "packet", SysInv, [SysNext]_allVars
  PROVE  SysInv'
<1> USE DEF SysInv
<1>1. SysType' BY SysTypeKept
<1>2. [Next]_vars BY SysStep
<1>3. IInv' BY <1>2, NextIInv
<1>4. NoCrash' BY <1>2, TailSafe
<1>6. ASSUME UNCHANGED <<pc, list, status>> PROVE TailInv'
  BY <1>6 DEF TailInv, Filling, Last
<1>7. CASE UNCHANGED allVars
  <2>1. UNCHANGED <<pc, list, status, call, ret, boards, frame, todo>>
    BY <1>7 DEF allVars, vars, srcVars, fifoVars, prodVars
  <2>2. PendingInv' BY <2>1 DEF PendingInv, Filling, Last
  <2>3. StreamInv' BY <2>1 DEF StreamInv, Begun, Filling, Last
  <2>4. QED BY <1>1, <1>3, <1>4, <1>6, <2>1, <2>2, <2>3
<1>8. ASSUME NEW s \in boards.streams, NEW k \in s.frames, Receive(s, k) PROVE SysInv'
  <2>1. UNCHANGED <<pc, list, status>>
    BY <1>8 DEF Receive, MsgHandle, vars, fifoVars, prodVars
  <2>2. QED BY <1>1, <1>3, <1>4, <1>6, <1>8, <2>1, ReceiveKeeps
<1>9. ASSUME NEW b \in Boards, Reconnect(b) PROVE SysInv'
  <2>1. UNCHANGED <<pc, list, status>> BY <1>9 DEF Reconnect, vars, fifoVars, prodVars
  <2>2. QED BY <1>1, <1>3, <1>4, <1>6, <1>9, <2>1, ReconnectKeeps
<1>10. ASSUME NEW b \in Boards, NextCall(b) PROVE SysInv'
  BY <1>1, <1>2, <1>3, <1>4, <1>10, NextCallKeeps
<1>11. ASSUME \/ \E p \in Producers : Fifoside(ProducerStep(p))
              \/ \E c \in Consumers : Fifoside(ConsumerStep(c))
       PROVE  SysInv'
  <2>1. UNCHANGED <<srcVars, todo>> BY <1>11 DEF Fifoside
  <2>2. ASSUME NEW p \in Producers, NEW a \in Calls, Call(p, a) PROVE FALSE
    <3>1. pc[p] = "idle" /\ pc'[p] \in {"alloc", "tail"} /\ call' = [call EXCEPT ![p] = a]
      BY <2>2 DEF Call, Goto, IInv, TypeOK
    <3>2. CASE \E c \in Consumers : ConsumerStep(c)
      <4>1. pc' = pc BY <3>2 DEF ConsumerStep, Release, ConsumerCheck, Unlink, prodVars
      <4>2. QED BY <3>1, <4>1
    <3>3. ASSUME NEW q \in Producers, ProducerStep(q) PROVE FALSE
      <4>1. CASE q # p BY <3>1, <3>3, <4>1, OwnCallOnly
      <4>2. CASE q = p BY <3>1, <3>3, <4>2, StepNotIdle
      <4>3. QED BY <4>1, <4>2
    <3>4. QED BY <1>11, <3>2, <3>3 DEF Fifoside
  <2>3. ASSUME NEW p \in Producers, pc[p] = "idle" PROVE pc'[p] = "idle"
    <3>1. CASE \E c \in Consumers : ConsumerStep(c)
      BY <2>3, <3>1 DEF ConsumerStep, Release, ConsumerCheck, Unlink, prodVars
    <3>2. ASSUME NEW q \in Producers, ProducerStep(q) PROVE pc'[p] = "idle"
      BY <2>3, <3>2, OwnCallOnly, StepNotIdle
    <3>3. QED BY <1>11, <3>1, <3>2 DEF Fifoside
  <2>4. TailInv'
    <3> SUFFICES ASSUME NEW p \in Producers, pc'[p] = "tail" PROVE Filling(p)' BY DEF TailInv
    <3>1. pc[p] = "tail" BY <1>2, <2>2, TailOnlyByCall
    <3>2. QED BY <1>2, <3>1, FillingKept DEF TailInv
  <2>5. PendingInv' /\ StreamInv' BY <1>2, <2>1, <2>2, <2>3, FifoKeeps
  <2>6. QED BY <1>1, <1>3, <1>4, <2>4, <2>5
<1>12. QED BY <1>7, <1>8, <1>9, <1>10, <1>11 DEF SysNext, Boardside

\* What the boards are does not change.
LEMMA BoardsStay == [SysNext]_allVars => boards' = boards
BY DEF SysNext, allVars, srcVars, Boardside, Receive, Reconnect, NextCall, Fifoside

LEMMA InitSysInv == SysInit => SysInv
<1> SUFFICES ASSUME SysInit PROVE SysInv OBVIOUS
<1>1. <<1>> \in Frames /\ Len(<<1>>) = 1 BY IngestAssumption
<1>2. SysType BY <1>1 DEF SysInit, SysType, Position
<1>3. IInv BY InitIInv DEF SysInit
<1>4. TailInv /\ NoCrash BY DEF SysInit, Init, TailInv, NoCrash
<1>5. PendingInv /\ StreamInv BY DEF SysInit, PendingInv, StreamInv
<1>6. QED BY <1>2, <1>3, <1>4, <1>5 DEF SysInv

\* The unguarded read of listtail->status in data_add dies of an empty list
\* only where boards go on in the middle of a frame after a lost connection:
\* whatever else they send and wherever their connections break, with any
\* number of boards, streams and threads.
THEOREM SysNoNullTail == SysSpec => []CrashNeedsMidFrame
<1> DEFINE MidOr == boards.resume # "packet" => SysInv
<1>1. SysInit => MidOr BY InitSysInv
<1>2. MidOr /\ [SysNext]_allVars => MidOr' BY SysInvKept, BoardsStay
<1>3. MidOr => CrashNeedsMidFrame BY DEF SysInv, NoCrash, CrashNeedsMidFrame
<1>4. QED BY <1>1, <1>2, <1>3, PTL DEF SysSpec

-----------------------------------------------------------------------------
(* No frame is a mixture of two                                             *)

\* The frame fifo p is filling.
Top(p) == Last(list[p])

\* The first l cells of x are packets of frame k from before packet n, each of
\* them whole and all in order; if the frame fits, those packets are all there.
Packets(x, l, st, k, n) ==
  /\ \A i \in 1..l : /\ x[i] \in Data \X (Nat \ {0})
                    /\ x[i][1].stamp = st /\ x[i][1].of = k /\ x[i][1].num < n
  /\ \A i \in 1..l : x[i][2] > 1 => i > 1 /\ x[i - 1] = <<x[i][1], x[i][2] - 1>>
  /\ \A i \in 1..l : x[i][2] < Size(x[i][1]) => i < l /\ x[i + 1] = <<x[i][1], x[i][2] + 1>>
  /\ \A i, j \in 1..l : i < j => Before(x[i], x[j])
  /\ Fits(k) => \A i \in 1..l : Start(x[i][1]) + x[i][2] = i
  /\ Fits(k) => l = IF n = 0 THEN 0 ELSE k[n]

Cells(t, st, k, n) == Packets(data[t], len[t], st, k, n)

\* Fifo p is inside the frame of packet d and waits for it; what does not fit
\* has been dropped.
Waits(p, d) == Filling(p) /\ Cells(Top(p), d.stamp, d.of, d.num)

\* Fifo p is ready for the beginning of a frame, the first of a stream or not.
\* A frame it is still filling did not fit, or its connection broke.
Rests(p, first) ==
  Filling(p) =>
    /\ \E st \in 0..1, k \in Frames, n \in Nat :
         /\ Cells(Top(p), st, k, n)
         /\ Fits(k) => boards.resume = "frame" \/ first
    /\ len[Top(p)] = 0 => MayBeEmpty(p)
    /\ first => boards.resume = "start"

\* Fifo p is ready for the call a.
Expects(p, a) ==
  IF a.data.num = 0 THEN Rests(p, "FIRSTFRAME" \in a.flags) ELSE Waits(p, a.data)

\* The call a is for the packet its stream s sent last.
LastSent(s, a) ==
  /\ a.data \in Data
  /\ "NEWFRAME" \in a.flags <=> a.data.num = 0
  /\ "FRAMEEND" \in a.flags <=> a.data.num = Len(a.data.of) - 1
  /\ IF a.data.num = Len(a.data.of) - 1
     THEN frame[s].next = 0 /\ frame[s].number = 1
     ELSE /\ frame[s].next = a.data.num + 1
          /\ frame[s].of = a.data.of
          /\ frame[s].stamp = a.data.stamp
  /\ OnePacket(s) => a.data.of = <<1>> /\ "FIRSTFRAME" \notin a.flags
  /\ OnePacket(s) \/ a.data.of \in s.frames

\* The thread is inside call a for stream s and fifo p.
InCall(s, p, a) ==
  /\ LastSent(s, a)
  /\ pc[p] \in {"alloc", "flush", "tail"} => Expects(p, a)
  /\ pc[p] = "tail" => a.data.num # 0
  /\ pc[p] = "copy" => Waits(p, a.data)
  /\ pc[p] \in {"alloc", "flush", "link"} => a.data.num = 0
  /\ pc[p] \in Distributing \cup {"check"} =>
       IF ret[p] = "link" THEN a.data.num = 0
       ELSE ~Filling(p) /\ "FRAMEEND" \in a.flags

\* Call a for stream s and fifo p is still to be made.
Pending(s, p, a) ==
  /\ LastSent(s, a)
  /\ pc[p] = "idle" => Expects(p, a)
  /\ pc[p] # "idle" \/ Len(todo[s.board]) > 1 => OnePacket(s)

\* Between two messages fifo p is where stream s, at position f, is.
InStep(p, f) ==
  IF f.next > 0 THEN Waits(p, [stamp |-> f.stamp, num |-> f.next, of |-> f.of])
  ELSE Rests(p, f.number = 0)

Content(s, p) ==
  /\ \A a \in Calls : (call[p] = a /\ pc[p] # "idle") => InCall(s, p, a)
  /\ \A i \in 1..Len(todo[s.board]) : \A a \in Calls :
       (todo[s.board][i].fifo = p /\ todo[s.board][i].arg = a) => Pending(s, p, a)
  /\ (pc[p] = "idle" /\ \A i \in 1..Len(todo[s.board]) : todo[s.board][i].fifo # p) =>
       \A f \in Position : frame[s] = f => InStep(p, f)
  /\ OnePacket(s) /\ pc[p] = "idle" => ~Filling(p)

ContentInv == \A s \in boards.streams : Taken(s) => Content(s, Target(s))

\* A new frame is empty.
NewInv == \A p \in Producers : HasCur(p) => len[cur[p]] = 0

\* Only streams the boards have are worked on.
OwnerInv ==
  \A p \in Producers :
    (pc[p] # "idle" \/ \E b \in Boards : \E i \in 1..Len(todo[b]) : todo[b][i].fifo = p)
      => \E s \in boards.streams : Taken(s) /\ Target(s) = p

\* The frames being handed out.
OutInv ==
  \A p \in Producers : pc[p] \in Distributing =>
    Whole(p, SubSeq(data[item[p]], 1, len[item[p]]))

WInv == SysInv /\ RInv /\ NewInv /\ OwnerInv /\ ContentInv /\ OutInv /\ FramesWhole

\* A packet goes behind those before it.
LEMMA PacketsMore ==
  ASSUME NEW x, NEW y, NEW l \in Nat, NEW d \in Data,
         Packets(x, l, d.stamp, d.of, d.num),
         \A i \in 1..l : y[i] = x[i],
         \A i \in 1..Size(d) : y[l + i] = <<d, i>>
  PROVE  Packets(y, l + Size(d), d.stamp, d.of, d.num + 1)
<1>m. PICK m \in Nat \ {0} : m = Size(d) BY PacketType
<1>1. /\ d.num \in Nat /\ Start(d) \in Nat /\ Start(d) + m = d.of[d.num + 1]
      /\ Start(d) = IF d.num = 0 THEN 0 ELSE d.of[d.num]
  BY <1>m, PacketType DEF Start
<1>k. PICK k : k = d.of OBVIOUS
<1>n. PICK n \in Nat : n = d.num BY <1>1
<1>2. ASSUME NEW i \in 1..l
      PROVE  /\ y[i] = x[i] /\ x[i] \in Data \X (Nat \ {0})
             /\ x[i][1] \in Data /\ x[i][1].num \in Nat /\ x[i][1].num < n
             /\ x[i][1].stamp = d.stamp /\ x[i][1].of = k
  BY <1>k, <1>n, PacketType DEF Packets
<1>3. ASSUME NEW i \in 1 .. l + m, i \notin 1..l
      PROVE  /\ i - l \in 1..m /\ i = l + (i - l) /\ y[i] = <<d, i - l>>
             /\ y[i][1] = d /\ y[i][2] = i - l
  <2>1. i - l \in 1..m /\ i = l + (i - l) BY <1>3
  <2>2. y[l + (i - l)] = <<d, i - l>> BY <1>m, <2>1
  <2>3. y[i] = <<d, i - l>> BY <2>1, <2>2
  <2>4. QED BY <2>1, <2>3
<1>4. ASSUME NEW i \in 1 .. l + m
      PROVE  /\ y[i] \in Data \X (Nat \ {0})
             /\ y[i][1].stamp = d.stamp /\ y[i][1].of = k /\ y[i][1].num < n + 1
  <2>1. CASE i \in 1..l BY <1>2, <2>1
  <2>2. CASE i \notin 1..l BY <1>3, <1>k, <1>n, <2>2
  <2>3. QED BY <2>1, <2>2
<1>5. ASSUME NEW i \in 1 .. l + m, y[i][2] > 1
      PROVE  i > 1 /\ y[i - 1] = <<y[i][1], y[i][2] - 1>>
  <2>1. CASE i \in 1..l
    <3>1. i > 1 /\ x[i - 1] = <<x[i][1], x[i][2] - 1>> BY <1>2, <1>5, <2>1 DEF Packets
    <3>2. i - 1 \in 1..l BY <2>1, <3>1
    <3>3. QED BY <1>2, <2>1, <3>1, <3>2
  <2>2. CASE i \notin 1..l
    <3>1. i - l \in 1..m /\ y[i][1] = d /\ y[i][2] = i - l BY <1>3, <2>2
    <3>2. i - l > 1 BY <1>5, <3>1
    <3>3. i > 1 /\ i - 1 \in 1 .. l + m /\ i - 1 \notin 1..l /\ (i - 1) - l = (i - l) - 1
      BY <3>2
    <3>4. y[i - 1] = <<d, (i - 1) - l>> BY <1>3, <3>3
    <3>5. QED BY <3>1, <3>3, <3>4
  <2>3. QED BY <2>1, <2>2
<1>6. ASSUME NEW i \in 1 .. l + m, y[i][2] < Size(y[i][1])
      PROVE  i < l + m /\ y[i + 1] = <<y[i][1], y[i][2] + 1>>
  <2>1. CASE i \in 1..l
    <3>1. i < l /\ x[i + 1] = <<x[i][1], x[i][2] + 1>> BY <1>2, <1>6, <2>1 DEF Packets
    <3>2. i + 1 \in 1..l /\ i < l + m BY <2>1, <3>1
    <3>3. QED BY <1>2, <2>1, <3>1, <3>2
  <2>2. CASE i \notin 1..l
    <3>1. i - l \in 1..m /\ y[i][1] = d /\ y[i][2] = i - l BY <1>3, <2>2
    <3>2. i - l < m BY <1>6, <1>m, <3>1
    <3>3. i < l + m /\ i + 1 \in 1 .. l + m /\ i + 1 \notin 1..l /\ (i + 1) - l = (i - l) + 1
      BY <2>2, <3>2
    <3>4. y[i + 1] = <<d, (i + 1) - l>> BY <1>3, <3>3
    <3>5. QED BY <3>1, <3>3, <3>4
  <2>3. QED BY <2>1, <2>2
<1>7. ASSUME NEW i \in 1 .. l + m, NEW j \in 1 .. l + m, i < j
      PROVE  Before(y[i], y[j])
  <2>1. CASE j \in 1..l
    <3>1. i \in 1..l BY <1>7, <2>1
    <3>2. Before(x[i], x[j]) BY <1>7, <2>1, <3>1 DEF Packets
    <3>3. QED BY <1>2, <2>1, <3>1, <3>2
  <2>2. CASE i \in 1..l /\ j \notin 1..l
    <3>1. y[j][1] = d BY <1>3, <2>2
    <3>2. y[i][1].stamp = d.stamp /\ y[i][1].of = d.of /\ y[i][1].num < d.num
      BY <1>2, <1>k, <1>n, <2>2
    <3>3. QED BY <3>1, <3>2 DEF Before
  <2>3. CASE i \notin 1..l /\ j \notin 1..l
    <3>1. /\ y[i][1] = d /\ y[i][2] = i - l /\ y[j][1] = d /\ y[j][2] = j - l
      BY <1>3, <2>3
    <3>2. i - l < j - l BY <1>7
    <3>3. QED BY <3>1, <3>2 DEF Before
  <2>4. QED BY <1>7, <2>1, <2>2, <2>3
<1>8. ASSUME Fits(k)
      PROVE  /\ \A i \in 1 .. l + m : Start(y[i][1]) + y[i][2] = i
             /\ l + m = IF n + 1 = 0 THEN 0 ELSE k[n + 1]
  <2>1. l = Start(d) /\ \A i \in 1..l : Start(x[i][1]) + x[i][2] = i
    BY <1>1, <1>8, <1>k, <1>n DEF Packets
  <2>2. ASSUME NEW i \in 1 .. l + m PROVE Start(y[i][1]) + y[i][2] = i
    <3>1. CASE i \in 1..l BY <1>2, <2>1, <3>1
    <3>2. CASE i \notin 1..l
      <4>1. i = l + (i - l) /\ y[i][1] = d /\ y[i][2] = i - l BY <1>3, <3>2
      <4>2. QED BY <2>1, <4>1
    <3>3. QED BY <3>1, <3>2
  <2>3. n + 1 # 0 /\ l + m = k[n + 1] BY <1>1, <1>k, <1>n, <2>1
  <2>4. QED BY <2>2, <2>3
<1>9. Packets(y, l + m, d.stamp, k, n + 1) BY <1>4, <1>5, <1>6, <1>7, <1>8 DEF Packets
<1>10. QED BY <1>9, <1>m, <1>k, <1>n

\* A packet of a frame that does not fit may be passed over.
LEMMA PacketsPast ==
  ASSUME NEW x, NEW l \in Nat, NEW d \in Data, ~Fits(d.of),
         Packets(x, l, d.stamp, d.of, d.num)
  PROVE  Packets(x, l, d.stamp, d.of, d.num + 1)
<1>1. d.num \in Nat BY PacketType
<1>2. ASSUME NEW i \in 1..l PROVE x[i][1].num < d.num + 1
  <2>1. x[i] \in Data \X (Nat \ {0}) /\ x[i][1].num < d.num BY DEF Packets
  <2>2. x[i][1].num \in Nat BY <2>1, PacketType
  <2>3. QED BY <1>1, <2>1, <2>2
<1>3. QED BY <1>2 DEF Packets

\* The first cells of a buffer as a frame that comes out of fifo p.
LEMMA PacketsWhole ==
  ASSUME NEW x, NEW l \in Nat, NEW st, NEW k, NEW n, Packets(x, l, st, k, n),
         NEW p, l = 0 => MayBeEmpty(p),
         l # 0 /\ Fits(k) => boards.resume = "frame" \/ l = k[Len(k)]
  PROVE  Whole(p, SubSeq(x, 1, l))
<1>b. PICK b : b = SubSeq(x, 1, l) OBVIOUS
<1>s. PICK S : S = {x[i] : i \in 1..l} OBVIOUS
<1>1. /\ b \in Seq(S) /\ Len(b) = l /\ \A i \in 1..l : b[i] = x[i]
  <2>1. \A i \in 1..l : x[i] \in S BY <1>s
  <2>2. 1 \in Int /\ l \in Int OBVIOUS
  <2>3. b \in Seq(S) BY <1>b, <2>1, <2>2, SubSeqProperties
  <2>4. Len(b) = l BY <1>b, <2>1, <2>2, SubSeqProperties
  <2>5. \A i \in 1..l : b[i] = x[i] BY <1>b, <2>1, <2>2, SubSeqProperties
  <2>6. QED BY <2>3, <2>4, <2>5
<1>2. DOMAIN b = 1..l BY <1>1
<1>3. InOrder(b)
  <2>1. ASSUME NEW i \in 1..l PROVE PacketWhole(b, i)
    <3>1. x[i][2] > 1 => i > 1 /\ b[i - 1] = <<x[i][1], x[i][2] - 1>>
      <4>1. ASSUME x[i][2] > 1 PROVE i > 1 /\ x[i - 1] = <<x[i][1], x[i][2] - 1>>
        BY <4>1 DEF Packets
      <4>2. i > 1 => i - 1 \in 1..l OBVIOUS
      <4>3. QED BY <1>1, <4>1, <4>2
    <3>2. x[i][2] < Size(x[i][1]) => i < l /\ b[i + 1] = <<x[i][1], x[i][2] + 1>>
      <4>1. ASSUME x[i][2] < Size(x[i][1]) PROVE i < l /\ x[i + 1] = <<x[i][1], x[i][2] + 1>>
        BY <4>1 DEF Packets
      <4>2. i < l => i + 1 \in 1..l OBVIOUS
      <4>3. QED BY <1>1, <4>1, <4>2
    <3>3. QED BY <1>1, <3>1, <3>2 DEF PacketWhole
  <2>2. ASSUME NEW i \in 1..l, NEW j \in 1..l, i < j PROVE Before(b[i], b[j])
    BY <1>1, <2>2 DEF Packets
  <2>3. QED BY <1>2, <2>1, <2>2 DEF InOrder
<1>4. b = <<>> => l = 0 BY <1>1
<1>5. ASSUME b # <<>>, Fits(b[1][1].of)
      PROVE  Beginning(b) /\ (boards.resume = "frame" \/ Len(b) = Last(b[1][1].of))
  <2>1. l # 0 BY <1>1, <1>5
  <2>2. 1 \in 1..l BY <2>1
  <2>3. b[1][1].of = k BY <1>1, <2>2 DEF Packets
  <2>4. \A i \in 1..l : Start(b[i][1]) + b[i][2] = i BY <1>1, <1>5, <2>3 DEF Packets
  <2>5. QED BY <1>1, <1>2, <1>5, <2>1, <2>3, <2>4 DEF Beginning, Last
<1>6. Whole(p, b) BY <1>3, <1>4, <1>5 DEF Whole
<1>7. QED BY <1>b, <1>6

\* Nothing is written into a new frame before it is in the list.
LEMMA NewKept == ASSUME IInv, NewInv, [Next]_vars PROVE NewInv'
<1> USE DEF IInv
<1> SUFFICES ASSUME NEW p \in Producers, HasCur(p)' PROVE len'[cur'[p]] = 0 BY DEF NewInv
<1>1. CASE AllocFrame(p)
  <2>1. PICK x \in Item : cur' = [cur EXCEPT ![p] = x] /\ len' = [len EXCEPT ![x] = 0]
    BY <1>1 DEF AllocFrame
  <2>2. QED BY <2>1 DEF TypeOK
<1>2. CASE ~AllocFrame(p)
  <2>1. HasCur(p) /\ cur'[p] = cur[p]
    <3> USE DEF HasCur, Goto, TypeOK
    <3>1. CASE UNCHANGED vars BY <3>1 DEF vars, prodVars
    <3>2. ASSUME NEW c \in Consumers, ConsumerStep(c) PROVE HasCur(p) /\ cur'[p] = cur[p]
      BY <3>2 DEF ConsumerStep, Release, ConsumerCheck, Unlink, prodVars
    <3>3. ASSUME NEW q \in Producers, NEW a \in Calls, Call(q, a)
          PROVE  HasCur(p) /\ cur'[p] = cur[p]
      BY <3>3 DEF Call, Distributing
    <3>4. ASSUME NEW q \in Producers, ProducerStep(q) PROVE HasCur(p) /\ cur'[p] = cur[p]
      <4>1. CASE AllocFrame(q) BY <1>2, <4>1 DEF AllocFrame
      <4>2. CASE Flush(q)
        <5>1. \/ pc' = [pc EXCEPT ![q] = "link"] /\ ret' = ret
              \/ pc' = [pc EXCEPT ![q] = "next_con"] /\ ret' = [ret EXCEPT ![q] = "link"]
          BY <4>2 DEF Flush
        <5>2. pc[q] = "flush" /\ cur' = cur BY <4>2 DEF Flush
        <5>3. QED BY <5>1, <5>2 DEF Distributing
      <4>3. CASE LinkFrame(q) BY <4>3 DEF LinkFrame, Distributing
      <4>4. CASE CheckTail(q) BY <4>4 DEF CheckTail, Distributing
      <4>5. CASE CopyPacket(q)
        <5>1. \/ pc' = [pc EXCEPT ![q] = "idle"] /\ ret' = ret
              \/ pc' = [pc EXCEPT ![q] = "next_con"] /\ ret' = [ret EXCEPT ![q] = "idle"]
          BY <4>5 DEF CopyPacket, FrameEnd
        <5>2. cur' = cur BY <4>5 DEF CopyPacket, FrameEnd
        <5>3. QED BY <5>1, <5>2 DEF Distributing
      <4>6. CASE AllocForConsumer(q) \/ CountReference(q) \/ AddToConsumer(q)
                   \/ SetDoing(q) \/ ProducerCheck(q)
        BY <4>6 DEF AllocForConsumer, CountReference, AddToConsumer, SetDoing, ProducerCheck,
           Distributing
      <4>7. QED BY <3>4, <4>1, <4>2, <4>3, <4>4, <4>5, <4>6 DEF ProducerStep
    <3>5. QED BY <3>1, <3>2, <3>3, <3>4 DEF Next
  <2>2. cur[p] \in Item /\ status[cur[p]] = "FILLING" /\ ~InList(cur[p]) BY <2>1 DEF CurInv
  <2>3. len'[cur[p]] = len[cur[p]]
    <3>1. ASSUME NEW q \in Producers, list[q] # <<>> PROVE Last(list[q]) # cur[p]
      BY <2>2, <3>1, TailItem DEF InList
    <3>2. ASSUME NEW q \in Producers, ProducerStep(q) PROVE len'[cur[p]] = len[cur[p]]
      <4>1. CASE AllocFrame(q) BY <2>2, <4>1 DEF AllocFrame, FirstUnused, TypeOK
      <4>2. CASE Flush(q) BY <2>2, <3>1, <4>2 DEF Flush, Filling, TypeOK
      <4>3. CASE CopyPacket(q)
        <5>1. list[q] # <<>> BY <4>3 DEF CopyPacket, FrameEnd, CopyInv, Filling
        <5>2. len' = len \/ len' = [len EXCEPT ![Last(list[q])] = @ + call[q].len]
          BY <4>3 DEF CopyPacket, FrameEnd
        <5>3. QED BY <2>2, <3>1, <5>1, <5>2 DEF TypeOK
      <4>4. CASE AllocForConsumer(q) BY <2>2, <4>4 DEF AllocForConsumer, FirstUnused, TypeOK
      <4>5. CASE LinkFrame(q) \/ CheckTail(q) \/ CountReference(q) \/ AddToConsumer(q)
                   \/ SetDoing(q) \/ ProducerCheck(q)
        BY <4>5 DEF LinkFrame, CheckTail, CountReference, AddToConsumer, SetDoing, ProducerCheck,
           fifoVars
      <4>6. QED BY <3>2, <4>1, <4>2, <4>3, <4>4, <4>5 DEF ProducerStep
    <3>3. QED
      BY <3>2 DEF Next, Call, ConsumerStep, Release, ConsumerCheck, Unlink, vars, fifoVars
  <2>4. QED BY <2>1, <2>3 DEF NewInv
<1>3. QED BY <1>1, <1>2

\* The frame at the end of fifo p's list is the same in both states.
TopStays(p) ==
  /\ Filling(p)' <=> Filling(p)
  /\ Filling(p) => /\ Top(p)' = Top(p)
                   /\ len'[Top(p)] = len[Top(p)]
                   /\ data'[Top(p)] = data[Top(p)]

\* Then so is what the fifo is ready for.
LEMMA SameTop ==
  ASSUME NEW p, TopStays(p), boards' = boards
  PROVE  /\ \A d : Waits(p, d)' <=> Waits(p, d)
         /\ \A first \in BOOLEAN : Rests(p, first)' <=> Rests(p, first)
         /\ \A a : Expects(p, a)' <=> Expects(p, a)
         /\ \A f : InStep(p, f)' <=> InStep(p, f)
<1>1. Filling(p) => \A st, k, n : Cells(Top(p), st, k, n)' <=> Cells(Top(p), st, k, n)
  BY DEF TopStays, Cells
<1>m. MayBeEmpty(p)' <=> MayBeEmpty(p) BY DEF MayBeEmpty
<1>2. \A d : Waits(p, d)' <=> Waits(p, d)
  BY <1>1 DEF TopStays, Waits
<1>3. \A first \in BOOLEAN : Rests(p, first)' <=> Rests(p, first)
  BY <1>1, <1>m DEF TopStays, Rests
<1>4. \A a : Expects(p, a)' <=> Expects(p, a)
  <2> TAKE a
  <2>1. Rests(p, "FIRSTFRAME" \in a.flags)' <=> Rests(p, "FIRSTFRAME" \in a.flags)
    BY <1>1, <1>m DEF TopStays, Rests
  <2>2. QED BY <1>2, <2>1 DEF Expects
<1>5. \A f : InStep(p, f)' <=> InStep(p, f)
  BY <1>2, <1>3 DEF InStep
<1>6. QED BY <1>2, <1>3, <1>4, <1>5

\* A fifo nobody calls and whose stream does not move stays in step with it.
LEMMA AwayKeeps ==
  ASSUME NEW s, NEW p, TopStays(p), Content(s, p), boards' = boards,
         pc'[p] = pc[p], call'[p] = call[p], ret'[p] = ret[p],
         frame'[s] = frame[s], todo'[s.board] = todo[s.board]
  PROVE  Content(s, p)'
<1>1. /\ \A d : Waits(p, d)' <=> Waits(p, d)
      /\ \A a : Expects(p, a)' <=> Expects(p, a)
      /\ \A f : InStep(p, f)' <=> InStep(p, f)
      /\ Filling(p)' <=> Filling(p)
  BY SameTop DEF TopStays
<1>2. \A a : LastSent(s, a)' <=> LastSent(s, a) BY DEF LastSent, OnePacket
<1>3. \A a : InCall(s, p, a)' <=> InCall(s, p, a) BY <1>1, <1>2 DEF InCall
<1>4. \A a : Pending(s, p, a)' <=> Pending(s, p, a) BY <1>1, <1>2 DEF Pending, OnePacket
<1>5. QED BY <1>1, <1>3, <1>4 DEF Content, OnePacket

\* Nothing of the queue changes.
LEMMA TopStaysHere ==
  ASSUME UNCHANGED <<list, status, len, data>>
  PROVE  \A p : TopStays(p)
BY DEF TopStays, Top, Filling, Last

\* The packet of stream s goes into the frame its fifo is in.
LEMMA ReceivePending ==
  ASSUME SysInv, ContentInv, NEW s \in boards.streams, NEW k \in s.frames, Receive(s, k),
         Taken(s), NEW i \in 1..Len(CallsFor(s.board, Message(s, k))), NEW a,
         CallsFor(s.board, Message(s, k))[i].arg = a
  PROVE  LastSent(s, a)' /\ Expects(Target(s), a)
<1> USE DEF SysInv
<1> DEFINE p == Target(s)
<1> DEFINE f == frame[s]
<1>1. s \in Stream BY DEF SysType, Stream
<1>2. /\ todo[s.board] = <<>> /\ frame' = [frame EXCEPT ![s] = Advanced(s, k, @)]
      /\ f.next > 0 => k = f.of
      /\ pc[p] = "idle"
  BY <1>1, DestIsTarget DEF Receive, MsgHandle, Ready, FifosOf
<1>3. /\ f \in Position /\ f.next < Len(k) /\ k \in Frames /\ Len(k) \in Nat \ {0}
      /\ frame'[s] = Advanced(s, k, f)
  BY <1>1, <1>2, ReceiveFrame, FrameType DEF SysType
<1>c. /\ OnePacket(s) => a = AddCall({"NEWFRAME", "FRAMEEND"}, [stamp |-> 0, num |-> 0, of |-> <<1>>])
      /\ ~OnePacket(s) => a = AddCall(Flags(Message(s, k)),
                                      [stamp |-> f.stamp, num |-> f.next, of |-> k])
      /\ a.data \in Data
  <2>1. PICK t : t = CallsFor(s.board, Message(s, k)) OBVIOUS
  <2>2. PICK F : F = Flags(Message(s, k)) OBVIOUS
  <2>3. /\ t \in Seq(CallOf(s.board))
        /\ OnePacket(s) => \A j \in 1..Len(t) :
             t[j].arg = AddCall({"NEWFRAME", "FRAMEEND"}, [stamp |-> 0, num |-> 0, of |-> <<1>>])
        /\ ~OnePacket(s) =>
             t = <<[fifo |-> Target(s),
                    arg |-> AddCall(F, [stamp |-> f.stamp, num |-> f.next, of |-> k])]>>
    BY <1>1, <1>3, <2>1, <2>2, CallsForType DEF f
  <2> HIDE DEF f
  <2>4. t[i].arg = a /\ t[i] \in CallOf(s.board) BY <2>1, <2>3
  <2>5. a.data \in Data BY <2>4, CallsAre DEF CallOf
  <2>6. ASSUME ~OnePacket(s)
        PROVE  a = AddCall(F, [stamp |-> f.stamp, num |-> f.next, of |-> k])
    <3>1. i = 1 BY <2>1, <2>3, <2>6
    <3>2. QED BY <2>3, <2>4, <2>6, <3>1
  <2>7. QED BY <2>1, <2>2, <2>3, <2>4, <2>5, <2>6
<1>4. InStep(p, f) /\ (OnePacket(s) => ~Filling(p))
  BY <1>2, <1>3 DEF ContentInv, Content
<1>5. \A F, d : AddCall(F, d).flags = F /\ AddCall(F, d).data = d BY DEF AddCall
<1> HIDE DEF f, p
<1>6. CASE OnePacket(s)
  <2>1. a.flags = {"NEWFRAME", "FRAMEEND"} /\ a.data = [stamp |-> 0, num |-> 0, of |-> <<1>>]
    BY <1>c, <1>5, <1>6
  <2>2. a.data.num = 0 /\ a.data.of = <<1>> /\ Len(a.data.of) - 1 = 0 BY <2>1
  <2>3. frame'[s].next = 0 /\ frame'[s].number = 1 BY <1>3, <1>6 DEF Advanced
  <2>4. LastSent(s, a)' BY <1>c, <1>6, <2>1, <2>2, <2>3 DEF LastSent, OnePacket
  <2>5. Expects(p, a) BY <1>4, <1>6, <2>2 DEF Expects, Rests
  <2>6. QED BY <2>4, <2>5 DEF p
<1>7. CASE ~OnePacket(s)
  <2>1. PICK F : F = Flags(Message(s, k)) OBVIOUS
  <2>2. a.flags = F /\ a.data = [stamp |-> f.stamp, num |-> f.next, of |-> k]
    BY <1>c, <1>5, <1>7, <2>1
  <2>3. /\ "NEWFRAME" \in F <=> f.next = 0
        /\ "FRAMEEND" \in F <=> f.next = Len(k) - 1
        /\ "FIRSTFRAME" \in F <=> (f.next = 0 /\ f.number = 0)
    BY <2>1 DEF Flags, Message, f
  <2>4. f.next \in Nat BY <1>3 DEF Position
  <2>5. a.data.num = f.next /\ a.data.of = k /\ a.data.stamp = f.stamp BY <2>2
  <2>6. IF f.next = Len(k) - 1 THEN frame'[s].next = 0 /\ frame'[s].number = 1
        ELSE frame'[s].next = f.next + 1 /\ frame'[s].of = k /\ frame'[s].stamp = f.stamp
    BY <1>3, <1>7 DEF Advanced
  <2>8. LastSent(s, a)' BY <1>c, <1>7, <2>2, <2>3, <2>5, <2>6 DEF LastSent, OnePacket
  <2>9. Expects(p, a)
    <3>1. CASE f.next = 0
      <4>1. Rests(p, f.number = 0) BY <1>4, <3>1 DEF InStep
      <4>2. Rests(p, "FIRSTFRAME" \in a.flags) BY <2>2, <2>3, <3>1, <4>1 DEF Rests
      <4>3. QED BY <2>5, <3>1, <4>2 DEF Expects
    <3>2. CASE f.next # 0
      <4>1. f.next > 0 BY <2>4, <3>2
      <4>2. k = f.of BY <1>2, <4>1 DEF f
      <4>3. Waits(p, [stamp |-> f.stamp, num |-> f.next, of |-> f.of])
        BY <1>4, <4>1 DEF InStep
      <4>4. a.data = [stamp |-> f.stamp, num |-> f.next, of |-> f.of] BY <2>2, <4>2
      <4>5. QED BY <2>5, <3>2, <4>3, <4>4 DEF Expects
    <3>3. QED BY <3>1, <3>2
  <2>10. QED BY <2>8, <2>9 DEF p
<1>8. QED BY <1>6, <1>7

\* A message moves its own stream and leaves the others in step.
LEMMA ReceiveContent ==
  ASSUME SysInv, ContentInv, OwnerInv,
         NEW s \in boards.streams, NEW k \in s.frames, Receive(s, k)
  PROVE  ContentInv' /\ OwnerInv'
<1> USE DEF SysInv
<1> DEFINE b == s.board
<1>t. PICK t : t = CallsFor(s.board, Message(s, k)) OBVIOUS
<1>1. s \in Stream /\ b \in Boards BY StreamType DEF SysType, Stream
<1>2. /\ todo[b] = <<>> /\ todo' = [todo EXCEPT ![b] = t] /\ UNCHANGED vars /\ boards' = boards
      /\ \A p \in Producers : p[1] = b => pc[p] = "idle"
  BY <1>t DEF Receive, MsgHandle, Ready
<1>3. /\ k \in Frames /\ frame[s].next < Len(k) /\ frame' \in [Stream -> Position]
      /\ \A u \in Stream : u # s => frame'[u] = frame[u]
  BY <1>1, ReceiveFrame
<1>4. /\ t \in Seq(CallOf(b))
      /\ ~Taken(s) => t = <<>>
      /\ Taken(s) => t # <<>>
      /\ \A i \in 1..Len(t) : t[i].fifo = Target(s)
      /\ (Taken(s) /\ ~OnePacket(s)) => Len(t) = 1
  <2>1. /\ t \in Seq(CallOf(b))
        /\ ~Taken(s) => t = <<>>
        /\ Taken(s) => t # <<>>
        /\ \A i \in 1..Len(t) : t[i].fifo = Target(s)
        /\ (Taken(s) /\ ~OnePacket(s)) =>
             t = <<[fifo |-> Target(s),
                    arg |-> AddCall(Flags(Message(s, k)),
                                    [stamp |-> frame[s].stamp, num |-> frame[s].next,
                                     of |-> k])]>>
    BY <1>1, <1>3, <1>t, CallsForType
  <2>2. QED BY <2>1
<1>5. todo'[b] = t /\ \A c \in Boards : c # b => todo'[c] = todo[c]
  BY <1>1, <1>2 DEF SysType
<1>6. UNCHANGED <<list, status, len, data, pc, call, ret>>
  BY <1>2 DEF vars, fifoVars, prodVars
<1>7. \A p : TopStays(p) BY <1>6, TopStaysHere
<1>8. OwnerInv'
  <2> SUFFICES ASSUME NEW p \in Producers,
                      pc'[p] # "idle" \/ \E c \in Boards : \E i \in 1..Len(todo'[c]) : todo'[c][i].fifo = p
               PROVE  \E u \in boards.streams : Taken(u) /\ Target(u) = p
    BY <1>2 DEF OwnerInv
  <2>1. CASE pc[p] # "idle" BY <2>1 DEF OwnerInv
  <2>2. ASSUME NEW c \in Boards, NEW i \in 1..Len(todo'[c]), todo'[c][i].fifo = p
        PROVE  \E u \in boards.streams : Taken(u) /\ Target(u) = p
    <3>1. CASE c # b BY <1>5, <2>2, <3>1 DEF OwnerInv
    <3>2. CASE c = b
      <4>1. i \in 1..Len(t) /\ t[i].fifo = p BY <1>5, <2>2, <3>2
      <4>2. Taken(s) /\ Target(s) = p BY <1>4, <4>1
      <4>3. QED BY <4>2
    <3>3. QED BY <3>1, <3>2
  <2>3. QED BY <1>6, <2>1, <2>2
<1>9. ASSUME NEW u \in boards.streams, Taken(u) PROVE Content(u, Target(u))'
  <2>p. PICK p : p = Target(u) OBVIOUS
  <2>1. /\ u \in Stream /\ p \in Producers /\ p[1] = u.board /\ u.board \in Boards
        /\ Content(u, p)
    BY <1>9, <2>p, DestIsTarget, StreamType DEF SysType, Stream, FifosOf, ContentInv
  <2>2. CASE u.board # b
    <3>1. u # s BY <2>2
    <3>2. frame'[u] = frame[u] /\ todo'[u.board] = todo[u.board] BY <1>3, <1>5, <2>1, <2>2, <3>1
    <3>3. QED BY <1>2, <1>6, <1>7, <2>p, <2>1, <3>2, AwayKeeps
  <2>3. CASE u.board = b
    <3>1. /\ pc'[p] = "idle" /\ pc[p] = "idle"
          /\ \A f \in Position : frame[u] = f => InStep(p, f)
          /\ OnePacket(u) => ~Filling(p)
      BY <1>2, <1>6, <2>1, <2>3 DEF Content
    <3>2. /\ \A a : Expects(p, a)' <=> Expects(p, a)
          /\ \A f : InStep(p, f)' <=> InStep(p, f)
          /\ Filling(p)' <=> Filling(p)
      BY <1>2, <1>7, SameTop DEF TopStays
    <3>3. CASE u # s
      <4>1. frame'[u] = frame[u] BY <1>3, <2>1, <3>3
      <4>2. \A i \in 1..Len(t) : t[i].fifo # p
        <5>1. Taken(s) => p # Target(s)
          BY <1>9, <2>p, <3>3, WiringAssumption DEF SysType
        <5>2. QED BY <1>4, <5>1
      <4>3. QED BY <1>5, <2>p, <2>3, <3>1, <3>2, <4>1, <4>2 DEF Content, OnePacket
    <3>4. CASE u = s
      <4>1. ASSUME NEW i \in 1..Len(t), NEW a \in Calls, t[i].arg = a
            PROVE  Pending(s, p, a)'
        <5>1. LastSent(s, a)' /\ Expects(p, a)
          BY <1>9, <1>t, <2>p, <3>4, <4>1, ReceivePending
        <5>2. Len(todo'[b]) > 1 => OnePacket(s) BY <1>4, <1>5, <1>9, <3>4
        <5>3. QED BY <3>1, <3>2, <5>1, <5>2 DEF Pending, OnePacket
      <4>2. ASSUME \A i \in 1..Len(t) : t[i].fifo # p
            PROVE  \A f \in Position : frame'[s] = f => InStep(p, f)'
        <5>1. t = <<>> BY <1>4, <2>p, <3>4, <4>2
        <5>2. QED BY <1>4, <1>9, <3>4, <5>1
      <4>3. QED BY <1>5, <2>p, <2>3, <3>1, <3>2, <3>4, <4>1, <4>2 DEF Content, OnePacket
    <3>5. QED BY <3>3, <3>4
  <2>4. QED BY <2>2, <2>3
<1>10. QED BY <1>2, <1>8, <1>9 DEF ContentInv

\* After a break a stream goes on with the beginning of a frame, and its fifo,
\* which may be inside one, expects that.
LEMMA ReconnectContent ==
  ASSUME SysInv, ContentInv, OwnerInv, boards.resume # "packet",
         NEW b \in Boards, Reconnect(b)
  PROVE  ContentInv' /\ OwnerInv'
<1> USE DEF SysInv
<1>1. /\ todo[b] = <<>> /\ UNCHANGED <<vars, boards, todo>>
      /\ \A p \in Producers : p[1] = b => pc[p] = "idle"
  BY DEF Reconnect, Ready
<1>2. UNCHANGED <<list, status, len, data, pc, call, ret>>
  BY <1>1 DEF vars, fifoVars, prodVars
<1>3. \A p : TopStays(p) BY <1>2, TopStaysHere
<1>4. OwnerInv' BY <1>1, <1>2 DEF OwnerInv
<1>5. ASSUME NEW u \in boards.streams, Taken(u) PROVE Content(u, Target(u))'
  <2>p. PICK p : p = Target(u) OBVIOUS
  <2>1. /\ u \in Stream /\ p \in Producers /\ p[1] = u.board /\ u.board \in Boards
        /\ Content(u, p)
    BY <1>5, <2>p, DestIsTarget, StreamType DEF SysType, Stream, FifosOf, ContentInv
  <2>2. CASE u.board # b
    <3>1. frame'[u] = frame[u] BY <2>1, <2>2, ReconnectFrame
    <3>2. QED BY <1>1, <1>2, <1>3, <2>p, <2>1, <3>1, AwayKeeps
  <2>3. CASE u.board = b
    <3>f. PICK f \in Position : f = frame[u] BY <2>1 DEF SysType
    <3>1. /\ pc'[p] = "idle" /\ pc[p] = "idle" /\ InStep(p, f) /\ (OnePacket(u) => ~Filling(p))
      BY <1>1, <1>2, <2>1, <2>3, <3>f DEF Content
    <3>2. /\ \A g : InStep(p, g)' <=> InStep(p, g)
          /\ Filling(p)' <=> Filling(p)
      BY <1>1, <1>3, SameTop DEF TopStays
    <3>3. PICK g \in Position :
            /\ g = frame'[u] /\ g.next = 0
            /\ g.number = IF boards.resume = "start" THEN 0 ELSE 1
      BY <2>1, <2>3, ReconnectFrame
    <3>4. boards.resume \in {"start", "frame"} BY IngestAssumption DEF SysType
    <3>5. Rests(p, g.number = 0)
      <4>1. CASE f.next > 0
        <5>1. Waits(p, [stamp |-> f.stamp, num |-> f.next, of |-> f.of])
          BY <3>1, <4>1 DEF InStep
        <5>2. Cells(Top(p), f.stamp, f.of, f.next) BY <5>1 DEF Waits
        <5>3. f.stamp \in 0..1 /\ f.of \in Frames /\ f.next \in Nat BY DEF Position
        <5>4. len[Top(p)] = 0 => MayBeEmpty(p)
          <6>1. ASSUME len[Top(p)] = 0 PROVE ~Fits(f.of)
            <7>1. f.next < Len(f.of) BY <2>1, <3>f DEF SysType
            <7>2. Len(f.of) \in Nat /\ \A i \in 1..Len(f.of) : f.of[i] \in Nat \ {0}
              BY <5>3, FrameType
            <7>3. f.next \in 1..Len(f.of) BY <4>1, <5>3, <7>1, <7>2
            <7>4. f.of[f.next] # 0 /\ f.next # 0 BY <7>2, <7>3
            <7>5. QED BY <5>2, <6>1, <7>4 DEF Cells, Packets
          <6>2. f.of \in u.frames BY <2>1, <3>f, <4>1 DEF SysType
          <6>3. QED BY <2>p, <6>1, <6>2 DEF MayBeEmpty
        <5>5. QED BY <3>3, <3>4, <5>2, <5>3, <5>4 DEF Rests
      <4>2. CASE ~(f.next > 0)
        <5>1. Rests(p, f.number = 0) BY <3>1, <4>2 DEF InStep
        <5>2. QED BY <3>3, <3>4, <5>1 DEF Rests
      <4>3. QED BY <4>1, <4>2
    <3>6. InStep(p, g) BY <3>3, <3>5 DEF InStep
    <3>7. QED BY <1>1, <2>p, <2>3, <3>1, <3>2, <3>3, <3>6 DEF Content, OnePacket
  <2>4. QED BY <2>2, <2>3
<1>6. QED BY <1>1, <1>4, <1>5 DEF ContentInv

\* The call for a packet is made for the frame the fifo is in.
LEMMA CallContent ==
  ASSUME SysInv, ContentInv, OwnerInv, NEW b \in Boards, NextCall(b)
  PROVE  ContentInv' /\ OwnerInv'
<1> USE DEF SysInv
<1>1. PICK p \in Producers, a \in Calls :
        /\ p = todo[b][1].fifo /\ a = todo[b][1].arg /\ Call(p, a) /\ p[1] = b
  BY NextCallIsCall DEF FifosOf
<1>2. /\ todo[b] \in Seq(CallOf(b)) /\ todo[b] # <<>> /\ 1 \in 1..Len(todo[b])
      /\ todo' = [todo EXCEPT ![b] = Tail(@)] /\ UNCHANGED <<boards, frame>>
      /\ \A q \in Producers : q[1] = b => pc[q] = "idle"
  <2>1. todo[b] \in Seq(CallOf(b)) /\ todo[b] # <<>> BY NextCallIsCall
  <2>2. 1 \in 1..Len(todo[b]) BY <2>1
  <2>3. QED BY <2>1, <2>2 DEF NextCall, srcVars
<1>3. UNCHANGED <<list, status, len, data, ret>> /\ pc[p] = "idle"
  BY <1>1 DEF Call, fifoVars
<1>4. /\ call'[p] = a /\ pc'[p] = (IF "NEWFRAME" \in a.flags THEN "alloc" ELSE "tail")
      /\ \A q \in Producers : q # p => pc'[q] = pc[q] /\ call'[q] = call[q]
  BY <1>1 DEF Call, Goto, IInv, TypeOK
<1>5. /\ Len(todo'[b]) = Len(todo[b]) - 1 /\ Len(todo[b]) \in Nat
      /\ \A i \in 1..Len(todo'[b]) : i + 1 \in 1..Len(todo[b]) /\ todo'[b][i] = todo[b][i + 1]
      /\ \A i \in 1..Len(todo[b]) : i # 1 =>
           i - 1 \in 1..Len(todo'[b]) /\ todo[b][i] = todo'[b][i - 1]
      /\ \A c \in Boards : c # b => todo'[c] = todo[c]
  BY <1>2 DEF SysType
<1>6. \A q : TopStays(q) BY <1>3, TopStaysHere
<1>7. OwnerInv'
  <2> SUFFICES ASSUME NEW q \in Producers,
                      pc'[q] # "idle" \/ \E c \in Boards : \E i \in 1..Len(todo'[c]) : todo'[c][i].fifo = q
               PROVE  \E u \in boards.streams : Taken(u) /\ Target(u) = q
    BY <1>2 DEF OwnerInv
  <2>1. CASE q = p BY <1>1, <1>2, <2>1 DEF OwnerInv
  <2>2. CASE q # p /\ pc'[q] # "idle" BY <1>4, <2>2 DEF OwnerInv
  <2>3. ASSUME NEW c \in Boards, NEW i \in 1..Len(todo'[c]), todo'[c][i].fifo = q
        PROVE  \E u \in boards.streams : Taken(u) /\ Target(u) = q
    <3>1. CASE c # b BY <1>5, <2>3, <3>1 DEF OwnerInv
    <3>2. CASE c = b BY <1>5, <2>3, <3>2 DEF OwnerInv
    <3>3. QED BY <3>1, <3>2
  <2>4. QED BY <2>1, <2>2, <2>3
<1>8. ASSUME NEW u \in boards.streams, Taken(u) PROVE Content(u, Target(u))'
  <2>q. PICK q : q = Target(u) OBVIOUS
  <2>1. /\ u \in Stream /\ q \in Producers /\ q[1] = u.board /\ u.board \in Boards
        /\ Content(u, q)
    BY <1>8, <2>q, DestIsTarget, StreamType DEF SysType, Stream, FifosOf, ContentInv
  <2>2. /\ \A d : Waits(q, d)' <=> Waits(q, d)
        /\ \A e : Expects(q, e)' <=> Expects(q, e)
        /\ \A f : InStep(q, f)' <=> InStep(q, f)
        /\ Filling(q)' <=> Filling(q)
    BY <1>2, <1>6, SameTop DEF TopStays
  <2>3. \A e : LastSent(u, e)' <=> LastSent(u, e) BY <1>2 DEF LastSent, OnePacket
  <2>4. CASE u.board # b
    <3>1. q # p BY <1>1, <2>1, <2>4
    <3>2. QED BY <1>2, <1>3, <1>4, <1>5, <1>6, <2>q, <2>1, <2>4, <3>1, AwayKeeps
  <2>5. CASE u.board = b /\ q # p
    <3>1. pc[q] = "idle" /\ pc'[q] = "idle" BY <1>2, <1>4, <2>1, <2>5
    <3>2. ASSUME NEW i \in 1..Len(todo'[b]), NEW e \in Calls, todo'[b][i].fifo = q, todo'[b][i].arg = e
          PROVE  Pending(u, q, e)'
      <4>1. i + 1 \in 1..Len(todo[b]) /\ todo[b][i + 1].fifo = q /\ todo[b][i + 1].arg = e
        BY <1>5, <3>2
      <4>2. Pending(u, q, e) BY <2>1, <2>5, <4>1 DEF Content
      <4>3. Len(todo'[b]) > 1 => Len(todo[b]) > 1 BY <1>5
      <4>4. QED BY <2>2, <2>3, <2>5, <3>1, <4>2, <4>3 DEF Pending, OnePacket
    <3>3. ASSUME \A i \in 1..Len(todo'[b]) : todo'[b][i].fifo # q
          PROVE  \A i \in 1..Len(todo[b]) : todo[b][i].fifo # q
      BY <1>1, <1>5, <2>5, <3>3
    <3>4. QED BY <1>2, <2>q, <2>1, <2>2, <2>5, <3>1, <3>2, <3>3 DEF Content, OnePacket
  <2>6. CASE u.board = b /\ q = p
    <3>1. Pending(u, q, a) BY <1>1, <1>2, <2>1, <2>6 DEF Content
    <3>2. /\ LastSent(u, a) /\ Expects(q, a) /\ (Len(todo[b]) > 1 => OnePacket(u))
      BY <1>3, <2>6, <3>1 DEF Pending
    <3>3. "NEWFRAME" \in a.flags <=> a.data.num = 0 BY <3>2 DEF LastSent
    <3>4. InCall(u, q, a)'
      BY <1>4, <2>2, <2>3, <2>6, <3>2, <3>3 DEF InCall, Distributing
    <3>5. ASSUME NEW i \in 1..Len(todo'[b]), NEW e \in Calls, todo'[b][i].fifo = q, todo'[b][i].arg = e
          PROVE  Pending(u, q, e)'
      <4>1. i + 1 \in 1..Len(todo[b]) /\ todo[b][i + 1].fifo = q /\ todo[b][i + 1].arg = e
        BY <1>5, <3>5
      <4>2. LastSent(u, e) BY <2>1, <2>6, <4>1 DEF Content, Pending
      <4>3. OnePacket(u) BY <1>5, <3>2, <4>1
      <4>4. pc'[q] # "idle" BY <1>4, <2>6
      <4>5. QED BY <2>3, <4>2, <4>3, <4>4 DEF Pending, OnePacket
    <3>6. QED BY <1>4, <2>q, <2>6, <3>4, <3>5 DEF Content
  <2>7. QED BY <2>4, <2>5, <2>6
<1>9. QED BY <1>2, <1>7, <1>8 DEF ContentInv

\* A thread inside a call touches its own stream's frame only, and between the
\* packets it copies it leaves that frame alone or finishes it.
LEMMA OwnFrame ==
  ASSUME SysInv, NEW p \in Producers, ProducerStep(p)
  PROVE  /\ AllocFrame(p) \/ CheckTail(p) => TopStays(p)
         /\ ~Filling(p) /\ ~LinkFrame(p) => ~Filling(p)'
<1> USE DEF SysInv, IInv
<1>1. p \in Fifo /\ (list[p] # <<>> =>
        /\ Last(list[p]) \in Item /\ Last(list[p])[1] = p /\ status[Last(list[p])] # "INIT")
  <2>1. p \in Fifo BY DEF Fifo
  <2>2. ASSUME list[p] # <<>>
        PROVE  Last(list[p]) \in Item /\ Last(list[p])[1] = p /\ status[Last(list[p])] # "INIT"
    <3>1. /\ Len(list[p]) \in 1..Len(list[p]) /\ Last(list[p]) = list[p][Len(list[p])]
          /\ Last(list[p])[1] = p
      BY <2>2, TailItem
    <3>2. QED BY <2>1, <3>1 DEF ListInv
  <2>3. QED BY <2>1, <2>2
<1>2. CASE AllocFrame(p)
  <2>1. PICK x \in Item : /\ status[x] = "INIT" /\ list' = list /\ data' = data
                          /\ status' = [status EXCEPT ![x] = "FILLING"]
                          /\ len' = [len EXCEPT ![x] = 0]
    BY <1>2 DEF AllocFrame, FirstUnused
  <2>2. list[p] # <<>> => /\ status'[Last(list[p])] = status[Last(list[p])]
                          /\ len'[Last(list[p])] = len[Last(list[p])]
    BY <1>1, <2>1 DEF TypeOK
  <2>3. TopStays(p) BY <2>1, <2>2 DEF TopStays, Top, Filling
  <2>4. QED BY <1>2, <2>3 DEF TopStays
<1>3. CASE CheckTail(p)
  <2>1. TopStays(p) BY <1>3, TopStaysHere DEF CheckTail, fifoVars
  <2>2. QED BY <2>1 DEF TopStays
<1>4. CASE Flush(p)
  BY <1>4 DEF Flush, Filling, AllocFrame, CheckTail
<1>5. CASE CopyPacket(p)
  <2>1. Filling(p) BY <1>5 DEF CopyPacket, FrameEnd, CopyInv
  <2>2. QED BY <1>5, <2>1 DEF CopyPacket, FrameEnd, AllocFrame, CheckTail
<1>6. CASE AllocForConsumer(p) \/ CountReference(p) \/ AddToConsumer(p) \/ SetDoing(p)
  <2>1. pc[p] \in Distributing
    BY <1>6 DEF AllocForConsumer, CountReference, AddToConsumer, SetDoing, Distributing
  <2>2. list'[p] = list[p]
    <3>1. CASE AddToConsumer(p)
      <4>1. citem[p][1] \in Consumers BY <3>1 DEF AddToConsumer, CitemInv, HasCitem
      <4>2. citem[p][1] # p BY <4>1, DataFifoAssumption
      <4>3. QED BY <1>1, <3>1, <4>2 DEF AddToConsumer, TypeOK
    <3>2. QED BY <1>6, <3>1 DEF AllocForConsumer, CountReference, SetDoing
  <2>3. list[p] # <<>> => (status'[Last(list[p])] = "FILLING" => status[Last(list[p])] = "FILLING")
    <3>1. \/ status' = status
          \/ \E x \in Item, st \in {"READY", "DOING"} : status' = [status EXCEPT ![x] = st]
      <4>1. CASE SetDoing(p)
        <5>1. item[p] \in Item BY <2>1 DEF ItemInv
        <5>2. QED BY <4>1, <5>1 DEF SetDoing
      <4>2. QED BY <1>6, <4>1 DEF AllocForConsumer, CountReference, AddToConsumer
    <3>2. QED BY <1>1, <3>1 DEF TypeOK
  <2>4. ~AllocFrame(p) /\ ~CheckTail(p) BY <2>1 DEF AllocFrame, CheckTail, Distributing
  <2>5. QED BY <2>2, <2>3, <2>4 DEF Filling
<1>7. CASE ProducerCheck(p)
  <2>1. PICK gone \in SUBSET ProducerItem :
          /\ \A y \in Item : status'[y] = IF y \in gone THEN "INIT" ELSE status[y]
          /\ list'[p] # <<>> => (list[p] # <<>> /\ Last(list'[p]) = Last(list[p]))
    BY <1>7, RemoveCheckEffect DEF ProducerCheck
  <2>2. Filling(p)' => Filling(p) BY <1>1, <2>1 DEF Filling
  <2>3. QED BY <1>7, <2>2 DEF ProducerCheck, AllocFrame, CheckTail
<1>8. CASE LinkFrame(p) BY <1>8 DEF LinkFrame, AllocFrame, CheckTail
<1>9. QED BY <1>2, <1>3, <1>4, <1>5, <1>6, <1>7, <1>8 DEF ProducerStep

\* A packet that fits goes behind those before it; one that does not is
\* dropped.
LEMMA CopyCells ==
  ASSUME SysInv, NEW p \in Producers, CopyPacket(p), call[p] \in Calls, NEW d,
         d = call[p].data, Waits(p, d), NEW t, t = Top(p)
  PROVE  /\ d \in Data /\ t \in ProducerItem /\ t = Top(p)' /\ Filling(p)
         /\ len'[t] \in Nat
         /\ Cells(t, d.stamp, d.of, d.num + 1)'
         /\ \/ /\ pc'[p] = "idle" /\ Filling(p)'
               /\ "FRAMEEND" \in call[p].flags => ~Fits(d.of)
            \/ /\ "FRAMEEND" \in call[p].flags /\ len'[t] # 0
               /\ pc'[p] = "next_con" /\ ret'[p] = "idle" /\ item'[p] = t /\ ~Filling(p)'
<1> USE DEF SysInv, IInv
<1>1. /\ pc[p] = "copy" /\ Filling(p) /\ list' = list
  BY DEF CopyPacket, CopyInv
<1>2. /\ t = Last(list[p]) /\ t \in ProducerItem /\ t \in Item
  BY <1>1, TailItem DEF Filling, Top, ProducerItem
<1>3. t = Top(p)' BY <1>1, <1>2 DEF Top
<1>4. d \in Data /\ call[p].len = Size(d) BY CallsAre
<1>5. /\ len[t] \in 0..DataMaxLen /\ DataMaxLen \in Nat
      /\ data[t] \in [1..DataMaxLen -> Byte \cup {NULL}]
      /\ Packets(data[t], len[t], d.stamp, d.of, d.num)
  BY <1>2, DataFifoAssumption DEF TypeOK, Waits, Cells
<1>m. PICK m \in Nat \ {0} : m = Size(d) BY <1>4, PacketType
<1>6. CASE len[t] + m > DataMaxLen
  <2>1. UNCHANGED <<data, len, status>> /\ pc' = [pc EXCEPT ![p] = "idle"]
    BY <1>2, <1>4, <1>5, <1>6, <1>m DEF CopyPacket, Goto
  <2>2. pc'[p] = "idle" BY <2>1 DEF TypeOK
  <2>3. ~Fits(d.of)
    <3>1. ASSUME Fits(d.of) PROVE FALSE
      <4>1. len[t] = Start(d) BY <1>5, <3>1 DEF Packets, Start
      <4>2. Start(d) + m <= d.of[Len(d.of)] /\ d.of[Len(d.of)] <= DataMaxLen
        BY <1>4, <1>m, <3>1, PacketType DEF Fits
      <4>3. d.of[Len(d.of)] \in Nat
        <5>1. d.of \in Frames BY <1>4, PacketType
        <5>2. Len(d.of) \in 1..Len(d.of) BY <5>1, FrameType
        <5>3. QED BY <5>1, <5>2, FrameType
      <4>4. QED BY <1>5, <1>6, <4>1, <4>2, <4>3
    <3>2. QED BY <3>1
  <2>4. Packets(data[t], len[t], d.stamp, d.of, d.num + 1)
    <3>1. PICK l \in Nat : l = len[t] BY <1>5
    <3>2. PICK x : x = data[t] OBVIOUS
    <3>3. Packets(x, l, d.stamp, d.of, d.num) BY <1>5, <3>1, <3>2
    <3>4. QED BY <1>4, <2>3, <3>1, <3>2, <3>3, PacketsPast
  <2>5. Filling(p)' BY <1>1, <2>1 DEF Filling
  <2>6. QED BY <1>1, <1>2, <1>3, <1>4, <1>5, <2>1, <2>2, <2>3, <2>4, <2>5 DEF Cells
<1>7. CASE len[t] + m <= DataMaxLen
  <2>1. /\ data' = [data EXCEPT ![t] = Appended(t, call[p])]
        /\ len' = [len EXCEPT ![t] = len[t] + m]
        /\ IF "FRAMEEND" \in call[p].flags
           THEN /\ status' = [status EXCEPT ![t] = "READY"]
                /\ item' = [item EXCEPT ![p] = t]
                /\ ret' = [ret EXCEPT ![p] = "idle"]
                /\ pc' = [pc EXCEPT ![p] = "next_con"]
           ELSE pc' = [pc EXCEPT ![p] = "idle"] /\ status' = status
    BY <1>2, <1>4, <1>5, <1>7, <1>m DEF CopyPacket, FrameEnd, Goto
  <2>2. PICK y : y = data'[t] OBVIOUS
  <2>3. /\ len'[t] = len[t] + m /\ y = Appended(t, call[p])
    BY <1>2, <2>1, <2>2 DEF TypeOK
  <2>4. \A i \in 1..len[t] : y[i] = data[t][i]
    BY <1>4, <1>5, <2>3 DEF Appended
  <2>5. \A i \in 1..m : y[len[t] + i] = <<d, i>>
    <3> TAKE i \in 1..m
    <3>1. /\ len[t] + i \in 1..DataMaxLen /\ len[t] < len[t] + i
          /\ len[t] + i <= len[t] + m /\ (len[t] + i) - len[t] = i
      BY <1>5, <1>7
    <3>2. QED BY <1>4, <1>m, <2>3, <3>1 DEF Appended
  <2>6. len[t] \in Nat BY <1>5
  <2>7. Packets(y, len[t] + m, d.stamp, d.of, d.num + 1)
    <3>1. PICK l \in Nat : l = len[t] BY <2>6
    <3>2. PICK x : x = data[t] OBVIOUS
    <3>3. /\ Packets(x, l, d.stamp, d.of, d.num) /\ \A i \in 1..l : y[i] = x[i]
          /\ \A i \in 1..Size(d) : y[l + i] = <<d, i>>
      BY <1>5, <1>m, <2>4, <2>5, <3>1, <3>2
    <3>4. QED BY <1>4, <1>m, <3>1, <3>3, PacketsMore
  <2>8. Cells(t, d.stamp, d.of, d.num + 1)' BY <2>2, <2>3, <2>7 DEF Cells
  <2>9. len'[t] # 0 /\ len'[t] \in Nat BY <1>5, <2>3
  <2>10. IF "FRAMEEND" \in call[p].flags
         THEN pc'[p] = "next_con" /\ ret'[p] = "idle" /\ item'[p] = t /\ ~Filling(p)'
         ELSE pc'[p] = "idle" /\ Filling(p)'
    BY <1>1, <1>2, <2>1 DEF TypeOK, Filling
  <2>11. QED BY <1>1, <1>2, <1>3, <1>4, <2>8, <2>9, <2>10
<1>8. QED BY <1>5, <1>6, <1>7

\* What is left to show of a call that goes on, and of one that returns.
LEMMA CallGoesOn ==
  ASSUME NEW s, NEW p, NEW a \in Calls, NEW f, frame[s] = f, Content(s, p),
         call[p] = a, call' = call, todo' = todo, UNCHANGED srcVars, pc[p] # "idle",
         pc'[p] # "idle" => InCall(s, p, a)',
         pc'[p] = "idle" => InStep(p, f)' /\ (OnePacket(s) => ~Filling(p)')
  PROVE  Content(s, p)'
<1>1. boards' = boards /\ frame' = frame BY DEF srcVars
<1>2. \A e : LastSent(s, e)' <=> LastSent(s, e) BY <1>1 DEF LastSent, OnePacket
<1>3. ASSUME NEW i \in 1..Len(todo[s.board]), NEW e \in Calls,
             todo[s.board][i].fifo = p, todo[s.board][i].arg = e
      PROVE  Pending(s, p, e)'
  <2>1. LastSent(s, e) /\ OnePacket(s) BY <1>3 DEF Content, Pending
  <2>2. e.data.num = 0
    <3>1. e.data \in Data /\ Len(e.data.of) = 1 BY <2>1 DEF LastSent
    <3>2. e.data.num \in Nat /\ e.data.num < 1 BY <3>1, PacketType
    <3>3. QED BY <3>2
  <2>3. pc'[p] = "idle" => Expects(p, e)' BY <2>1, <2>2 DEF Expects, Rests
  <2>4. QED BY <1>2, <2>1, <2>3 DEF Pending, OnePacket
<1>4. QED BY <1>1, <1>3 DEF Content, OnePacket

\* A thread inside a call keeps its fifo where its stream is.
LEMMA OwnContent ==
  ASSUME SysInv, SysInv', NewInv, DataMaxLen >= 1, UNCHANGED <<srcVars, todo>>,
         NEW p \in Producers, ProducerStep(p), NEW s \in boards.streams, Target(s) = p,
         NEW a \in Calls, call[p] = a, Content(s, p)
  PROVE  Content(s, p)'
<1> USE DEF SysInv, IInv
<1>f. PICK f \in Position : f = frame[s] BY DEF SysType, Stream
<1>1. pc[p] # "idle" /\ call' = call BY StepNotIdle, OwnCallOnly
<1>2. InCall(s, p, a) BY <1>1 DEF Content
<1>3. boards' = boards /\ frame' = frame BY DEF srcVars
<1>4. LastSent(s, a) /\ LastSent(s, a)' BY <1>2, <1>3 DEF InCall, LastSent, OnePacket
<1>d. PICK d \in Data : d = a.data BY <1>4 DEF LastSent
<1>5. SUFFICES /\ pc'[p] # "idle" => InCall(s, p, a)'
               /\ pc'[p] = "idle" => InStep(p, f)' /\ (OnePacket(s) => ~Filling(p)')
  BY <1>f, <1>1, CallGoesOn
<1>6. CASE AllocFrame(p)
  <2>1. pc[p] = "alloc" /\ pc'[p] = "flush" BY <1>6 DEF AllocFrame, Goto, TypeOK
  <2>2. TopStays(p) BY <1>6, OwnFrame
  <2>3. Expects(p, a)' <=> Expects(p, a) BY <1>3, <2>2, SameTop
  <2>4. QED BY <1>2, <1>4, <2>1, <2>3 DEF InCall, Distributing
<1>7. CASE Flush(p)
  <2>1. pc[p] = "flush" /\ (pc'[p] = "link" \/ (pc'[p] = "next_con" /\ ret'[p] = "link"))
    <3>1. \/ pc' = [pc EXCEPT ![p] = "link"]
          \/ pc' = [pc EXCEPT ![p] = "next_con"] /\ ret' = [ret EXCEPT ![p] = "link"]
      BY <1>7 DEF Flush, Goto
    <3>2. QED BY <1>7, <3>1 DEF Flush, TypeOK
  <2>2. a.data.num = 0 BY <1>2, <2>1 DEF InCall
  <2>3. QED BY <1>4, <2>1, <2>2 DEF InCall, Distributing
<1>8. CASE LinkFrame(p)
  <2>1. pc[p] = "link" /\ pc'[p] = "copy" BY <1>8 DEF LinkFrame, Goto, TypeOK
  <2>2. a.data.num = 0 BY <1>2, <2>1 DEF InCall
  <2>3. Filling(p)' BY <2>1 DEF CopyInv
  <2>4. Top(p)' = cur[p] /\ len' = len /\ len[cur[p]] = 0
    <3>1. len[cur[p]] = 0 /\ cur[p] \in Item BY <2>1 DEF NewInv, HasCur, CurInv
    <3>2. p \in Fifo /\ list[p] \in Seq(Item) BY DEF Fifo, TypeOK
    <3>3. list'[p] = Append(list[p], cur[p]) /\ len' = len BY <1>8, <3>2 DEF LinkFrame, TypeOK
    <3>4. Last(list'[p]) = cur[p] BY <3>1, <3>2, <3>3 DEF Last
    <3>5. QED BY <3>1, <3>3, <3>4 DEF Top
  <2>5. len'[Top(p)'] = 0 BY <2>4
  <2>6. Waits(p, a.data)' BY <2>2, <2>3, <2>5 DEF Waits, Cells, Packets
  <2>7. QED BY <1>4, <2>1, <2>6 DEF InCall, Distributing
<1>9. CASE CheckTail(p)
  <2>1. pc[p] = "tail" /\ Filling(p) BY <1>9 DEF CheckTail, TailInv
  <2>2. pc'[p] = "copy" BY <1>9, <2>1 DEF CheckTail, Goto, TypeOK, Filling
  <2>3. Waits(p, a.data) BY <1>2, <2>1 DEF InCall, Expects
  <2>4. TopStays(p) BY <1>9, OwnFrame
  <2>5. Waits(p, a.data)' BY <1>d, <1>3, <2>3, <2>4, SameTop
  <2>6. QED BY <1>4, <2>2, <2>5 DEF InCall, Distributing
<1>10. CASE CopyPacket(p)
  <2>1. Waits(p, d) BY <1>d, <1>2, <1>10 DEF InCall, CopyPacket
  <2>t. PICK t : t = Top(p) OBVIOUS
  <2>2. /\ t \in ProducerItem /\ t = Top(p)' /\ len'[t] \in Nat
        /\ Cells(t, d.stamp, d.of, d.num + 1)'
        /\ \/ /\ pc'[p] = "idle" /\ Filling(p)'
              /\ "FRAMEEND" \in a.flags => ~Fits(d.of)
           \/ /\ "FRAMEEND" \in a.flags
              /\ pc'[p] = "next_con" /\ ret'[p] = "idle" /\ ~Filling(p)'
    BY <1>d, <1>10, <2>1, <2>t, CopyCells
  <2>3. /\ d.num < Len(d.of) /\ d.of \in Frames /\ d.num \in Nat /\ d.stamp \in 0..1
        /\ "FRAMEEND" \in a.flags <=> d.num = Len(d.of) - 1
        /\ IF d.num = Len(d.of) - 1 THEN f.next = 0 /\ f.number = 1
           ELSE f.next = d.num + 1 /\ f.of = d.of /\ f.stamp = d.stamp
        /\ OnePacket(s) => d.of = <<1>>
        /\ OnePacket(s) \/ d.of \in s.frames
    BY <1>d, <1>f, <1>4, PacketType DEF LastSent
  <2>4. ASSUME OnePacket(s) PROVE Fits(d.of) /\ "FRAMEEND" \in a.flags
    <3>0. Len(<<1>>) = 1 /\ <<1>>[1] = 1 OBVIOUS
    <3>1. Len(d.of) = 1 /\ d.of[Len(d.of)] = 1 BY <2>3, <2>4, <3>0
    <3>2. DataMaxLen \in Nat BY DataFifoAssumption
    <3>3. d.num = Len(d.of) - 1 BY <2>3, <3>1
    <3>4. QED BY <2>3, <3>1, <3>2, <3>3 DEF Fits
  <2>5. CASE pc'[p] = "idle" /\ Filling(p)' /\ ("FRAMEEND" \in a.flags => ~Fits(d.of))
    <3>1. ~OnePacket(s) BY <2>4, <2>5
    <3>2. CASE "FRAMEEND" \in a.flags
      <4>1. f.next = 0 /\ ~(f.number = 0) BY <2>3, <3>2
      <4>2. MayBeEmpty(p)'
        <5>1. d.of \in s.frames /\ ~Fits(d.of) BY <2>3, <2>5, <3>1, <3>2
        <5>2. QED BY <1>3, <5>1 DEF MayBeEmpty
      <4>3. d.num + 1 \in Nat BY <2>3
      <4>4. \E st \in 0..1, k \in Frames, n \in Nat :
               /\ Cells(t, st, k, n)'
               /\ Fits(k) => boards'.resume = "frame" \/ f.number = 0
        BY <2>2, <2>3, <2>5, <3>2, <4>3
      <4>5. Rests(p, f.number = 0)' BY <2>2, <4>1, <4>2, <4>4 DEF Rests
      <4>6. InStep(p, f)' BY <4>1, <4>5 DEF InStep
      <4>7. QED BY <2>5, <3>1, <4>6 DEF OnePacket
    <3>3. CASE "FRAMEEND" \notin a.flags
      <4>1. f.next = d.num + 1 /\ f.of = d.of /\ f.stamp = d.stamp /\ f.next > 0
        BY <2>3, <3>3
      <4>2. Waits(p, [stamp |-> f.stamp, num |-> f.next, of |-> f.of])'
        BY <2>2, <2>5, <4>1 DEF Waits
      <4>3. InStep(p, f)' BY <4>1, <4>2 DEF InStep
      <4>4. QED BY <2>5, <3>1, <4>3 DEF OnePacket
    <3>4. QED BY <3>2, <3>3
  <2>6. CASE /\ "FRAMEEND" \in a.flags
             /\ pc'[p] = "next_con" /\ ret'[p] = "idle" /\ ~Filling(p)'
    BY <1>4, <2>6 DEF InCall, Distributing
  <2>7. QED BY <2>2, <2>5, <2>6
<1>11. CASE AllocForConsumer(p) \/ CountReference(p) \/ AddToConsumer(p) \/ SetDoing(p)
  <2>1. /\ pc[p] \in Distributing /\ pc'[p] \in Distributing \cup {"check"} /\ ret' = ret
    BY <1>11 DEF AllocForConsumer, CountReference, AddToConsumer, SetDoing, Distributing,
       Goto, TypeOK
  <2>2. ~LinkFrame(p) BY <2>1 DEF LinkFrame, Distributing
  <2>3. IF ret[p] = "link" THEN a.data.num = 0 ELSE ~Filling(p) /\ "FRAMEEND" \in a.flags
    BY <1>2, <2>1 DEF InCall
  <2>4. ~Filling(p) => ~Filling(p)' BY <2>2, OwnFrame
  <2>5. QED BY <1>4, <2>1, <2>3, <2>4 DEF InCall, Distributing
<1>12. CASE ProducerCheck(p)
  <2>1. pc[p] = "check" /\ pc'[p] = ret[p] /\ ret' = ret /\ ret[p] \in {"idle", "link"}
    BY <1>12 DEF ProducerCheck, Goto, TypeOK
  <2>2. ~LinkFrame(p) BY <2>1 DEF LinkFrame
  <2>3. IF ret[p] = "link" THEN a.data.num = 0 ELSE ~Filling(p) /\ "FRAMEEND" \in a.flags
    BY <1>2, <2>1 DEF InCall
  <2>4. ~Filling(p) => ~Filling(p)' BY <2>2, OwnFrame
  <2>5. CASE ret[p] = "link" BY <1>4, <2>1, <2>3, <2>5 DEF InCall, Distributing
  <2>6. CASE ret[p] = "idle"
    <3>1. ~Filling(p)' BY <2>3, <2>4, <2>6
    <3>2. f.next = 0 BY <1>f, <1>4, <2>3, <2>6 DEF LastSent
    <3>3. InStep(p, f)' BY <3>1, <3>2 DEF InStep, Rests
    <3>4. QED BY <2>1, <2>6, <3>1, <3>3
  <2>7. QED BY <2>1, <2>5, <2>6
<1>13. QED BY <1>6, <1>7, <1>8, <1>9, <1>10, <1>11, <1>12 DEF ProducerStep


\* A step of a thread inside the queue keeps every fifo where its stream is.
LEMMA StepContent ==
  ASSUME SysInv, SysInv', RInv, NewInv, ContentInv, OwnerInv, DataMaxLen >= 1, [Next]_vars,
         \/ \E p \in Producers : Fifoside(ProducerStep(p))
         \/ \E c \in Consumers : Fifoside(ConsumerStep(c))
  PROVE  ContentInv' /\ OwnerInv'
<1> USE DEF SysInv
<1>1. UNCHANGED <<srcVars, todo>> /\ boards' = boards /\ frame' = frame
  BY DEF Fifoside, srcVars
<1>2. ASSUME NEW p \in Producers, ~ProducerStep(p)
      PROVE  pc'[p] = pc[p] /\ call'[p] = call[p] /\ ret'[p] = ret[p] /\ TopStays(p)
  <2>1. pc'[p] = pc[p] /\ call'[p] = call[p] /\ ret'[p] = ret[p]
    <3>1. ASSUME NEW c \in Consumers, ConsumerStep(c)
          PROVE  pc'[p] = pc[p] /\ call'[p] = call[p] /\ ret'[p] = ret[p]
      BY <3>1 DEF ConsumerStep, Release, ConsumerCheck, Unlink, prodVars
    <3>2. ASSUME NEW q \in Producers, ProducerStep(q)
          PROVE  pc'[p] = pc[p] /\ call'[p] = call[p] /\ ret'[p] = ret[p]
      BY <1>2, <3>2, OwnCallOnly
    <3>3. QED BY <3>1, <3>2 DEF Fifoside
  <2>2. TopStays(p) BY <1>2, TailKept DEF TopStays, Top
  <2>3. QED BY <2>1, <2>2
<1>3. OwnerInv'
  <2>1. \A p \in Producers : pc'[p] # "idle" => pc[p] # "idle" BY <1>2, StepNotIdle
  <2>2. QED BY <1>1, <2>1 DEF OwnerInv
<1>4. ASSUME NEW u \in boards.streams, Taken(u) PROVE Content(u, Target(u))'
  <2>p. PICK p : p = Target(u) OBVIOUS
  <2>1. /\ u \in Stream /\ p \in Producers /\ Content(u, p)
    BY <1>4, <2>p, WiringAssumption DEF SysType, Stream, ContentInv
  <2>2. CASE ProducerStep(p)
    <3>1. call[p] \in Calls BY <2>1, <2>2, StepNotIdle DEF RInv, ArgsInv
    <3>2. Content(u, p)' BY <1>1, <2>p, <2>1, <2>2, <3>1, OwnContent
    <3>3. QED BY <2>p, <3>2
  <2>3. CASE ~ProducerStep(p)
    <3>1. Content(u, p)' BY <1>1, <1>2, <2>1, <2>3, AwayKeeps
    <3>2. QED BY <2>p, <3>1
  <2>4. QED BY <2>2, <2>3
<1>5. QED BY <1>1, <1>3, <1>4 DEF ContentInv

-----------------------------------------------------------------------------
(* From the frame at the end of the list to the frames handed out           *)

\* A frame of which nothing is left.
LEMMA WholeEmpty ==
  ASSUME NEW p, MayBeEmpty(p), NEW x
  PROVE  Whole(p, SubSeq(x, 1, 0))
<1>1. SubSeq(x, 1, 0) = <<>> OBVIOUS
<1>2. DOMAIN <<>> = {} OBVIOUS
<1>3. QED BY <1>1, <1>2 DEF Whole, InOrder

\* The frame being handed out stays the same until all consumers have it.
LEMMA OutKept ==
  ASSUME IInv, [Next]_vars, NEW p \in Producers, pc'[p] \in Distributing
  PROVE  \/ Flush(p) \/ CopyPacket(p)
         \/ pc[p] \in Distributing /\ item'[p] = item[p]
<1> USE DEF IInv, TypeOK, Goto
<1> DEFINE Same == pc[p] \in Distributing /\ item'[p] = item[p]
<1>1. CASE UNCHANGED vars BY <1>1 DEF vars, prodVars
<1>2. ASSUME NEW c \in Consumers, ConsumerStep(c) PROVE Same
  BY <1>2 DEF ConsumerStep, Release, ConsumerCheck, Unlink, prodVars
<1>3. ASSUME NEW q \in Producers, NEW a \in Calls, Call(q, a) PROVE Same
  <2>1. pc' = [pc EXCEPT ![q] = IF "NEWFRAME" \in a.flags THEN "alloc" ELSE "tail"] /\ item' = item
    BY <1>3 DEF Call
  <2>2. QED BY <2>1 DEF Distributing
<1>4. ASSUME NEW q \in Producers, ProducerStep(q) PROVE Flush(p) \/ CopyPacket(p) \/ Same
  <2>1. CASE q = p
    <3>1. CASE AllocFrame(p) \/ LinkFrame(p) \/ CheckTail(p)
      BY <3>1 DEF AllocFrame, LinkFrame, CheckTail, Distributing
    <3>2. CASE AllocForConsumer(p) \/ CountReference(p) \/ AddToConsumer(p)
      BY <3>2 DEF AllocForConsumer, CountReference, AddToConsumer, Distributing
    <3>3. CASE SetDoing(p) BY <3>3 DEF SetDoing, Distributing
    <3>4. CASE ProducerCheck(p) BY <3>4 DEF ProducerCheck, Distributing
    <3>5. QED BY <1>4, <2>1, <3>1, <3>2, <3>3, <3>4 DEF ProducerStep
  <2>2. CASE q # p
    <3>1. pc'[p] = pc[p] BY <1>4, <2>2, OwnCallOnly
    <3>2. item'[p] = item[p]
      <4>1. item' = item \/ \E x : item' = [item EXCEPT ![q] = x]
        BY <1>4 DEF ProducerStep, AllocFrame, Flush, LinkFrame, CheckTail, CopyPacket, FrameEnd,
           AllocForConsumer, CountReference, AddToConsumer, SetDoing, ProducerCheck
      <4>2. QED BY <2>2, <4>1
    <3>3. QED BY <3>1, <3>2
  <2>3. QED BY <2>1, <2>2
<1>5. QED BY <1>1, <1>2, <1>3, <1>4 DEF Next

\* What a thread begins to hand out is all of a frame, as far as can be.
LEMMA OutWhole ==
  ASSUME SysInv, SysInv', RInv, RInv', ContentInv, OwnerInv, OutInv, [Next]_vars, boards' = boards
  PROVE  OutInv'
<1> USE DEF SysInv, IInv
<1> SUFFICES ASSUME NEW p \in Producers, pc'[p] \in Distributing
             PROVE  Whole(p, SubSeq(data'[item'[p]], 1, len'[item'[p]]))
  BY DEF OutInv, Whole, MayBeEmpty
<1>1. CASE pc[p] \in Distributing /\ item'[p] = item[p]
  <2>1. item[p] \in Item /\ item[p] \in ProducerItem /\ Frozen(item[p])
    BY <1>1 DEF ItemInv, Frozen, ProducerItem
  <2>2. len'[item[p]] = len[item[p]] /\ data'[item[p]] = data[item[p]] BY <2>1, FieldsKept
  <2>3. QED BY <1>1, <2>2 DEF OutInv
<1>2. ASSUME pc[p] \in {"flush", "copy"}
      PROVE  \E s \in Stream : InCall(s, p, call[p])
  <2>1. PICK s \in boards.streams : Taken(s) /\ Target(s) = p BY <1>2 DEF OwnerInv
  <2>2. Content(s, p) BY <2>1 DEF ContentInv
  <2>3. call[p] \in Calls BY <1>2 DEF RInv, ArgsInv
  <2>4. s \in Stream BY DEF SysType, Stream
  <2>5. QED BY <1>2, <2>2, <2>3, <2>4 DEF Content
<1>3. CASE Flush(p)
  <2>1. pc[p] = "flush" BY <1>3 DEF Flush
  <2>2. PICK s \in Stream : InCall(s, p, call[p]) BY <1>2, <2>1
  <2>3. Rests(p, "FIRSTFRAME" \in call[p].flags) BY <2>1, <2>2 DEF InCall, Expects
  <2>4. Filling(p) BY <1>3 DEF Flush, Goto, TypeOK, Distributing
  <2>t. PICK t : t = Top(p) OBVIOUS
  <2>5. t \in ProducerItem /\ t \in Item /\ t = Last(list[p])
    BY <2>t, <2>4, TailItem DEF Filling, Top, ProducerItem
  <2>6. /\ item'[p] = t /\ data' = data
        /\ len'[t] = IF "FIRSTFRAME" \in call[p].flags THEN 0 ELSE len[t]
    BY <1>3, <2>4, <2>5 DEF Flush, TypeOK
  <2>7. PICK st \in 0..1, k \in Frames, n \in Nat :
          /\ Cells(t, st, k, n)
          /\ Fits(k) => boards.resume = "frame" \/ "FIRSTFRAME" \in call[p].flags
    BY <2>t, <2>3, <2>4 DEF Rests
  <2>8. /\ len[t] = 0 => MayBeEmpty(p)
        /\ "FIRSTFRAME" \in call[p].flags => MayBeEmpty(p)
    BY <2>t, <2>3, <2>4 DEF Rests, MayBeEmpty
  <2>9. len[t] \in Nat BY <2>5, DataFifoAssumption DEF TypeOK
  <2>x. PICK x : x = data[t] OBVIOUS
  <2>10. CASE "FIRSTFRAME" \in call[p].flags
    <3>1. len'[t] = 0 /\ MayBeEmpty(p) BY <2>6, <2>8, <2>10
    <3>2. Whole(p, SubSeq(x, 1, 0)) BY <3>1, WholeEmpty
    <3>3. QED BY <2>6, <2>x, <3>1, <3>2
  <2>11. CASE "FIRSTFRAME" \notin call[p].flags
    <3>1. PICK l \in Nat : l = len'[t] /\ l = len[t] BY <2>6, <2>9, <2>11
    <3>2. Packets(x, l, st, k, n) BY <2>7, <2>x, <3>1 DEF Cells
    <3>3. /\ l = 0 => MayBeEmpty(p)
          /\ l # 0 /\ Fits(k) => boards.resume = "frame" \/ l = k[Len(k)]
      BY <2>7, <2>8, <2>11, <3>1
    <3>4. Whole(p, SubSeq(x, 1, l)) BY <3>2, <3>3, PacketsWhole
    <3>5. QED BY <2>6, <2>x, <3>1, <3>4
  <2>12. QED BY <2>10, <2>11
<1>4. CASE CopyPacket(p)
  <2>1. pc[p] = "copy" BY <1>4 DEF CopyPacket, FrameEnd
  <2>2. PICK s \in Stream : InCall(s, p, call[p]) BY <1>2, <2>1
  <2>3. PICK d \in Data : d = call[p].data BY <2>2 DEF InCall, LastSent
  <2>4. Waits(p, d) /\ LastSent(s, call[p]) BY <2>1, <2>2, <2>3 DEF InCall
  <2>c. call[p] \in Calls BY <2>1 DEF RInv, ArgsInv
  <2>t. PICK t : t = Top(p) OBVIOUS
  <2>5. /\ Cells(t, d.stamp, d.of, d.num + 1)' /\ len'[t] \in Nat
        /\ "FRAMEEND" \in call[p].flags /\ len'[t] # 0 /\ item'[p] = t
    BY <1>4, <2>t, <2>c, <2>3, <2>4, CopyCells DEF Distributing
  <2>6. PICK l \in Nat : l = len'[t] BY <2>5
  <2>7. PICK x : x = data'[t] OBVIOUS
  <2>8. d.num + 1 = Len(d.of) /\ Len(d.of) # 0
    <3>1. d.num = Len(d.of) - 1 /\ d.num \in Nat /\ Len(d.of) \in Nat \ {0}
      BY <2>3, <2>4, <2>5, PacketType, FrameType DEF LastSent
    <3>2. QED BY <3>1
  <2>9. Packets(x, l, d.stamp, d.of, Len(d.of)) BY <2>5, <2>6, <2>7, <2>8 DEF Cells
  <2>10. l # 0 /\ (Fits(d.of) => l = d.of[Len(d.of)]) BY <2>5, <2>6, <2>8, <2>9 DEF Packets
  <2>11. Whole(p, SubSeq(x, 1, l)) BY <2>9, <2>10, PacketsWhole
  <2>12. QED BY <2>5, <2>6, <2>7, <2>11
<1>5. QED BY <1>1, <1>3, <1>4, OutKept

\* So is what a consumer finds in its queue.
LEMMA QueueWhole ==
  ASSUME RInv, RInv', OutInv, boards.resume # "packet", FramesWhole, [Next]_vars, boards' = boards
  PROVE  FramesWhole'
<1> SUFFICES ASSUME NEW c \in Consumers, NEW i \in DOMAIN QueueOf(c)'
             PROVE  Whole(QueueOf(c)'[i].from, QueueOf(c)'[i].body)
  BY DEF FramesWhole, Whole, MayBeEmpty
<1>q. PICK q : q = QueueOf(c) OBVIOUS
<1>r. PICK r : r = QueueOf(c)' OBVIOUS
<1>s. PICK S : S = {SeenMap[x] : x \in Item} \cup {OutOf(p) : p \in Producers} OBVIOUS
<1>1. q \in Seq(S)
  <2>1. q = Map(SeenMap, Held(c)) /\ Held(c) \in Seq(Item) BY <1>q, QueueIsMap, HeldItems DEF RInv
  <2>2. \A j \in 1..Len(Held(c)) : SeenMap[Held(c)[j]] \in S BY <1>s, <2>1
  <2>3. q \in [1..Len(Held(c)) -> S] /\ Len(Held(c)) \in Nat BY <2>1, <2>2 DEF Map
  <2>4. QED BY <2>3
<1>2. \A j \in DOMAIN q : Whole(q[j].from, q[j].body) BY <1>q DEF FramesWhole
<1>3. \/ r = q
      \/ q # <<>> /\ r = Tail(q)
      \/ \E p \in Producers : TodoOf(p) # <<>> /\ r = Append(q, OutOf(p))
  <2>1. [Broadcast!Next]_(Broadcast!vars) BY StepRefines
  <2>2. CASE UNCHANGED Broadcast!vars BY <1>q, <1>r, <2>2 DEF Broadcast!vars
  <2>3. ASSUME NEW p \in Producers, Broadcast!Publish(p) PROVE r = q
    BY <1>q, <1>r, <2>3 DEF Broadcast!Publish
  <2>4. ASSUME NEW p \in Producers, Broadcast!Deliver(p)
        PROVE  r = q \/ (TodoOf(p) # <<>> /\ r = Append(q, OutOf(p)))
    BY <1>q, <1>r, <2>4 DEF Broadcast!Deliver
  <2>5. ASSUME NEW e \in Consumers, Broadcast!Consume(e) PROVE r = q \/ (q # <<>> /\ r = Tail(q))
    BY <1>q, <1>r, <2>5 DEF Broadcast!Consume
  <2>6. QED BY <2>1, <2>2, <2>3, <2>4, <2>5 DEF Broadcast!Next
<1>4. CASE r = q BY <1>r, <1>2, <1>4
<1>5. CASE q # <<>> /\ r = Tail(q)
  <2>1. i \in 1..Len(r) BY <1>r, <1>1, <1>5
  <2>2. i + 1 \in DOMAIN q /\ r[i] = q[i + 1] BY <1>1, <1>5, <2>1
  <2>3. QED BY <1>r, <1>2, <2>2
<1>6. ASSUME NEW p \in Producers, TodoOf(p) # <<>>, r = Append(q, OutOf(p))
      PROVE  Whole(r[i].from, r[i].body)
  <2>o. PICK o \in S : o = OutOf(p) BY <1>s
  <2>1. i \in 1..Len(q) + 1 BY <1>r, <1>1, <1>6, <2>o
  <2>2. CASE i \in 1..Len(q)
    <3>1. i \in DOMAIN q /\ r[i] = q[i] BY <1>1, <1>6, <2>o, <2>2
    <3>2. QED BY <1>2, <3>1
  <2>3. CASE i \notin 1..Len(q)
    <3>1. r[i] = o BY <1>1, <1>6, <2>o, <2>1, <2>3
    <3>2. pc[p] \in Distributing BY <1>6 DEF TodoOf
    <3>3. o.from = p /\ o.body = SubSeq(data[item[p]], 1, len[item[p]]) BY <1>6, <2>o DEF OutOf
    <3>4. QED BY <3>1, <3>2, <3>3 DEF OutInv
  <2>4. QED BY <2>2, <2>3
<1>7. QED BY <1>r, <1>3, <1>4, <1>5, <1>6

\* The inductive step.
LEMMA WInvKept ==
  ASSUME boards.resume # "packet", DataMaxLen >= 1, WInv, [SysNext]_allVars
  PROVE  WInv'
<1> USE DEF WInv
<1>1. SysInv' BY SysInvKept
<1>2. [Next]_vars BY SysStep DEF SysInv
<1>3. RInv' BY <1>2, NextIInv, NextHanded, NextArgs, NextBody DEF RInv
<1>4. NewInv' BY <1>2, NewKept DEF SysInv
<1>5. boards' = boards BY BoardsStay
<1>7. ContentInv' /\ OwnerInv'
  <2>1. CASE UNCHANGED allVars
    <3>1. UNCHANGED <<list, status, len, data, pc, call, ret, boards, frame, todo>>
      BY <2>1 DEF allVars, vars, fifoVars, prodVars, srcVars
    <3>2. \A p : TopStays(p) BY <3>1, TopStaysHere
    <3>3. OwnerInv' BY <3>1 DEF OwnerInv
    <3>4. ASSUME NEW u \in boards.streams, Taken(u) PROVE Content(u, Target(u))'
      <4>p. PICK p : p = Target(u) OBVIOUS
      <4>1. Content(u, p) BY <3>4, <4>p DEF ContentInv
      <4>2. Content(u, p)' BY <3>1, <3>2, <4>1, AwayKeeps
      <4>3. QED BY <4>p, <4>2
    <3>5. QED BY <3>1, <3>3, <3>4 DEF ContentInv
  <2>2. ASSUME NEW s \in boards.streams, NEW k \in s.frames, Receive(s, k)
        PROVE  ContentInv' /\ OwnerInv'
    BY <2>2, ReceiveContent
  <2>3. ASSUME NEW b \in Boards, Reconnect(b) PROVE ContentInv' /\ OwnerInv'
    BY <2>3, ReconnectContent
  <2>4. ASSUME NEW b \in Boards, NextCall(b) PROVE ContentInv' /\ OwnerInv'
    BY <2>4, CallContent
  <2>5. CASE \/ \E p \in Producers : Fifoside(ProducerStep(p))
             \/ \E c \in Consumers : Fifoside(ConsumerStep(c))
    BY <1>1, <1>2, <2>5, StepContent
  <2>6. QED BY <2>1, <2>2, <2>3, <2>4, <2>5 DEF SysNext, Boardside
<1>8. OutInv' BY <1>1, <1>2, <1>3, <1>5, OutWhole
<1>9. FramesWhole' BY <1>2, <1>3, <1>5, QueueWhole
<1>10. QED BY <1>1, <1>3, <1>4, <1>7, <1>8, <1>9

\* What every consumer gets from every stream is made of whole packets of one
\* frame of its board, in their order; and of a frame that fits into a buffer
\* it is all there is, or, where the board leaves a frame that a break cut off
\* behind, its beginning.  This is so for any boards and streams, frames of any
\* number of packets of any size, any buffers and pools, and whatever the
\* threads' interleaving: the flags the handlers derive from the packets'
\* numbers never make data_add mix two frames.  A buffer holds a byte, and
\* FramesWhole leaves out boards that go on in the middle of a frame.
THEOREM SysFramesWhole ==
  ASSUME DataMaxLen >= 1
  PROVE  SysSpec => []FramesWhole
<1> DEFINE MidOr == boards.resume # "packet" => WInv
<1>1. SysInit => WInv
  <2> SUFFICES ASSUME SysInit PROVE WInv OBVIOUS
  <2>0. Init BY DEF SysInit
  <2>1. SysInv BY InitSysInv
  <2>3. IInv BY <2>0, InitIInv
  <2>6. RInv
    <3>1. HandedInv /\ ArgsInv BY <2>0 DEF Init, HandedInv, HasCitem, ArgsInv
    <3>2. BodyInv BY <2>0 DEF Init, BodyInv, ProducerItem
    <3>3. QED BY <2>3, <3>1, <3>2 DEF RInv
  <2>7. \A p \in Producers : pc[p] = "idle" /\ list[p] = <<>> BY <2>0 DEF Init, Fifo
  <2>8. NewInv /\ OutInv BY <2>7 DEF NewInv, OutInv, HasCur, Distributing
  <2>9. \A b \in Boards : 1..Len(todo[b]) = {} BY DEF SysInit
  <2>10. OwnerInv BY <2>7, <2>9 DEF OwnerInv
  <2>11. ContentInv
    <3> SUFFICES ASSUME NEW s \in boards.streams, Taken(s), NEW p, p = Target(s)
                 PROVE  Content(s, p)
      BY DEF ContentInv
    <3>1. s \in Stream /\ p \in Producers /\ s.board \in Boards
      BY WiringAssumption, StreamType DEF SysInit, Stream
    <3>2. pc[p] = "idle" /\ ~Filling(p) BY <2>7, <3>1 DEF Filling
    <3>3. frame[s].next = 0 BY <3>1 DEF SysInit
    <3>4. InStep(p, frame[s]) BY <3>2, <3>3 DEF InStep, Rests
    <3>5. QED BY <2>9, <3>1, <3>2, <3>4 DEF Content
  <2>12. FramesWhole
    <3>1. ASSUME NEW c \in Consumers PROVE DOMAIN QueueOf(c) = {}
      BY <2>0 DEF Init, QueueOf, Fifo
    <3>2. QED BY <3>1 DEF FramesWhole
  <2>13. QED BY <2>1, <2>6, <2>8, <2>10, <2>11, <2>12 DEF WInv
<1>2. SysInit => MidOr BY <1>1
<1>3. MidOr /\ [SysNext]_allVars => MidOr' BY WInvKept, BoardsStay
<1>4. MidOr => FramesWhole BY DEF WInv, FramesWhole
<1>5. QED BY <1>2, <1>3, <1>4, PTL DEF SysSpec

=============================================================================
