------------------------------ MODULE Pipeline ------------------------------
(***************************************************************************)
(* The threads of the recording server and the frame queues main connects  *)
(* them by.  Every queue is bounded on both sides: a producer has a pool   *)
(* of buffers, a consumer a pool of items, and datafifo_alloc waits while  *)
(* either is used up.  The threads that drain one queue fill another, so   *)
(* they can wait for each other in a circle; this module is about where.   *)
(*                                                                         *)
(* A fifo is a pair: <<t, name>> is filled by thread t if it is a          *)
(* producer's and drained by t if it is a consumer's.  A queue holds the   *)
(* producers its frames are from; what DataFifo shows of one queue (every  *)
(* consumer gets every frame, once and in order; a buffer is free again    *)
(* when the last consumer has released it) is taken as given.  Which of    *)
(* the outputs a frame or a message leads to is a choice of the model: the *)
(* conditions are the subject of the other modules.                        *)
(***************************************************************************)
EXTENDS Integers, Sequences, FiniteSets

CONSTANTS
  Boards,      \* the boards that are connected, a subset of A, B, C, D
  PoolSize,    \* bound: buffers of a producer (3 to 640 in recbc_srv.h)
  QueueSize    \* bound: items of a consumer

ASSUME PipelineAssumption ==
  /\ Boards \subseteq {"A", "B", "C", "D"}
  /\ PoolSize \in Nat \ {0} /\ QueueSize \in Nat \ {0}

\* Threads that fill no queue never wait, and neither does the thread of a
\* board that is not connected: a frame they are handed is soon given back and
\* nobody waits for ever because of them.  Their queues are left out, and so
\* are the fifos that lead nowhere else (video, switch and overlay messages,
\* the commands for core A's cameras).
Sink == {"A_send", "localsave"} \cup ({"A", "B", "C", "D"} \ Boards)
Thread == Boards \cup {"main", "ST", "img", "analyze"}

\* A board's streams, the console's commands, what each thread makes of them.
Producer ==
  (Boards \X {"Img", "Event", "RX"})
    \cup {<<"main", "Ctrl">>, <<"main", "Loopback">>, <<"ST", "TX_B">>, <<"img", "JPEG">>,
          <<"img", "Filtered">>, <<"analyze", "Event">>}

Consumer ==
  ((Boards \ {"A"}) \X {"Ctrl"}) \cup ((Boards \cap {"B"}) \X {"TX"})
    \cup {<<"ST", "Ctrl">>, <<"ST", "RX">>, <<"ST", "Event">>, <<"img", "Img">>,
          <<"analyze", "Filtered">>, <<"main", "Instructor">>}

\* datafifo_connect of main; it puts the consumer in front of the list.
Connected(p) ==
  CASE p[2] = "Ctrl" ->
         <<<<"ST", "Ctrl">>, <<"localsave", "Ctrl">>, <<"D", "Ctrl">>,
           <<"C", "Ctrl">>, <<"B", "Ctrl">>, <<"A_send", "Ctrl">>>>
    [] p[2] = "TX_B" -> <<<<"B", "TX">>>>
    [] p[2] \in {"JPEG", "Loopback"} -> <<<<"main", "Instructor">>>>
    [] p[2] = "Filtered" -> <<<<"analyze", "Filtered">>>>
    [] p[2] = "Img" -> <<<<"img", "Img">>>>
    [] p[2] \in {"Event", "RX"} -> <<<<"ST", p[2]>>>>

VARIABLES
  queue,   \* the frames in each consumer's list, by their producers
  work     \* what each thread is at: the fifo (or "net") its input came
           \* from, the producers it still has to fill, and how far it is in
           \* the list of the first one's consumers (-1: no buffer yet)

pipeVars == <<queue, work>>

Idle == [src |-> <<"", "">>, out |-> <<>>, served |-> -1]
Net == <<"", "net">>

PipeInit ==
  /\ queue = [c \in Consumer |-> <<>>]
  /\ work = [t \in Thread |-> Idle]

-----------------------------------------------------------------------------
(* The outputs one input can lead to.                                       *)

\* A message of a board (Ingest): a picture, an event, a camera's answer, or
\* video.  What came for its link is sent and leads to nothing.
BoardOutputs(b, c) ==
  {<<>>} \cup IF c = Net THEN {<<<<b, n>>>> : n \in {"Img", "Event", "RX"}} ELSE {}

\* Mutant of MainOutputs: the console's command is answered over the fifo the
\* thread itself drains.
MainOutputsAnswered(c) ==
  IF c = Net THEN {<<<<"main", "Ctrl">>, <<"main", "Loopback">>>>, <<>>} ELSE {<<>>}

\* InstructorMsgHandle: nothing, a command, or several, which are as many
\* orders in a row.  Images for the console are sent.
MainOutputs(c) == IF c = Net THEN {<<<<"main", "Ctrl">>>>, <<>>} ELSE {<<>>}

\* thread_SwitchTracking: the next command of a start-up dialogue or a repeat
\* (Net), nothing for an answer, and for an order or an event a movement of
\* either camera, which is two commands for the student's.
STOutputs(c) ==
  {<<>>} \cup CASE c = Net -> {<<<<"ST", "TX_B">>>>}
               [] c[2] = "RX" -> {}
               [] c[2] \in {"Ctrl", "Event"} -> {<<<<"ST", "TX_B">>, <<"ST", "TX_B">>>>}

\* An image is sent in packets, for which two stand.
JPEGPacknSend2df == <<<<"img", "JPEG">>, <<"img", "JPEG">>>>

\* thread_img: the console gets the image, then the overlay and the analysis
\* may.
ImgOutputs == {<<>>, JPEGPacknSend2df, JPEGPacknSend2df \o <<<<"img", "Filtered">>>>}

Outputs(t, c) ==
  CASE t \in Boards -> BoardOutputs(t, c)
    [] t = "main" -> MainOutputs(c)
    [] t = "ST" -> STOutputs(c)
    [] t = "img" -> ImgOutputs
    [] t = "analyze" -> {<<<<"analyze", "Event">>>>}

-----------------------------------------------------------------------------
(* Pools *)

Filling(t) == work[t].out # <<>>
Fifo(t) == Head(work[t].out)           \* the fifo thread t is filling

\* The buffers of p that consumer c still has.
Count(c, p) == Cardinality({i \in 1 .. Len(queue[c]) : queue[c][i] = p})

\* Consumers get the same frames in the same order, so the buffers of p in
\* use are those of the one that is furthest behind.
HasAll(c, p) == Count(c, p) >= PoolSize
Exhausted(p) == \E c \in Consumer : HasAll(c, p)
Full(c) == Len(queue[c]) >= QueueSize

-----------------------------------------------------------------------------
(* Steps of a thread *)

\* The thread gives the head of queue c back (datafifo_consumer_remove_head).
Removed(c) == IF c = Net THEN queue ELSE [queue EXCEPT ![c] = Tail(@)]

Input(t, c) ==
  \/ c \in Consumer /\ c[1] = t /\ queue[c] # <<>>
  \/ c = Net /\ t \in Boards \cup {"main", "ST"}

\* An input that leads to nothing is given back at once; one that leads to
\* output stays at the head of its queue meanwhile.
Take(t, c) ==
  /\ ~Filling(t) /\ Input(t, c)
  /\ \E out \in Outputs(t, c) :
       \/ out = <<>> /\ queue' = Removed(c) /\ UNCHANGED work
       \/ /\ out # <<>>
          /\ work' = [work EXCEPT ![t] = [src |-> c, out |-> out, served |-> -1]]
          /\ UNCHANGED queue

\* Mutant of Alloc: a producer without a free buffer takes one in use.
AllocAnyway(t) ==
  /\ Filling(t) /\ work[t].served = -1
  /\ work' = [work EXCEPT ![t].served = 0]
  /\ UNCHANGED queue

\* datafifo_alloc on the producer.
Alloc(t) ==
  /\ Filling(t) /\ work[t].served = -1
  /\ ~Exhausted(Fifo(t))
  /\ work' = [work EXCEPT ![t].served = 0]
  /\ UNCHANGED queue

\* The thread has handed a frame out: on to the next, or it gives its input
\* back.
Return(t) ==
  IF Len(work[t].out) > 1
  THEN /\ work' = [work EXCEPT ![t].out = Tail(@), ![t].served = -1]
       /\ UNCHANGED queue
  ELSE work' = [work EXCEPT ![t] = Idle] /\ queue' = Removed(work[t].src)

\* The consumers that still have to get the frame and may keep thread t
\* waiting, by their places in the list.
Ahead(t) == {i \in 1 .. Len(Connected(Fifo(t))) : i > work[t].served /\ Connected(Fifo(t))[i] \in Consumer}
IsNext(t, i) == \A j \in Ahead(t) : i <= j

\* datafifo_addto_consumers, one consumer at a time.
Deliver(t) ==
  /\ Filling(t) /\ work[t].served # -1
  /\ \E i \in Ahead(t) : LET c == Connected(Fifo(t))[i] IN
       /\ IsNext(t, i) /\ ~Full(c)
       /\ queue' = [queue EXCEPT ![c] = Append(@, Fifo(t))]
       /\ work' = [work EXCEPT ![t].served = i]

Delivered(t) ==
  /\ Filling(t) /\ work[t].served # -1 /\ Ahead(t) = {}
  /\ Return(t)

Step(t) ==
  \/ \E c \in Consumer \cup {Net} : Take(t, c)
  \/ Alloc(t) \/ Deliver(t) \/ Delivered(t)

PipeNext == \E t \in Thread : Step(t)

PipeSpec == PipeInit /\ [][PipeNext]_pipeVars

-----------------------------------------------------------------------------
(* Properties *)

\* The queues thread t waits for: those that hold all of the pool it needs a
\* buffer of, or the full one that is next in the list.
WaitsOn(t) ==
  IF ~Filling(t) THEN {}
  ELSE {c \in {Connected(Fifo(t))[i] : i \in {j \in Ahead(t) : work[t].served = -1 \/ IsNext(t, j)}} :
          IF work[t].served = -1 THEN HasAll(c, Fifo(t)) ELSE Full(c)}

Waiting == {t \in Thread : WaitsOn(t) # {}}

\* A set of threads that wait for each other: each for a queue that another
\* of them drains.
Jammed(S) == S # {} /\ \A t \in S : \E c \in WaitsOn(t) : c[1] \in S

Stuck(t, n) == Filling(t) /\ Fifo(t)[2] = n

\* The server does not get out of such a circle: threads that wait for each
\* other go on doing so, whatever the others do.  There is no timeout in
\* datafifo_alloc, and nobody but its own thread takes from a queue.
JamIsForEver == [][\A S \in SUBSET Waiting : Jammed(S) => Jammed(S)']_pipeVars

\* Where the server can lock up.  However slow the disk, the console or the
\* analysis are and in whatever order the queues fill, the threads wait in a
\* circle only if the commands for core B's camera have used up their queue,
\* or the console's commands and the images for the console both have.
OnlyTheseJam ==
  \A S \in SUBSET Waiting : Jammed(S) =>
    \/ "ST" \in S /\ Stuck("ST", "TX_B")
    \/ {"main", "img"} \subseteq S /\ Stuck("main", "Ctrl") /\ Stuck("img", "JPEG")
=============================================================================
