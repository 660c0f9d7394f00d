------------------------------ MODULE CoreLink ------------------------------
(***************************************************************************)
(* One TCP link of the recording server: a codec board (core A, B, C or D) *)
(* or the instructor console ("I").  thread_listen accepts a connection    *)
(* whenever plisten->socket is negative and publishes it in that field;    *)
(* the threads that use the link close the connection and write -1 back.   *)
(* No lock guards the fields of t_listen_thread_param.                     *)
(*                                                                         *)
(* Cores B, C, D and the instructor receive and send in one thread.  Core  *)
(* A has a sending thread of its own (thread_coreA_send), and the two      *)
(* threads agree on closing through the flags senderr and recverr.         *)
(*                                                                         *)
(* A connection is a number; socket = 0 stands for -1.  What a message     *)
(* received does is the subject of other modules: here it is only read.    *)
(***************************************************************************)
EXTENDS Integers, Sequences

CONSTANTS
  Boards,     \* the links to look at: "A", "B", "C", "D" or "I"
  MaxConn,    \* bound: how many connections are made over time
  MaxQueue,   \* bound: messages waiting in an outbound fifo
  TornClose   \* TRUE: a peer may close in the middle of a message

Conn == 1..MaxConn
Queues == {"ctrl", "uart"}

ASSUME CoreLinkAssumption ==
  /\ Boards \subseteq {"A", "B", "C", "D", "I"}
  /\ MaxConn \in Nat
  /\ MaxQueue \in Nat
  /\ TornClose \in BOOLEAN

VARIABLES
  board,     \* which link this is; never changes
  socket,    \* plisten->socket
  senderr,   \* plisten->senderr
  recverr,   \* plisten->recverr
  lpc,       \* where thread_listen is
  rpc,       \* where the receiving (or only) thread is
  spc,       \* where thread_coreA_send is
  peer,      \* what the other end of each connection did
  open,      \* accepted connections whose descriptor is still open
  queue      \* Ctrl_consumer_fifo and UART_TX_consumer_fifo

envVars == <<peer, open>>
errVars == <<senderr, recverr>>
vars == <<board, socket, errVars, lpc, rpc, spc, envVars, queue>>

\* Core A receives and sends in two threads.
Split == board = "A"

\* "draining": closed by the peer, one message left to read; "gone": closed,
\* nothing left; "torn": closed, and what is left is not a whole message.
PeerState == {"none", "up", "draining", "gone", "torn"}

\* The messages main and the tracking thread put on the outbound fifos.  The
\* two camera holders are on channels 1 and 3, so CamhldCmdSend only ever
\* uses the UARTs of A and B.  The instructor gets no COMMAND_INTERNAL.
Kinds(q) ==
  CASE q = "ctrl" -> IF board = "I" THEN {"command"} ELSE {"command", "internal"}
    [] q = "uart" -> IF board \in {"A", "B"} THEN {"byte"} ELSE {}

Init ==
  /\ board \in Boards
  /\ socket = 0
  /\ senderr = FALSE
  /\ recverr = FALSE
  /\ lpc = "poll"
  /\ rpc = "recv"
  /\ spc = "ctrl"
  /\ peer = [c \in Conn |-> "none"]
  /\ open = {}
  /\ queue = [q \in Queues |-> <<>>]

-----------------------------------------------------------------------------
(* The peer and the threads that fill the outbound fifos *)

\* The peer closes the connection.
Disconnect(c) ==
  /\ peer[c] = "up"
  /\ \E s \in {"draining", "gone"} \cup (IF TornClose THEN {"torn"} ELSE {}) :
        peer' = [peer EXCEPT ![c] = s]
  /\ UNCHANGED <<socket, errVars, lpc, rpc, spc, open, queue>>

\* A message reaches an outbound consumer fifo of the link.
Enqueue(q, k) ==
  /\ k \in Kinds(q)
  /\ Len(queue[q]) < MaxQueue
  /\ queue' = [queue EXCEPT ![q] = Append(@, k)]
  /\ UNCHANGED <<socket, errVars, lpc, rpc, spc, envVars>>

-----------------------------------------------------------------------------
(* thread_listen *)

\* The link is down: senderr is reset first, recverr in the next step.
ListenPoll ==
  /\ lpc = "poll"
  /\ socket = 0
  /\ senderr' = FALSE
  /\ lpc' = "clear"
  /\ UNCHANGED <<socket, recverr, rpc, spc, envVars, queue>>

\* Mutant of ListenClear: recverr is not reset.
ListenClearForgotten ==
  /\ lpc = "clear"
  /\ lpc' = "accept"
  /\ UNCHANGED <<socket, errVars, rpc, spc, envVars, queue>>

ListenClear ==
  /\ lpc = "clear"
  /\ recverr' = FALSE
  /\ lpc' = "accept"
  /\ UNCHANGED <<socket, senderr, rpc, spc, envVars, queue>>

\* accept returns the next client and is stored in the socket field.
Accept ==
  /\ lpc = "accept"
  /\ \E c \in Conn :
       /\ peer[c] = "none"
       /\ \A d \in Conn : d < c => peer[d] # "none"
       /\ peer' = [peer EXCEPT ![c] = "up"]
       /\ open' = open \cup {c}
       /\ socket' = c
  /\ lpc' = "poll"
  /\ UNCHANGED <<errVars, rpc, spc, queue>>

-----------------------------------------------------------------------------
(* Receiving *)

\* The last whole message a closed connection held is read.
ReadLast(c) ==
  /\ peer[c] = "draining"
  /\ \E s \in {"gone"} \cup (IF TornClose THEN {"torn"} ELSE {}) :
        peer' = [peer EXCEPT ![c] = s]

\* Mutant of GetMsg: a message that is not there yet is an error.
GetMsgImpatient(c, failed) ==
  \/ failed = (peer[c] \in {"up", "gone"}) /\ peer[c] # "draining" /\ UNCHANGED peer
  \/ ~failed /\ ReadLast(c)

\* Mutant of GetMsg: the end of the stream is a message not there yet.
GetMsgPatient(c, failed) ==
  \/ ~failed /\ peer[c] # "draining" /\ UNCHANGED peer
  \/ ~failed /\ ReadLast(c)

\* select and getMsg on connection c.  getMsg only peeks until a message is
\* complete, so the rest of a torn message hides the end of the stream.
GetMsg(c, failed) ==
  \/ failed = (peer[c] = "gone") /\ peer[c] # "draining" /\ UNCHANGED peer
  \/ ~failed /\ ReadLast(c)

\* Mutant of Drop: the descriptor is not closed.
DropWithoutClose ==
  /\ socket' = 0
  /\ UNCHANGED open

\* Mutant of Drop: the field keeps the closed descriptor.
DropKeepsSocket ==
  /\ open' = open \ {socket}
  /\ UNCHANGED socket

\* close(socket); socket = -1.  Where one thread does everything, the
\* listener cannot act between the two.
Drop ==
  /\ open' = open \ {socket}
  /\ socket' = 0

\* Cores B, C, D and the instructor: look for a message, close on error.
Recv ==
  /\ ~Split
  /\ rpc = "recv"
  /\ rpc' = "ctrl"
  /\ \/ socket = 0 /\ UNCHANGED <<socket, peer, open>>
     \/ socket # 0 /\ GetMsg(socket, FALSE) /\ UNCHANGED <<socket, open>>
     \/ socket # 0 /\ GetMsg(socket, TRUE) /\ Drop
  /\ UNCHANGED <<errVars, lpc, spc, queue>>

\* Core A: an error is only noted in recverr.
RecvA ==
  /\ Split
  /\ rpc = "recv"
  /\ rpc' = "check"
  /\ \/ (socket = 0 \/ recverr) /\ UNCHANGED <<peer, recverr>>
     \/ socket # 0 /\ ~recverr /\ GetMsg(socket, FALSE) /\ UNCHANGED recverr
     \/ socket # 0 /\ ~recverr /\ GetMsg(socket, TRUE) /\ recverr' = TRUE
  /\ UNCHANGED <<socket, senderr, lpc, spc, open, queue>>

\* Core A closes the link when both directions failed.  recverr is only set
\* by this thread, so reading the two flags one after the other sees nothing
\* that reading them at once does not.
CheckErrors ==
  /\ rpc = "check"
  /\ rpc' = IF senderr /\ recverr THEN "close" ELSE "recv"
  /\ UNCHANGED <<socket, errVars, lpc, spc, envVars, queue>>

\* close(socket): whatever the field holds now, -1 included.
CloseA ==
  /\ rpc = "close"
  /\ open' = open \ {socket}
  /\ rpc' = "forget"
  /\ UNCHANGED <<socket, errVars, lpc, spc, peer, queue>>

\* socket = -1: whatever the field holds by now.
ForgetA ==
  /\ rpc = "forget"
  /\ socket' = 0
  /\ rpc' = "recv"
  /\ UNCHANGED <<errVars, lpc, spc, envVars, queue>>

-----------------------------------------------------------------------------
(* Sending *)

\* send on the socket field's connection: it fails on a bad descriptor and
\* may fail once the peer has closed.
SendFails == socket \in open => peer[socket] # "up"
SendWorks == socket \in open

Pop(q) == queue' = [queue EXCEPT ![q] = Tail(@)]

\* COMMAND_INTERNAL is for the other threads and is not sent; core C lacks the
\* test.
Filtered(k) == k = "internal" /\ board # "C"

\* The only thread of a link sends the head of fifo q, if there is one.
SendHead(q) ==
  \/ queue[q] = <<>> /\ UNCHANGED <<socket, open, queue>>
  \/ /\ queue[q] # <<>>
     /\ Filtered(Head(queue[q])) \/ socket = 0
     /\ Pop(q)
     /\ UNCHANGED <<socket, open>>
  \/ /\ queue[q] # <<>> /\ ~Filtered(Head(queue[q])) /\ socket # 0
     /\ \/ SendWorks /\ UNCHANGED <<socket, open>>
        \/ SendFails /\ Drop
     /\ Pop(q)

SendCtrl ==
  /\ ~Split
  /\ rpc = "ctrl"
  /\ rpc' = "uart"
  /\ SendHead("ctrl")
  /\ UNCHANGED <<errVars, lpc, spc, peer>>

\* The UART fifo.  (Core C's version of this step sends the head of the
\* wrong fifo, but its UART fifo stays empty.)
SendUart ==
  /\ rpc = "uart"
  /\ rpc' = "recv"
  /\ SendHead("uart")
  /\ UNCHANGED <<errVars, lpc, spc, peer>>

\* thread_coreA_send tests the link before it sends the head of fifo q...
Sending(q) == IF q = "ctrl" THEN "send ctrl" ELSE "send uart"
Failed(q) == IF q = "ctrl" THEN "fail ctrl" ELSE "fail uart"
After(q) == IF q = "ctrl" THEN "uart" ELSE "err"

TestA(q) ==
  /\ Split
  /\ spc = q
  /\ \/ /\ queue[q] = <<>>
        /\ spc' = After(q)
        /\ UNCHANGED queue
     \/ /\ queue[q] # <<>>
        /\ Filtered(Head(queue[q])) \/ socket = 0 \/ senderr
        /\ Pop(q)
        /\ spc' = After(q)
     \/ /\ queue[q] # <<>>
        /\ ~Filtered(Head(queue[q])) /\ socket # 0 /\ ~senderr
        /\ spc' = Sending(q)
        /\ UNCHANGED queue
  /\ UNCHANGED <<socket, errVars, lpc, rpc, envVars>>

\* ... reads the socket field again for send ...
SendA(q) ==
  /\ spc = Sending(q)
  /\ \/ /\ SendWorks
        /\ Pop(q)
        /\ spc' = After(q)
     \/ /\ SendFails
        /\ spc' = Failed(q)
        /\ UNCHANGED queue
  /\ UNCHANGED <<socket, errVars, lpc, rpc, envVars>>

\* ... and notes an error in senderr.
FailA(q) ==
  /\ spc = Failed(q)
  /\ senderr' = TRUE
  /\ Pop(q)
  /\ spc' = After(q)
  /\ UNCHANGED <<socket, recverr, lpc, rpc, envVars>>

\* if(recverr) senderr = 1, in two steps.
ReadRecverr ==
  /\ spc = "err"
  /\ spc' = IF recverr THEN "set" ELSE "ctrl"
  /\ UNCHANGED <<socket, errVars, lpc, rpc, envVars, queue>>

\* Mutant of SetSenderr: the receiver's error is not passed on.
SetSenderrForgotten ==
  /\ spc = "set"
  /\ spc' = "ctrl"
  /\ UNCHANGED <<socket, errVars, lpc, rpc, envVars, queue>>

SetSenderr ==
  /\ spc = "set"
  /\ senderr' = TRUE
  /\ spc' = "ctrl"
  /\ UNCHANGED <<socket, recverr, lpc, rpc, envVars, queue>>

-----------------------------------------------------------------------------
Listener == ListenPoll \/ ListenClear \/ Accept
Receiver == Recv \/ RecvA \/ CheckErrors \/ CloseA \/ ForgetA
            \/ SendCtrl \/ SendUart
Sender == (\E q \in Queues : TestA(q) \/ SendA(q) \/ FailA(q))
          \/ ReadRecverr \/ SetSenderr
Environment == (\E c \in Conn : Disconnect(c))
               \/ (\E q \in Queues : \E k \in Kinds(q) : Enqueue(q, k))

Next == (Listener \/ Receiver \/ Sender \/ Environment) /\ UNCHANGED board

Spec == Init /\ [][Next]_vars

\* The threads keep running.  Nothing is assumed of the peers: accept may
\* wait for ever.
FairSpec ==
  /\ Spec
  /\ WF_vars((ListenPoll \/ ListenClear) /\ UNCHANGED board)
  /\ WF_vars(Receiver /\ UNCHANGED board)
  /\ WF_vars(Sender /\ UNCHANGED board)

-----------------------------------------------------------------------------
(* Properties *)

\* The fields of t_listen_thread_param and the positions of the threads keep
\* their types.
TypeOK ==
  /\ board \in Boards
  /\ socket \in {0} \cup Conn
  /\ senderr \in BOOLEAN /\ recverr \in BOOLEAN
  /\ lpc \in {"poll", "clear", "accept"}
  /\ rpc \in {"recv", "check", "close", "forget", "ctrl", "uart"}
  /\ spc \in {"ctrl", "uart", "send ctrl", "fail ctrl", "send uart", "fail uart",
              "err", "set"}
  /\ peer \in [Conn -> PeerState]
  /\ open \subseteq Conn
  /\ queue \in [Queues -> Seq({"command", "internal", "byte"})]

\* Every accepted connection that is still open is the one the threads use:
\* where one thread receives, sends and closes (thread_coreB, C, D, main), no
\* connection is lost by thread_listen overwriting the socket field or by
\* that thread writing -1 over a connection just accepted.
NoOrphan == ~Split => open \subseteq {socket}

\* There the socket field never holds a descriptor that was closed (and that
\* the next open() of the process may have got).
NoDangling == ~Split /\ socket # 0 => socket \in open

\* Nor does that thread close a connection whose peer is still there.
ClosesOnlyDead == [][~Split => \A c \in open \ open' : peer[c] # "up"]_vars

\* recverr and senderr describe the connection now in the socket field: while
\* the peer is there, reception has not been given up for an error of an
\* earlier connection...
RecverrIsCurrent == socket # 0 /\ recverr => peer[socket] # "up"

\* ... nor has sending ("check socket errors", thread_coreA_send).
SenderrIsCurrent == socket # 0 /\ senderr => peer[socket] # "up"

\* A link whose peer has closed ("disconnected to server") is noticed, given
\* up and offered to the next client.
LinkRecovers ==
  \A c \in Conn :
    (socket = c /\ peer[c] \in {"draining", "gone", "torn"}) ~> (lpc = "accept")
=============================================================================
