----------------------------- MODULE LiveStream -----------------------------
(***************************************************************************)
(* The connection to the streaming server on the same machine.             *)
(* thread_connect_liveserver connects whenever p_localsave->sock is -1 and *)
(* stores the new socket there; thread_localsave sends every live frame as *)
(* a packet header followed by the frame, and gives the socket up at the   *)
(* first error.  No lock guards the field.  sock = 0 stands for -1.        *)
(***************************************************************************)
EXTENDS Integers

CONSTANT
  MaxConn     \* bound: connections made over time

Conn == 1..MaxConn

ASSUME LiveStreamAssumption == MaxConn \in Nat

VARIABLES
  sock,       \* p_localsave->sock
  cpc,        \* the connecting thread: polling, or about to store a socket
  new,        \* the socket it has just connected
  spc,        \* the sending thread: between frames, or before the payload
  server,     \* what the streaming server did with each connection
  open,       \* the sockets that are open
  expects     \* what the server takes the next bytes of a connection for:
              \* "header" or "payload"; "first": a header, and no byte so far

liveVars == <<sock, cpc, new, spc, server, open, expects>>

LiveInit ==
  /\ sock = 0
  /\ cpc = "poll"
  /\ new = 0
  /\ spc = "idle"
  /\ server = [c \in Conn |-> "none"]
  /\ open = {}
  /\ expects = [c \in Conn |-> "first"]

-----------------------------------------------------------------------------
(* thread_connect_liveserver *)

\* A connect that fails is closed and tried again a second later.
Connect ==
  /\ cpc = "poll"
  /\ sock = 0
  /\ \E c \in Conn :
       /\ server[c] = "none"
       /\ \A d \in Conn : d < c => server[d] # "none"
       /\ server' = [server EXCEPT ![c] = "up"]
       /\ open' = open \cup {c}
       /\ new' = c
  /\ cpc' = "store"
  /\ UNCHANGED <<sock, spc, expects>>

Store ==
  /\ cpc = "store"
  /\ sock' = new
  /\ cpc' = "poll"
  /\ UNCHANGED <<new, spc, server, open, expects>>

\* The streaming server closes a connection.
ServerCloses(c) ==
  /\ server[c] = "up"
  /\ server' = [server EXCEPT ![c] = "gone"]
  /\ UNCHANGED <<sock, cpc, new, spc, open, expects>>

-----------------------------------------------------------------------------
(* thread_localsave and streamframe, for a video, an audio or a forwarded  *)
(* camera frame while the live channel is WORKING                          *)

\* A send works, or comes back short once the server has closed.
Sent(c, next) == expects' = [expects EXCEPT ![c] = next]

\* Mutant of GiveUp: the socket is forgotten without being closed.
GiveUpWithoutClose ==
  /\ sock' = 0
  /\ UNCHANGED <<open, expects>>

GiveUp ==
  /\ server[sock] # "up"
  /\ open' = open \ {sock}
  /\ sock' = 0
  /\ UNCHANGED expects

\* The header of the next frame.
SendHeader ==
  /\ spc = "idle"
  /\ sock # 0
  /\ spc' = "payload"
  /\ \/ Sent(sock, "payload") /\ UNCHANGED <<sock, open>>
     \/ GiveUp
  /\ UNCHANGED <<cpc, new, server>>

\* Mutant of SendPayload: the frame may be given up behind its header.
SendPayloadOrNot ==
  /\ spc = "payload"
  /\ spc' = "idle"
  /\ \/ UNCHANGED <<sock, open, expects>>
     \/ sock # 0 /\ Sent(sock, "header") /\ UNCHANGED <<sock, open>>
     \/ sock # 0 /\ GiveUp
  /\ UNCHANGED <<cpc, new, server>>

\* The frame itself, if there is (still, or again) a socket.
SendPayload ==
  /\ spc = "payload"
  /\ spc' = "idle"
  /\ \/ sock = 0 /\ UNCHANGED <<sock, open, expects>>
     \/ sock # 0 /\ Sent(sock, "header") /\ UNCHANGED <<sock, open>>
     \/ sock # 0 /\ GiveUp
  /\ UNCHANGED <<cpc, new, server>>

-----------------------------------------------------------------------------
Connector == Connect \/ Store
LiveSave == SendHeader \/ SendPayload

LiveNext == Connector \/ LiveSave \/ (\E c \in Conn : ServerCloses(c))

LiveSpec == LiveInit /\ [][LiveNext]_liveVars

-----------------------------------------------------------------------------
(* Properties *)

\* The socket field and the positions of the two threads keep their types.
LiveTypeOK ==
  /\ sock \in {0} \cup Conn
  /\ cpc \in {"poll", "store"}
  /\ new \in {0} \cup Conn
  /\ spc \in {"idle", "payload"}
  /\ server \in [Conn -> {"none", "up", "gone"}]
  /\ open \subseteq Conn
  /\ expects \in [Conn -> {"first", "header", "payload"}]

\* The socket that is open is the one in the field or, while a new one waits
\* to be stored, that one alone: neither thread loses a socket, overwrites one
\* that is open or leaves a closed one in the field, and the streaming server
\* never has two connections, although no lock guards the field.
OneConnection == open = IF cpc = "store" THEN {new} ELSE {sock} \ {0}

\* The server reads header, frame, header, frame ... on a connection
\* (t_streaming_packet_header).  Once its first bytes were a header, header
\* and payload alternate, although streamframe reads the socket field again
\* for the payload and another thread may have replaced it by then.  Only the
\* first bytes can be out of step: a payload whose header failed on the
\* connection before.
InStep ==
  [][\A c \in Conn : sock = c /\ sock' = c /\ spc' # spc =>
       expects[c] \in {"first", IF spc = "idle" THEN "header" ELSE "payload"}]_liveVars
=============================================================================
