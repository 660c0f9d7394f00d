--------------------------- MODULE CoreLinkProofs ---------------------------
(***************************************************************************)
(* Theorems about CoreLink, for every link, any number of connections, any *)
(* length of the outbound fifos, and peers that may close in the middle of *)
(* a message.                                                              *)
(***************************************************************************)
EXTENDS CoreLink, TLAPS, SequenceTheorems

-----------------------------------------------------------------------------
(* The inductive invariant *)

\* Which threads there are: a link has the phases of one thread or of two.
Threads ==
  IF Split THEN rpc \in {"recv", "check", "close", "forget"}
           ELSE rpc \in {"recv", "ctrl", "uart"} /\ spc = "ctrl"

\* thread_listen has the socket field to itself from the moment it finds the
\* link down until it has accepted a connection: nobody else leaves -1.  By
\* then it has reset recverr, which the receiving thread only sets on a
\* connection.
ListenerAlone ==
  /\ lpc # "poll" => socket = 0
  /\ lpc = "accept" => ~recverr

\* A connection in the field or open was accepted.
Accepted ==
  /\ socket # 0 => peer[socket] # "none"
  /\ \A c \in open : peer[c] # "none"

\* Where one thread does everything, the field names what is open.
FieldIsOpen == ~Split => open = {socket} \ {0}

\* What thread_coreA_send is about to send is still in its fifo.
HeadChosen ==
  \A q \in Queues : spc \in {Sending(q), Failed(q)} => queue[q] # <<>>

IInv ==
  /\ TypeOK
  /\ Threads
  /\ ListenerAlone
  /\ Accepted
  /\ FieldIsOpen
  /\ RecverrIsCurrent
  /\ HeadChosen

-----------------------------------------------------------------------------
(* Facts about the fifos and the messages *)

Message == {"command", "internal", "byte"}

\* The phases of thread_coreA_send that belong to different fifos differ.
LEMMA Phases ==
  /\ Sending("ctrl") = "send ctrl" /\ Sending("uart") = "send uart"
  /\ Failed("ctrl") = "fail ctrl" /\ Failed("uart") = "fail uart"
  /\ After("ctrl") = "uart" /\ After("uart") = "err"
BY DEF Sending, Failed, After

\* Removing a message leaves a fifo of messages, and the other fifo alone.
LEMMA PopType ==
  ASSUME queue \in [Queues -> Seq(Message)], NEW q \in Queues, queue[q] # <<>>, Pop(q)
  PROVE  /\ queue' \in [Queues -> Seq(Message)]
         /\ \A r \in Queues : r # q => queue'[r] = queue[r]
<1>1. queue[q] \in Seq(Message) OBVIOUS
<1>2. Tail(queue[q]) \in Seq(Message) BY <1>1
<1>3. QED BY <1>2 DEF Pop

\* A fifo that a message was added to is not empty.
LEMMA AppendType ==
  ASSUME NEW s \in Seq(Message), NEW k \in Message
  PROVE  /\ Append(s, k) \in Seq(Message)
         /\ Append(s, k) # <<>>
OBVIOUS

\* The messages that reach a link's fifos are of the three kinds.
LEMMA KindsAreMessages == \A q \in Queues : Kinds(q) \subseteq Message
BY DEF Queues, Kinds, Message

-----------------------------------------------------------------------------
(* The steps preserve the invariant *)

\* The invariant holds when the threads start.
LEMMA InitIInv == Init => IInv
<1> SUFFICES ASSUME Init PROVE IInv OBVIOUS
<1> USE DEF Init
<1>1. TypeOK
  <2>1. queue \in [Queues -> Seq({"command", "internal", "byte"})] OBVIOUS
  <2>2. peer \in [Conn -> PeerState] BY DEF PeerState
  <2>3. senderr \in BOOLEAN /\ recverr \in BOOLEAN OBVIOUS
  <2>4. QED BY <2>1, <2>2, <2>3 DEF TypeOK
<1>2. Threads /\ ListenerAlone /\ Accepted /\ FieldIsOpen /\ RecverrIsCurrent
  BY DEF Threads, ListenerAlone, Accepted, FieldIsOpen, RecverrIsCurrent
<1>3. HeadChosen BY DEF HeadChosen, Queues, Sending, Failed
<1>4. QED BY <1>1, <1>2, <1>3 DEF IInv

\* thread_listen: the first two steps clear the flags, the third publishes a
\* connection.
LEMMA ListenerPreserves == IInv /\ Listener /\ UNCHANGED board => IInv'
<1> SUFFICES ASSUME IInv, Listener, UNCHANGED board PROVE IInv' OBVIOUS
<1> USE CoreLinkAssumption DEF errVars, envVars
<1>1. UNCHANGED <<rpc, spc, queue, board>>
  BY DEF Listener, ListenPoll, ListenClear, Accept
<1>2. Threads' /\ HeadChosen'
  BY <1>1 DEF IInv, Threads, Split, HeadChosen
<1>3. CASE ListenPoll
  <2>1. TypeOK' BY <1>1, <1>3 DEF IInv, TypeOK, ListenPoll
  <2>2. QED BY <1>1, <1>2, <1>3, <2>1
        DEF IInv, ListenPoll, ListenerAlone, Accepted, FieldIsOpen, Split, RecverrIsCurrent
<1>4. CASE ListenClear
  <2>1. TypeOK' BY <1>1, <1>4 DEF IInv, TypeOK, ListenClear
  <2>2. QED BY <1>1, <1>2, <1>4, <2>1
        DEF IInv, ListenClear, ListenerAlone, Accepted, FieldIsOpen, Split, RecverrIsCurrent
<1>5. CASE Accept
  <2>1. PICK c \in Conn :
          /\ peer[c] = "none" /\ peer' = [peer EXCEPT ![c] = "up"]
          /\ open' = open \cup {c} /\ socket' = c
    BY <1>5 DEF Accept
  <2>2. c # 0 BY <2>1 DEF Conn
  <2>3. socket = 0 /\ recverr' = FALSE /\ lpc' = "poll" /\ UNCHANGED errVars
    BY <1>5 DEF IInv, TypeOK, ListenerAlone, Accept
  <2>4. TypeOK' BY <1>1, <2>1, <2>3 DEF IInv, TypeOK, PeerState
  <2>5. Accepted' BY <2>1 DEF IInv, TypeOK, Accepted
  <2>6. FieldIsOpen' BY <1>1, <2>1, <2>2, <2>3 DEF IInv, FieldIsOpen, Split
  <2>7. ListenerAlone' /\ RecverrIsCurrent' BY <2>3 DEF ListenerAlone, RecverrIsCurrent
  <2>8. QED BY <1>2, <2>4, <2>5, <2>6, <2>7 DEF IInv
<1>6. QED BY <1>3, <1>4, <1>5 DEF Listener

\* What getMsg does to the connection it reads: nothing brings a peer back.
LEMMA GetMsgEffect ==
  ASSUME TypeOK, socket # 0, GetMsg(socket, FALSE) \/ GetMsg(socket, TRUE)
  PROVE  /\ peer' \in [Conn -> PeerState]
         /\ \A c \in Conn : peer[c] # "none" => peer'[c] # "none"
         /\ \A c \in Conn : peer[c] # "up" => peer'[c] # "up"
         /\ GetMsg(socket, TRUE) => peer'[socket] = "gone" /\ peer[socket] = "gone"
<1>1. CASE UNCHANGED peer /\ peer[socket] # "draining"
  BY <1>1 DEF TypeOK, GetMsg, ReadLast
<1>2. CASE ReadLast(socket)
  <2>1. PICK s \in {"gone", "torn"} : peer' = [peer EXCEPT ![socket] = s]
    BY <1>2 DEF ReadLast
  <2>2. ~GetMsg(socket, TRUE) BY <1>2 DEF GetMsg, ReadLast
  <2>3. QED BY <2>1, <2>2 DEF TypeOK, PeerState
<1>3. QED BY <1>1, <1>2 DEF GetMsg

\* The peer's side of the invariant only asks that peers do not come back.
LEMMA PeersOnlyLeave ==
  ASSUME IInv, UNCHANGED <<board, socket, senderr, recverr, lpc, rpc, spc, open, queue>>,
         peer' \in [Conn -> PeerState],
         \A c \in Conn : peer[c] # "none" => peer'[c] # "none",
         \A c \in Conn : peer[c] # "up" => peer'[c] # "up"
  PROVE  IInv'
<1>1. TypeOK' BY DEF IInv, TypeOK
<1>2. Threads' /\ HeadChosen' /\ ListenerAlone' /\ FieldIsOpen'
  BY DEF IInv, Threads, Split, HeadChosen, ListenerAlone, FieldIsOpen
<1>3. Accepted' /\ RecverrIsCurrent'
  BY DEF IInv, TypeOK, Accepted, RecverrIsCurrent
<1>4. QED BY <1>1, <1>2, <1>3 DEF IInv

\* A peer that closes, and a message put on an outbound fifo.
LEMMA EnvironmentPreserves == IInv /\ Environment /\ UNCHANGED board => IInv'
<1> SUFFICES ASSUME IInv, Environment, UNCHANGED board PROVE IInv' OBVIOUS
<1>1. ASSUME NEW c \in Conn, Disconnect(c) PROVE IInv'
  <2>1. PICK s \in PeerState \ {"none", "up"} : peer' = [peer EXCEPT ![c] = s]
    BY <1>1 DEF Disconnect, PeerState
  <2>2. UNCHANGED <<socket, senderr, recverr, lpc, rpc, spc, open, queue>>
    BY <1>1 DEF Disconnect, errVars
  <2>3. QED BY <2>1, <2>2, PeersOnlyLeave DEF IInv, TypeOK
<1>2. ASSUME NEW q \in Queues, NEW k \in Kinds(q), Enqueue(q, k) PROVE IInv'
  <2>1. UNCHANGED <<board, socket, senderr, recverr, lpc, rpc, spc, peer, open>>
    BY <1>2 DEF Enqueue, errVars, envVars
  <2>2. k \in Message BY <1>2, KindsAreMessages
  <2>3. queue \in [Queues -> Seq(Message)] BY DEF IInv, TypeOK, Message
  <2>4. queue[q] \in Seq(Message) BY <2>3
  <2>5. queue' = [queue EXCEPT ![q] = Append(queue[q], k)] BY <1>2 DEF Enqueue
  <2>6. queue' \in [Queues -> Seq(Message)]
    BY <2>2, <2>3, <2>4, <2>5, AppendType
  <2>7. \A r \in Queues : queue[r] # <<>> => queue'[r] # <<>>
    BY <2>2, <2>3, <2>4, <2>5, AppendType
  <2>8. TypeOK' BY <2>1, <2>6 DEF IInv, TypeOK, Message
  <2>9. HeadChosen' BY <2>1, <2>7 DEF IInv, HeadChosen
  <2>10. Threads' /\ ListenerAlone' /\ FieldIsOpen' /\ Accepted' /\ RecverrIsCurrent'
    BY <2>1 DEF IInv, Threads, Split, ListenerAlone, FieldIsOpen, Accepted,
                RecverrIsCurrent
  <2>11. QED BY <2>8, <2>9, <2>10 DEF IInv
<1>3. QED BY <1>1, <1>2 DEF Environment

\* Dropping the connection, where one thread does everything, leaves nothing
\* open and no connection in the field.
LEMMA DropPreserves ==
  ASSUME IInv, ~Split, Drop, UNCHANGED <<board, senderr, recverr, lpc, spc>>,
         peer' \in [Conn -> PeerState],
         \A c \in Conn : peer[c] # "none" => peer'[c] # "none",
         rpc' \in {"recv", "ctrl", "uart"},
         queue' \in [Queues -> Seq(Message)]'
  PROVE  IInv'
<1>1. open' = {} /\ socket' = 0 BY DEF IInv, FieldIsOpen, Drop
<1>2. TypeOK' BY <1>1 DEF IInv, TypeOK, Message
<1>3. Threads' BY DEF IInv, Threads, Split
<1>4. HeadChosen' BY DEF IInv, Threads, HeadChosen, Queues, Sending, Failed
<1>5. ListenerAlone' /\ Accepted' /\ FieldIsOpen' /\ RecverrIsCurrent'
  BY <1>1 DEF IInv, ListenerAlone, Accepted, FieldIsOpen, RecverrIsCurrent
<1>6. QED BY <1>2, <1>3, <1>4, <1>5 DEF IInv

\* A step of the only thread that leaves the connection alone.
LEMMA KeepPreserves ==
  ASSUME IInv, ~Split, UNCHANGED <<board, socket, senderr, recverr, lpc, spc, open>>,
         peer' \in [Conn -> PeerState],
         \A c \in Conn : peer[c] # "none" => peer'[c] # "none",
         \A c \in Conn : peer[c] # "up" => peer'[c] # "up",
         rpc' \in {"recv", "ctrl", "uart"},
         queue' \in [Queues -> Seq(Message)]'
  PROVE  IInv'
<1>1. TypeOK' BY DEF IInv, TypeOK, Message
<1>2. Threads' BY DEF IInv, Threads, Split
<1>3. HeadChosen' BY DEF IInv, Threads, HeadChosen, Queues, Sending, Failed
<1>4. ListenerAlone' /\ Accepted' /\ FieldIsOpen' /\ RecverrIsCurrent'
  BY DEF IInv, TypeOK, ListenerAlone, Accepted, FieldIsOpen, Split, RecverrIsCurrent
<1>5. QED BY <1>1, <1>2, <1>3, <1>4 DEF IInv

\* Receiving in the only thread of a link.
LEMMA RecvPreserves == IInv /\ Recv /\ UNCHANGED board => IInv'
<1> SUFFICES ASSUME IInv, Recv, UNCHANGED board PROVE IInv' OBVIOUS
<1>1. /\ ~Split /\ rpc' = "ctrl"
      /\ UNCHANGED <<senderr, recverr, lpc, spc, queue, board>>
  BY DEF Recv, errVars
<1>2. /\ queue' \in [Queues -> Seq(Message)]
      /\ peer \in [Conn -> PeerState]
  BY <1>1 DEF IInv, TypeOK, Message
<1>3. CASE UNCHANGED <<socket, peer, open>>
  BY <1>1, <1>2, <1>3, KeepPreserves
<1>4. CASE socket # 0 /\ GetMsg(socket, FALSE) /\ UNCHANGED <<socket, open>>
  BY <1>1, <1>2, <1>4, GetMsgEffect, KeepPreserves DEF IInv
<1>5. CASE socket # 0 /\ GetMsg(socket, TRUE) /\ Drop
  BY <1>1, <1>2, <1>5, GetMsgEffect, DropPreserves DEF IInv
<1>6. QED BY <1>3, <1>4, <1>5 DEF Recv

\* Sending in the only thread of a link.
LEMMA SendPreserves == IInv /\ (SendCtrl \/ SendUart) /\ UNCHANGED board => IInv'
<1> SUFFICES ASSUME IInv, SendCtrl \/ SendUart, UNCHANGED board PROVE IInv' OBVIOUS
<1>1. /\ ~Split /\ rpc' \in {"recv", "uart"}
      /\ UNCHANGED <<senderr, recverr, lpc, spc, peer, board>>
  BY DEF SendCtrl, SendUart, errVars, IInv, Threads
<1>2. PICK q \in Queues : SendHead(q) BY DEF SendCtrl, SendUart, Queues
<1>3. queue \in [Queues -> Seq(Message)] /\ peer \in [Conn -> PeerState]
  BY DEF IInv, TypeOK, Message
<1>4. CASE queue[q] = <<>> /\ UNCHANGED <<socket, open, queue>>
  BY <1>1, <1>3, <1>4, KeepPreserves
<1>5. CASE queue[q] # <<>> /\ Pop(q) /\ UNCHANGED <<socket, open>>
  <2>1. queue' \in [Queues -> Seq(Message)] BY <1>3, <1>5, PopType
  <2>2. QED BY <1>1, <1>3, <1>5, <2>1, KeepPreserves
<1>6. CASE queue[q] # <<>> /\ Pop(q) /\ Drop
  <2>1. queue' \in [Queues -> Seq(Message)] BY <1>3, <1>6, PopType
  <2>2. QED BY <1>1, <1>3, <1>6, <2>1, DropPreserves
<1>7. QED BY <1>2, <1>4, <1>5, <1>6 DEF SendHead

\* Core A's receiving thread.  It sets recverr on a connection whose peer has
\* gone, and may close what the field holds by then.
LEMMA ReceiverAPreserves ==
  IInv /\ (RecvA \/ CheckErrors \/ CloseA \/ ForgetA) /\ UNCHANGED board => IInv'
<1> SUFFICES ASSUME IInv, RecvA \/ CheckErrors \/ CloseA \/ ForgetA, UNCHANGED board
             PROVE  IInv'
  OBVIOUS
<1> USE DEF errVars, envVars
<1>1. /\ Split /\ UNCHANGED <<board, senderr, lpc, spc, queue>>
      /\ rpc' \in {"recv", "check", "close", "forget"}
  BY DEF IInv, Threads, RecvA, CheckErrors, CloseA, ForgetA
<1>2. Threads' /\ HeadChosen' /\ FieldIsOpen'
  BY <1>1 DEF IInv, Threads, Split, HeadChosen, FieldIsOpen
<1>3. CASE RecvA
  <2>1. UNCHANGED <<socket, open>> BY <1>3 DEF RecvA
  <2>2. CASE UNCHANGED <<peer, recverr>>
    <3>1. TypeOK' BY <1>1, <2>1, <2>2 DEF IInv, TypeOK
    <3>2. QED BY <1>1, <1>2, <2>1, <2>2, <3>1
          DEF IInv, ListenerAlone, Accepted, RecverrIsCurrent
  <2>3. CASE socket # 0 /\ GetMsg(socket, FALSE) /\ UNCHANGED recverr
    <3>1. /\ peer' \in [Conn -> PeerState]
          /\ \A c \in Conn : peer[c] # "none" => peer'[c] # "none"
          /\ \A c \in Conn : peer[c] # "up" => peer'[c] # "up"
      BY <2>3, GetMsgEffect DEF IInv
    <3>2. TypeOK' BY <1>1, <2>1, <2>3, <3>1 DEF IInv, TypeOK
    <3>3. ListenerAlone' /\ Accepted' /\ RecverrIsCurrent'
      BY <1>1, <2>1, <2>3, <3>1 DEF IInv, TypeOK, ListenerAlone, Accepted, RecverrIsCurrent
    <3>4. QED BY <1>2, <3>2, <3>3 DEF IInv
  <2>4. CASE socket # 0 /\ GetMsg(socket, TRUE) /\ recverr' = TRUE
    <3>1. /\ peer' \in [Conn -> PeerState]
          /\ \A c \in Conn : peer[c] # "none" => peer'[c] # "none"
          /\ peer'[socket] = "gone"
      BY <2>4, GetMsgEffect DEF IInv
    <3>2. TypeOK' BY <1>1, <2>1, <2>4, <3>1 DEF IInv, TypeOK
    <3>3. ListenerAlone' BY <1>1, <2>1, <2>4 DEF IInv, TypeOK, ListenerAlone
    <3>4. Accepted' BY <2>1, <2>4, <3>1 DEF IInv, TypeOK, Accepted
    <3>5. RecverrIsCurrent' BY <2>1, <3>1 DEF RecverrIsCurrent
    <3>6. QED BY <1>2, <3>2, <3>3, <3>4, <3>5 DEF IInv
  <2>5. QED BY <1>3, <2>2, <2>3, <2>4 DEF RecvA
<1>4. CASE CheckErrors
  <2>1. UNCHANGED <<socket, recverr, peer, open>> BY <1>4 DEF CheckErrors
  <2>2. TypeOK' BY <1>1, <2>1 DEF IInv, TypeOK
  <2>3. QED BY <1>1, <1>2, <2>1, <2>2 DEF IInv, ListenerAlone, Accepted, RecverrIsCurrent
<1>5. CASE CloseA
  <2>1. UNCHANGED <<socket, recverr, peer>> /\ open' = open \ {socket} BY <1>5 DEF CloseA
  <2>2. TypeOK' BY <1>1, <2>1 DEF IInv, TypeOK
  <2>3. QED BY <1>1, <1>2, <2>1, <2>2 DEF IInv, ListenerAlone, Accepted, RecverrIsCurrent
<1>6. CASE ForgetA
  <2>1. UNCHANGED <<recverr, peer, open>> /\ socket' = 0 BY <1>6 DEF ForgetA
  <2>2. TypeOK' BY <1>1, <2>1 DEF IInv, TypeOK
  <2>3. QED BY <1>1, <1>2, <2>1, <2>2 DEF IInv, ListenerAlone, Accepted, RecverrIsCurrent
<1>7. QED BY <1>3, <1>4, <1>5, <1>6

\* A step of thread_coreA_send changes the fifos and senderr only.
LEMMA SenderPreserves == IInv /\ Sender /\ UNCHANGED board => IInv'
<1> SUFFICES ASSUME IInv, Sender, UNCHANGED board PROVE IInv' OBVIOUS
<1> USE DEF errVars, envVars
<1>t. /\ queue \in [Queues -> Seq(Message)]
      /\ spc \in {"ctrl", "uart", "send ctrl", "fail ctrl", "send uart", "fail uart", "err", "set"}
      /\ senderr \in BOOLEAN
  BY DEF IInv, TypeOK, Message
<1>1. UNCHANGED <<board, socket, recverr, lpc, rpc, peer, open>>
  BY DEF Sender, TestA, SendA, FailA, ReadRecverr, SetSenderr
\* It is enough to look at those two and at the next phase.
<1>2. ASSUME queue' \in [Queues -> Seq(Message)],
             spc' \in {"ctrl", "uart", "send ctrl", "fail ctrl", "send uart", "fail uart",
                       "err", "set"},
             senderr' \in BOOLEAN, Split, HeadChosen'
      PROVE  IInv'
  <2>1. TypeOK' BY <1>1, <1>2 DEF IInv, TypeOK, Message
  <2>2. Threads' BY <1>1, <1>2 DEF IInv, Threads, Split
  <2>3. ListenerAlone' /\ Accepted' /\ FieldIsOpen' /\ RecverrIsCurrent'
    BY <1>1, <1>2 DEF IInv, ListenerAlone, Accepted, FieldIsOpen, Split, RecverrIsCurrent
  <2>4. QED BY <1>2, <2>1, <2>2, <2>3 DEF IInv
<1>3. ASSUME NEW q \in Queues, TestA(q) PROVE IInv'
  <2>1. CASE UNCHANGED queue /\ spc' = After(q)
    <3>1. HeadChosen' BY <2>1, Phases DEF HeadChosen, Queues
    <3>2. QED BY <1>t, <1>2, <1>3, <2>1, <3>1, Phases DEF TestA, Queues
  <2>2. CASE queue[q] # <<>> /\ Pop(q) /\ spc' = After(q)
    <3>1. queue' \in [Queues -> Seq(Message)] BY <1>t, <2>2, PopType
    <3>2. HeadChosen' BY <2>2, Phases DEF HeadChosen, Queues
    <3>3. QED BY <1>t, <1>2, <1>3, <2>2, <3>1, <3>2, Phases DEF TestA, Queues
  <2>3. CASE queue[q] # <<>> /\ spc' = Sending(q) /\ UNCHANGED queue
    <3>1. HeadChosen' BY <2>3, Phases DEF HeadChosen, Queues
    <3>2. QED BY <1>t, <1>2, <1>3, <2>3, <3>1, Phases DEF TestA, Queues
  <2>4. QED BY <1>3, <2>1, <2>2, <2>3 DEF TestA
<1>4. ASSUME NEW q \in Queues, SendA(q) PROVE IInv'
  <2>1. Split BY <1>4, Phases DEF IInv, Threads, SendA, Queues
  <2>2. queue[q] # <<>> /\ UNCHANGED senderr BY <1>4 DEF IInv, HeadChosen, SendA
  <2>3. CASE Pop(q) /\ spc' = After(q)
    <3>1. queue' \in [Queues -> Seq(Message)] BY <1>t, <2>2, <2>3, PopType
    <3>2. HeadChosen' BY <2>3, Phases DEF HeadChosen, Queues
    <3>3. QED BY <1>t, <1>2, <2>1, <2>2, <2>3, <3>1, <3>2, Phases DEF Queues
  <2>4. CASE spc' = Failed(q) /\ UNCHANGED queue
    <3>1. HeadChosen' BY <2>2, <2>4, Phases DEF HeadChosen, Queues
    <3>2. QED BY <1>t, <1>2, <2>1, <2>2, <2>4, <3>1, Phases DEF Queues
  <2>5. QED BY <1>4, <2>3, <2>4 DEF SendA
<1>5. ASSUME NEW q \in Queues, FailA(q) PROVE IInv'
  <2>1. Split BY <1>5, Phases DEF IInv, Threads, FailA, Queues
  <2>2. queue[q] # <<>> BY <1>5 DEF IInv, HeadChosen, FailA
  <2>3. queue' \in [Queues -> Seq(Message)] BY <1>t, <1>5, <2>2, PopType DEF FailA
  <2>4. HeadChosen' BY <1>5, Phases DEF HeadChosen, Queues, FailA
  <2>5. QED BY <1>t, <1>2, <1>5, <2>1, <2>3, <2>4, Phases DEF FailA, Queues
<1>6. CASE ReadRecverr \/ SetSenderr
  <2>1. Split BY <1>6 DEF IInv, Threads, ReadRecverr, SetSenderr
  <2>2. spc' \in {"set", "ctrl"} /\ UNCHANGED queue /\ senderr' \in BOOLEAN
    BY <1>t, <1>6 DEF ReadRecverr, SetSenderr
  <2>3. HeadChosen' BY <2>2, Phases DEF HeadChosen, Queues
  <2>4. QED BY <1>t, <1>2, <2>1, <2>2, <2>3
<1>7. QED BY <1>3, <1>4, <1>5, <1>6 DEF Sender

\* Every step of every thread preserves the invariant.
LEMMA NextIInv == IInv /\ [Next]_vars => IInv'
<1> SUFFICES ASSUME IInv, [Next]_vars PROVE IInv' OBVIOUS
<1>1. CASE Next
  BY <1>1, ListenerPreserves, RecvPreserves, SendPreserves, ReceiverAPreserves,
     SenderPreserves, EnvironmentPreserves DEF Next, Receiver
<1>2. CASE UNCHANGED vars
  BY <1>2, PeersOnlyLeave DEF vars, errVars, envVars, IInv, TypeOK
<1>3. QED BY <1>1, <1>2

-----------------------------------------------------------------------------
(* The theorems *)

\* The invariant holds for every link and every interleaving of its threads.
THEOREM Invariance == Spec => []IInv
<1>1. QED BY InitIInv, NextIInv, PTL DEF Spec

\* The fields of t_listen_thread_param and the positions of the threads keep
\* their types.
THEOREM TypeCorrect == Spec => []TypeOK
<1>1. IInv => TypeOK BY DEF IInv
<1>2. QED BY <1>1, Invariance, PTL

\* Where one thread uses the link, thread_listen and that thread never lose a
\* connection between them.
THEOREM NoConnectionLost == Spec => []NoOrphan
<1>1. IInv => NoOrphan BY DEF IInv, FieldIsOpen, NoOrphan
<1>2. QED BY <1>1, Invariance, PTL

\* There the socket field never holds a descriptor that was closed.
THEOREM NoDeadDescriptor == Spec => []NoDangling
<1>1. IInv => NoDangling BY DEF IInv, FieldIsOpen, NoDangling
<1>2. QED BY <1>1, Invariance, PTL

\* On every link, core A's included, recverr is about the connection now in
\* the socket field.
THEOREM ReceptionGivenUpRightly == Spec => []RecverrIsCurrent
<1>1. IInv => RecverrIsCurrent BY DEF IInv
<1>2. QED BY <1>1, Invariance, PTL

\* Where one thread uses the link, it closes only connections whose peer has
\* closed, be it for a failed receive or a failed send.
THEOREM ClosesDeadConnections == Spec => ClosesOnlyDead
<1> DEFINE A == ~Split => \A c \in open \ open' : peer[c] # "up"
<1>1. IInv /\ [Next]_vars => A
  <2> SUFFICES ASSUME IInv, [Next]_vars, ~Split, NEW c \in open \ open'
               PROVE  peer[c] # "up"
    OBVIOUS
  <2>1. c = socket /\ socket # 0 BY DEF IInv, FieldIsOpen
  <2>2. CASE Recv
    <3>1. GetMsg(socket, TRUE) BY <2>2 DEF Recv
    <3>2. QED BY <2>1, <3>1, GetMsgEffect DEF IInv
  <2>3. CASE SendCtrl \/ SendUart
    <3>1. SendFails BY <2>3 DEF SendCtrl, SendUart, SendHead
    <3>2. QED BY <2>1, <3>1 DEF SendFails
  <2>4. CASE Accept BY <2>4 DEF Accept
  <2>5. CASE UNCHANGED open BY <2>5
  <2>6. rpc # "close" BY DEF IInv, Threads
  <2>7. QED
    BY <2>2, <2>3, <2>4, <2>5, <2>6
    DEF Next, Listener, Receiver, Sender, Environment, ListenPoll, ListenClear, RecvA,
        CheckErrors, CloseA, ForgetA, TestA, SendA, FailA, ReadRecverr, SetSenderr,
        Disconnect, Enqueue, envVars, vars
<1>2. QED BY <1>1, Invariance, PTL DEF Spec, ClosesOnlyDead
=============================================================================
