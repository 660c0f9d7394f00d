--------------------------- MODULE FrameBroadcast ---------------------------
(***************************************************************************)
(* What the frame queue promises to the threads around it: every frame a   *)
(* producer finishes is put into the queue of each connected consumer once *)
(* and in the order the frames were finished, and stays there unchanged    *)
(* until the consumer removes it.  There are no buffers, pools, reference  *)
(* counts or locks at this level.                                          *)
(***************************************************************************)
EXTENDS Naturals, Sequences

CONSTANTS Producers, Consumers, Connected, Payload, FrameFlags

VARIABLES
  queue,  \* queue[c]: frames consumer c has still to work on
  out,    \* out[p]: the frame producer p is handing out
  todo    \* todo[p]: the consumers that still have to get it

FrameOf(p) == [from : {p}, flags : FrameFlags, body : Seq(Payload)]
NoFrame == "NoFrame"

Init ==
  /\ queue = [c \in Consumers |-> <<>>]
  /\ out = [p \in Producers |-> NoFrame]
  /\ todo = [p \in Producers |-> <<>>]

Publish(p) ==
  /\ todo[p] = <<>>
  /\ Connected[p] # <<>>
  /\ todo' = [todo EXCEPT ![p] = Connected[p]]
  /\ out'[p] \in FrameOf(p)
  /\ out' = [out EXCEPT ![p] = out'[p]]
  /\ UNCHANGED queue

Deliver(p) ==
  /\ todo[p] # <<>>
  /\ queue' = [queue EXCEPT ![Head(todo[p])] = Append(@, out[p])]
  /\ todo' = [todo EXCEPT ![p] = Tail(@)]
  /\ out' = [out EXCEPT ![p] = IF Tail(todo[p]) = <<>> THEN NoFrame ELSE @]

Consume(c) ==
  /\ queue[c] # <<>>
  /\ queue' = [queue EXCEPT ![c] = Tail(@)]
  /\ UNCHANGED <<out, todo>>

Next ==
  \/ \E p \in Producers : Publish(p) \/ Deliver(p)
  \/ \E c \in Consumers : Consume(c)

vars == <<queue, out, todo>>
Spec == Init /\ [][Next]_vars
=============================================================================
