------------------------------ MODULE DataFifo ------------------------------
(***************************************************************************)
(* The frame queue of the recording server (recbcsrv/datafifo.c).          *)
(*                                                                         *)
(* A producer fifo owns a pool of buffers; one thread fills them packet by *)
(* packet (datafifo_producer_data_add).  A finished frame is not copied:   *)
(* every connected consumer fifo gets an item whose ref points at the      *)
(* producer's buffer, and the buffer's refcnt says how many such items     *)
(* there are.  A consumer thread works on the head of its own list and     *)
(* gives the reference back with datafifo_consumer_remove_head.            *)
(*                                                                         *)
(* An item is the pair <<fifo, index>>, the C pointer &df->items[index];   *)
(* x[1] is its datafifo field.  The doubly linked list from listhead to    *)
(* listtail is the sequence list[f].  What happens under one mutex is one  *)
(* step (no code holds two of them); so is an access outside the mutexes   *)
(* to an item that other threads can see.  Fields of an item that only its *)
(* owner can reach are set in the step that publishes the item.            *)
(***************************************************************************)
EXTENDS Integers, Sequences, FiniteSets

CONSTANTS
  Producers,   \* the producer fifos, each filled by one thread
  Consumers,   \* the consumer fifos, each drained by one thread
  Connected,   \* Connected[p]: df->consumers, in list order
  ItemCnt,     \* ItemCnt[f]: pool size, the cnt of datafifo_init
  DataMaxLen,  \* data_maxlen, in bytes
  Payload,     \* the packets' contents
  Calls,       \* the argument lists datafifo_producer_data_add is called with
  Stray,       \* TRUE: a stream may resume in the middle of a frame
  NULL

Fifo == Producers \cup Consumers
Item == UNION {{f} \X (1..ItemCnt[f]) : f \in Fifo}
ProducerItem == {x \in Item : x[1] \in Producers}
ConsumerItem == {x \in Item : x[1] \in Consumers}
FrameFlags == SUBSET {"FIRSTFRAME", "KEYFRAME"}
CallType == [flags : SUBSET {"NEWFRAME", "FRAMEEND", "FIRSTFRAME", "KEYFRAME"},
             data : Payload, len : Nat]
Byte == Payload \X (Nat \ {0})  \* <<d, k>> is the k-th byte of d

ASSUME DataFifoAssumption ==
  /\ Producers \cap Consumers = {}
  /\ Connected \in [Producers -> Seq(Consumers)]
  /\ \A p \in Producers : \A i, j \in 1..Len(Connected[p]) :
        Connected[p][i] = Connected[p][j] => i = j
  /\ ItemCnt \in [Fifo -> Nat]
  /\ DataMaxLen \in Nat
  /\ Calls \subseteq CallType
  /\ Stray \in BOOLEAN
  /\ NULL \notin Item
  /\ IsFiniteSet(Consumers)

VARIABLES
  list,     \* listhead .. listtail of every fifo
  status,   \* DATAFIFO_ITEM_STATUS_* of every item
  refcnt,   \* how often a producer's item is referenced
  ref,      \* the producer's item a consumer's item refers to
  len,      \* arg.len
  flags,    \* arg.flags (with the timestamp, which is set beside them)
  data,     \* the bytes of a producer's buffer
  pc,       \* where each producer thread is in datafifo_producer_data_add
  call,     \* the arguments of the call in progress
  cur,      \* the new frame's item, allocated and not yet in the list
  item,     \* addto_consumers: the frame being handed out
  con,      \* addto_consumers: position in the list of consumers
  citem,    \* addto_consumers: the consumer's item just allocated
  ret,      \* what data_add does after addto_consumers
  cpc,      \* where each consumer thread is in consumer_remove_head
  crashed   \* the process died of a NULL dereference

fifoVars == <<list, status, refcnt, ref, len, flags, data>>
prodVars == <<pc, call, cur, item, con, citem, ret>>
vars == <<fifoVars, prodVars, cpc, crashed>>

Status == {"INIT", "FILLING", "READY", "DOING"}
Distributing == {"next_con", "count", "add_con"}
ProducerPc == {"idle", "alloc", "flush", "link", "tail", "copy", "check"}
              \cup Distributing
ConsumerPc == {"head", "check", "unlink"}

NoCall == [flags |-> {}, data |-> NULL, len |-> 0]

\* datafifo_init for every fifo and the datafifo_connect calls of main.
Init ==
  /\ list = [f \in Fifo |-> <<>>]
  /\ status = [x \in Item |-> "INIT"]
  /\ refcnt = [x \in Item |-> 0]
  /\ ref = [x \in Item |-> NULL]
  /\ len = [x \in Item |-> 0]
  /\ flags = [x \in Item |-> {}]
  /\ data = [x \in ProducerItem |-> [n \in 1..DataMaxLen |-> NULL]]
  /\ pc = [p \in Producers |-> "idle"]
  /\ call = [p \in Producers |-> NoCall]
  /\ cur = [p \in Producers |-> NULL]
  /\ item = [p \in Producers |-> NULL]
  /\ con = [p \in Producers |-> 1]
  /\ citem = [p \in Producers |-> NULL]
  /\ ret = [p \in Producers |-> "idle"]
  /\ cpc = [c \in Consumers |-> "head"]
  /\ crashed = FALSE

-----------------------------------------------------------------------------
(* Operations on one fifo *)

Last(s) == s[Len(s)]

\* datafifo_alloc returns the first unused item of the pool.
FirstUnused(f, x) ==
  /\ x \in Item
  /\ x[1] = f
  /\ status[x] = "INIT"
  /\ \A y \in Item : (y[1] = f /\ y[2] < x[2]) => status[y] # "INIT"

\* Mutant of Done: references are not looked at.
DoneIgnoringRefcnt(x) == status[x] = "DOING"

\* A buffer that datafifo_producer_remove_check may take off the list.
Done(x) == status[x] = "DOING" /\ refcnt[x] = 0

\* datafifo_producer_remove_check: frees done buffers from the head on and
\* stops at the first one that is not.
RemoveCheck(p) ==
  \E n \in 0..Len(list[p]) :
    /\ \A i \in 1..n : Done(list[p][i])
    /\ n < Len(list[p]) => ~Done(list[p][n + 1])
    /\ list' = [list EXCEPT ![p] = SubSeq(@, n + 1, Len(@))]
    /\ status' = [x \in Item |->
                    IF \E i \in 1..n : x = list[p][i] THEN "INIT" ELSE status[x]]

Goto(p, label) == pc' = [pc EXCEPT ![p] = label]

\* The frame a call to data_add would go on filling.
Filling(p) == list[p] # <<>> /\ status[Last(list[p])] = "FILLING"

-----------------------------------------------------------------------------
(* datafifo_producer_data_add, in the thread that owns producer p *)

\* The thread calls data_add.  The caller is a board's packet handler, which
\* derives NEWFRAME and FRAMEEND from the packet's number in its frame.
Call(p, a) ==
  /\ pc[p] = "idle"
  /\ "NEWFRAME" \in a.flags \/ Filling(p) \/ Stray
  /\ call' = [call EXCEPT ![p] = a]
  /\ Goto(p, IF "NEWFRAME" \in a.flags THEN "alloc" ELSE "tail")
  /\ UNCHANGED <<fifoVars, cur, item, con, citem, ret, cpc, crashed>>

\* cur = datafifo_alloc(df); waits on full_cond while the pool is used up.
AllocFrame(p) ==
  /\ pc[p] = "alloc"
  /\ \E x \in Item :
       /\ FirstUnused(p, x)
       /\ cur' = [cur EXCEPT ![p] = x]
       /\ status' = [status EXCEPT ![x] = "FILLING"]
       /\ len' = [len EXCEPT ![x] = 0]
       /\ flags' = [flags EXCEPT ![x] = {}]
       /\ refcnt' = [refcnt EXCEPT ![x] = 0]
       /\ ref' = [ref EXCEPT ![x] = NULL]
  /\ Goto(p, "flush")
  /\ UNCHANGED <<list, data, call, item, con, citem, ret, cpc, crashed>>

\* Mutant: the unfinished frame is left in the list.
FlushForgotten(p) ==
  /\ pc[p] = "flush"
  /\ Goto(p, "link")
  /\ UNCHANGED <<fifoVars, call, cur, item, con, citem, ret, cpc, crashed>>

\* A previous frame that never saw its last packet is handed out now, and
\* emptied first when a new stream begins.
Flush(p) ==
  /\ pc[p] = "flush"
  /\ \/ /\ Filling(p)
        /\ LET old == Last(list[p]) IN
             /\ len' = [len EXCEPT ![old] =
                          IF "FIRSTFRAME" \in call[p].flags THEN 0 ELSE @]
             /\ status' = [status EXCEPT ![old] = "READY"]
             /\ item' = [item EXCEPT ![p] = old]
        /\ con' = [con EXCEPT ![p] = 1]
        /\ ret' = [ret EXCEPT ![p] = "link"]
        /\ Goto(p, "next_con")
     \/ /\ ~Filling(p)
        /\ Goto(p, "link")
        /\ UNCHANGED <<len, status, item, con, ret>>
  /\ UNCHANGED <<list, refcnt, ref, flags, data, call, cur, citem, cpc, crashed>>

\* The new frame gets its flags and timestamp and becomes the list's tail.
LinkFrame(p) ==
  /\ pc[p] = "link"
  /\ flags' = [flags EXCEPT
       ![cur[p]] = @ \cup (call[p].flags \cap {"FIRSTFRAME", "KEYFRAME"})]
  /\ list' = [list EXCEPT ![p] = Append(@, cur[p])]
  /\ cur' = [cur EXCEPT ![p] = NULL]
  /\ Goto(p, "copy")
  /\ UNCHANGED <<status, refcnt, ref, len, data, call, item, con, citem, ret,
                 cpc, crashed>>

\* A packet that does not begin a frame needs a frame being filled: -4
\* otherwise.  The test reads listtail->status without testing listtail.
CheckTail(p) ==
  /\ pc[p] = "tail"
  /\ \/ /\ list[p] = <<>>
        /\ crashed' = TRUE
        /\ UNCHANGED pc
     \/ /\ list[p] # <<>>
        /\ Goto(p, IF Filling(p) THEN "copy" ELSE "idle")
        /\ UNCHANGED crashed
  /\ UNCHANGED <<fifoVars, call, cur, item, con, citem, ret, cpc>>

\* The buffer of t after memcpy of the packet's bytes behind those it has.
Appended(t, a) ==
  [n \in 1..DataMaxLen |->
     IF len[t] < n /\ n <= len[t] + a.len THEN <<a.data, n - len[t]>> ELSE data[t][n]]

\* The frame at the end of p's list is complete.
FrameEnd(p, t) ==
  /\ status' = [status EXCEPT ![t] = "READY"]
  /\ item' = [item EXCEPT ![p] = t]
  /\ con' = [con EXCEPT ![p] = 1]
  /\ ret' = [ret EXCEPT ![p] = "idle"]
  /\ Goto(p, "next_con")

\* Mutant: the size test is off by one.
CopyPacketOverrun(p) ==
  /\ pc[p] = "copy"
  /\ LET t == Last(list[p]) IN
       \/ /\ len[t] + call[p].len > DataMaxLen + 1
          /\ Goto(p, "idle")
          /\ UNCHANGED <<data, len, status, item, con, ret>>
       \/ /\ len[t] + call[p].len <= DataMaxLen + 1
          /\ data' = [data EXCEPT ![t] = Appended(t, call[p])]
          /\ len' = [len EXCEPT ![t] = @ + call[p].len]
          /\ IF "FRAMEEND" \in call[p].flags THEN FrameEnd(p, t)
             ELSE Goto(p, "idle") /\ UNCHANGED <<status, item, con, ret>>
  /\ UNCHANGED <<list, refcnt, ref, flags, call, cur, citem, cpc, crashed>>

\* Appends the packet to the tail's buffer and, on the frame's last packet,
\* starts handing the frame out.  A packet that does not fit is refused with
\* -5, and that is all: a shorter one may still fit behind it.
CopyPacket(p) ==
  /\ pc[p] = "copy"
  /\ LET t == Last(list[p]) IN
       \/ /\ len[t] + call[p].len > DataMaxLen
          /\ Goto(p, "idle")
          /\ UNCHANGED <<data, len, status, item, con, ret>>
       \/ /\ len[t] + call[p].len <= DataMaxLen
          /\ data' = [data EXCEPT ![t] = Appended(t, call[p])]
          /\ len' = [len EXCEPT ![t] = @ + call[p].len]
          /\ IF "FRAMEEND" \in call[p].flags THEN FrameEnd(p, t)
             ELSE Goto(p, "idle") /\ UNCHANGED <<status, item, con, ret>>
  /\ UNCHANGED <<list, refcnt, ref, flags, call, cur, citem, cpc, crashed>>

-----------------------------------------------------------------------------
(* datafifo_addto_consumers, called by the two actions above *)

\* cur = datafifo_alloc(con->datafifo); waits while the consumer's pool is
\* used up.  The item is filled in before any other thread can see it.
AllocForConsumer(p) ==
  /\ pc[p] = "next_con"
  /\ con[p] <= Len(Connected[p])
  /\ \E x \in Item :
       /\ FirstUnused(Connected[p][con[p]], x)
       /\ citem' = [citem EXCEPT ![p] = x]
       /\ status' = [status EXCEPT ![x] = "READY"]
       /\ ref' = [ref EXCEPT ![x] = item[p]]
       /\ len' = [len EXCEPT ![x] = len[item[p]]]
       /\ flags' = [flags EXCEPT ![x] = flags[item[p]]]
       /\ refcnt' = [refcnt EXCEPT ![x] = 0]
  /\ Goto(p, "count")
  /\ UNCHANGED <<list, data, call, cur, item, con, ret, cpc, crashed>>

\* Mutant: the reference is not counted.
CountReferenceForgotten(p) ==
  /\ pc[p] = "count"
  /\ Goto(p, "add_con")
  /\ UNCHANGED <<fifoVars, call, cur, item, con, citem, ret, cpc, crashed>>

\* item->refcnt++, under the producer's mutex.
CountReference(p) ==
  /\ pc[p] = "count"
  /\ refcnt' = [refcnt EXCEPT ![item[p]] = @ + 1]
  /\ Goto(p, "add_con")
  /\ UNCHANGED <<list, status, ref, len, flags, data, call, cur, item, con,
                 citem, ret, cpc, crashed>>

\* Mutant: the item is added at the head of the list.
AddToConsumerHead(p) ==
  /\ pc[p] = "add_con"
  /\ LET c == citem[p][1] IN list' = [list EXCEPT ![c] = <<citem[p]>> \o @]
  /\ citem' = [citem EXCEPT ![p] = NULL]
  /\ con' = [con EXCEPT ![p] = @ + 1]
  /\ Goto(p, "next_con")
  /\ UNCHANGED <<status, refcnt, ref, len, flags, data, call, cur, item, ret,
                 cpc, crashed>>

\* datafifo_list_addtail on the consumer, then con = con->next.
AddToConsumer(p) ==
  /\ pc[p] = "add_con"
  /\ LET c == citem[p][1] IN list' = [list EXCEPT ![c] = Append(@, citem[p])]
  /\ citem' = [citem EXCEPT ![p] = NULL]
  /\ con' = [con EXCEPT ![p] = @ + 1]
  /\ Goto(p, "next_con")
  /\ UNCHANGED <<status, refcnt, ref, len, flags, data, call, cur, item, ret,
                 cpc, crashed>>

\* All consumers served: only now may the buffer be taken off the list.
SetDoing(p) ==
  /\ pc[p] = "next_con"
  /\ con[p] > Len(Connected[p])
  /\ status' = [status EXCEPT ![item[p]] = "DOING"]
  /\ item' = [item EXCEPT ![p] = NULL]
  /\ Goto(p, "check")
  /\ UNCHANGED <<list, refcnt, ref, len, flags, data, call, cur, con, citem,
                 ret, cpc, crashed>>

\* Mutant: no check after the status was set.
ProducerCheckForgotten(p) ==
  /\ pc[p] = "check"
  /\ Goto(p, ret[p])
  /\ UNCHANGED <<fifoVars, call, cur, item, con, citem, ret, cpc, crashed>>

\* The consumers may have finished before the status was DOING.
ProducerCheck(p) ==
  /\ pc[p] = "check"
  /\ RemoveCheck(p)
  /\ Goto(p, ret[p])
  /\ UNCHANGED <<refcnt, ref, len, flags, data, call, cur, item, con, citem,
                 ret, cpc, crashed>>

-----------------------------------------------------------------------------
(* datafifo_consumer_remove_head, in the thread that owns consumer c *)

\* The thread has worked on the head and gives the reference back.
Release(c) ==
  /\ cpc[c] = "head"
  /\ list[c] # <<>>
  /\ refcnt' = [refcnt EXCEPT ![ref[Head(list[c])]] = @ - 1]
  /\ cpc' = [cpc EXCEPT ![c] = "check"]
  /\ UNCHANGED <<list, status, ref, len, flags, data, prodVars, crashed>>

ConsumerCheck(c) ==
  /\ cpc[c] = "check"
  /\ RemoveCheck(ref[Head(list[c])][1])
  /\ cpc' = [cpc EXCEPT ![c] = "unlink"]
  /\ UNCHANGED <<refcnt, ref, len, flags, data, prodVars, crashed>>

\* Mutant: the item is unlinked and its status stays.
UnlinkKeepsStatus(c) ==
  /\ cpc[c] = "unlink"
  /\ list' = [list EXCEPT ![c] = Tail(@)]
  /\ cpc' = [cpc EXCEPT ![c] = "head"]
  /\ UNCHANGED <<status, refcnt, ref, len, flags, data, prodVars, crashed>>

\* datafifo_remove_head_internal_reqlock on the consumer's own list.
Unlink(c) ==
  /\ cpc[c] = "unlink"
  /\ status' = [status EXCEPT ![Head(list[c])] = "INIT"]
  /\ list' = [list EXCEPT ![c] = Tail(@)]
  /\ cpc' = [cpc EXCEPT ![c] = "head"]
  /\ UNCHANGED <<refcnt, ref, len, flags, data, prodVars, crashed>>

-----------------------------------------------------------------------------

ProducerStep(p) ==
  \/ AllocFrame(p) \/ Flush(p) \/ LinkFrame(p) \/ CheckTail(p) \/ CopyPacket(p)
  \/ AllocForConsumer(p) \/ CountReference(p) \/ AddToConsumer(p)
  \/ SetDoing(p) \/ ProducerCheck(p)

ConsumerStep(c) == Release(c) \/ ConsumerCheck(c) \/ Unlink(c)

Next ==
  /\ ~crashed
  /\ \/ \E p \in Producers : \E a \in Calls : Call(p, a)
     \/ \E p \in Producers : ProducerStep(p)
     \/ \E c \in Consumers : ConsumerStep(c)

Spec == Init /\ [][Next]_vars

\* Every thread that can take a step eventually does; whether another packet
\* arrives is up to the board.
Fairness ==
  /\ \A p \in Producers : WF_vars(~crashed /\ ProducerStep(p))
  /\ \A c \in Consumers : WF_vars(~crashed /\ ConsumerStep(c))

FairSpec == Spec /\ Fairness
-----------------------------------------------------------------------------
(* Properties *)

\* The fields of the fifos and the locals of the threads keep their types; in
\* particular no frame grows beyond the data_maxlen of its buffer, whose test
\* in datafifo_producer_data_add precedes the copy.
TypeOK ==
  /\ list \in [Fifo -> Seq(Item)]
  /\ status \in [Item -> Status]
  /\ refcnt \in [Item -> Int]
  /\ ref \in [Item -> ProducerItem \cup {NULL}]
  /\ len \in [Item -> 0..DataMaxLen]
  /\ flags \in [Item -> FrameFlags]
  /\ data \in [ProducerItem -> [1..DataMaxLen -> Byte \cup {NULL}]]
  /\ pc \in [Producers -> ProducerPc]
  /\ call \in [Producers -> Calls \cup {NoCall}]
  /\ cur \in [Producers -> ProducerItem \cup {NULL}]
  /\ item \in [Producers -> ProducerItem \cup {NULL}]
  /\ con \in [Producers -> Nat \ {0}]
  /\ citem \in [Producers -> ConsumerItem \cup {NULL}]
  /\ ret \in [Producers -> {"idle", "link"}]
  /\ cpc \in [Consumers -> ConsumerPc]
  /\ crashed \in BOOLEAN

InList(x) == \E i \in 1..Len(list[x[1]]) : list[x[1]][i] = x

\* A consumer's item is released once remove_head has decremented refcnt.
Released(x) == cpc[x[1]] # "head" /\ x = Head(list[x[1]])

\* The consumers' items whose reference is counted in refcnt.
Counted(x) ==
  \/ InList(x) /\ ~Released(x)
  \/ \E p \in Producers : pc[p] = "add_con" /\ citem[p] = x

Holders(y) == {x \in ConsumerItem : Counted(x) /\ ref[x] = y}

\* datafifo.c counts references in four separate critical sections of two
\* threads; between any two of them refcnt is the number of consumers' items
\* that still refer to the buffer, whatever the interleaving.
RefcntExact == \A y \in ProducerItem : refcnt[y] = Cardinality(Holders(y))

\* No use after free: as long as a consumer may still read a frame through
\* its item, the producer's buffer has not gone back to the pool (from where
\* datafifo_alloc would give it to the next frame).
RefsAlive ==
  \A x \in ConsumerItem : Counted(x) =>
    /\ ref[x] \in ProducerItem
    /\ InList(ref[x])
    /\ status[ref[x]] \in {"READY", "DOING"}

\* No leak: an item is out of its pool only while a list or exactly one
\* thread holds it, so every allocated item comes back.
NoLeak ==
  \A x \in Item : status[x] # "INIT" <=>
    \/ InList(x)
    \/ \E p \in Producers : cur[p] = x \/ citem[p] = x

\* The unlocked memcpy is safe: the bytes of a frame that has been handed to
\* a consumer never change while the consumer can still read them.
BufferStable ==
  [][\A x \in ConsumerItem : (Counted(x) /\ Counted(x)') =>
       /\ ref'[x] = ref[x]
       /\ \A n \in 1..len[x] : data'[ref[x]][n] = data[ref[x]][n]]_vars

\* The process has not died of datafifo.c:192, which reads listtail->status to
\* refuse a packet that continues no frame, and does so of an empty list, too.
\* With Stray it may; who can make it happen is said in Ingest.
NoCrash == ~crashed

\* With fair threads every buffer handed out goes back to its pool.
BuffersRecycled ==
  \A y \in ProducerItem : status[y] = "DOING" ~> status[y] = "INIT" \/ crashed

\* A producer thread that waits for a free buffer of its own pool gets one:
\* a pool of two is enough for a frame that is never finished not to block
\* the next one.
AllocReturns ==
  \A p \in Producers : pc[p] = "alloc" ~> pc[p] # "alloc"

-----------------------------------------------------------------------------
(* The frame queue implements FrameBroadcast: a frame is where the pointers *)
(* lead at this moment, so a buffer reused too early shows as a frame that  *)
(* changes inside a queue.                                                  *)

\* What a reader of consumer item x sees through its data pointer.
Seen(x) == [from |-> ref[x][1], flags |-> flags[x],
            body |-> SubSeq(data[ref[x]], 1, len[x])]

QueueOf(c) ==
  LET held == IF cpc[c] = "head" THEN list[c] ELSE Tail(list[c])
  IN  [i \in 1..Len(held) |-> Seen(held[i])]

TodoOf(p) ==
  IF pc[p] \in Distributing
  THEN SubSeq(Connected[p], con[p], Len(Connected[p])) ELSE <<>>

OutOf(p) ==
  IF TodoOf(p) = <<>> THEN "NoFrame"
  ELSE [from |-> p, flags |-> flags[item[p]],
        body |-> SubSeq(data[item[p]], 1, len[item[p]])]

Broadcast == INSTANCE FrameBroadcast WITH
  Payload <- Byte,
  queue <- [c \in Consumers |-> QueueOf(c)],
  out <- [p \in Producers |-> OutOf(p)],
  todo <- [p \in Producers |-> TodoOf(p)]

\* Every interleaving of datafifo.c is a behaviour of the broadcast.
ImplementsBroadcast == Broadcast!Spec
=============================================================================
