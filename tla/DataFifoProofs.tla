--------------------------- MODULE DataFifoProofs ---------------------------
(***************************************************************************)
(* Theorems about DataFifo, for any number of producers, consumers and     *)
(* buffers, and any packets.                                               *)
(***************************************************************************)
EXTENDS DataFifo, TLAPS, FiniteSetTheorems, FunctionTheorems,
        SequenceTheorems

-----------------------------------------------------------------------------
(* The inductive invariant *)

\* The lists are well formed: a fifo's list holds allocated items of its own
\* pool, none of them twice.
ListInv ==
  \A f \in Fifo :
    /\ \A i \in 1..Len(list[f]) :
         list[f][i] \in Item /\ list[f][i][1] = f /\ status[list[f][i]] # "INIT"
    /\ \A i, j \in 1..Len(list[f]) : list[f][i] = list[f][j] => i = j

\* Between datafifo_alloc and datafifo_list_addtail only the producer's
\* thread knows the new frame.
HasCur(p) ==
  \/ pc[p] \in {"flush", "link"}
  \/ pc[p] \in Distributing \cup {"check"} /\ ret[p] = "link"

CurInv ==
  \A p \in Producers :
    IF HasCur(p)
    THEN /\ cur[p] \in Item
         /\ cur[p][1] = p
         /\ status[cur[p]] = "FILLING"
         /\ ~InList(cur[p])
    ELSE cur[p] = NULL

\* The thread that copies a packet owns the tail.
CopyInv == \A p \in Producers : pc[p] = "copy" => Filling(p)

\* A frame that is being handed out is in the list and not yet DOING.
ItemInv ==
  \A p \in Producers : pc[p] \in Distributing =>
    /\ item[p] \in Item
    /\ item[p][1] = p
    /\ InList(item[p])
    /\ status[item[p]] = "READY"

HasCitem(p) == pc[p] \in {"count", "add_con"}

\* The same for the consumer's item inside datafifo_addto_consumers, which
\* several producers may be allocating from the same pool.
CitemInv ==
  /\ \A p \in Producers :
       IF HasCitem(p)
       THEN /\ citem[p] \in Item
            /\ citem[p][1] \in Consumers
            /\ status[citem[p]] # "INIT"
            /\ ~InList(citem[p])
            /\ ref[citem[p]] = item[p]
       ELSE citem[p] = NULL
  /\ \A p, q \in Producers : HasCitem(p) /\ citem[p] = citem[q] => p = q

\* What a consumer's list holds refers to a producer's buffer, and the list
\* is not empty while the thread is removing its head.
ConsumerInv ==
  \A c \in Consumers :
    /\ cpc[c] # "head" => list[c] # <<>>
    /\ \A i \in 1..Len(list[c]) : ref[list[c][i]] \in ProducerItem

IInv ==
  /\ TypeOK
  /\ ListInv
  /\ CurInv
  /\ CopyInv
  /\ ItemInv
  /\ CitemInv
  /\ ConsumerInv
  /\ RefsAlive
  /\ RefcntExact
  /\ NoLeak

-----------------------------------------------------------------------------
(* Facts about items, lists and reference sets *)

\* An item belongs to the pool of one fifo, a producer's or a consumer's.
LEMMA ItemFifo ==
  \A x \in Item : x[1] \in Fifo /\ (x \in ProducerItem <=> x \notin ConsumerItem)
<1>1. \A x \in Item : x[1] \in Fifo
  <2>1. SUFFICES ASSUME NEW f \in Fifo, NEW x \in {f} \X (1..ItemCnt[f])
                 PROVE  x[1] \in Fifo
    BY DEF Item
  <2>2. QED OBVIOUS
<1>2. QED BY <1>1, DataFifoAssumption DEF ProducerItem, ConsumerItem, Fifo

\* The pools are finite, so are the sets of references.
LEMMA ItemsFinite == IsFiniteSet(Consumers) => IsFiniteSet(ConsumerItem)
<1> DEFINE Pool(f) == {f} \X (1..ItemCnt[f])
<1> DEFINE Pools == {Pool(f) : f \in Consumers}
<1> SUFFICES ASSUME IsFiniteSet(Consumers) PROVE IsFiniteSet(ConsumerItem)
  OBVIOUS
<1> DEFINE PoolOf == [f \in Consumers |-> Pool(f)]
<1>1. IsFiniteSet(Pools)
  <2>1. PoolOf \in [Consumers -> Pools] OBVIOUS
  <2>2. \A t \in Pools : \E f \in Consumers : PoolOf[f] = t OBVIOUS
  <2>3. PoolOf \in Surjection(Consumers, Pools) BY <2>1, <2>2, Fun_IsSurj
  <2>4. QED BY <2>3, FS_Surjection
<1>2. \A f \in Consumers : IsFiniteSet(Pool(f))
  <2> TAKE f \in Consumers
  <2>1. ItemCnt[f] \in Nat BY DataFifoAssumption DEF Fifo
  <2>2. IsFiniteSet(1..ItemCnt[f]) BY <2>1, FS_Interval
  <2>3. IsFiniteSet({f}) BY FS_Singleton
  <2>4. QED BY <2>2, <2>3, FS_Product
<1>3. IsFiniteSet(UNION Pools)
  BY <1>1, <1>2, FS_UNION
<1>4. ConsumerItem \subseteq UNION Pools
  <2>1. SUFFICES ASSUME NEW f \in Fifo, NEW x \in Pool(f), x[1] \in Consumers
                 PROVE  x \in UNION Pools
    BY DEF ConsumerItem, Item
  <2>2. x[1] = f OBVIOUS
  <2>3. QED BY <2>1, <2>2
<1>5. QED BY <1>3, <1>4, FS_Subset

\* The references to a buffer are the same after a step that counts and
\* releases none and leaves the ref of counted items alone.
LEMMA HoldersSame ==
  ASSUME \A x \in ConsumerItem : Counted(x)' <=> Counted(x),
         \A x \in ConsumerItem : Counted(x) => ref'[x] = ref[x]
  PROVE  \A y : Holders(y)' = Holders(y)
BY DEF Holders

\* What is left of a list after its first n elements are removed.
LEMMA DropFirst ==
  ASSUME NEW S, NEW s \in Seq(S), NEW n \in 0..Len(s)
  PROVE  LET t == SubSeq(s, n + 1, Len(s)) IN
         /\ t \in Seq(S)
         /\ Len(t) = Len(s) - n
         /\ \A i \in 1..Len(t) : t[i] = s[n + i] /\ n + i \in 1..Len(s)
         /\ \A i \in 1..Len(s) : i > n => i - n \in 1..Len(t) /\ s[i] = t[i - n]
OBVIOUS

\* The references are counted in a natural number.
LEMMA HoldersFinite == \A y : IsFiniteSet(Holders(y)) /\ Cardinality(Holders(y)) \in Nat
<1> TAKE y
<1>1. IsFiniteSet(ConsumerItem) BY ItemsFinite, DataFifoAssumption
<1>2. Holders(y) \in SUBSET ConsumerItem BY DEF Holders
<1>3. QED BY <1>1, <1>2, FS_Subset, FS_CardinalityType

-----------------------------------------------------------------------------
(* Type correctness *)

\* datafifo_init leaves every field well typed.
LEMMA InitTypeOK == Init => TypeOK
<1> SUFFICES ASSUME Init PROVE TypeOK OBVIOUS
<1> USE DataFifoAssumption DEF Init
<1>1. list \in [Fifo -> Seq(Item)] OBVIOUS
<1>2. data \in [ProducerItem -> [1..DataMaxLen -> Byte \cup {NULL}]] OBVIOUS
<1>3. crashed \in BOOLEAN OBVIOUS
<1>4. status \in [Item -> Status] /\ pc \in [Producers -> ProducerPc]
  BY DEF Status, ProducerPc
<1>5. flags \in [Item -> FrameFlags]
  BY DEF FrameFlags
<1>6. QED
  BY <1>1, <1>2, <1>3, <1>4, <1>5 DEF TypeOK, ConsumerPc

\* The tail of a producer's list is one of its own buffers.
LEMMA TailItem ==
  ASSUME TypeOK, ListInv, NEW p \in Producers, list[p] # <<>>
  PROVE  /\ Len(list[p]) \in 1..Len(list[p])
         /\ Last(list[p]) = list[p][Len(list[p])]
         /\ Last(list[p]) \in ProducerItem
         /\ Last(list[p])[1] = p
<1>1. p \in Fifo /\ list[p] \in Seq(Item) BY DEF Fifo, TypeOK
<1>2. Len(list[p]) \in 1..Len(list[p]) BY <1>1
<1>3. QED BY <1>1, <1>2 DEF Last, ListInv, ProducerItem

\* The head of a consumer's list refers to a producer's buffer.
LEMMA HeadRef ==
  ASSUME TypeOK, ListInv, ConsumerInv, NEW c \in Consumers,
         list[c] # <<>> \/ cpc[c] # "head"
  PROVE  /\ list[c] # <<>>
         /\ 1 \in 1..Len(list[c])
         /\ Head(list[c]) = list[c][1]
         /\ Head(list[c]) \in ConsumerItem
         /\ Head(list[c])[1] = c
         /\ ref[Head(list[c])] \in ProducerItem
<1>1. c \in Fifo /\ list[c] \in Seq(Item) BY DEF Fifo, TypeOK
<1>2. list[c] # <<>> BY DEF ConsumerInv
<1>3. 1 \in 1..Len(list[c]) /\ Head(list[c]) = list[c][1] BY <1>1, <1>2
<1>4. QED BY <1>1, <1>2, <1>3 DEF ListInv, ConsumerInv, ConsumerItem

\* datafifo_producer_remove_check keeps the lists well typed.
LEMMA RemoveCheckType ==
  ASSUME TypeOK, NEW p \in Fifo, RemoveCheck(p)
  PROVE  list' \in [Fifo -> Seq(Item)] /\ status' \in [Item -> Status]
<1>1. PICK n \in 0..Len(list[p]) :
        /\ list' = [list EXCEPT ![p] = SubSeq(@, n + 1, Len(@))]
        /\ status' = [x \in Item |->
                        IF \E i \in 1..n : x = list[p][i] THEN "INIT" ELSE status[x]]
  BY DEF RemoveCheck
<1>2. SubSeq(list[p], n + 1, Len(list[p])) \in Seq(Item)
  BY DropFirst DEF TypeOK
<1>3. QED BY <1>1, <1>2 DEF TypeOK, Status

\* The part of the invariant type correctness needs: what the thread points
\* at when it uses a pointer.
LEMMA NextTypeOK ==
  ASSUME TypeOK, ListInv, CurInv, CopyInv, ItemInv, CitemInv, ConsumerInv,
         Next
  PROVE  TypeOK'
<1> USE DataFifoAssumption DEF TypeOK
<1>1. ASSUME NEW p \in Producers, NEW a \in Calls, Call(p, a) PROVE TypeOK'
  BY <1>1 DEF Call, Goto, fifoVars, ProducerPc
<1>2. ASSUME NEW p \in Producers, AllocFrame(p) PROVE TypeOK'
  BY <1>2 DEF AllocFrame, FirstUnused, Goto, ProducerPc, Status, FrameFlags, ProducerItem
<1>3. ASSUME NEW p \in Producers, Flush(p) PROVE TypeOK'
  <2>1. CASE Filling(p)
    <3>1. Last(list[p]) \in ProducerItem
      BY <2>1, TailItem DEF Filling
    <3>2. len' \in [Item -> 0..DataMaxLen]
      BY <1>3, <2>1, <3>1 DEF Flush, ProducerItem
    <3>3. status' \in [Item -> Status]
      BY <1>3, <2>1 DEF Flush, Status
    <3>4. pc' \in [Producers -> ProducerPc] /\ ret' \in [Producers -> {"idle", "link"}]
      BY <1>3, <2>1 DEF Flush, Goto, ProducerPc, Distributing
    <3>5. item' = [item EXCEPT ![p] = Last(list[p])] /\ con' = [con EXCEPT ![p] = 1]
      BY <1>3, <2>1 DEF Flush, Filling
    <3>6. /\ item' \in [Producers -> ProducerItem \cup {NULL}]
          /\ con' \in [Producers -> Nat \ {0}]
      BY <3>1, <3>5
    <3>7. QED BY <1>3, <3>2, <3>3, <3>4, <3>5, <3>6 DEF Flush
  <2>2. CASE ~Filling(p)
    BY <1>3, <2>2 DEF Flush, Goto, ProducerPc, Distributing, Status
  <2>3. QED BY <2>1, <2>2
<1>4. ASSUME NEW p \in Producers, LinkFrame(p) PROVE TypeOK'
  BY <1>4 DEF LinkFrame, Goto, ProducerPc, FrameFlags, CurInv, HasCur, Fifo
<1>5. ASSUME NEW p \in Producers, CheckTail(p) PROVE TypeOK'
  BY <1>5 DEF CheckTail, Goto, ProducerPc, fifoVars
<1>6. ASSUME NEW p \in Producers, CopyPacket(p) PROVE TypeOK'
  <2> DEFINE t == Last(list[p])
  <2>1. t \in ProducerItem /\ t \in Item /\ call[p].len \in Nat /\ len[t] + call[p].len \in Int
    <3>1. pc[p] = "copy" BY <1>6 DEF CopyPacket
    <3>2. list[p] # <<>> BY <3>1 DEF CopyInv, Filling
    <3>3. t \in ProducerItem BY <3>2, TailItem
    <3>4. t \in Item BY <3>3 DEF ProducerItem
    <3>5. call[p].len \in Nat BY DEF CallType, NoCall
    <3>6. QED BY <3>3, <3>4, <3>5
  <2>2. CASE len[t] + call[p].len > DataMaxLen
    <3>1. ~(len[t] + call[p].len <= DataMaxLen) BY <2>1, <2>2
    <3>2. pc' = [pc EXCEPT ![p] = "idle"] /\ UNCHANGED <<data, len, status, item, con, ret>>
      BY <1>6, <3>1 DEF CopyPacket, FrameEnd, Goto
    <3>3. pc' \in [Producers -> ProducerPc] BY <3>2 DEF ProducerPc
    <3>4. QED BY <1>6, <3>2, <3>3 DEF CopyPacket
  <2>3. CASE len[t] + call[p].len <= DataMaxLen
    <3>1. t \in Item /\ len[t] \in Nat /\ len[t] + call[p].len \in 0..DataMaxLen
      BY <2>1, <2>3 DEF ProducerItem
    <3>2. Appended(t, call[p]) \in [1..DataMaxLen -> Byte \cup {NULL}]
      <4>1. CASE call[p] \in Calls
        <5>1. call[p].data \in Payload BY <4>1 DEF CallType
        <5>2. QED BY <2>1, <3>1, <5>1 DEF Appended, Byte
      <4>2. CASE call[p] = NoCall
        <5>1. call[p].len = 0 BY <4>2 DEF NoCall
        <5>2. QED BY <2>1, <3>1, <5>1 DEF Appended
      <4>3. QED BY <4>1, <4>2
    <3>3. data' = [data EXCEPT ![t] = Appended(t, call[p])]
      BY <1>6, <2>3, <3>1 DEF CopyPacket, FrameEnd
    <3>4. data' \in [ProducerItem -> [1..DataMaxLen -> Byte \cup {NULL}]]
      BY <2>1, <3>2, <3>3
    <3>5. len' \in [Item -> 0..DataMaxLen]
      BY <1>6, <2>3, <3>1 DEF CopyPacket, FrameEnd
    <3>6. CASE "FRAMEEND" \in call[p].flags
      <4>1. /\ status' = [status EXCEPT ![t] = "READY"]
            /\ item' = [item EXCEPT ![p] = t]
            /\ con' = [con EXCEPT ![p] = 1]
            /\ ret' = [ret EXCEPT ![p] = "idle"]
            /\ pc' = [pc EXCEPT ![p] = "next_con"]
        BY <1>6, <3>1, <3>6 DEF CopyPacket, FrameEnd, Goto
      <4>2. status' \in [Item -> Status] BY <4>1 DEF Status
      <4>3. pc' \in [Producers -> ProducerPc] BY <4>1 DEF ProducerPc, Distributing
      <4>4. item' \in [Producers -> ProducerItem \cup {NULL}] BY <2>1, <4>1
      <4>5. con' \in [Producers -> Nat \ {0}] BY <4>1
      <4>6. ret' \in [Producers -> {"idle", "link"}] BY <4>1
      <4>7. QED BY <1>6, <3>4, <3>5, <4>2, <4>3, <4>4, <4>5, <4>6 DEF CopyPacket, FrameEnd
    <3>7. CASE "FRAMEEND" \notin call[p].flags
      BY <1>6, <2>1, <2>3, <3>1, <3>4, <3>5, <3>7 DEF CopyPacket, FrameEnd, Goto, ProducerPc
    <3>8. QED BY <3>6, <3>7
  <2>4. len[t] + call[p].len > DataMaxLen \/ len[t] + call[p].len <= DataMaxLen
    <3> HIDE DEF TypeOK, t
    <3> QED BY <2>1
  <2>5. QED
    <3> HIDE DEF TypeOK, t
    <3> QED BY <2>2, <2>3, <2>4
<1>7. ASSUME NEW p \in Producers, AllocForConsumer(p) PROVE TypeOK'
  <2>1. PICK x \in Item :
          /\ x[1] = Connected[p][con[p]]
          /\ citem' = [citem EXCEPT ![p] = x]
          /\ status' = [status EXCEPT ![x] = "READY"]
          /\ ref' = [ref EXCEPT ![x] = item[p]]
          /\ len' = [len EXCEPT ![x] = len[item[p]]]
          /\ flags' = [flags EXCEPT ![x] = flags[item[p]]]
          /\ refcnt' = [refcnt EXCEPT ![x] = 0]
    BY <1>7 DEF AllocForConsumer, FirstUnused
  <2>2. item[p] \in Item /\ item[p] \in ProducerItem
    BY <1>7 DEF AllocForConsumer, ItemInv, Distributing, ProducerItem
  <2>3. x \in ConsumerItem
    <3>1. Connected[p] \in Seq(Consumers) /\ con[p] \in 1..Len(Connected[p])
      BY <1>7 DEF AllocForConsumer
    <3>2. QED BY <2>1, <3>1 DEF ConsumerItem
  <2>4. QED
    BY <1>7, <2>1, <2>2, <2>3 DEF AllocForConsumer, Goto, ProducerPc, Distributing, Status
<1>8. ASSUME NEW p \in Producers, CountReference(p) PROVE TypeOK'
  <2>1. item[p] \in Item
    BY <1>8 DEF CountReference, ItemInv, Distributing
  <2>2. QED BY <1>8, <2>1 DEF CountReference, Goto, ProducerPc, Distributing
<1>9. ASSUME NEW p \in Producers, AddToConsumer(p) PROVE TypeOK'
  <2>1. citem[p] \in Item /\ citem[p][1] \in Fifo
    BY <1>9 DEF AddToConsumer, CitemInv, HasCitem, Fifo
  <2>2. list' \in [Fifo -> Seq(Item)]
    <3>1. list' = [list EXCEPT ![citem[p][1]] = Append(list[citem[p][1]], citem[p])]
      BY <1>9 DEF AddToConsumer
    <3>2. Append(list[citem[p][1]], citem[p]) \in Seq(Item) BY <2>1
    <3>3. QED BY <3>1, <3>2
  <2>3. pc' \in [Producers -> ProducerPc]
    BY <1>9 DEF AddToConsumer, Goto, ProducerPc, Distributing
  <2>4. con' \in [Producers -> Nat \ {0}] /\ citem' \in [Producers -> ConsumerItem \cup {NULL}]
    BY <1>9 DEF AddToConsumer
  <2>5. QED BY <1>9, <2>2, <2>3, <2>4 DEF AddToConsumer
<1>10. ASSUME NEW p \in Producers, SetDoing(p) PROVE TypeOK'
  BY <1>10 DEF SetDoing, Goto, ProducerPc, Status
<1>11. ASSUME NEW p \in Producers, ProducerCheck(p) PROVE TypeOK'
  <2>1. list' \in [Fifo -> Seq(Item)] /\ status' \in [Item -> Status]
    BY <1>11, RemoveCheckType DEF ProducerCheck, Fifo
  <2>2. QED BY <1>11, <2>1 DEF ProducerCheck, Goto, ProducerPc
<1>12. ASSUME NEW c \in Consumers, Release(c) PROVE TypeOK'
  <2>1. ref[Head(list[c])] \in Item
    BY <1>12, HeadRef DEF Release, ProducerItem
  <2>2. refcnt' \in [Item -> Int] BY <1>12, <2>1 DEF Release
  <2>3. cpc' \in [Consumers -> ConsumerPc] BY <1>12 DEF Release, ConsumerPc
  <2>4. QED BY <1>12, <2>2, <2>3 DEF Release, prodVars
<1>13. ASSUME NEW c \in Consumers, ConsumerCheck(c) PROVE TypeOK'
  <2>1. ref[Head(list[c])][1] \in Fifo
    BY <1>13, HeadRef DEF ConsumerCheck, ProducerItem, Fifo
  <2>2. list' \in [Fifo -> Seq(Item)] /\ status' \in [Item -> Status]
    BY <1>13, <2>1, RemoveCheckType DEF ConsumerCheck
  <2>3. QED BY <1>13, <2>2 DEF ConsumerCheck, ConsumerPc, prodVars
<1>14. ASSUME NEW c \in Consumers, Unlink(c) PROVE TypeOK'
  <2>1. list[c] \in Seq(Item) /\ list[c] # <<>> /\ Head(list[c]) \in Item
    BY <1>14 DEF Unlink, ConsumerInv, Fifo
  <2>2. list' \in [Fifo -> Seq(Item)]
    <3>1. Tail(list[c]) \in Seq(Item) BY <2>1
    <3>2. list' = [list EXCEPT ![c] = Tail(list[c])] BY <1>14 DEF Unlink
    <3>3. QED BY <3>1, <3>2
  <2>3. QED BY <1>14, <2>1, <2>2 DEF Unlink, ConsumerPc, prodVars, Status
<1>15. QED
  BY <1>1, <1>2, <1>3, <1>4, <1>5, <1>6, <1>7, <1>8, <1>9, <1>10, <1>11,
     <1>12, <1>13, <1>14 DEF Next, ProducerStep, ConsumerStep

-----------------------------------------------------------------------------
(* Every step preserves the invariant *)

\* Steps that only move a producer's thread, outside the sections in which
\* it holds an item.
LEMMA QuietPreserves ==
  ASSUME IInv, TypeOK', NEW p \in Producers,
         UNCHANGED <<list, status, refcnt, ref, cur, item, citem, ret, cpc>>,
         \A q \in Producers : q # p => pc'[q] = pc[q],
         pc[p] \in {"idle", "tail"}, pc'[p] \in {"idle", "alloc", "tail", "copy"},
         pc'[p] = "copy" => Filling(p)
  PROVE  IInv'
<1> USE DEF IInv
<1>1. ListInv' /\ ConsumerInv' BY DEF ListInv, ConsumerInv
<1>2. CurInv' BY DEF CurInv, HasCur, Distributing, InList
<1>3. CopyInv' BY DEF CopyInv, Filling
<1>4. ItemInv' BY DEF ItemInv, Distributing, InList
<1>5. CitemInv' BY DEF CitemInv, HasCitem, InList
<1>6. \A x : Counted(x)' <=> Counted(x)
  BY DEF Counted, InList, Released
<1>7. RefsAlive' BY <1>6 DEF RefsAlive, InList
<1>8. RefcntExact' BY <1>6, HoldersSame DEF RefcntExact
<1>9. NoLeak' BY DEF NoLeak, InList
<1>10. QED BY <1>1, <1>2, <1>3, <1>4, <1>5, <1>7, <1>8, <1>9

\* datafifo_alloc in the producer: the buffer is out of the pool and only this
\* thread knows it.
LEMMA AllocFramePreserves ==
  ASSUME IInv, TypeOK', NEW p \in Producers, AllocFrame(p)
  PROVE  IInv'
<1> USE DEF IInv
<1>1. PICK x \in Item :
        /\ x[1] = p
        /\ status[x] = "INIT"
        /\ cur' = [cur EXCEPT ![p] = x]
        /\ status' = [status EXCEPT ![x] = "FILLING"]
        /\ refcnt' = [refcnt EXCEPT ![x] = 0]
        /\ ref' = [ref EXCEPT ![x] = NULL]
  BY DEF AllocFrame, FirstUnused
<1>2. /\ pc[p] = "alloc"
      /\ pc' = [pc EXCEPT ![p] = "flush"]
      /\ UNCHANGED <<list, item, citem, ret, cpc>>
  BY DEF AllocFrame, Goto
<1>3. ~InList(x) /\ x \in ProducerItem /\ x \notin ConsumerItem /\ p \in Fifo
  BY <1>1, ItemFifo DEF InList, ListInv, Fifo, ProducerItem
<1>4. \A y : InList(y)' <=> InList(y)
  BY <1>2 DEF InList
<1>5. \A y : Counted(y)' <=> Counted(y)
  BY <1>2, <1>4 DEF Counted, Released, TypeOK
<1>6. \A y \in ConsumerItem : ref'[y] = ref[y]
  BY <1>1, <1>3 DEF TypeOK, ConsumerItem
<1>7. \A q \in Producers : HasCur(q) => cur[q] # x
  BY <1>1 DEF CurInv
<1>8. \A q \in Producers : cur[q] # x /\ citem[q] # x
  BY <1>1, <1>3 DEF NoLeak
<1>9. \A y \in Item : status[y] # "INIT" => status'[y] # "INIT"
  BY <1>1 DEF TypeOK
<1>10. ListInv' BY <1>2, <1>9 DEF ListInv
<1>11. CurInv'
  BY <1>1, <1>2, <1>3, <1>4, <1>8 DEF CurInv, HasCur, Distributing, TypeOK
<1>12. CopyInv'
  BY <1>1, <1>2, TailItem, <1>3 DEF CopyInv, Filling, TypeOK, ListInv, Last, ProducerItem
<1>13. ItemInv'
  BY <1>1, <1>2, <1>4 DEF ItemInv, Distributing, TypeOK
<1>14. CitemInv'
  BY <1>1, <1>2, <1>3, <1>4, <1>6, <1>8 DEF CitemInv, HasCitem, TypeOK, ConsumerItem
<1>15. ConsumerInv'
  <2>1. \A c \in Consumers : \A i \in 1..Len(list[c]) : list[c][i] \in ConsumerItem
    BY DEF ListInv, ConsumerItem, Fifo
  <2>2. QED BY <1>2, <1>6, <2>1 DEF ConsumerInv
<1>16. RefsAlive'
  BY <1>1, <1>4, <1>5, <1>6, <1>3 DEF RefsAlive, TypeOK, ProducerItem
<1>17. RefcntExact'
  <2>1. \A y : Holders(y)' = Holders(y) BY <1>5, <1>6, HoldersSame
  <2>2. Holders(x) = {} BY <1>3 DEF Holders, RefsAlive
  <2>3. \A y \in ProducerItem : refcnt'[y] = IF y = x THEN 0 ELSE refcnt[y]
    BY <1>1 DEF TypeOK, ProducerItem
  <2>4. QED BY <2>1, <2>2, <2>3, FS_EmptySet DEF RefcntExact
<1>18. NoLeak'
  <2>1. cur[p] = NULL BY <1>2 DEF CurInv, HasCur, Distributing
  <2>2. \A y \in Item : (\E q \in Producers : cur'[q] = y \/ citem'[q] = y) <=>
                       (y = x \/ \E q \in Producers : cur[q] = y \/ citem[q] = y)
    BY <1>1, <1>2, <2>1, DataFifoAssumption DEF TypeOK
  <2>3. \A y \in Item : status'[y] # "INIT" <=> (y = x \/ status[y] # "INIT")
    BY <1>1 DEF TypeOK
  <2>4. QED BY <1>4, <2>2, <2>3 DEF NoLeak
<1>19. QED
  BY <1>10, <1>11, <1>12, <1>13, <1>14, <1>15, <1>16, <1>17, <1>18

\* An unfinished frame becomes READY and is the one handed out.
LEMMA FlushPreserves ==
  ASSUME IInv, TypeOK', NEW p \in Producers, Flush(p)
  PROVE  IInv'
<1> USE DEF IInv
<1>1. /\ pc[p] = "flush"
      /\ UNCHANGED <<list, refcnt, ref, cur, citem, cpc>>
  BY DEF Flush
<1>2. \A y : InList(y)' <=> InList(y)
  BY <1>1 DEF InList
<1>3. HasCur(p) /\ ~HasCitem(p) BY <1>1 DEF HasCur, HasCitem
<1>4. CASE ~Filling(p)
  <2>1. pc' = [pc EXCEPT ![p] = "link"] /\ UNCHANGED <<status, item, ret>>
    BY <1>4 DEF Flush, Goto, Filling
  <2>2. \A q \in Producers : /\ HasCur(q)' <=> HasCur(q)
                             /\ HasCitem(q)' <=> HasCitem(q)
    BY <1>1, <2>1 DEF HasCur, HasCitem, Distributing, TypeOK
  <2>3. \A y : Counted(y)' <=> Counted(y)
    BY <1>1, <1>2, <2>1 DEF Counted, Released, TypeOK
  <2>4. ListInv' /\ ConsumerInv' /\ CurInv'
    BY <1>1, <1>2, <2>1, <2>2 DEF ListInv, ConsumerInv, CurInv
  <2>5. CopyInv' /\ ItemInv'
    BY <1>1, <1>2, <2>1 DEF CopyInv, Filling, ItemInv, Distributing, TypeOK
  <2>6. CitemInv' BY <1>1, <1>2, <2>1, <2>2 DEF CitemInv
  <2>7. RefsAlive' BY <1>1, <1>2, <2>1, <2>3 DEF RefsAlive
  <2>8. RefcntExact' BY <1>1, <2>3, HoldersSame DEF RefcntExact
  <2>9. NoLeak' BY <1>1, <1>2, <2>1 DEF NoLeak
  <2>10. QED BY <2>4, <2>5, <2>6, <2>7, <2>8, <2>9
<1>5. CASE Filling(p)
  <2> DEFINE old == Last(list[p])
  <2>1. /\ status' = [status EXCEPT ![old] = "READY"]
        /\ item' = [item EXCEPT ![p] = old]
        /\ ret' = [ret EXCEPT ![p] = "link"]
        /\ pc' = [pc EXCEPT ![p] = "next_con"]
    BY <1>5 DEF Flush, Goto, Filling
  <2>2. /\ old \in Item /\ old[1] = p /\ InList(old) /\ status[old] = "FILLING"
        /\ p \in Fifo
    BY <1>5, TailItem DEF Filling, InList, ProducerItem, Fifo
  <2>3. \A q \in Producers : /\ HasCur(q)' <=> HasCur(q)
                             /\ HasCitem(q)' <=> HasCitem(q)
    BY <1>1, <2>1 DEF HasCur, HasCitem, Distributing, TypeOK
  <2>4. \A y : Counted(y)' <=> Counted(y)
    BY <1>1, <1>2, <2>1 DEF Counted, Released, TypeOK
  <2>5. ListInv' /\ ConsumerInv' /\ CurInv'
    <3>1. \A y \in Item : status[y] # "INIT" => status'[y] # "INIT"
      BY <2>1 DEF TypeOK
    <3>2. ListInv' BY <1>1, <3>1 DEF ListInv
    <3>3. ConsumerInv' BY <1>1 DEF ConsumerInv
    <3>4. \A y \in Item : y # old => status'[y] = status[y]
      BY <2>1 DEF TypeOK
    <3>5. CurInv' BY <1>1, <1>2, <2>2, <2>3, <3>4 DEF CurInv
    <3>6. QED BY <3>2, <3>3, <3>5
  <2>6. CopyInv'
    <3>1. SUFFICES ASSUME NEW q \in Producers, pc[q] = "copy", q # p
                   PROVE  Filling(q)'
      BY <2>1 DEF CopyInv, TypeOK
    <3>2. Filling(q) /\ Last(list[q]) # old
      BY <3>1, <2>2, TailItem DEF CopyInv, Filling
    <3>3. QED BY <1>1, <2>1, <3>2, TailItem DEF Filling, TypeOK, ProducerItem
  <2>7. ItemInv'
    BY <1>1, <1>2, <2>1, <2>2 DEF ItemInv, Distributing, TypeOK
  <2>8. CitemInv'
    <3>1. \A q \in Producers : HasCitem(q) => item'[q] = item[q]
      BY <1>3, <2>1 DEF TypeOK
    <3>2. QED BY <1>1, <1>2, <2>1, <2>3, <3>1 DEF CitemInv, TypeOK
  <2>9. RefsAlive' BY <1>1, <1>2, <2>1, <2>4 DEF RefsAlive, TypeOK, ProducerItem
  <2>10. RefcntExact' BY <1>1, <2>4, HoldersSame DEF RefcntExact
  <2>11. NoLeak' BY <1>1, <1>2, <2>1, <2>2 DEF NoLeak, TypeOK
  <2>12. QED BY <2>5, <2>6, <2>7, <2>8, <2>9, <2>10, <2>11
<1>6. QED BY <1>4, <1>5

\* The new frame enters the list it is allocated from.
LEMMA LinkFramePreserves ==
  ASSUME IInv, TypeOK', NEW p \in Producers, LinkFrame(p)
  PROVE  IInv'
<1> USE DEF IInv
<1> DEFINE x == cur[p]
<1>1. /\ pc[p] = "link"
      /\ pc' = [pc EXCEPT ![p] = "copy"]
      /\ cur' = [cur EXCEPT ![p] = NULL]
      /\ list' = [list EXCEPT ![p] = Append(list[p], x)]
      /\ UNCHANGED <<status, refcnt, ref, item, citem, ret, cpc>>
  BY DEF LinkFrame, Goto
<1>2. x \in Item /\ x[1] = p /\ status[x] = "FILLING" /\ ~InList(x)
  BY <1>1 DEF CurInv, HasCur
<1>3. p \in Fifo /\ list[p] \in Seq(Item) BY DEF Fifo, TypeOK
<1>4. /\ Len(list'[p]) = Len(list[p]) + 1
      /\ list'[p][Len(list[p]) + 1] = x
      /\ \A i \in 1..Len(list[p]) : list'[p][i] = list[p][i]
      /\ \A f \in Fifo : f # p => list'[f] = list[f]
  BY <1>1, <1>2, <1>3 DEF TypeOK
<1>5. \A y \in Item : InList(y)' <=> (InList(y) \/ y = x)
  <2> TAKE y \in Item
  <2>1. y[1] \in Fifo BY ItemFifo
  <2> DEFINE n == Len(list[p])
  <2>2. CASE y[1] = p
    <3>1. InList(y) <=> \E i \in 1..n : list[p][i] = y
      BY <2>2 DEF InList
    <3>2. InList(y)' <=> \E i \in 1..(n + 1) : list'[p][i] = y
      BY <1>4, <2>2 DEF InList
    <3>3. n \in Nat BY <1>3
    <3>4. ASSUME NEW i \in 1..n, list[p][i] = y
          PROVE  i \in 1..(n + 1) /\ list'[p][i] = y
      <4> HIDE DEF IInv
      <4> QED BY <1>4, <3>3, <3>4
    <3>5. n + 1 \in 1..(n + 1) BY <3>3
    <3>6. ASSUME NEW i \in 1..(n + 1), list'[p][i] = y, y # x
          PROVE  i \in 1..n /\ list[p][i] = y
      <4> HIDE DEF IInv
      <4> QED BY <1>4, <3>3, <3>6
    <3>7. QED BY <1>4, <3>1, <3>2, <3>4, <3>5, <3>6
  <2>3. CASE y[1] # p
    <3>1. y # x BY <1>2, <2>3
    <3>2. list'[y[1]] = list[y[1]] BY <1>4, <2>1, <2>3
    <3>3. QED BY <3>1, <3>2 DEF InList
  <2>4. QED BY <2>2, <2>3
<1>6. \A q \in Producers : /\ HasCur(q)' <=> (HasCur(q) /\ q # p)
                           /\ HasCitem(q)' <=> HasCitem(q)
  BY <1>1 DEF HasCur, HasCitem, Distributing, TypeOK
<1>7. x \notin ConsumerItem BY <1>2, ItemFifo DEF ProducerItem
<1>8. \A c \in Consumers : c \in Fifo /\ list'[c] = list[c]
  BY <1>4, DataFifoAssumption DEF Fifo
<1>9. \A y \in ConsumerItem : Counted(y)' <=> Counted(y)
  <2> TAKE y \in ConsumerItem
  <2>1. InList(y)' <=> InList(y) BY <1>5, <1>7 DEF ConsumerItem
  <2>2. Released(y)' <=> Released(y) BY <1>1, <1>8 DEF Released, ConsumerItem
  <2>3. QED BY <1>1, <2>1, <2>2 DEF Counted, TypeOK
<1>10. ListInv'
  <2>1. \A i \in 1..Len(list[p]) : list[p][i] # x BY <1>2, <1>3 DEF InList
  <2>2. QED BY <1>1, <1>2, <1>3, <1>4, <2>1 DEF ListInv
<1>11. CurInv'
  BY <1>1, <1>2, <1>5, <1>6 DEF CurInv, TypeOK
<1>12. CopyInv'
  <2>1. Filling(p)'
    <3>1. Last(list'[p]) = x /\ list'[p] # <<>> BY <1>3, <1>4 DEF Last
    <3>2. QED BY <1>1, <1>2, <3>1 DEF Filling
  <2>2. \A q \in Producers : q # p => (pc'[q] = pc[q] /\ (Filling(q)' <=> Filling(q)))
    BY <1>1, <1>4 DEF Filling, Fifo, TypeOK
  <2>3. QED BY <2>1, <2>2 DEF CopyInv
<1>13. ItemInv'
  BY <1>1, <1>5 DEF ItemInv, Distributing, TypeOK
<1>14. CitemInv'
  <2>1. \A q \in Producers : HasCitem(q) => citem[q] # x
    BY <1>7 DEF CitemInv, ConsumerItem
  <2>2. QED BY <1>1, <1>5, <1>6, <2>1 DEF CitemInv
<1>15. ConsumerInv' BY <1>1, <1>8 DEF ConsumerInv
<1>16. RefsAlive'
  BY <1>1, <1>5, <1>9 DEF RefsAlive, ProducerItem
<1>17. RefcntExact' BY <1>1, <1>9, HoldersSame DEF RefcntExact
<1>18. NoLeak'
  <2>1. \A y \in Item : (y = x \/ \E q \in Producers : cur'[q] = y \/ citem'[q] = y) <=>
                       (\E q \in Producers : cur[q] = y \/ citem[q] = y)
    BY <1>1, DataFifoAssumption DEF TypeOK
  <2>2. QED BY <1>1, <1>2, <1>5, <2>1 DEF NoLeak
<1>19. QED
  BY <1>10, <1>11, <1>12, <1>13, <1>14, <1>15, <1>16, <1>17, <1>18

\* A packet is only copied to a frame nobody refers to yet.
LEMMA CopyPacketPreserves ==
  ASSUME IInv, TypeOK', NEW p \in Producers, CopyPacket(p)
  PROVE  IInv'
<1> USE DEF IInv
<1> DEFINE t == Last(list[p])
<1>1. pc[p] = "copy" /\ UNCHANGED <<list, refcnt, ref, cur, citem, cpc>>
  BY DEF CopyPacket
<1>2. /\ t \in Item /\ t[1] = p /\ InList(t) /\ status[t] = "FILLING"
      /\ p \in Fifo
  BY <1>1, TailItem DEF CopyInv, Filling, InList, ProducerItem, Fifo
<1>3. \/ /\ status' = [status EXCEPT ![t] = "READY"]
         /\ item' = [item EXCEPT ![p] = t]
         /\ ret' = [ret EXCEPT ![p] = "idle"]
         /\ pc' = [pc EXCEPT ![p] = "next_con"]
      \/ /\ pc' = [pc EXCEPT ![p] = "idle"]
         /\ UNCHANGED <<status, item, ret>>
  BY DEF CopyPacket, FrameEnd, Goto
<1>4. \A y : InList(y)' <=> InList(y)
  BY <1>1 DEF InList
<1>5. \A q \in Producers : /\ HasCur(q)' <=> HasCur(q)
                           /\ HasCitem(q)' <=> HasCitem(q)
  BY <1>1, <1>3 DEF HasCur, HasCitem, Distributing, TypeOK
<1>6. \A y : Counted(y)' <=> Counted(y)
  BY <1>1, <1>3, <1>4 DEF Counted, Released, TypeOK
<1>7. \A y \in Item : status'[y] = status[y] \/ (y = t /\ status'[y] = "READY")
  BY <1>3 DEF TypeOK
<1>8. ListInv' /\ ConsumerInv'
  BY <1>1, <1>7 DEF ListInv, ConsumerInv
<1>9. CurInv'
  BY <1>1, <1>2, <1>4, <1>5, <1>7 DEF CurInv
<1>10. CopyInv'
  <2>1. SUFFICES ASSUME NEW q \in Producers, pc[q] = "copy", q # p
                 PROVE  Filling(q)'
    BY <1>3 DEF CopyInv, TypeOK
  <2>2. Filling(q) /\ Last(list[q]) \in Item /\ Last(list[q]) # t
    BY <2>1, <1>2, TailItem DEF CopyInv, Filling, ProducerItem
  <2>3. QED BY <1>1, <1>7, <2>2 DEF Filling
<1>11. ItemInv'
  <2>1. \A q \in Producers : q # p => pc'[q] = pc[q] /\ item'[q] = item[q]
    BY <1>3 DEF TypeOK
  <2>2. pc'[p] \in Distributing => item'[p] = t /\ status'[t] = "READY"
    BY <1>1, <1>2, <1>3 DEF Distributing, TypeOK
  <2>3. QED BY <1>2, <1>4, <1>7, <2>1, <2>2 DEF ItemInv
<1>12. CitemInv'
  <2>1. \A q \in Producers : HasCitem(q) => item'[q] = item[q]
    BY <1>1, <1>3 DEF TypeOK, HasCitem
  <2>2. QED BY <1>1, <1>4, <1>5, <1>7, <2>1 DEF CitemInv
<1>13. RefsAlive' BY <1>1, <1>4, <1>6, <1>7 DEF RefsAlive, ProducerItem
<1>14. RefcntExact' BY <1>1, <1>6, HoldersSame DEF RefcntExact
<1>15. NoLeak' BY <1>1, <1>2, <1>4, <1>7 DEF NoLeak
<1>16. QED BY <1>8, <1>9, <1>10, <1>11, <1>12, <1>13, <1>14, <1>15

\* datafifo_alloc for a consumer: the item refers to the frame, not counted yet.
LEMMA AllocForConsumerPreserves ==
  ASSUME IInv, TypeOK', NEW p \in Producers, AllocForConsumer(p)
  PROVE  IInv'
<1> USE DEF IInv
<1>1. PICK x \in Item :
        /\ x[1] = Connected[p][con[p]]
        /\ status[x] = "INIT"
        /\ citem' = [citem EXCEPT ![p] = x]
        /\ status' = [status EXCEPT ![x] = "READY"]
        /\ ref' = [ref EXCEPT ![x] = item[p]]
        /\ refcnt' = [refcnt EXCEPT ![x] = 0]
  BY DEF AllocForConsumer, FirstUnused
<1>2. /\ pc[p] = "next_con"
      /\ pc' = [pc EXCEPT ![p] = "count"]
      /\ UNCHANGED <<list, cur, item, ret, cpc>>
  BY DEF AllocForConsumer, Goto
<1>3. x \in ConsumerItem /\ x \notin ProducerItem /\ x[1] \in Fifo
  <2>1. Connected[p] \in Seq(Consumers) /\ con[p] \in 1..Len(Connected[p])
    <3>1. con[p] \in Nat \ {0} /\ con[p] <= Len(Connected[p])
      BY DEF AllocForConsumer, TypeOK
    <3>2. QED BY <3>1, DataFifoAssumption
  <2>2. x[1] \in Consumers BY <1>1, <2>1
  <2>3. QED BY <2>2, ItemFifo DEF ConsumerItem, Fifo
<1>4. ~InList(x) BY <1>1, <1>3 DEF InList, ListInv
<1>5. \A y : InList(y)' <=> InList(y)
  BY <1>2 DEF InList
<1>6. \A q \in Producers : cur[q] # x /\ citem[q] # x
  BY <1>1 DEF NoLeak
<1>7. \A q \in Producers : /\ HasCur(q)' <=> HasCur(q)
                           /\ HasCitem(q)' <=> (HasCitem(q) \/ q = p)
  BY <1>2 DEF HasCur, HasCitem, Distributing, TypeOK
<1>8. \A y : Counted(y)' <=> Counted(y)
  <2> TAKE y
  <2>1. Released(y)' <=> Released(y) BY <1>2 DEF Released
  <2>2. (\E q \in Producers : pc'[q] = "add_con" /\ citem'[q] = y)
          <=> (\E q \in Producers : pc[q] = "add_con" /\ citem[q] = y)
    BY <1>1, <1>2 DEF TypeOK
  <2>3. QED BY <1>5, <2>1, <2>2 DEF Counted
<1>9. ~Counted(x) BY <1>4, <1>6 DEF Counted
<1>10. \A y \in Item : y # x => /\ ref'[y] = ref[y]
                               /\ status'[y] = status[y]
                               /\ refcnt'[y] = refcnt[y]
  BY <1>1 DEF TypeOK
<1>11. ListInv'
  <2>1. \A y \in Item : status[y] # "INIT" => status'[y] # "INIT"
    BY <1>1, <1>10
  <2>2. QED BY <1>2, <2>1 DEF ListInv
<1>12. CurInv'
  BY <1>2, <1>5, <1>6, <1>7, <1>10 DEF CurInv
<1>13. CopyInv'
  <2>1. SUFFICES ASSUME NEW q \in Producers, pc[q] = "copy"
                 PROVE  Filling(q)'
    BY <1>2 DEF CopyInv, TypeOK
  <2>2. Filling(q) /\ Last(list[q]) \in Item /\ Last(list[q]) # x
    BY <1>3, <2>1, TailItem DEF CopyInv, Filling, ProducerItem
  <2>3. QED BY <1>2, <1>10, <2>2 DEF Filling
<1>14. ItemInv'
  BY <1>1, <1>2, <1>5, <1>10 DEF ItemInv, Distributing, TypeOK
<1>15. CitemInv'
  <2>1. /\ citem'[p] = x /\ ref'[x] = item'[p] /\ status'[x] # "INIT"
        /\ x[1] \in Consumers /\ ~InList(x)'
    BY <1>1, <1>2, <1>3, <1>4, <1>5 DEF TypeOK, ConsumerItem
  <2>2. \A q \in Producers : q # p => citem'[q] = citem[q]
    BY <1>1 DEF TypeOK
  <2>3. QED BY <1>2, <1>5, <1>6, <1>7, <1>10, <2>1, <2>2 DEF CitemInv
<1>16. ConsumerInv'
  <2>1. \A c \in Consumers : \A i \in 1..Len(list[c]) : list[c][i] \in Item /\ list[c][i] # x
    BY <1>1 DEF ListInv, Fifo
  <2>2. QED BY <1>2, <1>10, <2>1 DEF ConsumerInv
<1>17. RefsAlive'
  BY <1>3, <1>5, <1>8, <1>9, <1>10 DEF RefsAlive, ConsumerItem, ProducerItem
<1>18. RefcntExact'
  <2>1. \A y : Holders(y)' = Holders(y)
    BY <1>8, <1>9, <1>10, HoldersSame DEF ConsumerItem
  <2>2. QED BY <1>3, <1>10, <2>1 DEF RefcntExact, ProducerItem
<1>19. NoLeak'
  <2>1. citem[p] = NULL BY <1>2 DEF CitemInv, HasCitem
  <2>2. \A y \in Item : (\E q \in Producers : cur'[q] = y \/ citem'[q] = y) <=>
                       (y = x \/ \E q \in Producers : cur[q] = y \/ citem[q] = y)
    BY <1>1, <1>2, <2>1, DataFifoAssumption DEF TypeOK
  <2>3. \A y \in Item : status'[y] # "INIT" <=> (y = x \/ status[y] # "INIT")
    BY <1>1 DEF TypeOK
  <2>4. QED BY <1>5, <2>2, <2>3 DEF NoLeak
<1>20. QED
  BY <1>11, <1>12, <1>13, <1>14, <1>15, <1>16, <1>17, <1>18, <1>19

\* refcnt and the number of references grow together.
LEMMA CountReferencePreserves ==
  ASSUME IInv, TypeOK', NEW p \in Producers, CountReference(p)
  PROVE  IInv'
<1> USE DEF IInv
<1>a. PICK x : x = citem[p] OBVIOUS
<1>b. PICK y : y = item[p] OBVIOUS
<1>1. /\ pc[p] = "count"
      /\ pc' = [pc EXCEPT ![p] = "add_con"]
      /\ refcnt' = [refcnt EXCEPT ![y] = refcnt[y] + 1]
      /\ UNCHANGED <<list, status, ref, cur, item, citem, ret, cpc>>
  BY <1>b DEF CountReference, Goto
<1>2. /\ x \in ConsumerItem /\ x \in Item /\ ~InList(x) /\ ref[x] = y
      /\ \A q \in Producers : citem[q] = x => q = p
  BY <1>a, <1>b, <1>1 DEF CitemInv, HasCitem, ConsumerItem
<1>3. y \in ProducerItem /\ y \in Item /\ InList(y) /\ status[y] = "READY"
  BY <1>b, <1>1 DEF ItemInv, Distributing, ProducerItem
<1>4. \A z : InList(z)' <=> InList(z) BY <1>1 DEF InList
<1>5. \A q \in Producers : /\ HasCur(q)' <=> HasCur(q)
                           /\ HasCitem(q)' <=> HasCitem(q)
  BY <1>1 DEF HasCur, HasCitem, Distributing, TypeOK
<1>6. \A z : Counted(z)' <=> (Counted(z) \/ z = x)
  <2> TAKE z
  <2>1. Released(z)' <=> Released(z) BY <1>1 DEF Released
  <2>2. (\E q \in Producers : pc'[q] = "add_con" /\ citem'[q] = z)
          <=> (z = x \/ \E q \in Producers : pc[q] = "add_con" /\ citem[q] = z)
    BY <1>a, <1>1 DEF TypeOK
  <2>3. QED BY <1>4, <2>1, <2>2 DEF Counted
<1>7. ~Counted(x) BY <1>a, <1>1, <1>2 DEF Counted
<1>8. ListInv' /\ ConsumerInv' /\ CurInv'
  BY <1>1, <1>4, <1>5 DEF ListInv, ConsumerInv, CurInv
<1>9. CopyInv' /\ ItemInv'
  BY <1>1, <1>4 DEF CopyInv, Filling, ItemInv, Distributing, TypeOK
<1>10. CitemInv' BY <1>1, <1>4, <1>5 DEF CitemInv
<1>11. RefsAlive' BY <1>1, <1>2, <1>3, <1>4, <1>6 DEF RefsAlive
<1>12. RefcntExact'
  <2>1. Holders(y)' = Holders(y) \cup {x} BY <1>1, <1>2, <1>6 DEF Holders
  <2>2. x \notin Holders(y) BY <1>7 DEF Holders
  <2>3. \A z : z # y => Holders(z)' = Holders(z) BY <1>1, <1>2, <1>6 DEF Holders
  <2>4. IsFiniteSet(Holders(y)) BY HoldersFinite
  <2>5. Cardinality(Holders(y)') = Cardinality(Holders(y)) + 1
    BY <2>1, <2>2, <2>4, FS_AddElement
  <2>6. \A z \in ProducerItem : refcnt'[z] = IF z = y THEN refcnt[y] + 1 ELSE refcnt[z]
    BY <1>1, <1>3 DEF TypeOK, ProducerItem
  <2>7. QED BY <1>3, <2>3, <2>5, <2>6 DEF RefcntExact
<1>13. NoLeak' BY <1>1, <1>4 DEF NoLeak
<1>14. QED BY <1>8, <1>9, <1>10, <1>11, <1>12, <1>13

\* The counted reference moves from the thread to the consumer's list.
LEMMA AddToConsumerPreserves ==
  ASSUME IInv, TypeOK', NEW p \in Producers, AddToConsumer(p)
  PROVE  IInv'
<1> USE DEF IInv
<1>a. PICK x : x = citem[p] OBVIOUS
<1>b. PICK c : c = x[1] OBVIOUS
<1>1. /\ pc[p] = "add_con"
      /\ pc' = [pc EXCEPT ![p] = "next_con"]
      /\ citem' = [citem EXCEPT ![p] = NULL]
      /\ list' = [list EXCEPT ![c] = Append(list[c], x)]
      /\ UNCHANGED <<status, refcnt, ref, cur, item, ret, cpc>>
  BY <1>a, <1>b DEF AddToConsumer, Goto
<1>2. /\ x \in ConsumerItem /\ x \in Item /\ ~InList(x) /\ ref[x] = item[p]
      /\ c \in Consumers /\ c \in Fifo /\ status[x] # "INIT"
      /\ \A q \in Producers : citem[q] = x => q = p
  BY <1>a, <1>b, <1>1 DEF CitemInv, HasCitem, ConsumerItem, Fifo
<1>3. list[c] \in Seq(Item) BY <1>2 DEF TypeOK
<1>4. /\ Len(list'[c]) = Len(list[c]) + 1
      /\ list'[c][Len(list[c]) + 1] = x
      /\ \A i \in 1..Len(list[c]) : list'[c][i] = list[c][i]
      /\ \A f \in Fifo : f # c => list'[f] = list[f]
  BY <1>1, <1>2, <1>3 DEF TypeOK
<1>5. \A y \in Item : InList(y)' <=> (InList(y) \/ y = x)
  <2> TAKE y \in Item
  <2>1. CASE y[1] # c BY <1>b, <1>4, <2>1, ItemFifo DEF InList
  <2>2. CASE y[1] = c
    BY <1>3, <1>4, <2>2 DEF InList
  <2>3. QED BY <2>1, <2>2
<1>6. \A q \in Producers : /\ HasCur(q)' <=> HasCur(q)
                           /\ HasCitem(q)' <=> (HasCitem(q) /\ q # p)
  BY <1>1 DEF HasCur, HasCitem, Distributing, TypeOK
<1>7. x \notin ProducerItem BY <1>2, ItemFifo
<1>8. \A q \in Producers : q \in Fifo /\ list'[q] = list[q]
  BY <1>2, <1>4, DataFifoAssumption DEF Fifo
<1>9. Counted(x) BY <1>a, <1>1 DEF Counted
<1>10. item[p] \in ProducerItem BY <1>1 DEF ItemInv, Distributing, ProducerItem
<1>11. \A y \in ConsumerItem : Released(y)' <=> Released(y)
  <2> TAKE y \in ConsumerItem
  <2>1. CASE y[1] = c /\ cpc[c] # "head"
    <3>1. list[c] # <<>> BY <1>2, <2>1 DEF ConsumerInv
    <3>2. Head(list'[c]) = Head(list[c]) BY <1>3, <1>4, <3>1
    <3>3. QED BY <1>1, <2>1, <3>2 DEF Released
  <2>2. CASE y[1] # c
    BY <1>1, <1>4, <2>2, ItemFifo DEF Released, ConsumerItem
  <2>3. CASE cpc[c] = "head" /\ y[1] = c
    BY <1>1, <2>3 DEF Released
  <2>4. QED BY <2>1, <2>2, <2>3
<1>12. \A y \in ConsumerItem : Counted(y)' <=> Counted(y)
  <2> TAKE y \in ConsumerItem
  <2>1. CASE y = x
    <3>1. ~Released(x)
      <4>1. SUFFICES ASSUME cpc[c] # "head", x = Head(list[c]) PROVE FALSE
        BY <1>b DEF Released
      <4>2. list[c] # <<>> /\ Head(list[c]) = list[c][1] /\ 1 \in 1..Len(list[c])
        BY <1>2, <4>1, HeadRef
      <4>3. QED BY <1>b, <1>2, <4>1, <4>2 DEF InList
    <3>2. QED BY <1>2, <1>5, <1>9, <1>11, <2>1, <3>1 DEF Counted
  <2>2. CASE y # x
    <3>1. (\E q \in Producers : pc'[q] = "add_con" /\ citem'[q] = y)
            <=> (\E q \in Producers : pc[q] = "add_con" /\ citem[q] = y)
      BY <1>a, <1>1, <2>2, DataFifoAssumption DEF TypeOK
    <3>2. QED BY <1>5, <1>11, <2>2, <3>1 DEF Counted, ConsumerItem
  <2>3. QED BY <2>1, <2>2
<1>13. ListInv'
  <2>1. \A i \in 1..Len(list[c]) : list[c][i] # x BY <1>b, <1>2, <1>3 DEF InList
  <2>2. QED BY <1>b, <1>1, <1>2, <1>3, <1>4, <2>1 DEF ListInv
<1>14. CurInv'
  <2>1. \A q \in Producers : HasCur(q) => cur[q] # x BY <1>7 DEF CurInv, ProducerItem
  <2>2. QED BY <1>1, <1>5, <1>6, <2>1 DEF CurInv
<1>15. CopyInv' BY <1>1, <1>8 DEF CopyInv, Filling, TypeOK
<1>16. ItemInv' BY <1>1, <1>5 DEF ItemInv, Distributing, TypeOK
<1>17. CitemInv'
  <2>1. \A q \in Producers : q # p => citem'[q] = citem[q] BY <1>1 DEF TypeOK
  <2>2. citem'[p] = NULL BY <1>1 DEF TypeOK
  <2>3. \A q \in Producers : HasCitem(q) => citem[q] # NULL
    BY DataFifoAssumption DEF CitemInv
  <2>4. QED BY <1>a, <1>1, <1>2, <1>5, <1>6, <2>1, <2>2, <2>3 DEF CitemInv
<1>18. ConsumerInv'
  <2>1. list'[c] # <<>> BY <1>3, <1>4
  <2>2. \A d \in Consumers : d # c => list'[d] = list[d] BY <1>4 DEF Fifo
  <2>3. \A i \in 1..Len(list'[c]) : ref[list'[c][i]] \in ProducerItem
    <3>1. \A i \in 1..Len(list[c]) : ref[list'[c][i]] \in ProducerItem
      BY <1>2, <1>4 DEF ConsumerInv
    <3>2. ref[list'[c][Len(list[c]) + 1]] \in ProducerItem
      BY <1>2, <1>4, <1>10
    <3>3. QED BY <1>3, <1>4, <3>1, <3>2
  <2>4. QED BY <1>1, <2>1, <2>2, <2>3 DEF ConsumerInv
<1>19. RefsAlive' BY <1>1, <1>5, <1>12 DEF RefsAlive, ProducerItem
<1>20. RefcntExact' BY <1>1, <1>12, HoldersSame DEF RefcntExact
<1>21. NoLeak'
  <2>1. \A y \in Item : (y = x \/ \E q \in Producers : cur'[q] = y \/ citem'[q] = y) <=>
                       (\E q \in Producers : cur[q] = y \/ citem[q] = y)
    BY <1>a, <1>1, DataFifoAssumption DEF TypeOK
  <2>2. QED BY <1>1, <1>2, <1>5, <2>1 DEF NoLeak
<1>22. QED
  BY <1>13, <1>14, <1>15, <1>16, <1>17, <1>18, <1>19, <1>20, <1>21

\* All references are counted when the status becomes DOING.
LEMMA SetDoingPreserves ==
  ASSUME IInv, TypeOK', NEW p \in Producers, SetDoing(p)
  PROVE  IInv'
<1> USE DEF IInv
<1>a. PICK y : y = item[p] OBVIOUS
<1>1. /\ pc[p] = "next_con"
      /\ pc' = [pc EXCEPT ![p] = "check"]
      /\ status' = [status EXCEPT ![y] = "DOING"]
      /\ item' = [item EXCEPT ![p] = NULL]
      /\ UNCHANGED <<list, refcnt, ref, cur, citem, ret, cpc>>
  BY <1>a DEF SetDoing, Goto
<1>2. y \in ProducerItem /\ y \in Item /\ y[1] = p /\ InList(y) /\ status[y] = "READY"
  BY <1>a, <1>1 DEF ItemInv, Distributing, ProducerItem
<1>3. \A z : InList(z)' <=> InList(z) BY <1>1 DEF InList
<1>4. \A q \in Producers : /\ HasCur(q)' <=> HasCur(q)
                           /\ HasCitem(q)' <=> HasCitem(q)
  BY <1>1 DEF HasCur, HasCitem, Distributing, TypeOK
<1>5. \A z : Counted(z)' <=> Counted(z)
  BY <1>1, <1>3 DEF Counted, Released, TypeOK
<1>6. \A z \in Item : status'[z] = status[z] \/ (z = y /\ status'[z] = "DOING")
  BY <1>1 DEF TypeOK
<1>7. ListInv' /\ ConsumerInv' BY <1>1, <1>6 DEF ListInv, ConsumerInv
<1>8. CurInv' BY <1>1, <1>2, <1>3, <1>4, <1>6 DEF CurInv
<1>9. CopyInv'
  <2>1. SUFFICES ASSUME NEW q \in Producers, pc[q] = "copy" PROVE Filling(q)'
    BY <1>1 DEF CopyInv, TypeOK
  <2>2. Filling(q) /\ Last(list[q]) \in Item /\ Last(list[q]) # y
    BY <1>2, <2>1, TailItem DEF CopyInv, Filling, ProducerItem
  <2>3. QED BY <1>1, <1>6, <2>2 DEF Filling
<1>10. ItemInv'
  <2>1. \A q \in Producers : q # p => pc'[q] = pc[q] /\ item'[q] = item[q]
    BY <1>1 DEF TypeOK
  <2>2. pc'[p] \notin Distributing BY <1>1 DEF Distributing, TypeOK
  <2>3. \A q \in Producers : q # p /\ pc[q] \in Distributing => item[q] # y
    BY <1>2 DEF ItemInv
  <2>4. QED BY <1>3, <1>6, <2>1, <2>2, <2>3 DEF ItemInv
<1>11. CitemInv'
  <2>1. \A q \in Producers : HasCitem(q) => item'[q] = item[q]
    BY <1>1 DEF TypeOK, HasCitem
  <2>2. QED BY <1>1, <1>3, <1>4, <1>6, <2>1 DEF CitemInv
<1>12. RefsAlive' BY <1>1, <1>3, <1>5, <1>6 DEF RefsAlive, ProducerItem
<1>13. RefcntExact' BY <1>1, <1>5, HoldersSame DEF RefcntExact
<1>14. NoLeak' BY <1>1, <1>2, <1>3, <1>6 DEF NoLeak
<1>15. QED BY <1>7, <1>8, <1>9, <1>10, <1>11, <1>12, <1>13, <1>14

\* datafifo_producer_remove_check takes only buffers nobody refers to off the
\* list, and never the frame a thread is filling or handing out.
LEMMA RemoveCheckEffect ==
  ASSUME IInv, NEW p \in Producers, RemoveCheck(p)
  PROVE  \E gone \in SUBSET ProducerItem :
           /\ \A y \in gone : status[y] = "DOING" /\ Holders(y) = {}
           /\ \A y \in Item : InList(y)' <=> (InList(y) /\ y \notin gone)
           /\ \A y \in Item : status'[y] = IF y \in gone THEN "INIT" ELSE status[y]
           /\ \A f \in Fifo : f # p => list'[f] = list[f]
           /\ (list[p] # <<>> /\ Last(list[p]) \notin gone) =>
                 (list'[p] # <<>> /\ Last(list'[p]) = Last(list[p]))
           /\ list'[p] # <<>> => (list[p] # <<>> /\ Last(list'[p]) = Last(list[p]))
           /\ ListInv'
<1> USE DEF IInv
<1>1. PICK n \in 0..Len(list[p]) :
        /\ \A i \in 1..n : Done(list[p][i])
        /\ list' = [list EXCEPT ![p] = SubSeq(@, n + 1, Len(@))]
        /\ status' = [x \in Item |->
                        IF \E i \in 1..n : x = list[p][i] THEN "INIT" ELSE status[x]]
  BY DEF RemoveCheck
<1>2. p \in Fifo /\ list[p] \in Seq(Item) /\ Len(list[p]) \in Nat
  BY DEF Fifo, TypeOK
<1>3. PICK m : m = Len(list[p]) OBVIOUS
<1>4. /\ Len(list'[p]) = m - n
      /\ \A i \in 1..(m - n) : list'[p][i] = list[p][n + i] /\ n + i \in 1..m
      /\ \A i \in 1..m : i > n => i - n \in 1..(m - n) /\ list[p][i] = list'[p][i - n]
      /\ \A f \in Fifo : f # p => list'[f] = list[f]
  <2>1. list'[p] = SubSeq(list[p], n + 1, Len(list[p]))
        /\ \A f \in Fifo : f # p => list'[f] = list[f]
    BY <1>1, <1>2 DEF TypeOK
  <2>2. PICK s \in Seq(Item) : s = list[p] BY <1>2
  <2>3. n \in 0..Len(s) /\ Len(s) \in Nat BY <1>2, <2>2
  <2>4. PICK t : t = SubSeq(s, n + 1, Len(s)) OBVIOUS
  <2>5. /\ Len(t) = Len(s) - n
        /\ \A i \in 1..Len(t) : t[i] = s[n + i] /\ n + i \in 1..Len(s)
        /\ \A i \in 1..Len(s) : i > n => i - n \in 1..Len(t) /\ s[i] = t[i - n]
    BY <2>3, <2>4, DropFirst
  <2>6. QED BY <1>3, <2>1, <2>2, <2>4, <2>5
<1>5. PICK gone : gone = {list[p][i] : i \in 1..n} OBVIOUS
<1>6. gone \in SUBSET ProducerItem /\ \A y \in gone : y[1] = p
  BY <1>2, <1>5 DEF ListInv, ProducerItem
<1>7. \A y \in gone : status[y] = "DOING" /\ Holders(y) = {}
  <2>1. \A y \in gone : status[y] = "DOING" /\ refcnt[y] = 0 BY <1>1, <1>5 DEF Done
  <2>2. QED BY <1>6, <2>1, HoldersFinite, FS_EmptySet DEF RefcntExact
<1>8. \A y \in Item : InList(y)' <=> (InList(y) /\ y \notin gone)
  <2> TAKE y \in Item
  <2>1. CASE y[1] # p
    BY <1>4, <1>6, <2>1, ItemFifo DEF InList
  <2>2. CASE y[1] = p
    <3>1. ASSUME InList(y)' PROVE InList(y) /\ y \notin gone
      <4>1. PICK i \in 1..(m - n) : list'[p][i] = y BY <1>4, <2>2, <3>1 DEF InList
      <4>2. list[p][n + i] = y /\ n + i \in 1..m BY <1>4, <4>1
      <4>3. InList(y) BY <1>3, <2>2, <4>2 DEF InList
      <4>4. \A j \in 1..n : list[p][j] # y BY <1>2, <1>3, <4>1, <4>2 DEF ListInv
      <4>5. QED BY <1>5, <4>3, <4>4
    <3>2. ASSUME InList(y), y \notin gone PROVE InList(y)'
      <4>1. PICK i \in 1..m : list[p][i] = y BY <1>3, <2>2, <3>2 DEF InList
      <4>2. i > n BY <1>2, <1>3, <1>5, <3>2, <4>1
      <4>3. QED BY <1>4, <2>2, <4>1, <4>2 DEF InList
    <3>3. QED BY <3>1, <3>2
  <2>3. QED BY <2>1, <2>2
<1>9. \A y \in Item : status'[y] = IF y \in gone THEN "INIT" ELSE status[y]
  BY <1>1, <1>5
<1>10. ASSUME list[p] # <<>>, Last(list[p]) \notin gone
       PROVE  list'[p] # <<>> /\ Last(list'[p]) = Last(list[p])
  <2>1. m \in 1..m /\ m > n BY <1>2, <1>3, <1>5, <1>10 DEF Last
  <2>2. list[p][m] = list'[p][m - n] /\ m - n >= 1 BY <1>4, <2>1
  <2>3. QED BY <1>3, <1>4, <2>2 DEF Last
<1>11. ListInv'
  <2> SUFFICES ASSUME NEW f \in Fifo
               PROVE  /\ \A i \in 1..Len(list'[f]) :
                           /\ list'[f][i] \in Item /\ list'[f][i][1] = f
                           /\ status'[list'[f][i]] # "INIT"
                      /\ \A i, j \in 1..Len(list'[f]) : list'[f][i] = list'[f][j] => i = j
    BY DEF ListInv
  <2>1. CASE f # p
    <3>1. \A i \in 1..Len(list[f]) : list[f][i] \notin gone
      BY <1>6, <2>1, <1>2 DEF ListInv
    <3>2. list'[f] = list[f] BY <1>4, <2>1
    <3>3. \A i \in 1..Len(list[f]) : list[f][i] \in Item /\ status'[list[f][i]] # "INIT"
      BY <1>9, <3>1 DEF ListInv
    <3>4. QED BY <3>2, <3>3 DEF ListInv
  <2>2. CASE f = p
    <3>1. \A i \in 1..(m - n) : list'[p][i] \in Item /\ list'[p][i][1] = p
      BY <1>2, <1>3, <1>4 DEF ListInv
    <3>2. \A i \in 1..(m - n) : list'[p][i] \notin gone
      <4>1. \A i \in 1..(m - n) : \A j \in 1..n : n + i # j /\ j \in 1..m
        BY <1>2, <1>3
      <4>2. QED BY <1>2, <1>3, <1>4, <1>5, <4>1 DEF ListInv
    <3>3. \A i \in 1..(m - n) : status'[list'[p][i]] # "INIT"
      <4> TAKE i \in 1..(m - n)
      <4>1. status'[list'[p][i]] = status[list'[p][i]] BY <1>9, <3>1, <3>2
      <4>2. list'[p][i] = list[p][n + i] /\ n + i \in 1..Len(list[p]) BY <1>3, <1>4
      <4>3. status[list[p][n + i]] # "INIT" BY <1>2, <4>2 DEF ListInv
      <4>4. QED BY <4>1, <4>2, <4>3
    <3>4. \A i, j \in 1..(m - n) : list'[p][i] = list'[p][j] => i = j
      <4> TAKE i, j \in 1..(m - n)
      <4> HAVE list'[p][i] = list'[p][j]
      <4>1. /\ n + i \in 1..Len(list[p]) /\ n + j \in 1..Len(list[p])
            /\ list[p][n + i] = list[p][n + j]
        BY <1>3, <1>4
      <4>2. n + i = n + j BY <1>2, <4>1 DEF ListInv
      <4>3. QED BY <4>2
    <3>5. QED BY <1>4, <2>2, <3>1, <3>3, <3>4
  <2>3. QED BY <2>1, <2>2
<1>12. ASSUME list'[p] # <<>>
       PROVE  list[p] # <<>> /\ Last(list'[p]) = Last(list[p])
  <2>1. list'[p] \in Seq(Item) BY RemoveCheckType, <1>2 DEF TypeOK
  <2>2. Len(list'[p]) # 0 BY <1>12, <2>1
  <2>3. m - n \in 1..(m - n) /\ m > 0 BY <1>2, <1>3, <1>4, <2>2
  <2>4. list'[p][m - n] = list[p][n + (m - n)] /\ n + (m - n) = m BY <1>2, <1>3, <1>4, <2>3
  <2>5. list[p] # <<>> BY <1>2, <1>3, <2>3
  <2>6. QED BY <1>3, <1>4, <2>4, <2>5 DEF Last
<1>13. QED BY <1>4, <1>6, <1>7, <1>8, <1>9, <1>10, <1>11, <1>12

\* The two threads that call datafifo_producer_remove_check.
LEMMA RemoveCheckPreserves ==
  ASSUME IInv, TypeOK', NEW p \in Producers, RemoveCheck(p),
         UNCHANGED <<refcnt, ref, cur, item, citem>>,
         \A q \in Producers : /\ HasCur(q)' <=> HasCur(q)
                              /\ HasCitem(q)' <=> HasCitem(q)
                              /\ pc'[q] = "copy" => pc[q] = "copy"
                              /\ pc'[q] \in Distributing => pc[q] \in Distributing
                              /\ pc'[q] = "add_con" <=> pc[q] = "add_con",
         \A c \in Consumers : cpc'[c] = "head" <=> cpc[c] = "head"
  PROVE  IInv'
<1> USE DEF IInv
<1>1. PICK gone \in SUBSET ProducerItem :
           /\ \A y \in gone : status[y] = "DOING" /\ Holders(y) = {}
           /\ \A y \in Item : InList(y)' <=> (InList(y) /\ y \notin gone)
           /\ \A y \in Item : status'[y] = IF y \in gone THEN "INIT" ELSE status[y]
           /\ \A f \in Fifo : f # p => list'[f] = list[f]
           /\ (list[p] # <<>> /\ Last(list[p]) \notin gone) =>
                 (list'[p] # <<>> /\ Last(list'[p]) = Last(list[p]))
           /\ ListInv'
  BY RemoveCheckEffect
<1>2. \A c \in Consumers : c \in Fifo /\ list'[c] = list[c]
  BY <1>1, DataFifoAssumption DEF Fifo
<1>3. \A x \in ConsumerItem : x \in Item /\ x \notin gone BY ItemFifo DEF ConsumerItem
<1>4. \A x \in ConsumerItem : Counted(x)' <=> Counted(x)
  <2> TAKE x \in ConsumerItem
  <2>1. InList(x)' <=> InList(x) BY <1>1, <1>3
  <2>2. Released(x)' <=> Released(x) BY <1>2 DEF Released, ConsumerItem
  <2>3. QED BY <2>1, <2>2 DEF Counted
<1>5. CurInv' BY <1>1 DEF CurInv
<1>6. CopyInv'
  <2>1. SUFFICES ASSUME NEW q \in Producers, pc[q] = "copy" PROVE Filling(q)'
    BY DEF CopyInv
  <2>2. /\ Filling(q) /\ Last(list[q]) \in Item /\ Last(list[q]) \notin gone
        /\ list[q] # <<>> /\ q \in Fifo
    BY <1>1, <2>1, TailItem DEF CopyInv, Filling, ProducerItem, Fifo
  <2>3. list'[q] # <<>> /\ Last(list'[q]) = Last(list[q])
    BY <1>1, <2>2
  <2>4. QED BY <1>1, <2>2, <2>3 DEF Filling
<1>7. ItemInv' BY <1>1 DEF ItemInv
<1>8. CitemInv'
  <2>1. \A q \in Producers : HasCitem(q) => citem[q] \notin gone
    BY <1>3 DEF CitemInv, ConsumerItem
  <2>2. QED BY <1>1, <2>1 DEF CitemInv
<1>9. ConsumerInv' BY <1>2 DEF ConsumerInv
<1>10. RefsAlive'
  <2>1. \A x \in ConsumerItem : Counted(x) => ref[x] \notin gone
    BY <1>1 DEF Holders
  <2>2. QED BY <1>1, <1>4, <2>1 DEF RefsAlive, ProducerItem
<1>11. RefcntExact' BY <1>4, HoldersSame DEF RefcntExact
<1>12. NoLeak'
  <2>1. \A q \in Producers : cur[q] \notin gone /\ citem[q] \notin gone
    <3> TAKE q \in Producers
    <3>1. cur[q] \notin gone
      <4>1. NULL \notin gone BY DataFifoAssumption DEF ProducerItem
      <4>2. CASE HasCur(q)
        <5>1. status[cur[q]] = "FILLING" BY <4>2 DEF CurInv
        <5>2. QED BY <1>1, <5>1
      <4>3. CASE ~HasCur(q) BY <4>1, <4>3 DEF CurInv
      <4>4. QED BY <4>2, <4>3
    <3>2. citem[q] \notin gone
      BY <1>3, DataFifoAssumption DEF CitemInv, ConsumerItem, ProducerItem
    <3>3. QED BY <3>1, <3>2
  <2>2. QED BY <1>1, <2>1 DEF NoLeak
<1>13. QED BY <1>1, <1>5, <1>6, <1>7, <1>8, <1>9, <1>10, <1>11, <1>12

\* refcnt and the number of references shrink together.
LEMMA ReleasePreserves ==
  ASSUME IInv, TypeOK', NEW c \in Consumers, Release(c)
  PROVE  IInv'
<1> USE DEF IInv
<1>a. PICK x : x = Head(list[c]) OBVIOUS
<1>b. PICK y : y = ref[x] OBVIOUS
<1>1. /\ cpc[c] = "head" /\ list[c] # <<>>
      /\ cpc' = [cpc EXCEPT ![c] = "check"]
      /\ refcnt' = [refcnt EXCEPT ![y] = refcnt[y] - 1]
      /\ UNCHANGED <<list, status, ref, cur, item, citem, ret, pc>>
  BY <1>a, <1>b DEF Release, prodVars
<1>2. /\ x \in ConsumerItem /\ x[1] = c /\ InList(x) /\ y \in ProducerItem
  BY <1>a, <1>b, <1>1, HeadRef DEF InList
<1>3. \A z : InList(z)' <=> InList(z) BY <1>1 DEF InList
<1>4. Counted(x) BY <1>1, <1>2 DEF Counted, Released
<1>5. \A q \in Producers : citem[q] # x
  BY <1>2, DataFifoAssumption DEF CitemInv, ConsumerItem
<1>6. \A z \in ConsumerItem : Counted(z)' <=> (Counted(z) /\ z # x)
  <2> TAKE z \in ConsumerItem
  <2>1. Released(z)' <=> (Released(z) \/ z = x)
    <3>1. z[1] \in Consumers BY DEF ConsumerItem
    <3>2. CASE z[1] = c
      BY <1>a, <1>1, <1>2, <3>2 DEF Released, TypeOK
    <3>3. CASE z[1] # c
      BY <1>1, <1>2, <3>1, <3>3 DEF Released, TypeOK
    <3>4. QED BY <3>2, <3>3
  <2>2. QED BY <1>1, <1>3, <1>5, <2>1 DEF Counted
<1>7. ListInv' /\ ItemInv' /\ CopyInv'
  BY <1>1, <1>3 DEF ListInv, ItemInv, CopyInv, Filling
<1>8. CurInv' /\ CitemInv'
  BY <1>1, <1>3 DEF CurInv, HasCur, CitemInv, HasCitem
<1>9. ConsumerInv' BY <1>1 DEF ConsumerInv, TypeOK
<1>10. RefsAlive' BY <1>1, <1>3, <1>6 DEF RefsAlive
<1>11. RefcntExact'
  <2>1. Holders(y)' = Holders(y) \ {x} BY <1>b, <1>1, <1>2, <1>6 DEF Holders
  <2>2. x \in Holders(y) BY <1>b, <1>2, <1>4 DEF Holders
  <2>3. \A z : z # y => Holders(z)' = Holders(z) BY <1>b, <1>1, <1>2, <1>6 DEF Holders
  <2>4. IsFiniteSet(Holders(y)) BY HoldersFinite
  <2>5. Cardinality(Holders(y)') = Cardinality(Holders(y)) - 1
    BY <2>1, <2>2, <2>4, FS_RemoveElement
  <2>6. \A z \in ProducerItem : refcnt'[z] = IF z = y THEN refcnt[y] - 1 ELSE refcnt[z]
    BY <1>1, <1>2 DEF TypeOK, ProducerItem
  <2>7. QED BY <1>2, <2>3, <2>5, <2>6 DEF RefcntExact
<1>12. NoLeak' BY <1>1, <1>3 DEF NoLeak
<1>13. QED BY <1>7, <1>8, <1>9, <1>10, <1>11, <1>12

\* The consumer's item leaves the list and goes back to the pool at once.
LEMMA UnlinkPreserves ==
  ASSUME IInv, TypeOK', NEW c \in Consumers, Unlink(c)
  PROVE  IInv'
<1> USE DEF IInv
<1>a. PICK x : x = Head(list[c]) OBVIOUS
<1>1. /\ cpc[c] = "unlink"
      /\ cpc' = [cpc EXCEPT ![c] = "head"]
      /\ status' = [status EXCEPT ![x] = "INIT"]
      /\ list' = [list EXCEPT ![c] = Tail(list[c])]
      /\ UNCHANGED <<refcnt, ref, cur, item, citem, ret, pc>>
  BY <1>a DEF Unlink, prodVars
<1>2. /\ x \in ConsumerItem /\ x \in Item /\ x \notin ProducerItem /\ x[1] = c
      /\ InList(x) /\ list[c] # <<>> /\ x = list[c][1] /\ 1 \in 1..Len(list[c])
  BY <1>a, <1>1, HeadRef, ItemFifo DEF InList, ConsumerItem
<1>3. c \in Fifo /\ list[c] \in Seq(Item) BY DEF Fifo, TypeOK
<1>4. /\ Len(list'[c]) = Len(list[c]) - 1
      /\ \A i \in 1..Len(list'[c]) : list'[c][i] = list[c][i + 1] /\ i + 1 \in 1..Len(list[c])
      /\ \A f \in Fifo : f # c => list'[f] = list[f]
  <2>1. list'[c] = Tail(list[c]) /\ \A f \in Fifo : f # c => list'[f] = list[f]
    BY <1>1, <1>3 DEF TypeOK
  <2>2. QED BY <1>2, <1>3, <2>1
<1>5. \A i \in 1..Len(list[c]) : i # 1 => i - 1 \in 1..Len(list'[c]) /\ list'[c][i - 1] = list[c][i]
  BY <1>3, <1>4
<1>6. \A y \in Item : InList(y)' <=> (InList(y) /\ y # x)
  <2> TAKE y \in Item
  <2>1. CASE y[1] # c
    BY <1>2, <1>4, <2>1, ItemFifo DEF InList
  <2>2. CASE y[1] = c
    <3>1. ASSUME InList(y)' PROVE InList(y) /\ y # x
      <4>1. PICK i \in 1..Len(list'[c]) : list'[c][i] = y BY <2>2, <3>1 DEF InList
      <4>2. list[c][i + 1] = y /\ i + 1 \in 1..Len(list[c]) /\ i + 1 # 1
        BY <1>3, <1>4, <4>1
      <4>3. y # x BY <1>2, <1>3, <4>2 DEF ListInv
      <4>4. QED BY <2>2, <4>2, <4>3 DEF InList
    <3>2. ASSUME InList(y), y # x PROVE InList(y)'
      <4>1. PICK i \in 1..Len(list[c]) : list[c][i] = y BY <2>2, <3>2 DEF InList
      <4>2. i # 1 BY <1>2, <3>2, <4>1
      <4>3. QED BY <1>5, <2>2, <4>1, <4>2 DEF InList
    <3>3. QED BY <3>1, <3>2
  <2>3. QED BY <2>1, <2>2
<1>7. \A q \in Producers : citem[q] # x /\ cur[q] # x
  <2> TAKE q \in Producers
  <2>1. citem[q] # x BY <1>2, DataFifoAssumption DEF CitemInv
  <2>2. cur[q] # x BY <1>2, DataFifoAssumption DEF CurInv, ProducerItem
  <2>3. QED BY <2>1, <2>2
<1>8. \A y \in ConsumerItem : Counted(y)' <=> Counted(y)
  <2> TAKE y \in ConsumerItem
  <2>1. CASE y = x
    <3>1. Released(x) BY <1>a, <1>1, <1>2 DEF Released
    <3>2. ~Counted(x) BY <1>7, <3>1 DEF Counted
    <3>3. ~Counted(x)' BY <1>1, <1>2, <1>6, <1>7 DEF Counted
    <3>4. QED BY <2>1, <3>2, <3>3
  <2>2. CASE y # x
    <3>1. Released(y)' <=> Released(y)
      <4>1. CASE y[1] = c
        BY <1>a, <1>1, <2>2, <4>1 DEF Released, TypeOK
      <4>2. CASE y[1] # c
        BY <1>1, <1>4, <4>2, ItemFifo DEF Released, TypeOK, ConsumerItem
      <4>3. QED BY <4>1, <4>2
    <3>2. QED BY <1>1, <1>6, <2>2, <3>1 DEF Counted, ConsumerItem
  <2>3. QED BY <2>1, <2>2
<1>9. \A y \in Item : status'[y] = IF y = x THEN "INIT" ELSE status[y]
  BY <1>1 DEF TypeOK
<1>10. ListInv'
  <2> SUFFICES ASSUME NEW f \in Fifo
               PROVE  /\ \A i \in 1..Len(list'[f]) :
                           /\ list'[f][i] \in Item /\ list'[f][i][1] = f
                           /\ status'[list'[f][i]] # "INIT"
                      /\ \A i, j \in 1..Len(list'[f]) : list'[f][i] = list'[f][j] => i = j
    BY DEF ListInv
  <2>1. CASE f # c
    <3>1. list'[f] = list[f] BY <1>4, <2>1
    <3>2. \A i \in 1..Len(list[f]) : list[f][i] # x BY <1>2, <2>1 DEF ListInv
    <3>3. QED BY <1>9, <3>1, <3>2 DEF ListInv
  <2>2. CASE f = c
    <3>1. ASSUME NEW i \in 1..Len(list'[c])
          PROVE  /\ list'[c][i] \in Item /\ list'[c][i][1] = c
                 /\ status'[list'[c][i]] # "INIT"
      <4>1. list'[c][i] = list[c][i + 1] /\ i + 1 \in 1..Len(list[c]) /\ i + 1 # 1
        BY <1>3, <1>4
      <4>2. list[c][i + 1] # x BY <1>2, <1>3, <4>1 DEF ListInv
      <4>3. QED BY <1>3, <1>9, <4>1, <4>2 DEF ListInv
    <3>2. ASSUME NEW i \in 1..Len(list'[c]), NEW j \in 1..Len(list'[c]),
                 list'[c][i] = list'[c][j]
          PROVE  i = j
      <4>1. /\ i + 1 \in 1..Len(list[c]) /\ j + 1 \in 1..Len(list[c])
            /\ list[c][i + 1] = list[c][j + 1]
        BY <1>4, <3>2
      <4>2. i + 1 = j + 1 BY <1>3, <4>1 DEF ListInv
      <4>3. QED BY <1>3, <1>4, <4>2
    <3>3. QED BY <2>2, <3>1, <3>2
  <2>3. QED BY <2>1, <2>2
<1>11. CurInv'
  BY <1>1, <1>6, <1>7, <1>9 DEF CurInv, HasCur
<1>12. CopyInv'
  <2>1. SUFFICES ASSUME NEW q \in Producers, pc[q] = "copy" PROVE Filling(q)'
    BY <1>1 DEF CopyInv
  <2>2. /\ Filling(q) /\ Last(list[q]) \in Item /\ Last(list[q]) # x
        /\ q \in Fifo /\ q # c
    BY <1>2, <2>1, TailItem, DataFifoAssumption DEF CopyInv, Filling, ProducerItem, Fifo
  <2>3. QED BY <1>4, <1>9, <2>2 DEF Filling
<1>13. ItemInv'
  BY <1>1, <1>2, <1>6, <1>9 DEF ItemInv, ProducerItem
<1>14. CitemInv'
  BY <1>1, <1>6, <1>7, <1>9 DEF CitemInv, HasCitem
<1>15. ConsumerInv'
  <2>1. \A d \in Consumers : d # c => list'[d] = list[d] /\ cpc'[d] = cpc[d]
    BY <1>1, <1>4 DEF Fifo, TypeOK
  <2>2. cpc'[c] = "head" BY <1>1 DEF TypeOK
  <2>3. \A i \in 1..Len(list'[c]) : ref[list'[c][i]] \in ProducerItem
    BY <1>4 DEF ConsumerInv
  <2>4. QED BY <1>1, <2>1, <2>2, <2>3 DEF ConsumerInv
<1>16. RefsAlive'
  BY <1>1, <1>2, <1>6, <1>8, <1>9 DEF RefsAlive, ProducerItem
<1>17. RefcntExact' BY <1>1, <1>8, HoldersSame DEF RefcntExact
<1>18. NoLeak'
  BY <1>1, <1>6, <1>7, <1>9 DEF NoLeak
<1>19. QED
  BY <1>10, <1>11, <1>12, <1>13, <1>14, <1>15, <1>16, <1>17, <1>18

-----------------------------------------------------------------------------
(* The theorems *)

\* Nothing is allocated or referenced at the start.
LEMMA InitIInv == Init => IInv
<1> SUFFICES ASSUME Init PROVE IInv OBVIOUS
<1> USE DEF Init
<1>1. TypeOK BY InitTypeOK
<1>2. ListInv /\ ConsumerInv BY DEF ListInv, ConsumerInv, Fifo
<1>3. CurInv /\ CopyInv /\ ItemInv /\ CitemInv
  BY DEF CurInv, HasCur, CopyInv, ItemInv, CitemInv, HasCitem, Distributing
<1>4. \A x \in Item : ~InList(x) BY ItemFifo DEF InList
<1>5. \A x \in ConsumerItem : ~Counted(x) BY <1>4 DEF Counted, ConsumerItem
<1>6. RefsAlive BY <1>5 DEF RefsAlive
<1>7. RefcntExact
  <2>1. \A y : Holders(y) = {} BY <1>5 DEF Holders
  <2>2. QED BY <2>1, FS_EmptySet DEF RefcntExact, ProducerItem
<1>8. NoLeak BY <1>4, DataFifoAssumption DEF NoLeak
<1>9. QED BY <1>1, <1>2, <1>3, <1>6, <1>7, <1>8 DEF IInv

\* The invariant is inductive: one case per action of the two kinds of thread.
LEMMA NextIInv == IInv /\ [Next]_vars => IInv'
<1> SUFFICES ASSUME IInv, [Next]_vars PROVE IInv' OBVIOUS
<1>1. CASE UNCHANGED vars
  <2>1. UNCHANGED <<list, status, refcnt, ref, len, flags, data, pc, call, cur, item,
                    con, citem, ret, cpc, crashed>>
    BY <1>1 DEF vars, fifoVars, prodVars
  <2>2. TypeOK' BY <2>1 DEF IInv, TypeOK
  <2>3. \A x : InList(x)' <=> InList(x) BY <2>1 DEF InList
  <2>4. \A x : Counted(x)' <=> Counted(x) BY <2>1, <2>3 DEF Counted, Released
  <2>5. RefcntExact' BY <2>1, <2>4, HoldersSame DEF IInv, RefcntExact
  <2>6. RefsAlive' BY <2>1, <2>3, <2>4 DEF IInv, RefsAlive
  <2>7. NoLeak' BY <2>1, <2>3 DEF IInv, NoLeak
  <2>8. ListInv' /\ ConsumerInv' /\ CopyInv'
    BY <2>1 DEF IInv, ListInv, ConsumerInv, CopyInv, Filling
  <2>9. CurInv' /\ ItemInv' /\ CitemInv'
    BY <2>1, <2>3 DEF IInv, CurInv, HasCur, ItemInv, CitemInv, HasCitem
  <2>10. QED BY <2>2, <2>5, <2>6, <2>7, <2>8, <2>9 DEF IInv
<1>2. CASE Next
  <2>1. TypeOK' BY <1>2, NextTypeOK DEF IInv
  <2>2. ASSUME NEW p \in Producers, NEW a \in Calls, Call(p, a) PROVE IInv'
    <3>1. /\ UNCHANGED <<list, status, refcnt, ref, cur, item, citem, ret, cpc>>
          /\ pc[p] = "idle"
          /\ pc' = [pc EXCEPT ![p] = IF "NEWFRAME" \in a.flags THEN "alloc" ELSE "tail"]
      BY <2>2 DEF Call, Goto, fifoVars
    <3>2. pc \in [Producers -> ProducerPc] BY DEF IInv, TypeOK
    <3>3. pc'[p] \in {"alloc", "tail"} BY <3>1, <3>2
    <3>4. \A q \in Producers : q # p => pc'[q] = pc[q] BY <3>1, <3>2
    <3>5. QED BY <2>1, <3>1, <3>3, <3>4, QuietPreserves
  <2>3. ASSUME NEW p \in Producers, CheckTail(p) PROVE IInv'
    <3>1. /\ UNCHANGED <<list, status, refcnt, ref, cur, item, citem, ret, cpc>>
          /\ pc[p] = "tail"
          /\ \/ pc' = pc
             \/ pc' = [pc EXCEPT ![p] = IF Filling(p) THEN "copy" ELSE "idle"]
      BY <2>3 DEF CheckTail, Goto, fifoVars
    <3>2. pc \in [Producers -> ProducerPc] BY DEF IInv, TypeOK
    <3>3. /\ pc'[p] \in {"tail", "copy", "idle"}
          /\ pc'[p] = "copy" => Filling(p)
      BY <3>1, <3>2
    <3>4. \A q \in Producers : q # p => pc'[q] = pc[q] BY <3>1, <3>2
    <3>5. QED BY <2>1, <3>1, <3>3, <3>4, QuietPreserves
  <2>4. ASSUME NEW p \in Producers, ProducerCheck(p) PROVE IInv'
    <3>1. /\ pc[p] = "check" /\ pc' = [pc EXCEPT ![p] = ret[p]]
          /\ RemoveCheck(p) /\ UNCHANGED <<refcnt, ref, cur, item, citem, ret, cpc>>
      BY <2>4 DEF ProducerCheck, Goto
    <3>2. \A q \in Producers : /\ HasCur(q)' <=> HasCur(q)
                               /\ HasCitem(q)' <=> HasCitem(q)
                               /\ pc'[q] = "copy" => pc[q] = "copy"
                               /\ pc'[q] \in Distributing => pc[q] \in Distributing
                               /\ pc'[q] = "add_con" <=> pc[q] = "add_con"
      BY <3>1 DEF IInv, TypeOK, HasCur, HasCitem, Distributing
    <3>3. QED BY <2>1, <3>1, <3>2, RemoveCheckPreserves
  <2>5. ASSUME NEW c \in Consumers, ConsumerCheck(c) PROVE IInv'
    <3>1. PICK p : p = ref[Head(list[c])][1] OBVIOUS
    <3>2. /\ cpc[c] = "check" /\ cpc' = [cpc EXCEPT ![c] = "unlink"]
          /\ RemoveCheck(p) /\ UNCHANGED <<refcnt, ref, cur, item, citem, ret, pc>>
      BY <2>5, <3>1 DEF ConsumerCheck, prodVars
    <3>3. p \in Producers
      BY <3>1, <3>2, HeadRef DEF IInv, ProducerItem
    <3>4. \A d \in Consumers : cpc'[d] = "head" <=> cpc[d] = "head"
      BY <3>2 DEF IInv, TypeOK
    <3>5. \A q \in Producers : (HasCur(q)' <=> HasCur(q)) /\ (HasCitem(q)' <=> HasCitem(q))
      BY <3>2 DEF HasCur, HasCitem
    <3>6. QED BY <2>1, <3>2, <3>3, <3>4, <3>5, RemoveCheckPreserves
  <2>6. QED
    BY <1>2, <2>1, <2>2, <2>3, <2>4, <2>5, AllocFramePreserves, FlushPreserves,
       LinkFramePreserves, CopyPacketPreserves, AllocForConsumerPreserves,
       CountReferencePreserves, AddToConsumerPreserves, SetDoingPreserves,
       ReleasePreserves, UnlinkPreserves DEF Next, ProducerStep, ConsumerStep
<1>3. QED BY <1>1, <1>2

\* The invariant holds in every reachable state of datafifo.c.
THEOREM Invariance == Spec => []IInv
<1>1. Init => IInv BY InitIInv
<1>2. IInv /\ [Next]_vars => IInv' BY NextIInv
<1>3. QED BY <1>1, <1>2, PTL DEF Spec

\* Type correctness of datafifo.c.
THEOREM TypeCorrect == Spec => []TypeOK
<1>1. IInv => TypeOK BY DEF IInv
<1>2. QED BY <1>1, Invariance, PTL

\* refcnt is exact whatever the number of threads and whatever the pools.
THEOREM ReferenceCount == Spec => []RefcntExact
<1>1. IInv => RefcntExact BY DEF IInv
<1>2. QED BY <1>1, Invariance, PTL

\* No consumer ever reads a buffer that is back in its pool.
THEOREM NoUseAfterFree == Spec => []RefsAlive
<1>1. IInv => RefsAlive BY DEF IInv
<1>2. QED BY <1>1, Invariance, PTL

\* No item is lost from its pool.
THEOREM NoItemLost == Spec => []NoLeak
<1>1. IInv => NoLeak BY DEF IInv
<1>2. QED BY <1>1, Invariance, PTL

\* What BufferStable says of one step.
FrameKept ==
  \A x \in ConsumerItem : (Counted(x) /\ Counted(x)') =>
    /\ ref'[x] = ref[x]
    /\ \A n \in 1..len[x] : data'[ref[x]][n] = data[ref[x]][n]

\* No step changes a frame that is referred to before and after it.
LEMMA NextFrameKept == IInv /\ [Next]_vars => FrameKept
<1> SUFFICES ASSUME IInv, [Next]_vars,
                    NEW x \in ConsumerItem, Counted(x)
             PROVE  /\ ref'[x] = ref[x]
                    /\ \A n \in 1..len[x] : data'[ref[x]][n] = data[ref[x]][n]
  BY DEF FrameKept
<1> USE DEF IInv
<1>1. /\ x \in Item /\ status[x] # "INIT" /\ ref[x] \in ProducerItem
      /\ status[ref[x]] \in {"READY", "DOING"}
  <2>1. x \in Item /\ x[1] \in Fifo BY ItemFifo DEF ConsumerItem
  <2>2. InList(x) \/ \E p \in Producers : citem[p] = x BY DEF Counted
  <2>3. QED BY <2>1, <2>2 DEF NoLeak, RefsAlive
<1>2. CASE UNCHANGED <<ref, data>> BY <1>2
<1>3. ASSUME NEW p \in Producers, AllocFrame(p) PROVE ref'[x] = ref[x] /\ data' = data
  BY <1>1, <1>3 DEF AllocFrame, FirstUnused, TypeOK
<1>4. ASSUME NEW p \in Producers, AllocForConsumer(p) PROVE ref'[x] = ref[x] /\ data' = data
  BY <1>1, <1>4 DEF AllocForConsumer, FirstUnused, TypeOK
<1>5. ASSUME NEW p \in Producers, CopyPacket(p)
      PROVE  ref'[x] = ref[x] /\ data'[ref[x]] = data[ref[x]]
  <2>1. ref[x] # Last(list[p])
    BY <1>1, <1>5 DEF CopyPacket, CopyInv, Filling
  <2>2. \/ data' = data
        \/ \E d : data' = [data EXCEPT ![Last(list[p])] = d]
    BY <1>5 DEF CopyPacket, FrameEnd
  <2>3. ref' = ref BY <1>5 DEF CopyPacket
  <2>4. QED BY <1>1, <2>1, <2>2, <2>3 DEF TypeOK
<1>6. CASE UNCHANGED vars BY <1>6, <1>2 DEF vars, fifoVars
<1>7. CASE Next
  <2>1. ASSUME NEW p \in Producers, NEW a \in Calls, Call(p, a) PROVE UNCHANGED <<ref, data>>
    BY <2>1 DEF Call, fifoVars
  <2>2. ASSUME NEW p \in Producers,
               Flush(p) \/ LinkFrame(p) \/ CheckTail(p) \/ CountReference(p)
                 \/ AddToConsumer(p) \/ SetDoing(p) \/ ProducerCheck(p)
        PROVE  UNCHANGED <<ref, data>>
    BY <2>2 DEF Flush, LinkFrame, CheckTail, CountReference, AddToConsumer, SetDoing,
       ProducerCheck, fifoVars
  <2>3. ASSUME NEW c \in Consumers, ConsumerStep(c) PROVE UNCHANGED <<ref, data>>
    BY <2>3 DEF ConsumerStep, Release, ConsumerCheck, Unlink
  <2>4. QED
    BY <1>2, <1>3, <1>4, <1>5, <1>7, <2>1, <2>2, <2>3 DEF Next, ProducerStep
<1>8. QED BY <1>6, <1>7

\* The unlocked memcpy of data_add never changes a frame somebody reads.
THEOREM FramesAreStable == Spec => BufferStable
<1>1. IInv /\ [Next]_vars => [FrameKept]_vars BY NextFrameKept
<1>2. QED BY <1>1, Invariance, PTL DEF Spec, BufferStable, FrameKept
-----------------------------------------------------------------------------
(* The tail that datafifo_producer_data_add reads without a test            *)

\* A call that continues a frame finds the frame still being filled.
TailInv == \A p \in Producers : pc[p] = "tail" => Filling(p)

\* No other thread touches the frame a thread is filling, or makes one of
\* another that it has finished.
LEMMA TailKept ==
  ASSUME IInv, NEW p \in Producers, [Next]_vars, ~ProducerStep(p)
  PROVE  /\ Filling(p)' <=> Filling(p)
         /\ Filling(p) => LET t == Last(list[p]) IN
              Last(list'[p]) = t /\ len'[t] = len[t] /\ data'[t] = data[t]
<1> USE DEF IInv
<1> DEFINE t == Last(list[p])
<1> DEFINE Goal == /\ Filling(p)' <=> Filling(p)
                   /\ Filling(p) => Last(list'[p]) = t /\ len'[t] = len[t] /\ data'[t] = data[t]
<1>1. p \in Fifo /\ (list[p] # <<>> =>
        t \in ProducerItem /\ t \in Item /\ t[1] = p /\ status[t] # "INIT" /\ t \notin ConsumerItem)
  <2>1. p \in Fifo BY DEF Fifo
  <2>2. ASSUME list[p] # <<>>
        PROVE  t \in ProducerItem /\ t[1] = p /\ status[t] # "INIT"
    <3>1. /\ Len(list[p]) \in 1..Len(list[p]) /\ t = list[p][Len(list[p])]
          /\ t \in ProducerItem /\ t[1] = p
      BY <2>2, TailItem
    <3>2. QED BY <2>1, <3>1 DEF ListInv
  <2>3. QED BY <2>1, <2>2, ItemFifo DEF ProducerItem
<1>2. ASSUME list'[p] = list[p],
             list[p] # <<>> => status'[t] = status[t] /\ len'[t] = len[t] /\ data'[t] = data[t]
      PROVE  Goal
  BY <1>2 DEF Filling
<1>3. CASE UNCHANGED vars BY <1>2, <1>3 DEF vars, fifoVars
<1>4. ASSUME NEW q \in Producers, RemoveCheck(q), len' = len, data' = data PROVE Goal
  <2>1. PICK gone \in SUBSET ProducerItem :
          /\ \A y \in gone : status[y] = "DOING"
          /\ \A y \in Item : status'[y] = IF y \in gone THEN "INIT" ELSE status[y]
          /\ \A f \in Fifo : f # q => list'[f] = list[f]
          /\ (list[q] # <<>> /\ Last(list[q]) \notin gone) =>
                (list'[q] # <<>> /\ Last(list'[q]) = Last(list[q]))
          /\ list'[q] # <<>> => (list[q] # <<>> /\ Last(list'[q]) = Last(list[q]))
    BY <1>4, RemoveCheckEffect
  <2>2. list[p] # <<>> => status'[t] \in {status[t], "INIT"} /\ (status[t] = "FILLING" => t \notin gone)
    BY <1>1, <2>1
  <2>3. Filling(p) => list'[p] # <<>> /\ Last(list'[p]) = t /\ status'[t] = status[t]
    BY <1>1, <2>1, <2>2 DEF Filling
  <2>4. list'[p] # <<>> => list[p] # <<>> /\ Last(list'[p]) = t
    BY <1>1, <2>1
  <2>5. Filling(p)' => Filling(p) BY <2>2, <2>4 DEF Filling
  <2>6. QED BY <1>4, <2>3, <2>5 DEF Filling
<1>5. ASSUME NEW q \in Producers, NEW a \in Calls, Call(q, a) PROVE Goal
  BY <1>2, <1>5 DEF Call, fifoVars
<1>6. ASSUME NEW q \in Producers, q # p, ProducerStep(q) PROVE Goal
  <2>1. CASE AllocFrame(q)
    <3>1. PICK x \in Item : /\ status[x] = "INIT" /\ list' = list /\ data' = data
                            /\ status' = [status EXCEPT ![x] = "FILLING"]
                            /\ len' = [len EXCEPT ![x] = 0]
      BY <2>1 DEF AllocFrame, FirstUnused
    <3>2. QED BY <1>1, <1>2, <3>1 DEF TypeOK
  <2>2. CASE Flush(q)
    <3>1. PICK y : y = Last(list[q]) OBVIOUS
    <3>2. \/ list[q] # <<>> /\ y[1] = q
          \/ UNCHANGED <<len, status>>
      BY <2>2, <3>1, TailItem DEF Flush, Filling
    <3>3. list' = list /\ data' = data BY <2>2 DEF Flush
    <3>4. list[p] # <<>> /\ t # y => status'[t] = status[t] /\ len'[t] = len[t]
      BY <1>1, <2>2, <3>1 DEF Flush, TypeOK
    <3>5. QED BY <1>1, <1>2, <1>6, <3>2, <3>3, <3>4
  <2>3. CASE LinkFrame(q)
    BY <1>1, <1>2, <1>6, <2>3 DEF LinkFrame, TypeOK
  <2>4. CASE CheckTail(q) BY <1>2, <2>4 DEF CheckTail, fifoVars
  <2>5. CASE CopyPacket(q)
    <3>1. PICK y : y = Last(list[q]) OBVIOUS
    <3>2. y[1] = q /\ y \in Item BY <2>5, <3>1, TailItem DEF CopyPacket, CopyInv, Filling, ProducerItem
    <3>3. /\ list' = list
          /\ status' = status \/ status' = [status EXCEPT ![y] = "READY"]
          /\ len' = len \/ len' = [len EXCEPT ![y] = @ + call[q].len]
          /\ data' = data \/ data' = [data EXCEPT ![y] = Appended(y, call[q])]
      BY <2>5, <3>1 DEF CopyPacket, FrameEnd
    <3>4. list[p] # <<>> => t # y BY <1>1, <1>6, <3>2
    <3>5. QED BY <1>1, <1>2, <3>3, <3>4 DEF TypeOK
  <2>6. CASE AllocForConsumer(q)
    <3>1. PICK x \in Item : /\ status[x] = "INIT" /\ list' = list /\ data' = data
                            /\ status' = [status EXCEPT ![x] = "READY"]
                            /\ len' = [len EXCEPT ![x] = len[item[q]]]
      BY <2>6 DEF AllocForConsumer, FirstUnused
    <3>2. QED BY <1>1, <1>2, <3>1 DEF TypeOK
  <2>7. CASE CountReference(q) BY <1>2, <2>7 DEF CountReference
  <2>8. CASE AddToConsumer(q)
    <3>1. citem[q][1] # p
      BY <2>8, DataFifoAssumption DEF AddToConsumer, CitemInv, HasCitem
    <3>2. QED BY <1>1, <1>2, <2>8, <3>1 DEF AddToConsumer, TypeOK
  <2>9. CASE SetDoing(q)
    <3>1. item[q][1] = q BY <2>9 DEF SetDoing, ItemInv, Distributing
    <3>2. list[p] # <<>> => item[q] # t BY <1>1, <1>6, <3>1
    <3>3. QED BY <1>1, <1>2, <2>9, <3>2 DEF SetDoing, TypeOK
  <2>10. CASE ProducerCheck(q) BY <1>4, <2>10 DEF ProducerCheck
  <2>11. QED
    BY <1>6, <2>1, <2>2, <2>3, <2>4, <2>5, <2>6, <2>7, <2>8, <2>9, <2>10 DEF ProducerStep
<1>7. ASSUME NEW c \in Consumers, ConsumerStep(c) PROVE Goal
  <2>1. CASE Release(c) BY <1>2, <2>1 DEF Release
  <2>2. CASE ConsumerCheck(c)
    <3>1. ref[Head(list[c])][1] \in Producers
      BY <2>2, HeadRef DEF ConsumerCheck, ProducerItem
    <3>2. QED BY <1>4, <2>2, <3>1 DEF ConsumerCheck
  <2>3. CASE Unlink(c)
    <3>1. c # p /\ (list[p] # <<>> => Head(list[c]) # t)
      BY <1>1, <2>3, HeadRef, DataFifoAssumption DEF Unlink
    <3>2. QED BY <1>1, <1>2, <2>3, <3>1 DEF Unlink, TypeOK
  <2>4. QED BY <1>7, <2>1, <2>2, <2>3 DEF ConsumerStep
<1>8. Goal BY <1>3, <1>5, <1>6, <1>7 DEF Next
<1>9. QED BY <1>8

\* Its owner keeps it until it copies a packet.
LEMMA FillingKept ==
  ASSUME IInv, NEW p \in Producers, Filling(p), [Next]_vars,
         pc[p] \in {"idle", "tail", "copy"}, pc'[p] = pc[p]
  PROVE  Filling(p)'
<1>1. CASE ~ProducerStep(p) BY <1>1, TailKept
<1>2. CASE ProducerStep(p)
  <2>1. ~CopyPacket(p) BY DEF CopyPacket, FrameEnd, Goto, IInv, TypeOK
  <2>2. CheckTail(p)
    BY <1>2, <2>1 DEF ProducerStep, AllocFrame, Flush, LinkFrame,
       AllocForConsumer, CountReference, AddToConsumer, SetDoing, ProducerCheck, Distributing
  <2>3. QED BY <2>2 DEF CheckTail, Filling, fifoVars
<1>3. QED BY <1>1, <1>2

\* Only a call that does not begin a frame brings a thread to the tail.
LEMMA TailOnlyByCall ==
  ASSUME IInv, [Next]_vars, NEW p \in Producers, pc[p] # "tail", pc'[p] = "tail"
  PROVE  \E a \in Calls : Call(p, a)
<1> USE DEF IInv, TypeOK, Goto
<1>1. CASE UNCHANGED vars BY <1>1 DEF vars, prodVars
<1>2. ASSUME NEW c \in Consumers, ConsumerStep(c) PROVE FALSE
  BY <1>2 DEF ConsumerStep, Release, ConsumerCheck, Unlink, prodVars
<1>3. ASSUME NEW q \in Producers, NEW a \in Calls, Call(q, a) PROVE q = p
  BY <1>3 DEF Call
<1>4. ASSUME NEW q \in Producers, ProducerStep(q) PROVE FALSE
  <2>1. CASE AllocFrame(q) \/ LinkFrame(q) \/ CheckTail(q)
    BY <2>1 DEF AllocFrame, LinkFrame, CheckTail
  <2>2. CASE Flush(q) BY <2>2 DEF Flush
  <2>3. CASE CopyPacket(q) BY <2>3 DEF CopyPacket, FrameEnd
  <2>4. CASE AllocForConsumer(q) \/ CountReference(q) \/ AddToConsumer(q)
               \/ SetDoing(q) \/ ProducerCheck(q)
    BY <2>4 DEF AllocForConsumer, CountReference, AddToConsumer, SetDoing, ProducerCheck
  <2>5. QED BY <1>4, <2>1, <2>2, <2>3, <2>4 DEF ProducerStep
<1>5. QED BY <1>1, <1>2, <1>3, <1>4 DEF Next

\* The process dies only of a call that continues a frame and finds no list.
LEMMA TailSafe ==
  ASSUME TailInv, NoCrash, [Next]_vars
  PROVE  NoCrash'
<1>1. ASSUME NEW p \in Producers, CheckTail(p) PROVE crashed' = crashed
  BY <1>1 DEF CheckTail, TailInv, Filling
<1>2. crashed' = crashed
  BY <1>1 DEF Next, ProducerStep, ConsumerStep, Call, AllocFrame, Flush, LinkFrame,
     CopyPacket, AllocForConsumer, CountReference, AddToConsumer, SetDoing, ProducerCheck,
     Release, ConsumerCheck, Unlink, vars
<1>3. QED BY <1>2 DEF NoCrash

\* With streams that only continue frames they have begun, the unguarded read
\* of listtail->status in data_add never meets an empty list.
THEOREM NoNullTail ==
  ASSUME ~Stray
  PROVE  Spec => []NoCrash
<1> DEFINE CInv == IInv /\ TailInv /\ NoCrash
<1>1. Init => CInv
  BY InitIInv DEF Init, TailInv, NoCrash
<1>2. CInv /\ [Next]_vars => CInv'
  <2> SUFFICES ASSUME CInv, [Next]_vars PROVE CInv' OBVIOUS
  <2>1. IInv' BY NextIInv
  <2>2. TailInv'
    <3> SUFFICES ASSUME NEW p \in Producers, pc'[p] = "tail" PROVE Filling(p)'
      BY DEF TailInv
    <3>1. CASE pc[p] = "tail" BY <3>1, FillingKept DEF TailInv
    <3>2. CASE pc[p] # "tail"
      <4>1. \E a \in Calls : Call(p, a) BY <3>2, TailOnlyByCall
      <4>2. PICK a \in Calls : Call(p, a) BY <4>1
      <4>3. "NEWFRAME" \notin a.flags /\ list' = list /\ status' = status
        BY <4>2 DEF Call, Goto, IInv, TypeOK, fifoVars
      <4>4. Filling(p) BY <4>2, <4>3 DEF Call
      <4>5. QED BY <4>3, <4>4 DEF Filling
    <3>3. QED BY <3>1, <3>2
  <2>3. NoCrash' BY TailSafe
  <2>4. QED BY <2>1, <2>2, <2>3
<1>3. CInv => NoCrash OBVIOUS
<1> HIDE DEF CInv
<1>4. QED BY <1>1, <1>2, <1>3, PTL DEF Spec

-----------------------------------------------------------------------------
(* The frame queue implements FrameBroadcast: under the refinement mapping  *)
(* of DataFifo every step of datafifo.c is a step of the broadcast or none. *)
(*                                                                          *)
(*   Flush, CopyPacket   publish a frame when they begin to hand one out;   *)
(*   AddToConsumer       delivers it to the next consumer;                  *)
(*   Release             consumes: from the decrement of refcnt on, the     *)
(*                       consumer no longer looks at the frame;             *)
(*   all other actions   do not show.                                       *)

(* What the mapping needs beyond the invariant of DataFifoProofs           *)

\* The consumer's item under way belongs to the consumer whose turn it is and
\* is a copy of the descriptor of the frame handed out.
HandedInv ==
  \A p \in Producers : HasCitem(p) =>
    /\ con[p] <= Len(Connected[p])
    /\ citem[p][1] = Connected[p][con[p]]
    /\ len[citem[p]] = len[item[p]]
    /\ flags[citem[p]] = flags[item[p]]

\* The packet being added is one of the board's.
ArgsInv == \A p \in Producers : pc[p] # "idle" => call[p] \in Calls

\* The first len cells of a buffer have been written.
BodyInv == \A x \in ProducerItem : \A n \in 1..len[x] : data[x][n] \in Byte

RInv == IInv /\ HandedInv /\ ArgsInv /\ BodyInv

-----------------------------------------------------------------------------

\* Items whose descriptor and bytes no thread may change.
Frozen(x) ==
  \/ x \in ConsumerItem /\ status[x] # "INIT"
  \/ x \in ProducerItem /\ status[x] \in {"READY", "DOING"}

Fields == <<len, flags, ref, data>>

\* No step changes what a frozen item says.
LEMMA FieldsKept ==
  ASSUME IInv, [Next]_vars, NEW x \in Item, Frozen(x)
  PROVE  /\ len'[x] = len[x] /\ flags'[x] = flags[x] /\ ref'[x] = ref[x]
         /\ x \in ProducerItem => data'[x] = data[x]
<1> DEFINE Same == /\ len'[x] = len[x] /\ flags'[x] = flags[x] /\ ref'[x] = ref[x]
                   /\ x \in ProducerItem => data'[x] = data[x]
<1> USE DEF IInv
<1>1. status[x] # "INIT" /\ (x \in ProducerItem => status[x] # "FILLING")
  BY ItemFifo DEF Frozen
<1>2. ASSUME UNCHANGED Fields PROVE Same BY <1>2 DEF Fields
<1>3. ASSUME NEW p \in Producers, AllocFrame(p) PROVE Same
  BY <1>1, <1>3 DEF AllocFrame, FirstUnused, TypeOK
<1>4. ASSUME NEW p \in Producers, AllocForConsumer(p) PROVE Same
  BY <1>1, <1>4 DEF AllocForConsumer, FirstUnused, TypeOK
<1>5. ASSUME NEW p \in Producers, Flush(p) PROVE Same
  <2>1. CASE Filling(p)
    <3>1. Last(list[p]) # x
      <4>1. Last(list[p]) \in ProducerItem BY <2>1, TailItem DEF Filling
      <4>2. QED BY <1>1, <2>1, <4>1 DEF Filling
    <3>2. QED BY <1>5, <3>1 DEF Flush, TypeOK
  <2>2. CASE ~Filling(p) BY <1>5, <2>2 DEF Flush
  <2>3. QED BY <2>1, <2>2
<1>6. ASSUME NEW p \in Producers, LinkFrame(p) PROVE Same
  <2>1. cur[p] # x
    <3>1. cur[p] \in Item /\ cur[p][1] = p /\ status[cur[p]] = "FILLING"
      BY <1>6 DEF LinkFrame, CurInv, HasCur
    <3>2. cur[p] \in ProducerItem BY <3>1 DEF ProducerItem
    <3>3. QED BY <1>1, <3>1, <3>2
  <2>2. flags'[x] = flags[x] BY <1>6, <2>1 DEF LinkFrame, TypeOK
  <2>3. QED BY <1>6, <2>2 DEF LinkFrame
<1>7. ASSUME NEW p \in Producers, CopyPacket(p) PROVE Same
  <2>1. Filling(p) BY <1>7 DEF CopyPacket, CopyInv
  <2>2. Last(list[p]) # x
    <3>1. Last(list[p]) \in ProducerItem BY <2>1, TailItem DEF Filling
    <3>2. QED BY <1>1, <2>1, <3>1 DEF Filling
  <2>3. \/ data' = data /\ len' = len
        \/ /\ \E d : data' = [data EXCEPT ![Last(list[p])] = d]
           /\ len' = [len EXCEPT ![Last(list[p])] = @ + call[p].len]
    BY <1>7 DEF CopyPacket, FrameEnd
  <2>4. len'[x] = len[x] /\ (x \in ProducerItem => data'[x] = data[x])
    BY <2>2, <2>3 DEF TypeOK
  <2>5. flags' = flags /\ ref' = ref BY <1>7 DEF CopyPacket
  <2>6. QED BY <2>4, <2>5
<1>8. CASE UNCHANGED vars BY <1>2, <1>8 DEF vars, fifoVars, Fields
<1>9. CASE Next
  <2>1. ASSUME NEW p \in Producers, NEW a \in Calls, Call(p, a) PROVE UNCHANGED Fields
    BY <2>1 DEF Call, fifoVars, Fields
  <2>2. ASSUME NEW p \in Producers,
               CheckTail(p) \/ CountReference(p) \/ AddToConsumer(p) \/ SetDoing(p)
                 \/ ProducerCheck(p)
        PROVE  UNCHANGED Fields
    BY <2>2 DEF CheckTail, CountReference, AddToConsumer, SetDoing, ProducerCheck, fifoVars,
       Fields
  <2>3. ASSUME NEW c \in Consumers, ConsumerStep(c) PROVE UNCHANGED Fields
    BY <2>3 DEF ConsumerStep, Release, ConsumerCheck, Unlink, Fields
  <2>4. QED
    BY <1>2, <1>3, <1>4, <1>5, <1>6, <1>7, <1>9, <2>1, <2>2, <2>3 DEF Next, ProducerStep
<1>10. QED BY <1>8, <1>9
\* The consumer's item of p stays the same from datafifo_alloc to
\* datafifo_list_addtail.
LEMMA CitemKept ==
  ASSUME IInv, [Next]_vars, NEW p \in Producers, HasCitem(p)', ~AllocForConsumer(p)
  PROVE  HasCitem(p) /\ con'[p] = con[p] /\ citem'[p] = citem[p] /\ item'[p] = item[p]
<1> USE DEF IInv, TypeOK, HasCitem, Goto
<1>1. CASE UNCHANGED vars BY <1>1 DEF vars, prodVars
<1>2. ASSUME NEW c \in Consumers, ConsumerStep(c) PROVE UNCHANGED prodVars
  BY <1>2 DEF ConsumerStep, Release, ConsumerCheck, Unlink
<1>3. ASSUME NEW q \in Producers, NEW a \in Calls, Call(q, a)
      PROVE HasCitem(p) /\ con'[p] = con[p] /\ citem'[p] = citem[p] /\ item'[p] = item[p]
  BY <1>3 DEF Call
<1>4. ASSUME NEW q \in Producers, AllocFrame(q) \/ LinkFrame(q) \/ CheckTail(q)
      PROVE HasCitem(p) /\ con'[p] = con[p] /\ citem'[p] = citem[p] /\ item'[p] = item[p]
  BY <1>4 DEF AllocFrame, LinkFrame, CheckTail
<1>5. ASSUME NEW q \in Producers, Flush(q) \/ CopyPacket(q)
      PROVE HasCitem(p) /\ con'[p] = con[p] /\ citem'[p] = citem[p] /\ item'[p] = item[p]
  BY <1>5 DEF Flush, CopyPacket, FrameEnd
<1>6. ASSUME NEW q \in Producers, q # p, AllocForConsumer(q)
      PROVE HasCitem(p) /\ con'[p] = con[p] /\ citem'[p] = citem[p] /\ item'[p] = item[p]
  BY <1>6 DEF AllocForConsumer
<1>7. ASSUME NEW q \in Producers, CountReference(q) \/ AddToConsumer(q) \/ SetDoing(q)
      PROVE HasCitem(p) /\ con'[p] = con[p] /\ citem'[p] = citem[p] /\ item'[p] = item[p]
  BY <1>7 DEF CountReference, AddToConsumer, SetDoing
<1>8. ASSUME NEW q \in Producers, ProducerCheck(q)
      PROVE HasCitem(p) /\ con'[p] = con[p] /\ citem'[p] = citem[p] /\ item'[p] = item[p]
  BY <1>8 DEF ProducerCheck
<1>9. CASE Next
  BY <1>2, <1>3, <1>4, <1>5, <1>6, <1>7, <1>8, <1>9 DEF Next, ProducerStep, prodVars
<1>10. QED BY <1>1, <1>9

\* The copy of the descriptor stays a copy.
LEMMA NextHanded == ASSUME RInv, [Next]_vars PROVE HandedInv'
<1> USE DEF RInv, IInv
<1> SUFFICES ASSUME NEW p \in Producers, HasCitem(p)'
             PROVE  /\ con'[p] <= Len(Connected[p])
                    /\ citem'[p][1] = Connected[p][con'[p]]
                    /\ len'[citem'[p]] = len'[item'[p]]
                    /\ flags'[citem'[p]] = flags'[item'[p]]
  BY DEF HandedInv
<1>1. CASE AllocForConsumer(p)
  <2>1. PICK x \in Item :
          /\ x[1] = Connected[p][con[p]] /\ status[x] = "INIT"
          /\ citem' = [citem EXCEPT ![p] = x]
          /\ len' = [len EXCEPT ![x] = len[item[p]]]
          /\ flags' = [flags EXCEPT ![x] = flags[item[p]]]
    BY <1>1 DEF AllocForConsumer, FirstUnused
  <2>2. item[p] \in Item /\ status[item[p]] = "READY"
    BY <1>1 DEF AllocForConsumer, ItemInv, Distributing
  <2>3. con' = con /\ item' = item /\ con[p] <= Len(Connected[p])
    BY <1>1 DEF AllocForConsumer
  <2>4. QED BY <2>1, <2>2, <2>3 DEF TypeOK
<1>2. CASE ~AllocForConsumer(p)
  <2>1. HasCitem(p) /\ con'[p] = con[p] /\ citem'[p] = citem[p] /\ item'[p] = item[p]
    BY <1>2, CitemKept
  <2>2. citem[p] \in Item /\ Frozen(citem[p])
    BY <2>1 DEF CitemInv, Frozen, ConsumerItem
  <2>3. item[p] \in Item /\ Frozen(item[p])
    BY <2>1 DEF ItemInv, HasCitem, Distributing, Frozen, ProducerItem
  <2>4. len'[citem[p]] = len[citem[p]] /\ flags'[citem[p]] = flags[citem[p]]
    BY <2>2, FieldsKept
  <2>5. len'[item[p]] = len[item[p]] /\ flags'[item[p]] = flags[item[p]]
    BY <2>3, FieldsKept
  <2>6. QED BY <2>1, <2>4, <2>5 DEF HandedInv
<1>3. QED BY <1>1, <1>2

\* The arguments stay those of the call.
LEMMA NextArgs == ASSUME RInv, [Next]_vars PROVE ArgsInv'
<1> USE DEF RInv, IInv, TypeOK, ArgsInv, Goto
<1>1. CASE UNCHANGED vars BY <1>1 DEF vars, prodVars
<1>2. ASSUME NEW c \in Consumers, ConsumerStep(c) PROVE ArgsInv'
  BY <1>2 DEF ConsumerStep, Release, ConsumerCheck, Unlink, prodVars
<1>3. ASSUME NEW q \in Producers, NEW a \in Calls, Call(q, a) PROVE ArgsInv'
  BY <1>3 DEF Call
<1>4. ASSUME NEW q \in Producers, ProducerStep(q) PROVE ArgsInv'
  <2>1. call' = call /\ pc[q] # "idle" /\ \A p \in Producers : p # q => pc'[p] = pc[p]
    <3>1. CASE AllocFrame(q) \/ LinkFrame(q) \/ CheckTail(q)
      BY <3>1 DEF AllocFrame, LinkFrame, CheckTail
    <3>2. CASE Flush(q) BY <3>2 DEF Flush
    <3>3. CASE CopyPacket(q) BY <3>3 DEF CopyPacket, FrameEnd
    <3>4. CASE AllocForConsumer(q) \/ CountReference(q) \/ AddToConsumer(q) \/ SetDoing(q)
                 \/ ProducerCheck(q)
      BY <3>4 DEF AllocForConsumer, CountReference, AddToConsumer, SetDoing, ProducerCheck
    <3>5. QED BY <1>4, <3>1, <3>2, <3>3, <3>4 DEF ProducerStep
  <2>2. QED BY <2>1
<1>5. QED BY <1>1, <1>2, <1>3, <1>4 DEF Next

\* A buffer's length only grows behind the packet that was copied.
LEMMA NextBody == ASSUME RInv, [Next]_vars PROVE BodyInv'
<1> USE DEF RInv, IInv
<1>1. CASE UNCHANGED <<len, data>> BY <1>1 DEF BodyInv
<1>2. ASSUME NEW p \in Producers, AllocFrame(p) PROVE BodyInv'
  <2>1. data' = data /\ \E x \in Item : len' = [len EXCEPT ![x] = 0]
    BY <1>2 DEF AllocFrame
  <2>2. QED BY <2>1 DEF BodyInv, TypeOK, ProducerItem
<1>3. ASSUME NEW p \in Producers, Flush(p) PROVE BodyInv'
  <2>1. data' = data BY <1>3 DEF Flush
  <2>2. \A x \in Item : len'[x] = len[x] \/ len'[x] = 0 BY <1>3 DEF Flush, TypeOK
  <2>3. ASSUME NEW x \in ProducerItem, NEW n \in 1..len'[x] PROVE data'[x][n] \in Byte
    <3>1. x \in Item /\ len'[x] # 0 BY <2>3 DEF ProducerItem
    <3>2. len'[x] = len[x] BY <2>2, <3>1
    <3>3. QED BY <2>1, <2>3, <3>2 DEF BodyInv
  <2>4. QED BY <2>3 DEF BodyInv
<1>4. ASSUME NEW p \in Producers, AllocForConsumer(p) PROVE BodyInv'
  <2>1. PICK x \in Item : x[1] = Connected[p][con[p]] /\ data' = data
                         /\ len' = [len EXCEPT ![x] = len[item[p]]]
    BY <1>4 DEF AllocForConsumer, FirstUnused
  <2>2. x \notin ProducerItem
    <3>1. Connected[p] \in Seq(Consumers) BY DataFifoAssumption
    <3>2. con[p] \in 1..Len(Connected[p]) BY <1>4, <3>1 DEF AllocForConsumer, TypeOK
    <3>3. QED BY <2>1, <3>1, <3>2, DataFifoAssumption DEF ProducerItem
  <2>3. QED BY <2>1, <2>2 DEF BodyInv, TypeOK, ProducerItem
<1>5. ASSUME NEW p \in Producers, CopyPacket(p) PROVE BodyInv'
  <2> DEFINE t == Last(list[p])
  <2>1. Filling(p) /\ pc[p] = "copy" BY <1>5 DEF CopyPacket, CopyInv
  <2>2. t \in ProducerItem /\ t \in Item BY <2>1, TailItem DEF Filling, ProducerItem
  <2>3. call[p].data \in Payload /\ call[p].len \in Nat
    BY <2>1, DataFifoAssumption DEF ArgsInv, CallType
  <2>4. \/ data' = data /\ len' = len
        \/ /\ data' = [data EXCEPT ![t] = Appended(t, call[p])]
           /\ len' = [len EXCEPT ![t] = @ + call[p].len]
           /\ len[t] + call[p].len <= DataMaxLen
    BY <1>5 DEF CopyPacket, FrameEnd
  <2> HIDE DEF t
  <2>5. CASE data' = data /\ len' = len BY <2>5 DEF BodyInv
  <2>6. CASE /\ data' = [data EXCEPT ![t] = Appended(t, call[p])]
             /\ len' = [len EXCEPT ![t] = @ + call[p].len]
             /\ len[t] + call[p].len <= DataMaxLen
    <3>1. len[t] \in Nat /\ DataMaxLen \in Nat
      BY <2>2, <2>6, DataFifoAssumption DEF TypeOK
    <3>2. data'[t] = Appended(t, call[p]) /\ len'[t] = len[t] + call[p].len
      BY <2>2, <2>6 DEF TypeOK
    <3>3. \A n \in 1..len'[t] : data'[t][n] \in Byte
      <4> TAKE n \in 1..len'[t]
      <4>1. n \in 1..DataMaxLen BY <2>3, <2>6, <3>1, <3>2
      <4>2. CASE n \in 1..len[t]
        <5>1. data'[t][n] = data[t][n] BY <2>3, <3>1, <3>2, <4>1, <4>2 DEF Appended
        <5>2. QED BY <2>2, <4>2, <5>1 DEF BodyInv
      <4>3. CASE n \notin 1..len[t]
        <5>1. data'[t][n] = <<call[p].data, n - len[t]>>
          BY <2>3, <3>1, <3>2, <4>1, <4>3 DEF Appended
        <5>2. n - len[t] \in Nat \ {0} BY <2>3, <3>1, <4>1, <4>3
        <5>3. QED BY <2>3, <5>1, <5>2 DEF Byte
      <4>4. QED BY <4>2, <4>3
    <3>4. \A x \in ProducerItem : x # t => data'[x] = data[x] /\ len'[x] = len[x]
      BY <2>6 DEF TypeOK, ProducerItem
    <3>5. QED BY <3>3, <3>4 DEF BodyInv
  <2>7. QED BY <2>4, <2>5, <2>6
<1>6. ASSUME NEW p \in Producers,
             LinkFrame(p) \/ CheckTail(p) \/ CountReference(p) \/ AddToConsumer(p)
               \/ SetDoing(p) \/ ProducerCheck(p)
      PROVE  UNCHANGED <<len, data>>
  BY <1>6 DEF LinkFrame, CheckTail, CountReference, AddToConsumer, SetDoing, ProducerCheck,
     fifoVars
<1>7. ASSUME NEW c \in Consumers, ConsumerStep(c) PROVE UNCHANGED <<len, data>>
  BY <1>7 DEF ConsumerStep, Release, ConsumerCheck, Unlink
<1>8. ASSUME NEW p \in Producers, NEW a \in Calls, Call(p, a) PROVE UNCHANGED <<len, data>>
  BY <1>8 DEF Call, fifoVars
<1>9. CASE UNCHANGED vars BY <1>1, <1>9 DEF vars, fifoVars
<1>10. QED
  BY <1>1, <1>2, <1>3, <1>4, <1>5, <1>6, <1>7, <1>8, <1>9 DEF Next, ProducerStep

\* RInv holds in every reachable state.
THEOREM MappingInvariance == Spec => []RInv
<1>1. Init => RInv
  <2> SUFFICES ASSUME Init PROVE RInv OBVIOUS
  <2>1. IInv BY InitIInv
  <2>2. HandedInv /\ ArgsInv BY DEF Init, HandedInv, HasCitem, ArgsInv
  <2>3. BodyInv BY DEF Init, BodyInv, ProducerItem
  <2>4. QED BY <2>1, <2>2, <2>3 DEF RInv
<1>2. RInv /\ [Next]_vars => RInv'
  BY NextIInv, NextHanded, NextArgs, NextBody DEF RInv
<1>3. QED BY <1>1, <1>2, PTL DEF Spec
-----------------------------------------------------------------------------
(* The frames a list of items stands for                                    *)

Map(f, s) == [i \in 1..Len(s) |-> f[s[i]]]

\* What is seen of a list that has lost its head.
LEMMA MapTail ==
  ASSUME NEW S, NEW T, NEW f \in [S -> T], NEW s \in Seq(S), s # <<>>
  PROVE  Map(f, Tail(s)) = Tail(Map(f, s)) /\ Map(f, s) # <<>>
<1>1. /\ Tail(s) \in Seq(S) /\ Len(Tail(s)) = Len(s) - 1 /\ Len(s) \in Nat \ {0}
      /\ \A i \in 1..Len(Tail(s)) : Tail(s)[i] = s[i + 1]
  OBVIOUS
<1>2. PICK m : m = Map(f, s) OBVIOUS
<1>3. m \in Seq(T) /\ Len(m) = Len(s) /\ \A i \in 1..Len(s) : m[i] = f[s[i]]
  <2>1. m \in [1..Len(s) -> T] /\ \A i \in 1..Len(s) : m[i] = f[s[i]] BY <1>2 DEF Map
  <2>2. QED BY <1>1, <2>1
<1>4. m # <<>> BY <1>1, <1>3
<1>5. /\ Tail(m) \in Seq(T) /\ Len(Tail(m)) = Len(s) - 1
      /\ \A i \in 1..Len(s) - 1 : Tail(m)[i] = m[i + 1]
  BY <1>3, <1>4
<1>6. PICK t : t = Map(f, Tail(s)) OBVIOUS
<1>7. t \in Seq(T) /\ Len(t) = Len(s) - 1 /\ \A i \in 1..Len(s) - 1 : t[i] = f[s[i + 1]]
  <2>1. t \in [1..Len(Tail(s)) -> T] /\ \A i \in 1..Len(Tail(s)) : t[i] = f[Tail(s)[i]]
    BY <1>1, <1>6 DEF Map
  <2>2. Len(s) - 1 \in Nat /\ t \in [1..Len(s) - 1 -> T] BY <1>1, <2>1
  <2>3. t \in Seq(T) /\ Len(t) = Len(s) - 1 BY <2>2
  <2>4. \A i \in 1..Len(s) - 1 : t[i] = f[s[i + 1]] BY <1>1, <2>1
  <2>5. QED BY <2>3, <2>4
<1>8. \A i \in 1..Len(t) : t[i] = Tail(m)[i]
  BY <1>1, <1>3, <1>5, <1>7
<1>9. t = Tail(m) BY <1>5, <1>7, <1>8, SeqEqual
<1>10. QED BY <1>2, <1>4, <1>6, <1>9

\* What is seen of a list with another item at its end.
LEMMA MapAppend ==
  ASSUME NEW S, NEW T, NEW f \in [S -> T], NEW s \in Seq(S), NEW x \in S
  PROVE  Map(f, Append(s, x)) = Append(Map(f, s), f[x])
<1>1. /\ Append(s, x) \in Seq(S) /\ Len(Append(s, x)) = Len(s) + 1 /\ Len(s) \in Nat
      /\ \A i \in 1..Len(s) : Append(s, x)[i] = s[i]
      /\ Append(s, x)[Len(s) + 1] = x
  OBVIOUS
<1>2. PICK m : m = Map(f, s) OBVIOUS
<1>3. m \in Seq(T) /\ Len(m) = Len(s) /\ \A i \in 1..Len(s) : m[i] = f[s[i]]
  <2>1. m \in [1..Len(s) -> T] /\ \A i \in 1..Len(s) : m[i] = f[s[i]] BY <1>2 DEF Map
  <2>2. QED BY <1>1, <2>1
<1>4. f[x] \in T OBVIOUS
<1>5. /\ Append(m, f[x]) \in Seq(T) /\ Len(Append(m, f[x])) = Len(s) + 1
      /\ \A i \in 1..Len(s) : Append(m, f[x])[i] = m[i]
      /\ Append(m, f[x])[Len(s) + 1] = f[x]
  BY <1>3, <1>4
<1>6. PICK t : t = Map(f, Append(s, x)) OBVIOUS
<1>7. t \in Seq(T) /\ Len(t) = Len(s) + 1
      /\ \A i \in 1..Len(s) + 1 : t[i] = f[Append(s, x)[i]]
  <2>1. /\ t \in [1..Len(Append(s, x)) -> T]
        /\ \A i \in 1..Len(Append(s, x)) : t[i] = f[Append(s, x)[i]]
    BY <1>1, <1>6 DEF Map
  <2>2. QED BY <1>1, <2>1
<1>8. \A i \in 1..Len(t) : t[i] = Append(m, f[x])[i]
  <2> TAKE i \in 1..Len(t)
  <2>1. CASE i = Len(s) + 1 BY <1>1, <1>5, <1>7, <2>1
  <2>2. CASE i \in 1..Len(s) BY <1>1, <1>3, <1>5, <1>7, <2>2
  <2>3. i = Len(s) + 1 \/ i \in 1..Len(s) BY <1>1, <1>7
  <2>4. QED BY <2>1, <2>2, <2>3
<1>9. t = Append(m, f[x]) BY <1>5, <1>7, <1>8, SeqEqual
<1>10. QED BY <1>2, <1>6, <1>9

\* Only what is seen of the items in the list matters.
LEMMA MapSame ==
  ASSUME NEW f, NEW g, NEW s, \A i \in 1..Len(s) : g[s[i]] = f[s[i]]
  PROVE  Map(g, s) = Map(f, s)
BY DEF Map

-----------------------------------------------------------------------------
(* The queue of a consumer                                                  *)

SeenIn(x, r, fl, d, l) ==
  [from |-> r[x][1], flags |-> fl[x], body |-> SubSeq(d[r[x]], 1, l[x])]

SeenMap == [x \in Item |-> SeenIn(x, ref, flags, data, len)]

Held(c) == IF cpc[c] = "head" THEN list[c] ELSE Tail(list[c])

\* What a consumer has still to work on are items whose frame is alive.
LEMMA HeldItems ==
  ASSUME IInv, NEW c \in Consumers
  PROVE  /\ Held(c) \in Seq(Item)
         /\ \A i \in 1..Len(Held(c)) :
              /\ Frozen(Held(c)[i]) /\ Held(c)[i] \in Item
              /\ ref[Held(c)[i]] \in ProducerItem /\ Frozen(ref[Held(c)[i]])
<1> USE DEF IInv
<1>1. c \in Fifo /\ list[c] \in Seq(Item) BY DEF Fifo, TypeOK
<1>2. cpc[c] # "head" => list[c] # <<>> BY DEF ConsumerInv
<1>3. Held(c) \in Seq(Item) BY <1>1, <1>2 DEF Held
<1>4. ASSUME NEW i \in 1..Len(Held(c))
      PROVE  /\ Frozen(Held(c)[i]) /\ Held(c)[i] \in Item
             /\ ref[Held(c)[i]] \in ProducerItem /\ Frozen(ref[Held(c)[i]])
  <2>1. PICK j \in 1..Len(list[c]) : Held(c)[i] = list[c][j] /\ (cpc[c] # "head" => j # 1)
    <3>1. CASE cpc[c] = "head" BY <3>1, <1>4 DEF Held
    <3>2. CASE cpc[c] # "head"
      <4>1. /\ Len(Tail(list[c])) = Len(list[c]) - 1 /\ Len(list[c]) \in Nat
            /\ \A k \in 1..Len(Tail(list[c])) : Tail(list[c])[k] = list[c][k + 1]
        BY <1>1, <1>2, <3>2
      <4>2. i \in 1..Len(Tail(list[c])) /\ Held(c)[i] = Tail(list[c])[i]
        BY <1>4, <3>2 DEF Held
      <4>3. i + 1 \in 1..Len(list[c]) /\ i + 1 # 1 /\ Held(c)[i] = list[c][i + 1]
        BY <4>1, <4>2
      <4>4. QED BY <4>3
    <3>3. QED BY <3>1, <3>2
  <2>2. PICK x : x = list[c][j] OBVIOUS
  <2>3. x \in Item /\ x[1] = c /\ status[x] # "INIT" BY <1>1, <2>2 DEF ListInv
  <2>4. x \in ConsumerItem BY <2>3 DEF ConsumerItem
  <2>5. Counted(x)
    <3>1. InList(x) BY <2>2, <2>3 DEF InList
    <3>2. ~Released(x)
      <4>1. cpc[c] # "head" => Head(list[c]) = list[c][1] /\ 1 \in 1..Len(list[c])
        BY <1>1, <1>2
      <4>2. cpc[c] # "head" => list[c][1] # list[c][j] BY <1>1, <2>1, <4>1 DEF ListInv
      <4>3. QED BY <2>2, <2>3, <4>1, <4>2 DEF Released
    <3>3. QED BY <3>1, <3>2 DEF Counted
  <2>6. ref[x] \in ProducerItem /\ status[ref[x]] \in {"READY", "DOING"}
    BY <2>4, <2>5 DEF RefsAlive
  <2>7. QED BY <2>1, <2>2, <2>3, <2>4, <2>6 DEF Frozen
<1>5. QED BY <1>3, <1>4

\* Nothing that is seen of a live frame changes.
LEMMA SeenKept ==
  ASSUME IInv, [Next]_vars, NEW x \in Item, Frozen(x),
         ref[x] \in ProducerItem, Frozen(ref[x])
  PROVE  SeenMap'[x] = SeenMap[x]
<1>1. len'[x] = len[x] /\ flags'[x] = flags[x] /\ ref'[x] = ref[x] BY FieldsKept
<1>2. ref[x] \in Item BY DEF ProducerItem
<1>3. data'[ref[x]] = data[ref[x]] BY <1>2, FieldsKept
<1>4. QED BY <1>1, <1>3 DEF SeenMap, SeenIn

\* The mapping's queue in these terms, in this state and in the next.
LEMMA QueueIsMap ==
  ASSUME IInv, NEW c \in Consumers
  PROVE  QueueOf(c) = Map(SeenMap, Held(c))
<1>1. \A i \in 1..Len(Held(c)) : Held(c)[i] \in Item BY HeldItems
<1>2. QED BY <1>1 DEF QueueOf, Map, SeenMap, SeenIn, Seen, Held
\* A queue whose items stay is unchanged, one that loses its head item loses
\* its first frame, and one that gets a live item gets that item's frame.
LEMMA QueueSteps ==
  ASSUME IInv, [Next]_vars, NEW c \in Consumers
  PROVE  /\ Held(c)' = Held(c) => QueueOf(c)' = QueueOf(c)
         /\ Held(c) # <<>> /\ Held(c)' = Tail(Held(c)) =>
              QueueOf(c) # <<>> /\ QueueOf(c)' = Tail(QueueOf(c))
         /\ \A x \in Item :
              /\ Held(c)' = Append(Held(c), x)
              /\ Frozen(x) /\ ref[x] \in ProducerItem /\ Frozen(ref[x])
              => QueueOf(c)' = Append(QueueOf(c), SeenMap[x])
<1>1. IInv' BY NextIInv
<1>2. QueueOf(c) = Map(SeenMap, Held(c)) BY QueueIsMap
<1>3. QueueOf(c)' = Map(SeenMap', Held(c)')
  <2>1. \A i \in 1..Len(Held(c)') : Held(c)'[i] \in Item
    <3>1. c \in Fifo /\ list'[c] \in Seq(Item) BY <1>1 DEF Fifo, IInv, TypeOK
    <3>2. cpc'[c] # "head" => list'[c] # <<>> BY <1>1 DEF IInv, ConsumerInv
    <3>3. Held(c)' \in Seq(Item) BY <3>1, <3>2 DEF Held
    <3>4. QED BY <3>3
  <2>2. QED BY <2>1 DEF QueueOf, Map, SeenMap, SeenIn, Seen, Held
<1>4. PICK h : h = Held(c) OBVIOUS
<1>5. h \in Seq(Item) BY <1>4, HeldItems
<1>6. \A i \in 1..Len(h) : SeenMap'[h[i]] = SeenMap[h[i]]
  <2> TAKE i \in 1..Len(h)
  <2>1. h[i] \in Item /\ Frozen(h[i]) /\ ref[h[i]] \in ProducerItem /\ Frozen(ref[h[i]])
    BY <1>4, HeldItems
  <2>2. QED BY <2>1, SeenKept
<1>t. PICK T : T = {SeenMap[x] : x \in Item} OBVIOUS
<1>7. PICK f \in [Item -> T] : f = SeenMap
  <2>1. SeenMap \in [Item -> T] BY <1>t DEF SeenMap
  <2>2. QED BY <2>1
<1>8. PICK g : g = SeenMap' OBVIOUS
<1>9. \A i \in 1..Len(h) : g[h[i]] = f[h[i]] BY <1>6, <1>7, <1>8
<1>10. ASSUME Held(c)' = Held(c) PROVE QueueOf(c)' = QueueOf(c)
  <2>1. Map(g, h) = Map(f, h) BY <1>9, MapSame
  <2>2. QED BY <1>2, <1>3, <1>4, <1>7, <1>8, <1>10, <2>1
<1>11. ASSUME h # <<>>, Held(c)' = Tail(Held(c))
       PROVE  QueueOf(c) # <<>> /\ QueueOf(c)' = Tail(QueueOf(c))
  <2>1. \A i \in 1..Len(Tail(h)) : g[Tail(h)[i]] = f[Tail(h)[i]]
    <3>1. \A i \in 1..Len(Tail(h)) : Tail(h)[i] = h[i + 1] /\ i + 1 \in 1..Len(h)
      BY <1>5, <1>11
    <3>2. QED BY <1>9, <3>1
  <2>2. Map(g, Tail(h)) = Map(f, Tail(h)) BY <2>1, MapSame
  <2>3. Map(f, Tail(h)) = Tail(Map(f, h)) /\ Map(f, h) # <<>> BY <1>5, <1>11, MapTail
  <2>4. QED BY <1>2, <1>3, <1>4, <1>7, <1>8, <1>11, <2>2, <2>3
<1>12. ASSUME NEW x \in Item, Held(c)' = Append(Held(c), x),
              Frozen(x), ref[x] \in ProducerItem, Frozen(ref[x])
       PROVE  QueueOf(c)' = Append(QueueOf(c), SeenMap[x])
  <2>1. g[x] = f[x] BY <1>7, <1>8, <1>12, SeenKept
  <2>2. \A i \in 1..Len(Append(h, x)) : g[Append(h, x)[i]] = f[Append(h, x)[i]]
    <3>1. /\ Len(h) \in Nat /\ Len(Append(h, x)) = Len(h) + 1
          /\ \A i \in 1..Len(h) : Append(h, x)[i] = h[i]
          /\ Append(h, x)[Len(h) + 1] = x
      BY <1>5
    <3> TAKE i \in 1..Len(Append(h, x))
    <3>2. i \in 1..Len(h) \/ i = Len(h) + 1 BY <3>1
    <3>3. QED BY <1>9, <2>1, <3>1, <3>2
  <2>3. Map(g, Append(h, x)) = Map(f, Append(h, x)) BY <2>2, MapSame
  <2>4. Map(f, Append(h, x)) = Append(Map(f, h), f[x]) BY <1>5, <1>12, MapAppend
  <2>5. QED BY <1>2, <1>3, <1>4, <1>7, <1>8, <1>12, <2>3, <2>4
<1>13. QED BY <1>4, <1>10, <1>11, <1>12
-----------------------------------------------------------------------------
(* The frame a producer is handing out                                      *)

\* Outside datafifo_addto_consumers there is nothing to hand out; inside, the
\* frame stays the same as long as the consumer whose turn it is does.
LEMMA OutSame ==
  ASSUME IInv, [Next]_vars, NEW p \in Producers,
         \/ pc[p] \notin Distributing /\ pc'[p] \notin Distributing
         \/ /\ pc[p] \in Distributing /\ pc'[p] \in Distributing
            /\ con'[p] = con[p] /\ item'[p] = item[p]
  PROVE  TodoOf(p)' = TodoOf(p) /\ OutOf(p)' = OutOf(p)
<1>1. CASE pc[p] \notin Distributing /\ pc'[p] \notin Distributing
  BY <1>1 DEF TodoOf, OutOf
<1>2. CASE /\ pc[p] \in Distributing /\ pc'[p] \in Distributing
           /\ con'[p] = con[p] /\ item'[p] = item[p]
  <2>1. TodoOf(p)' = TodoOf(p) BY <1>2 DEF TodoOf
  <2>2. item[p] \in Item /\ item[p] \in ProducerItem /\ Frozen(item[p])
    BY <1>2 DEF IInv, ItemInv, Frozen, ProducerItem
  <2>3. /\ len'[item[p]] = len[item[p]] /\ flags'[item[p]] = flags[item[p]]
        /\ data'[item[p]] = data[item[p]]
    BY <2>2, FieldsKept
  <2>4. QED BY <1>2, <2>1, <2>3 DEF OutOf
<1>3. QED BY <1>1, <1>2

\* A frame that begins to be handed out is published, unless nobody is
\* connected.
LEMMA BeginsOut ==
  ASSUME RInv, RInv', NEW p \in Producers,
         pc[p] \notin Distributing, pc'[p] \in Distributing, con'[p] = 1
  PROVE  /\ TodoOf(p) = <<>> /\ OutOf(p) = "NoFrame"
         /\ TodoOf(p)' = Connected[p]
         /\ Connected[p] # <<>> =>
              OutOf(p)' \in [from : {p}, flags : FrameFlags, body : Seq(Byte)]
         /\ Connected[p] = <<>> => OutOf(p)' = "NoFrame"
<1>1. TodoOf(p) = <<>> /\ OutOf(p) = "NoFrame" BY DEF TodoOf, OutOf
<1>2. TodoOf(p)' = Connected[p]
  <2>1. Connected[p] \in Seq(Consumers) BY DataFifoAssumption
  <2>2. SubSeq(Connected[p], 1, Len(Connected[p])) = Connected[p] BY <2>1, SubSeqFull
  <2>3. QED BY <2>2 DEF TodoOf
<1>3. item'[p] \in Item /\ item'[p] \in ProducerItem
  BY DEF RInv, IInv, ItemInv, ProducerItem
<1>4. flags'[item'[p]] \in FrameFlags BY <1>3 DEF RInv, IInv, TypeOK
<1>5. SubSeq(data'[item'[p]], 1, len'[item'[p]]) \in Seq(Byte)
  <2>1. len'[item'[p]] \in Int BY <1>3 DEF RInv, IInv, TypeOK
  <2>2. \A n \in 1..len'[item'[p]] : data'[item'[p]][n] \in Byte
    BY <1>3 DEF RInv, BodyInv
  <2>3. QED BY <2>1, <2>2, SubSeqProperties
<1>6. Connected[p] # <<>> =>
        OutOf(p)' = [from |-> p, flags |-> flags'[item'[p]],
                     body |-> SubSeq(data'[item'[p]], 1, len'[item'[p]])]
  BY <1>2 DEF OutOf
<1>7. QED BY <1>1, <1>2, <1>4, <1>5, <1>6 DEF OutOf

\* When the consumer's item is added, its frame is the one handed out, and
\* the turn passes to the next consumer.
LEMMA DeliversOut ==
  ASSUME RInv, [Next]_vars, NEW p \in Producers, AddToConsumer(p)
  PROVE  /\ TodoOf(p) # <<>> /\ Head(TodoOf(p)) = citem[p][1]
         /\ TodoOf(p)' = Tail(TodoOf(p))
         /\ OutOf(p) = SeenMap[citem[p]]
         /\ OutOf(p)' = IF Tail(TodoOf(p)) = <<>> THEN "NoFrame" ELSE OutOf(p)
<1>1. /\ pc[p] = "add_con" /\ pc'[p] = "next_con" /\ con'[p] = con[p] + 1
      /\ item' = item /\ UNCHANGED <<ref, len, flags, data>>
  BY DEF AddToConsumer, Goto, RInv, IInv, TypeOK
<1>2. HasCitem(p) /\ pc[p] \in Distributing /\ pc'[p] \in Distributing
  BY <1>1 DEF HasCitem, Distributing
<1>3. Connected[p] \in Seq(Consumers) BY DataFifoAssumption
<1>4. con[p] \in 1..Len(Connected[p]) /\ Len(Connected[p]) \in Nat
  BY <1>2, <1>3 DEF RInv, HandedInv, IInv, TypeOK
<1>5. TodoOf(p) = SubSeq(Connected[p], con[p], Len(Connected[p])) BY <1>2 DEF TodoOf
<1>6. /\ Head(TodoOf(p)) = Connected[p][con[p]]
      /\ Tail(TodoOf(p)) = SubSeq(Connected[p], con[p] + 1, Len(Connected[p]))
  <2>1. Len(Connected[p]) \in con[p]..Len(Connected[p]) BY <1>4
  <2>2. QED BY <1>3, <1>4, <1>5, <2>1, HeadTailOfSubSeq
<1>7. TodoOf(p) # <<>>
  <2>1. Len(TodoOf(p)) = Len(Connected[p]) - con[p] + 1 BY <1>3, <1>4, <1>5
  <2>2. Len(TodoOf(p)) # 0 BY <1>4, <2>1
  <2>3. QED BY <2>2
<1>8. TodoOf(p)' = Tail(TodoOf(p)) BY <1>1, <1>2, <1>6 DEF TodoOf
<1>9. OutOf(p) = [from |-> p, flags |-> flags[item[p]],
                  body |-> SubSeq(data[item[p]], 1, len[item[p]])]
  BY <1>7 DEF OutOf
<1>10. OutOf(p) = SeenMap[citem[p]]
  <2>1. /\ citem[p] \in Item /\ ref[citem[p]] = item[p] /\ item[p][1] = p
        /\ len[citem[p]] = len[item[p]] /\ flags[citem[p]] = flags[item[p]]
    BY <1>2 DEF RInv, IInv, CitemInv, ItemInv, HandedInv
  <2>2. QED BY <1>9, <2>1 DEF SeenMap, SeenIn
<1>11. OutOf(p)' = IF Tail(TodoOf(p)) = <<>> THEN "NoFrame" ELSE OutOf(p)
  BY <1>1, <1>8, <1>9 DEF OutOf
<1>12. QED BY <1>2, <1>6, <1>7, <1>8, <1>10, <1>11 DEF RInv, HandedInv
-----------------------------------------------------------------------------
(* Every step is a step of the broadcast                                    *)

OutStays(p) == TodoOf(p)' = TodoOf(p) /\ OutOf(p)' = OutOf(p)
HeldStays(c) == Held(c)' = Held(c)

\* A step that changes neither what is held nor what is handed out is hidden.
LEMMA Hidden ==
  ASSUME IInv, [Next]_vars, \A c \in Consumers : HeldStays(c), \A p \in Producers : OutStays(p)
  PROVE  UNCHANGED Broadcast!vars
<1>1. \A c \in Consumers : QueueOf(c)' = QueueOf(c) BY QueueSteps DEF HeldStays
<1>2. QED BY <1>1 DEF Broadcast!vars, OutStays

\* Beginning to hand out a frame publishes it.
LEMMA Publishes ==
  ASSUME RInv, RInv', [Next]_vars, \A c \in Consumers : HeldStays(c), NEW p \in Producers,
         \A q \in Producers : q # p => OutStays(q),
         pc[p] \notin Distributing, pc'[p] \in Distributing, con'[p] = 1
  PROVE  [Broadcast!Next]_(Broadcast!vars)
<1>1. \A c \in Consumers : QueueOf(c)' = QueueOf(c) BY QueueSteps DEF HeldStays, RInv
<1>2. CASE Connected[p] = <<>>
  <2>1. OutStays(p) BY <1>2, BeginsOut DEF OutStays
  <2>2. QED BY <2>1, Hidden DEF RInv
<1>3. CASE Connected[p] # <<>>
  <2>1. /\ TodoOf(p) = <<>> /\ TodoOf(p)' = Connected[p]
        /\ OutOf(p)' \in [from : {p}, flags : FrameFlags, body : Seq(Byte)]
    BY <1>3, BeginsOut
  <2>2. Broadcast!Publish(p)
    BY <1>1, <1>3, <2>1 DEF Broadcast!Publish, Broadcast!FrameOf, OutStays
  <2>3. QED BY <2>2 DEF Broadcast!Next
<1>4. QED BY <1>2, <1>3

\* Adding a consumer's item delivers the frame.
LEMMA Delivers ==
  ASSUME RInv, [Next]_vars, NEW p \in Producers, AddToConsumer(p)
  PROVE  Broadcast!Deliver(p)
<1>x. PICK x : x = citem[p] OBVIOUS
<1>d. PICK d : d = citem[p][1] OBVIOUS
<1>1. /\ pc[p] = "add_con" /\ cpc' = cpc
      /\ list' = [list EXCEPT ![d] = Append(@, x)]
  BY <1>x, <1>d DEF AddToConsumer
<1>2. HasCitem(p) BY <1>1 DEF HasCitem
<1>3. /\ x \in Item /\ d \in Consumers /\ d \in Fifo /\ Frozen(x)
      /\ ref[x] = item[p]
  BY <1>x, <1>d, <1>2 DEF RInv, IInv, CitemInv, Frozen, ConsumerItem, Fifo
<1>4. ref[x] \in ProducerItem /\ Frozen(ref[x])
  BY <1>1, <1>3 DEF RInv, IInv, ItemInv, Distributing, Frozen, ProducerItem
<1>5. /\ TodoOf(p) # <<>> /\ Head(TodoOf(p)) = d /\ TodoOf(p)' = Tail(TodoOf(p))
      /\ OutOf(p) = SeenMap[x]
      /\ OutOf(p)' = IF Tail(TodoOf(p)) = <<>> THEN "NoFrame" ELSE OutOf(p)
  BY <1>x, <1>d, DeliversOut
<1>6. Held(d)' = Append(Held(d), x)
  <2>1. list[d] \in Seq(Item) /\ list'[d] = Append(list[d], x)
    BY <1>1, <1>3 DEF RInv, IInv, TypeOK
  <2>2. CASE cpc[d] = "head" BY <1>1, <2>1, <2>2 DEF Held
  <2>3. CASE cpc[d] # "head"
    <3>1. list[d] # <<>> BY <1>3, <2>3 DEF RInv, IInv, ConsumerInv
    <3>2. Tail(Append(list[d], x)) = Append(Tail(list[d]), x)
      BY <1>3, <2>1, <3>1
    <3>3. QED BY <1>1, <2>1, <2>3, <3>2 DEF Held
  <2>4. QED BY <2>2, <2>3
<1>7. QueueOf(d)' = Append(QueueOf(d), OutOf(p))
  BY <1>3, <1>4, <1>5, <1>6, QueueSteps DEF RInv
<1>8. \A c \in Consumers : c # d => QueueOf(c)' = QueueOf(c)
  <2> SUFFICES ASSUME NEW c \in Consumers, c # d PROVE Held(c)' = Held(c)
    BY QueueSteps DEF RInv
  <2>1. list'[c] = list[c] BY <1>1, <1>3 DEF RInv, IInv, TypeOK, Fifo
  <2>2. QED BY <1>1, <2>1 DEF Held
<1>9. \A q \in Producers : q # p => TodoOf(q)' = TodoOf(q) /\ OutOf(q)' = OutOf(q)
  <2> SUFFICES ASSUME NEW q \in Producers, q # p
               PROVE  pc'[q] = pc[q] /\ con'[q] = con[q] /\ item'[q] = item[q]
    BY OutSame DEF RInv
  <2> QED BY DEF AddToConsumer, Goto, RInv, IInv, TypeOK
<1>10. QED BY <1>3, <1>5, <1>7, <1>8, <1>9 DEF Broadcast!Deliver, Broadcast!NoFrame

\* Giving the reference back consumes the frame.
LEMMA Consumes ==
  ASSUME IInv, [Next]_vars, NEW c \in Consumers, Release(c)
  PROVE  Broadcast!Consume(c)
<1>1. /\ cpc[c] = "head" /\ list[c] # <<>> /\ list' = list
      /\ cpc' = [cpc EXCEPT ![c] = "check"] /\ UNCHANGED prodVars
  BY DEF Release
<1>2. Held(c) # <<>> /\ Held(c)' = Tail(Held(c)) BY <1>1 DEF Held, IInv, TypeOK
<1>3. QueueOf(c) # <<>> /\ QueueOf(c)' = Tail(QueueOf(c)) BY <1>2, QueueSteps
<1>4. \A e \in Consumers : e # c => QueueOf(e)' = QueueOf(e)
  <2> SUFFICES ASSUME NEW e \in Consumers, e # c PROVE Held(e)' = Held(e)
    BY QueueSteps
  <2> QED BY <1>1 DEF Held, IInv, TypeOK
<1>5. \A q \in Producers : TodoOf(q)' = TodoOf(q) /\ OutOf(q)' = OutOf(q)
  BY <1>1, OutSame DEF prodVars
<1>6. QED BY <1>3, <1>4, <1>5 DEF Broadcast!Consume
\* What the other steps of a producer's thread leave alone.
LEMMA ProducerHidden ==
  ASSUME RInv, [Next]_vars, NEW p \in Producers,
         \/ \E a \in Calls : Call(p, a)
         \/ AllocFrame(p) \/ LinkFrame(p) \/ CheckTail(p) \/ AllocForConsumer(p)
         \/ CountReference(p) \/ SetDoing(p) \/ ProducerCheck(p)
  PROVE  UNCHANGED Broadcast!vars
<1> USE DEF RInv, IInv
<1> DEFINE Others == \A q \in Producers : q # p =>
                       pc'[q] = pc[q] /\ con'[q] = con[q] /\ item'[q] = item[q]
<1> DEFINE Lists == cpc' = cpc /\ \A c \in Consumers : list'[c] = list[c]
<1>1. Others /\ Lists
  <2> USE DEF Goto, TypeOK
  <2>1. ASSUME NEW a \in Calls, Call(p, a) PROVE Others /\ Lists
    BY <2>1 DEF Call, fifoVars
  <2>2. CASE AllocFrame(p) BY <2>2 DEF AllocFrame
  <2>3. CASE LinkFrame(p) BY <2>3, DataFifoAssumption DEF LinkFrame, Fifo
  <2>4. CASE CheckTail(p) BY <2>4 DEF CheckTail, fifoVars
  <2>5. CASE AllocForConsumer(p) BY <2>5 DEF AllocForConsumer
  <2>6. CASE CountReference(p) BY <2>6 DEF CountReference
  <2>7. CASE SetDoing(p) BY <2>7 DEF SetDoing
  <2>8. CASE ProducerCheck(p)
    <3>1. \A f \in Fifo : f # p => list'[f] = list[f]
      BY <2>8, RemoveCheckEffect DEF ProducerCheck
    <3>2. QED BY <2>8, <3>1, DataFifoAssumption DEF ProducerCheck, Fifo
  <2>9. QED BY <2>1, <2>2, <2>3, <2>4, <2>5, <2>6, <2>7, <2>8
<1>2. \A c \in Consumers : HeldStays(c) BY <1>1 DEF HeldStays, Held
<1>3. \A q \in Producers : q # p => OutStays(q) BY <1>1, OutSame DEF OutStays
<1>4. OutStays(p)
  <2>1. CASE SetDoing(p)
    <3>1. pc[p] = "next_con" /\ con[p] > Len(Connected[p]) /\ pc'[p] = "check"
      BY <2>1 DEF SetDoing, Goto, TypeOK
    <3>2. Connected[p] \in Seq(Consumers) BY DataFifoAssumption
    <3>3. SubSeq(Connected[p], con[p], Len(Connected[p])) = <<>>
      BY <3>1, <3>2, SubSeqEmpty DEF TypeOK
    <3>4. TodoOf(p) = <<>> BY <3>3 DEF TodoOf
    <3>5. TodoOf(p)' = <<>> BY <3>1 DEF TodoOf, Distributing
    <3>6. QED BY <3>4, <3>5 DEF OutStays, OutOf
  <2>2. CASE AllocForConsumer(p) \/ CountReference(p)
    <3>1. /\ pc[p] \in Distributing /\ pc'[p] \in Distributing
          /\ con'[p] = con[p] /\ item'[p] = item[p]
      BY <2>2 DEF AllocForConsumer, CountReference, Goto, Distributing, TypeOK
    <3>2. QED BY <3>1, OutSame DEF OutStays
  <2>3. CASE \/ \E a \in Calls : Call(p, a)
             \/ AllocFrame(p) \/ LinkFrame(p) \/ CheckTail(p) \/ ProducerCheck(p)
    <3>1. pc[p] \notin Distributing /\ pc'[p] \notin Distributing
      BY <2>3 DEF Call, AllocFrame, LinkFrame, CheckTail, ProducerCheck, Goto, Distributing,
         TypeOK
    <3>2. QED BY <3>1, OutSame DEF OutStays
  <2>4. QED BY <2>1, <2>2, <2>3
<1>5. QED BY <1>2, <1>3, <1>4, Hidden

\* The two steps that may begin to hand out a frame.
LEMMA FlushOrCopy ==
  ASSUME RInv, RInv', [Next]_vars, NEW p \in Producers, Flush(p) \/ CopyPacket(p)
  PROVE  [Broadcast!Next]_(Broadcast!vars)
<1> USE DEF RInv, IInv
<1>1. /\ list' = list /\ cpc' = cpc
      /\ \A q \in Producers : q # p =>
           pc'[q] = pc[q] /\ con'[q] = con[q] /\ item'[q] = item[q]
  <2>1. CASE Flush(p) BY <2>1 DEF Flush, Goto, TypeOK
  <2>2. CASE CopyPacket(p) BY <2>2 DEF CopyPacket, FrameEnd, Goto, TypeOK
  <2>3. QED BY <2>1, <2>2
<1>2. \A c \in Consumers : HeldStays(c) BY <1>1 DEF HeldStays, Held
<1>3. \A q \in Producers : q # p => OutStays(q) BY <1>1, OutSame DEF OutStays
<1>4. pc[p] \notin Distributing
  BY DEF Flush, CopyPacket, Distributing
<1>5. pc'[p] \in {"idle", "link"} \/ (pc'[p] = "next_con" /\ con'[p] = 1)
  <2>1. CASE Flush(p) BY <2>1 DEF Flush, Goto, TypeOK
  <2>2. CASE CopyPacket(p) BY <2>2 DEF CopyPacket, FrameEnd, Goto, TypeOK
  <2>3. QED BY <2>1, <2>2
<1>6. CASE pc'[p] \in {"idle", "link"}
  <2>1. pc'[p] \notin Distributing BY <1>6 DEF Distributing
  <2>2. OutStays(p) BY <1>4, <2>1, OutSame DEF OutStays
  <2>3. QED BY <1>2, <1>3, <2>2, Hidden
<1>7. CASE pc'[p] = "next_con" /\ con'[p] = 1
  <2>1. pc'[p] \in Distributing BY <1>7 DEF Distributing
  <2>2. QED BY <1>2, <1>3, <1>4, <1>7, <2>1, Publishes
<1>8. QED BY <1>5, <1>6, <1>7

\* After the reference is given back, the rest of remove_head is hidden.
LEMMA ConsumerHidden ==
  ASSUME RInv, [Next]_vars, NEW c \in Consumers, ConsumerCheck(c) \/ Unlink(c)
  PROVE  UNCHANGED Broadcast!vars
<1> USE DEF RInv, IInv
<1>1. \A q \in Producers : OutStays(q)
  <2>1. UNCHANGED prodVars BY DEF ConsumerCheck, Unlink
  <2>2. QED BY <2>1, OutSame DEF OutStays, prodVars
<1>2. CASE ConsumerCheck(c)
  <2>1. /\ cpc[c] = "check" /\ cpc' = [cpc EXCEPT ![c] = "unlink"]
        /\ RemoveCheck(ref[Head(list[c])][1])
    BY <1>2 DEF ConsumerCheck
  <2>2. PICK p \in Producers : p = ref[Head(list[c])][1]
    BY <2>1, HeadRef DEF ProducerItem
  <2>3. \A f \in Fifo : f # p => list'[f] = list[f]
    BY <2>1, <2>2, RemoveCheckEffect
  <2>4. \A e \in Consumers : list'[e] = list[e]
    BY <2>3, DataFifoAssumption DEF Fifo
  <2>5. \A e \in Consumers : HeldStays(e) BY <2>1, <2>4 DEF HeldStays, Held, TypeOK
  <2>6. QED BY <1>1, <2>5, Hidden
<1>3. CASE Unlink(c)
  <2>1. \A e \in Consumers : HeldStays(e)
    BY <1>3 DEF Unlink, HeldStays, Held, TypeOK, Fifo
  <2>2. QED BY <1>1, <2>1, Hidden
<1>4. QED BY <1>2, <1>3

\* Every step of the frame queue is one of the broadcast, or hidden.
LEMMA StepRefines == RInv /\ RInv' /\ [Next]_vars => [Broadcast!Next]_(Broadcast!vars)
<1> SUFFICES ASSUME RInv, RInv', [Next]_vars PROVE [Broadcast!Next]_(Broadcast!vars)
  OBVIOUS
<1>1. CASE UNCHANGED vars
  <2>1. \A c \in Consumers : HeldStays(c)
    BY <1>1 DEF HeldStays, Held, vars, fifoVars
  <2>2. \A p \in Producers : OutStays(p)
    BY <1>1 DEF OutStays, TodoOf, OutOf, vars, fifoVars, prodVars
  <2>3. QED BY <2>1, <2>2, Hidden DEF RInv
<1>2. ASSUME NEW p \in Producers, NEW a \in Calls, Call(p, a)
      PROVE  [Broadcast!Next]_(Broadcast!vars)
  BY <1>2, ProducerHidden
<1>3. ASSUME NEW p \in Producers, ProducerStep(p) PROVE [Broadcast!Next]_(Broadcast!vars)
  <2>1. CASE Flush(p) \/ CopyPacket(p) BY <2>1, FlushOrCopy
  <2>2. CASE AddToConsumer(p)
    <3>1. Broadcast!Deliver(p) BY <2>2, Delivers
    <3>2. QED BY <3>1 DEF Broadcast!Next
  <2>3. CASE ~(Flush(p) \/ CopyPacket(p) \/ AddToConsumer(p))
    BY <1>3, <2>3, ProducerHidden DEF ProducerStep
  <2>4. QED BY <2>1, <2>2, <2>3
<1>4. ASSUME NEW c \in Consumers, ConsumerStep(c) PROVE [Broadcast!Next]_(Broadcast!vars)
  <2>1. CASE Release(c)
    <3>1. Broadcast!Consume(c) BY <2>1, Consumes DEF RInv
    <3>2. QED BY <3>1 DEF Broadcast!Next
  <2>2. CASE ConsumerCheck(c) \/ Unlink(c) BY <2>2, ConsumerHidden
  <2>3. QED BY <1>4, <2>1, <2>2 DEF ConsumerStep
<1>5. QED BY <1>1, <1>2, <1>3, <1>4 DEF Next

\* The frame queue implements the broadcast: whatever the interleaving, every
\* finished frame reaches each connected consumer once, whole, in the order
\* the frames were finished, and stays as it is until the consumer is done.
THEOREM Implements == Spec => ImplementsBroadcast
<1>1. Init => Broadcast!Init
  <2> SUFFICES ASSUME Init PROVE Broadcast!Init OBVIOUS
  <2>1. \A c \in Consumers : QueueOf(c) = <<>>
    BY DEF Init, QueueOf, Fifo
  <2>2. \A p \in Producers : TodoOf(p) = <<>> /\ OutOf(p) = "NoFrame"
    BY DEF Init, TodoOf, OutOf, Distributing
  <2>3. QED BY <2>1, <2>2 DEF Broadcast!Init, Broadcast!NoFrame
<1>2. QED
  BY <1>1, StepRefines, MappingInvariance, PTL DEF Spec, ImplementsBroadcast, Broadcast!Spec
=============================================================================
