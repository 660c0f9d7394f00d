--------------------------- MODULE TrackingProofs ---------------------------
(***************************************************************************)
(* Theorems about Tracking, for rooms, ranges and queues of any size; and   *)
(* about the threads that loop runs through and the frame queues between   *)
(* them and all others (Pipeline, in the last sections; the two share no   *)
(* state), for any boards that are connected and queues of any size.       *)
(***************************************************************************)
EXTENDS Tracking, Pipeline, TLAPS, FiniteSetTheorems, SequenceTheorems

-----------------------------------------------------------------------------
(* The inductive invariants                                                 *)

\* What a picture can show: an offset from its middle, or nobody.
Offset == (-View .. View) \cup {None}

(* The variables keep their types; thread_img's counter stays below         *)
(* SKIP_STEP, and no more pictures are under way than the path holds.       *)
TypeOK ==
  /\ zone \in Zones /\ teacher \in Pan \cup {Away}
  /\ at \in Pan /\ goal \in Pan \cup {NoGoal} /\ answer \in BOOLEAN
  /\ PanPos \in Pan /\ target \in Pan /\ pending \in BOOLEAN
  /\ direction \in {-1, 1} /\ in_left \in 0 .. Patience - 1 /\ in_right \in 0 .. Patience - 1
  /\ acc_of_lost \in 0 .. 8
  /\ still \in BOOLEAN /\ frame_num \in 0 .. SKIP_STEP - 1 /\ num_in_group \in 0 .. 1
  /\ imgs \in Seq(Picture) /\ Len(imgs) <= Depth
  /\ filtered \in Seq(Sample) /\ last \in Pan \cup {Blur} /\ events \in Seq(Offset)
  /\ clean \in BOOLEAN /\ answersLost \in BOOLEAN /\ outside \in Nat

(* The places the program and the camera go by are all allowed: lost        *)
(* answers make them differ, but each is the destination of an order.       *)
Places ==
  /\ at \in Allowed(zone) /\ PanPos \in Allowed(zone) /\ target \in Allowed(zone)
  /\ goal # NoGoal => goal \in Allowed(zone)

(* The camera only turns, or has an answer under way, while an order is     *)
(* pending; sampling is only suspended by a tracking order, with the        *)
(* counters reset, and resumes with its end.                                *)
Pending ==
  /\ ~pending => goal = NoGoal /\ ~answer
  /\ answer => goal = NoGoal
  /\ ~still => pending /\ clean /\ frame_num = 0 /\ num_in_group = 0
  /\ clean /\ pending => ~still

ZoneInv == TypeOK /\ Places /\ Pending

(* Once sampling has resumed, the pictures of the turn that are still under *)
(* way are among those that will be skipped.                                *)
Skipped ==
  clean /\ still =>
    \A j \in 1 .. Len(imgs) :
      num_in_group = 1 \/ frame_num + j >= SKIP_STEP => imgs[j].at = at

\* The place of the sample before the next one.
Before == IF filtered = <<>> THEN last ELSE filtered[Len(filtered)].pic.at

(* The next sample of a group is compared with one of the same place.       *)
Continued == clean /\ num_in_group = 1 => Before = at

IInv == ZoneInv /\ Skipped /\ Continued /\ SamePlace

-----------------------------------------------------------------------------
(* Where orders send the camera                                             *)

\* Allowed places are pan positions, and with an excluded zone each of them
\* is on one side of it.
LEMMA AllowedPlaces ==
  ASSUME NEW z \in Zones, NEW p \in Allowed(z)
  PROVE  /\ p \in Pan /\ p \in Int
         /\ z.limit_left \in Int /\ z.limit_right \in Int
         /\ z.exclude_left \in Int /\ z.exclude_right \in Int
         /\ z.limit_left <= p /\ p <= z.limit_right
         /\ z.limit_left <= z.exclude_left /\ z.exclude_left < z.exclude_right
         /\ z.exclude_right <= z.limit_right
         /\ z.IsExclude => p <= z.exclude_left \/ p >= z.exclude_right
<1>1. z \in Zone BY TrackingAssumption
<1>2. /\ z.limit_left \in 0 .. MaxPan /\ z.limit_right \in 0 .. MaxPan
      /\ z.exclude_left \in 0 .. MaxPan /\ z.exclude_right \in 0 .. MaxPan
  BY <1>1 DEF Zone, Pan
<1>3. QED BY <1>2, TrackingAssumption DEF Allowed, Pan

\* A finding never makes the program order the camera out of its range.
LEMMA TrackToAllowed ==
  ASSUME zone \in Zones, NEW p \in Allowed(zone), NEW d \in Int
  PROVE  TrackTo(p, d) \in Allowed(zone)
BY AllowedPlaces DEF TrackTo, Within, Max2, Min2, RightPart, LeftPart, Allowed

\* Nor does the scan, and it either goes on or turns round.
LEMMA ScanToAllowed ==
  ASSUME zone \in Zones, PanPos \in Allowed(zone), NEW d \in Int
  PROVE  ScanTo(d).dest \in Allowed(zone) /\ ScanTo(d).turn \in {-1, 1}
BY AllowedPlaces DEF ScanTo, RightPart, LeftPart, Allowed
-----------------------------------------------------------------------------
(* A finding and what comes of it                                           *)

\* An order that moves the camera: the samples end, the counters are reset.
Sent(dest) ==
  /\ ~pending /\ pending' = TRUE /\ target' = dest /\ goal' = dest
  /\ still' = FALSE /\ frame_num' = 0 /\ num_in_group' = 0 /\ clean' = TRUE

Kept == UNCHANGED <<pending, target, goal, sync>>

\* The orders of Stand and AbsPos go together.
LEMMA OrderEffect ==
  ASSUME NEW dest \in Allowed(zone), ~pending, Order(dest)
  PROVE  Kept \/ Sent(dest)
BY DEF Order, Stand, AbsPos, Kept, Sent

\* An analysis result leaves camera and samples alone or sends the camera to
\* a place it may look at.
LEMMA VidEventEffect ==
  ASSUME ZoneInv, VidEvent
  PROVE  /\ Kept \/ \E dest \in Allowed(zone) : Sent(dest)
         /\ direction' \in {-1, 1}
         /\ in_left' \in 0 .. Patience - 1 /\ in_right' \in 0 .. Patience - 1
         /\ acc_of_lost' \in 0 .. 8
<1> USE TrackingAssumption
<1>1. /\ zone \in Zones /\ PanPos \in Allowed(zone) /\ PanPos \in Int
      /\ Head(events) \in Int /\ direction \in {-1, 1} /\ View \in Int
      /\ in_left \in 0 .. Patience - 1 /\ in_right \in 0 .. Patience - 1
      /\ acc_of_lost \in 0 .. 8
  <2>1. Head(events) \in Offset BY DEF VidEvent, ZoneInv, TypeOK
  <2>2. QED BY <2>1 DEF Offset, None, ZoneInv, TypeOK, Places, Pan
<1>2. CASE pending
  BY <1>1, <1>2 DEF VidEvent, Kept, search
<1>3. CASE ~pending /\ Found(Head(events))
  <2> DEFINE off == Head(events)
  <2>1. CASE Turns(off)
    <3> DEFINE dest == TrackTo(PanPos, PanPos + off)
    <3>1. dest \in Allowed(zone) BY <1>1, TrackToAllowed
    <3>2. Order(dest) /\ direction' \in {-1, 1} /\ in_left' = 0 /\ in_right' = 0
      BY <1>3, <2>1 DEF Found
    <3>3. acc_of_lost' = 0 BY <1>3 DEF Found
    <3>4. 0 \in 0 .. Patience - 1 /\ 0 \in 0 .. 8 OBVIOUS
    <3> HIDE DEF dest
    <3>5. QED BY <1>3, <3>1, <3>2, <3>3, <3>4, OrderEffect
  <2>2. CASE ~Turns(off)
    <3>1. /\ UNCHANGED <<direction, pending, target, goal, sync>>
          /\ acc_of_lost' = 0
          /\ in_right' = IF Beside(off) /\ off > 0 THEN in_right + 1 ELSE 0
          /\ in_left' = IF Beside(off) /\ off < 0 THEN in_left + 1 ELSE 0
      BY <1>3, <2>2 DEF Found
    <3>2. in_left' \in 0 .. Patience - 1 /\ in_right' \in 0 .. Patience - 1
      BY <1>1, <2>2, <3>1 DEF Turns, Beside
    <3>3. QED BY <1>1, <3>1, <3>2 DEF Kept
  <2>3. QED BY <2>1, <2>2
<1>4. CASE ~pending /\ NotFound(Head(events))
  <2>1. acc_of_lost' \in 0 .. 8 /\ UNCHANGED <<in_left, in_right>>
    BY <1>1, <1>4 DEF NotFound
  <2>2. CASE acc_of_lost' = 6
    <3> DEFINE d == PanPos + View * direction
    <3>1. d \in Int BY <1>1
    <3> DEFINE s == ScanTo(d)
    <3> HIDE DEF d
    <3>2. s.dest \in Allowed(zone) /\ s.turn \in {-1, 1} BY <1>1, <3>1, ScanToAllowed
    <3> HIDE DEF s
    <3>3. Order(s.dest) /\ direction' = direction * s.turn
      BY <1>4, <2>2 DEF NotFound, Scan, s, d
    <3>4. direction' \in {-1, 1} BY <1>1, <3>2, <3>3
    <3>5. QED BY <1>1, <1>4, <2>1, <3>2, <3>3, <3>4, OrderEffect
  <2>3. CASE acc_of_lost' # 6
    BY <1>1, <1>4, <2>1, <2>3 DEF NotFound, Kept
  <2>4. QED BY <2>2, <2>3
<1>5. QED BY <1>2, <1>3, <1>4 DEF VidEvent
-----------------------------------------------------------------------------
(* The camera stays in its zone                                             *)

\* The initialised holder is at home.
LEMMA InitZone == Init => ZoneInv
<1> SUFFICES ASSUME Init PROVE ZoneInv OBVIOUS
<1> USE TrackingAssumption DEF Init
<1>1. zone.home \in Allowed(zone) /\ zone.home \in Pan BY AllowedPlaces
<1>2. imgs \in Seq(Picture) /\ filtered \in Seq(Sample) /\ events \in Seq(Offset)
      /\ Len(imgs) <= Depth
  OBVIOUS
<1>3. answer \in BOOLEAN /\ pending \in BOOLEAN /\ still \in BOOLEAN /\ clean \in BOOLEAN
      /\ answersLost \in BOOLEAN
  OBVIOUS
<1>4. frame_num \in 0 .. SKIP_STEP - 1 /\ in_left \in 0 .. Patience - 1
      /\ in_right \in 0 .. Patience - 1 /\ num_in_group \in 0 .. 1
  OBVIOUS
<1>5. TypeOK BY <1>1, <1>2, <1>3, <1>4 DEF TypeOK
<1>6. Places BY <1>1 DEF Places
<1>7. Pending BY DEF Pending
<1>8. QED BY <1>5, <1>6, <1>7 DEF ZoneInv

\* thread_img's counter runs through 0 .. SKIP_STEP - 1.
LEMMA Counter ==
  ASSUME NEW n \in 0 .. SKIP_STEP - 1
  PROVE  /\ (n + 1) % SKIP_STEP \in 0 .. SKIP_STEP - 1
         /\ (n + 1) % SKIP_STEP = IF n + 1 = SKIP_STEP THEN 0 ELSE n + 1
BY TrackingAssumption

\* thread_img keeps the types.
LEMMA SamplingType == ASSUME TypeOK, Sampling PROVE TypeOK'
<1>1. imgs' \in Seq(Picture) /\ Len(imgs') <= Depth /\ Head(imgs) \in Picture
  BY TrackingAssumption DEF TypeOK, Sampling
<1>2. frame_num' \in 0 .. SKIP_STEP - 1
  BY Counter DEF TypeOK, Sampling
<1>3. num_in_group' \in 0 .. 1
  BY DEF TypeOK, Sampling
<1>4. filtered' \in Seq(Sample)
  <2> DEFINE s == [pic |-> Head(imgs), num |-> num_in_group, clean |-> clean]
  <2>1. s \in Sample BY <1>1 DEF Sample, TypeOK
  <2>2. filtered' = filtered \/ filtered' = Append(filtered, s) BY DEF Sampling
  <2>3. filtered \in Seq(Sample) BY DEF TypeOK
  <2> HIDE DEF s
  <2>4. QED BY <2>1, <2>2, <2>3
<1>5. QED BY <1>1, <1>2, <1>3, <1>4 DEF TypeOK, Sampling, room, holder, search, bounds

\* thread_analyze keeps the types.
LEMMA AnalyzeType == ASSUME TypeOK, Analyze PROVE TypeOK'
<1>1. Head(filtered) \in Sample /\ filtered' \in Seq(Sample)
  BY DEF TypeOK, Analyze
<1>2. last' \in Pan \cup {Blur}
  BY <1>1 DEF Analyze, Sample, Picture
<1>3. DetectFrame(Head(filtered)) \subseteq Offset
  BY <1>1 DEF DetectFrame, Sample, Picture, Offset
<1>4. events' \in Seq(Offset)
  BY <1>3 DEF Analyze
<1>5. QED BY <1>1, <1>2, <1>4 DEF TypeOK, Analyze, room, holder, search, sync, bounds

\* A result keeps the zone.
LEMMA VidEventZone == ASSUME ZoneInv, VidEvent PROVE ZoneInv'
<1>1. /\ direction' \in {-1, 1} /\ acc_of_lost' \in 0 .. 8
      /\ in_left' \in 0 .. Patience - 1 /\ in_right' \in 0 .. Patience - 1
  BY VidEventEffect
<1>2. UNCHANGED <<zone, teacher, at, answer, PanPos, imgs, filtered, last, answersLost, outside>>
  BY DEF VidEvent, bounds
<1>3. events' \in Seq(Offset) BY DEF VidEvent, ZoneInv, TypeOK
<1>4. CASE Kept
  BY <1>1, <1>2, <1>3, <1>4 DEF Kept, sync, ZoneInv, TypeOK, Places, Pending
<1>5. ASSUME NEW dest \in Allowed(zone), Sent(dest) PROVE ZoneInv'
  <2>1. dest \in Pan /\ dest # NoGoal BY AllowedPlaces DEF ZoneInv, TypeOK, Pan, NoGoal
  <2>2. pending' \in BOOLEAN /\ still' \in BOOLEAN /\ clean' \in BOOLEAN BY <1>5 DEF Sent
  <2>3. frame_num' \in 0 .. SKIP_STEP - 1 /\ num_in_group' \in 0 .. 1
    BY <1>5, TrackingAssumption DEF Sent
  <2>4. target' \in Pan /\ goal' \in Pan \cup {NoGoal} BY <1>5, <2>1 DEF Sent
  <2>5. TypeOK' BY <1>1, <1>2, <1>3, <2>2, <2>3, <2>4 DEF ZoneInv, TypeOK
  <2>6. Places' BY <1>2, <1>5 DEF ZoneInv, Places, Sent
  <2>7. ~answer BY <1>5 DEF ZoneInv, Pending, Sent
  <2>8. Pending' BY <1>2, <1>5, <2>7 DEF Pending, Sent
  <2>9. QED BY <2>5, <2>6, <2>8 DEF ZoneInv
<1>6. QED BY <1>4, <1>5, VidEventEffect

\* So does every other step.
LEMMA NextZone == ZoneInv /\ [Next]_vars => ZoneInv'
<1> SUFFICES ASSUME ZoneInv, [Next]_vars PROVE ZoneInv' OBVIOUS
<1> USE DEF ZoneInv
<1>1. CASE Sampling
  <2>1. TypeOK' BY <1>1, SamplingType
  <2>2. Places' BY <1>1 DEF Places, Sampling, room, holder
  <2>3. Pending' BY <1>1 DEF Pending, Sampling, room, holder
  <2>4. QED BY <2>1, <2>2, <2>3
<1>2. CASE Analyze
  <2>1. TypeOK' BY <1>2, AnalyzeType
  <2>2. Places' BY <1>2 DEF Places, Analyze, room, holder
  <2>3. Pending' BY <1>2 DEF Pending, Analyze, room, holder, sync
  <2>4. QED BY <2>1, <2>2, <2>3
<1>3. CASE VidEvent BY <1>3, VidEventZone
<1>4. CASE Start
  <2>1. zone.home \in Allowed(zone) /\ zone.home \in Pan
    BY TrackingAssumption, AllowedPlaces DEF TypeOK
  <2>2. outside' \in Nat BY <1>4 DEF Start, FromOutside, TypeOK
  <2>3. pending' \in BOOLEAN /\ clean' \in BOOLEAN BY <1>4 DEF Start
  <2>4. in_left' \in 0 .. Patience - 1 /\ in_right' \in 0 .. Patience - 1 /\ acc_of_lost' \in 0 .. 8
    BY <1>4, TrackingAssumption DEF Start
  <2>5. TypeOK' BY <1>4, <2>1, <2>2, <2>3, <2>4 DEF TypeOK, Start, queues
  <2>6. Places' BY <1>4, <2>1 DEF Places, Start
  <2>7. Pending' BY <1>4 DEF Pending, Start, Resting
  <2>8. QED BY <2>5, <2>6, <2>7
<1>5. CASE Completion
  <2>1. TypeOK' BY <1>5 DEF TypeOK, Completion, search, queues, bounds
  <2>2. Places' BY <1>5 DEF Places, Completion
  <2>3. Pending' BY <1>5 DEF Pending, Completion
  <2>4. QED BY <2>1, <2>2, <2>3
<1>6. CASE Timeout
  <2>1. TypeOK' BY <1>6 DEF TypeOK, Timeout, room, search, queues, bounds
  <2>2. Places' BY <1>6 DEF Places, Timeout, room
  <2>3. Pending' BY <1>6 DEF Pending, Timeout, room
  <2>4. QED BY <2>1, <2>2, <2>3
<1>7. CASE Capture
  <2> DEFINE pic == [at  |-> IF goal = NoGoal THEN at ELSE Blur,
                     off |-> IF goal = NoGoal /\ Visible THEN teacher - at ELSE None]
  <2>1. pic \in Picture BY DEF TypeOK, Picture, Visible
  <2>2. imgs' = Append(imgs, pic) /\ Len(imgs) < Depth BY <1>7 DEF Capture
  <2> HIDE DEF pic
  <2>3. imgs' \in Seq(Picture) /\ Len(imgs') <= Depth
    BY <2>1, <2>2, TrackingAssumption DEF TypeOK
  <2>4. TypeOK' BY <1>7, <2>3 DEF TypeOK, Capture, room, holder, search, sync, bounds
  <2>5. Places' BY <1>7 DEF Places, Capture, room, holder
  <2>6. Pending' BY <1>7 DEF Pending, Capture, room, holder, sync
  <2>7. QED BY <2>4, <2>5, <2>6
<1>8. CASE Arrive
  <2>1. TypeOK' BY <1>8 DEF TypeOK, Arrive, holder, search, sync, queues, bounds
  <2>2. Places' BY <1>8 DEF Places, Arrive, holder
  <2>3. Pending' BY <1>8 DEF Pending, Arrive, holder, sync
  <2>4. QED BY <2>1, <2>2, <2>3
<1>9. CASE LoseCommand
  <2>1. TypeOK' BY <1>9 DEF TypeOK, LoseCommand, FromOutside, holder, search, sync, queues
  <2>2. Places' BY <1>9 DEF Places, LoseCommand, holder
  <2>3. Pending' BY <1>9 DEF Pending, LoseCommand, holder, sync
  <2>4. QED BY <2>1, <2>2, <2>3
<1>10. CASE LoseAnswer
  <2>1. answer' \in BOOLEAN /\ answersLost' \in BOOLEAN BY <1>10 DEF LoseAnswer
  <2>2. TypeOK' BY <1>10, <2>1 DEF TypeOK, LoseAnswer, FromOutside, holder, search, sync, queues
  <2>3. Places' BY <1>10 DEF Places, LoseAnswer, holder
  <2>4. Pending' BY <1>10 DEF Pending, LoseAnswer, holder, sync
  <2>5. QED BY <2>2, <2>3, <2>4
<1>11. CASE Walk
  <2>1. TypeOK' BY <1>11 DEF TypeOK, Walk, FromOutside, holder, search, sync, queues
  <2>2. Places' BY <1>11 DEF Places, Walk, holder
  <2>3. Pending' BY <1>11 DEF Pending, Walk, holder, sync
  <2>4. QED BY <2>1, <2>2, <2>3
<1>12. CASE UNCHANGED vars
  <2>1. TypeOK' BY <1>12 DEF TypeOK, vars, room, holder, search, sync, queues, bounds
  <2>2. Places' BY <1>12 DEF Places, vars, room, holder
  <2>3. Pending' BY <1>12 DEF Pending, vars, room, holder, sync
  <2>4. QED BY <2>1, <2>2, <2>3
<1>13. QED
  BY <1>1, <1>2, <1>3, <1>4, <1>5, <1>6, <1>7, <1>8, <1>9, <1>10, <1>11, <1>12 DEF Next

\* ZoneInv holds in every reachable state.
THEOREM ZoneInvariance == Spec => []ZoneInv
BY InitZone, NextZone, PTL DEF Spec

\* The camera is only ever where it may point, and only ever sent there, also
\* after answers were lost and PanPos is no longer where it is.
THEOREM CameraStaysInZone == Spec => []InZone
<1>1. ZoneInv => InZone BY DEF ZoneInv, Places, InZone
<1>2. QED BY <1>1, ZoneInvariance, PTL
-----------------------------------------------------------------------------
(* Samples of one place                                                     *)

\* The samples stay comparable when nothing they are judged by changes.
LEMMA SamplesSame ==
  ASSUME Skipped, Continued, SamePlace,
         UNCHANGED <<at, still, frame_num, num_in_group, clean, imgs, filtered, last>>
  PROVE  Skipped' /\ Continued' /\ SamePlace'
BY DEF Skipped, Continued, SamePlace, Before, FrameDiffSound

\* When sampling resumes after a turn, no picture under way is sampled: there
\* are fewer of them than SKIP_STEP.
LEMMA ResumeSkips ==
  ASSUME Depth < SKIP_STEP, ZoneInv, Skipped, Continued, SamePlace,
         pending, UNCHANGED <<at, frame_num, num_in_group, clean, imgs, filtered, last>>
  PROVE  Skipped' /\ Continued' /\ SamePlace'
<1>1. clean => frame_num = 0 /\ num_in_group = 0 BY DEF ZoneInv, Pending
<1>2. \A j \in 1 .. Len(imgs) : ~(0 + j >= SKIP_STEP)
  BY TrackingAssumption DEF ZoneInv, TypeOK
<1>3. Skipped'
  <2> SUFFICES ASSUME clean, NEW j \in 1 .. Len(imgs), num_in_group = 1 \/ frame_num + j >= SKIP_STEP
               PROVE  FALSE
    BY DEF Skipped
  <2> QED BY <1>1, <1>2
<1>4. Continued' /\ SamePlace' BY DEF Continued, SamePlace, Before, FrameDiffSound
<1>5. QED BY <1>3, <1>4

\* What is sampled shows the place the camera rests at.
LEMMA SamplingSame ==
  ASSUME ZoneInv, Skipped, Continued, SamePlace, Sampling
  PROVE  Skipped' /\ Continued' /\ SamePlace'
<1> USE DEF ZoneInv
<1>1. /\ imgs \in Seq(Picture) /\ imgs # <<>> /\ imgs' = Tail(imgs)
      /\ UNCHANGED <<at, still, clean, last>>
  BY DEF TypeOK, Sampling, room
<1>2. /\ 1 \in 1 .. Len(imgs) /\ Head(imgs) = imgs[1]
      /\ \A j \in 1 .. Len(imgs') : j + 1 \in 1 .. Len(imgs) /\ imgs'[j] = imgs[j + 1]
  BY <1>1
<1>3. /\ frame_num \in Int /\ num_in_group \in {0, 1} /\ SKIP_STEP \in Int
      /\ filtered \in Seq(Sample)
  BY TrackingAssumption DEF TypeOK
<1>4. CASE ~still
  <2>1. UNCHANGED <<frame_num, num_in_group, filtered>> BY <1>4 DEF Sampling
  <2>2. Skipped' BY <1>1, <1>4 DEF Skipped
  <2>3. Continued' /\ SamePlace' BY <1>1, <2>1 DEF Continued, SamePlace, Before, FrameDiffSound
  <2>4. QED BY <2>2, <2>3
<1>5. CASE still /\ frame_num + 1 # SKIP_STEP
  <2>1. frame_num' = frame_num + 1
    BY <1>5, Counter DEF Sampling, TypeOK
  <2>2. frame_num' # 0 BY <2>1 DEF TypeOK
  <2>3. UNCHANGED <<num_in_group, filtered>> BY <1>5, <2>2 DEF Sampling
  <2>4. Skipped' BY <1>1, <1>2, <1>3, <1>5, <2>1, <2>3 DEF Skipped
  <2>5. Continued' /\ SamePlace' BY <1>1, <2>3 DEF Continued, SamePlace, Before, FrameDiffSound
  <2>6. QED BY <2>4, <2>5
<1>6. CASE still /\ frame_num + 1 = SKIP_STEP
  <2> DEFINE s == [pic |-> Head(imgs), num |-> num_in_group, clean |-> clean]
  <2>1. frame_num' = 0 BY <1>6, Counter DEF Sampling, TypeOK
  <2>2. filtered' = Append(filtered, s) /\ num_in_group' = 1
    BY <1>6, <2>1 DEF Sampling
  <2>3. clean => \A j \in 1 .. Len(imgs) : imgs[j].at = at
    BY <1>3, <1>6 DEF Skipped
  <2>4. Skipped' BY <1>1, <1>2, <2>3 DEF Skipped
  <2>5. /\ s.pic = imgs[1] /\ s.num = num_in_group /\ s.clean = clean BY <1>2
  <2>6. s \in Sample BY <1>1 DEF Sample, TypeOK
  <2> HIDE DEF s
  <2>7. /\ filtered' # <<>> /\ Len(filtered') = Len(filtered) + 1
        /\ filtered'[Len(filtered')] = s /\ Len(filtered) \in Nat
        /\ DOMAIN filtered' = 1 .. Len(filtered) + 1
        /\ DOMAIN filtered = 1 .. Len(filtered)
        /\ \A i \in 1 .. Len(filtered) : filtered'[i] = filtered[i]
    BY <1>3, <2>2, <2>6
  <2>8. Before' = s.pic.at BY <2>7 DEF Before
  <2>9. Continued' BY <1>1, <1>2, <2>3, <2>5, <2>8 DEF Continued
  <2>10. SamePlace'
    <3> SUFFICES ASSUME NEW i \in 1 .. Len(filtered) + 1, filtered'[i].clean
                 PROVE  FrameDiffSound(filtered'[i],
                                       IF i = 1 THEN last ELSE filtered'[i - 1].pic.at)
      BY <1>1, <2>7 DEF SamePlace
    <3>1. CASE i <= Len(filtered)
      <4>1. i \in DOMAIN filtered /\ filtered'[i] = filtered[i] BY <2>7, <3>1
      <4>2. i # 1 => filtered'[i - 1] = filtered[i - 1] BY <2>7, <3>1
      <4>3. QED BY <4>1, <4>2 DEF SamePlace
    <3>2. CASE i = Len(filtered) + 1
      <4>1. filtered'[i] = s /\ clean BY <2>5, <2>7, <3>2
      <4>2. (IF i = 1 THEN last ELSE filtered'[i - 1].pic.at) = Before
        BY <1>3, <2>7, <3>2 DEF Before
      <4>3. s.pic.at = at BY <1>2, <2>3, <2>5, <4>1
      <4>4. at # Blur BY DEF TypeOK, Pan, Blur
      <4>5. s.num = 0 \/ Before = at BY <1>3, <2>5, <4>1 DEF Continued
      <4>6. QED BY <4>1, <4>2, <4>3, <4>4, <4>5 DEF FrameDiffSound
    <3>3. QED BY <2>7, <3>1, <3>2
  <2>11. QED BY <2>4, <2>9, <2>10
<1>7. QED BY <1>4, <1>5, <1>6

\* thread_analyze takes the first sample; the next is compared with it.
LEMMA AnalyzeSame ==
  ASSUME ZoneInv, Skipped, Continued, SamePlace, Analyze
  PROVE  Skipped' /\ Continued' /\ SamePlace'
<1>1. /\ filtered \in Seq(Sample) /\ filtered # <<>> /\ filtered' = Tail(filtered)
      /\ last' = Head(filtered).pic.at
      /\ UNCHANGED <<at, still, frame_num, num_in_group, clean, imgs>>
  BY DEF ZoneInv, TypeOK, Analyze, room, sync
<1>2. /\ Head(filtered) = filtered[1] /\ Len(filtered') = Len(filtered) - 1
      /\ Len(filtered) \in Nat /\ Len(filtered) >= 1
      /\ DOMAIN filtered' = 1 .. Len(filtered) - 1 /\ DOMAIN filtered = 1 .. Len(filtered)
      /\ \A i \in 1 .. Len(filtered) - 1 : filtered'[i] = filtered[i + 1]
      /\ filtered' = <<>> <=> Len(filtered) = 1
  <2>1. Head(filtered) = filtered[1] /\ Len(filtered) \in Nat /\ Len(filtered) >= 1
        /\ DOMAIN filtered = 1 .. Len(filtered)
    BY <1>1
  <2>2. /\ filtered' \in Seq(Sample) /\ Len(filtered') = Len(filtered) - 1
        /\ \A i \in 1 .. Len(filtered) - 1 : filtered'[i] = filtered[i + 1]
    BY <1>1
  <2>3. DOMAIN filtered' = 1 .. Len(filtered) - 1 BY <2>2
  <2>4. filtered' = <<>> <=> Len(filtered) = 1 BY <2>1, <2>2
  <2>5. QED BY <2>1, <2>2, <2>3, <2>4
<1>3. Skipped' BY <1>1 DEF Skipped
<1>4. Before' = Before BY <1>1, <1>2 DEF Before
<1>5. Continued' BY <1>1, <1>4 DEF Continued
<1>6. SamePlace'
  <2> SUFFICES ASSUME NEW i \in 1 .. Len(filtered) - 1, filtered'[i].clean
               PROVE  FrameDiffSound(filtered'[i],
                                     IF i = 1 THEN last' ELSE filtered'[i - 1].pic.at)
    BY <1>2 DEF SamePlace
  <2>1. i + 1 \in DOMAIN filtered /\ filtered'[i] = filtered[i + 1] /\ i + 1 # 1 /\ (i + 1) - 1 = i
    BY <1>2
  <2>2. FrameDiffSound(filtered[i + 1], filtered[i].pic.at)
    BY <2>1 DEF SamePlace
  <2>3. (IF i = 1 THEN last' ELSE filtered'[i - 1].pic.at) = filtered[i].pic.at
    BY <1>1, <1>2
  <2>4. QED BY <2>1, <2>2, <2>3
<1>7. QED BY <1>3, <1>5, <1>6

\* A result that moves the camera ends the group; one that does not changes
\* nothing here.
LEMMA VidEventSame ==
  ASSUME ZoneInv, Skipped, Continued, SamePlace, VidEvent
  PROVE  Skipped' /\ Continued' /\ SamePlace'
<1>1. UNCHANGED <<at, imgs, filtered, last>> BY DEF VidEvent
<1>2. CASE Kept
  BY <1>1, <1>2, SamplesSame DEF Kept, sync
<1>3. ASSUME NEW dest \in Allowed(zone), Sent(dest) PROVE Skipped' /\ Continued' /\ SamePlace'
  <2>1. Skipped' BY <1>3 DEF Sent, Skipped
  <2>2. Continued' BY <1>3 DEF Sent, Continued
  <2>3. SamePlace' BY <1>1 DEF SamePlace, FrameDiffSound
  <2>4. QED BY <2>1, <2>2, <2>3
<1>4. QED BY <1>2, <1>3, VidEventEffect

\* A picture taken while sampling goes on shows the place the camera rests at.
LEMMA CaptureSame ==
  ASSUME ZoneInv, Skipped, Continued, SamePlace, Capture
  PROVE  Skipped' /\ Continued' /\ SamePlace'
<1> DEFINE pic == [at  |-> IF goal = NoGoal THEN at ELSE Blur,
                   off |-> IF goal = NoGoal /\ Visible THEN teacher - at ELSE None]
<1>1. imgs' = Append(imgs, pic) /\ imgs \in Seq(Picture)
  BY DEF Capture, ZoneInv, TypeOK
<1>2. clean /\ still => goal = NoGoal BY DEF ZoneInv, Pending
<1>3. clean /\ still => pic.at = at BY <1>2
<1> HIDE DEF pic
<1>4. UNCHANGED <<at, still, frame_num, num_in_group, clean, filtered, last>>
  BY DEF Capture, room, sync
<1>5. \A j \in 1 .. Len(imgs') : imgs'[j] = IF j \in 1 .. Len(imgs) THEN imgs[j] ELSE pic
  BY <1>1
<1>6. Skipped' BY <1>3, <1>4, <1>5 DEF Skipped
<1>7. Continued' /\ SamePlace' BY <1>4 DEF Continued, SamePlace, Before, FrameDiffSound
<1>8. QED BY <1>6, <1>7

\* The inductive step.
LEMMA NextSame ==
  ASSUME Depth < SKIP_STEP
  PROVE  IInv /\ [Next]_vars => IInv'
<1> SUFFICES ASSUME IInv, [Next]_vars PROVE IInv' OBVIOUS
<1> USE DEF IInv
<1>1. ZoneInv' BY NextZone
<1>2. CASE Sampling BY <1>1, <1>2, SamplingSame
<1>3. CASE Analyze BY <1>1, <1>3, AnalyzeSame
<1>4. CASE VidEvent BY <1>1, <1>4, VidEventSame
<1>5. CASE Start
  <2>1. clean' = FALSE /\ UNCHANGED <<filtered, last>> BY <1>5 DEF Start, queues
  <2>2. SamePlace' BY <2>1 DEF SamePlace, FrameDiffSound
  <2>3. Skipped' /\ Continued' BY <2>1 DEF Skipped, Continued
  <2>4. QED BY <1>1, <2>2, <2>3
<1>6. CASE Completion
  <2>1. pending BY <1>6 DEF Completion, ZoneInv, Pending
  <2>2. UNCHANGED <<at, frame_num, num_in_group, clean, imgs, filtered, last>>
    BY <1>6 DEF Completion, queues
  <2>3. QED BY <1>1, <2>1, <2>2, ResumeSkips
<1>7. CASE Timeout
  <2>1. pending BY <1>7 DEF Timeout
  <2>2. UNCHANGED <<at, frame_num, num_in_group, clean, imgs, filtered, last>>
    BY <1>7 DEF Timeout, room, queues
  <2>3. QED BY <1>1, <2>1, <2>2, ResumeSkips
<1>8. CASE Capture BY <1>1, <1>8, CaptureSame
<1>9. CASE Arrive
  <2>1. UNCHANGED <<still, frame_num, num_in_group, clean, imgs, filtered, last>>
    BY <1>9 DEF Arrive, sync, queues
  <2>2. clean => ~still /\ num_in_group = 0 BY <1>9 DEF Arrive, ZoneInv, Pending
  <2>3. Skipped' /\ Continued' BY <2>1, <2>2 DEF Skipped, Continued
  <2>4. SamePlace' BY <2>1 DEF SamePlace, FrameDiffSound
  <2>5. QED BY <1>1, <2>3, <2>4
<1>10. CASE LoseCommand \/ LoseAnswer \/ Walk \/ UNCHANGED vars
  <2>1. UNCHANGED <<at, still, frame_num, num_in_group, clean, imgs, filtered, last>>
    BY <1>10 DEF LoseCommand, LoseAnswer, Walk, vars, room, sync, queues
  <2>2. QED BY <1>1, <2>1, SamplesSame
<1>11. QED
  BY <1>2, <1>3, <1>4, <1>5, <1>6, <1>7, <1>8, <1>9, <1>10 DEF Next

\* If fewer pictures are under way than thread_img skips, the detector never
\* gets, after a tracking order, a picture taken during the turn, and never
\* compares pictures of two places.
THEOREM SamplesComparable ==
  ASSUME Depth < SKIP_STEP
  PROVE  Spec => []SamePlace
<1>1. Init => IInv
  <2> SUFFICES ASSUME Init PROVE IInv OBVIOUS
  <2>1. ZoneInv BY InitZone
  <2>2. ~clean /\ DOMAIN filtered = {} BY DEF Init
  <2>3. QED BY <2>1, <2>2 DEF IInv, Skipped, Continued, SamePlace
<1>2. IInv /\ [Next]_vars => IInv' BY NextSame
<1>3. IInv => SamePlace BY DEF IInv
<1>4. QED BY <1>1, <1>2, <1>3, PTL DEF Spec

-----------------------------------------------------------------------------
(* The threads of the loop, and all others, with the frame queues between   *)
(* them (Pipeline): the inductive invariant.                                *)

\* The fifos a thread fills.  Nobody fills main's Loopback fifo.
Fills(t) == {p \in Producer \ {<<"main", "Loopback">>} : p[1] = t}

Source == Consumer \cup {Net, <<"", "">>}
Work == [src : Source, out : Seq(Producer), served : Int]

PipeType ==
  /\ queue \in [Consumer -> Seq(Producer)]
  /\ work \in [Thread -> Work]

\* A thread fills its own fifos only, and meanwhile its input stays at the
\* head of a queue of its own, or it came from the network.
HasHead(q, t, c) == c \in Consumer /\ c[1] = t /\ q[c] # <<>>

OwnWork ==
  \A t \in Thread : Filling(t) =>
    /\ \A i \in 1 .. Len(work[t].out) : work[t].out[i] \in Fills(t)
    /\ work[t].src = Net \/ HasHead(queue, t, work[t].src)

PipeInv == PipeType /\ OwnWork

-----------------------------------------------------------------------------
(* What the threads fill, and whom that makes them wait for *)

\* An output is a sequence of fifos the thread fills.
LEMMA OutputsType ==
  ASSUME NEW t \in Thread, NEW c \in Consumer \cup {Net}, Input(t, c),
         NEW o \in Outputs(t, c)
  PROVE  o \in Seq(Fills(t))
<1> USE PipelineAssumption
<1>0. <<>> \in Seq(Fills(t)) OBVIOUS
<1>1. CASE t \in Boards
  <2>1. Outputs(t, c) = BoardOutputs(t, c) BY <1>1 DEF Outputs
  <2>2. \A n \in {"Img", "Event", "RX"} : <<t, n>> \in Fills(t)
    BY <1>1 DEF Fills, Producer
  <2>3. \A n \in {"Img", "Event", "RX"} : <<<<t, n>>>> \in Seq(Fills(t)) BY <2>2
  <2>4. o = <<>> \/ \E n \in {"Img", "Event", "RX"} : o = <<<<t, n>>>>
    BY <2>1 DEF BoardOutputs
  <2>5. QED BY <1>0, <2>3, <2>4
<1>2. CASE t = "main"
  <2>1. <<"main", "Ctrl">> \in Fills("main") BY DEF Fills, Producer
  <2>2. Outputs(t, c) = MainOutputs(c) BY <1>2 DEF Outputs
  <2>3. <<<<"main", "Ctrl">>>> \in Seq(Fills("main")) BY <2>1
  <2>4. o = <<>> \/ o = <<<<"main", "Ctrl">>>> BY <2>2 DEF MainOutputs
  <2>5. QED BY <1>0, <1>2, <2>3, <2>4
<1>3. CASE t = "ST"
  <2>1. <<"ST", "TX_B">> \in Fills("ST") BY DEF Fills, Producer
  <2>2. Outputs(t, c) = STOutputs(c) BY <1>3 DEF Outputs
  <2>3. c = Net \/ c[2] \in {"Ctrl", "RX", "Event"}
    BY <1>3 DEF Input, Consumer
  <2>4. /\ <<<<"ST", "TX_B">>>> \in Seq(Fills("ST"))
        /\ <<<<"ST", "TX_B">>, <<"ST", "TX_B">>>> \in Seq(Fills("ST"))
    BY <2>1
  <2>5. o \in {<<>>, <<<<"ST", "TX_B">>>>, <<<<"ST", "TX_B">>, <<"ST", "TX_B">>>>}
    BY <2>2, <2>3 DEF STOutputs, Net
  <2>6. QED BY <1>0, <1>3, <2>4, <2>5
<1>4. CASE t = "img"
  <2>1. <<"img", "JPEG">> \in Fills("img") /\ <<"img", "Filtered">> \in Fills("img")
    BY DEF Fills, Producer
  <2>2. Outputs(t, c) = ImgOutputs BY <1>4 DEF Outputs
  <2>3. JPEGPacknSend2df \in Seq(Fills("img")) BY <2>1 DEF JPEGPacknSend2df
  <2>4. <<<<"img", "Filtered">>>> \in Seq(Fills("img")) BY <2>1
  <2>5. JPEGPacknSend2df \o <<<<"img", "Filtered">>>> \in Seq(Fills("img"))
    BY <2>3, <2>4
  <2>6. o \in {<<>>, JPEGPacknSend2df, JPEGPacknSend2df \o <<<<"img", "Filtered">>>>}
    BY <2>2 DEF ImgOutputs
  <2>7. QED BY <1>0, <1>4, <2>3, <2>5, <2>6
<1>5. CASE t = "analyze"
  <2>1. <<"analyze", "Event">> \in Fills("analyze") BY DEF Fills, Producer
  <2>2. Outputs(t, c) = {<<<<"analyze", "Event">>>>} BY <1>5 DEF Outputs
  <2>3. QED BY <1>5, <2>1, <2>2
<1>6. QED BY <1>1, <1>2, <1>3, <1>4, <1>5 DEF Thread

\* The threads behind the consumers of a fifo.
LEMMA Edges ==
  ASSUME NEW t \in Thread, NEW p \in Fills(t),
         NEW i \in 1 .. Len(Connected(p)), Connected(p)[i] \in Consumer
  PROVE  LET u == Connected(p)[i][1] IN
         /\ t \in Boards => u \in {"img", "ST"}
         /\ t = "main" => p = <<"main", "Ctrl">> /\ u \in Boards \cup {"ST"}
         /\ t = "ST" => p = <<"ST", "TX_B">>
         /\ t = "img" => (p = <<"img", "JPEG">> /\ u = "main") \/ u = "analyze"
         /\ t = "analyze" => u = "ST"
<1> USE PipelineAssumption
<1>1. CASE t \in Boards
  <2>1. p \in {<<t, "Img">>, <<t, "Event">>, <<t, "RX">>} BY <1>1 DEF Fills, Producer
  <2>2. Connected(p) \in {<<<<"img", "Img">>>>, <<<<"ST", "Event">>>>, <<<<"ST", "RX">>>>}
    BY <2>1 DEF Connected
  <2>3. i = 1 BY <2>2
  <2>4. QED BY <1>1, <2>2, <2>3
<1>2. CASE t = "main"
  <2>1. p = <<"main", "Ctrl">> BY <1>2 DEF Fills, Producer
  <2>2. Connected(p)[i][1] \in {"ST", "localsave", "D", "C", "B", "A_send"}
    BY <2>1 DEF Connected
  <2>3. Connected(p)[i][1] \in Boards \cup {"ST", "img", "analyze", "main"} BY DEF Consumer
  <2>4. QED BY <1>2, <2>1, <2>2, <2>3
<1>3. CASE t = "ST"
  <2>1. p = <<"ST", "TX_B">> BY <1>3 DEF Fills, Producer
  <2>2. QED BY <1>3, <2>1
<1>4. CASE t = "img"
  <2>1. p \in {<<"img", "JPEG">>, <<"img", "Filtered">>} BY <1>4 DEF Fills, Producer
  <2>2. CASE p = <<"img", "JPEG">>
    <3>1. Connected(p) = <<<<"main", "Instructor">>>> BY <2>2 DEF Connected
    <3>2. i = 1 BY <3>1
    <3>3. QED BY <1>4, <2>2, <3>1, <3>2
  <2>3. CASE p = <<"img", "Filtered">>
    <3>1. Connected(p) = <<<<"analyze", "Filtered">>>> BY <2>3 DEF Connected
    <3>2. i = 1 BY <3>1
    <3>3. QED BY <1>4, <3>1, <3>2
  <2>4. QED BY <2>1, <2>2, <2>3
<1>5. CASE t = "analyze"
  <2>1. p = <<"analyze", "Event">> BY <1>5 DEF Fills, Producer
  <2>2. Connected(p) = <<<<"ST", "Event">>>> BY <2>1 DEF Connected
  <2>3. i = 1 BY <2>2
  <2>4. QED BY <1>5, <2>2, <2>3
<1>6. QED BY <1>1, <1>2, <1>3, <1>4, <1>5 DEF Thread

-----------------------------------------------------------------------------
(* The invariant is inductive *)

\* A thread that is idle.
LEMMA IdleType == Idle \in Work
BY DEF Idle, Work, Source

\* A record of Work with other fields.
LEMMA WorkType ==
  /\ \A c \in Source, o \in Seq(Producer), n \in Int :
       [src |-> c, out |-> o, served |-> n] \in Work
  /\ \A r \in Work, o \in Seq(Producer), n \in Int :
       /\ [r EXCEPT !.served = n] = [src |-> r.src, out |-> r.out, served |-> n]
       /\ [[r EXCEPT !.out = o] EXCEPT !.served = n]
            = [src |-> r.src, out |-> o, served |-> n]
<1>1. \A c \in Source, o \in Seq(Producer), n \in Int :
        [src |-> c, out |-> o, served |-> n] \in Work
  BY DEF Work
<1>2. ASSUME NEW r \in Work, NEW n \in Int
      PROVE  [r EXCEPT !.served = n] = [src |-> r.src, out |-> r.out, served |-> n]
  BY DEF Work
<1>3. ASSUME NEW r \in Work, NEW o \in Seq(Producer), NEW n \in Int
      PROVE  [[r EXCEPT !.out = o] EXCEPT !.served = n]
               = [src |-> r.src, out |-> o, served |-> n]
  <2> DEFINE q == [r EXCEPT !.out = o]
  <2>1. q = [src |-> r.src, out |-> o, served |-> r.served] BY DEF Work
  <2>2. q \in Work BY <2>1 DEF Work
  <2>3. [q EXCEPT !.served = n] = [src |-> q.src, out |-> q.out, served |-> n]
    BY <1>2, <2>2
  <2>4. QED BY <2>1, <2>3
<1>4. QED BY <1>1, <1>2, <1>3

\* The threads start idle.
LEMMA InitPipeInv == PipeInit => PipeInv
<1> SUFFICES ASSUME PipeInit PROVE PipeInv OBVIOUS
<1>1. PipeType BY IdleType DEF PipeInit, PipeType
<1>2. \A t \in Thread : ~Filling(t) BY DEF PipeInit, Filling, Idle
<1>3. QED BY <1>1, <1>2 DEF PipeInv, OwnWork

\* The head of a queue is removed.
LEMMA RemovedType ==
  ASSUME PipeType, NEW t \in Thread, NEW c, c = Net \/ HasHead(queue, t, c)
  PROVE  /\ Removed(c) \in [Consumer -> Seq(Producer)]
         /\ \A d \in Consumer : d[1] # t => Removed(c)[d] = queue[d]
<1>1. CASE c = Net BY <1>1 DEF Removed, PipeType
<1>2. CASE c # Net
  <2>1. c \in Consumer /\ c[1] = t /\ queue[c] # <<>> BY <1>2 DEF HasHead
  <2>2. Removed(c) = [queue EXCEPT ![c] = Tail(queue[c])] BY <1>2 DEF Removed
  <2>3. Tail(queue[c]) \in Seq(Producer) BY <2>1 DEF PipeType
  <2>4. QED BY <2>1, <2>2, <2>3 DEF PipeType
<1>3. QED BY <1>1, <1>2

\* A frame is put behind what a consumer has, or nothing is.
Behind(q, r) == r = q \/ \E p \in Producer : r = Append(q, p)

\* What a step of thread t leaves alone: the other threads' work, and the
\* frames in the queues they drain.
Apart(t) ==
  /\ \A u \in Thread \ {t} : work'[u] = work[u]
  /\ \A c \in Consumer : c[1] # t => Behind(queue[c], queue'[c])

\* A thread keeps the invariant if it keeps its own part and leaves the rest.
LEMMA ApartPipeInv ==
  ASSUME PipeInv, NEW t \in Thread, PipeType', Apart(t),
         Filling(t)' => /\ \A i \in 1 .. Len(work'[t].out) : work'[t].out[i] \in Fills(t)
                        /\ work'[t].src = Net \/ HasHead(queue', t, work'[t].src)
  PROVE  PipeInv'
<1>1. SUFFICES ASSUME NEW u \in Thread \ {t}, Filling(u)'
               PROVE  /\ \A i \in 1 .. Len(work'[u].out) : work'[u].out[i] \in Fills(u)
                      /\ work'[u].src = Net \/ HasHead(queue', u, work'[u].src)
  BY DEF PipeInv, OwnWork
<1>2. work'[u] = work[u] BY DEF Apart
<1>3. Filling(u) BY <1>1, <1>2 DEF Filling
<1>4. /\ \A i \in 1 .. Len(work[u].out) : work[u].out[i] \in Fills(u)
      /\ work[u].src = Net \/ HasHead(queue, u, work[u].src)
  BY <1>3 DEF PipeInv, OwnWork
<1>5. ASSUME HasHead(queue, u, work[u].src) PROVE HasHead(queue', u, work[u].src)
  <2>1. work[u].src \in Consumer /\ work[u].src[1] = u /\ queue[work[u].src] # <<>>
    BY <1>5 DEF HasHead
  <2>2. Behind(queue[work[u].src], queue'[work[u].src]) BY <2>1 DEF Apart
  <2>3. queue[work[u].src] \in Seq(Producer) BY <2>1 DEF PipeInv, PipeType
  <2>4. queue'[work[u].src] # <<>> BY <2>1, <2>2, <2>3 DEF Behind
  <2>5. QED BY <1>2, <2>1, <2>4 DEF HasHead
<1>6. QED BY <1>2, <1>4, <1>5 DEF HasHead

\* Going on to the next output, or giving the input back.
LEMMA ReturnPipeInv ==
  ASSUME PipeInv, NEW t \in Thread, Filling(t), Return(t)
  PROVE  PipeInv' /\ Apart(t)
<1>1. work[t] \in Work BY DEF PipeInv, PipeType
<1>2. /\ \A i \in 1 .. Len(work[t].out) : work[t].out[i] \in Fills(t)
      /\ work[t].src = Net \/ HasHead(queue, t, work[t].src)
  BY DEF PipeInv, OwnWork
<1>3. CASE Len(work[t].out) > 1
  <2>1. queue' = queue BY <1>3 DEF Return
  <2> DEFINE out == work[t].out
             w == [src |-> work[t].src, out |-> Tail(out), served |-> -1]
  <2>2. out \in Seq(Producer) BY <1>1 DEF Work
  <2>3. /\ Tail(out) \in Seq(Producer) /\ Len(Tail(out)) = Len(out) - 1
        /\ \A i \in 1 .. Len(Tail(out)) : Tail(out)[i] = out[i + 1]
    BY <1>3, <2>2
  <2>4. work' = [work EXCEPT ![t] = w]
    <3>1. work' = [work EXCEPT ![t].out = Tail(@), ![t].served = -1] BY <1>3 DEF Return
    <3>2. work' = [work EXCEPT ![t] = [[work[t] EXCEPT !.out = Tail(out)] EXCEPT !.served = -1]]
      BY <3>1 DEF PipeInv, PipeType
    <3>3. [[work[t] EXCEPT !.out = Tail(out)] EXCEPT !.served = -1] = w
      <4>1. -1 \in Int OBVIOUS
      <4> HIDE DEF out
      <4>2. QED BY <1>1, <2>3, <4>1, WorkType
    <3>4. QED BY <3>2, <3>3
  <2>5. \A i \in 1 .. Len(Tail(out)) : Tail(out)[i] \in Fills(t)
    <3>1. TAKE i \in 1 .. Len(Tail(out))
    <3>2. i + 1 \in 1 .. Len(out) BY <2>2, <2>3
    <3>3. QED BY <1>2, <2>3, <3>2
  <2>6. w \in Work BY <1>1, <2>3 DEF Work
  <2>7. PipeType' BY <2>1, <2>4, <2>6 DEF PipeInv, PipeType
  <2>8. Apart(t) BY <2>1, <2>4 DEF Apart, Behind, PipeInv, PipeType
  <2>9. work'[t] = w BY <2>4 DEF PipeInv, PipeType
  <2>10. HasHead(queue, t, work[t].src) => HasHead(queue', t, work[t].src) BY <2>1 DEF HasHead
  <2>11. /\ \A i \in 1 .. Len(work'[t].out) : work'[t].out[i] \in Fills(t)
         /\ work'[t].src = Net \/ HasHead(queue', t, work'[t].src)
    BY <1>2, <2>5, <2>9, <2>10
  <2>12. QED BY <2>7, <2>8, <2>11, ApartPipeInv
<1>4. CASE ~(Len(work[t].out) > 1)
  <2>1. work' = [work EXCEPT ![t] = Idle] /\ queue' = Removed(work[t].src)
    BY <1>4 DEF Return
  <2>2. /\ Removed(work[t].src) \in [Consumer -> Seq(Producer)]
        /\ \A d \in Consumer : d[1] # t => Removed(work[t].src)[d] = queue[d]
    BY <1>2, RemovedType DEF PipeInv
  <2>3. PipeType' BY <2>1, <2>2, IdleType DEF PipeInv, PipeType
  <2>4. Apart(t) BY <2>1, <2>2 DEF Apart, Behind, PipeInv, PipeType
  <2>5. ~Filling(t)' BY <2>1 DEF Filling, Idle, PipeInv, PipeType
  <2>6. QED BY <2>3, <2>4, <2>5, ApartPipeInv
<1>5. QED BY <1>3, <1>4

\* Every step keeps the invariant and leaves the other threads alone.
LEMMA StepPipeInv ==
  ASSUME PipeInv, NEW t \in Thread, Step(t)
  PROVE  PipeInv' /\ Apart(t)
<1>0. work[t] \in Work BY DEF PipeInv, PipeType
<1>1. ASSUME NEW c \in Consumer \cup {Net}, Take(t, c) PROVE PipeInv' /\ Apart(t)
  <2>1. ~Filling(t) /\ Input(t, c) BY <1>1 DEF Take
  <2>2. PICK out \in Outputs(t, c) :
          \/ out = <<>> /\ queue' = Removed(c) /\ UNCHANGED work
          \/ /\ out # <<>>
             /\ work' = [work EXCEPT ![t] = [src |-> c, out |-> out, served |-> -1]]
             /\ UNCHANGED queue
    BY <1>1 DEF Take
  <2>3. out \in Seq(Fills(t)) BY <2>1, OutputsType
  <2>4. c = Net \/ HasHead(queue, t, c) BY <2>1 DEF Input, HasHead
  <2>5. CASE out = <<>>
    <3>1. queue' = Removed(c) /\ work' = work BY <2>2, <2>5
    <3>2. /\ Removed(c) \in [Consumer -> Seq(Producer)]
          /\ \A d \in Consumer : d[1] # t => Removed(c)[d] = queue[d]
      BY <2>4, RemovedType DEF PipeInv
    <3>3. PipeType' BY <3>1, <3>2 DEF PipeInv, PipeType
    <3>4. Apart(t) BY <3>1, <3>2 DEF Apart, Behind
    <3>5. ~Filling(t)' BY <2>1, <3>1 DEF Filling
    <3>6. QED BY <3>3, <3>4, <3>5, ApartPipeInv
  <2>6. CASE out # <<>>
    <3> DEFINE w == [src |-> c, out |-> out, served |-> -1]
    <3>1. work' = [work EXCEPT ![t] = w] /\ queue' = queue
      BY <2>2, <2>6
    <3>2. Fills(t) \subseteq Producer BY DEF Fills
    <3>3. out \in Seq(Producer) BY <2>3, <3>2
    <3>4. \A i \in 1 .. Len(out) : out[i] \in Fills(t) BY <2>3
    <3>5. c \in Source BY DEF Source
    <3>11. w \in Work BY <3>3, <3>5 DEF Work
    <3>6. PipeType' BY <3>1, <3>11 DEF PipeInv, PipeType
    <3>7. Apart(t) BY <3>1 DEF Apart, Behind, PipeInv, PipeType
    <3>8. work'[t] = w BY <3>1 DEF PipeInv, PipeType
    <3>9. HasHead(queue, t, c) => HasHead(queue', t, c) BY <3>1 DEF HasHead
    <3>10. QED BY <2>4, <3>4, <3>6, <3>7, <3>8, <3>9, ApartPipeInv DEF HasHead
  <2>7. QED BY <2>5, <2>6
<1>2. ASSUME Filling(t), NEW i \in Int, work' = [work EXCEPT ![t].served = i],
             NEW p \in Producer,
             \/ queue' = queue
             \/ \E c \in Consumer : queue' = [queue EXCEPT ![c] = Append(@, p)]
      PROVE  PipeInv' /\ Apart(t)
  <2> DEFINE w == [src |-> work[t].src, out |-> work[t].out, served |-> i]
  <2>1. work' = [work EXCEPT ![t] = w]
    <3>1. work' = [work EXCEPT ![t] = [work[t] EXCEPT !.served = i]]
      BY <1>2 DEF PipeInv, PipeType
    <3>2. [work[t] EXCEPT !.served = i] = w BY <1>0, <1>2 DEF Work
    <3>3. QED BY <3>1, <3>2
  <2>2. w \in Work BY <1>0 DEF Work
  <2>3. queue' \in [Consumer -> Seq(Producer)]
    <3>1. CASE queue' = queue BY <3>1 DEF PipeInv, PipeType
    <3>2. ASSUME NEW c \in Consumer, queue' = [queue EXCEPT ![c] = Append(@, p)]
          PROVE  queue' \in [Consumer -> Seq(Producer)]
      <4>1. Append(queue[c], p) \in Seq(Producer) BY <1>2 DEF PipeInv, PipeType
      <4>2. QED BY <3>2, <4>1 DEF PipeInv, PipeType
    <3>3. QED BY <1>2, <3>1, <3>2
  <2>4. \A c \in Consumer : Behind(queue[c], queue'[c]) BY <1>2 DEF Behind, PipeInv, PipeType
  <2>5. PipeType' BY <2>1, <2>2, <2>3 DEF PipeInv, PipeType
  <2>6. Apart(t) BY <2>1, <2>4 DEF Apart, PipeInv, PipeType
  <2>7. work'[t] = w BY <2>1 DEF PipeInv, PipeType
  <2>8. /\ \A j \in 1 .. Len(work[t].out) : work[t].out[j] \in Fills(t)
        /\ work[t].src = Net \/ HasHead(queue, t, work[t].src)
    BY <1>2 DEF PipeInv, OwnWork
  <2>9. ASSUME HasHead(queue, t, work[t].src) PROVE HasHead(queue', t, work[t].src)
    <3>1. work[t].src \in Consumer /\ work[t].src[1] = t /\ queue[work[t].src] # <<>>
      BY <2>9 DEF HasHead
    <3>2. queue[work[t].src] \in Seq(Producer) BY <3>1 DEF PipeInv, PipeType
    <3>3. queue'[work[t].src] # <<>> BY <2>4, <3>1, <3>2 DEF Behind
    <3>4. QED BY <2>7, <3>1, <3>3 DEF HasHead
  <2>10. QED BY <2>5, <2>6, <2>7, <2>8, <2>9, ApartPipeInv DEF HasHead
<1>3. Filling(t) => Fifo(t) \in Producer BY <1>0 DEF Filling, Fifo, Work
<1>4. CASE Alloc(t)
  <2>1. Filling(t) /\ work' = [work EXCEPT ![t].served = 0] /\ queue' = queue
    BY <1>4 DEF Alloc
  <2>2. 0 \in Int OBVIOUS
  <2>3. QED BY <1>2, <1>3, <2>1, <2>2
<1>5. CASE Deliver(t)
  <2>1. PICK i \in Ahead(t) :
          /\ queue' = [queue EXCEPT ![Connected(Fifo(t))[i]] = Append(@, Fifo(t))]
          /\ work' = [work EXCEPT ![t].served = i]
    BY <1>5 DEF Deliver
  <2>2. i \in Int /\ Connected(Fifo(t))[i] \in Consumer BY <2>1 DEF Ahead
  <2>3. Filling(t) BY <1>5 DEF Deliver
  <2>4. QED BY <1>2, <1>3, <2>1, <2>2, <2>3
<1>6. CASE Delivered(t) BY <1>6, ReturnPipeInv DEF Delivered
<1>7. QED BY <1>1, <1>4, <1>5, <1>6 DEF Step

\* The invariant holds throughout.
THEOREM PipeInvariance == PipeSpec => []PipeInv
<1>1. PipeInv /\ [PipeNext]_pipeVars => PipeInv'
  <2>1. PipeInv /\ UNCHANGED pipeVars => PipeInv'
    BY DEF pipeVars, PipeInv, PipeType, OwnWork, Filling, HasHead
  <2>2. QED BY <2>1, StepPipeInv DEF PipeNext
<1>2. QED BY <1>1, InitPipeInv, PTL DEF PipeSpec

-----------------------------------------------------------------------------
(* Where threads wait in a circle *)

\* What a thread waits on is a consumer of the fifo it is filling.
LEMMA WaitsOnConsumers ==
  ASSUME PipeInv, NEW t \in Thread, NEW c \in WaitsOn(t)
  PROVE  /\ Filling(t) /\ Fifo(t) \in Fills(t) /\ c \in Consumer
         /\ \E i \in 1 .. Len(Connected(Fifo(t))) : c = Connected(Fifo(t))[i]
<1>1. Filling(t) BY DEF WaitsOn
<1>2. Fifo(t) \in Fills(t)
  <2>1. work[t].out \in Seq(Producer) /\ work[t].out # <<>>
    BY <1>1 DEF PipeInv, PipeType, Work, Filling
  <2>2. 1 \in 1 .. Len(work[t].out) BY <2>1
  <2>3. QED BY <1>1, <2>1, <2>2 DEF PipeInv, OwnWork, Fifo
<1>3. PICK i \in Ahead(t) : c = Connected(Fifo(t))[i] BY <1>1 DEF WaitsOn
<1>4. QED BY <1>1, <1>2, <1>3 DEF Ahead

\* Wherever threads wait for each other, the commands for core B's camera are
\* used up, or the console's commands and the images for the console both are:
\* without thread_SwitchTracking every circle leads through main and thread_img.
THEOREM TheseJams == PipeSpec => []OnlyTheseJam
<1>1. PipeInv => OnlyTheseJam
  <2> SUFFICES ASSUME PipeInv, NEW S \in SUBSET Waiting, Jammed(S)
               PROVE  \/ "ST" \in S /\ Stuck("ST", "TX_B")
                      \/ {"main", "img"} \subseteq S /\ Stuck("main", "Ctrl") /\ Stuck("img", "JPEG")
    BY DEF OnlyTheseJam
  <2>1. ASSUME NEW t \in S
        PROVE  /\ t \in Thread /\ Filling(t)
               /\ \E u \in S :
                    /\ t \in Boards => u \in {"img", "ST"}
                    /\ t = "main" => Fifo(t) = <<"main", "Ctrl">> /\ u \in Boards \cup {"ST"}
                    /\ t = "ST" => Fifo(t) = <<"ST", "TX_B">>
                    /\ t = "img" => (Fifo(t) = <<"img", "JPEG">> /\ u = "main") \/ u = "analyze"
                    /\ t = "analyze" => u = "ST"
    <3>1. t \in Thread BY DEF Waiting
    <3>2. PICK c \in WaitsOn(t) : c[1] \in S BY DEF Jammed
    <3>3. /\ Filling(t) /\ Fifo(t) \in Fills(t) /\ c \in Consumer
          /\ \E i \in 1 .. Len(Connected(Fifo(t))) : c = Connected(Fifo(t))[i]
      BY <3>1, <3>2, WaitsOnConsumers
    <3>4. PICK i \in 1 .. Len(Connected(Fifo(t))) : c = Connected(Fifo(t))[i] BY <3>3
    <3>5. /\ t \in Boards => c[1] \in {"img", "ST"}
          /\ t = "main" => Fifo(t) = <<"main", "Ctrl">> /\ c[1] \in Boards \cup {"ST"}
          /\ t = "ST" => Fifo(t) = <<"ST", "TX_B">>
          /\ t = "img" => (Fifo(t) = <<"img", "JPEG">> /\ c[1] = "main") \/ c[1] = "analyze"
          /\ t = "analyze" => c[1] = "ST"
      BY <3>1, <3>3, <3>4, Edges
    <3>6. QED BY <3>1, <3>2, <3>3, <3>5
  <2>2. CASE "ST" \in S BY <2>1, <2>2 DEF Stuck
  <2>3. CASE "ST" \notin S
    <3>1. "analyze" \notin S BY <2>1, <2>3
    <3>2. "img" \in S => "main" \in S /\ Fifo("img") = <<"img", "JPEG">>
      BY <2>1, <3>1
    <3>3. \A b \in S \cap Boards : "img" \in S BY <2>1, <2>3
    <3>4. "main" \in S => Fifo("main") = <<"main", "Ctrl">> /\ "img" \in S
      BY <2>1, <2>3, <3>3
    <3>5. \E t \in S : t \in Boards \cup {"main", "img"}
      BY <2>1, <2>3, <3>1 DEF Jammed, Thread
    <3>6. "img" \in S /\ "main" \in S BY <3>2, <3>3, <3>4, <3>5
    <3>7. QED BY <2>1, <3>2, <3>4, <3>6 DEF Stuck
  <2>4. QED BY <2>2, <2>3
<1>2. QED BY <1>1, PipeInvariance, PTL

-----------------------------------------------------------------------------
(* Such a circle is for ever *)

\* A thread that waits takes no step.
LEMMA WaitingIsStill ==
  ASSUME PipeInv, NEW t \in Waiting, Step(t)
  PROVE  FALSE
<1>1. PICK c \in WaitsOn(t) : TRUE BY DEF Waiting
<1>2. t \in Thread /\ Filling(t) /\ c \in Consumer
  BY <1>1, WaitsOnConsumers DEF Waiting
<1>3. PICK i \in Ahead(t) :
        /\ c = Connected(Fifo(t))[i]
        /\ work[t].served = -1 \/ IsNext(t, i)
        /\ IF work[t].served = -1 THEN HasAll(c, Fifo(t)) ELSE Full(c)
  BY <1>1, <1>2 DEF WaitsOn
<1>4. ASSUME NEW d \in Consumer \cup {Net}, Take(t, d) PROVE FALSE
  BY <1>2, <1>4 DEF Take
<1>5. CASE Alloc(t) BY <1>2, <1>3, <1>5 DEF Alloc, Exhausted
<1>6. CASE Deliver(t)
  <2>1. work[t].served # -1 BY <1>6 DEF Deliver
  <2>2. PICK j \in Ahead(t) : IsNext(t, j) /\ ~Full(Connected(Fifo(t))[j])
    BY <1>6 DEF Deliver
  <2>3. j = i BY <1>3, <2>1, <2>2 DEF IsNext, Ahead
  <2>4. QED BY <1>3, <2>1, <2>2, <2>3
<1>7. CASE Delivered(t) BY <1>3, <1>7 DEF Delivered
<1>8. QED BY <1>4, <1>5, <1>6, <1>7 DEF Step

\* A queue that others only add to still holds what it held.
LEMMA CountGrows ==
  ASSUME PipeInv, PipeInv', NEW c \in Consumer, Behind(queue[c], queue'[c]), NEW p
  PROVE  /\ Count(c, p)' >= Count(c, p) /\ Len(queue'[c]) >= Len(queue[c])
         /\ Count(c, p) \in Nat /\ Count(c, p)' \in Nat
<1>1. queue[c] \in Seq(Producer) /\ queue'[c] \in Seq(Producer) BY DEF PipeInv, PipeType
<1>2. /\ Len(queue'[c]) >= Len(queue[c])
      /\ \A i \in 1 .. Len(queue[c]) : queue'[c][i] = queue[c][i]
  BY <1>1 DEF Behind
<1> DEFINE Old == {i \in 1 .. Len(queue[c]) : queue[c][i] = p}
           New == {i \in 1 .. Len(queue'[c]) : queue'[c][i] = p}
<1>3. Old \subseteq New BY <1>1, <1>2
<1>4. IsFiniteSet(1 .. Len(queue'[c])) BY <1>1, FS_Interval
<1>5. IsFiniteSet(New) BY <1>4, FS_Subset
<1>6. Cardinality(Old) <= Cardinality(New) /\ IsFiniteSet(Old) BY <1>3, <1>5, FS_Subset
<1>7. Cardinality(Old) \in Nat /\ Cardinality(New) \in Nat
  BY <1>5, <1>6, FS_CardinalityType
<1>8. QED BY <1>2, <1>6, <1>7 DEF Count

\* Threads that wait for each other wait for each other from then on: none of
\* them takes a step, and nobody else takes anything from their queues.
THEOREM JamsAreForEver == PipeSpec => JamIsForEver
<1> DEFINE Lasting == \A S \in SUBSET Waiting : Jammed(S) => Jammed(S)'
<1>1. PipeInv /\ PipeInv' /\ [PipeNext]_pipeVars => Lasting
  <2> SUFFICES ASSUME PipeInv, PipeInv', [PipeNext]_pipeVars, NEW S \in SUBSET Waiting, Jammed(S)
               PROVE  Jammed(S)'
    OBVIOUS
  <2>1. \A t \in S : work'[t] = work[t]
    <3>1. CASE UNCHANGED pipeVars BY <3>1 DEF pipeVars
    <3>2. ASSUME NEW u \in Thread, Step(u) PROVE \A t \in S : work'[t] = work[t]
      <4>1. u \notin S BY <3>2, WaitingIsStill
      <4>2. QED BY <3>2, <4>1, StepPipeInv DEF Apart, Waiting
    <3>3. QED BY <3>1, <3>2 DEF PipeNext
  <2>2. \A c \in Consumer : c[1] \in S => Behind(queue[c], queue'[c])
    <3>1. CASE UNCHANGED pipeVars BY <3>1 DEF pipeVars, Behind
    <3>2. ASSUME NEW u \in Thread, Step(u)
          PROVE  \A c \in Consumer : c[1] \in S => Behind(queue[c], queue'[c])
      <4>1. u \notin S BY <3>2, WaitingIsStill
      <4>2. QED BY <3>2, <4>1, StepPipeInv DEF Apart
    <3>3. QED BY <3>1, <3>2 DEF PipeNext
  <2>3. ASSUME NEW t \in S PROVE \E c \in WaitsOn(t)' : c[1] \in S
    <3>1. PICK c \in WaitsOn(t) : c[1] \in S BY DEF Jammed
    <3>2. t \in Thread /\ Filling(t) /\ c \in Consumer
      BY <3>1, WaitsOnConsumers DEF Waiting
    <3>3. PICK i \in Ahead(t) :
            /\ c = Connected(Fifo(t))[i]
            /\ work[t].served = -1 \/ IsNext(t, i)
            /\ IF work[t].served = -1 THEN HasAll(c, Fifo(t)) ELSE Full(c)
      BY <3>1, <3>2 DEF WaitsOn
    <3>4. work'[t] = work[t] BY <2>1
    <3>5. Filling(t)' /\ Fifo(t)' = Fifo(t) BY <3>2, <3>4 DEF Filling, Fifo
    <3>6. Ahead(t)' = Ahead(t) BY <3>4, <3>5 DEF Ahead
    <3>7. IsNext(t, i)' <=> IsNext(t, i) BY <3>6 DEF IsNext
    <3>8. Behind(queue[c], queue'[c]) BY <2>2, <3>1, <3>2
    <3>9. /\ Count(c, Fifo(t))' >= Count(c, Fifo(t)) /\ Len(queue'[c]) >= Len(queue[c])
          /\ Count(c, Fifo(t)) \in Nat /\ Count(c, Fifo(t))' \in Nat
      <4> DEFINE p == Fifo(t)
      <4>1. /\ Count(c, p)' >= Count(c, p) /\ Len(queue'[c]) >= Len(queue[c])
            /\ Count(c, p) \in Nat /\ Count(c, p)' \in Nat
        BY <3>2, <3>5, <3>8, CountGrows
      <4>2. QED BY <4>1
    <3>10. IF work'[t].served = -1 THEN HasAll(c, Fifo(t))' ELSE Full(c)'
      <4>1. Len(queue[c]) \in Nat /\ Len(queue'[c]) \in Nat
        BY <3>2 DEF PipeInv, PipeType
      <4>2. QED BY <3>3, <3>4, <3>5, <3>9, <4>1, PipelineAssumption DEF HasAll, Full
    <3>11. c \in WaitsOn(t)'
      BY <3>3, <3>4, <3>5, <3>6, <3>7, <3>10 DEF WaitsOn
    <3>12. QED BY <3>1, <3>11
  <2>4. QED BY <2>3 DEF Jammed
<1>2. QED BY <1>1, PipeInvariance, PTL DEF PipeSpec, JamIsForEver
=============================================================================
