------------------------------ MODULE Tracking ------------------------------
(***************************************************************************)
(* Following the teacher with the camera: the loop through                  *)
(*   thread_img        samples the pictures of the teacher's camera while   *)
(*                     g_camholder_still is 1,                              *)
(*   thread_analyze    looks for a person in a sample, partly by comparing  *)
(*                     it with the one before (DetectFrame, FrameDiff),     *)
(*   thread_SwitchTracking  turns a finding into an order for the camera,   *)
(*                     or scans the room when nobody was found for a while. *)
(* g_camholder_still, g_analyze_frame_num and g_num_in_group, which         *)
(* g_capture_sync_mutex protects, tie the samples to standstills.           *)
(*                                                                          *)
(* The holder's dialogue (module CameraHolder) is reduced to what tracking  *)
(* needs: an order is pending until its answer comes or 10 s have passed.   *)
(* Pan positions and the offset of a person in the picture are counted in   *)
(* the same unit; the arc tangent of 7968-7971 is exact in it.  There is    *)
(* no screen in the room (module SwitchFsm has that case) and the holder    *)
(* is initialised.  The camera, the pictures and the person are external.   *)
(***************************************************************************)
EXTENDS Integers, Sequences

CONSTANTS
  MaxPan,      \* pan positions are 0 .. MaxPan
  View,        \* half the width of a picture (128 pixels)
  Low, High,   \* OFFSET_THRES_LOW, OFFSET_THRES_HIGH
  Patience,    \* findings off the middle until the camera turns (10)
  SKIP_STEP,   \* one picture in SKIP_STEP is analysed (5)
  Depth,       \* pictures under way between the camera and thread_img
  Samples,     \* bound: samples under way to thread_analyze, the one thread_img
               \* holds while it waits for a buffer included
  Zones,       \* the ranges looked at, with the camera's home
  MaxOutside   \* bound: walks of the teacher, commands and answers lost, and
               \* Start orders, together

Pan == 0 .. MaxPan
Zone == [IsExclude : BOOLEAN, limit_left : Pan, limit_right : Pan,
         exclude_left : Pan, exclude_right : Pan, home : Pan]

(* Where the camera may point.                                              *)
Allowed(z) ==
  {p \in z.limit_left .. z.limit_right :
     z.IsExclude => p <= z.exclude_left \/ p >= z.exclude_right}

(* Presets 1, 2 and 5, 6 are sorted by the program; the rest is what their  *)
(* meaning asks of whoever stored them.                                     *)
ASSUME TrackingAssumption ==
  /\ MaxPan \in Nat /\ View \in Nat \ {0} /\ Low \in Nat /\ High \in Nat
  /\ Low < High /\ High <= View
  /\ Patience \in Nat \ {0} /\ SKIP_STEP \in Nat \ {0} /\ Depth \in Nat \ {0}
  /\ Samples \in Nat \ {0}
  /\ Zones \subseteq Zone
  /\ \A z \in Zones :
       /\ z.limit_left <= z.exclude_left /\ z.exclude_left < z.exclude_right
       /\ z.exclude_right <= z.limit_right /\ z.home \in Allowed(z)
  /\ MaxOutside \in Nat

Away == -1        \* the teacher is not in the room
Blur == -2        \* a picture taken while the camera turns
NoGoal == -3
None == View + 1  \* nobody found; no offset reaches it

VARIABLES
  zone,                        \* never changes
  teacher, at, goal, answer,   \* the room: the person, the camera, where it
                               \* turns to, its completion under way
  PanPos, target, pending,     \* the holder as the program knows it
  direction, in_left, in_right, acc_of_lost,
  still, frame_num, num_in_group,   \* under g_capture_sync_mutex
  imgs,                        \* pictures on their way to thread_img
  filtered,                    \* thread_img -> thread_analyze
  last,                        \* object->lastImage
  events,                      \* thread_analyze -> thread_SwitchTracking
  clean,                       \* history: this group of samples began with a
                               \* tracking order, and no Start came since
  answersLost, outside

room == <<zone, teacher, at, goal, answer>>
holder == <<PanPos, target, pending>>
search == <<direction, in_left, in_right, acc_of_lost>>
sync == <<still, frame_num, num_in_group, clean>>
queues == <<imgs, filtered, last, events>>
bounds == <<answersLost, outside>>
vars == <<room, holder, search, sync, queues, bounds>>

Picture == [at : Pan \cup {Blur}, off : (-View .. View) \cup {None}]
Sample == [pic : Picture, num : 0 .. 1, clean : BOOLEAN]

(* The holder has just been initialised: it is at home, and pictures were   *)
(* sampled all the while.                                                   *)
Init ==
  /\ zone \in Zones
  /\ teacher \in Pan \cup {Away}
  /\ at = zone.home /\ goal = NoGoal /\ answer = FALSE
  /\ PanPos = zone.home /\ target = zone.home /\ pending = FALSE
  /\ direction = 1 /\ in_left = 0 /\ in_right = 0 /\ acc_of_lost = 0
  /\ still = TRUE /\ frame_num = 0 /\ num_in_group = 1 /\ clean = FALSE
  /\ imgs = <<>> /\ filtered = <<>> /\ last = Blur /\ events = <<>>
  /\ answersLost = FALSE /\ outside = 0

-----------------------------------------------------------------------------
(* thread_img.  The counter is read and advanced under the mutex; only its  *)
(* remainder matters, and of the number in the group whether it is 0.       *)

Sampling ==
  /\ imgs # <<>> /\ imgs' = Tail(imgs)
  /\ IF still
     THEN /\ frame_num' = (frame_num + 1) % SKIP_STEP
          /\ IF frame_num' = 0
             THEN /\ Len(filtered) < Samples
                  /\ filtered' = Append(filtered, [pic |-> Head(imgs), num |-> num_in_group, clean |-> clean])
                  /\ num_in_group' = 1
             ELSE UNCHANGED <<filtered, num_in_group>>
     ELSE UNCHANGED <<frame_num, num_in_group, filtered>>
  /\ UNCHANGED <<room, holder, search, still, clean, last, events, bounds>>

-----------------------------------------------------------------------------
(* thread_analyze.  A group begins without a picture to compare with.  The  *)
(* detector is external: it finds who is in the picture, unless the picture *)
(* is blurred or compared with one of another place, when it may find       *)
(* anything.                                                                *)

FrameDiffSound(s, before) == s.pic.at # Blur /\ (s.num = 0 \/ before = s.pic.at)

DetectFrame(s) ==
  IF FrameDiffSound(s, last) THEN {s.pic.off} ELSE (-View .. View) \cup {None}

Analyze ==
  /\ filtered # <<>> /\ events = <<>>
  /\ \E r \in DetectFrame(Head(filtered)) : events' = <<r>>
  /\ last' = Head(filtered).pic.at
  /\ filtered' = Tail(filtered)
  /\ UNCHANGED <<room, holder, search, sync, imgs, bounds>>

-----------------------------------------------------------------------------
(* thread_SwitchTracking: where an order sends the camera.                  *)

Max2(a, b) == IF a > b THEN a ELSE b
Min2(a, b) == IF a < b THEN a ELSE b
Within(d, l, r) == Max2(l, Min2(d, r))

RightPart(p) == p \in zone.exclude_right .. zone.limit_right
LeftPart(p) == p \in zone.limit_left .. zone.exclude_left

(* Mutant of TrackTo: an excluded zone is not looked at.                    *)
TrackToAnywhere(p, d) == Within(d, zone.limit_left, zone.limit_right)

TrackTo(p, d) ==
  CASE ~zone.IsExclude -> Within(d, zone.limit_left, zone.limit_right)
    [] zone.IsExclude /\ RightPart(p) -> Within(d, zone.exclude_right, zone.limit_right)
    [] zone.IsExclude /\ LeftPart(p) -> Within(d, zone.limit_left, zone.exclude_left)
    [] OTHER -> d

(* A scan that comes to a limit turns round; at the excluded zone it first  *)
(* goes to the edge and from the edge jumps to the other one.               *)
ScanTo(d) ==
  LET l == zone.limit_left
      r == zone.limit_right
      el == zone.exclude_left
      er == zone.exclude_right
      parted == zone.IsExclude
  IN  CASE (~parted \/ RightPart(PanPos)) /\ d > r -> [dest |-> r, turn |-> -1]
        [] (~parted \/ LeftPart(PanPos)) /\ d < l -> [dest |-> l, turn |-> -1]
        [] parted /\ RightPart(PanPos) /\ d < er -> [dest |-> IF PanPos = er THEN el ELSE er, turn |-> 1]
        [] parted /\ LeftPart(PanPos) /\ d > el -> [dest |-> IF PanPos = el THEN er ELSE el, turn |-> 1]
        [] OTHER -> [dest |-> d, turn |-> 1]

(* Mutant of Stand: the counters go on.                                     *)
StandNoReset(dest) ==
  IF dest # PanPos
  THEN still' = FALSE /\ num_in_group' = 0 /\ clean' = TRUE /\ UNCHANGED frame_num
  ELSE UNCHANGED sync

(* The samples of this standstill end with the order.                       *)
Stand(dest) ==
  IF dest # PanPos
  THEN still' = FALSE /\ frame_num' = 0 /\ num_in_group' = 0 /\ clean' = TRUE
  ELSE UNCHANGED sync

(* Mutant of AbsPos: the target is forgotten.                               *)
AbsPosNoTarget(dest) ==
  IF dest # PanPos
  THEN pending' = TRUE /\ goal' = dest /\ UNCHANGED target
  ELSE UNCHANGED <<pending, target, goal>>

AbsPos(dest) ==
  IF dest # PanPos
  THEN pending' = TRUE /\ target' = dest /\ goal' = dest
  ELSE UNCHANGED <<pending, target, goal>>

Order(dest) == Stand(dest) /\ AbsPos(dest)

(* A finding in the middle is left alone, one beside it is followed if it   *)
(* stays there, one at the rim at once.                                     *)
Beside(off) == (off > Low /\ off < High) \/ (off > -High /\ off < -Low)

Turns(off) ==
  \/ off >= High \/ off <= -High
  \/ off > Low /\ off < High /\ in_right + 1 = Patience
  \/ off > -High /\ off < -Low /\ in_left + 1 = Patience

Found(off) ==
  /\ off # None
  /\ acc_of_lost' = 0
  /\ \/ /\ Turns(off)
        /\ in_left' = 0 /\ in_right' = 0
        /\ LET dest == TrackTo(PanPos, PanPos + off)
           IN  direction' = (IF dest > PanPos THEN 1 ELSE -1) /\ Order(dest)
     \/ /\ ~Turns(off)
        /\ in_right' = IF Beside(off) /\ off > 0 THEN in_right + 1 ELSE 0
        /\ in_left' = IF Beside(off) /\ off < 0 THEN in_left + 1 ELSE 0
        /\ UNCHANGED <<direction, pending, target, goal, sync>>

(* Mutant of Scan: it does not turn round.                                  *)
ScanOneWay(dest) == Order(dest.dest) /\ UNCHANGED direction

Scan(dest) == Order(dest.dest) /\ direction' = direction * dest.turn

(* From six losses on, every third one moves the camera.  Beyond 8 only the *)
(* remainder of acc_of_lost by 3 matters.                                   *)
NotFound(off) ==
  /\ off = None
  /\ acc_of_lost' = IF acc_of_lost = 8 THEN 6 ELSE acc_of_lost + 1
  /\ IF acc_of_lost' = 6
     THEN Scan(ScanTo(PanPos + View * direction))
     ELSE UNCHANGED <<direction, pending, target, goal, sync>>
  /\ UNCHANGED <<in_left, in_right>>

VidEvent ==
  /\ events # <<>> /\ events' = Tail(events)
  /\ IF pending
     THEN UNCHANGED <<search, pending, target, goal, sync>>
     ELSE Found(Head(events)) \/ NotFound(Head(events))
  /\ UNCHANGED <<zone, teacher, at, answer, PanPos, imgs, filtered, last, bounds>>

FromOutside == outside < MaxOutside /\ outside' = outside + 1

(* Start sends the camera home and does not say that it moves.  The code    *)
(* does not ask, but here a recording is started while the camera rests.    *)
Resting == ~pending /\ goal = NoGoal /\ ~answer

Start ==
  /\ Resting
  /\ FromOutside
  /\ acc_of_lost' = 3 /\ in_left' = 0 /\ in_right' = 0
  /\ pending' = TRUE /\ target' = zone.home /\ goal' = zone.home
  /\ clean' = FALSE
  /\ UNCHANGED <<zone, teacher, at, answer, PanPos, direction, still, frame_num,
                 num_in_group, queues, answersLost>>

(* The answer, or the timeout that gives it up, and the check that follows  *)
(* either in the same turn of the loop.                                     *)
Completion ==
  /\ answer /\ answer' = FALSE
  /\ PanPos' = target /\ pending' = FALSE /\ still' = TRUE
  /\ UNCHANGED <<zone, teacher, at, goal, target, search, frame_num, num_in_group,
                 clean, queues, bounds>>

Timeout ==
  /\ pending /\ ~answer /\ goal = NoGoal
  /\ pending' = FALSE /\ still' = TRUE
  /\ UNCHANGED <<room, PanPos, target, search, frame_num, num_in_group, clean, queues, bounds>>

-----------------------------------------------------------------------------
(* External: the camera, its pictures, the line to it and the person.       *)

Visible == teacher # Away /\ teacher - at \in -View .. View

Capture ==
  /\ Len(imgs) < Depth
  /\ imgs' = Append(imgs, [at  |-> IF goal = NoGoal THEN at ELSE Blur,
                           off |-> IF goal = NoGoal /\ Visible THEN teacher - at ELSE None])
  /\ UNCHANGED <<room, holder, search, sync, filtered, last, events, bounds>>

(* After a tracking order no more is sampled, and the results of what was   *)
(* are in before the camera has turned.                                     *)
Arrive ==
  /\ goal # NoGoal /\ (still \/ (filtered = <<>> /\ events = <<>>))
  /\ at' = goal /\ goal' = NoGoal /\ answer' = TRUE
  /\ UNCHANGED <<zone, teacher, holder, search, sync, queues, bounds>>

LoseCommand ==
  /\ goal # NoGoal /\ FromOutside
  /\ goal' = NoGoal
  /\ UNCHANGED <<zone, teacher, at, answer, holder, search, sync, queues, answersLost>>

LoseAnswer ==
  /\ answer /\ FromOutside
  /\ answer' = FALSE /\ answersLost' = TRUE
  /\ UNCHANGED <<zone, teacher, at, goal, holder, search, sync, queues>>

Walk ==
  /\ FromOutside
  /\ teacher' \in (Pan \cup {Away}) \ {teacher}
  /\ UNCHANGED <<zone, at, goal, answer, holder, search, sync, queues, answersLost>>

Next ==
  \/ Sampling \/ Analyze \/ VidEvent \/ Start \/ Completion \/ Timeout
  \/ Capture \/ Arrive \/ LoseCommand \/ LoseAnswer \/ Walk

Spec == Init /\ [][Next]_vars

(* The threads keep turning, the camera answers what reaches it and sends   *)
(* pictures; nobody has to give orders, walk, or lose anything.             *)
FairSpec ==
  Spec /\ WF_vars(Sampling) /\ WF_vars(Analyze) /\ WF_vars(VidEvent)
       /\ WF_vars(Completion) /\ WF_vars(Timeout) /\ WF_vars(Capture) /\ WF_vars(Arrive)

-----------------------------------------------------------------------------
(* Properties.                                                              *)

(* Samples are comparable: in a group that began with a tracking order the  *)
(* detector never gets a picture taken while the camera turned, and never   *)
(* compares pictures of two places, although pictures taken before and      *)
(* during the turn are still under way when the holder reports a standstill *)
(* (4940-4962, 8071-8077, 7086-7090; FrameDiff.c 19-75).  It holds because  *)
(* fewer pictures can be under way than are skipped, Depth < SKIP_STEP.     *)
SamePlace ==
  \A i \in DOMAIN filtered : filtered[i].clean =>
    FrameDiffSound(filtered[i], IF i = 1 THEN last ELSE filtered[i - 1].pic.at)

(* Tracking and scanning keep the camera where it may point, inside the     *)
(* limits and outside the excluded zone, also after lost answers that leave *)
(* PanPos behind (8000-8034, 8094-8135).                                    *)
InZone == at \in Allowed(zone) /\ (goal # NoGoal => goal \in Allowed(zone))

(* The person is in the middle, or the camera is as near as it may go.      *)
Centred ==
  /\ Visible
  /\ \/ teacher - at \in -Low .. Low
     \/ TrackTo(at, teacher) = at

(* A teacher who stays in the room, wherever, ends up in the middle of the  *)
(* picture or as near as the limits allow, and stays there: the scan finds  *)
(* and the tracking centres, unless an answer of the camera was lost        *)
(* (7918-8143).                                                             *)
Follows == <>[](teacher # Away => Centred \/ answersLost)

(* With nobody in the room the scan goes on and comes to both limits again  *)
(* and again, across the excluded zone too (8087-8143).                     *)
ScanCovers ==
  <>[](teacher = Away) =>
    []<>(at = zone.limit_left) /\ []<>(at = zone.limit_right)
=============================================================================
