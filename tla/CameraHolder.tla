---------------------------- MODULE CameraHolder ----------------------------
(***************************************************************************)
(* A pan/tilt/zoom camera holder as thread_SwitchTracking of recbc_srv.c    *)
(* drives it: t_camera_holder, the VISCA commands GetZoom, GetPos, AbsPos,  *)
(* ZoomDirect, Recall and MemSet, the answers update_camholder_ctx applies, *)
(* and the start-up dialogue that learns where the camera's presets are.    *)
(*                                                                          *)
(* The thread is a loop; its phases that concern one holder are             *)
(*    top    the next start-up step, or the error and timeout handling      *)
(*    rx     at most one answer is taken from the UART queue                *)
(*    ctrl   commands of the instructor                                     *)
(*    event  tracking                                                       *)
(* The camera and the line to it (the core boards' bypass commands) are     *)
(* external: they take commands in order, may take their time, may lose a   *)
(* command or an answer and may answer an error.                            *)
(*                                                                          *)
(* A position is abstracted to the preset whose place it is, Aim for any    *)
(* other place, Unset for the memory the program never wrote.  Pan and tilt *)
(* always travel together and are one field, pt.                            *)
(***************************************************************************)
EXTENDS Integers, Sequences, FiniteSets

CONSTANTS
  Cameras,   \* the holders looked at, "teacher" and "student"
  Orders,    \* Orders[c]: the instructor's orders this run admits for c
  Prompt,    \* TRUE: an answer comes within the 10 s timeout or never
  MaxFault,  \* bound: losses and error answers
  MaxWire    \* bound: commands and answers under way

ASSUME CameraAssumption ==
  /\ Cameras \subseteq {"teacher", "student"}
  /\ Orders \in [Cameras -> SUBSET {"start", "pan", "zoom", "recall", "store"}]
  /\ Prompt \in BOOLEAN
  /\ MaxFault \in Nat /\ MaxWire \in Nat \ {0}

VARIABLES
  cam,              \* which of the two holders this is; never changes
  pc,               \* the phase of the loop
  status,           \* teacher_status / student_status
  command_pending,  \* the set of flags that are up
  expired,          \* more than 10 s have passed since tv
  pos,              \* PanPos, TiltPos, ZoomPos
  target,           \* target_PanPos, target_TiltPos, target_ZoomPos
  preset,           \* preset[]
  limit,            \* limit_left/right and exclude_left/right, as pairs
  still,            \* g_camholder_still
  tx, rx,           \* commands on their way out, answers on their way in
  at, goal,         \* the camera: where it is, where it is going (or <<>>)
  stored,           \* the camera: its own presets
  faults,
  ordered           \* history: the orders given, "none", "moves" or "stores"

holder == <<status, command_pending, expired, pos, target, preset, limit, still>>
camera == <<cam, at, goal, stored, faults>>
vars == <<pc, holder, tx, rx, camera, ordered>>

NumPreset == IF cam = "teacher" THEN 7 ELSE 1
Preset == 0 .. NumPreset - 1
Last == 2 * NumPreset + 3          \* the status of an initialised holder

Aim == -1
Unset == -2
Place == Preset \cup {Aim, Unset}
Pos == [pt : Place, zoom : Place]
Nowhere == [pt |-> Unset, zoom |-> Unset]
Flag == {"ptinq", "zoominq", "completion", "error"}
Limit == [pan : SUBSET Place, exclude : SUBSET Place]


(* camera_holder_init; the positions and presets of the structure on the    *)
(* thread's stack are not written before the first answers.                 *)
Init ==
  /\ cam \in Cameras
  /\ pc = "top" /\ status = 0 /\ command_pending = {} /\ expired = FALSE
  /\ pos = Nowhere /\ target = Nowhere
  /\ preset = [k \in Preset |-> Nowhere]
  /\ limit = [pan |-> {}, exclude |-> {}]
  /\ still = TRUE
  /\ tx = <<>> /\ rx = <<>>
  /\ at = [pt |-> Aim, zoom |-> Aim] /\ goal = <<>>
  /\ stored = [k \in Preset |-> [pt |-> k, zoom |-> k]]
  /\ faults = 0 /\ ordered = "none"

-----------------------------------------------------------------------------
(* The commands.  Each sends bytes to the camera, raises a flag and takes   *)
(* the time; the ones that move the camera also set the target.             *)

Send(cmd, flag) ==
  /\ tx' = Append(tx, cmd)
  /\ command_pending' = command_pending \cup {flag}
  /\ expired' = FALSE

GetZoom == Send([op |-> "getzoom"], "zoominq") /\ UNCHANGED target
GetPos == Send([op |-> "getpos"], "ptinq") /\ UNCHANGED target

AbsPos(p) ==
  /\ Send([op |-> "abs", to |-> p], "completion")
  /\ target' = [target EXCEPT !.pt = p]

ZoomDirect(z) ==
  /\ Send([op |-> "zoom", to |-> z], "completion")
  /\ target' = [target EXCEPT !.zoom = z]

(* Mutant of Recall: the target is forgotten.                               *)
RecallNoTarget(n) ==
  Send([op |-> "recall", to |-> n], "completion") /\ UNCHANGED target

(* Recall reads the preset table as it is after the step's own save.        *)
Recall(n) ==
  /\ Send([op |-> "recall", to |-> n], "completion")
  /\ target' = preset'[n]

MemSet(n) ==
  /\ Send([op |-> "memset", to |-> n], "completion")
  /\ target' = pos
  /\ preset' = [preset EXCEPT ![n] = pos]

save_camholder_preset(n) == preset' = [preset EXCEPT ![n] = pos]

-----------------------------------------------------------------------------
(* The start-up dialogue.  Status 0 recalls preset 0, 1 asks for the zoom,  *)
(* every even status asks for the position, every odd one from 3 on saves   *)
(* the preset just reached and recalls the next; the last step computes the *)
(* limits from what was saved.                                              *)

Keep == UNCHANGED preset

InitStep ==
  /\ status < Last
  /\ status' = status + 1
  /\ \/ status = 0 /\ Keep /\ Recall(0) /\ UNCHANGED limit
     \/ status = 1 /\ Keep /\ GetZoom /\ UNCHANGED limit
     \/ status \in 2 .. Last - 3 /\ status % 2 = 0 /\ Keep /\ GetPos /\ UNCHANGED limit
     \/ /\ status \in 3 .. Last - 2 /\ status % 2 = 1
        /\ save_camholder_preset((status - 3) \div 2)
        /\ Recall(IF status = Last - 2 THEN 0 ELSE (status - 1) \div 2)
        /\ UNCHANGED limit
     \/ /\ status = Last - 1
        /\ limit' = IF cam = "teacher"
                    THEN [pan     |-> {preset[1].pt, preset[2].pt},
                          exclude |-> {preset[5].pt, preset[6].pt}]
                    ELSE limit
        /\ UNCHANGED <<preset, target, tx, command_pending, expired>>

(* Mutant of Back: the flags are reset and the status stays.                *)
BackForgotten(s) == s

(* Error handling, then timeout handling: each resets the flags and goes    *)
(* back one status.                                                         *)
Back(s) == IF s > 0 /\ s < Last THEN s - 1 ELSE s

(* Mutant of CheckPending: only error answers are handled, no timeout.      *)
CheckPendingNoTimeout ==
  LET failed == "error" \in command_pending
  IN  /\ status' = IF failed THEN Back(status) ELSE status
      /\ command_pending' = IF failed THEN {} ELSE command_pending
      /\ UNCHANGED <<preset, target, tx, expired, limit>>

CheckPending ==
  LET failed == "error" \in command_pending
      s1 == IF failed THEN Back(status) ELSE status
      s2 == IF expired THEN Back(s1) ELSE s1
  IN  /\ status' = s2
      /\ command_pending' = IF failed \/ expired THEN {} ELSE command_pending
      /\ UNCHANGED <<preset, target, tx, expired, limit>>

Top ==
  /\ pc = "top" /\ pc' = "rx"
  /\ IF command_pending = {}
     THEN InitStep \/ (status = Last /\ UNCHANGED <<holder, tx>>)
     ELSE CheckPending
  /\ UNCHANGED <<pos, still, rx, camera, ordered>>

-----------------------------------------------------------------------------
(* update_camholder_ctx.  The mask is written (!FLAG), which is 0: an       *)
(* answer clears every flag.                                                *)

update_camholder_ctx(a) ==
  \/ /\ a.rsp = "ptpos"
     /\ pos' = [pos EXCEPT !.pt = a.val] /\ command_pending' = {}
  \/ /\ a.rsp = "zoompos"
     /\ pos' = [pos EXCEPT !.zoom = a.val] /\ command_pending' = {}
  \/ a.rsp = "completion" /\ pos' = target /\ command_pending' = {}
  \/ a.rsp = "error" /\ command_pending' = {"error"} /\ UNCHANGED pos

(* The teacher's holder is still once nothing is pending.                   *)
StillCheck == still' = (still \/ command_pending' = {})

Rx ==
  /\ pc = "rx" /\ pc' = "ctrl"
  /\ \/ /\ rx # <<>>
        /\ update_camholder_ctx(Head(rx))
        /\ rx' = Tail(rx)
     \/ rx = <<>> /\ UNCHANGED <<rx, pos, command_pending>>
  /\ StillCheck
  /\ UNCHANGED <<status, expired, target, preset, limit, tx, camera, ordered>>

UnderWay == tx # <<>> \/ rx # <<>> \/ goal # <<>>

(* The instructor: orders come once the holder is initialised, and presets  *)
(* are stored when the camera has come to rest.  The code asks for neither. *)
OrderComes == status = Last
StoreComes == OrderComes /\ ~UnderWay

(* The instructor's orders: Start and Stop bring an initialised teacher     *)
(* holder home; the manual orders look neither at the status nor at what is *)
(* pending.                                                                 *)
Ctrl ==
  /\ pc = "ctrl" /\ UNCHANGED pc
  /\ Len(tx) < MaxWire
  /\ \/ /\ ordered' = IF ordered = "none" THEN "moves" ELSE ordered
        /\ \/ "start" \in Orders[cam] /\ cam = "teacher" /\ status = Last /\ Keep /\ Recall(0)
           \/ "pan" \in Orders[cam] /\ OrderComes /\ Keep /\ AbsPos(Aim)
           \/ "zoom" \in Orders[cam] /\ OrderComes /\ Keep /\ ZoomDirect(Aim)
           \/ "recall" \in Orders[cam] /\ OrderComes /\ \E n \in Preset : Keep /\ Recall(n)
     \/ /\ ordered' = "stores"
        /\ "store" \in Orders[cam] /\ StoreComes /\ \E n \in Preset : MemSet(n)
  /\ UNCHANGED <<status, pos, limit, still, rx, camera>>

CtrlDone == pc = "ctrl" /\ pc' = "event" /\ UNCHANGED <<holder, tx, rx, camera, ordered>>

(* Mutant of TrackTeacher: it does not wait for the holder.                 *)
TrackTeacherImpatient ==
  /\ cam = "teacher" /\ still' = FALSE /\ AbsPos(Aim)

(* Teacher tracking waits for the holder and marks it as moving; student    *)
(* tracking sends the pan/tilt and the zoom command one after the other and *)
(* waits for nothing.                                                       *)
TrackTeacher ==
  /\ cam = "teacher" /\ command_pending = {}
  /\ still' = FALSE
  /\ AbsPos(Aim)

TrackStudent ==
  /\ cam = "student" /\ Len(tx) + 1 < MaxWire
  /\ tx' = tx \o <<[op |-> "abs", to |-> Aim], [op |-> "zoom", to |-> Aim]>>
  /\ target' = [pt |-> Aim, zoom |-> Aim]
  /\ command_pending' = command_pending \cup {"completion"}
  /\ expired' = FALSE
  /\ UNCHANGED still

Track ==
  /\ pc = "event" /\ UNCHANGED pc
  /\ status = Last /\ Len(tx) < MaxWire
  /\ TrackTeacher \/ TrackStudent
  /\ UNCHANGED <<status, pos, preset, limit, rx, camera, ordered>>

EventDone == pc = "event" /\ pc' = "top" /\ UNCHANGED <<holder, tx, rx, camera, ordered>>

Loop == Top \/ Rx \/ Ctrl \/ CtrlDone \/ Track \/ EventDone

-----------------------------------------------------------------------------
(* External: the camera and the line.                                       *)

Moves(c) == c.op \notin {"getzoom", "getpos"}

Goal(c) ==
  CASE c.op = "abs" -> [at EXCEPT !.pt = c.to]
    [] c.op = "zoom" -> [at EXCEPT !.zoom = c.to]
    [] c.op = "recall" -> stored[c.to]
    [] OTHER -> at

CamTake ==
  /\ tx # <<>> /\ Len(rx) < MaxWire
  /\ tx' = Tail(tx)
  /\ LET c == Head(tx)
     IN  \/ /\ c.op = "getpos" /\ rx' = Append(rx, [rsp |-> "ptpos", val |-> at.pt])
            /\ UNCHANGED <<goal, stored>>
         \/ /\ c.op = "getzoom" /\ rx' = Append(rx, [rsp |-> "zoompos", val |-> at.zoom])
            /\ UNCHANGED <<goal, stored>>
         \/ /\ Moves(c) /\ goal = <<>>
            /\ goal' = <<Goal(c)>>
            /\ stored' = IF c.op = "memset" THEN [stored EXCEPT ![c.to] = at] ELSE stored
            /\ UNCHANGED rx
  /\ UNCHANGED <<cam, pc, holder, at, faults, ordered>>

CamArrive ==
  /\ goal # <<>> /\ Len(rx) < MaxWire
  /\ at' = goal[1] /\ goal' = <<>>
  /\ rx' = Append(rx, [rsp |-> "completion"])
  /\ UNCHANGED <<cam, pc, holder, tx, stored, faults, ordered>>

CamReject ==
  /\ tx # <<>> /\ faults < MaxFault /\ Len(rx) < MaxWire
  /\ tx' = Tail(tx) /\ rx' = Append(rx, [rsp |-> "error"])
  /\ faults' = faults + 1
  /\ UNCHANGED <<cam, pc, holder, at, goal, stored, ordered>>

LoseCommand ==
  /\ tx # <<>> /\ faults < MaxFault
  /\ tx' = Tail(tx) /\ faults' = faults + 1
  /\ UNCHANGED <<cam, pc, holder, rx, at, goal, stored, ordered>>

LoseAnswer ==
  /\ rx # <<>> /\ faults < MaxFault
  /\ rx' = Tail(rx) /\ faults' = faults + 1
  /\ UNCHANGED <<cam, pc, holder, tx, at, goal, stored, ordered>>

(* Ten seconds pass.  A prompt camera has answered by then and the loop has *)
(* come round to look at the answer.                                        *)
Tick ==
  /\ ~expired /\ command_pending # {}
  /\ Prompt => ~UnderWay /\ "error" \notin command_pending
  /\ Len(tx) < MaxWire
  /\ expired' = TRUE
  /\ UNCHANGED <<pc, status, command_pending, pos, target, preset, limit, still, tx, rx, camera, ordered>>

Outside == CamTake \/ CamArrive \/ CamReject \/ LoseCommand \/ LoseAnswer \/ Tick

Next == Loop \/ Outside

Spec == Init /\ [][Next]_vars

(* The thread keeps turning, the camera answers what reaches it, time       *)
(* passes; the phases of the loop do not last for ever.                     *)
FairSpec ==
  Spec /\ WF_vars(Top) /\ WF_vars(Rx) /\ WF_vars(CtrlDone) /\ WF_vars(EventDone)
       /\ WF_vars(CamTake) /\ WF_vars(CamArrive) /\ WF_vars(Tick)

-----------------------------------------------------------------------------
(* Properties.                                                              *)

Answer == [rsp : {"ptpos", "zoompos"}, val : Place]
            \cup [rsp : {"completion", "error"}]
Command == [op : {"getzoom", "getpos"}] \cup [op : {"abs", "zoom", "recall", "memset"}, to : Place]

(* The variables keep their types.                                          *)
TypeOK ==
  /\ cam \in Cameras
  /\ pc \in {"top", "rx", "ctrl", "event"} /\ status \in 0 .. Last
  /\ command_pending \subseteq Flag /\ expired \in BOOLEAN
  /\ pos \in Pos /\ target \in Pos /\ preset \in [Preset -> Pos]
  /\ limit \in Limit /\ still \in BOOLEAN
  /\ tx \in Seq(Command) /\ rx \in Seq(Answer)
  /\ at \in Pos /\ goal \in {<<>>} \cup {<<p>> : p \in Pos}
  /\ stored \in [Preset -> Pos] /\ faults \in 0 .. MaxFault
  /\ ordered \in {"none", "moves", "stores"}

(* What the program holds of the presets is true: once the holder is        *)
(* initialised and nothing is under way, every preset has the place the     *)
(* camera itself has for it, preset 0 its zoom as well, and the limits of   *)
(* the teacher's range are those of presets 1, 2 and 5, 6, whatever was     *)
(* lost, refused or repeated on the way (thread_SwitchTracking 6725-6972).  *)
(* A preset stored by an order is right if nothing was lost: MemSet enters  *)
(* it in the table without waiting for the camera.                          *)
PresetsRight ==
  status = Last /\ ~UnderWay /\ (ordered = "stores" => faults = 0) =>
    /\ \A k \in Preset : preset[k].pt = stored[k].pt
    /\ preset[0].zoom = stored[0].zoom
    /\ cam = "teacher" =>
         /\ limit.pan = {stored[1].pt, stored[2].pt}
         /\ limit.exclude = {stored[5].pt, stored[6].pt}

(* Frames are analysed only while the camera stands still: once             *)
(* initialised, and as long as no order has moved the camera,               *)
(* g_camholder_still is 1 only if no movement is under way                  *)
(* (thread_SwitchTracking 7084-7090, 8071-8077; thread_img 4940-4951).      *)
StillMeansStill ==
  cam = "teacher" /\ still /\ status = Last /\ ordered = "none" =>
    goal = <<>> /\ \A i \in DOMAIN tx : ~Moves(tx[i])

(* The program knows where the camera is: as long as nothing was lost or    *)
(* refused, an initialised holder with nothing under way has PanPos,        *)
(* TiltPos and ZoomPos right, however orders and tracking overlapped        *)
(* (update_camholder_ctx; the targets AbsPos, ZoomDirect and Recall set).   *)
PositionKnown ==
  status = Last /\ ~UnderWay /\ faults = 0 => pos = at

(* The start-up dialogue ends: losses and refusals are retried until the    *)
(* holder is initialised.                                                   *)
InitCompletes == <>(status = Last)
=============================================================================
