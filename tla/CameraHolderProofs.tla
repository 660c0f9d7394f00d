------------------------- MODULE CameraHolderProofs -------------------------
(***************************************************************************)
(* Theorems about CameraHolder, for any number of losses and refusals and   *)
(* any length of the line.                                                  *)
(***************************************************************************)
EXTENDS CameraHolder, SequenceTheorems, TLAPS

-----------------------------------------------------------------------------
(* One command at a time                                                    *)

Idle == tx = <<>> /\ goal = <<>> /\ rx = <<>>
Sent == Len(tx) = 1 /\ goal = <<>> /\ rx = <<>>
Turning == tx = <<>> /\ goal # <<>> /\ rx = <<>>
Answered == tx = <<>> /\ goal = <<>> /\ Len(rx) = 1

\* Until the instructor interferes, the teacher's holder has one command at a
\* time under way, and so has either holder during start-up.
Alone == ordered = "none" /\ (cam = "teacher" \/ status < Last)

Open == Sent \/ Turning \/ Answered
Awaited == command_pending # {} /\ "error" \notin command_pending /\ ~expired

(* An answer that is due comes before the timeout: while something is under *)
(* way a flag is up that neither an error nor the timeout has taken down.   *)
OneAtATime ==
  /\ status < Last => ordered = "none"
  /\ Alone => Idle \/ (Open /\ Awaited)

(* A step of the start-up dialogue fails in one way at a time.              *)
OneFailure == status < Last => ~("error" \in command_pending /\ expired)

(* An initialised teacher's holder is only marked still when idle.          *)
StillIdle == Alone /\ status = Last /\ still => Idle

\* Presets that are recalled or stored exist.
Numbered ==
  \A i \in 1 .. Len(tx) : tx[i].op \in {"recall", "memset"} => tx[i].to \in Preset

-----------------------------------------------------------------------------
(* The start-up dialogue                                                    *)

\* The camera was asked to recall preset n; when nothing is pending any more
\* it is there.
RecallOut(n) ==
  \/ Sent /\ tx[1].op = "recall" /\ tx[1].to = n
  \/ Turning /\ goal[1] = stored[n]
  \/ Answered /\ (rx[1].rsp = "error" \/ (rx[1].rsp = "completion" /\ at = stored[n]))
  \/ Idle /\ (command_pending = {} => at = stored[n])

ZoomOut ==
  \/ Sent /\ tx[1].op = "getzoom"
  \/ Answered /\ (rx[1].rsp = "error" \/ (rx[1].rsp = "zoompos" /\ rx[1].val = stored[0].zoom))
  \/ Idle /\ (command_pending = {} => pos.zoom = stored[0].zoom)

PosOut(k) ==
  \/ Sent /\ tx[1].op = "getpos"
  \/ Answered /\ (rx[1].rsp = "error" \/ (rx[1].rsp = "ptpos" /\ rx[1].val = stored[k].pt))
  \/ Idle

\* The position kept by the program is that of preset k.
KnowsPreset(k) == pos.pt = stored[k].pt /\ (k = 0 => pos.zoom = stored[0].zoom)

(* What the program knows in each status of the dialogue.  A step that      *)
(* fails is repeated; what it needs has not been overwritten.               *)
AskedHome == status = 1 => RecallOut(0)
AskedZoom == status = 2 => at = stored[0] /\ ZoomOut
AskedPos ==
  \A k \in Preset : status = 2 * k + 3 /\ status < Last =>
    /\ k = 0 => pos.zoom = stored[0].zoom
    /\ \/ Idle /\ command_pending = {} /\ pos.pt = stored[k].pt
       \/ command_pending # {} /\ at = stored[k] /\ PosOut(k)
AskedNext ==
  \A k \in Preset : status = 2 * k + 4 /\ status < Last =>
    /\ RecallOut(IF status = Last - 1 THEN 0 ELSE k + 1)
    /\ command_pending # {} => KnowsPreset(k)
AskedBack ==
  status = Last - 1 => target = preset[0] /\ (command_pending = {} => pos = target)
Saved ==
  status < Last =>
    /\ \A k \in Preset : 2 * k + 4 <= status => preset[k].pt = stored[k].pt
    /\ status >= 4 => preset[0].zoom = stored[0].zoom

Dialogue == AskedHome /\ AskedZoom /\ AskedPos /\ AskedNext /\ AskedBack /\ Saved

-----------------------------------------------------------------------------
(* The initialised holder                                                   *)

\* The orders for which the table of presets is promised: those of the seven
\* presets of the teacher that are not preset 0 have no zoom read, and the
\* limits of his range are not computed again when one of them is stored.
Plain == "teacher" \in Cameras => Orders["teacher"] \subseteq {"start", "pan", "zoom"}

\* What a sequence of commands makes of one coordinate: the last command that
\* moves it decides, r being where a recall leads and d where it is otherwise.
Decides(s, ops, r, d, v) ==
  \/ \E i \in 1 .. Len(s) :
       /\ s[i].op \in ops /\ v = (IF s[i].op = "recall" THEN r ELSE s[i].to)
       /\ \A j \in i + 1 .. Len(s) : s[j].op \notin ops
  \/ (\A j \in 1 .. Len(s) : s[j].op \notin ops) /\ v = d

PtOps == {"abs", "recall"}
ZoomOps == {"zoom", "recall"}
Bound == IF goal = <<>> THEN at ELSE goal[1]

\* Presets are stored one at a time and at rest.
StoresAtRest ==
  \A i \in 1 .. Len(tx) :
    tx[i].op = "memset" => i = 1 /\ goal = <<>> /\ cam # "teacher" /\ ordered = "stores"

Storing(k) == tx # <<>> /\ tx[1].op = "memset" /\ tx[1].to = k
Trusted == ordered = "stores" => faults = 0

Table ==
  status = Last /\ Trusted =>
    /\ \A k \in Preset : preset[k].pt = (IF Storing(k) THEN at ELSE stored[k]).pt
    /\ preset[0].zoom = (IF Storing(0) THEN at ELSE stored[0]).zoom
    /\ cam = "teacher" =>
         /\ limit.pan = {stored[1].pt, stored[2].pt}
         /\ limit.exclude = {stored[5].pt, stored[6].pt}

(* Where the camera will be when all that is under way is done, the program *)
(* knows already.                                                           *)
Ahead ==
  status = Last /\ faults = 0 =>
    /\ ~UnderWay => pos = target
    /\ \A i \in 1 .. Len(tx) : Moves(tx[i]) /\ (tx[i].op = "recall" => tx[i].to = 0)
    /\ \A i \in 1 .. Len(rx) : rx[i].rsp = "completion"
    /\ Decides(tx, PtOps, preset[0].pt, Bound.pt, target.pt)
    /\ Decides(tx, ZoomOps, preset[0].zoom, Bound.zoom, target.zoom)

IInv == TypeOK /\ Numbered /\ OneAtATime /\ OneFailure /\ Dialogue /\ StoresAtRest /\ Table /\ Ahead
-----------------------------------------------------------------------------
(* Type correctness                                                         *)

\* The holder never turns into the other one.
LEMMA SameHolder ==
  ASSUME [Next]_vars
  PROVE  /\ cam' = cam /\ NumPreset' = NumPreset /\ Last' = Last /\ Preset' = Preset
         /\ Place' = Place /\ Pos' = Pos /\ Limit' = Limit /\ Command' = Command
         /\ Answer' = Answer
<1>1. cam' = cam
  BY DEF Next, Loop, Outside, Top, Rx, Ctrl, CtrlDone, Track, EventDone, CamTake, CamArrive,
     CamReject, LoseCommand, LoseAnswer, Tick, camera, vars
<1>2. QED BY <1>1 DEF NumPreset, Last, Preset, Place, Pos, Limit, Command, Answer

\* The numbers of presets and of start-up steps.
LEMMA Size ==
  /\ NumPreset \in Nat \ {0} /\ Last = 2 * NumPreset + 3 /\ Preset = 0 .. NumPreset - 1
  /\ Last \in Nat /\ 0 \in Preset
  /\ cam = "teacher" => NumPreset = 7
  /\ cam # "teacher" => NumPreset = 1
BY DEF NumPreset, Last, Preset

\* Places and positions the operations use.
LEMMA Places ==
  /\ Aim \in Place /\ \A n \in Preset : n \in Place
  /\ \A p, z \in Place : [pt |-> p, zoom |-> z] \in Pos
  /\ \A q \in Pos : q.pt \in Place /\ q.zoom \in Place
  /\ \A q \in Pos, p \in Place : [q EXCEPT !.pt = p] \in Pos /\ [q EXCEPT !.zoom = p] \in Pos
BY DEF Place, Pos

\* Every command sent is well formed.
LEMMA Commands ==
  /\ [op |-> "getzoom"] \in Command /\ [op |-> "getpos"] \in Command
  /\ \A p \in Place :
       /\ [op |-> "abs", to |-> p] \in Command /\ [op |-> "zoom", to |-> p] \in Command
       /\ [op |-> "recall", to |-> p] \in Command /\ [op |-> "memset", to |-> p] \in Command
BY DEF Command

\* camera_holder_init leaves every field well typed.
LEMMA InitType == Init => TypeOK
<1> SUFFICES ASSUME Init PROVE TypeOK OBVIOUS
<1> USE DEF Init
<1>1. Nowhere \in Pos BY DEF Nowhere, Pos, Place
<1>2. pos \in Pos /\ target \in Pos /\ preset \in [Preset -> Pos] BY <1>1
<1>3. at \in Pos BY Places
<1>4. stored \in [Preset -> Pos] BY Places
<1>5. limit \in Limit BY DEF Limit
<1>6. tx \in Seq(Command) /\ rx \in Seq(Answer) OBVIOUS
<1>7. expired \in BOOLEAN /\ still \in BOOLEAN OBVIOUS
<1>8. status \in 0 .. Last /\ faults \in 0 .. MaxFault BY Size, CameraAssumption
<1>9. QED BY <1>2, <1>3, <1>4, <1>5, <1>6, <1>7, <1>8 DEF TypeOK, Flag

\* What Send does to the types.
LEMMA SendType ==
  ASSUME TypeOK, NEW c \in Command, NEW f \in Flag, Send(c, f)
  PROVE  tx' \in Seq(Command) /\ command_pending' \subseteq Flag /\ expired' \in BOOLEAN
<1>1. tx' = Append(tx, c) /\ command_pending' = command_pending \cup {f} /\ expired' = FALSE
  BY DEF Send
<1>2. tx \in Seq(Command) /\ command_pending \subseteq Flag BY DEF TypeOK
<1>3. tx' \in Seq(Command) /\ command_pending' \subseteq Flag BY <1>1, <1>2
<1>4. expired' \in BOOLEAN BY <1>1
<1>5. QED BY <1>3, <1>4

\* A recall is well typed, and so is every other command.
LEMMA RecallType ==
  ASSUME TypeOK, NEW n \in Preset, Recall(n), preset' \in [Preset -> Pos]
  PROVE  /\ tx' \in Seq(Command) /\ command_pending' \subseteq Flag /\ expired' \in BOOLEAN
         /\ target' \in Pos
<1>1. [op |-> "recall", to |-> n] \in Command BY Places, Commands
<1>2. "completion" \in Flag BY DEF Flag
<1>3. QED BY <1>1, <1>2, SendType DEF Recall
\* A step of the start-up dialogue keeps the types.
LEMMA InitStepType ==
  ASSUME TypeOK, InitStep
  PROVE  /\ status' \in 0 .. Last /\ limit' \in Limit /\ preset' \in [Preset -> Pos]
         /\ tx' \in Seq(Command) /\ command_pending' \subseteq Flag /\ expired' \in BOOLEAN
         /\ target' \in Pos
<1>1. status' \in 0 .. Last BY Size DEF InitStep, TypeOK
<1>2. preset \in [Preset -> Pos] /\ pos \in Pos /\ limit \in Limit /\ status \in 0 .. Last
      /\ target \in Pos
  BY DEF TypeOK
<1>f. "zoominq" \in Flag /\ "ptinq" \in Flag BY DEF Flag
<1>3. CASE status = 0 /\ Keep /\ Recall(0) /\ UNCHANGED limit
  BY <1>1, <1>2, <1>3, RecallType, Size DEF Keep
<1>4. CASE status = 1 /\ Keep /\ GetZoom /\ UNCHANGED limit
  BY <1>1, <1>2, <1>4, <1>f, SendType, Commands DEF Keep, GetZoom
<1>5. CASE status \in 2 .. Last - 3 /\ Keep /\ GetPos /\ UNCHANGED limit
  BY <1>1, <1>2, <1>5, <1>f, SendType, Commands DEF Keep, GetPos
<1>6. CASE /\ status \in 3 .. Last - 2 /\ status % 2 = 1
           /\ save_camholder_preset((status - 3) \div 2)
           /\ Recall(IF status = Last - 2 THEN 0 ELSE (status - 1) \div 2)
           /\ UNCHANGED limit
  <2>1. preset' \in [Preset -> Pos] BY <1>2, <1>6 DEF save_camholder_preset
  <2>2. (IF status = Last - 2 THEN 0 ELSE (status - 1) \div 2) \in Preset BY <1>2, <1>6, Size
  <2>3. QED BY <1>1, <1>2, <1>6, <2>1, <2>2, RecallType
<1>7. CASE /\ status = Last - 1
           /\ limit' = IF cam = "teacher"
                       THEN [pan     |-> {preset[1].pt, preset[2].pt},
                             exclude |-> {preset[5].pt, preset[6].pt}]
                       ELSE limit
           /\ UNCHANGED <<preset, target, tx, command_pending, expired>>
  <2>1. limit' \in Limit
    <3>1. CASE cam = "teacher"
      <4>1. /\ 1 \in Preset /\ 2 \in Preset /\ 5 \in Preset /\ 6 \in Preset
        BY <3>1, Size
      <4>2. /\ preset[1].pt \in Place /\ preset[2].pt \in Place
            /\ preset[5].pt \in Place /\ preset[6].pt \in Place
        BY <1>2, <4>1, Places
      <4>3. QED BY <1>7, <3>1, <4>2 DEF Limit
    <3>2. CASE cam # "teacher" BY <1>2, <1>7, <3>2
    <3>3. QED BY <3>1, <3>2
  <2>2. QED BY <1>1, <1>2, <1>7, <2>1 DEF TypeOK
<1>8. QED BY <1>3, <1>4, <1>5, <1>6, <1>7 DEF InitStep

\* Going back does not leave the range of statuses.
LEMMA BackType == \A s \in 0 .. Last : Back(s) \in 0 .. Last
BY Size DEF Back

\* The answers are well formed, and so is what they write.
LEMMA RxType ==
  ASSUME TypeOK, Rx
  PROVE  /\ rx' \in Seq(Answer) /\ pos' \in Pos /\ command_pending' \subseteq Flag
         /\ still' \in BOOLEAN
<1>1. rx \in Seq(Answer) /\ pos \in Pos /\ target \in Pos /\ command_pending \subseteq Flag
  BY DEF TypeOK
<1>2. still' \in BOOLEAN BY DEF Rx, StillCheck
<1>3. CASE rx = <<>> /\ UNCHANGED <<rx, pos, command_pending>> BY <1>1, <1>2, <1>3
<1>4. CASE rx # <<>> /\ update_camholder_ctx(Head(rx)) /\ rx' = Tail(rx)
  <2>1. PICK a \in Answer : a = Head(rx) BY <1>1, <1>4
  <2>2. rx' \in Seq(Answer) BY <1>1, <1>4
  <2>3. CASE a.rsp \in {"ptpos", "zoompos"}
    <3>1. a.val \in Place BY <2>3 DEF Answer
    <3>2. QED BY <1>1, <1>2, <1>4, <2>1, <2>2, <2>3, <3>1, Places DEF update_camholder_ctx
  <2>4. CASE a.rsp \notin {"ptpos", "zoompos"}
    BY <1>1, <1>2, <1>4, <2>1, <2>2, <2>4 DEF update_camholder_ctx, Flag
  <2>5. QED BY <2>3, <2>4
<1>5. QED BY <1>3, <1>4 DEF Rx
\* Top keeps the types.
LEMMA TopType == ASSUME TypeOK, Top, [Next]_vars PROVE TypeOK'
<1> USE SameHolder
<1>1. CASE command_pending = {} /\ InitStep
  BY <1>1, InitStepType DEF TypeOK, Top, camera
<1>2. CASE status = Last /\ UNCHANGED <<holder, tx>>
  BY <1>2 DEF TypeOK, Top, camera, holder
<1>3. CASE command_pending # {} /\ CheckPending
  <2>1. status' \in 0 .. Last BY <1>3, BackType DEF CheckPending, TypeOK
  <2>2. command_pending' \subseteq Flag BY <1>3 DEF CheckPending, TypeOK
  <2>3. QED BY <1>3, <2>1, <2>2 DEF TypeOK, Top, camera, CheckPending
<1>4. QED BY <1>1, <1>2, <1>3 DEF Top

\* The instructor's orders and tracking keep the types.
LEMMA OrdersType == ASSUME TypeOK, Ctrl \/ Track, [Next]_vars PROVE TypeOK'
<1> USE SameHolder
<1>1. /\ preset \in [Preset -> Pos] /\ pos \in Pos /\ target \in Pos /\ tx \in Seq(Command)
      /\ command_pending \subseteq Flag /\ still \in BOOLEAN
      /\ ordered \in {"none", "moves", "stores"}
  BY DEF TypeOK
<1>2. "completion" \in Flag BY DEF Flag
<1> DEFINE Good == /\ preset' \in [Preset -> Pos] /\ target' \in Pos /\ tx' \in Seq(Command)
                   /\ command_pending' \subseteq Flag /\ expired' \in BOOLEAN
<1>3. ASSUME NEW n \in Preset, Keep, Recall(n) PROVE Good
  BY <1>1, <1>3, RecallType DEF Keep
<1>4. ASSUME UNCHANGED preset, AbsPos(Aim) PROVE Good
  BY <1>1, <1>2, <1>4, SendType, Places, Commands DEF AbsPos
<1>5. ASSUME UNCHANGED preset, ZoomDirect(Aim) PROVE Good
  BY <1>1, <1>2, <1>5, SendType, Places, Commands DEF ZoomDirect
<1>6. ASSUME NEW n \in Preset, MemSet(n) PROVE Good
  BY <1>1, <1>2, <1>6, SendType, Places, Commands DEF MemSet
<1>7. CASE Ctrl
  <2>1. Good BY <1>3, <1>4, <1>5, <1>6, <1>7, Size DEF Ctrl, Keep
  <2>2. ordered' \in {"none", "moves", "stores"} BY <1>1, <1>7 DEF Ctrl
  <2>3. QED BY <1>7, <2>1, <2>2 DEF TypeOK, Ctrl, camera
<1>8. CASE Track /\ TrackTeacher
  <2>1. Good BY <1>4, <1>8 DEF Track, TrackTeacher
  <2>2. still' \in BOOLEAN BY <1>8 DEF TrackTeacher
  <2>3. QED BY <1>8, <2>1, <2>2 DEF TypeOK, Track, camera
<1>9. CASE Track /\ TrackStudent
  <2>1. PICK a \in Command : a = [op |-> "abs", to |-> Aim] BY Places, Commands
  <2>2. PICK z \in Command : z = [op |-> "zoom", to |-> Aim] BY Places, Commands
  <2>3. tx' = tx \o <<a, z>> BY <1>9, <2>1, <2>2 DEF TrackStudent
  <2>4. tx' \in Seq(Command) BY <1>1, <2>3
  <2>5. target' \in Pos BY <1>9, Places DEF TrackStudent
  <2>6. command_pending' \subseteq Flag BY <1>1, <1>2, <1>9 DEF TrackStudent
  <2>7. expired' \in BOOLEAN /\ still' \in BOOLEAN BY <1>1, <1>9 DEF TrackStudent
  <2>8. QED BY <1>9, <2>4, <2>5, <2>6, <2>7 DEF TypeOK, Track, camera
<1>10. QED BY <1>7, <1>8, <1>9 DEF Track

\* The camera keeps the types.
LEMMA OutsideType == ASSUME TypeOK, Numbered, Outside, [Next]_vars PROVE TypeOK'
<1> USE SameHolder
<1>1. /\ tx \in Seq(Command) /\ rx \in Seq(Answer) /\ at \in Pos /\ stored \in [Preset -> Pos]
      /\ goal \in {<<>>} \cup {<<p>> : p \in Pos} /\ faults \in 0 .. MaxFault
  BY DEF TypeOK
<1>2. [rsp |-> "completion"] \in Answer /\ [rsp |-> "error"] \in Answer
      /\ [rsp |-> "ptpos", val |-> at.pt] \in Answer /\ [rsp |-> "zoompos", val |-> at.zoom] \in Answer
  BY <1>1, Places DEF Answer
<1>3. \A a \in Answer : Append(rx, a) \in Seq(Answer) BY <1>1
<1>4. tx # <<>> => Tail(tx) \in Seq(Command) /\ Head(tx) \in Command /\ Head(tx) = tx[1]
                   /\ 1 \in 1 .. Len(tx)
  BY <1>1
<1>5. CASE CamTake
  <2>1. PICK c \in Command : c = Head(tx) BY <1>4, <1>5 DEF CamTake
  <2>2. tx' \in Seq(Command) BY <1>4, <1>5 DEF CamTake
  <2>3. c.op \in {"recall", "memset"} => c.to \in Preset BY <1>4, <1>5, <2>1 DEF Numbered, CamTake
  <2>4. CASE ~Moves(c)
    <3>1. rx' \in Seq(Answer) /\ UNCHANGED <<goal, stored>>
      BY <1>2, <1>3, <1>5, <2>1, <2>4 DEF CamTake, Moves
    <3>2. QED BY <1>5, <2>2, <3>1 DEF TypeOK, CamTake, holder
  <2>5. CASE Moves(c)
    <3>1. /\ goal' = <<Goal(c)>> /\ UNCHANGED rx
          /\ stored' = IF c.op = "memset" THEN [stored EXCEPT ![c.to] = at] ELSE stored
      BY <1>5, <2>1, <2>5 DEF CamTake, Moves
    <3>2. c.op \in {"abs", "zoom"} => c.to \in Place BY DEF Command
    <3>3. Goal(c) \in Pos BY <1>1, <2>3, <3>2, Places DEF Goal
    <3>4. stored' \in [Preset -> Pos] BY <1>1, <2>3, <3>1
    <3>5. goal' \in {<<>>} \cup {<<p>> : p \in Pos} BY <3>1, <3>3
    <3>6. QED BY <1>5, <2>2, <3>1, <3>4, <3>5 DEF TypeOK, CamTake, holder
  <2>6. QED BY <2>4, <2>5
<1>6. CASE CamArrive
  <2>1. goal[1] \in Pos BY <1>1, <1>6 DEF CamArrive
  <2>2. rx' \in Seq(Answer) BY <1>2, <1>3, <1>6 DEF CamArrive
  <2>3. QED BY <1>6, <2>1, <2>2 DEF TypeOK, CamArrive, holder
<1>7. CASE CamReject
  <2>1. rx' \in Seq(Answer) /\ tx' \in Seq(Command) BY <1>2, <1>3, <1>4, <1>7 DEF CamReject
  <2>2. faults' \in 0 .. MaxFault BY <1>1, <1>7, CameraAssumption DEF CamReject
  <2>3. QED BY <1>7, <2>1, <2>2 DEF TypeOK, CamReject, holder
<1>8. CASE LoseCommand
  <2>1. tx' \in Seq(Command) BY <1>4, <1>8 DEF LoseCommand
  <2>2. faults' \in 0 .. MaxFault BY <1>1, <1>8, CameraAssumption DEF LoseCommand
  <2>3. QED BY <1>8, <2>1, <2>2 DEF TypeOK, LoseCommand, holder
<1>9. CASE LoseAnswer
  <2>1. rx' \in Seq(Answer) BY <1>1, <1>9 DEF LoseAnswer
  <2>2. faults' \in 0 .. MaxFault BY <1>1, <1>9, CameraAssumption DEF LoseAnswer
  <2>3. QED BY <1>9, <2>1, <2>2 DEF TypeOK, LoseAnswer, holder
<1>10. CASE Tick
  <2>1. expired' \in BOOLEAN BY <1>10 DEF Tick
  <2>2. QED BY <1>10, <2>1 DEF TypeOK, Tick, camera
<1>11. QED BY <1>5, <1>6, <1>7, <1>8, <1>9, <1>10 DEF Outside

\* So does every step.
LEMMA NextType == ASSUME TypeOK, Numbered, [Next]_vars PROVE TypeOK'
<1> USE SameHolder
<1>1. CASE Top BY <1>1, TopType
<1>2. CASE Rx BY <1>2, RxType DEF TypeOK, Rx, camera
<1>3. CASE Ctrl \/ Track BY <1>3, OrdersType
<1>4. CASE CtrlDone \/ EventDone BY <1>4 DEF TypeOK, CtrlDone, EventDone, holder, camera
<1>5. CASE Outside BY <1>5, OutsideType
<1>6. CASE UNCHANGED vars BY <1>6 DEF TypeOK, vars, holder, camera
<1>7. QED BY <1>1, <1>2, <1>3, <1>4, <1>5, <1>6 DEF Next, Loop
\* The steps of the start-up dialogue that recall a preset recall an existing
\* one.
LEMMA InitSends ==
  ASSUME TypeOK, InitStep
  PROVE  \/ UNCHANGED tx
         \/ \E c \in Command : /\ tx' = Append(tx, c)
                               /\ c.op # "memset"
                               /\ c.op = "recall" => c.to \in Preset
<1>1. CASE status = 0 /\ Recall(0)
  BY <1>1, Size, Places, Commands DEF Recall, Send
<1>2. CASE GetZoom \/ GetPos
  BY <1>2, Commands DEF GetZoom, GetPos, Send
<1>3. CASE /\ status \in 3 .. Last - 2 /\ status % 2 = 1
           /\ Recall(IF status = Last - 2 THEN 0 ELSE (status - 1) \div 2)
  <2>0. status \in 0 .. Last BY DEF TypeOK
  <2>1. (IF status = Last - 2 THEN 0 ELSE (status - 1) \div 2) \in Preset
    BY <1>3, <2>0, Size
  <2>2. PICK n \in Preset : n = IF status = Last - 2 THEN 0 ELSE (status - 1) \div 2 BY <2>1
  <2>3. PICK c \in Command : c = [op |-> "recall", to |-> n] BY <2>2, Places, Commands
  <2>4. tx' = Append(tx, c) BY <1>3, <2>2, <2>3 DEF Recall, Send
  <2>5. QED BY <2>2, <2>3, <2>4
<1>4. CASE UNCHANGED tx BY <1>4
<1>5. QED BY <1>1, <1>2, <1>3, <1>4 DEF InitStep

\* What an order sends.
LEMMA CtrlSends ==
  ASSUME TypeOK, Ctrl
  PROVE  \E c \in Command : /\ tx' = Append(tx, c)
                            /\ c.op \in {"recall", "memset"} => c.to \in Preset
<1>1. ASSUME NEW n \in Preset, Recall(n) \/ MemSet(n)
      PROVE  \E c \in Command : /\ tx' = Append(tx, c)
                                /\ c.op \in {"recall", "memset"} => c.to \in Preset
  BY <1>1, Places, Commands DEF Recall, MemSet, Send
<1>2. CASE AbsPos(Aim) \/ ZoomDirect(Aim)
  BY <1>2, Places, Commands DEF AbsPos, ZoomDirect, Send
<1>3. QED BY <1>1, <1>2, Size DEF Ctrl

\* Recalled and stored presets exist.
LEMMA NextNumbered == ASSUME TypeOK, Numbered, [Next]_vars PROVE Numbered'
<1> USE SameHolder
<1>1. tx \in Seq(Command) BY DEF TypeOK
<1>2. CASE tx' = tx BY <1>2 DEF Numbered
<1>3. ASSUME NEW c \in Command, tx' = Append(tx, c),
             c.op \in {"recall", "memset"} => c.to \in Preset
      PROVE  Numbered'
  <2>1. \A i \in 1 .. Len(tx') : (i \in 1 .. Len(tx) /\ tx'[i] = tx[i]) \/ tx'[i] = c
    BY <1>1, <1>3
  <2>2. QED BY <1>3, <2>1 DEF Numbered
<1>4. CASE tx # <<>> /\ tx' = Tail(tx)
  <2>1. \A i \in 1 .. Len(tx') : i + 1 \in 1 .. Len(tx) /\ tx'[i] = tx[i + 1]
    BY <1>1, <1>4
  <2>2. QED BY <2>1 DEF Numbered
<1>5. CASE Track /\ TrackStudent
  <2>1. PICK a \in Command : a = [op |-> "abs", to |-> Aim] BY Places, Commands
  <2>2. PICK z \in Command : z = [op |-> "zoom", to |-> Aim] BY Places, Commands
  <2>3. tx' = tx \o <<a, z>> BY <1>5, <2>1, <2>2 DEF TrackStudent
  <2>4. \A i \in 1 .. Len(tx') : (i \in 1 .. Len(tx) /\ tx'[i] = tx[i]) \/ tx'[i] \in {a, z}
    BY <1>1, <2>3
  <2>5. QED BY <2>1, <2>2, <2>4 DEF Numbered
<1>6. CASE Track /\ TrackTeacher
  <2>1. PICK a \in Command : a = [op |-> "abs", to |-> Aim] BY Places, Commands
  <2>2. tx' = Append(tx, a) BY <1>6, <2>1 DEF TrackTeacher, AbsPos, Send
  <2>3. QED BY <1>3, <2>1, <2>2
<1>7. CASE Ctrl BY <1>3, <1>7, CtrlSends
<1>8. CASE Top
  BY <1>2, <1>3, <1>8, InitSends DEF Top, CheckPending
<1>9. CASE Rx \/ CtrlDone \/ EventDone \/ CamArrive \/ LoseAnswer \/ Tick \/ UNCHANGED vars
  BY <1>2, <1>9 DEF Rx, CtrlDone, EventDone, CamArrive, LoseAnswer, Tick, vars
<1>10. CASE CamTake \/ CamReject \/ LoseCommand
  BY <1>4, <1>10 DEF CamTake, CamReject, LoseCommand
<1>11. QED BY <1>5, <1>6, <1>7, <1>8, <1>9, <1>10 DEF Next, Loop, Outside, Track

-----------------------------------------------------------------------------
(* One command at a time                                                    *)

\* A sequence of one loses it, an empty one gets it.
LEMMA Lengths ==
  ASSUME TypeOK
  PROVE  /\ Len(tx) = 1 => tx # <<>> /\ Tail(tx) = <<>> /\ Head(tx) = tx[1]
         /\ Len(rx) = 1 => rx # <<>> /\ Tail(rx) = <<>> /\ Head(rx) = rx[1]
         /\ tx = <<>> => \A c \in Command : Len(Append(tx, c)) = 1 /\ Append(tx, c)[1] = c
         /\ rx = <<>> => \A a \in Answer : Len(Append(rx, a)) = 1 /\ Append(rx, a)[1] = a
         /\ tx = <<>> => Len(tx) = 0
         /\ rx = <<>> => Len(rx) = 0
<1>1. tx \in Seq(Command) /\ rx \in Seq(Answer) BY DEF TypeOK
<1>2. \A S : \A s \in Seq(S) : Len(s) = 1 => s # <<>> /\ Tail(s) = <<>> /\ Head(s) = s[1]
  <2> SUFFICES ASSUME NEW S, NEW s \in Seq(S), Len(s) = 1
               PROVE  s # <<>> /\ Tail(s) = <<>> /\ Head(s) = s[1]
    OBVIOUS
  <2>1. s # <<>> OBVIOUS
  <2>2. Tail(s) \in Seq(S) /\ Len(Tail(s)) = 0 BY <2>1
  <2>3. Tail(s) = <<>> BY <2>2, EmptySeq
  <2>4. QED BY <2>1, <2>3
<1>4. tx = <<>> => \A c \in Command : Len(Append(tx, c)) = 1 /\ Append(tx, c)[1] = c BY <1>1
<1>5. rx = <<>> => \A a \in Answer : Len(Append(rx, a)) = 1 /\ Append(rx, a)[1] = a BY <1>1
<1>6. (tx = <<>> => Len(tx) = 0) /\ (rx = <<>> => Len(rx) = 0) OBVIOUS
<1>7. QED BY <1>1, <1>2, <1>4, <1>5, <1>6

\* The answers of the camera are answers.
LEMMA Answers ==
  ASSUME TypeOK
  PROVE  /\ [rsp |-> "completion"] \in Answer /\ [rsp |-> "error"] \in Answer
         /\ [rsp |-> "ptpos", val |-> at.pt] \in Answer
         /\ [rsp |-> "zoompos", val |-> at.zoom] \in Answer
BY Places DEF TypeOK, Answer

\* What happens outside to the one command under way.
LEMMA OutsideOne ==
  ASSUME Prompt, TypeOK, Idle \/ (Open /\ Awaited), Outside
  PROVE  Idle' \/ (Open' /\ Awaited')
<1> USE Lengths, Answers
<1>1. CASE CamTake
  <2>1. Open /\ Awaited /\ Len(tx) = 1 /\ goal = <<>> /\ rx = <<>>
    BY <1>1 DEF CamTake, Idle, Open, Sent, Turning, Answered
  <2>2. tx' = <<>> /\ UNCHANGED <<command_pending, expired>> BY <1>1, <2>1 DEF CamTake, holder
  <2>3. \/ goal' = <<>> /\ Len(rx') = 1
        \/ goal' # <<>> /\ rx' = <<>>
    BY <1>1, <2>1 DEF CamTake
  <2>4. QED BY <2>1, <2>2, <2>3 DEF Open, Turning, Answered, Awaited
<1>2. CASE CamArrive
  <2>1. Open /\ Awaited /\ tx = <<>> /\ rx = <<>>
    BY <1>2 DEF CamArrive, Idle, Open, Sent, Turning, Answered
  <2>2. /\ tx' = <<>> /\ goal' = <<>> /\ Len(rx') = 1
        /\ UNCHANGED <<command_pending, expired>>
    BY <1>2, <2>1 DEF CamArrive, holder
  <2>3. QED BY <2>1, <2>2 DEF Open, Answered, Awaited
<1>3. CASE CamReject
  <2>1. Open /\ Awaited /\ Len(tx) = 1 /\ goal = <<>> /\ rx = <<>>
    BY <1>3 DEF CamReject, Idle, Open, Sent, Turning, Answered
  <2>2. /\ tx' = <<>> /\ goal' = <<>> /\ Len(rx') = 1
        /\ UNCHANGED <<command_pending, expired>>
    BY <1>3, <2>1 DEF CamReject, holder
  <2>3. QED BY <2>1, <2>2 DEF Open, Answered, Awaited
<1>4. CASE LoseCommand
  <2>1. Len(tx) = 1 /\ goal = <<>> /\ rx = <<>>
    BY <1>4 DEF LoseCommand, Idle, Open, Sent, Turning, Answered
  <2>2. QED BY <1>4, <2>1 DEF LoseCommand, Idle
<1>5. CASE LoseAnswer
  <2>1. Len(rx) = 1 /\ goal = <<>> /\ tx = <<>>
    BY <1>5 DEF LoseAnswer, Idle, Open, Sent, Turning, Answered
  <2>2. QED BY <1>5, <2>1 DEF LoseAnswer, Idle
<1>6. CASE Tick
  <2>1. ~UnderWay BY <1>6 DEF Tick
  <2>2. QED BY <1>6, <2>1 DEF Tick, UnderWay, Idle, camera
<1>7. QED BY <1>1, <1>2, <1>3, <1>4, <1>5, <1>6 DEF Outside

\* A step of the start-up dialogue sends one command and awaits its answer;
\* the last one sends nothing.
LEMMA InitAwaits ==
  ASSUME TypeOK, InitStep
  PROVE  /\ status < Last /\ status' = status + 1
         /\ \/ status' = Last /\ UNCHANGED tx
            \/ /\ status' < Last /\ \E c \in Command : tx' = Append(tx, c)
               /\ command_pending' # {} /\ expired' = FALSE
               /\ "error" \notin command_pending => "error" \notin command_pending'
<1>1. status \in 0 .. Last BY DEF TypeOK
<1>2. status < Last /\ status' = status + 1 BY DEF InitStep
<1>3. CASE status = Last - 1
  <2>1. UNCHANGED tx BY <1>1, <1>3, Size DEF InitStep
  <2>2. QED BY <1>1, <1>2, <1>3, <2>1, Size
<1>4. CASE status # Last - 1
  <2>1. status' < Last BY <1>1, <1>2, <1>4, Size
  <2>2. \E c, f : Send(c, f) /\ f # "error"
    BY <1>4 DEF InitStep, GetZoom, GetPos, Recall
  <2>3. command_pending' # {} /\ expired' = FALSE
        /\ ("error" \notin command_pending => "error" \notin command_pending')
    BY <2>2 DEF Send
  <2>4. \E c \in Command : tx' = Append(tx, c)
    <3>1. UNCHANGED tx => FALSE
      <4>1. PICK c, f : Send(c, f) BY <2>2
      <4>2. tx \in Seq(Command) BY DEF TypeOK
      <4>3. tx' = Append(tx, c) BY <4>1 DEF Send
      <4>4. Len(tx') = Len(tx) + 1 BY <4>2, <4>3
      <4>5. QED BY <4>2, <4>4
    <3>2. QED BY <3>1, InitSends
  <2>5. QED BY <1>2, <2>1, <2>3, <2>4
<1>5. QED BY <1>3, <1>4

\* No step makes two commands of one.
LEMMA NextOne ==
  ASSUME Prompt, TypeOK, OneAtATime, [Next]_vars
  PROVE  OneAtATime'
<1> USE SameHolder
<1>1. status \in 0 .. Last /\ Last \in Nat BY Size DEF TypeOK
<1>2. CASE Outside
  <2>1. UNCHANGED <<status, ordered, cam>>
    BY <1>2 DEF Outside, CamTake, CamArrive, CamReject, LoseCommand, LoseAnswer, Tick, holder, camera
  <2>2. Alone' = Alone BY <2>1 DEF Alone
  <2>3. QED BY <1>2, <2>1, <2>2, OutsideOne DEF OneAtATime
<1>3. CASE Top /\ command_pending = {} /\ InitStep
  <2>1. ordered = "none" /\ Idle
    BY <1>3, InitAwaits DEF OneAtATime, Alone, Awaited
  <2>2. ordered' = "none" /\ goal' = <<>> /\ rx' = <<>>
    BY <1>3, <2>1 DEF Top, Idle, camera
  <2>3. CASE UNCHANGED tx BY <2>1, <2>2, <2>3 DEF OneAtATime, Idle
  <2>4. CASE /\ \E c \in Command : tx' = Append(tx, c)
             /\ command_pending' # {} /\ expired' = FALSE
             /\ "error" \notin command_pending => "error" \notin command_pending'
    <3>1. Len(tx') = 1 BY <2>1, <2>4, Lengths DEF Idle
    <3>2. Awaited' BY <1>3, <2>4 DEF Awaited
    <3>3. QED BY <2>2, <3>1, <3>2 DEF OneAtATime, Open, Sent
  <2>5. QED BY <1>3, <2>3, <2>4, InitAwaits
<1>4. CASE Top /\ command_pending # {} /\ CheckPending
  <2>1. UNCHANGED <<tx, rx, goal, ordered, expired>> BY <1>4 DEF Top, CheckPending, camera
  <2>2. status' < Last => status < Last BY <1>1, <1>4 DEF CheckPending, Back
  <2>3. Alone' => Alone BY <2>1, <2>2 DEF Alone
  <2>4. Idle => Idle' BY <2>1 DEF Idle
  <2>5. Open => Open' BY <2>1 DEF Open, Sent, Turning, Answered
  <2>6. Awaited => Awaited' BY <1>4, <2>1 DEF Awaited, CheckPending
  <2>7. QED BY <2>1, <2>2, <2>3, <2>4, <2>5, <2>6 DEF OneAtATime
<1>5. CASE Rx
  <2>1. UNCHANGED <<status, tx, goal, ordered, expired>> BY <1>5 DEF Rx, camera
  <2>2. Alone' = Alone BY <2>1 DEF Alone
  <2>3. CASE Answered
    <3>1. rx' = <<>> BY <1>5, <2>3, Lengths DEF Rx, Answered
    <3>2. Idle' BY <2>1, <2>3, <3>1 DEF Idle, Answered
    <3>3. QED BY <2>1, <3>2 DEF OneAtATime
  <2>4. CASE rx = <<>>
    <3>1. UNCHANGED <<rx, command_pending>> BY <1>5, <2>4 DEF Rx
    <3>2. QED BY <2>1, <2>2, <3>1 DEF OneAtATime, Idle, Open, Sent, Turning, Answered, Awaited
  <2>5. CASE ~Answered /\ rx # <<>>
    BY <2>1, <2>2, <2>5 DEF OneAtATime, Idle, Open, Sent, Turning
  <2>6. QED BY <2>3, <2>4, <2>5
<1>6. CASE Ctrl
  <2>1. status' = Last BY <1>6 DEF Ctrl, OrderComes, StoreComes
  <2>2. ordered' # "none" BY <1>6 DEF Ctrl
  <2>3. QED BY <1>1, <2>1, <2>2 DEF OneAtATime, Alone
<1>7. CASE Track /\ TrackTeacher
  <2>1. status' = Last /\ UNCHANGED <<status, ordered, goal, rx>> BY <1>7 DEF Track, camera
  <2>2. Alone' => Idle BY <1>7, <2>1 DEF OneAtATime, Alone, Awaited, TrackTeacher
  <2>3. PICK c \in Command : c = [op |-> "abs", to |-> Aim] BY Places, Commands
  <2>4. tx' = Append(tx, c) /\ command_pending' = {"completion"} /\ expired' = FALSE
    BY <1>7, <2>3 DEF TrackTeacher, AbsPos, Send
  <2>5. Awaited' BY <2>4 DEF Awaited
  <2>6. Idle => Sent' BY <2>1, <2>4, Lengths DEF Idle, Sent
  <2>7. QED BY <1>1, <2>1, <2>2, <2>5, <2>6 DEF OneAtATime, Open
<1>8. CASE Track /\ TrackStudent
  BY <1>1, <1>8 DEF Track, TrackStudent, OneAtATime, Alone, camera
<1>9. CASE \/ CtrlDone \/ EventDone \/ UNCHANGED vars
           \/ Top /\ UNCHANGED <<holder, tx>>
  <2>1. UNCHANGED <<tx, rx, goal, status, ordered, command_pending, expired>>
    BY <1>9 DEF CtrlDone, EventDone, Top, vars, holder, camera
  <2>2. QED
    BY <2>1 DEF OneAtATime, Alone, Idle, Open, Sent, Turning, Answered, Awaited
<1>10. QED BY <1>2, <1>3, <1>4, <1>5, <1>6, <1>7, <1>8, <1>9 DEF Next, Loop, Top, Track

\* g_camholder_still is only raised when nothing is under way.
LEMMA NextStill ==
  ASSUME Prompt, TypeOK, OneAtATime, OneAtATime', StillIdle, [Next]_vars
  PROVE  StillIdle'
<1> USE SameHolder
<1>1. status \in 0 .. Last /\ Last \in Nat BY Size DEF TypeOK
<1>2. CASE Outside
  <2>1. UNCHANGED <<status, ordered, cam, still>>
    BY <1>2 DEF Outside, CamTake, CamArrive, CamReject, LoseCommand, LoseAnswer, Tick, holder, camera
  <2>2. Alone' = Alone BY <2>1 DEF Alone
  <2>3. Idle => Idle'
    BY <1>2 DEF Idle, Outside, CamTake, CamArrive, CamReject, LoseCommand, LoseAnswer, Tick, camera
  <2>4. QED BY <2>1, <2>2, <2>3 DEF StillIdle
<1>3. CASE Top /\ command_pending = {} /\ InitStep
  <2>1. Idle BY <1>3, InitAwaits DEF OneAtATime, Alone, Awaited
  <2>2. status' = Last => UNCHANGED tx
    <3>1. ~(status' = Last /\ status' < Last) BY <1>1
    <3>2. QED BY <1>3, <3>1, InitAwaits
  <2>3. QED BY <1>3, <2>1, <2>2 DEF StillIdle, Idle, Top, camera
<1>4. CASE Top /\ command_pending # {} /\ CheckPending
  <2>1. UNCHANGED <<tx, rx, goal, ordered, still>> BY <1>4 DEF Top, CheckPending, camera
  <2>2. status' = Last => status = Last BY <1>1, <1>4 DEF CheckPending, Back
  <2>3. QED BY <2>1, <2>2 DEF StillIdle, Alone, Idle
<1>5. CASE Rx
  <2>1. UNCHANGED <<status, tx, goal, ordered, expired>> BY <1>5 DEF Rx, camera
  <2>2. Alone' = Alone BY <2>1 DEF Alone
  <2>3. CASE rx # <<>>
    <3>1. rx # <<>> /\ rx' = Tail(rx) BY <1>5, <2>3 DEF Rx
    <3>2. Alone => Answered
      BY <3>1 DEF OneAtATime, Idle, Open, Sent, Turning
    <3>3. Alone => Idle' BY <2>1, <3>1, <3>2, Lengths DEF Answered, Idle
    <3>4. QED BY <2>2, <3>3 DEF StillIdle
  <2>4. CASE rx = <<>>
    <3>1. UNCHANGED <<rx, command_pending>> BY <1>5, <2>4 DEF Rx
    <3>2. Idle' = Idle BY <2>1, <3>1 DEF Idle
    <3>3. CASE command_pending = {}
      BY <2>2, <3>2, <3>3 DEF StillIdle, OneAtATime, Awaited
    <3>4. CASE command_pending # {}
      <4>1. still' => still BY <1>5, <3>1, <3>4 DEF Rx, StillCheck
      <4>2. QED BY <2>1, <2>2, <3>2, <4>1 DEF StillIdle
    <3>5. QED BY <3>3, <3>4
  <2>5. QED BY <2>3, <2>4
<1>6. CASE Ctrl
  <2>1. ordered' # "none" BY <1>6 DEF Ctrl
  <2>2. QED BY <2>1 DEF StillIdle, Alone
<1>7. CASE Track /\ TrackTeacher
  <2>1. still' = FALSE BY <1>7 DEF TrackTeacher
  <2>2. QED BY <2>1 DEF StillIdle
<1>8. CASE Track /\ TrackStudent
  BY <1>1, <1>8 DEF Track, TrackStudent, StillIdle, Alone, camera
<1>9. CASE \/ CtrlDone \/ EventDone \/ UNCHANGED vars
           \/ Top /\ UNCHANGED <<holder, tx>>
  <2>1. UNCHANGED <<tx, rx, goal, status, ordered, still>>
    BY <1>9 DEF CtrlDone, EventDone, Top, vars, holder, camera
  <2>2. QED BY <2>1 DEF StillIdle, Alone, Idle
<1>10. QED BY <1>2, <1>3, <1>4, <1>5, <1>6, <1>7, <1>8, <1>9 DEF Next, Loop, Top, Track

-----------------------------------------------------------------------------
(* The start-up dialogue                                                    *)

\* What the outside leaves alone.
LEMMA OutsideKeeps ==
  ASSUME Outside
  PROVE  UNCHANGED <<cam, status, ordered, command_pending, pos, target, preset, limit>>
BY DEF Outside, CamTake, CamArrive, CamReject, LoseCommand, LoseAnswer, Tick, holder, camera

\* A recall that is under way arrives at its preset, or its flag stays up.
LEMMA OutsideRecall ==
  ASSUME Prompt, TypeOK, Idle \/ (Open /\ Awaited), NEW n \in Preset, RecallOut(n), Outside
  PROVE  RecallOut(n)' /\ stored' = stored
<1> USE Lengths, Answers, OutsideKeeps
<1>1. CASE CamTake
  <2>1. Sent /\ tx[1].op = "recall" /\ tx[1].to = n
    BY <1>1 DEF CamTake, RecallOut, Turning, Answered, Idle
  <2>2. tx' = <<>> /\ Head(tx) = tx[1] BY <1>1, <2>1 DEF CamTake, Sent
  <2>3. /\ goal' = <<Goal(tx[1])>> /\ stored' = stored /\ rx' = rx
    BY <1>1, <2>1, <2>2 DEF CamTake, Moves
  <2>4. Goal(tx[1]) = stored[n] BY <2>1 DEF Goal
  <2>5. Turning' /\ goal'[1] = stored'[n] BY <2>1, <2>2, <2>3, <2>4 DEF Turning, Sent
  <2>6. QED BY <2>3, <2>5 DEF RecallOut
<1>2. CASE CamArrive
  <2>1. Turning /\ goal[1] = stored[n]
    BY <1>2 DEF CamArrive, RecallOut, Sent, Answered, Idle
  <2>2. Answered' /\ rx'[1] = [rsp |-> "completion"] /\ at' = stored[n] /\ stored' = stored
    BY <1>2, <2>1 DEF CamArrive, Turning, Answered
  <2>3. QED BY <2>2 DEF RecallOut
<1>3. CASE CamReject
  <2>1. Sent BY <1>3 DEF CamReject, RecallOut, Turning, Answered, Idle
  <2>2. Answered' /\ rx'[1] = [rsp |-> "error"] /\ stored' = stored
    BY <1>3, <2>1 DEF CamReject, Sent, Answered
  <2>3. QED BY <2>2 DEF RecallOut
<1>4. CASE LoseCommand
  <2>1. Sent BY <1>4 DEF LoseCommand, RecallOut, Turning, Answered, Idle
  <2>2. command_pending # {} BY <2>1 DEF Sent, Idle, Awaited
  <2>3. Idle' /\ stored' = stored BY <1>4, <2>1 DEF LoseCommand, Sent, Idle
  <2>4. QED BY <2>2, <2>3 DEF RecallOut
<1>5. CASE LoseAnswer
  <2>1. Answered BY <1>5 DEF LoseAnswer, RecallOut, Turning, Sent, Idle
  <2>2. command_pending # {} BY <2>1 DEF Answered, Idle, Awaited
  <2>3. Idle' /\ stored' = stored BY <1>5, <2>1 DEF LoseAnswer, Answered, Idle
  <2>4. QED BY <2>2, <2>3 DEF RecallOut
<1>6. CASE Tick
  <2>1. Idle /\ UNCHANGED <<tx, rx, goal, at, stored>> BY <1>6 DEF Tick, UnderWay, Idle, camera
  <2>2. QED BY <2>1 DEF RecallOut, Sent, Turning, Answered, Idle
<1>7. QED BY <1>1, <1>2, <1>3, <1>4, <1>5, <1>6 DEF Outside

\* A question about the zoom is answered with the zoom the camera has.
LEMMA OutsideZoom ==
  ASSUME Prompt, TypeOK, Idle \/ (Open /\ Awaited), at = stored[0], ZoomOut, Outside
  PROVE  ZoomOut' /\ stored' = stored /\ at' = at
<1> USE Lengths, Answers, OutsideKeeps
<1>1. CASE CamTake
  <2>1. Sent /\ tx[1].op = "getzoom" BY <1>1 DEF CamTake, ZoomOut, Answered, Idle
  <2>2. tx' = <<>> /\ Head(tx) = tx[1] BY <1>1, <2>1 DEF CamTake, Sent
  <2>3. /\ rx' = Append(rx, [rsp |-> "zoompos", val |-> at.zoom])
        /\ UNCHANGED <<goal, stored, at>>
    BY <1>1, <2>1, <2>2 DEF CamTake, Moves
  <2>4. Answered' /\ rx'[1] = [rsp |-> "zoompos", val |-> at.zoom]
    BY <2>1, <2>2, <2>3 DEF Answered, Sent
  <2>5. QED BY <2>3, <2>4 DEF ZoomOut
<1>2. CASE CamArrive BY <1>2 DEF CamArrive, ZoomOut, Sent, Answered, Idle
<1>3. CASE CamReject
  <2>1. Sent BY <1>3 DEF CamReject, ZoomOut, Answered, Idle
  <2>2. Answered' /\ rx'[1] = [rsp |-> "error"] /\ UNCHANGED <<stored, at>>
    BY <1>3, <2>1 DEF CamReject, Sent, Answered
  <2>3. QED BY <2>2 DEF ZoomOut
<1>4. CASE LoseCommand
  <2>1. Sent BY <1>4 DEF LoseCommand, ZoomOut, Answered, Idle
  <2>2. command_pending # {} BY <2>1 DEF Sent, Idle, Awaited
  <2>3. Idle' /\ UNCHANGED <<stored, at>> BY <1>4, <2>1 DEF LoseCommand, Sent, Idle
  <2>4. QED BY <2>2, <2>3 DEF ZoomOut
<1>5. CASE LoseAnswer
  <2>1. Answered BY <1>5 DEF LoseAnswer, ZoomOut, Sent, Idle
  <2>2. command_pending # {} BY <2>1 DEF Answered, Idle, Awaited
  <2>3. Idle' /\ UNCHANGED <<stored, at>> BY <1>5, <2>1 DEF LoseAnswer, Answered, Idle
  <2>4. QED BY <2>2, <2>3 DEF ZoomOut
<1>6. CASE Tick
  <2>1. Idle /\ UNCHANGED <<tx, rx, goal, at, stored>> BY <1>6 DEF Tick, UnderWay, Idle, camera
  <2>2. QED BY <2>1 DEF ZoomOut, Sent, Answered, Idle
<1>7. QED BY <1>1, <1>2, <1>3, <1>4, <1>5, <1>6 DEF Outside

\* A question about the position is answered with the position the camera has.
LEMMA OutsidePos ==
  ASSUME Prompt, TypeOK, Idle \/ (Open /\ Awaited), NEW k \in Preset, at = stored[k],
         PosOut(k), Outside
  PROVE  PosOut(k)' /\ stored' = stored /\ at' = at
<1> USE Lengths, Answers, OutsideKeeps
<1>1. CASE CamTake
  <2>1. Sent /\ tx[1].op = "getpos" BY <1>1 DEF CamTake, PosOut, Answered, Idle
  <2>2. tx' = <<>> /\ Head(tx) = tx[1] BY <1>1, <2>1 DEF CamTake, Sent
  <2>3. /\ rx' = Append(rx, [rsp |-> "ptpos", val |-> at.pt])
        /\ UNCHANGED <<goal, stored, at>>
    BY <1>1, <2>1, <2>2 DEF CamTake, Moves
  <2>4. Answered' /\ rx'[1] = [rsp |-> "ptpos", val |-> at.pt]
    BY <2>1, <2>2, <2>3 DEF Answered, Sent
  <2>5. QED BY <2>3, <2>4 DEF PosOut
<1>2. CASE CamArrive BY <1>2 DEF CamArrive, PosOut, Sent, Answered, Idle
<1>3. CASE CamReject
  <2>1. Sent BY <1>3 DEF CamReject, PosOut, Answered, Idle
  <2>2. Answered' /\ rx'[1] = [rsp |-> "error"] /\ UNCHANGED <<stored, at>>
    BY <1>3, <2>1 DEF CamReject, Sent, Answered
  <2>3. QED BY <2>2 DEF PosOut
<1>4. CASE LoseCommand
  <2>1. Sent BY <1>4 DEF LoseCommand, PosOut, Answered, Idle
  <2>2. Idle' /\ UNCHANGED <<stored, at>> BY <1>4, <2>1 DEF LoseCommand, Sent, Idle
  <2>3. QED BY <2>2 DEF PosOut
<1>5. CASE LoseAnswer
  <2>1. Answered BY <1>5 DEF LoseAnswer, PosOut, Sent, Idle
  <2>2. Idle' /\ UNCHANGED <<stored, at>> BY <1>5, <2>1 DEF LoseAnswer, Answered, Idle
  <2>3. QED BY <2>2 DEF PosOut
<1>6. CASE Tick
  <2>1. Idle /\ UNCHANGED <<tx, rx, goal, at, stored>> BY <1>6 DEF Tick, UnderWay, Idle, camera
  <2>2. QED BY <2>1 DEF PosOut, Sent, Answered, Idle
<1>7. QED BY <1>1, <1>2, <1>3, <1>4, <1>5, <1>6 DEF Outside

\* A step of the dialogue does not fail twice.
LEMMA NextFailure ==
  ASSUME Prompt, TypeOK, OneAtATime, OneFailure, [Next]_vars
  PROVE  OneFailure'
<1> USE SameHolder
<1>1. status \in 0 .. Last /\ Last \in Nat BY Size DEF TypeOK
<1>2. CASE Tick
  <2>1. "error" \notin command_pending' BY <1>2 DEF Tick
  <2>2. QED BY <2>1 DEF OneFailure
<1>3. CASE Outside /\ ~Tick
  <2>1. UNCHANGED <<status, command_pending, expired>>
    BY <1>3 DEF Outside, CamTake, CamArrive, CamReject, LoseCommand, LoseAnswer, holder
  <2>2. QED BY <2>1 DEF OneFailure
<1>4. CASE Top /\ command_pending = {} /\ InitStep
  <2>1. ~(status' = Last /\ status' < Last) BY <1>1
  <2>2. status' < Last => expired' = FALSE BY <1>4, <2>1, InitAwaits
  <2>3. QED BY <2>2 DEF OneFailure
<1>5. CASE Top /\ command_pending # {} /\ CheckPending
  <2>1. status' < Last => status < Last BY <1>1, <1>5 DEF CheckPending, Back
  <2>2. /\ command_pending' = {} \/ command_pending' = command_pending
        /\ expired' = expired
    BY <1>5 DEF CheckPending
  <2>3. QED BY <2>1, <2>2 DEF OneFailure
<1>6. CASE Rx
  <2>1. UNCHANGED <<status, expired>> BY <1>6 DEF Rx
  <2>2. CASE rx = <<>>
    <3>1. UNCHANGED command_pending BY <1>6, <2>2 DEF Rx
    <3>2. QED BY <2>1, <3>1 DEF OneFailure
  <2>3. CASE rx # <<>>
    <3>1. status < Last => ~expired
      BY <2>3 DEF OneAtATime, Alone, Idle, Awaited
    <3>2. QED BY <2>1, <3>1 DEF OneFailure
  <2>4. QED BY <2>2, <2>3
<1>7. CASE Ctrl \/ Track
  <2>1. status' = Last BY <1>7 DEF Ctrl, Track, OrderComes, StoreComes
  <2>2. QED BY <1>1, <2>1 DEF OneFailure
<1>8. CASE \/ CtrlDone \/ EventDone \/ UNCHANGED vars
           \/ Top /\ UNCHANGED <<holder, tx>>
  <2>1. UNCHANGED <<status, command_pending, expired>>
    BY <1>8 DEF CtrlDone, EventDone, Top, vars, holder
  <2>2. QED BY <2>1 DEF OneFailure
<1>9. QED BY <1>2, <1>3, <1>4, <1>5, <1>6, <1>7, <1>8 DEF Next, Loop, Top

\* What the outside does to the dialogue.
LEMMA OutsideDialogue ==
  ASSUME Prompt, TypeOK, OneAtATime, Dialogue, Outside, [Next]_vars
  PROVE  Dialogue'
<1> USE SameHolder, OutsideKeeps
<1>1. status \in 0 .. Last /\ Last \in Nat BY Size DEF TypeOK
<1>2. status < Last => Idle \/ (Open /\ Awaited) BY DEF OneAtATime, Alone
<1>3. status = 1 => RecallOut(0)' /\ stored' = stored
  BY <1>1, <1>2, OutsideRecall, Size DEF Dialogue, AskedHome
<1>4. status = 2 => ZoomOut' /\ stored' = stored /\ at' = at
  <2>1. status = 2 => status < Last BY <1>1, Size
  <2>2. QED BY <1>2, <2>1, OutsideZoom DEF Dialogue, AskedZoom
<1>5. ASSUME NEW k \in Preset, status = 2 * k + 3, status < Last, command_pending # {}
      PROVE  PosOut(k)' /\ stored' = stored /\ at' = at
  <2>1. at = stored[k] /\ PosOut(k) BY <1>5 DEF Dialogue, AskedPos
  <2>2. QED BY <1>2, <1>5, <2>1, OutsidePos
<1>6. ASSUME NEW k \in Preset, status = 2 * k + 3, status < Last, command_pending = {}
      PROVE  Idle /\ Idle' /\ stored' = stored
  <2>1. Idle BY <1>6 DEF Dialogue, AskedPos
  <2>2. QED
    BY <2>1, <1>6 DEF Idle, Outside, CamTake, CamArrive, CamReject, LoseCommand, LoseAnswer, Tick, camera
<1>7. ASSUME NEW k \in Preset, status = 2 * k + 4, status < Last
      PROVE  RecallOut(IF status = Last - 1 THEN 0 ELSE k + 1)' /\ stored' = stored
  <2>1. PICK n \in Preset : n = IF status = Last - 1 THEN 0 ELSE k + 1
    BY <1>1, <1>7, Size
  <2>2. RecallOut(n) BY <1>7, <2>1 DEF Dialogue, AskedNext
  <2>3. RecallOut(n)' /\ stored' = stored BY <1>2, <1>7, <2>2, OutsideRecall
  <2>4. QED BY <2>1, <2>3
<1>8. status \in 1 .. Last - 1 => stored' = stored
  <2>1. status \in 1 .. Last - 1 =>
          \/ status = 1 \/ status = 2
          \/ \E k \in Preset : status = 2 * k + 3 \/ status = 2 * k + 4
    <3>1. status \in 3 .. Last - 1 => (status - 3) \div 2 \in Preset
              /\ (\/ status = 2 * ((status - 3) \div 2) + 3
                  \/ status = 2 * ((status - 3) \div 2) + 4)
      BY <1>1, Size
    <3>2. status \in 1 .. Last - 1 => status = 1 \/ status = 2 \/ status \in 3 .. Last - 1
      BY <1>1
    <3>3. QED BY <3>1, <3>2
  <2>2. status \in 1 .. Last - 1 => status < Last BY <1>1
  <2>3. QED BY <1>3, <1>4, <1>5, <1>6, <1>7, <2>1, <2>2
<1>9. AskedHome' BY <1>3 DEF AskedHome
<1>10. AskedZoom' BY <1>4 DEF Dialogue, AskedZoom
<1>11. AskedPos'
  <2> SUFFICES ASSUME NEW k \in Preset, status = 2 * k + 3, status < Last
               PROVE  /\ k = 0 => pos.zoom = stored'[0].zoom
                      /\ \/ Idle' /\ command_pending = {} /\ pos.pt = stored'[k].pt
                         \/ command_pending # {} /\ at' = stored'[k] /\ PosOut(k)'
    BY DEF AskedPos
  <2>1. CASE command_pending = {} BY <1>6, <2>1 DEF Dialogue, AskedPos
  <2>2. CASE command_pending # {} BY <1>5, <2>2 DEF Dialogue, AskedPos
  <2>3. QED BY <2>1, <2>2
<1>12. AskedNext' BY <1>7 DEF Dialogue, AskedNext, KnowsPreset
<1>13. AskedBack' BY DEF Dialogue, AskedBack
<1>14. Saved'
  <2>1. status < Last /\ status >= 4 => stored' = stored BY <1>1, <1>8
  <2>2. \A k \in Preset : status < Last /\ 2 * k + 4 <= status => stored' = stored
    BY <1>1, <1>8, Size
  <2>3. QED BY <2>1, <2>2 DEF Dialogue, Saved
<1>15. QED BY <1>9, <1>10, <1>11, <1>12, <1>13, <1>14 DEF Dialogue

\* A step that leaves the dialogue's state alone leaves the dialogue alone.
LEMMA SameDialogue ==
  ASSUME Dialogue, [Next]_vars,
         UNCHANGED <<tx, rx, goal, at, stored, status, command_pending, pos, target, preset>>
  PROVE  Dialogue'
<1> USE SameHolder
<1>1. /\ Idle' = Idle /\ Sent' = Sent /\ Turning' = Turning /\ Answered' = Answered
  BY DEF Idle, Sent, Turning, Answered
<1>2. \A n \in Preset : (RecallOut(n) => RecallOut(n)') /\ (PosOut(n) => PosOut(n)')
  BY <1>1 DEF RecallOut, PosOut
<1>3. ZoomOut => ZoomOut' BY <1>1 DEF ZoomOut
<1>4. AskedHome' BY <1>2, Size DEF Dialogue, AskedHome
<1>5. AskedZoom' BY <1>3 DEF Dialogue, AskedZoom
<1>6. AskedPos' BY <1>1, <1>2 DEF Dialogue, AskedPos
<1>7. AskedNext' BY <1>1 DEF Dialogue, AskedNext, KnowsPreset, RecallOut
<1>8. AskedBack' BY DEF Dialogue, AskedBack
<1>9. Saved' BY DEF Dialogue, Saved
<1>10. QED BY <1>4, <1>5, <1>6, <1>7, <1>8, <1>9 DEF Dialogue

\* The dialogue is over in the last status.
LEMMA DialogueOver == ASSUME status' = Last, [Next]_vars PROVE Dialogue'
<1>1. Last # 1 /\ Last # 2 /\ Last # Last - 1 /\ ~(Last < Last) /\ Last' = Last
  BY Size, SameHolder
<1>2. QED BY <1>1 DEF Dialogue, AskedHome, AskedZoom, AskedPos, AskedNext, AskedBack, Saved

\* An answer completes the step of the dialogue it belongs to.
LEMMA RxDialogue ==
  ASSUME TypeOK, OneAtATime, Dialogue, Rx, [Next]_vars
  PROVE  Dialogue'
<1> USE SameHolder
<1>1. status \in 0 .. Last /\ Last \in Nat /\ pos \in Pos BY Size DEF TypeOK
<1>2. UNCHANGED <<tx, goal, at, stored, status, target, preset>> BY DEF Rx, camera
<1>3. CASE rx = <<>>
  <2>1. UNCHANGED <<rx, pos, command_pending>> BY <1>3 DEF Rx
  <2>2. QED BY <1>2, <2>1, SameDialogue
<1>4. CASE rx # <<>> /\ status < Last
  <2>1. Answered /\ ~Sent /\ ~Turning /\ ~Idle
    BY <1>4, Lengths DEF OneAtATime, Alone, Open, Idle, Sent, Turning, Answered
  <2>2. rx' = <<>> /\ Head(rx) = rx[1] BY <1>4, <2>1, Lengths DEF Rx, Answered
  <2>3. Idle' BY <1>2, <2>1, <2>2 DEF Idle, Answered
  <2>4. update_camholder_ctx(rx[1]) BY <1>4, <2>2 DEF Rx
  <2>5. \/ rx[1].rsp = "error" /\ command_pending' # {} /\ pos' = pos
        \/ rx[1].rsp # "error" /\ command_pending' = {}
    BY <2>4 DEF update_camholder_ctx
  <2>6. ASSUME NEW n, RecallOut(n) PROVE RecallOut(n)'
    BY <1>2, <2>1, <2>3, <2>5, <2>6 DEF RecallOut
  <2>7. AskedHome' BY <1>2, <2>6 DEF Dialogue, AskedHome
  <2>8. AskedZoom'
    <3>1. ASSUME rx[1].rsp = "zoompos" PROVE pos'.zoom = rx[1].val
      BY <1>1, <2>4, <3>1 DEF update_camholder_ctx, Pos
    <3>2. ASSUME ZoomOut PROVE ZoomOut'
      BY <1>2, <2>1, <2>3, <2>5, <3>1, <3>2 DEF ZoomOut
    <3>3. QED BY <1>2, <3>2 DEF Dialogue, AskedZoom
  <2>9. AskedPos'
    <3> SUFFICES ASSUME NEW k \in Preset, status = 2 * k + 3
                 PROVE  /\ k = 0 => pos'.zoom = stored[0].zoom
                        /\ \/ Idle' /\ command_pending' = {} /\ pos'.pt = stored[k].pt
                           \/ command_pending' # {} /\ at' = stored[k] /\ PosOut(k)'
      BY <1>2 DEF AskedPos
    <3>1. /\ k = 0 => pos.zoom = stored[0].zoom
          /\ at = stored[k] /\ PosOut(k)
      BY <1>4, <2>1 DEF Dialogue, AskedPos
    <3>2. CASE rx[1].rsp = "error" BY <1>2, <2>3, <2>5, <3>1, <3>2 DEF PosOut
    <3>3. CASE rx[1].rsp # "error"
      <4>1. rx[1].rsp = "ptpos" /\ rx[1].val = stored[k].pt BY <2>1, <3>1, <3>3 DEF PosOut
      <4>2. pos' = [pos EXCEPT !.pt = rx[1].val] BY <2>4, <4>1 DEF update_camholder_ctx
      <4>3. pos'.pt = stored[k].pt /\ pos'.zoom = pos.zoom BY <1>1, <4>1, <4>2 DEF Pos
      <4>4. QED BY <2>3, <2>5, <3>1, <3>3, <4>3
    <3>4. QED BY <3>2, <3>3
  <2>10. AskedNext'
    <3> SUFFICES ASSUME NEW k \in Preset, status = 2 * k + 4
                 PROVE  /\ RecallOut(IF status = Last - 1 THEN 0 ELSE k + 1)'
                        /\ command_pending' # {} => KnowsPreset(k)'
      BY <1>2 DEF AskedNext
    <3>1. PICK n : n = IF status = Last - 1 THEN 0 ELSE k + 1 OBVIOUS
    <3>2. RecallOut(n)' BY <1>4, <2>6, <3>1 DEF Dialogue, AskedNext
    <3>3. command_pending # {} BY <1>4, <2>1 DEF OneAtATime, Alone, Awaited
    <3>4. KnowsPreset(k) BY <1>4, <3>3 DEF Dialogue, AskedNext
    <3>5. command_pending' # {} => KnowsPreset(k)' BY <1>2, <2>5, <3>4 DEF KnowsPreset
    <3>6. QED BY <1>2, <3>1, <3>2, <3>5
  <2>11. AskedBack'
    <3> SUFFICES ASSUME status = Last - 1
                 PROVE  target = preset[0] /\ (command_pending' = {} => pos' = target)
      BY <1>2 DEF AskedBack
    <3>1. PICK k \in Preset : status = 2 * k + 4
      <4>1. NumPreset - 1 \in Preset /\ status = 2 * (NumPreset - 1) + 4 BY Size
      <4>2. QED BY <4>1
    <3>2. RecallOut(0) BY <1>4, <3>1 DEF Dialogue, AskedNext
    <3>3. rx[1].rsp \in {"error", "completion"} BY <2>1, <3>2 DEF RecallOut
    <3>4. command_pending' = {} => pos' = target
      BY <2>4, <2>5, <3>3 DEF update_camholder_ctx
    <3>5. QED BY <3>4 DEF Dialogue, AskedBack
  <2>12. Saved' BY <1>2 DEF Dialogue, Saved
  <2>13. QED BY <2>7, <2>8, <2>9, <2>10, <2>11, <2>12 DEF Dialogue
<1>5. CASE status = Last BY <1>2, <1>5, DialogueOver
<1>6. status = Last \/ status < Last BY <1>1
<1>7. QED BY <1>3, <1>4, <1>5, <1>6

\* A step that failed is taken back by exactly one status.
LEMMA OneBack ==
  ASSUME TypeOK, OneAtATime, OneFailure, CheckPending, status < Last
  PROVE  /\ UNCHANGED <<preset, target, tx>>
         /\ \/ UNCHANGED <<status, command_pending>>
            \/ /\ Idle /\ command_pending' = {}
               /\ status' = IF status > 0 THEN status - 1 ELSE 0
<1>1. status \in 0 .. Last /\ Last \in Nat BY Size DEF TypeOK
<1>2. UNCHANGED <<preset, target, tx>> BY DEF CheckPending
<1>3. CASE "error" \notin command_pending /\ ~expired
  BY <1>2, <1>3 DEF CheckPending
<1>4. CASE "error" \in command_pending \/ expired
  <2>1. Idle BY <1>4 DEF OneAtATime, Alone, Awaited
  <2>2. command_pending' = {} BY <1>4 DEF CheckPending
  <2>3. status' = Back(status) BY <1>4 DEF CheckPending, OneFailure
  <2>4. status' = IF status > 0 THEN status - 1 ELSE 0 BY <1>1, <2>3 DEF Back
  <2>5. QED BY <1>2, <2>1, <2>2, <2>4
<1>5. QED BY <1>3, <1>4

\* A step that failed is repeated with what it needs still there.
LEMMA BackDialogue ==
  ASSUME TypeOK, OneAtATime, OneFailure, Dialogue, Top, command_pending # {}, CheckPending,
         status < Last, [Next]_vars
  PROVE  Dialogue'
<1> USE SameHolder
<1>1. status \in 0 .. Last /\ Last \in Nat BY Size DEF TypeOK
<1>2. UNCHANGED <<rx, goal, at, stored, pos, tx, preset, target>>
  BY DEF Top, camera, CheckPending
<1>3. CASE UNCHANGED <<status, command_pending>> BY <1>2, <1>3, SameDialogue
<1>4. CASE Idle /\ command_pending' = {} /\ status = 0 /\ status' = 0
  BY <1>4, Size DEF Dialogue, AskedHome, AskedZoom, AskedPos, AskedNext, AskedBack, Saved
<1>5. CASE Idle /\ command_pending' = {} /\ status > 0 /\ status' = status - 1
  <2>1. Idle' /\ ~Sent /\ ~Turning /\ ~Answered
    BY <1>2, <1>5, Lengths DEF Idle, Sent, Turning, Answered
  <2>2. AskedHome'
    <3>1. status = 2 => at = stored[0] BY DEF Dialogue, AskedZoom
    <3>2. status' = 1 => status = 2 BY <1>1, <1>5
    <3>3. QED BY <1>2, <2>1, <3>1, <3>2 DEF AskedHome, RecallOut
  <2>3. AskedZoom'
    <3>1. status' = 2 => status = 2 * 0 + 3 /\ 0 \in Preset BY <1>1, <1>5, Size
    <3>2. status' = 2 => at = stored[0] /\ pos.zoom = stored[0].zoom
      BY <3>1 DEF Dialogue, AskedPos
    <3>3. QED BY <1>2, <2>1, <3>2 DEF AskedZoom, ZoomOut
  <2>4. AskedPos'
    <3> SUFFICES ASSUME NEW k \in Preset, status' = 2 * k + 3
                 PROVE  (k = 0 => pos.zoom = stored[0].zoom) /\ pos.pt = stored[k].pt
      BY <1>2, <1>5, <2>1 DEF AskedPos
    <3>1. status = 2 * k + 4 BY <1>1, <1>5, Size
    <3>2. KnowsPreset(k) BY <3>1 DEF Dialogue, AskedNext
    <3>3. QED BY <3>2 DEF KnowsPreset
  <2>5. AskedNext'
    <3> SUFFICES ASSUME NEW k \in Preset, status' = 2 * k + 4
                 PROVE  RecallOut(IF status = Last - 1 THEN 0 ELSE k + 1)'
      BY <1>5 DEF AskedNext
    <3>1. status = 2 * (k + 1) + 3 /\ k + 1 \in Preset /\ status' # Last - 1
      BY <1>1, <1>5, Size
    <3>2. at = stored[k + 1] BY <3>1 DEF Dialogue, AskedPos
    <3>3. QED BY <1>2, <2>1, <3>1, <3>2 DEF RecallOut
  <2>6. AskedBack'
    <3>1. status' # Last - 1 BY <1>1, <1>5
    <3>2. QED BY <3>1 DEF AskedBack
  <2>7. Saved'
    <3>1. /\ status' >= 4 => status >= 4
          /\ \A k \in Preset : 2 * k + 4 <= status' => 2 * k + 4 <= status
      BY <1>1, <1>5, Size
    <3>2. QED BY <1>2, <3>1 DEF Dialogue, Saved
  <2>8. QED BY <2>2, <2>3, <2>4, <2>5, <2>6, <2>7 DEF Dialogue
<1>6. QED BY <1>1, <1>3, <1>4, <1>5, OneBack

\* Every step of the dialogue finds what the one before has learnt.
LEMMA ForthDialogue ==
  ASSUME TypeOK, OneAtATime, Dialogue, Top, command_pending = {}, InitStep, [Next]_vars
  PROVE  Dialogue'
<1> USE SameHolder
<1>1. status \in 0 .. Last /\ Last \in Nat /\ pos \in Pos /\ preset \in [Preset -> Pos]
  BY Size DEF TypeOK
<1>2. UNCHANGED <<rx, goal, at, stored, pos>> BY DEF Top, camera
<1>3. status < Last /\ status' = status + 1 BY DEF InitStep
<1>4. Idle /\ ~Sent /\ ~Turning /\ ~Answered
  BY <1>3, Lengths DEF OneAtATime, Alone, Awaited, Idle, Sent, Turning, Answered
<1>5. ASSUME NEW c \in Command, NEW f, Send(c, f)
      PROVE  Sent' /\ tx'[1] = c /\ command_pending' # {}
  BY <1>2, <1>4, <1>5, Lengths DEF Send, Sent, Idle
<1>6. CASE status = 0 /\ Recall(0)
  <2>1. Sent' /\ tx'[1] = [op |-> "recall", to |-> 0]
    BY <1>5, <1>6, Places, Commands, Size DEF Recall
  <2>2. RecallOut(0)' BY <2>1 DEF RecallOut
  <2>3. status' = 1 /\ 1 < Last /\ 1 # Last - 1 BY <1>3, <1>6, Size
  <2>4. AskedHome' /\ AskedZoom' /\ AskedBack' BY <2>2, <2>3 DEF AskedHome, AskedZoom, AskedBack
  <2>5. AskedPos' /\ AskedNext' /\ Saved' BY <2>3, Size DEF AskedPos, AskedNext, Saved
  <2>6. QED BY <2>4, <2>5 DEF Dialogue
<1>7. CASE status = 1 /\ GetZoom
  <2>1. Sent' /\ tx'[1] = [op |-> "getzoom"] BY <1>5, <1>7, Commands DEF GetZoom
  <2>2. at = stored[0] BY <1>4, <1>7 DEF Dialogue, AskedHome, RecallOut
  <2>3. status' = 2 /\ 2 < Last /\ 2 # Last - 1 BY <1>3, <1>7, Size
  <2>4. AskedHome' /\ AskedBack' BY <2>3 DEF AskedHome, AskedBack
  <2>5. AskedZoom' BY <1>2, <2>1, <2>2 DEF AskedZoom, ZoomOut
  <2>6. AskedPos' /\ AskedNext' /\ Saved' BY <2>3, Size DEF AskedPos, AskedNext, Saved
  <2>7. QED BY <2>4, <2>5, <2>6 DEF Dialogue
<1>8. CASE status \in 2 .. Last - 3 /\ status % 2 = 0 /\ Keep /\ GetPos
  <2>1. Sent' /\ tx'[1] = [op |-> "getpos"] /\ command_pending' # {} BY <1>5, <1>8, Commands DEF GetPos
  <2>2. preset' = preset BY <1>8 DEF Keep
  <2>3. PICK k \in Preset : status = 2 * k + 2
    <3>1. (status - 2) \div 2 \in Preset /\ status = 2 * ((status - 2) \div 2) + 2
      BY <1>1, <1>8, Size
    <3>2. QED BY <3>1
  <2>4. at = stored[k] /\ (k = 0 => pos.zoom = stored[0].zoom)
    <3>1. CASE k = 0 BY <1>4, <2>3, <3>1 DEF Dialogue, AskedZoom, ZoomOut
    <3>2. CASE k # 0
      <4>1. k - 1 \in Preset /\ status = 2 * (k - 1) + 4 /\ status # Last - 1 /\ k - 1 + 1 = k
        BY <1>1, <1>8, <2>3, <3>2, Size
      <4>2. RecallOut(k) BY <1>3, <4>1 DEF Dialogue, AskedNext
      <4>3. QED BY <1>4, <3>2, <4>2 DEF RecallOut
    <3>3. QED BY <3>1, <3>2
  <2>5. status' = 2 * k + 3 /\ status' # 1 /\ status' # 2 /\ status' # Last - 1
    BY <1>1, <1>3, <1>8, <2>3, Size
  <2>6. AskedHome' /\ AskedZoom' /\ AskedBack' BY <2>5 DEF AskedHome, AskedZoom, AskedBack
  <2>7. AskedPos'
    <3>1. \A j \in Preset : status' = 2 * j + 3 => j = k BY <2>5, Size
    <3>2. PosOut(k)' BY <2>1 DEF PosOut
    <3>3. QED BY <1>2, <2>1, <2>4, <3>1, <3>2 DEF AskedPos
  <2>8. AskedNext'
    <3>1. \A j \in Preset : status' # 2 * j + 4 BY <2>5, Size
    <3>2. QED BY <3>1 DEF AskedNext
  <2>9. Saved'
    <3>1. /\ status' >= 4 => status >= 4
          /\ \A j \in Preset : 2 * j + 4 <= status' => 2 * j + 4 <= status
      BY <1>3, <2>3, Size
    <3>2. QED BY <1>2, <1>3, <2>2, <3>1 DEF Dialogue, Saved
  <2>10. QED BY <2>6, <2>7, <2>8, <2>9 DEF Dialogue
<1>9. CASE /\ status \in 3 .. Last - 2 /\ status % 2 = 1
           /\ save_camholder_preset((status - 3) \div 2)
           /\ Recall(IF status = Last - 2 THEN 0 ELSE (status - 1) \div 2)
  <2>1. PICK k \in Preset : k = (status - 3) \div 2 /\ status = 2 * k + 3
    <3>1. (status - 3) \div 2 \in Preset /\ status = 2 * ((status - 3) \div 2) + 3
      BY <1>1, <1>9, Size
    <3>2. QED BY <3>1
  <2>2. PICK n \in Preset : /\ n = IF status = Last - 2 THEN 0 ELSE (status - 1) \div 2
                            /\ n = IF status = Last - 2 THEN 0 ELSE k + 1
    <3>1. /\ (IF status = Last - 2 THEN 0 ELSE (status - 1) \div 2)
              = (IF status = Last - 2 THEN 0 ELSE k + 1)
          /\ (IF status = Last - 2 THEN 0 ELSE k + 1) \in Preset
      BY <1>1, <1>9, <2>1, Size
    <3>2. QED BY <3>1
  <2>3. preset' = [preset EXCEPT ![k] = pos] BY <1>9, <2>1 DEF save_camholder_preset
  <2>4. Recall(n) BY <1>9, <2>2
  <2>5. Sent' /\ tx'[1] = [op |-> "recall", to |-> n] /\ command_pending' # {}
    BY <1>5, <2>4, Places, Commands DEF Recall
  <2>6. target' = preset'[n] BY <2>4 DEF Recall
  <2>7. pos.pt = stored[k].pt /\ (k = 0 => pos.zoom = stored[0].zoom)
    BY <1>3, <2>1 DEF Dialogue, AskedPos
  <2>8. status' = 2 * k + 4 /\ status' # 1 /\ status' # 2 /\ status' < Last
        /\ (status' = Last - 1 <=> status = Last - 2)
    BY <1>1, <1>3, <1>9, <2>1, Size
  <2>9. AskedHome' /\ AskedZoom' BY <2>8 DEF AskedHome, AskedZoom
  <2>10. AskedPos'
    <3>1. \A j \in Preset : status' # 2 * j + 3 BY <2>8, Size
    <3>2. QED BY <3>1 DEF AskedPos
  <2>11. AskedNext'
    <3>1. \A j \in Preset : status' = 2 * j + 4 => j = k BY <2>8, Size
    <3>2. RecallOut(n)' BY <2>5 DEF RecallOut
    <3>3. KnowsPreset(k)' BY <1>2, <2>7 DEF KnowsPreset
    <3>4. n = IF status' = Last - 1 THEN 0 ELSE k + 1 BY <2>2, <2>8
    <3>5. RecallOut(IF status = Last - 1 THEN 0 ELSE k + 1)' BY <3>2, <3>4
    <3>6. QED BY <3>1, <3>3, <3>5 DEF AskedNext
  <2>12. AskedBack' BY <2>2, <2>5, <2>6, <2>8 DEF AskedBack
  <2>13. Saved'
    <3>1. ASSUME NEW j \in Preset, 2 * j + 4 <= status' PROVE preset'[j].pt = stored[j].pt
      <4>1. CASE j = k BY <1>1, <2>3, <2>7, <4>1
      <4>2. CASE j # k
        <5>1. 2 * j + 4 <= status BY <2>1, <2>8, <3>1, <4>2, Size
        <5>2. QED BY <1>1, <1>3, <2>3, <4>2, <5>1 DEF Dialogue, Saved
      <4>3. QED BY <4>1, <4>2
    <3>2. preset'[0].zoom = stored[0].zoom
      <4>1. CASE k = 0 BY <1>1, <2>3, <2>7, <4>1
      <4>2. CASE k # 0
        <5>1. status >= 4 BY <2>1, <4>2, Size
        <5>2. QED BY <1>1, <1>3, <2>3, <4>2, <5>1, Size DEF Dialogue, Saved
      <4>3. QED BY <4>1, <4>2
    <3>3. QED BY <1>2, <3>1, <3>2 DEF Saved
  <2>14. QED BY <2>9, <2>10, <2>11, <2>12, <2>13 DEF Dialogue
<1>10. CASE status = Last - 1
  <2>1. status' = Last BY <1>1, <1>3, <1>10
  <2>2. QED BY <2>1, DialogueOver
<1>11. QED BY <1>6, <1>7, <1>8, <1>9, <1>10 DEF InitStep

\* The dialogue goes on as it should with every step.
LEMMA NextDialogue ==
  ASSUME Prompt, TypeOK, OneAtATime, OneFailure, Dialogue, [Next]_vars
  PROVE  Dialogue'
<1>1. status \in 0 .. Last /\ Last \in Nat BY Size DEF TypeOK
<1>2. CASE Outside BY <1>2, OutsideDialogue
<1>3. CASE Top /\ command_pending = {} /\ InitStep BY <1>3, ForthDialogue
<1>4. CASE Top /\ command_pending # {} /\ CheckPending
  <2>1. CASE status < Last BY <1>4, <2>1, BackDialogue
  <2>2. CASE status = Last
    <3>1. status' = Last BY <1>1, <1>4, <2>2 DEF CheckPending, Back
    <3>2. QED BY <3>1, DialogueOver
  <2>3. QED BY <1>1, <2>1, <2>2
<1>5. CASE Rx BY <1>5, RxDialogue
<1>6. CASE Ctrl \/ Track
  <2>1. status' = Last BY <1>6 DEF Ctrl, Track, OrderComes, StoreComes
  <2>2. QED BY <2>1, DialogueOver
<1>7. CASE \/ CtrlDone \/ EventDone \/ UNCHANGED vars
           \/ Top /\ UNCHANGED <<holder, tx>>
  <2>1. UNCHANGED <<tx, rx, goal, at, stored, status, command_pending, pos, target, preset>>
    BY <1>7 DEF CtrlDone, EventDone, Top, vars, holder, camera
  <2>2. QED BY <2>1, SameDialogue
<1>8. QED BY <1>2, <1>3, <1>4, <1>5, <1>6, <1>7 DEF Next, Loop, Top

-----------------------------------------------------------------------------
(* The initialised holder                                                   *)

\* What the orders are under Plain: home, a manual pan or zoom, or a preset
\* stored by the student's holder, which has one only.
LEMMA PlainOrders ==
  ASSUME Plain, TypeOK, Ctrl
  PROVE  /\ status = Last
         /\ ordered = "stores" => ordered' = "stores"
         /\ \/ Keep /\ (Recall(0) \/ AbsPos(Aim) \/ ZoomDirect(Aim))
            \/ ordered' = "stores" /\ cam # "teacher" /\ ~UnderWay /\ MemSet(0)
<1>1. cam \in Cameras BY DEF TypeOK
<1>2. status = Last BY DEF Ctrl, OrderComes, StoreComes
<1>3. ordered = "stores" => ordered' = "stores" BY DEF Ctrl
<1>4. CASE cam = "teacher"
  <2>1. "recall" \notin Orders[cam] /\ "store" \notin Orders[cam] BY <1>1, <1>4 DEF Plain
  <2>2. QED BY <1>2, <1>3, <2>1 DEF Ctrl
<1>5. CASE cam # "teacher"
  <2>1. Preset = {0} BY <1>5, Size
  <2>2. QED BY <1>2, <1>3, <1>5, <2>1 DEF Ctrl, StoreComes
<1>6. QED BY <1>4, <1>5

\* What a command that is appended does to the commands under way.
LEMMA Appended ==
  ASSUME TypeOK, NEW c \in Command, tx' = Append(tx, c)
  PROVE  /\ Len(tx') = Len(tx) + 1 /\ tx' # <<>>
         /\ tx'[Len(tx) + 1] = c
         /\ \A i \in 1 .. Len(tx) : tx'[i] = tx[i]
         /\ \A i \in 1 .. Len(tx') : i \in 1 .. Len(tx) \/ i = Len(tx) + 1
<1>1. tx \in Seq(Command) BY DEF TypeOK
<1>2. QED BY <1>1

\* What a command that is taken does to them.
LEMMA Taken ==
  ASSUME TypeOK, tx # <<>>, tx' = Tail(tx)
  PROVE  /\ Len(tx') = Len(tx) - 1 /\ Head(tx) = tx[1] /\ 1 \in 1 .. Len(tx)
         /\ \A i \in 1 .. Len(tx') : i + 1 \in 1 .. Len(tx) /\ tx'[i] = tx[i + 1]
         /\ tx' # <<>> => 1 \in 1 .. Len(tx')
<1>1. tx \in Seq(Command) BY DEF TypeOK
<1>2. tx' \in Seq(Command) /\ Len(tx') = Len(tx) - 1 BY <1>1
<1>3. QED BY <1>1, <1>2, EmptySeq

\* Tracking of students sends two commands.
LEMMA SendsTwo ==
  ASSUME TypeOK, TrackStudent
  PROVE  \E a, z \in Command : /\ a = [op |-> "abs", to |-> Aim] /\ z = [op |-> "zoom", to |-> Aim]
                               /\ tx' = Append(Append(tx, a), z)
<1>1. tx \in Seq(Command) BY DEF TypeOK
<1>2. PICK a \in Command : a = [op |-> "abs", to |-> Aim] BY Places, Commands
<1>3. PICK z \in Command : z = [op |-> "zoom", to |-> Aim] BY Places, Commands
<1>4. tx' = tx \o <<a, z>> BY <1>2, <1>3 DEF TrackStudent
<1>5. tx \o <<a, z>> = Append(Append(tx, a), z) BY <1>1
<1>6. QED BY <1>2, <1>3, <1>4, <1>5

\* Presets are stored at rest and one at a time.
LEMMA NextStores ==
  ASSUME Plain, TypeOK, StoresAtRest, [Next]_vars
  PROVE  StoresAtRest'
<1> USE SameHolder
<1>1. tx \in Seq(Command) BY DEF TypeOK
<1>2. CASE UNCHANGED <<tx, goal, ordered>> BY <1>2 DEF StoresAtRest
<1>3. ASSUME NEW c \in Command, tx' = Append(tx, c), c.op # "memset", goal' = goal,
             ordered = "stores" => ordered' = "stores"
      PROVE  StoresAtRest'
  BY <1>3, Appended DEF StoresAtRest
<1>4. CASE tx # <<>> /\ tx' = Tail(tx)
  <2>1. \A i \in 1 .. Len(tx') : tx'[i].op # "memset"
    <3> SUFFICES ASSUME NEW i \in 1 .. Len(tx') PROVE tx'[i].op # "memset" OBVIOUS
    <3>1. i + 1 # 1 /\ i + 1 \in 1 .. Len(tx) /\ tx'[i] = tx[i + 1] BY <1>4, Taken
    <3>2. QED BY <3>1 DEF StoresAtRest
  <2>2. QED BY <2>1 DEF StoresAtRest
<1>5. CASE Top
  <2>1. UNCHANGED <<goal, ordered>> BY <1>5 DEF Top, camera
  <2>2. QED BY <1>2, <1>3, <1>5, <2>1, InitSends DEF Top, CheckPending
<1>6. CASE Ctrl
  <2>1. goal' = goal BY <1>6 DEF Ctrl, camera
  <2>2. CASE Recall(0) \/ AbsPos(Aim) \/ ZoomDirect(Aim)
    <3>1. PICK c \in Command : tx' = Append(tx, c) /\ c.op # "memset"
      BY <2>2, Places, Commands, Size DEF Recall, AbsPos, ZoomDirect, Send
    <3>2. QED BY <1>3, <1>6, <2>1, <3>1, PlainOrders
  <2>3. CASE ordered' = "stores" /\ cam # "teacher" /\ ~UnderWay /\ MemSet(0)
    <3>1. PICK c \in Command : tx' = Append(tx, c)
      BY <2>3, Places, Commands, Size DEF MemSet, Send
    <3>2. Len(tx) = 0 /\ goal = <<>> BY <2>3 DEF UnderWay
    <3>3. \A i \in 1 .. Len(tx') : i = 1 BY <3>1, <3>2, Appended
    <3>4. QED BY <2>1, <2>3, <3>2, <3>3 DEF StoresAtRest
  <2>4. QED BY <1>6, <2>2, <2>3, PlainOrders
<1>7. CASE Track /\ TrackTeacher
  <2>1. PICK c \in Command : tx' = Append(tx, c) /\ c.op # "memset"
    BY <1>7, Places, Commands DEF TrackTeacher, AbsPos, Send
  <2>2. QED BY <1>3, <1>7, <2>1 DEF Track, camera
<1>8. CASE Track /\ TrackStudent
  <2>1. PICK a, z \in Command : /\ a.op # "memset" /\ z.op # "memset"
                                /\ tx' = Append(Append(tx, a), z)
    BY <1>8, SendsTwo
  <2>2. \A i \in 1 .. Len(tx') : (i \in 1 .. Len(tx) /\ tx'[i] = tx[i]) \/ tx'[i] \in {a, z}
    BY <1>1, <2>1
  <2>3. UNCHANGED <<goal, ordered>> BY <1>8 DEF Track, camera
  <2>4. QED BY <2>1, <2>2, <2>3 DEF StoresAtRest
<1>9. CASE CamArrive
  <2>1. UNCHANGED <<tx, ordered>> /\ goal # <<>> BY <1>9 DEF CamArrive
  <2>2. QED BY <2>1 DEF StoresAtRest
<1>10. CASE Rx \/ CtrlDone \/ EventDone \/ LoseAnswer \/ Tick \/ UNCHANGED vars
  BY <1>2, <1>10 DEF Rx, CtrlDone, EventDone, LoseAnswer, Tick, vars, camera
<1>11. CASE CamTake \/ CamReject \/ LoseCommand
  BY <1>4, <1>11 DEF CamTake, CamReject, LoseCommand
<1>12. QED
  BY <1>5, <1>6, <1>7, <1>8, <1>9, <1>10, <1>11 DEF Next, Loop, Outside, Track

\* What keeps the table right without touching it.
LEMMA TableKept ==
  ASSUME Table, [Next]_vars, status' = Last => status = Last, Trusted' => Trusted,
         UNCHANGED <<stored, preset, limit>>,
         \A k \in Preset : Storing(k)' <=> Storing(k),
         \A k \in Preset : Storing(k) => at' = at
  PROVE  Table'
<1> USE SameHolder
<1> SUFFICES ASSUME status' = Last, Trusted'
             PROVE  /\ \A k \in Preset : preset[k].pt = (IF Storing(k)' THEN at' ELSE stored[k]).pt
                    /\ preset[0].zoom = (IF Storing(0)' THEN at' ELSE stored[0]).zoom
                    /\ cam = "teacher" =>
                         /\ limit.pan = {stored[1].pt, stored[2].pt}
                         /\ limit.exclude = {stored[5].pt, stored[6].pt}
  BY DEF Table
<1>1. status = Last /\ Trusted OBVIOUS
<1>2. QED BY <1>1, Size DEF Table

\* The dialogue leaves the table right.
LEMMA InitTable ==
  ASSUME TypeOK, OneAtATime, Dialogue, Top, command_pending = {}, InitStep, [Next]_vars
  PROVE  Table'
<1> USE SameHolder
<1>1. status \in 0 .. Last /\ Last \in Nat BY Size DEF TypeOK
<1>2. status' = status + 1 /\ status < Last BY DEF InitStep
<1>3. SUFFICES ASSUME status' = Last PROVE Table' BY DEF Table
<1>4. status = Last - 1 BY <1>1, <1>2, <1>3
<1>5. /\ limit' = IF cam = "teacher"
                   THEN [pan     |-> {preset[1].pt, preset[2].pt},
                         exclude |-> {preset[5].pt, preset[6].pt}]
                   ELSE limit
      /\ UNCHANGED <<preset, tx>>
  BY <1>1, <1>4, Size DEF InitStep
<1>6. stored' = stored BY DEF Top, camera
<1>7. Idle BY <1>2 DEF OneAtATime, Alone, Awaited
<1>8. \A k \in Preset : ~Storing(k)' BY <1>5, <1>7 DEF Storing, Idle
<1>9. \A k \in Preset : preset[k].pt = stored[k].pt
  <2>1. \A k \in Preset : 2 * k + 4 <= status BY <1>4, Size
  <2>2. QED BY <1>2, <2>1 DEF Dialogue, Saved
<1>10. preset[0].zoom = stored[0].zoom
  <2>1. status >= 4 BY <1>4, Size
  <2>2. QED BY <1>2, <2>1 DEF Dialogue, Saved
<1>11. cam = "teacher" => limit'.pan = {stored[1].pt, stored[2].pt}
                         /\ limit'.exclude = {stored[5].pt, stored[6].pt}
  <2>1. cam = "teacher" => 1 \in Preset /\ 2 \in Preset /\ 5 \in Preset /\ 6 \in Preset
    BY Size
  <2>2. QED BY <1>5, <1>9, <2>1
<1>12. QED BY <1>5, <1>6, <1>8, <1>9, <1>10, <1>11, Size DEF Table

\* When nothing is under way and nothing was lost, the program knows where the
\* camera is.
LEMMA AtRest ==
  ASSUME TypeOK, Ahead, status = Last, faults = 0, ~UnderWay
  PROVE  pos = at
<1>1. pos \in Pos /\ at \in Pos BY DEF TypeOK
<1>2. tx = <<>> /\ goal = <<>> BY DEF UnderWay
<1>3. Bound = at BY <1>2 DEF Bound
<1>4. pos = target BY DEF Ahead
<1>5. target.pt = at.pt BY <1>2, <1>3 DEF Ahead, Decides
<1>6. target.zoom = at.zoom BY <1>2, <1>3 DEF Ahead, Decides
<1>7. QED BY <1>1, <1>4, <1>5, <1>6 DEF Pos

\* Every step keeps the table right.
LEMMA NextTable ==
  ASSUME Plain, TypeOK, Numbered, OneAtATime, Dialogue, StoresAtRest, Table, Ahead, [Next]_vars
  PROVE  Table'
<1> USE SameHolder
<1>1. /\ status \in 0 .. Last /\ Last \in Nat /\ tx \in Seq(Command) /\ faults \in Nat
      /\ preset \in [Preset -> Pos] /\ stored \in [Preset -> Pos]
  BY Size, CameraAssumption DEF TypeOK
<1>2. ASSUME status' = Last => status = Last, Trusted' => Trusted,
             UNCHANGED <<tx, at, stored, preset, limit>>
      PROVE  Table'
  BY <1>2, TableKept DEF Storing
<1>3. ASSUME NEW c \in Command, tx' = Append(tx, c), c.op # "memset", status = Last,
             Trusted' => Trusted, UNCHANGED <<at, stored, preset, limit>>
      PROVE  Table'
  <2>1. \A k \in Preset : Storing(k)' <=> Storing(k)
    <3>1. CASE tx = <<>>
      <4>1. tx'[1] = c BY <1>3, <3>1, Lengths
      <4>2. QED BY <1>3, <3>1, <4>1 DEF Storing
    <3>2. CASE tx # <<>>
      <4>1. tx'[1] = tx[1] /\ tx' # <<>> BY <1>1, <1>3, <3>2, Appended
      <4>2. QED BY <3>2, <4>1 DEF Storing
    <3>3. QED BY <3>1, <3>2
  <2>2. QED BY <1>3, <2>1, TableKept
<1>4. CASE Top /\ command_pending = {} /\ InitStep BY <1>4, InitTable
<1>5. CASE Top /\ command_pending # {} /\ CheckPending
  <2>1. status' = Last => status = Last BY <1>1, <1>5 DEF CheckPending, Back
  <2>2. UNCHANGED <<tx, at, stored, preset, limit, ordered, faults>>
    BY <1>5 DEF Top, CheckPending, camera
  <2>3. QED BY <1>2, <2>1, <2>2 DEF Trusted
<1>6. CASE \/ CtrlDone \/ EventDone \/ Rx \/ Tick \/ UNCHANGED vars
           \/ Top /\ UNCHANGED <<holder, tx>>
  <2>1. UNCHANGED <<status, tx, at, stored, preset, limit, ordered, faults>>
    BY <1>6 DEF CtrlDone, EventDone, Rx, Tick, Top, vars, holder, camera
  <2>2. QED BY <1>2, <2>1 DEF Trusted
<1>7. CASE Ctrl
  <2>1. status = Last /\ UNCHANGED <<at, stored, limit, faults>>
    BY <1>7, PlainOrders DEF Ctrl, camera
  <2>2. CASE Keep /\ (Recall(0) \/ AbsPos(Aim) \/ ZoomDirect(Aim))
    <3>1. PICK c \in Command : tx' = Append(tx, c) /\ c.op # "memset"
      BY <2>2, Places, Commands, Size DEF Recall, AbsPos, ZoomDirect, Send
    <3>2. Trusted' => Trusted BY <1>7, <2>1, PlainOrders DEF Trusted
    <3>3. QED BY <1>3, <2>1, <2>2, <3>1, <3>2 DEF Keep
  <2>3. CASE ordered' = "stores" /\ cam # "teacher" /\ ~UnderWay /\ MemSet(0)
    <3>1. preset' = [preset EXCEPT ![0] = pos] BY <2>3 DEF MemSet
    <3>2. PICK c \in Command : tx' = Append(tx, c) /\ c = [op |-> "memset", to |-> 0]
      BY <2>3, Places, Commands, Size DEF MemSet, Send
    <3>3. tx' # <<>> /\ tx'[1] = c BY <2>3, <3>2, Lengths, Appended DEF UnderWay
    <3>4. Storing(0)' BY <3>2, <3>3 DEF Storing
    <3>5. Trusted' => pos = at BY <2>1, <2>3, AtRest DEF Trusted
    <3>6. Preset = {0} BY <2>3, Size
    <3>7. preset'[0] = pos BY <1>1, <3>1, Size
    <3>8. QED BY <2>1, <2>3, <3>4, <3>5, <3>6, <3>7 DEF Table
  <2>4. QED BY <1>7, <2>2, <2>3, PlainOrders
<1>8. CASE Track
  <2>1. status = Last /\ UNCHANGED <<at, stored, preset, limit, faults, ordered>>
    BY <1>8 DEF Track, camera
  <2>2. CASE TrackTeacher
    <3>1. PICK c \in Command : tx' = Append(tx, c) /\ c.op # "memset"
      BY <2>2, Places, Commands DEF TrackTeacher, AbsPos, Send
    <3>2. QED BY <1>3, <2>1, <3>1 DEF Trusted
  <2>3. CASE TrackStudent
    <3>1. PICK a, z \in Command : /\ a.op # "memset" /\ z.op # "memset"
                                  /\ tx' = Append(Append(tx, a), z)
      BY <2>3, SendsTwo
    <3>2. tx' # <<>> BY <1>1, <3>1
    <3>3. tx = <<>> => tx'[1] = a BY <1>1, <3>1
    <3>4. tx # <<>> => tx'[1] = tx[1] BY <1>1, <3>1
    <3>5. \A k \in Preset : Storing(k)' <=> Storing(k) BY <3>1, <3>2, <3>3, <3>4 DEF Storing
    <3>6. QED BY <2>1, <3>5, TableKept DEF Trusted
  <2>4. QED BY <1>8, <2>2, <2>3 DEF Track
<1>9. ASSUME tx # <<>>, tx' = Tail(tx)
      PROVE  \A k \in Preset : ~Storing(k)'
  <2>1. tx' # <<>> => tx'[1].op # "memset"
    <3>1. tx' # <<>> => 2 \in 1 .. Len(tx) /\ tx'[1] = tx[2]
      BY <1>9, Taken
    <3>2. QED BY <3>1 DEF StoresAtRest
  <2>2. QED BY <2>1 DEF Storing
<1>10. CASE CamTake
  <2>1. tx # <<>> /\ tx' = Tail(tx) /\ UNCHANGED <<status, at, preset, limit, ordered, faults>>
    BY <1>10 DEF CamTake, holder
  <2>2. Head(tx) = tx[1] /\ 1 \in 1 .. Len(tx) BY <2>1, Taken
  <2>3. \A k \in Preset : ~Storing(k)' BY <1>9, <2>1
  <2>4. CASE tx[1].op = "memset"
    <3>1. cam # "teacher" /\ tx[1].to \in Preset
      BY <2>2, <2>4 DEF StoresAtRest, Numbered
    <3>2. tx[1].to = 0 /\ Preset = {0} BY <3>1, Size
    <3>3. stored' = [stored EXCEPT ![0] = at]
      BY <1>10, <2>2, <2>4, <3>2 DEF CamTake, Moves
    <3>4. Storing(0) BY <2>1, <2>4, <3>2 DEF Storing
    <3>5. stored'[0] = at BY <1>1, <3>2, <3>3
    <3>6. Trusted' => Trusted BY <2>1 DEF Trusted
    <3>7. QED BY <2>1, <2>3, <3>1, <3>2, <3>4, <3>5, <3>6 DEF Table
  <2>5. CASE tx[1].op # "memset"
    <3>1. stored' = stored BY <1>10, <2>2, <2>5 DEF CamTake
    <3>2. \A k \in Preset : ~Storing(k) BY <2>5 DEF Storing
    <3>3. Trusted' => Trusted BY <2>1 DEF Trusted
    <3>4. QED BY <2>1, <2>3, <3>1, <3>2, <3>3, TableKept
  <2>6. QED BY <2>4, <2>5
<1>11. CASE CamArrive
  <2>1. goal # <<>> /\ UNCHANGED <<status, tx, stored, preset, limit, ordered, faults>>
    BY <1>11 DEF CamArrive, holder
  <2>2. \A k \in Preset : ~Storing(k)
    <3>1. tx # <<>> => 1 \in 1 .. Len(tx) BY <1>1
    <3>2. QED BY <2>1, <3>1 DEF Storing, StoresAtRest
  <2>3. \A k \in Preset : ~Storing(k)' BY <2>1, <2>2 DEF Storing
  <2>4. Trusted' => Trusted BY <2>1 DEF Trusted
  <2>5. QED BY <2>1, <2>2, <2>3, <2>4, TableKept
<1>12. CASE LoseAnswer
  <2>1. UNCHANGED <<status, tx, at, stored, preset, limit, ordered>> /\ faults' = faults + 1
    BY <1>12 DEF LoseAnswer, holder
  <2>2. faults' # 0 BY <1>1, <2>1
  <2>3. Trusted' => Trusted BY <2>1, <2>2 DEF Trusted
  <2>4. QED BY <1>2, <2>1, <2>3
<1>13. CASE CamReject \/ LoseCommand
  <2>1. /\ tx # <<>> /\ tx' = Tail(tx) /\ faults' = faults + 1
        /\ UNCHANGED <<status, at, stored, preset, limit, ordered>>
    BY <1>13 DEF CamReject, LoseCommand, holder
  <2>2. faults' # 0 BY <1>1, <2>1
  <2>3. SUFFICES ASSUME Trusted' PROVE Table' BY DEF Table
  <2>4. ordered # "stores" /\ Trusted BY <2>1, <2>2, <2>3 DEF Trusted
  <2>5. 1 \in 1 .. Len(tx) BY <2>1, Taken
  <2>6. \A k \in Preset : ~Storing(k) BY <2>4, <2>5 DEF Storing, StoresAtRest
  <2>7. \A k \in Preset : ~Storing(k)' BY <1>9, <2>1
  <2>8. QED BY <2>1, <2>4, <2>6, <2>7, TableKept
<1>14. QED
  BY <1>4, <1>5, <1>6, <1>7, <1>8, <1>10, <1>11, <1>12, <1>13 DEF Next, Loop, Outside, Top

\* The last command that moves a coordinate decides about it.
LEMMA DecidesLast ==
  ASSUME NEW s \in Seq(Command), NEW c \in Command, NEW ops, NEW r, NEW d, NEW v,
         IF c.op \in ops THEN v = (IF c.op = "recall" THEN r ELSE c.to)
                         ELSE Decides(s, ops, r, d, v)
  PROVE  Decides(Append(s, c), ops, r, d, v)
<1>0. Append(s, c) \in Seq(Command) OBVIOUS
<1>1. PICK t \in Seq(Command) : t = Append(s, c) BY <1>0
<1>2. /\ Len(t) = Len(s) + 1 /\ Len(s) \in Nat /\ t[Len(s) + 1] = c
      /\ \A i \in 1 .. Len(s) : t[i] = s[i]
  BY <1>1
<1>3. CASE c.op \in ops
  <2>1. Len(t) \in 1 .. Len(t) /\ \A j \in Len(t) + 1 .. Len(t) : FALSE BY <1>2
  <2>2. t[Len(t)] = c BY <1>2
  <2>3. QED BY <1>1, <1>3, <2>1, <2>2 DEF Decides
<1>4. CASE c.op \notin ops
  <2>1. CASE (\A j \in 1 .. Len(s) : s[j].op \notin ops) /\ v = d
    <3>1. \A j \in 1 .. Len(t) : t[j].op \notin ops BY <1>2, <1>4, <2>1
    <3>2. QED BY <1>1, <2>1, <3>1 DEF Decides
  <2>2. CASE \E i \in 1 .. Len(s) :
               /\ s[i].op \in ops /\ v = (IF s[i].op = "recall" THEN r ELSE s[i].to)
               /\ \A j \in i + 1 .. Len(s) : s[j].op \notin ops
    <3>1. PICK i \in 1 .. Len(s) :
               /\ s[i].op \in ops /\ v = (IF s[i].op = "recall" THEN r ELSE s[i].to)
               /\ \A j \in i + 1 .. Len(s) : s[j].op \notin ops
      BY <2>2
    <3>2. i \in 1 .. Len(t) /\ t[i] = s[i] BY <1>2
    <3>3. \A j \in i + 1 .. Len(t) : t[j].op \notin ops
      <4> SUFFICES ASSUME NEW j \in i + 1 .. Len(t) PROVE t[j].op \notin ops OBVIOUS
      <4>1. j = Len(s) + 1 \/ (j \in i + 1 .. Len(s) /\ j \in 1 .. Len(s)) BY <1>2
      <4>2. QED BY <1>2, <1>4, <3>1, <4>1
    <3>4. QED BY <1>1, <3>1, <3>2, <3>3 DEF Decides
  <2>3. QED BY <1>4, <2>1, <2>2 DEF Decides
<1>5. QED BY <1>3, <1>4

\* Once the first command is taken, where it leads is where the camera is.
LEMMA DecidesFirst ==
  ASSUME NEW s \in Seq(Command), s # <<>>, NEW ops, NEW r, NEW d, NEW v, NEW w,
         Decides(s, ops, r, d, v),
         w = IF s[1].op \in ops THEN (IF s[1].op = "recall" THEN r ELSE s[1].to) ELSE d
  PROVE  Decides(Tail(s), ops, r, w, v)
<1>0. Tail(s) \in Seq(Command) OBVIOUS
<1>1. PICK t \in Seq(Command) : t = Tail(s) BY <1>0
<1>2. /\ Len(t) = Len(s) - 1 /\ Len(s) \in Nat \ {0}
      /\ \A i \in 1 .. Len(t) : t[i] = s[i + 1] /\ i + 1 \in 1 .. Len(s)
  BY <1>1
<1>3. CASE (\A j \in 1 .. Len(s) : s[j].op \notin ops) /\ v = d
  <2>1. s[1].op \notin ops BY <1>2, <1>3
  <2>2. \A j \in 1 .. Len(t) : t[j].op \notin ops BY <1>2, <1>3
  <2>3. QED BY <1>1, <1>3, <2>1, <2>2 DEF Decides
<1>4. ASSUME NEW i \in 1 .. Len(s),
             s[i].op \in ops, v = (IF s[i].op = "recall" THEN r ELSE s[i].to),
             \A j \in i + 1 .. Len(s) : s[j].op \notin ops
      PROVE  Decides(t, ops, r, w, v)
  <2>1. CASE i = 1
    <3>1. v = w BY <1>4, <2>1
    <3>2. \A j \in 1 .. Len(t) : t[j].op \notin ops
      <4> SUFFICES ASSUME NEW j \in 1 .. Len(t) PROVE t[j].op \notin ops OBVIOUS
      <4>1. j + 1 \in i + 1 .. Len(s) /\ t[j] = s[j + 1] BY <1>2, <2>1
      <4>2. QED BY <1>4, <4>1
    <3>3. QED BY <3>1, <3>2 DEF Decides
  <2>2. CASE i # 1
    <3>1. i - 1 \in 1 .. Len(t) /\ t[i - 1] = s[i] BY <1>2, <2>2
    <3>2. \A j \in (i - 1) + 1 .. Len(t) : t[j].op \notin ops
      <4> SUFFICES ASSUME NEW j \in (i - 1) + 1 .. Len(t) PROVE t[j].op \notin ops OBVIOUS
      <4>1. j + 1 \in i + 1 .. Len(s) /\ j \in 1 .. Len(t) BY <1>2
      <4>2. QED BY <1>2, <1>4, <4>1
    <3>3. QED BY <1>4, <3>1, <3>2 DEF Decides
  <2>3. QED BY <2>1, <2>2
<1>5. QED BY <1>1, <1>3, <1>4 DEF Decides

\* A command that is sent is taken into account at once.
LEMMA SendAhead ==
  ASSUME TypeOK, Ahead, status = Last, faults = 0, UNCHANGED <<rx, preset, at, goal>>,
         NEW c \in Command, tx' = Append(tx, c), Moves(c), c.op = "recall" => c.to = 0,
         target'.pt = IF c.op = "recall" THEN preset[0].pt
                      ELSE IF c.op = "abs" THEN c.to ELSE target.pt,
         target'.zoom = IF c.op = "recall" THEN preset[0].zoom
                        ELSE IF c.op = "zoom" THEN c.to ELSE target.zoom
  PROVE  Ahead'
<1>1. tx \in Seq(Command) BY DEF TypeOK
<1>2. Bound' = Bound BY DEF Bound
<1>3. UnderWay' BY Appended DEF UnderWay
<1>4. \A i \in 1 .. Len(tx') : tx'[i] = c \/ (i \in 1 .. Len(tx) /\ tx'[i] = tx[i])
  BY Appended
<1>5. \A i \in 1 .. Len(tx') : Moves(tx'[i]) /\ (tx'[i].op = "recall" => tx'[i].to = 0)
  BY <1>4 DEF Ahead
<1>6. Decides(tx', PtOps, preset[0].pt, Bound.pt, target'.pt)
  <2>1. Decides(tx, PtOps, preset[0].pt, Bound.pt, target.pt) BY DEF Ahead
  <2>2. c.op \in PtOps => target'.pt = (IF c.op = "recall" THEN preset[0].pt ELSE c.to)
    BY DEF PtOps
  <2>3. c.op \notin PtOps => target'.pt = target.pt BY DEF PtOps
  <2>4. QED BY <1>1, <2>1, <2>2, <2>3, DecidesLast
<1>7. Decides(tx', ZoomOps, preset[0].zoom, Bound.zoom, target'.zoom)
  <2>1. Decides(tx, ZoomOps, preset[0].zoom, Bound.zoom, target.zoom) BY DEF Ahead
  <2>2. c.op \in ZoomOps => target'.zoom = (IF c.op = "recall" THEN preset[0].zoom ELSE c.to)
    BY DEF ZoomOps
  <2>3. c.op \notin ZoomOps => target'.zoom = target.zoom BY DEF ZoomOps
  <2>4. QED BY <1>1, <2>1, <2>2, <2>3, DecidesLast
<1>8. \A i \in 1 .. Len(rx') : rx'[i].rsp = "completion" BY DEF Ahead
<1>9. QED BY <1>2, <1>3, <1>5, <1>6, <1>7, <1>8 DEF Ahead, PtOps, ZoomOps, Moves

\* The camera turns to where the program already takes it to be going.
LEMMA TakeAhead ==
  ASSUME TypeOK, Numbered, StoresAtRest, Table, Ahead, status = Last, faults = 0, CamTake
  PROVE  Ahead'
<1>1. /\ tx \in Seq(Command) /\ at \in Pos /\ preset \in [Preset -> Pos]
      /\ stored \in [Preset -> Pos]
  BY DEF TypeOK
<1>2. tx # <<>> /\ tx' = Tail(tx) /\ UNCHANGED <<at, preset, target, pos, faults>>
  BY DEF CamTake, holder
<1>3. Head(tx) = tx[1] /\ 1 \in 1 .. Len(tx) BY <1>2, Taken
<1>4. Moves(tx[1]) /\ (tx[1].op = "recall" => tx[1].to = 0) BY <1>3 DEF Ahead
<1>5. goal = <<>> /\ goal' = <<Goal(tx[1])>> /\ rx' = rx
  BY <1>3, <1>4 DEF CamTake, Moves
<1>6. Bound = at /\ Bound' = Goal(tx[1]) BY <1>5 DEF Bound
<1>7. UnderWay' BY <1>5 DEF UnderWay
<1>8. tx[1].op \in {"abs", "zoom", "recall", "memset"}
  <2>1. PICK c \in Command : c = tx[1] BY <1>1, <1>3
  <2>2. QED BY <1>4, <2>1 DEF Command, Moves
<1>9. tx[1].op = "recall" => stored[0].pt = preset[0].pt /\ stored[0].zoom = preset[0].zoom
  <2>1. Trusted BY DEF Trusted
  <2>2. tx[1].op = "recall" => ~Storing(0) BY DEF Storing
  <2>3. QED BY <2>1, <2>2, Size DEF Table
<1>10. Goal(tx[1]).pt = IF tx[1].op \in PtOps
                        THEN (IF tx[1].op = "recall" THEN preset[0].pt ELSE tx[1].to)
                        ELSE at.pt
  BY <1>1, <1>4, <1>8, <1>9 DEF Goal, PtOps, Pos
<1>11. Goal(tx[1]).zoom = IF tx[1].op \in ZoomOps
                          THEN (IF tx[1].op = "recall" THEN preset[0].zoom ELSE tx[1].to)
                          ELSE at.zoom
  BY <1>1, <1>4, <1>8, <1>9 DEF Goal, ZoomOps, Pos
<1>12. Decides(tx', PtOps, preset[0].pt, Goal(tx[1]).pt, target.pt)
  <2>1. Decides(tx, PtOps, preset[0].pt, at.pt, target.pt) BY <1>6 DEF Ahead
  <2>2. QED BY <1>1, <1>2, <1>10, <2>1, DecidesFirst
<1>13. Decides(tx', ZoomOps, preset[0].zoom, Goal(tx[1]).zoom, target.zoom)
  <2>1. Decides(tx, ZoomOps, preset[0].zoom, at.zoom, target.zoom) BY <1>6 DEF Ahead
  <2>2. QED BY <1>1, <1>2, <1>11, <2>1, DecidesFirst
<1>14. \A i \in 1 .. Len(tx') : Moves(tx'[i]) /\ (tx'[i].op = "recall" => tx'[i].to = 0)
  BY <1>2, Taken DEF Ahead
<1>15. \A i \in 1 .. Len(rx') : rx'[i].rsp = "completion" BY <1>5 DEF Ahead
<1>16. QED BY <1>2, <1>6, <1>7, <1>12, <1>13, <1>14, <1>15 DEF Ahead, PtOps, ZoomOps, Moves

\* The dialogue ends with the camera at home and the program knowing it.
LEMMA InitAhead ==
  ASSUME TypeOK, OneAtATime, Dialogue, Top, command_pending = {}, InitStep, [Next]_vars
  PROVE  Ahead'
<1> USE SameHolder
<1>1. status \in 0 .. Last /\ Last \in Nat BY Size DEF TypeOK
<1>2. status' = status + 1 /\ status < Last BY DEF InitStep
<1>3. SUFFICES ASSUME status' = Last PROVE Ahead' BY DEF Ahead
<1>4. status = Last - 1 BY <1>1, <1>2, <1>3
<1>5. UNCHANGED <<preset, tx, target>> BY <1>1, <1>4, Size DEF InitStep
<1>6. UNCHANGED <<pos, rx, at, goal>> BY DEF Top, camera
<1>7. Idle /\ ~Sent /\ ~Turning /\ ~Answered
  BY <1>2, Lengths DEF OneAtATime, Alone, Awaited, Idle, Sent, Turning, Answered
<1>8. at = stored[0]
  <2>1. NumPreset - 1 \in Preset /\ status = 2 * (NumPreset - 1) + 4 BY <1>4, Size
  <2>2. RecallOut(0) BY <1>2, <1>4, <2>1 DEF Dialogue, AskedNext
  <2>3. QED BY <1>7, <2>2 DEF RecallOut
<1>9. target = preset[0] /\ pos = target BY <1>4 DEF Dialogue, AskedBack
<1>10. preset[0].pt = at.pt /\ preset[0].zoom = at.zoom
  <2>1. 2 * 0 + 4 <= status /\ status >= 4 /\ 0 \in Preset BY <1>4, Size
  <2>2. QED BY <1>2, <1>8, <2>1 DEF Dialogue, Saved
<1>11. tx' = <<>> /\ rx' = <<>> /\ goal' = <<>> BY <1>5, <1>6, <1>7 DEF Idle
<1>12. Bound' = at BY <1>6, <1>11 DEF Bound
<1>13. Decides(tx', PtOps, preset[0].pt, at.pt, target.pt)
  BY <1>9, <1>10, <1>11 DEF Decides
<1>14. Decides(tx', ZoomOps, preset[0].zoom, at.zoom, target.zoom)
  BY <1>9, <1>10, <1>11 DEF Decides
<1>15. QED BY <1>5, <1>6, <1>9, <1>11, <1>12, <1>13, <1>14 DEF Ahead, PtOps, ZoomOps, Moves

\* Storing a preset at rest leaves the camera where it is.
LEMMA StoreAhead ==
  ASSUME TypeOK, Ahead, status = Last, faults = 0, ~UnderWay, MemSet(0),
         UNCHANGED <<rx, at, goal>>
  PROVE  Ahead'
<1>1. tx \in Seq(Command) /\ tx = <<>> /\ rx = <<>> /\ goal = <<>> BY DEF TypeOK, UnderWay
<1>2. pos = at BY AtRest
<1>3. PICK c \in Command : tx' = Append(tx, c) /\ c = [op |-> "memset", to |-> 0]
  BY Places, Commands, Size DEF MemSet, Send
<1>4. target' = pos BY DEF MemSet
<1>5. Bound' = at BY <1>1 DEF Bound
<1>6. UnderWay' BY <1>3, Appended DEF UnderWay
<1>7. \A i \in 1 .. Len(tx') : tx'[i] = c BY <1>1, <1>3
<1>8. \A i \in 1 .. Len(tx') : tx'[i].op \notin PtOps /\ tx'[i].op \notin ZoomOps
  BY <1>3, <1>7 DEF PtOps, ZoomOps
<1>9. Decides(tx', PtOps, preset'[0].pt, at.pt, at.pt) BY <1>8 DEF Decides
<1>10. Decides(tx', ZoomOps, preset'[0].zoom, at.zoom, at.zoom) BY <1>8 DEF Decides
<1>11. \A i \in 1 .. Len(tx') : Moves(tx'[i]) /\ (tx'[i].op = "recall" => tx'[i].to = 0)
  BY <1>3, <1>7 DEF Moves
<1>12. \A i \in 1 .. Len(rx') : rx'[i].rsp = "completion" BY <1>1
<1>13. QED
  BY <1>2, <1>4, <1>5, <1>6, <1>9, <1>10, <1>11, <1>12 DEF Ahead, PtOps, ZoomOps, Moves

\* The two commands of student tracking are both taken into account.
LEMMA TwoAhead ==
  ASSUME TypeOK, Ahead, status = Last, faults = 0, TrackStudent,
         UNCHANGED <<rx, preset, at, goal>>
  PROVE  Ahead'
<1>1. tx \in Seq(Command) BY DEF TypeOK
<1>2. PICK a, z \in Command : /\ a = [op |-> "abs", to |-> Aim] /\ z = [op |-> "zoom", to |-> Aim]
                              /\ tx' = Append(Append(tx, a), z)
  BY SendsTwo
<1>3. PICK u \in Seq(Command) : u = Append(tx, a)
  <2>1. Append(tx, a) \in Seq(Command) BY <1>1
  <2>2. QED BY <2>1
<1>4. target'.pt = Aim /\ target'.zoom = Aim BY DEF TrackStudent
<1>5. Bound' = Bound BY DEF Bound
<1>6. Decides(u, PtOps, preset[0].pt, Bound.pt, Aim)
  <2>1. a.op \in PtOps /\ a.op # "recall" /\ a.to = Aim BY <1>2 DEF PtOps
  <2>2. QED BY <1>1, <1>3, <2>1, DecidesLast
<1>7. Decides(tx', PtOps, preset[0].pt, Bound.pt, Aim)
  <2>1. z.op \notin PtOps BY <1>2 DEF PtOps
  <2>2. QED BY <1>2, <1>3, <1>6, <2>1, DecidesLast
<1>8. Decides(tx', ZoomOps, preset[0].zoom, Bound.zoom, Aim)
  <2>1. z.op \in ZoomOps /\ z.op # "recall" /\ z.to = Aim BY <1>2 DEF ZoomOps
  <2>2. QED BY <1>2, <1>3, <2>1, DecidesLast
<1>9. tx' # <<>> BY <1>1, <1>2
<1>10. \A i \in 1 .. Len(tx') : (i \in 1 .. Len(tx) /\ tx'[i] = tx[i]) \/ tx'[i] \in {a, z}
  BY <1>1, <1>2
<1>11. \A i \in 1 .. Len(tx') : Moves(tx'[i]) /\ (tx'[i].op = "recall" => tx'[i].to = 0)
  BY <1>2, <1>10 DEF Ahead, Moves
<1>12. \A i \in 1 .. Len(rx') : rx'[i].rsp = "completion" BY DEF Ahead
<1>13. UnderWay' BY <1>9 DEF UnderWay
<1>14. QED
  BY <1>4, <1>5, <1>7, <1>8, <1>11, <1>12, <1>13 DEF Ahead, PtOps, ZoomOps, Moves

\* Every step keeps the program's knowledge ahead of the camera.
LEMMA NextAhead ==
  ASSUME Plain, TypeOK, Numbered, OneAtATime, Dialogue, StoresAtRest, Table, Ahead,
         [Next]_vars
  PROVE  Ahead'
<1> USE SameHolder
<1>1. /\ status \in 0 .. Last /\ Last \in Nat /\ faults \in Nat /\ target \in Pos
      /\ rx \in Seq(Answer)
  BY Size, CameraAssumption DEF TypeOK
<1>2. ASSUME status' = Last /\ faults' = 0 => status = Last /\ faults = 0,
             UNCHANGED <<tx, rx, at, goal, preset, pos, target>>
      PROVE  Ahead'
  <2>1. Bound' = Bound /\ UnderWay' = UnderWay BY <1>2 DEF Bound, UnderWay
  <2>2. SUFFICES ASSUME status = Last, faults = 0 PROVE Ahead' BY <1>2 DEF Ahead
  <2>3. QED BY <1>2, <2>1, <2>2 DEF Ahead, PtOps, ZoomOps, Moves
<1>3. CASE Top /\ command_pending = {} /\ InitStep BY <1>3, InitAhead
<1>4. CASE Top /\ command_pending # {} /\ CheckPending
  <2>1. status' = Last => status = Last BY <1>1, <1>4 DEF CheckPending, Back
  <2>2. UNCHANGED <<tx, rx, at, goal, preset, pos, target, faults>>
    BY <1>4 DEF Top, CheckPending, camera
  <2>3. QED BY <1>2, <2>1, <2>2
<1>5. CASE \/ CtrlDone \/ EventDone \/ Tick \/ UNCHANGED vars
           \/ Top /\ UNCHANGED <<holder, tx>>
  <2>1. UNCHANGED <<status, tx, rx, at, goal, preset, pos, target, faults>>
    BY <1>5 DEF CtrlDone, EventDone, Tick, Top, vars, holder, camera
  <2>2. QED BY <1>2, <2>1
<1>6. CASE CamReject \/ LoseCommand \/ LoseAnswer
  <2>1. faults' = faults + 1 BY <1>6 DEF CamReject, LoseCommand, LoseAnswer
  <2>2. faults' # 0 BY <1>1, <2>1
  <2>3. QED BY <2>2 DEF Ahead
<1>7. CASE Rx
  <2>1. UNCHANGED <<status, tx, at, goal, preset, target, faults>> BY <1>7 DEF Rx, camera
  <2>2. CASE rx = <<>>
    <3>1. UNCHANGED <<rx, pos>> BY <1>7, <2>2 DEF Rx
    <3>2. QED BY <1>2, <2>1, <3>1
  <2>3. CASE rx # <<>>
    <3>1. SUFFICES ASSUME status = Last, faults = 0 PROVE Ahead' BY <2>1 DEF Ahead
    <3>2. Head(rx) = rx[1] /\ rx' = Tail(rx) /\ 1 \in 1 .. Len(rx)
      BY <1>1, <1>7, <2>3 DEF Rx
    <3>3. rx[1].rsp = "completion" BY <3>1, <3>2 DEF Ahead
    <3>4. pos' = target BY <1>7, <2>3, <3>2, <3>3 DEF Rx, update_camholder_ctx
    <3>5. \A i \in 1 .. Len(rx') : i + 1 \in 1 .. Len(rx) /\ rx'[i] = rx[i + 1]
      BY <1>1, <2>3, <3>2
    <3>6. \A i \in 1 .. Len(rx') : rx'[i].rsp = "completion" BY <3>1, <3>5 DEF Ahead
    <3>7. Bound' = Bound BY <2>1 DEF Bound
    <3>8. QED BY <2>1, <3>1, <3>4, <3>6, <3>7 DEF Ahead, PtOps, ZoomOps, Moves
  <2>4. QED BY <2>2, <2>3
<1>8. CASE Ctrl
  <2>1. status = Last /\ UNCHANGED <<rx, at, goal, pos, faults>>
    BY <1>8, PlainOrders DEF Ctrl, camera
  <2>2. SUFFICES ASSUME faults = 0 PROVE Ahead' BY <2>1 DEF Ahead
  <2>3. CASE Keep /\ Recall(0)
    <3>1. PICK c \in Command : tx' = Append(tx, c) /\ c = [op |-> "recall", to |-> 0]
      BY <2>3, Places, Commands, Size DEF Recall, Send
    <3>2. target' = preset[0] /\ preset' = preset BY <2>3 DEF Recall, Keep
    <3>3. Moves(c) BY <3>1 DEF Moves
    <3>4. QED BY <2>1, <2>2, <3>1, <3>2, <3>3, SendAhead
  <2>4. CASE Keep /\ AbsPos(Aim)
    <3>1. PICK c \in Command : tx' = Append(tx, c) /\ c = [op |-> "abs", to |-> Aim]
      BY <2>4, Places, Commands DEF AbsPos, Send
    <3>2. target'.pt = Aim /\ target'.zoom = target.zoom /\ preset' = preset
      BY <1>1, <2>4 DEF AbsPos, Keep, Pos
    <3>3. Moves(c) BY <3>1 DEF Moves
    <3>4. QED BY <2>1, <2>2, <3>1, <3>2, <3>3, SendAhead
  <2>5. CASE Keep /\ ZoomDirect(Aim)
    <3>1. PICK c \in Command : tx' = Append(tx, c) /\ c = [op |-> "zoom", to |-> Aim]
      BY <2>5, Places, Commands DEF ZoomDirect, Send
    <3>2. target'.zoom = Aim /\ target'.pt = target.pt /\ preset' = preset
      BY <1>1, <2>5 DEF ZoomDirect, Keep, Pos
    <3>3. Moves(c) BY <3>1 DEF Moves
    <3>4. QED BY <2>1, <2>2, <3>1, <3>2, <3>3, SendAhead
  <2>6. CASE ~UnderWay /\ MemSet(0) BY <2>1, <2>2, <2>6, StoreAhead
  <2>7. QED BY <1>8, <2>3, <2>4, <2>5, <2>6, PlainOrders
<1>9. CASE Track
  <2>1. status = Last /\ UNCHANGED <<rx, at, goal, pos, preset, faults>>
    BY <1>9 DEF Track, camera
  <2>2. SUFFICES ASSUME faults = 0 PROVE Ahead' BY <2>1 DEF Ahead
  <2>3. CASE TrackTeacher
    <3>1. PICK c \in Command : tx' = Append(tx, c) /\ c = [op |-> "abs", to |-> Aim]
      BY <2>3, Places, Commands DEF TrackTeacher, AbsPos, Send
    <3>2. target'.pt = Aim /\ target'.zoom = target.zoom
      BY <1>1, <2>3 DEF TrackTeacher, AbsPos, Pos
    <3>3. Moves(c) BY <3>1 DEF Moves
    <3>4. QED BY <2>1, <2>2, <3>1, <3>2, <3>3, SendAhead
  <2>4. CASE TrackStudent BY <2>1, <2>2, <2>4, TwoAhead
  <2>5. QED BY <1>9, <2>3, <2>4 DEF Track
<1>10. CASE CamTake
  <2>1. UNCHANGED <<status, faults>> BY <1>10 DEF CamTake, holder
  <2>2. QED BY <1>10, <2>1, TakeAhead DEF Ahead
<1>11. CASE CamArrive
  <2>1. UNCHANGED <<status, tx, preset, pos, target, faults>> BY <1>11 DEF CamArrive, holder
  <2>2. SUFFICES ASSUME status = Last, faults = 0 PROVE Ahead' BY <2>1 DEF Ahead
  <2>3. Bound' = Bound BY <1>11 DEF CamArrive, Bound
  <2>4. PICK a \in Answer : rx' = Append(rx, a) /\ a.rsp = "completion"
    BY <1>11, Answers DEF CamArrive
  <2>5. rx' # <<>> /\ \A i \in 1 .. Len(rx') : rx'[i] = a \/ (i \in 1 .. Len(rx) /\ rx'[i] = rx[i])
    BY <1>1, <2>4
  <2>6. \A i \in 1 .. Len(rx') : rx'[i].rsp = "completion" BY <2>2, <2>4, <2>5 DEF Ahead
  <2>7. UnderWay' BY <2>5 DEF UnderWay
  <2>8. QED BY <2>1, <2>2, <2>3, <2>6, <2>7 DEF Ahead, PtOps, ZoomOps, Moves
<1>12. QED
  BY <1>3, <1>4, <1>5, <1>6, <1>7, <1>8, <1>9, <1>10, <1>11 DEF Next, Loop, Outside, Top

-----------------------------------------------------------------------------
(* The theorems                                                             *)

\* The fields keep their types and only existing presets are recalled or
\* stored, whatever is lost, refused or late.
THEOREM TypeCorrect == Spec => [](TypeOK /\ Numbered)
<1>1. Init => TypeOK /\ Numbered BY InitType DEF Init, Numbered
<1>2. TypeOK /\ Numbered /\ [Next]_vars => (TypeOK /\ Numbered)'
  BY NextType, NextNumbered
<1>3. QED BY <1>1, <1>2, PTL DEF Spec

\* Frames are analysed only while the teacher's camera stands still: with
\* answers that come within the timeout or never, g_camholder_still is not 1
\* while a movement is under way, until an order moves the camera.
THEOREM AnalysedAtRest ==
  ASSUME Prompt
  PROVE  Spec => []StillMeansStill
<1>1. Init => OneAtATime /\ StillIdle BY DEF Init, OneAtATime, StillIdle, Idle
<1>2. TypeOK /\ OneAtATime /\ StillIdle /\ [Next]_vars => (OneAtATime /\ StillIdle)'
  BY NextOne, NextStill
<1>3. StillIdle => StillMeansStill
  BY DEF StillIdle, StillMeansStill, Alone, Idle
<1>4. QED BY <1>1, <1>2, <1>3, TypeCorrect, PTL DEF Spec

\* What the two following theorems rest on: one command at a time and what
\* was learnt during start-up, the table of presets and the knowledge of where
\* the camera is going after it.
THEOREM Invariance ==
  ASSUME Prompt, Plain
  PROVE  Spec => []IInv
<1>1. Init => IInv
  <2> SUFFICES ASSUME Init PROVE IInv OBVIOUS
  <2>1. TypeOK BY InitType
  <2>2. Numbered /\ StoresAtRest BY DEF Init, Numbered, StoresAtRest
  <2>3. OneAtATime BY DEF Init, OneAtATime, Idle
  <2>4. OneFailure BY DEF Init, OneFailure
  <2>5. status = 0 /\ Last # 0 /\ Last - 1 # 0 BY Size DEF Init
  <2>6. Dialogue
    BY <2>5, Size DEF Dialogue, AskedHome, AskedZoom, AskedPos, AskedNext, AskedBack, Saved
  <2>7. Table /\ Ahead BY <2>5 DEF Table, Ahead
  <2>8. QED BY <2>1, <2>2, <2>3, <2>4, <2>6, <2>7 DEF IInv
<1>2. IInv /\ [Next]_vars => IInv'
  <2> SUFFICES ASSUME IInv, [Next]_vars PROVE IInv' OBVIOUS
  <2> USE DEF IInv
  <2>1. TypeOK' /\ Numbered' BY NextType, NextNumbered
  <2>2. OneAtATime' /\ OneFailure' BY NextOne, NextFailure
  <2>3. Dialogue' BY NextDialogue
  <2>4. StoresAtRest' BY NextStores
  <2>5. Table' BY NextTable
  <2>6. Ahead' BY NextAhead
  <2>7. QED BY <2>1, <2>2, <2>3, <2>4, <2>5, <2>6
<1>3. QED BY <1>1, <1>2, PTL DEF Spec

\* What the program holds of the presets is true: an initialised holder with
\* nothing under way has every preset where the camera has it, and the limits
\* of the teacher's range with them, whatever was lost, refused or repeated
\* during start-up (thread_SwitchTracking).
THEOREM PresetsAreRight ==
  ASSUME Prompt, Plain
  PROVE  Spec => []PresetsRight
<1>1. IInv => PresetsRight
  <2> SUFFICES ASSUME IInv, status = Last, ~UnderWay, ordered = "stores" => faults = 0
               PROVE  /\ \A k \in Preset : preset[k].pt = stored[k].pt
                      /\ preset[0].zoom = stored[0].zoom
                      /\ cam = "teacher" =>
                           /\ limit.pan = {stored[1].pt, stored[2].pt}
                           /\ limit.exclude = {stored[5].pt, stored[6].pt}
    BY DEF PresetsRight
  <2>1. \A k : ~Storing(k) BY DEF Storing, UnderWay
  <2>2. Table /\ Trusted BY DEF IInv, Trusted
  <2>3. QED BY <2>1, <2>2 DEF Table
<1>2. QED BY <1>1, Invariance, PTL

\* The program knows where the camera is: with nothing lost or refused, an
\* initialised holder with nothing under way has its position right, however
\* orders and tracking overlapped (update_camholder_ctx).
THEOREM PositionIsKnown ==
  ASSUME Prompt, Plain
  PROVE  Spec => []PositionKnown
<1>1. IInv => PositionKnown BY AtRest DEF IInv, PositionKnown
<1>2. QED BY <1>1, Invariance, PTL
=============================================================================
