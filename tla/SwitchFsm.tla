----------------------------- MODULE SwitchFsm -----------------------------
(***************************************************************************)
(* The automatic director of recbc_srv.c: the part of                       *)
(* thread_SwitchTracking that turns detection events into conditions of a   *)
(* truth table, conditions into states of a finite state machine, and state *)
(* changes and manual orders into SWITCHCTRL commands, which say which      *)
(* picture is recorded and whether another is laid over it.                 *)
(*                                                                          *)
(* The thread handles one message of a queue at a time, so every message is *)
(* one action.  Where the camera is pointed is not modelled here: free says *)
(* whether the teacher's holder is initialised with nothing pending (module *)
(* CameraHolder), and the geometry that decides whether a detected teacher  *)
(* is in front of the screen, or hidden while the camera turns, is a choice *)
(* of the event.  Counters are kept up to the largest value the code        *)
(* compares them with.                                                      *)
(***************************************************************************)
EXTENDS Integers, FiniteSets

CONSTANTS
  InitialState,  \* fsm.initial_state (FSM_TEACHER_PANORAMA unless configured)
  VGADuration,   \* g_cfg.VGADuration
  StudentLost,   \* events without a standing student until NONE (6)
  StillMax,      \* motionless events in front of the screen until lost (90)
  Interval,      \* seconds between automatic switches (3)
  HasScreen,     \* screen_geometry.has_screen
  Truthful,      \* TRUE: events report the scene; FALSE: they are arbitrary
  Orders,        \* the instructor's orders this run admits
  MaxOrder,      \* bound: orders
  MaxScene       \* bound: changes of the scene

Combined == {"VGA_PIP_TEACHER_CLOSEUP", "TEACHER_CLOSEUP_PIP_STUDENT_CLOSEUP",
             "BLACKBOARD_PIP_STUDENT_CLOSEUP"}
Single == {"VGA", "TEACHER_CLOSEUP", "STUDENT_CLOSEUP", "TEACHER_PANORAMA",
           "STUDENT_PANORAMA", "BOARD_CLOSEUP"}
FsmState == Single \cup Combined
NOTRANSITION == "NOTRANSITION"

ASSUME SwitchAssumption ==
  /\ InitialState \in FsmState
  /\ VGADuration \in Nat \ {0} /\ StudentLost \in Nat \ {0} /\ StillMax \in Nat \ {0}
  /\ Interval \in Nat \ {0}
  /\ HasScreen \in BOOLEAN /\ Truthful \in BOOLEAN
  /\ Orders \subseteq {"start", "stop", "switch", "mode"}
  /\ MaxOrder \in Nat /\ MaxScene \in Nat

Vga == {"VGA_UNCHG", "VGA_CHG"}
Teacher == {"TEACHER_NONE", "TEACHER_ONE", "TEACHER_MULTIPLE"}
Student == {"STUDENT_NONE", "STUDENT_ONE", "STUDENT_MULTIPLE"}
Board == {"BOARD_NOTWRITE", "BOARD_WRITE"}
Element == Vga \cup Teacher \cup Student \cup Board

Scene == [vga : Vga, teacher : Teacher, student : Student]
Empty == [vga |-> "VGA_UNCHG", teacher |-> "TEACHER_NONE", student |-> "STUDENT_NONE"]

LostEnough == 3    \* losses in a row after which the teacher is gone

VARIABLES
  truth,             \* the element conditions that hold
  fsm,               \* fsm.current_state
  since,             \* seconds since timeval1, up to Interval
  mode,              \* g_cfg.IsAutoInstuct: 0 manual, 1 half, 2 automatic
  acc_of_lost, motion_in_screen, still_in_screen,
  need_hiden, IsMultipleTeacher, acc_student_lost, acc_of_unchange,
  free,              \* teacher_status = 17 and nothing pending
  shown,             \* what board A was last told: [main, pip], pip 0 or 1
  overlay,           \* the camera whose pip flag is set in g_vmap_table
  scene,             \* what the cameras see
  byHand, running, seen,   \* history: last switch was an order; between Start
                           \* and Stop; the teacher was detected since Start
  orders, changes

teacherVars == <<acc_of_lost, motion_in_screen, still_in_screen, need_hiden, IsMultipleTeacher>>
history == <<byHand, running, seen>>
vars == <<truth, fsm, since, mode, teacherVars, acc_student_lost, acc_of_unchange,
          free, shown, overlay, scene, history, orders, changes>>

Quiet == {"VGA_UNCHG", "TEACHER_NONE", "STUDENT_NONE", "BOARD_NOTWRITE"}

(* The table as thread_SwitchTracking fills it before its loop; config_init *)
(* leaves the mode manual, the configuration may choose another.            *)
Init ==
  /\ truth = Quiet
  /\ fsm = "TEACHER_PANORAMA" /\ since = 0
  /\ mode \in 0 .. 2
  /\ acc_of_lost = 0 /\ motion_in_screen = 0 /\ still_in_screen = 0
  /\ need_hiden = FALSE /\ IsMultipleTeacher = FALSE
  /\ acc_student_lost = 0 /\ acc_of_unchange = 0
  /\ free = FALSE
  /\ shown = [main |-> "none", pip |-> 0] /\ overlay = "none"
  /\ scene \in IF Truthful THEN Scene ELSE {Empty}
  /\ byHand = FALSE /\ running = FALSE /\ seen = FALSE
  /\ orders = 0 /\ changes = 0

-----------------------------------------------------------------------------
(* The transition table.  Combination conditions are conjunctions of one    *)
(* condition of each kind; only those with VGA_UNCHG have entries.          *)

Wish(t, s, b) ==
  CASE b = "BOARD_WRITE" /\ s = "STUDENT_NONE" -> "BOARD_CLOSEUP"
    [] b = "BOARD_WRITE" /\ s = "STUDENT_ONE" -> "BLACKBOARD_PIP_STUDENT_CLOSEUP"
    [] b = "BOARD_NOTWRITE" /\ t = "TEACHER_NONE" /\ s = "STUDENT_ONE" -> "STUDENT_CLOSEUP"
    [] b = "BOARD_NOTWRITE" /\ t = "TEACHER_NONE" /\ s # "STUDENT_ONE" -> "STUDENT_PANORAMA"
    [] b = "BOARD_NOTWRITE" /\ t = "TEACHER_ONE" /\ s = "STUDENT_NONE" -> "TEACHER_CLOSEUP"
    [] b = "BOARD_NOTWRITE" /\ t = "TEACHER_ONE" /\ s = "STUDENT_ONE"
         -> "TEACHER_CLOSEUP_PIP_STUDENT_CLOSEUP"
    [] OTHER -> "TEACHER_PANORAMA"

(* item[state][combination]: the wish, unless it is the state itself; many  *)
(* standing students leave the students' panorama alone and lead from the   *)
(* students' close-up to it.                                                *)
Entry(state, t, s, b) ==
  LET wish == Wish(t, s, b)
  IN  CASE wish = state -> NOTRANSITION
        [] state = "STUDENT_PANORAMA" /\ s = "STUDENT_MULTIPLE" -> NOTRANSITION
        [] state = "STUDENT_CLOSEUP" /\ s = "STUDENT_MULTIPLE" /\ b = "BOARD_NOTWRITE"
             -> "STUDENT_PANORAMA"
        [] OTHER -> wish

(* item[state][COND_VGA_CHG].                                               *)
VgaEntry(state) ==
  CASE state \in {"VGA", "VGA_PIP_TEACHER_CLOSEUP"} -> NOTRANSITION
    [] state \in {"STUDENT_CLOSEUP", "TEACHER_PANORAMA", "STUDENT_PANORAMA"} -> "VGA"
    [] OTHER -> "VGA_PIP_TEACHER_CLOSEUP"

(* fsm_state_update takes the first condition that holds and has an entry:  *)
(* VGA_CHG, then the combinations in their order.                           *)
Combinations == {c \in Teacher \X Student \X Board : {c[1], c[2], c[3]} \subseteq truth}

fsm_state_update ==
  IF "VGA_CHG" \in truth /\ VgaEntry(fsm) # NOTRANSITION
  THEN {VgaEntry(fsm)}
  ELSE IF "VGA_UNCHG" \in truth
       THEN {Entry(fsm, c[1], c[2], c[3]) : c \in Combinations} \ {NOTRANSITION}
       ELSE {}

-----------------------------------------------------------------------------
(* What a switch sends to board A and which camera then feeds the overlay.  *)

Picture(state) ==
  CASE state = "VGA_PIP_TEACHER_CLOSEUP" -> [main |-> "VGA", pip |-> 1]
    [] state = "TEACHER_CLOSEUP_PIP_STUDENT_CLOSEUP" -> [main |-> "TEACHER_CLOSEUP", pip |-> 1]
    [] state = "BLACKBOARD_PIP_STUDENT_CLOSEUP" -> [main |-> "BOARD_CLOSEUP", pip |-> 1]
    [] OTHER -> [main |-> state, pip |-> 0]

Overlay(state) ==
  CASE state = "VGA_PIP_TEACHER_CLOSEUP" -> "TEACHER_CLOSEUP"
    [] state \in Combined \ {"VGA_PIP_TEACHER_CLOSEUP"} -> "STUDENT_CLOSEUP"
    [] OTHER -> "none"

(* Mutant of Show: a plain picture leaves the pip flag as it was.           *)
ShowKeepsOverlay(state) ==
  /\ shown' = Picture(state)
  /\ overlay' = IF state \in Combined THEN Overlay(state) ELSE overlay

Show(state) == shown' = Picture(state) /\ overlay' = Overlay(state)

-----------------------------------------------------------------------------
(* Orders of the instructor.                                                *)

Order(name) == name \in Orders /\ orders < MaxOrder /\ orders' = orders + 1

(* Mutant of StartCounters: the count of losses is cleared.                 *)
StartCountersCleared ==
  acc_of_lost' = 0 /\ motion_in_screen' = 0 /\ still_in_screen' = 0 /\ acc_student_lost' = 0

StartCounters ==
  /\ acc_of_lost' = LostEnough
  /\ motion_in_screen' = 0 /\ still_in_screen' = 0
  /\ acc_student_lost' = 0

(* Start shows the initial state only if it is a single picture.            *)
Start ==
  /\ Order("start")
  /\ StartCounters
  /\ truth' = Quiet
  /\ fsm' = InitialState
  /\ IF InitialState \in Single THEN Show(InitialState) ELSE UNCHANGED <<shown, overlay>>
  /\ since' = 0
  /\ byHand' = FALSE /\ running' = TRUE /\ seen' = FALSE
  /\ free' \in {FALSE, free}        \* Recall(0) occupies the holder
  /\ UNCHANGED <<mode, need_hiden, IsMultipleTeacher, acc_of_unchange, scene, changes>>

Stop ==
  /\ Order("stop")
  /\ overlay' = "none"
  /\ running' = FALSE
  /\ free' \in {FALSE, free}
  /\ UNCHANGED <<truth, fsm, since, mode, teacherVars, acc_student_lost, acc_of_unchange,
                 shown, scene, byHand, seen, changes>>

(* SwitchVideo knows all pictures but the board with a student; it leaves   *)
(* the state machine and its time alone.                                    *)
SwitchVideo ==
  /\ Order("switch")
  /\ \E state \in FsmState \ {"BLACKBOARD_PIP_STUDENT_CLOSEUP"} : Show(state)
  /\ byHand' = TRUE
  /\ UNCHANGED <<truth, fsm, since, mode, teacherVars, acc_student_lost, acc_of_unchange,
                 free, scene, running, seen, changes>>

SetRecordMode ==
  /\ Order("mode")
  /\ mode' \in 0 .. 2
  /\ UNCHANGED <<truth, fsm, since, teacherVars, acc_student_lost, acc_of_unchange,
                 free, shown, overlay, scene, history, changes>>

-----------------------------------------------------------------------------
(* Events.  They are ignored in manual mode.                                *)

Min2(a, b) == IF a < b THEN a ELSE b
Becomes(kind, c) == truth' = (truth \ kind) \cup {c}
OnlyConditions == UNCHANGED <<fsm, since, mode, shown, overlay, scene, byHand, running, orders, changes>>

(* The detector tells a person (1) from something that moves (2, 3); the    *)
(* event says only that there is one or not, so it never reports a motion.  *)
EventVID2df(flag) == IF flag > 0 THEN 1 ELSE 0

(* A detected teacher in front of the screen counts as seen while it moves, *)
(* and for StillMax events when it does not.                                *)
InScreen(moving) ==
  IF moving
  THEN /\ motion_in_screen' = Min2(motion_in_screen + 1, 2) /\ still_in_screen' = 0
       /\ acc_of_lost' = IF acc_of_lost < LostEnough \/ motion_in_screen' >= 2
                         THEN 0 ELSE LostEnough
  ELSE /\ still_in_screen' = Min2(still_in_screen + 1, StillMax + 1) /\ motion_in_screen' = 0
       /\ acc_of_lost' = IF acc_of_lost < LostEnough /\ still_in_screen' < StillMax
                         THEN 0 ELSE LostEnough

Detected(moving, inScreen) ==
  IF HasScreen
  THEN IF inScreen
       THEN InScreen(moving)
       ELSE acc_of_lost' = 0 /\ still_in_screen' = 0 /\ motion_in_screen' = 0
  ELSE acc_of_lost' = 0 /\ UNCHANGED <<still_in_screen, motion_in_screen>>

NotDetected ==
  /\ still_in_screen' = IF HasScreen THEN Min2(still_in_screen + 1, StillMax + 1)
                        ELSE still_in_screen
  /\ acc_of_lost' = IF HasScreen /\ still_in_screen' = StillMax /\ still_in_screen # StillMax
                    THEN LostEnough ELSE Min2(acc_of_lost + 1, LostEnough)
  /\ UNCHANGED motion_in_screen

(* The capture-or-lost decision and the tracking, only while the holder is  *)
(* free; a tracking or scanning movement occupies it.                       *)
Decide(detected) ==
  \/ ~free /\ UNCHANGED <<teacherVars, free>>
  \/ /\ free /\ free' \in BOOLEAN
     /\ \/ ~detected /\ NotDetected
        \/ detected /\ \E d \in {EventVID2df(flag) : flag \in 1 .. 3}, inScreen \in BOOLEAN :
                         Detected(d >= 2, inScreen)
     /\ IF detected /\ acc_of_lost' = 0
        THEN /\ IsMultipleTeacher' \in IF Truthful THEN {scene.teacher = "TEACHER_MULTIPLE"} ELSE BOOLEAN
             /\ need_hiden' \in IF Truthful THEN {FALSE} ELSE BOOLEAN
        ELSE UNCHANGED <<IsMultipleTeacher, need_hiden>>

(* The teacher's condition, from the counter the decision left.             *)
TeacherCondition ==
  CASE acc_of_lost' = 0 /\ ~need_hiden' /\ IsMultipleTeacher' -> Becomes(Teacher, "TEACHER_MULTIPLE")
    [] acc_of_lost' = 0 /\ ~need_hiden' /\ ~IsMultipleTeacher' -> Becomes(Teacher, "TEACHER_ONE")
    [] (acc_of_lost' = 0 /\ need_hiden') \/ acc_of_lost' >= LostEnough -> Becomes(Teacher, "TEACHER_NONE")
    [] OTHER -> UNCHANGED truth

VidEvent ==
  /\ mode # 0
  /\ \E detected \in IF Truthful THEN {scene.teacher # "TEACHER_NONE"} ELSE BOOLEAN :
       /\ Decide(detected)
       /\ seen' = (seen \/ (detected /\ free))
  /\ TeacherCondition
  /\ OnlyConditions /\ UNCHANGED <<acc_student_lost, acc_of_unchange>>

(* Mutant of AuxEvent: a second student does not take ONE back.             *)
AuxEventBothHold ==
  /\ mode # 0
  /\ \E s \in IF Truthful THEN {scene.student} ELSE Student :
       IF s = "STUDENT_NONE"
       THEN /\ acc_student_lost' = Min2(acc_student_lost + 1, StudentLost + 1)
            /\ IF acc_student_lost' = StudentLost /\ acc_student_lost # StudentLost
               THEN Becomes(Student, "STUDENT_NONE") ELSE UNCHANGED truth
       ELSE acc_student_lost' = 0 /\ truth' = (truth \ {"STUDENT_NONE"}) \cup {s}
  /\ OnlyConditions /\ UNCHANGED <<teacherVars, free, acc_of_unchange, seen>>

(* Mutant of AuxEvent: a standing student does not clear the count.         *)
AuxEventKeepsCount ==
  /\ mode # 0
  /\ \E s \in IF Truthful THEN {scene.student} ELSE Student :
       IF s = "STUDENT_NONE"
       THEN /\ acc_student_lost' = Min2(acc_student_lost + 1, StudentLost + 1)
            /\ IF acc_student_lost' = StudentLost /\ acc_student_lost # StudentLost
               THEN Becomes(Student, "STUDENT_NONE") ELSE UNCHANGED truth
       ELSE UNCHANGED acc_student_lost /\ Becomes(Student, s)
  /\ OnlyConditions /\ UNCHANGED <<teacherVars, free, acc_of_unchange, seen>>

(* NONE is set when the count reaches StudentLost, not while it is beyond.  *)
AuxEvent ==
  /\ mode # 0
  /\ \E s \in IF Truthful THEN {scene.student} ELSE Student :
       IF s = "STUDENT_NONE"
       THEN /\ acc_student_lost' = Min2(acc_student_lost + 1, StudentLost + 1)
            /\ IF acc_student_lost' = StudentLost /\ acc_student_lost # StudentLost
               THEN Becomes(Student, "STUDENT_NONE") ELSE UNCHANGED truth
       ELSE acc_student_lost' = 0 /\ Becomes(Student, s)
  /\ OnlyConditions /\ UNCHANGED <<teacherVars, free, acc_of_unchange, seen>>

(* result.changed: 1 a change, 2 back to rest at once, 0 no change.         *)
VgaEvent ==
  /\ mode # 0
  /\ \E changed \in IF Truthful THEN {IF scene.vga = "VGA_CHG" THEN 1 ELSE 0} ELSE 0 .. 2 :
       \/ changed = 1 /\ Becomes(Vga, "VGA_CHG") /\ acc_of_unchange' = 0
       \/ changed = 2 /\ Becomes(Vga, "VGA_UNCHG") /\ acc_of_unchange' = VGADuration
       \/ /\ changed = 0
          /\ acc_of_unchange' = Min2(acc_of_unchange + 1, VGADuration + 1)
          /\ IF acc_of_unchange' = VGADuration /\ acc_of_unchange # VGADuration
             THEN Becomes(Vga, "VGA_UNCHG") ELSE UNCHANGED truth
  /\ OnlyConditions /\ UNCHANGED <<teacherVars, free, acc_student_lost, seen>>

(* In manual mode events are taken from the queue and dropped.              *)
DropEvent == mode = 0 /\ UNCHANGED vars

(* The state machine, in automatic mode and Interval after the last change. *)
Transition ==
  /\ mode = 2 /\ since >= Interval
  /\ \E state \in fsm_state_update :
       fsm' = state /\ Show(state)
  /\ since' = 0 /\ byHand' = FALSE
  /\ UNCHANGED <<truth, mode, teacherVars, acc_student_lost, acc_of_unchange, free, scene,
                 running, seen, orders, changes>>

-----------------------------------------------------------------------------
(* Outside: time, the holder (CameraHolder), the scene.                     *)

Tick ==
  /\ since < Interval /\ since' = since + 1
  /\ UNCHANGED <<truth, fsm, mode, teacherVars, acc_student_lost, acc_of_unchange, free, shown,
                 overlay, scene, history, orders, changes>>

HolderFree ==
  /\ ~free /\ free' = TRUE
  /\ UNCHANGED <<truth, fsm, since, mode, teacherVars, acc_student_lost, acc_of_unchange, shown,
                 overlay, scene, history, orders, changes>>

SceneChanges ==
  /\ changes < MaxScene /\ changes' = changes + 1
  /\ scene' \in Scene /\ scene' # scene
  /\ UNCHANGED <<truth, fsm, since, mode, teacherVars, acc_student_lost, acc_of_unchange, free,
                 shown, overlay, history, orders>>

Next ==
  \/ Start \/ Stop \/ SwitchVideo \/ SetRecordMode
  \/ VidEvent \/ AuxEvent \/ VgaEvent \/ DropEvent \/ Transition
  \/ Tick \/ HolderFree \/ SceneChanges

Spec == Init /\ [][Next]_vars

(* The detectors report several times a second for as long as the boards    *)
(* run, so events of every kind keep coming, teacher events also while the  *)
(* holder is free; the loop turns every millisecond and time passes.        *)
FairSpec ==
  Spec /\ SF_vars(VidEvent /\ free) /\ WF_vars(AuxEvent) /\ WF_vars(VgaEvent)
       /\ WF_vars(Transition) /\ WF_vars(Tick) /\ WF_vars(HolderFree)

-----------------------------------------------------------------------------
(* Properties.                                                              *)

(* The variables keep their types.                                          *)
TypeOK ==
  /\ truth \subseteq Element /\ fsm \in FsmState /\ since \in 0 .. Interval /\ mode \in 0 .. 2
  /\ acc_of_lost \in 0 .. LostEnough /\ motion_in_screen \in 0 .. 2
  /\ still_in_screen \in 0 .. StillMax + 1 /\ acc_student_lost \in 0 .. StudentLost + 1
  /\ acc_of_unchange \in 0 .. VGADuration + 1
  /\ need_hiden \in BOOLEAN /\ IsMultipleTeacher \in BOOLEAN /\ free \in BOOLEAN
  /\ shown \in [main : Single \cup {"none"}, pip : 0 .. 1]
  /\ overlay \in Single \cup {"none"}
  /\ scene \in Scene
  /\ byHand \in BOOLEAN /\ running \in BOOLEAN /\ seen \in BOOLEAN
  /\ orders \in 0 .. MaxOrder /\ changes \in 0 .. MaxScene

(* The truth table always describes one situation: exactly one condition of *)
(* each kind holds, so exactly one combination does and the order in which  *)
(* fsm_state_update tries them cannot matter (8213-8318).                   *)
OneOfEach ==
  \A kind \in {Vga, Teacher, Student, Board} : Cardinality(truth \cap kind) = 1

(* Within a recording the director believes in a teacher only if one was    *)
(* detected since Start, even though VID events update the conditions while *)
(* the holder is busy and the decision is skipped (7133-7140, 8236-8264).   *)
TeacherReal == running /\ "TEACHER_NONE" \notin truth => seen

(* Within a recording that Start gave a picture, the overlay is fed exactly *)
(* when board A was told to lay one over: the pip flag of g_vmap_table,     *)
(* which thread_img reads, and the PIP attribute agree.                     *)
OverlayFed == running => (shown.pip = 1 <=> overlay # "none")

(* The pictures that fit a scene, by what is in it.                         *)
Fits(sc) ==
  CASE sc.vga = "VGA_CHG" -> {p \in [main : Single, pip : 0 .. 1] : p.main = "VGA"}
    [] sc.vga = "VGA_UNCHG" /\ sc.student = "STUDENT_MULTIPLE" ->
         {[main |-> "TEACHER_PANORAMA", pip |-> 0], [main |-> "STUDENT_PANORAMA", pip |-> 0]}
    [] sc.vga = "VGA_UNCHG" /\ sc.teacher = "TEACHER_MULTIPLE" /\ sc.student # "STUDENT_MULTIPLE" ->
         {[main |-> "TEACHER_PANORAMA", pip |-> 0]}
    [] sc.vga = "VGA_UNCHG" /\ sc.teacher = "TEACHER_ONE" /\ sc.student # "STUDENT_MULTIPLE" ->
         {[main |-> "TEACHER_CLOSEUP", pip |-> IF sc.student = "STUDENT_ONE" THEN 1 ELSE 0]}
    [] OTHER ->
         {[main |-> IF sc.student = "STUDENT_ONE" THEN "STUDENT_CLOSEUP" ELSE "STUDENT_PANORAMA",
           pip |-> 0]}

(* The machine is in a state whose picture fits the scene, and in a         *)
(* recording board A shows it, unless an order chose another by hand.       *)
Following ==
  /\ mode = 2 /\ Picture(fsm) \in Fits(scene)
  /\ running /\ ~byHand => shown \in Fits(scene)

(* In automatic mode the picture follows the scene: if the scene stays as   *)
(* it is, the machine ends in a state whose picture fits it and stays       *)
(* there, whatever state and counters the scenes before it left behind      *)
(* (8324-8484, 5907-6347).                                                  *)
AutoFollows == []<>(mode # 2) \/ <>[]Following
=============================================================================
