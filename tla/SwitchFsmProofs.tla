--------------------------- MODULE SwitchFsmProofs ---------------------------
(***************************************************************************)
(* Theorems about SwitchFsm, for any configuration of the director: any     *)
(* initial state, any durations and limits, with or without a screen, any   *)
(* number of orders, and events that report the scene or anything else.     *)
(***************************************************************************)
EXTENDS SwitchFsm, TLAPS, FiniteSetTheorems

-----------------------------------------------------------------------------
(* The inductive invariant *)

Kind == {Vga, Teacher, Student, Board}

(* Exactly one condition of each kind holds.                                *)
Situation == \A kind \in Kind : \E e \in kind : truth \cap kind = {e}

(* As long as nobody was detected since Start the count of losses stays     *)
(* where Start put it, whatever events come and whether or not the holder   *)
(* is free to look at them; so none of them can make a teacher of it.       *)
NobodyYet ==
  running /\ ~seen => acc_of_lost = LostEnough /\ "TEACHER_NONE" \in truth

(* TypeOK in three parts, for provers that are good at one kind of value.    *)
Numbers ==
  /\ since \in 0 .. Interval /\ mode \in 0 .. 2
  /\ acc_of_lost \in 0 .. LostEnough /\ motion_in_screen \in 0 .. 2
  /\ still_in_screen \in 0 .. StillMax + 1 /\ acc_student_lost \in 0 .. StudentLost + 1
  /\ acc_of_unchange \in 0 .. VGADuration + 1
  /\ orders \in 0 .. MaxOrder /\ changes \in 0 .. MaxScene

Flags ==
  /\ need_hiden \in BOOLEAN /\ IsMultipleTeacher \in BOOLEAN /\ free \in BOOLEAN
  /\ byHand \in BOOLEAN /\ running \in BOOLEAN /\ seen \in BOOLEAN

Pictures ==
  /\ truth \subseteq Element /\ fsm \in FsmState
  /\ shown \in [main : Single \cup {"none"}, pip : 0 .. 1]
  /\ overlay \in Single \cup {"none"}
  /\ scene \in Scene

IInv == TypeOK /\ Situation /\ NobodyYet

(* What the pip attribute and the pip flag say agree.                       *)
Agree == shown.pip = 1 <=> overlay # "none"

-----------------------------------------------------------------------------
(* Facts about the operators of the director                                *)

(* The parts of the type invariant, in a state and in the next.             *)
LEMMA TypeParts ==
  /\ TypeOK <=> Numbers /\ Flags /\ Pictures
  /\ TypeOK' <=> Numbers' /\ Flags' /\ Pictures'
BY Zenon DEF TypeOK, Numbers, Flags, Pictures

(* A condition of one kind replaced by another of that kind leaves one of   *)
(* each.                                                                    *)
LEMMA BecomesOneOfEach ==
  ASSUME NEW kind \in Kind, NEW c \in kind, Becomes(kind, c),
         truth \subseteq Element, Situation
  PROVE  truth' \subseteq Element /\ Situation' /\ c \in truth'
<1>1. truth' \subseteq Element
  BY DEF Becomes, Kind, Element
<1>2. ASSUME NEW k \in Kind PROVE \E e \in k : truth' \cap k = {e}
  <2>1. CASE k = kind
    <3>1. truth' \cap k = {c} BY <2>1 DEF Becomes
    <3>2. QED BY <2>1, <3>1
  <2>2. CASE k # kind
    <3>1. k \cap kind = {}
      BY <1>2, <2>2 DEF Kind, Vga, Teacher, Student, Board
    <3>2. truth' \cap k = truth \cap k BY <3>1 DEF Becomes
    <3>3. QED BY <1>2, <3>2 DEF Situation
  <2>3. QED BY <2>1, <2>2
<1>3. QED BY <1>1, <1>2 DEF Situation, Becomes

(* A switch tells board A to lay a picture over another exactly when it     *)
(* names a camera that feeds it.                                            *)
LEMMA PictureHasOverlay == \A state : Picture(state).pip = 1 <=> Overlay(state) # "none"
BY DEF Picture, Overlay, Combined

(* What is shown has its type.                                              *)
LEMMA PictureType ==
  ASSUME NEW state \in FsmState
  PROVE  /\ Picture(state) \in [main : Single \cup {"none"}, pip : 0 .. 1]
         /\ Overlay(state) \in Single \cup {"none"}
BY DEF Picture, Overlay, FsmState, Single, Combined

(* The table leads to states of the machine only.                           *)
LEMMA UpdateType ==
  ASSUME NEW state \in fsm_state_update
  PROVE  state \in FsmState
<1>1. \A t, s, b : Wish(t, s, b) \in FsmState
  BY DEF Wish, FsmState, Single, Combined
<1>2. \A st, t, s, b : Entry(st, t, s, b) \in FsmState \cup {NOTRANSITION}
  BY <1>1 DEF Entry, FsmState, Single
<1>3. \A st : VgaEntry(st) \in FsmState \cup {NOTRANSITION}
  BY DEF VgaEntry, FsmState, Single, Combined
<1>4. CASE "VGA_CHG" \in truth /\ VgaEntry(fsm) # NOTRANSITION
  BY <1>3, <1>4 DEF fsm_state_update
<1>5. CASE ~("VGA_CHG" \in truth /\ VgaEntry(fsm) # NOTRANSITION)
  <2>1. state \in {Entry(fsm, c[1], c[2], c[3]) : c \in Combinations} \ {NOTRANSITION}
    BY <1>5 DEF fsm_state_update
  <2>2. QED BY <1>2, <2>1
<1>6. QED BY <1>4, <1>5

(* Showing a picture of a state keeps the types and the agreement.          *)
LEMMA ShowAgrees ==
  ASSUME NEW state \in FsmState, Show(state)
  PROVE  /\ shown' \in [main : Single \cup {"none"}, pip : 0 .. 1]
         /\ overlay' \in Single \cup {"none"}
         /\ Agree'
BY PictureType, PictureHasOverlay DEF Show, Agree

-----------------------------------------------------------------------------
(* The steps preserve the invariant                                         *)

(* The table as thread_SwitchTracking fills it describes one situation.     *)
LEMMA QuietIsOne ==
  ASSUME truth' = Quiet
  PROVE  truth' \subseteq Element /\ Situation' /\ "TEACHER_NONE" \in truth'
<1>1. ASSUME NEW k \in Kind PROVE \E e \in k : Quiet \cap k = {e}
  <2>1. CASE k = Vga
    <3>1. Quiet \cap k = {"VGA_UNCHG"} BY <2>1 DEF Quiet, Vga
    <3>2. QED BY <2>1, <3>1 DEF Vga
  <2>2. CASE k = Teacher
    <3>1. Quiet \cap k = {"TEACHER_NONE"} BY <2>2 DEF Quiet, Teacher
    <3>2. QED BY <2>2, <3>1 DEF Teacher
  <2>3. CASE k = Student
    <3>1. Quiet \cap k = {"STUDENT_NONE"} BY <2>3 DEF Quiet, Student
    <3>2. QED BY <2>3, <3>1 DEF Student
  <2>4. CASE k = Board
    <3>1. Quiet \cap k = {"BOARD_NOTWRITE"} BY <2>4 DEF Quiet, Board
    <3>2. QED BY <2>4, <3>1 DEF Board
  <2>5. QED BY <1>1, <2>1, <2>2, <2>3, <2>4 DEF Kind
<1>2. Quiet \subseteq Element
  BY DEF Quiet, Element, Vga, Teacher, Student, Board
<1>3. QED BY <1>1, <1>2 DEF Situation, Quiet

(* Between fixed tables the situation is the same.                          *)
LEMMA SameSituation == ASSUME UNCHANGED truth, Situation PROVE Situation'
BY DEF Situation

(* A count capped by Min2.                                                  *)
LEMMA CountUp ==
  ASSUME NEW n \in Nat, NEW c \in 0 .. n PROVE Min2(c + 1, n) \in 0 .. n
BY DEF Min2

(* The invariant holds before the first message.                            *)
LEMMA InitIInv == Init => IInv
<1> SUFFICES ASSUME Init PROVE IInv OBVIOUS
<1> USE SwitchAssumption DEF Init
<1>1. truth \subseteq Element
  BY DEF Quiet, Element, Vga, Teacher, Student, Board
<1>2. Situation
  <2>1. truth \cap Vga = {"VGA_UNCHG"} BY DEF Quiet, Vga
  <2>2. truth \cap Teacher = {"TEACHER_NONE"} BY DEF Quiet, Teacher
  <2>3. truth \cap Student = {"STUDENT_NONE"} BY DEF Quiet, Student
  <2>4. truth \cap Board = {"BOARD_NOTWRITE"} BY DEF Quiet, Board
  <2>5. QED BY <2>1, <2>2, <2>3, <2>4 DEF Situation, Kind, Vga, Teacher, Student, Board
<1>3. scene \in Scene
  BY DEF Scene, Empty, Vga, Teacher, Student
<1>4. shown \in [main : Single \cup {"none"}, pip : 0 .. 1] OBVIOUS
<1>5. TypeOK
  <2>1. Pictures BY <1>1, <1>3, <1>4 DEF Pictures, FsmState, Single
  <2>2. Numbers BY DEF Numbers, LostEnough
  <2>3. Flags BY DEF Flags
  <2>4. QED BY <2>1, <2>2, <2>3, TypeParts
<1>6. NobodyYet BY DEF NobodyYet
<1>7. QED BY <1>2, <1>5, <1>6 DEF IInv

(* Orders: Start begins with nobody seen and the count at its limit.        *)
LEMMA OrdersPreserve ==
  IInv /\ (Start \/ Stop \/ SwitchVideo \/ SetRecordMode) => IInv'
<1> SUFFICES ASSUME IInv, Start \/ Stop \/ SwitchVideo \/ SetRecordMode PROVE IInv'
  OBVIOUS
<1>t. Numbers /\ Flags /\ Pictures BY TypeParts DEF IInv
<1> USE SwitchAssumption DEF Order, teacherVars, history
<1>1. CASE Start
  <2>1. /\ truth' \subseteq Element /\ Situation' /\ "TEACHER_NONE" \in truth'
    BY <1>1, QuietIsOne DEF Start
  <2>2. /\ shown' \in [main : Single \cup {"none"}, pip : 0 .. 1]
        /\ overlay' \in Single \cup {"none"}
    <3>1. CASE InitialState \in Single
      BY <1>1, <3>1, ShowAgrees DEF Start
    <3>2. CASE InitialState \notin Single
      BY <1>1, <1>t, <3>2 DEF Start, Pictures
    <3>3. QED BY <3>1, <3>2
  <2>3. Numbers' BY <1>1, <1>t DEF Numbers, Start, StartCounters, LostEnough
  <2>4. Flags' BY <1>1, <1>t, Zenon DEF Flags, Start
  <2>5. Pictures' BY <1>1, <1>t, <2>1, <2>2 DEF Pictures, Start
  <2>6. NobodyYet' BY <1>1, <2>1 DEF Start, StartCounters, NobodyYet
  <2>7. QED BY <2>1, <2>3, <2>4, <2>5, <2>6, TypeParts DEF IInv
<1>2. CASE Stop
  <2>1. Numbers' BY <1>2, <1>t DEF Numbers, Stop
  <2>2. Flags' BY <1>2, <1>t, Zenon DEF Flags, Stop
  <2>3. Pictures' BY <1>2, <1>t DEF Pictures, Stop
  <2>4. Situation' BY <1>2, SameSituation DEF IInv, Stop
  <2>5. NobodyYet' BY <1>2 DEF Stop, NobodyYet
  <2>6. QED BY <2>1, <2>2, <2>3, <2>4, <2>5, TypeParts DEF IInv
<1>3. CASE SwitchVideo
  <2>1. PICK state \in FsmState : Show(state) BY <1>3 DEF SwitchVideo
  <2>2. /\ shown' \in [main : Single \cup {"none"}, pip : 0 .. 1]
        /\ overlay' \in Single \cup {"none"}
    BY <2>1, ShowAgrees
  <2>3. Numbers' BY <1>3, <1>t DEF Numbers, SwitchVideo
  <2>4. Flags' BY <1>3, <1>t, Zenon DEF Flags, SwitchVideo
  <2>5. Pictures' BY <1>3, <1>t, <2>2 DEF Pictures, SwitchVideo
  <2>6. Situation' BY <1>3, SameSituation DEF IInv, SwitchVideo
  <2>7. NobodyYet' BY <1>3 DEF IInv, SwitchVideo, NobodyYet
  <2>8. QED BY <2>3, <2>4, <2>5, <2>6, <2>7, TypeParts DEF IInv
<1>4. CASE SetRecordMode
  <2>1. Numbers' BY <1>4, <1>t DEF Numbers, SetRecordMode
  <2>2. Flags' BY <1>4, <1>t, Zenon DEF Flags, SetRecordMode
  <2>3. Pictures' BY <1>4, <1>t DEF Pictures, SetRecordMode
  <2>4. Situation' BY <1>4, SameSituation DEF IInv, SetRecordMode
  <2>5. NobodyYet' BY <1>4 DEF IInv, SetRecordMode, NobodyYet
  <2>6. QED BY <2>1, <2>2, <2>3, <2>4, <2>5, TypeParts DEF IInv
<1>5. QED BY <1>1, <1>2, <1>3, <1>4

(* Tracking events: the count of losses stays in its range, and without a   *)
(* detection a count at its limit stays there.                              *)
LEMMA DecideCounts ==
  ASSUME Numbers, NEW detected \in BOOLEAN, Decide(detected)
  PROVE  /\ acc_of_lost' \in 0 .. LostEnough /\ motion_in_screen' \in 0 .. 2
         /\ still_in_screen' \in 0 .. StillMax + 1
         /\ acc_of_lost = LostEnough /\ ~(detected /\ free) => acc_of_lost' = LostEnough
<1> USE SwitchAssumption DEF Numbers, LostEnough, Min2
<1>1. CASE ~free /\ UNCHANGED <<teacherVars, free>>
  BY <1>1 DEF teacherVars
<1>2. CASE free /\ ~detected /\ NotDetected
  BY <1>2 DEF NotDetected
<1>3. ASSUME free, detected, NEW moving \in BOOLEAN, NEW inScreen \in BOOLEAN,
             Detected(moving, inScreen)
      PROVE  /\ acc_of_lost' \in 0 .. LostEnough /\ motion_in_screen' \in 0 .. 2
             /\ still_in_screen' \in 0 .. StillMax + 1
  <2>1. CASE HasScreen /\ inScreen /\ moving
    BY <1>3, <2>1 DEF Detected, InScreen
  <2>2. CASE HasScreen /\ inScreen /\ ~moving
    BY <1>3, <2>2 DEF Detected, InScreen
  <2>3. CASE HasScreen /\ ~inScreen BY <1>3, <2>3 DEF Detected
  <2>4. CASE ~HasScreen BY <1>3, <2>4 DEF Detected
  <2>5. QED BY <2>1, <2>2, <2>3, <2>4
<1>4. QED
  <2>1. CASE free /\ detected
    <3>1. PICK d \in {EventVID2df(flag) : flag \in 1 .. 3}, inScreen \in BOOLEAN :
             Detected(d >= 2, inScreen)
      BY <2>1 DEF Decide
    <3>2. (d >= 2) \in BOOLEAN OBVIOUS
    <3>3. QED BY <1>3, <2>1, <3>1, <3>2
  <2>2. CASE ~(free /\ detected)
    BY <1>1, <1>2, <2>2 DEF Decide
  <2>3. QED BY <2>1, <2>2

(* The decision leaves the flags Boolean.                                   *)
LEMMA DecideFlags ==
  ASSUME Flags, NEW detected \in BOOLEAN, Decide(detected)
  PROVE  need_hiden' \in BOOLEAN /\ IsMultipleTeacher' \in BOOLEAN /\ free' \in BOOLEAN
<1>1. CASE ~free /\ UNCHANGED <<teacherVars, free>>
  BY <1>1, Zenon DEF Flags, teacherVars
<1>2. CASE free' \in BOOLEAN /\ UNCHANGED <<IsMultipleTeacher, need_hiden>>
  BY <1>2, Zenon DEF Flags
<1>3. CASE /\ free' \in BOOLEAN
           /\ IsMultipleTeacher' \in IF Truthful THEN {scene.teacher = "TEACHER_MULTIPLE"} ELSE BOOLEAN
           /\ need_hiden' \in IF Truthful THEN {FALSE} ELSE BOOLEAN
  <2>1. CASE Truthful
    <3>1. need_hiden' = FALSE BY <1>3, <2>1, Zenon
    <3>2. IsMultipleTeacher' = (scene.teacher = "TEACHER_MULTIPLE") BY <1>3, <2>1, Zenon
    <3>3. QED BY <1>3, <3>1, <3>2, Zenon
  <2>2. CASE ~Truthful BY <1>3, <2>2, Zenon
  <2>3. QED BY <2>1, <2>2
<1>4. QED BY <1>1, <1>2, <1>3, Zenon DEF Decide

(* The teacher's condition replaces the one before; with the count at its   *)
(* limit it is NONE.                                                        *)
LEMMA TeacherConditionEffect ==
  ASSUME TeacherCondition, truth \subseteq Element, Situation,
         acc_of_lost' \in 0 .. LostEnough,
         need_hiden' \in BOOLEAN, IsMultipleTeacher' \in BOOLEAN
  PROVE  /\ truth' \subseteq Element /\ Situation'
         /\ acc_of_lost' = LostEnough => "TEACHER_NONE" \in truth'
<1>t. Teacher \in Kind /\ Teacher = {"TEACHER_NONE", "TEACHER_ONE", "TEACHER_MULTIPLE"}
  BY DEF Kind, Teacher
<1>1. CASE acc_of_lost' = 0 /\ ~need_hiden'
  <2>1. CASE Becomes(Teacher, "TEACHER_MULTIPLE")
    BY <1>t, <1>1, <2>1, BecomesOneOfEach DEF LostEnough
  <2>2. CASE Becomes(Teacher, "TEACHER_ONE")
    BY <1>t, <1>1, <2>2, BecomesOneOfEach DEF LostEnough
  <2>3. QED BY <1>1, <2>1, <2>2 DEF TeacherCondition, LostEnough
<1>2. CASE (acc_of_lost' = 0 /\ need_hiden') \/ acc_of_lost' >= LostEnough
  <2>1. Becomes(Teacher, "TEACHER_NONE")
    BY <1>2 DEF TeacherCondition, LostEnough
  <2>2. QED BY <1>t, <2>1, BecomesOneOfEach
<1>3. CASE acc_of_lost' # 0 /\ ~(acc_of_lost' >= LostEnough)
  <2>1. UNCHANGED truth
    BY <1>3 DEF TeacherCondition, LostEnough
  <2>2. QED BY <1>3, <2>1, SameSituation DEF LostEnough
<1>4. QED BY <1>1, <1>2, <1>3, Zenon

(* A VID event: the decision, then the condition.                           *)
LEMMA VidEventPreserves == IInv /\ VidEvent => IInv'
<1> SUFFICES ASSUME IInv, VidEvent PROVE IInv' OBVIOUS
<1>t. Numbers /\ Flags /\ Pictures BY TypeParts DEF IInv
<1>1. PICK detected \in BOOLEAN : Decide(detected) /\ seen' = (seen \/ (detected /\ free))
  <2>1. PICK d \in IF Truthful THEN {scene.teacher # "TEACHER_NONE"} ELSE BOOLEAN :
              Decide(d) /\ seen' = (seen \/ (d /\ free))
    BY Zenon DEF VidEvent
  <2>2. d \in BOOLEAN
    <3>1. CASE Truthful
      <4>1. d = (scene.teacher # "TEACHER_NONE") BY <3>1, <2>1, Zenon
      <4>2. QED BY <4>1, Zenon
    <3>2. CASE ~Truthful BY <2>1, <3>2, Zenon
    <3>3. QED BY <3>1, <3>2
  <2>3. QED BY <2>1, <2>2, Zenon
<1>2. /\ acc_of_lost' \in 0 .. LostEnough /\ motion_in_screen' \in 0 .. 2
      /\ still_in_screen' \in 0 .. StillMax + 1
      /\ acc_of_lost = LostEnough /\ ~(detected /\ free) => acc_of_lost' = LostEnough
  BY <1>1, <1>t, DecideCounts
<1>3. need_hiden' \in BOOLEAN /\ IsMultipleTeacher' \in BOOLEAN /\ free' \in BOOLEAN
  BY <1>1, <1>t, DecideFlags
<1>4. /\ truth' \subseteq Element /\ Situation'
      /\ acc_of_lost' = LostEnough => "TEACHER_NONE" \in truth'
  <2>1. TeacherCondition BY DEF VidEvent
  <2>2. truth \subseteq Element /\ Situation BY <1>t DEF Pictures, IInv
  <2>3. QED BY <1>2, <1>3, <2>1, <2>2, TeacherConditionEffect
<1>5. UNCHANGED <<fsm, since, mode, shown, overlay, scene, byHand, running, orders, changes,
                  acc_student_lost, acc_of_unchange>>
  BY DEF VidEvent, OnlyConditions
<1>6. Numbers' BY <1>t, <1>2, <1>5 DEF Numbers
<1>7. Flags'
  <2>1. seen' \in BOOLEAN BY <1>1, Zenon
  <2>2. QED BY <1>t, <1>3, <1>5, <2>1, Zenon DEF Flags
<1>8. Pictures' BY <1>t, <1>4, <1>5 DEF Pictures
<1>9. NobodyYet'
  <2>1. CASE running' /\ ~seen'
    <3>1. running /\ ~seen /\ ~(detected /\ free) BY <1>1, <1>5, <2>1, Zenon
    <3>2. acc_of_lost = LostEnough BY <3>1 DEF IInv, NobodyYet
    <3>3. QED BY <1>2, <1>4, <3>1, <3>2 DEF NobodyYet
  <2>2. QED BY <2>1 DEF NobodyYet
<1>10. QED BY <1>4, <1>6, <1>7, <1>8, <1>9, TypeParts DEF IInv

(* The other events change one condition, never the teacher's, and a count. *)
LEMMA ConditionPreserves ==
  ASSUME IInv, OnlyConditions, UNCHANGED <<teacherVars, free, seen>>,
         acc_student_lost' \in 0 .. StudentLost + 1,
         acc_of_unchange' \in 0 .. VGADuration + 1,
         \/ UNCHANGED truth
         \/ \E kind \in {Student, Vga} : \E c \in kind : Becomes(kind, c)
  PROVE  IInv'
<1>t. Numbers /\ Flags /\ Pictures BY TypeParts DEF IInv
<1>1. /\ truth' \subseteq Element /\ Situation'
      /\ "TEACHER_NONE" \in truth => "TEACHER_NONE" \in truth'
  <2>1. CASE UNCHANGED truth
    BY <1>t, <2>1, SameSituation DEF IInv, Pictures
  <2>2. ASSUME NEW kind \in {Student, Vga}, NEW c \in kind, Becomes(kind, c)
        PROVE  /\ truth' \subseteq Element /\ Situation'
               /\ "TEACHER_NONE" \in truth => "TEACHER_NONE" \in truth'
    <3>1. kind \in Kind /\ "TEACHER_NONE" \notin kind BY <2>2 DEF Kind, Student, Vga
    <3>2. truth' \subseteq Element /\ Situation'
      BY <1>t, <2>2, <3>1, BecomesOneOfEach DEF IInv, Pictures
    <3>3. QED BY <2>2, <3>1, <3>2 DEF Becomes
  <2>3. QED BY <2>1, <2>2
<1>2. Numbers' BY <1>t DEF Numbers, OnlyConditions, teacherVars
<1>3. Flags' BY <1>t, Zenon DEF Flags, OnlyConditions, teacherVars
<1>4. Pictures' BY <1>t, <1>1 DEF Pictures, OnlyConditions
<1>5. NobodyYet' BY <1>1 DEF IInv, NobodyYet, OnlyConditions, teacherVars
<1>6. QED BY <1>1, <1>2, <1>3, <1>4, <1>5, TypeParts DEF IInv

(* An AUX event counts the absence of a standing student, or reports one.   *)
LEMMA AuxEventPreserves == IInv /\ AuxEvent => IInv'
<1> SUFFICES ASSUME IInv, AuxEvent PROVE IInv' OBVIOUS
<1>t. Numbers /\ Pictures BY TypeParts DEF IInv
<1>1. PICK s \in Student :
        IF s = "STUDENT_NONE"
        THEN /\ acc_student_lost' = Min2(acc_student_lost + 1, StudentLost + 1)
             /\ IF acc_student_lost' = StudentLost /\ acc_student_lost # StudentLost
                THEN Becomes(Student, "STUDENT_NONE") ELSE UNCHANGED truth
        ELSE acc_student_lost' = 0 /\ Becomes(Student, s)
  <2>1. scene.student \in Student BY <1>t DEF Pictures, Scene
  <2>2. QED BY <2>1 DEF AuxEvent
<1>2. acc_student_lost' \in 0 .. StudentLost + 1
  BY <1>1, <1>t, SwitchAssumption, CountUp DEF Numbers
<1>3. acc_of_unchange' \in 0 .. VGADuration + 1
  BY <1>t DEF AuxEvent, Numbers
<1>4. UNCHANGED truth \/ \E c \in Student : Becomes(Student, c)
  BY <1>1
<1>5. QED BY <1>2, <1>3, <1>4, ConditionPreserves DEF AuxEvent

(* A VGA event counts rest, or reports a change.                            *)
LEMMA VgaEventPreserves == IInv /\ VgaEvent => IInv'
<1> SUFFICES ASSUME IInv, VgaEvent PROVE IInv' OBVIOUS
<1>t. Numbers BY TypeParts DEF IInv
<1>1. \/ Becomes(Vga, "VGA_CHG") /\ acc_of_unchange' = 0
      \/ Becomes(Vga, "VGA_UNCHG") /\ acc_of_unchange' = VGADuration
      \/ /\ acc_of_unchange' = Min2(acc_of_unchange + 1, VGADuration + 1)
         /\ Becomes(Vga, "VGA_UNCHG") \/ UNCHANGED truth
  BY DEF VgaEvent
<1>2. acc_of_unchange' \in 0 .. VGADuration + 1
  BY <1>1, <1>t, SwitchAssumption, CountUp DEF Numbers
<1>3. acc_student_lost' \in 0 .. StudentLost + 1
  BY <1>t DEF VgaEvent, Numbers
<1>4. UNCHANGED truth \/ \E c \in Vga : Becomes(Vga, c)
  BY <1>1 DEF Vga
<1>5. QED BY <1>2, <1>3, <1>4, ConditionPreserves DEF VgaEvent

(* The state machine changes only the picture, its state and its time.      *)
LEMMA TransitionPreserves == IInv /\ Transition => IInv'
<1> SUFFICES ASSUME IInv, Transition PROVE IInv' OBVIOUS
<1>t. Numbers /\ Flags /\ Pictures BY TypeParts DEF IInv
<1>1. PICK state \in fsm_state_update : fsm' = state /\ Show(state) BY DEF Transition
<1>2. state \in FsmState BY <1>1, UpdateType
<1>3. /\ shown' \in [main : Single \cup {"none"}, pip : 0 .. 1]
      /\ overlay' \in Single \cup {"none"}
  BY <1>1, <1>2, ShowAgrees
<1>4. Numbers' BY <1>t, SwitchAssumption DEF Numbers, Transition, teacherVars
<1>5. Flags' BY <1>t, Zenon DEF Flags, Transition, teacherVars
<1>6. Pictures' BY <1>t, <1>1, <1>2, <1>3 DEF Pictures, Transition
<1>7. Situation' BY SameSituation DEF IInv, Transition
<1>8. NobodyYet' BY DEF IInv, NobodyYet, Transition, teacherVars
<1>9. QED BY <1>4, <1>5, <1>6, <1>7, <1>8, TypeParts DEF IInv

(* Nor does anything outside the thread touch the conditions.               *)
LEMMA OutsidePreserves ==
  IInv /\ (Tick \/ HolderFree \/ SceneChanges \/ UNCHANGED vars) => IInv'
<1> SUFFICES ASSUME IInv, Tick \/ HolderFree \/ SceneChanges \/ UNCHANGED vars PROVE IInv'
  OBVIOUS
<1>t. Numbers /\ Flags /\ Pictures BY TypeParts DEF IInv
<1> USE DEF teacherVars, history
<1>1. /\ UNCHANGED <<truth, fsm, mode, teacherVars, acc_student_lost, acc_of_unchange,
                     shown, overlay, history, orders>>
      /\ scene' = scene \/ scene' \in Scene
      /\ since' = since \/ (since < Interval /\ since' = since + 1)
      /\ changes' = changes \/ (changes < MaxScene /\ changes' = changes + 1)
      /\ free' = free \/ free' = TRUE
  BY Zenon DEF Tick, HolderFree, SceneChanges, vars
<1>2. Numbers' BY <1>t, <1>1, SwitchAssumption DEF Numbers
<1>3. Flags' BY <1>t, <1>1, Zenon DEF Flags
<1>4. Pictures' BY <1>t, <1>1 DEF Pictures
<1>5. Situation' BY <1>1, SameSituation DEF IInv
<1>6. NobodyYet' BY <1>1 DEF IInv, NobodyYet
<1>7. QED BY <1>2, <1>3, <1>4, <1>5, <1>6, TypeParts DEF IInv

-----------------------------------------------------------------------------
(* The theorems                                                             *)

(* Whatever events and orders come, the invariant holds.                    *)
THEOREM Invariance == Spec => []IInv
<1>1. IInv /\ [Next]_vars => IInv'
  BY OrdersPreserve, VidEventPreserves, AuxEventPreserves, VgaEventPreserves,
     TransitionPreserves, OutsidePreserves DEF Next, DropEvent
<1>2. QED BY InitIInv, <1>1, PTL DEF Spec

(* The variables of thread_SwitchTracking keep their types; its counters    *)
(* stay within the values the code compares them with.                      *)
THEOREM TypeCorrect == Spec => []TypeOK
<1>1. IInv => TypeOK BY DEF IInv
<1>2. QED BY <1>1, Invariance, PTL

(* The truth table always describes one situation, so the order in which    *)
(* fsm_state_update tries the combinations does not matter.                 *)
THEOREM OneSituation == Spec => []OneOfEach
<1>1. IInv => OneOfEach
  <2> SUFFICES ASSUME IInv, NEW kind \in {Vga, Teacher, Student, Board}
               PROVE  Cardinality(truth \cap kind) = 1
    BY DEF OneOfEach
  <2>1. PICK e \in kind : truth \cap kind = {e} BY DEF IInv, Situation, Kind
  <2>2. QED BY <2>1, FS_Singleton
<1>2. QED BY <1>1, Invariance, PTL

(* Within a recording the director believes in a teacher only if one was    *)
(* detected since Start.                                                    *)
THEOREM TeacherIsReal == Spec => []TeacherReal
<1>1. IInv => TeacherReal BY DEF IInv, NobodyYet, TeacherReal
<1>2. QED BY <1>1, Invariance, PTL

(* If the configured initial state is a single picture, the overlay is fed  *)
(* exactly when board A lays one over, throughout a recording.  (For a      *)
(* combined one Start sends no SWITCHCTRL command, and the picture of the   *)
(* recording before stays.)                                                 *)
THEOREM OverlayIsFed ==
  ASSUME InitialState \in Single
  PROVE  Spec => []OverlayFed
<1> DEFINE J == running => Agree
<1>1. Init => J BY DEF Init
<1>2. J /\ [Next]_vars => J'
  <2> SUFFICES ASSUME J, [Next]_vars PROVE J' OBVIOUS
  <2>1. CASE Start BY <2>1, SwitchAssumption, ShowAgrees DEF Start
  <2>2. CASE Stop BY <2>2 DEF Stop
  <2>3. CASE SwitchVideo
    <3>1. PICK state \in FsmState : Show(state) BY <2>3 DEF SwitchVideo
    <3>2. QED BY <3>1, ShowAgrees
  <2>4. CASE Transition
    <3>1. PICK state \in fsm_state_update : Show(state) BY <2>4 DEF Transition
    <3>2. QED BY <3>1, UpdateType, ShowAgrees
  <2>5. CASE UNCHANGED <<running, shown, overlay>> BY <2>5 DEF Agree
  <2>6. QED
    BY <2>1, <2>2, <2>3, <2>4, <2>5
    DEF Next, SetRecordMode, VidEvent, AuxEvent, VgaEvent, OnlyConditions, DropEvent,
        Tick, HolderFree, SceneChanges, history, vars
<1>3. J => OverlayFed BY DEF Agree, OverlayFed
<1>4. QED BY <1>1, <1>2, <1>3, PTL DEF Spec
=============================================================================
