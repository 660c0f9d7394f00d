------------------------------ MODULE Recorder ------------------------------
(***************************************************************************)
(* Recording: the instructor's commands (InstructorMsgHandle, in the main  *)
(* thread) and the thread that writes the files (thread_localsave).        *)
(*                                                                         *)
(* main keeps a status of its own and forwards the commands it accepts     *)
(* over the control fifo; thread_localsave takes one message and one audio *)
(* or video frame per turn of its loop and keeps a status per channel.     *)
(* The two never look at each other's status, so the writer depends on     *)
(* main for opening, pausing and closing its files in a legal order.       *)
(*                                                                         *)
(* A file is its FILE pointer, open or NULL.  The composed picture has     *)
(* three (.264, .aac and .pro); each resource channel (VGA, V1 to V6) has  *)
(* one.  File names, frame counters and sample times are left out.  The    *)
(* live stream's socket is the subject of module LiveStream; here it only  *)
(* matters that it blocks: thread_localsave stands still in send while the *)
(* streaming server does not read.                                         *)
(***************************************************************************)
EXTENDS Integers, Sequences

CONSTANTS
  Resource,       \* the resource channels
  IsResouceMode,  \* g_cfg.IsResouceMode, read once from the configuration
  FopenFails,     \* TRUE: fopen may fail
  MaxCtrl,        \* bound: messages in the control fifo
  MaxAv           \* bound: frames in the audio and video fifo

Channel == {"store", "live"} \cup Resource
StoreFile == {"video", "audio", "property"}
File == StoreFile \cup Resource
Stream == Channel \cup {"audio"}

\* The file a stream's frames go to; the live stream has none.
FileOf(s) == IF s = "store" THEN "video" ELSE s

ASSUME RecorderAssumption ==
  /\ Resource \cap {"store", "live", "video", "audio", "property"} = {}
  /\ IsResouceMode \in BOOLEAN
  /\ FopenFails \in BOOLEAN
  /\ MaxCtrl \in Nat
  /\ MaxAv \in Nat

VARIABLES
  status,    \* instructor_thread_param.status
  ctrl,      \* Ctrl_consumer_fifo_localsave
  av,        \* V_consumer_fifo
  pc,        \* where thread_localsave is in its loop
  chan,      \* Vstore_status, Vlive_status, VGA_status, V1_status ...
  isopen,    \* the FILE pointers that are not NULL
  mark,      \* the last line of the .pro file
  whole,     \* files that hold the frame just before the next one
  full,      \* p_localsave->sock takes no more bytes: the next send blocks
  crashed    \* a stdio call was given a NULL FILE pointer

saveVars == <<pc, chan, isopen, mark, whole, full, crashed>>
vars == <<status, ctrl, av, saveVars>>

ChanStatus == {"IDLE", "START", "RESUME", "WORKING", "PAUSE", "STOP"}
Frame == [stream : Stream, key : BOOLEAN]

Init ==
  /\ status = "IDLE"
  /\ ctrl = <<>>
  /\ av = <<>>
  /\ pc = "ctrl"
  /\ chan = [c \in Channel |-> "IDLE"]
  /\ isopen = {}
  /\ mark = "none"
  /\ whole = {}
  /\ full = FALSE
  /\ crashed = FALSE

-----------------------------------------------------------------------------
(* InstructorMsgHandle.  No other thread reads status, and the control fifo *)
(* keeps the order of the messages, so a command is one step.               *)

Forward(msgs) ==
  /\ Len(ctrl) + Len(msgs) <= MaxCtrl
  /\ ctrl' = ctrl \o msgs

\* Mutant of Start: a recording already running is not looked at.
StartAlways ==
  /\ Forward(<<"other", "other", "other", "All">>)
  /\ status' = "WORKING"
  /\ UNCHANGED <<av, saveVars>>

\* SET_LED, INTERNAL Start and CONFIG mean nothing to the recorder.
Start ==
  /\ status = "IDLE"
  /\ Forward(<<"other", "other", "other", "All">>)
  /\ status' = "WORKING"
  /\ UNCHANGED <<av, saveVars>>

\* SET_LED, INTERNAL Stop, GETDATA None.
Stop ==
  /\ status = "WORKING"
  /\ Forward(<<"other", "other", "None">>)
  /\ status' = "IDLE"
  /\ UNCHANGED <<av, saveVars>>

\* Mutant of Pause: accepted when nothing is recorded.
PauseAlways ==
  /\ Forward(<<"Pause">>)
  /\ UNCHANGED <<status, av, saveVars>>

Pause ==
  /\ status = "WORKING"
  /\ Forward(<<"Pause">>)
  /\ UNCHANGED <<status, av, saveVars>>

Resume ==
  /\ status = "WORKING"
  /\ Forward(<<"Resume">>)
  /\ UNCHANGED <<status, av, saveVars>>

\* SwitchVideo, SetRecordMode, CamZoom, CamPanTilt, CamMemoryInq and
\* CamMemorySave are forwarded whatever the status.
OtherCommand ==
  /\ Forward(<<"other">>)
  /\ UNCHANGED <<status, av, saveVars>>

\* A board delivers a frame of a stream; key: an I or IDR frame, or the
\* first of its stream.
Arrive(f) ==
  /\ Len(av) < MaxAv
  /\ av' = Append(av, f)
  /\ UNCHANGED <<status, ctrl, saveVars>>

\* The streaming server reads what waits on its connection, or closes it.
ServerReads ==
  /\ full
  /\ full' = FALSE
  /\ UNCHANGED <<status, ctrl, av, pc, chan, isopen, mark, whole, crashed>>

-----------------------------------------------------------------------------
(* thread_localsave *)

\* The channels a message is for.
Addressed == {"store", "live"} \cup (IF IsResouceMode THEN Resource ELSE {})

SetAll(s) == chan' = [c \in Channel |-> IF c \in Addressed THEN s ELSE chan[c]]

Crash == crashed' = TRUE

\* Mutant of OnResume: frames are written again at once.
OnResumeAtOnce == SetAll("WORKING") /\ UNCHANGED <<mark, crashed>>

OnResume == SetAll("RESUME") /\ UNCHANGED <<mark, crashed>>

\* The .pro file gets a PAUSE line.
OnPause ==
  /\ SetAll("PAUSE")
  /\ \/ "property" \in isopen /\ mark' = "PAUSE" /\ UNCHANGED crashed
     \/ "property" \notin isopen /\ Crash /\ UNCHANGED mark

\* One message of the control fifo.
TakeCtrl ==
  /\ pc = "ctrl"
  /\ pc' = "start"
  /\ \/ /\ ctrl = <<>>
        /\ UNCHANGED <<ctrl, chan, mark, crashed>>
     \/ /\ ctrl # <<>>
        /\ ctrl' = Tail(ctrl)
        /\ \/ Head(ctrl) = "other" /\ UNCHANGED <<chan, mark, crashed>>
           \/ Head(ctrl) = "All" /\ SetAll("START") /\ UNCHANGED <<mark, crashed>>
           \/ Head(ctrl) = "None" /\ SetAll("STOP") /\ UNCHANGED <<mark, crashed>>
           \/ Head(ctrl) = "Pause" /\ OnPause
           \/ Head(ctrl) = "Resume" /\ OnResume
  /\ UNCHANGED <<status, av, isopen, whole, full>>

\* The files a channel writes to.
Files(c) == IF c = "store" THEN StoreFile ELSE {c} \cap Resource

In(s) == {c \in Channel : chan[c] = s}

\* Start requests: the files are opened (an error is only reported) and the
\* channel waits for a key frame.
HandleStart ==
  /\ pc = "start"
  /\ LET wanted == UNION {Files(c) : c \in In("START")} IN
       /\ \E got \in IF FopenFails THEN SUBSET wanted ELSE {wanted} :
            isopen' = (isopen \ wanted) \cup got
       /\ whole' = whole \ wanted
       /\ mark' = IF "property" \in wanted THEN "none" ELSE mark
  /\ chan' = [c \in Channel |-> IF chan[c] = "START" THEN "RESUME" ELSE chan[c]]
  /\ pc' = "stop"
  /\ UNCHANGED <<status, ctrl, av, full, crashed>>

\* Mutant of HandleStop: resource channels keep their files open.
HandleStopStoreOnly ==
  /\ pc = "stop"
  /\ LET wanted == UNION {Files(c) : c \in In("STOP")} IN
       /\ isopen' = isopen \ (wanted \cap StoreFile)
       /\ crashed' = (crashed \/ ~(wanted \subseteq isopen))
       /\ mark' = IF "property" \in wanted THEN "STOP" ELSE mark
  /\ chan' = [c \in Channel |-> IF chan[c] = "STOP" THEN "IDLE" ELSE chan[c]]
  /\ pc' = "frame"
  /\ UNCHANGED <<status, ctrl, av, whole, full>>

\* Stop requests: the files are closed without looking whether they are open,
\* and a thread that converts them is started.
HandleStop ==
  /\ pc = "stop"
  /\ LET wanted == UNION {Files(c) : c \in In("STOP")} IN
       /\ isopen' = isopen \ wanted
       /\ crashed' = (crashed \/ ~(wanted \subseteq isopen))
       /\ mark' = IF "property" \in wanted THEN "STOP" ELSE mark
  /\ chan' = [c \in Channel |-> IF chan[c] = "STOP" THEN "IDLE" ELSE chan[c]]
  /\ pc' = "frame"
  /\ UNCHANGED <<status, ctrl, av, whole, full>>

\* A waiting channel begins to write with a key frame.
Begins(f) == f.stream \in Channel /\ chan[f.stream] = "RESUME" /\ f.key

\* Audio follows the composed picture.
Written(f) ==
  IF f.stream = "audio" THEN chan["store"] = "WORKING"
                        ELSE Begins(f) \/ chan[f.stream] = "WORKING"

\* Mutant of MarkResume: the .pro file is not told.
MarkResumeForgotten(f) == UNCHANGED mark

\* The .pro file gets a RESUME line when the composed picture begins.
MarkResume(f) ==
  mark' = IF f.stream = "store" /\ Begins(f) THEN "RESUME" ELSE mark

\* The files one frame is written to.
Target(f) ==
  {x \in {FileOf(f.stream)} \cap File : Written(f)}
    \cup (IF f.stream = "store" /\ Begins(f) THEN {"property"} ELSE {})

\* The frames that also go to the streaming server: the live picture's, the
\* audio that belongs to it, and those of the boards' pictures.  (Only the
\* pictures g_forward_table names are forwarded; here it names them all.)
Streamed(f) ==
  IF f.stream = "audio" THEN chan["live"] = "WORKING"
                        ELSE f.stream # "store" /\ Written(f)

\* A blocking send returns when there is room for the frame, and may leave
\* none for the next.
Send(f) ==
  /\ Streamed(f) => ~full
  /\ full' \in {full, Streamed(f)}

\* One frame of the audio and video fifo.
HandleFrame ==
  /\ pc = "frame"
  /\ pc' = "ctrl"
  /\ \/ av = <<>> /\ UNCHANGED <<av, chan, mark, whole, full, crashed>>
     \/ /\ av # <<>>
        /\ LET f == Head(av) IN
             /\ Send(f)
             /\ chan' = IF Begins(f) THEN [chan EXCEPT ![f.stream] = "WORKING"]
                                     ELSE chan
             /\ MarkResume(f)
             /\ whole' = IF Written(f) THEN whole \cup ({FileOf(f.stream)} \cap File)
                                       ELSE whole \ {FileOf(f.stream)}
             /\ crashed' = (crashed \/ ~(Target(f) \subseteq isopen))
        /\ av' = Tail(av)
  /\ UNCHANGED <<status, ctrl, isopen>>

-----------------------------------------------------------------------------
Instructor == Start \/ Stop \/ Pause \/ Resume \/ OtherCommand
LocalSave == TakeCtrl \/ HandleStart \/ HandleStop \/ HandleFrame

Next ==
  /\ ~crashed
  /\ Instructor \/ (\E f \in Frame : Arrive(f)) \/ ServerReads \/ LocalSave

Spec == Init /\ [][Next]_vars

\* The loop of thread_localsave goes on unless a send blocks.  Nothing is
\* assumed of the streaming server: it may stop reading for ever.
FairSpec == Spec /\ WF_vars(~crashed /\ LocalSave)

-----------------------------------------------------------------------------
(* Properties *)

\* The two statuses, the fifos and the files keep their types.
TypeOK ==
  /\ status \in {"IDLE", "WORKING"}
  /\ ctrl \in Seq({"other", "All", "None", "Pause", "Resume"})
  /\ av \in Seq(Frame)
  /\ pc \in {"ctrl", "start", "stop", "frame"}
  /\ chan \in [Channel -> ChanStatus]
  /\ isopen \subseteq File
  /\ mark \in {"none", "RESUME", "PAUSE", "STOP"}
  /\ whole \subseteq File
  /\ full \in BOOLEAN
  /\ crashed \in BOOLEAN

\* Whatever the instructor sends, and however far the writer lags behind,
\* nothing is written to or closed through a NULL FILE pointer.
NoCrash == ~crashed

\* A file is never opened over one that is still open, which would leave the
\* earlier recording unclosed and unconverted.
NoReopen == [][pc = "start" => (UNION {Files(c) : c \in In("START")}) \cap isopen = {}]_vars

\* What a video file holds can be decoded: a frame that is not a key frame is
\* only written behind the frame it refers to.
Decodable ==
  [][\A c \in Channel \ {"live"} :
       (pc = "frame" /\ av # <<>> /\ av' = Tail(av) /\ Head(av).stream = c
         /\ chan'[c] = "WORKING" /\ ~Head(av).key)
       => FileOf(c) \in whole]_vars

\* Frames of the composed picture are only written behind a RESUME line of
\* the .pro file, from which the recording is cut later.
Marked == chan["store"] = "WORKING" => mark = "RESUME"

\* thread_localsave stands still in send, in the middle of a frame.
Blocked == pc = "frame" /\ av # <<>> /\ Streamed(Head(av)) /\ full

\* Once the instructor has stopped the recording, every file gets closed,
\* unless a new recording is started, however often the streaming server
\* keeps the writer waiting.  Only a server that never reads again keeps the
\* files open: the stop request waits behind the frame that cannot be sent.
FilesClosed ==
  []<>~Blocked => ((status = "IDLE") ~> (isopen = {} \/ status = "WORKING"))
=============================================================================
