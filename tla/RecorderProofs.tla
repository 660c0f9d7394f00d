--------------------------- MODULE RecorderProofs ---------------------------
(***************************************************************************)
(* Theorems about thread_localsave.  About its files (Recorder): for any   *)
(* resource channels, any lengths of the two fifos and any frames, with    *)
(* and without resource mode.  About its connection to the streaming       *)
(* server (LiveStream, in the last sections; the two share no state): for  *)
(* any number of connections.                                              *)
(***************************************************************************)
EXTENDS Recorder, LiveStream, TLAPS, SequenceTheorems

-----------------------------------------------------------------------------
(* The inductive invariant *)

MsgType == {"other", "All", "None", "Pause", "Resume"}
Recording == {"IDLE", "WORKING"}

\* What a message asks of whoever obeys it, and what it makes of him.
Legal(m, before, after) ==
  CASE m = "All" -> before = "IDLE" /\ after = "WORKING"
    [] m = "None" -> before = "WORKING" /\ after = "IDLE"
    [] m \in {"Pause", "Resume"} -> before = "WORKING" /\ after = "WORKING"
    [] OTHER -> after = before

\* thread_localsave's own idea of the status, which main never sees.
SaveStatus == IF chan["store"] \in {"IDLE", "STOP"} THEN "IDLE" ELSE "WORKING"

\* The messages under way lead from the writer's status to main's by legal
\* steps: h[i] is the status the writer will have before the i-th of them.
\* This is what main's status stands for, however far the writer lags.
Leads(h, msgs, from, to) ==
  /\ h \in [1 .. Len(msgs) + 1 -> Recording]
  /\ h[1] = from
  /\ h[Len(msgs) + 1] = to
  /\ \A i \in 1 .. Len(msgs) : Legal(msgs[i], h[i], h[i + 1])

CtrlLegal == \E h : Leads(h, ctrl, SaveStatus, status)

\* A channel waiting for a key frame and one that writes count as the same.
Phase(s) == IF s = "WORKING" THEN "RESUME" ELSE s

\* The channels a message is for are in the same phase; the others idle.
Together ==
  \A c \in Channel : IF c \in Addressed THEN Phase(chan[c]) = Phase(chan["store"])
                                        ELSE chan[c] = "IDLE"

\* Requests are carried out in the turn of the loop that takes them.
Prompt ==
  /\ chan["store"] = "START" => pc = "start"
  /\ chan["store"] = "STOP" => pc \in {"start", "stop"}

\* The channel a file belongs to.
Owner(x) == IF x \in StoreFile THEN "store" ELSE x
Busy == {"RESUME", "WORKING", "PAUSE", "STOP"}

\* The open files are those of the channels in use, unless fopen failed.
FilesMatch ==
  \A x \in File :
    /\ x \in isopen => chan[Owner(x)] \in Busy
    /\ ~FopenFails /\ chan[Owner(x)] \in Busy => x \in isopen

\* A channel that writes has just written the frame before the next one.
Unbroken ==
  \A c \in Channel \ {"live"} : chan[c] = "WORKING" => FileOf(c) \in whole

\* No stream that may be NULL is used.
Safe == ~FopenFails => ~crashed

IInv ==
  /\ TypeOK
  /\ CtrlLegal
  /\ Together
  /\ Prompt
  /\ FilesMatch
  /\ Marked
  /\ Unbroken
  /\ Safe

-----------------------------------------------------------------------------
(* Facts about channels and files *)

\* A file belongs to one channel.
LEMMA FilesOwned ==
  /\ \A c \in Channel : Files(c) = {x \in File : Owner(x) = c}
  /\ \A x \in File : Owner(x) \in Channel
BY RecorderAssumption DEF Files, File, StoreFile, Owner, Channel

\* The files of several channels.
LEMMA FilesOf ==
  ASSUME NEW S \in SUBSET Channel
  PROVE  UNION {Files(c) : c \in S} = {x \in File : Owner(x) \in S}
BY FilesOwned

\* The file of a channel's frames is one of its own; the live stream has none.
LEMMA FrameFile ==
  /\ \A c \in Channel \ {"live"} : FileOf(c) \in File /\ Owner(FileOf(c)) = c
  /\ FileOf("audio") \in File /\ Owner(FileOf("audio")) = "store"
  /\ FileOf("live") \notin File
  /\ \A c, d \in Channel : FileOf(c) = FileOf(d) => c = d
  /\ \A c \in Channel : FileOf(c) # FileOf("audio")
BY RecorderAssumption DEF FileOf, File, StoreFile, Owner, Channel

\* The three of the composed picture's.
LEMMA StoreChannel ==
  /\ "store" \in Channel /\ "store" \in Addressed /\ Addressed \subseteq Channel
  /\ "property" \in File /\ Owner("property") = "store"
BY DEF Channel, Addressed, File, StoreFile, Owner

\* The channels are never in the middle of a request when a message is taken.
LEMMA SetAllEffect ==
  ASSUME TypeOK, Together, NEW s \in ChanStatus, SetAll(s)
  PROVE  /\ chan' \in [Channel -> ChanStatus]
         /\ Together' /\ chan'["store"] = s
         /\ \A c \in Channel : chan'[c] = IF c \in Addressed THEN s ELSE "IDLE"
<1>1. chan' = [c \in Channel |-> IF c \in Addressed THEN s ELSE chan[c]]
  BY DEF SetAll
<1>2. \A c \in Channel : c \notin Addressed => chan[c] = "IDLE" BY DEF Together
<1>3. \A c \in Channel : chan'[c] = IF c \in Addressed THEN s ELSE "IDLE" BY <1>1, <1>2
<1>4. chan' \in [Channel -> ChanStatus] BY <1>1, <1>2 DEF ChanStatus
<1>5. QED BY <1>3, <1>4, StoreChannel DEF Together, Addressed

-----------------------------------------------------------------------------
(* Facts about the messages under way *)

\* Messages that lead on from where others lead to.
LEMMA LeadsOn ==
  ASSUME NEW s \in Seq(MsgType), NEW t \in Seq(MsgType), NEW a, NEW b, NEW c,
         NEW h, NEW k, Leads(h, s, a, b), Leads(k, t, b, c)
  PROVE  \E g : Leads(g, s \o t, a, c)
<1> DEFINE n == Len(s)
<1> DEFINE m == Len(t)
<1> DEFINE g == [i \in 1 .. n + m + 1 |-> IF i <= n THEN h[i] ELSE k[i - n]]
<1>1. n \in Nat /\ m \in Nat /\ Len(s \o t) = n + m OBVIOUS
<1>2. g \in [1 .. n + m + 1 -> Recording] BY <1>1 DEF Leads
<1>3. h[n + 1] = k[1] /\ \A i \in 1 .. n + 1 : g[i] = h[i] BY <1>1 DEF Leads
<1>4. \A i \in 1 .. m + 1 : g[n + i] = k[i] BY <1>1 DEF Leads
<1>5. g[1] = a /\ g[n + m + 1] = c
  <2>1. h[1] = a /\ k[m + 1] = c BY DEF Leads
  <2>2. g[n + (m + 1)] = k[m + 1] BY <1>1, <1>4
  <2>3. QED BY <1>1, <1>3, <2>1, <2>2
<1>6. ASSUME NEW i \in 1 .. n + m PROVE Legal((s \o t)[i], g[i], g[i + 1])
  <2>1. CASE i \in 1 .. n
    <3>1. Legal(s[i], h[i], h[i + 1]) BY <2>1 DEF Leads
    <3>2. (s \o t)[i] = s[i] /\ g[i] = h[i] /\ g[i + 1] = h[i + 1] BY <1>1, <1>3, <2>1
    <3>3. QED BY <3>1, <3>2
  <2>2. CASE i - n \in 1 .. m
    <3>1. Legal(t[i - n], k[i - n], k[i - n + 1]) BY <2>2 DEF Leads
    <3>2. (s \o t)[i] = t[i - n] BY <1>1, <2>2
    <3>3. g[n + (i - n)] = k[i - n] /\ g[n + (i - n + 1)] = k[i - n + 1]
      BY <1>1, <1>4, <2>2
    <3>4. n + (i - n) = i /\ n + (i - n + 1) = i + 1 BY <1>1
    <3>5. QED BY <3>1, <3>2, <3>3, <3>4
  <2>3. QED BY <1>1, <1>6, <2>1, <2>2
<1>7. Leads(g, s \o t, a, c)
  <2> HIDE DEF g, n, m
  <2>1. Len(s \o t) + 1 = n + m + 1 /\ 1 .. Len(s \o t) = 1 .. n + m BY <1>1
  <2>2. QED BY <1>2, <1>5, <1>6, <2>1 DEF Leads
<1>8. QED BY <1>7

\* Main adds messages that lead from its status to its next one.
LEMMA ForwardLegal ==
  ASSUME ctrl \in Seq(MsgType), CtrlLegal, NEW msgs \in Seq(MsgType), Forward(msgs),
         SaveStatus' = SaveStatus, \E k : Leads(k, msgs, status, status')
  PROVE  ctrl' \in Seq(MsgType) /\ CtrlLegal'
<1>1. PICK h : Leads(h, ctrl, SaveStatus, status) BY DEF CtrlLegal
<1>2. PICK k : Leads(k, msgs, status, status') OBVIOUS
<1>3. \E g : Leads(g, ctrl \o msgs, SaveStatus, status') BY <1>1, <1>2, LeadsOn
<1>4. QED BY <1>3 DEF CtrlLegal, Forward

\* The writer takes the first.
LEMMA TakeOne ==
  ASSUME ctrl \in Seq(MsgType), CtrlLegal, ctrl # <<>>, ctrl' = Tail(ctrl),
         status' = status,
         \A after \in Recording : Legal(Head(ctrl), SaveStatus, after) => SaveStatus' = after
  PROVE  CtrlLegal'
<1>1. PICK h : Leads(h, ctrl, SaveStatus, status) BY DEF CtrlLegal
<1> DEFINE n == Len(ctrl)
<1> DEFINE g == [i \in 1 .. n |-> h[i + 1]]
<1>2. n \in Nat \ {0} /\ Len(ctrl') = n - 1 /\ \A i \in 1 .. n - 1 : ctrl'[i] = ctrl[i + 1]
  OBVIOUS
<1>3. g \in [1 .. n -> Recording] BY <1>1, <1>2 DEF Leads
<1>4. Legal(Head(ctrl), SaveStatus, h[2]) /\ h[2] \in Recording
  <2>1. Legal(ctrl[1], h[1], h[1 + 1]) BY <1>1, <1>2 DEF Leads
  <2>2. ctrl[1] = Head(ctrl) /\ h[1] = SaveStatus /\ 1 + 1 = 2 /\ 2 \in 1 .. n + 1
    BY <1>1, <1>2 DEF Leads
  <2>3. QED BY <1>1, <2>1, <2>2 DEF Leads
<1>5. g[1] = SaveStatus' /\ g[n] = status' BY <1>1, <1>2, <1>4 DEF Leads
<1>6. ASSUME NEW i \in 1 .. n - 1 PROVE Legal(ctrl'[i], g[i], g[i + 1])
  <2>1. Legal(ctrl[i + 1], h[i + 1], h[i + 1 + 1]) BY <1>1, <1>2 DEF Leads
  <2>2. g[i] = h[i + 1] /\ g[i + 1] = h[i + 1 + 1] BY <1>2
  <2>3. QED BY <1>2, <2>1, <2>2
<1>7. Leads(g, ctrl', SaveStatus', status')
  <2>1. Len(ctrl') + 1 = n /\ 1 .. Len(ctrl') = 1 .. n - 1 BY <1>2
  <2> HIDE DEF g, n
  <2>2. QED BY <1>3, <1>5, <1>6, <2>1 DEF Leads
<1>8. QED BY <1>7 DEF CtrlLegal

\* What the first message finds: the writer's status before it is legal.
LEMMA HeadLegal ==
  ASSUME ctrl \in Seq(MsgType), CtrlLegal, ctrl # <<>>
  PROVE  /\ Head(ctrl) \in MsgType
         /\ \E after \in Recording : Legal(Head(ctrl), SaveStatus, after)
<1>1. PICK h : Leads(h, ctrl, SaveStatus, status) BY DEF CtrlLegal
<1>2. Len(ctrl) \in Nat \ {0} /\ ctrl[1] = Head(ctrl) /\ Head(ctrl) \in MsgType OBVIOUS
<1>3. Legal(ctrl[1], h[1], h[1 + 1]) BY <1>1, <1>2 DEF Leads
<1>4. h[1 + 1] \in Recording /\ h[1] = SaveStatus BY <1>1, <1>2 DEF Leads
<1>5. QED BY <1>2, <1>3, <1>4

-----------------------------------------------------------------------------
(* The steps preserve the invariant *)

\* Nothing is recorded when the program starts.
LEMMA InitIInv == Init => IInv
<1> SUFFICES ASSUME Init PROVE IInv OBVIOUS
<1> USE DEF Init
<1>1. TypeOK
  <2>1. chan \in [Channel -> ChanStatus] BY DEF ChanStatus
  <2>2. ctrl \in Seq({"other", "All", "None", "Pause", "Resume"}) /\ av \in Seq(Frame)
    OBVIOUS
  <2>3. crashed \in BOOLEAN OBVIOUS
  <2>4. QED BY <2>1, <2>2, <2>3 DEF TypeOK
<1>2. CtrlLegal
  <2> DEFINE h == [i \in 1 .. 1 |-> "IDLE"]
  <2>1. Len(ctrl) = 0 /\ SaveStatus = "IDLE" BY StoreChannel DEF SaveStatus
  <2>2. Leads(h, ctrl, SaveStatus, status) BY <2>1 DEF Leads, Recording
  <2>3. QED BY <2>2 DEF CtrlLegal
<1>3. Together /\ Prompt /\ FilesMatch /\ Marked /\ Unbroken /\ Safe
  BY StoreChannel, FilesOwned
  DEF Together, Prompt, FilesMatch, Marked, Unbroken, Safe, Busy
<1>4. QED BY <1>1, <1>2, <1>3 DEF IInv

\* A command of the instructor: main accepts those its status allows, so what
\* it forwards is legal behind what is under way.
LEMMA InstructorPreserves == IInv /\ Instructor => IInv'
<1> SUFFICES ASSUME IInv, Instructor PROVE IInv' OBVIOUS
<1> USE DEF saveVars
<1>t. ctrl \in Seq(MsgType) /\ CtrlLegal /\ status \in Recording
  BY DEF IInv, TypeOK, MsgType, Recording
<1>1. UNCHANGED <<av, pc, chan, isopen, mark, whole, full, crashed>> /\ SaveStatus' = SaveStatus
  BY DEF Instructor, Start, Stop, Pause, Resume, OtherCommand, SaveStatus
\* Only the messages under way need a proof.
<1>2. ASSUME status' \in Recording, NEW msgs \in Seq(MsgType), Forward(msgs),
             NEW k, Leads(k, msgs, status, status')
      PROVE  IInv'
  <2>1. ctrl' \in Seq(MsgType) /\ CtrlLegal' BY <1>t, <1>1, <1>2, ForwardLegal
  <2>2. TypeOK' BY <1>1, <1>2, <2>1 DEF IInv, TypeOK, MsgType, Recording
  <2>3. Together' /\ Prompt' /\ FilesMatch' /\ Marked' /\ Unbroken' /\ Safe'
    BY <1>1 DEF IInv, Together, Prompt, FilesMatch, Marked, Unbroken, Safe
  <2>4. QED BY <2>1, <2>2, <2>3 DEF IInv
<1>3. CASE Start
  <2> DEFINE k == [i \in 1 .. 5 |-> IF i = 5 THEN "WORKING" ELSE "IDLE"]
  <2> DEFINE msgs == <<"other", "other", "other", "All">>
  <2>1. msgs \in Seq(MsgType) /\ Len(msgs) = 4 BY DEF MsgType
  <2>2. status = "IDLE" /\ status' = "WORKING" /\ Forward(msgs) BY <1>3 DEF Start
  <2>3. \A i \in 1 .. 4 : Legal(msgs[i], k[i], k[i + 1]) BY DEF Legal
  <2>4. Leads(k, msgs, status, status') BY <2>1, <2>2, <2>3 DEF Leads, Recording
  <2>5. QED BY <1>2, <2>1, <2>2, <2>4 DEF Recording
<1>4. CASE Stop
  <2> DEFINE k == [i \in 1 .. 4 |-> IF i = 4 THEN "IDLE" ELSE "WORKING"]
  <2> DEFINE msgs == <<"other", "other", "None">>
  <2>1. msgs \in Seq(MsgType) /\ Len(msgs) = 3 BY DEF MsgType
  <2>2. status = "WORKING" /\ status' = "IDLE" /\ Forward(msgs) BY <1>4 DEF Stop
  <2>3. \A i \in 1 .. 3 : Legal(msgs[i], k[i], k[i + 1]) BY DEF Legal
  <2>4. Leads(k, msgs, status, status') BY <2>1, <2>2, <2>3 DEF Leads, Recording
  <2>5. QED BY <1>2, <2>1, <2>2, <2>4 DEF Recording
<1>5. ASSUME NEW m \in {"Pause", "Resume", "other"}, Forward(<<m>>), UNCHANGED status,
             m # "other" => status = "WORKING"
      PROVE  IInv'
  <2> DEFINE k == [i \in 1 .. 2 |-> status]
  <2>1. <<m>> \in Seq(MsgType) /\ Len(<<m>>) = 1 /\ <<m>>[1] = m BY <1>5 DEF MsgType
  <2>2. Legal(m, status, status) BY <1>5 DEF Legal
  <2>3. Leads(k, <<m>>, status, status') BY <1>t, <1>5, <2>1, <2>2 DEF Leads
  <2>4. QED BY <1>2, <1>5, <1>t, <2>1, <2>3
<1>6. QED BY <1>3, <1>4, <1>5 DEF Instructor, Pause, Resume, OtherCommand

\* A frame that arrives changes nothing but its fifo.
LEMMA ArrivePreserves == \A f \in Frame : IInv /\ Arrive(f) => IInv'
<1> SUFFICES ASSUME NEW f \in Frame, IInv, Arrive(f) PROVE IInv' OBVIOUS
<1>1. UNCHANGED <<status, ctrl, pc, chan, isopen, mark, whole, full, crashed>>
  BY DEF Arrive, saveVars
<1>2. av' \in Seq(Frame) BY DEF IInv, TypeOK, Arrive
<1>3. TypeOK' BY <1>1, <1>2 DEF IInv, TypeOK
<1>4. CtrlLegal' BY <1>1 DEF IInv, CtrlLegal, SaveStatus
<1>5. Together' /\ Prompt' /\ FilesMatch' /\ Marked' /\ Unbroken' /\ Safe'
  BY <1>1 DEF IInv, Together, Prompt, FilesMatch, Marked, Unbroken, Safe
<1>6. QED BY <1>3, <1>4, <1>5 DEF IInv

\* Nor does the streaming server's reading touch the files.
LEMMA ServerReadsPreserves == IInv /\ ServerReads => IInv'
<1> SUFFICES ASSUME IInv, ServerReads PROVE IInv' OBVIOUS
<1>1. full' = FALSE /\ UNCHANGED <<status, ctrl, av, pc, chan, isopen, mark, whole, crashed>>
  BY DEF ServerReads
<1>2. TypeOK' BY <1>1 DEF IInv, TypeOK
<1>3. CtrlLegal' BY <1>1 DEF IInv, CtrlLegal, SaveStatus
<1>4. Together' /\ Prompt' /\ FilesMatch' /\ Marked' /\ Unbroken' /\ Safe'
  BY <1>1 DEF IInv, Together, Prompt, FilesMatch, Marked, Unbroken, Safe
<1>5. QED BY <1>2, <1>3, <1>4 DEF IInv

\* A message for a writer that records finds the files of the channels in use
\* open, and leaves them so.
LEMMA WorkingMessage ==
  ASSUME IInv, pc = "ctrl", SaveStatus = "WORKING", UNCHANGED isopen,
         NEW s \in {"STOP", "PAUSE", "RESUME"}, SetAll(s)
  PROVE  /\ FilesMatch'
         /\ ~FopenFails => "property" \in isopen
         /\ Unbroken'
<1>1. chan["store"] \in {"RESUME", "WORKING", "PAUSE"}
  BY StoreChannel DEF IInv, TypeOK, ChanStatus, SaveStatus, Prompt
<1>2. \A c \in Channel : chan[c] \in Busy <=> c \in Addressed
  BY <1>1 DEF IInv, TypeOK, ChanStatus, Together, Phase, Busy
<1>3. \A c \in Channel : chan'[c] = IF c \in Addressed THEN s ELSE "IDLE"
  BY SetAllEffect DEF IInv, ChanStatus
<1>4. \A c \in Channel : chan'[c] \in Busy <=> c \in Addressed BY <1>3 DEF Busy
<1>5. FilesMatch' BY <1>2, <1>4, FilesOwned DEF IInv, FilesMatch
<1>6. ~FopenFails => "property" \in isopen
  BY <1>2, StoreChannel DEF IInv, FilesMatch
<1>7. Unbroken' BY <1>3 DEF Unbroken
<1>8. QED BY <1>5, <1>6, <1>7

\* The writer takes a message.
LEMMA TakeCtrlPreserves == IInv /\ ~crashed /\ TakeCtrl => IInv'
<1> SUFFICES ASSUME IInv, ~crashed, TakeCtrl PROVE IInv' OBVIOUS
<1>t. ctrl \in Seq(MsgType) /\ CtrlLegal BY DEF IInv, TypeOK, MsgType
<1>1. /\ pc = "ctrl" /\ pc' = "start"
      /\ UNCHANGED <<status, av, isopen, whole, full>>
  BY DEF TakeCtrl
<1>2. chan["store"] \notin {"START", "STOP"} BY <1>1 DEF IInv, Prompt
<1>3. CASE ctrl = <<>> /\ UNCHANGED <<ctrl, chan, mark, crashed>>
  <2>1. TypeOK' BY <1>1, <1>3 DEF IInv, TypeOK
  <2>2. CtrlLegal' BY <1>1, <1>3 DEF IInv, CtrlLegal, SaveStatus
  <2>3. Together' /\ Prompt' /\ FilesMatch' /\ Marked' /\ Unbroken' /\ Safe'
    BY <1>1, <1>2, <1>3 DEF IInv, Together, Prompt, FilesMatch, Marked, Unbroken, Safe
  <2>4. QED BY <2>1, <2>2, <2>3 DEF IInv
<1>4. CASE ctrl # <<>> /\ ctrl' = Tail(ctrl)
  <2>1. ctrl' \in Seq(MsgType) BY <1>t, <1>4
  <2>2. /\ Head(ctrl) \in MsgType
        /\ \E after \in Recording : Legal(Head(ctrl), SaveStatus, after)
    BY <1>t, <1>4, HeadLegal
  <2>3. CASE Head(ctrl) = "other" /\ UNCHANGED <<chan, mark, crashed>>
    <3>1. SaveStatus' = SaveStatus BY <2>3 DEF SaveStatus
    <3>2. CtrlLegal' BY <1>t, <1>1, <1>4, <2>3, <3>1, TakeOne DEF Legal
    <3>3. TypeOK' BY <1>1, <2>1, <2>3 DEF IInv, TypeOK, MsgType
    <3>4. Together' /\ Prompt' /\ FilesMatch' /\ Marked' /\ Unbroken' /\ Safe'
      BY <1>1, <1>2, <2>3 DEF IInv, Together, Prompt, FilesMatch, Marked, Unbroken, Safe
    <3>5. QED BY <3>2, <3>3, <3>4 DEF IInv
  <2>4. CASE Head(ctrl) = "All" /\ SetAll("START") /\ UNCHANGED <<mark, crashed>>
    <3>1. SaveStatus = "IDLE" BY <2>2, <2>4 DEF Legal
    <3>2. chan["store"] = "IDLE" BY <1>2, <3>1 DEF SaveStatus
    <3>3. \A c \in Channel : chan[c] = "IDLE"
      BY <3>2, StoreChannel DEF IInv, TypeOK, ChanStatus, Together, Phase
    <3>4. /\ chan' \in [Channel -> ChanStatus] /\ Together' /\ chan'["store"] = "START"
          /\ \A c \in Channel : chan'[c] = IF c \in Addressed THEN "START" ELSE "IDLE"
      BY <2>4, SetAllEffect DEF IInv, ChanStatus
    <3>5. SaveStatus' = "WORKING" BY <3>4 DEF SaveStatus
    <3>6. CtrlLegal' BY <1>t, <1>1, <1>4, <2>4, <3>5, TakeOne DEF Legal
    <3>7. TypeOK' BY <1>1, <2>1, <2>4, <3>4 DEF IInv, TypeOK, MsgType
    <3>8. FilesMatch' BY <1>1, <3>3, <3>4, FilesOwned DEF IInv, FilesMatch, Busy
    <3>9. Prompt' /\ Marked' /\ Unbroken' /\ Safe'
      BY <1>1, <2>4, <3>4 DEF IInv, Prompt, Marked, Unbroken, Safe
    <3>10. QED BY <3>4, <3>6, <3>7, <3>8, <3>9 DEF IInv
  <2>5. CASE Head(ctrl) = "None" /\ SetAll("STOP") /\ UNCHANGED <<mark, crashed>>
    <3>1. SaveStatus = "WORKING" BY <2>2, <2>5 DEF Legal
    <3>2. FilesMatch' /\ Unbroken' BY <1>1, <2>5, <3>1, WorkingMessage
    <3>3. /\ chan' \in [Channel -> ChanStatus] /\ Together' /\ chan'["store"] = "STOP"
      BY <2>5, SetAllEffect DEF IInv, ChanStatus
    <3>4. SaveStatus' = "IDLE" BY <3>3 DEF SaveStatus
    <3>5. CtrlLegal' BY <1>t, <1>1, <1>4, <2>5, <3>4, TakeOne DEF Legal
    <3>6. TypeOK' BY <1>1, <2>1, <2>5, <3>3 DEF IInv, TypeOK, MsgType
    <3>7. Prompt' /\ Marked' /\ Safe'
      BY <1>1, <2>5, <3>3 DEF IInv, Prompt, Marked, Safe
    <3>8. QED BY <3>2, <3>3, <3>5, <3>6, <3>7 DEF IInv
  <2>6. CASE Head(ctrl) = "Pause" /\ OnPause
    <3>1. SaveStatus = "WORKING" BY <2>2, <2>6 DEF Legal
    <3>2. FilesMatch' /\ Unbroken' /\ (~FopenFails => "property" \in isopen)
      BY <1>1, <2>6, <3>1, WorkingMessage DEF OnPause
    <3>3. /\ chan' \in [Channel -> ChanStatus] /\ Together' /\ chan'["store"] = "PAUSE"
      BY <2>6, SetAllEffect DEF IInv, ChanStatus, OnPause
    <3>4. SaveStatus' = "WORKING" BY <3>3 DEF SaveStatus
    <3>5. CtrlLegal' BY <1>t, <1>1, <1>4, <2>6, <3>4, TakeOne DEF Legal
    <3>6. mark' \in {"none", "RESUME", "PAUSE", "STOP"} /\ crashed' \in BOOLEAN
      BY <2>6 DEF IInv, TypeOK, OnPause, Crash
    <3>7. TypeOK' BY <1>1, <2>1, <3>3, <3>6 DEF IInv, TypeOK, MsgType
    <3>8. Safe' BY <2>6, <3>2 DEF IInv, Safe, OnPause
    <3>9. Prompt' /\ Marked' BY <3>3 DEF Prompt, Marked
    <3>10. QED BY <3>2, <3>3, <3>5, <3>7, <3>8, <3>9 DEF IInv
  <2>7. CASE Head(ctrl) = "Resume" /\ OnResume
    <3>1. SaveStatus = "WORKING" BY <2>2, <2>7 DEF Legal
    <3>2. FilesMatch' /\ Unbroken' BY <1>1, <2>7, <3>1, WorkingMessage DEF OnResume
    <3>3. /\ chan' \in [Channel -> ChanStatus] /\ Together' /\ chan'["store"] = "RESUME"
      BY <2>7, SetAllEffect DEF IInv, ChanStatus, OnResume
    <3>4. SaveStatus' = "WORKING" BY <3>3 DEF SaveStatus
    <3>5. CtrlLegal' BY <1>t, <1>1, <1>4, <2>7, <3>4, TakeOne DEF Legal
    <3>6. TypeOK' BY <1>1, <2>1, <2>7, <3>3 DEF IInv, TypeOK, MsgType, OnResume
    <3>7. Prompt' /\ Marked' /\ Safe'
      BY <2>7, <3>3 DEF IInv, Prompt, Marked, Safe, OnResume
    <3>8. QED BY <3>2, <3>3, <3>5, <3>6, <3>7 DEF IInv
  <2>8. QED BY <1>4, <2>3, <2>4, <2>5, <2>6, <2>7 DEF TakeCtrl
<1>5. QED BY <1>3, <1>4 DEF TakeCtrl

\* The files a request is about, by the channels that have it.
LEMMA Wanted ==
  ASSUME NEW s
  PROVE  UNION {Files(c) : c \in In(s)} = {x \in File : chan[Owner(x)] = s}
<1>1. In(s) \in SUBSET Channel BY DEF In
<1>2. QED BY <1>1, FilesOf, FilesOwned DEF In

\* Start requests.
LEMMA HandleStartPreserves == IInv /\ HandleStart => IInv'
<1> SUFFICES ASSUME IInv, HandleStart PROVE IInv' OBVIOUS
<1> DEFINE wanted == {x \in File : chan[Owner(x)] = "START"}
<1>w. wanted = UNION {Files(c) : c \in In("START")} BY Wanted
<1> HIDE DEF wanted
<1>1. /\ pc = "start" /\ pc' = "stop" /\ UNCHANGED <<status, ctrl, av, full, crashed>>
      /\ chan' = [c \in Channel |-> IF chan[c] = "START" THEN "RESUME" ELSE chan[c]]
      /\ whole' = whole \ wanted
      /\ mark' = IF "property" \in wanted THEN "none" ELSE mark
  BY <1>w DEF HandleStart
<1>2. PICK got \in SUBSET wanted : /\ isopen' = (isopen \ wanted) \cup got
                                   /\ ~FopenFails => got = wanted
  BY <1>w DEF HandleStart
<1> USE DEF wanted
<1>3. \A c \in Channel : chan'[c] = IF chan[c] = "START" THEN "RESUME" ELSE chan[c]
  BY <1>1
<1>4. TypeOK'
  <2>1. chan' \in [Channel -> ChanStatus] BY <1>1 DEF IInv, TypeOK, ChanStatus
  <2>2. isopen' \subseteq File /\ whole' \subseteq File BY <1>1, <1>2 DEF IInv, TypeOK
  <2>3. mark' \in {"none", "RESUME", "PAUSE", "STOP"} BY <1>1 DEF IInv, TypeOK
  <2>4. QED BY <1>1, <2>1, <2>2, <2>3 DEF IInv, TypeOK
<1>5. CtrlLegal'
  <2>1. SaveStatus' = SaveStatus BY <1>3, StoreChannel DEF SaveStatus
  <2>2. QED BY <1>1, <2>1 DEF IInv, CtrlLegal
<1>6. Together' BY <1>3, StoreChannel DEF IInv, Together, Phase, Addressed
<1>7. Prompt' BY <1>1, <1>3, StoreChannel DEF Prompt
<1>8. FilesMatch'
  BY <1>2, <1>3, FilesOwned DEF IInv, FilesMatch, Busy
<1>9. Marked'
  BY <1>1, <1>3, StoreChannel DEF IInv, Marked
<1>10. Unbroken' BY <1>1, <1>3, FrameFile DEF IInv, Unbroken
<1>11. Safe' BY <1>1 DEF IInv, Safe
<1>12. QED BY <1>4, <1>5, <1>6, <1>7, <1>8, <1>9, <1>10, <1>11 DEF IInv

\* Stop requests: the files closed are open, because the channel was in use.
LEMMA HandleStopPreserves == IInv /\ HandleStop => IInv'
<1> SUFFICES ASSUME IInv, HandleStop PROVE IInv' OBVIOUS
<1> DEFINE wanted == {x \in File : chan[Owner(x)] = "STOP"}
<1>w. wanted = UNION {Files(c) : c \in In("STOP")} BY Wanted
<1> HIDE DEF wanted
<1>1. /\ pc = "stop" /\ pc' = "frame" /\ UNCHANGED <<status, ctrl, av, whole, full>>
      /\ chan' = [c \in Channel |-> IF chan[c] = "STOP" THEN "IDLE" ELSE chan[c]]
      /\ isopen' = isopen \ wanted
      /\ crashed' = (crashed \/ ~(wanted \subseteq isopen))
      /\ mark' = IF "property" \in wanted THEN "STOP" ELSE mark
  BY <1>w DEF HandleStop
<1> USE DEF wanted
<1>3. \A c \in Channel : chan'[c] = IF chan[c] = "STOP" THEN "IDLE" ELSE chan[c]
  BY <1>1
<1>4. TypeOK'
  <2>1. chan' \in [Channel -> ChanStatus] BY <1>1 DEF IInv, TypeOK, ChanStatus
  <2>2. isopen' \subseteq File BY <1>1 DEF IInv, TypeOK
  <2>3. mark' \in {"none", "RESUME", "PAUSE", "STOP"} BY <1>1 DEF IInv, TypeOK
  <2>4. crashed' \in BOOLEAN BY <1>1
  <2>5. QED BY <1>1, <2>1, <2>2, <2>3, <2>4 DEF IInv, TypeOK
<1>5. CtrlLegal'
  <2>1. SaveStatus' = SaveStatus BY <1>3, StoreChannel DEF SaveStatus
  <2>2. QED BY <1>1, <2>1 DEF IInv, CtrlLegal
<1>6. Together' BY <1>3, StoreChannel DEF IInv, Together, Phase, Addressed
<1>7. Prompt' BY <1>1, <1>3, StoreChannel DEF IInv, Prompt
<1>8. FilesMatch'
  BY <1>1, <1>3, FilesOwned DEF IInv, FilesMatch, Busy
<1>9. Marked'
  BY <1>1, <1>3, StoreChannel DEF IInv, Marked
<1>10. Unbroken' BY <1>1, <1>3, FrameFile DEF IInv, Unbroken
<1>11. Safe'
  <2>1. ~FopenFails => wanted \subseteq isopen BY DEF IInv, FilesMatch, Busy
  <2>2. QED BY <1>1, <2>1 DEF IInv, Safe
<1>12. QED BY <1>4, <1>5, <1>6, <1>7, <1>8, <1>9, <1>10, <1>11 DEF IInv

\* A frame: it is written to files of channels in use only.
LEMMA TargetOpen ==
  ASSUME IInv, ~FopenFails, NEW f \in Frame
  PROVE  Target(f) \subseteq isopen
<1>1. SUFFICES ASSUME NEW x \in Target(f) PROVE x \in isopen OBVIOUS
<1>2. f.stream \in Channel \cup {"audio"} BY DEF Frame, Stream
<1>3. CASE x = "property" /\ f.stream = "store" /\ Begins(f)
  BY <1>3, StoreChannel DEF IInv, FilesMatch, Busy, Begins
<1>4. CASE x = FileOf(f.stream) /\ x \in File /\ Written(f)
  <2>1. CASE f.stream = "audio"
    BY <1>4, <2>1, FrameFile DEF IInv, FilesMatch, Busy, Written
  <2>2. CASE f.stream \in Channel /\ f.stream # "audio"
    <3>1. chan[f.stream] \in Busy BY <1>4, <2>2 DEF Written, Begins, Busy
    <3>2. Owner(x) = f.stream BY <1>4, <2>2, FrameFile
    <3>3. QED BY <1>4, <3>1, <3>2 DEF IInv, FilesMatch
  <2>3. QED BY <1>2, <2>1, <2>2
<1>5. QED BY <1>1, <1>3, <1>4 DEF Target

\* A frame is written, or skipped, according to what its channel is doing.
LEMMA HandleFramePreserves == IInv /\ HandleFrame => IInv'
<1> SUFFICES ASSUME IInv, HandleFrame PROVE IInv' OBVIOUS
<1>1. pc = "frame" /\ pc' = "ctrl" /\ UNCHANGED <<status, ctrl, isopen>> BY DEF HandleFrame
<1>2. chan["store"] \notin {"START", "STOP"} BY <1>1 DEF IInv, Prompt
<1>3. CASE av = <<>> /\ UNCHANGED <<av, chan, mark, whole, full, crashed>>
  <2>1. TypeOK' BY <1>1, <1>3 DEF IInv, TypeOK
  <2>2. CtrlLegal' BY <1>1, <1>3 DEF IInv, CtrlLegal, SaveStatus
  <2>3. Together' /\ Prompt' /\ FilesMatch' /\ Marked' /\ Unbroken' /\ Safe'
    BY <1>1, <1>2, <1>3 DEF IInv, Together, Prompt, FilesMatch, Marked, Unbroken, Safe
  <2>4. QED BY <2>1, <2>2, <2>3 DEF IInv
<1>4. CASE av # <<>>
  <2> DEFINE f == Head(av)
  <2>1. f \in Frame /\ Tail(av) \in Seq(Frame) BY <1>4 DEF IInv, TypeOK
  <2> HIDE DEF f
  <2>2. /\ chan' = IF Begins(f) THEN [chan EXCEPT ![f.stream] = "WORKING"] ELSE chan
        /\ mark' = IF f.stream = "store" /\ Begins(f) THEN "RESUME" ELSE mark
        /\ whole' = IF Written(f) THEN whole \cup ({FileOf(f.stream)} \cap File)
                                  ELSE whole \ {FileOf(f.stream)}
        /\ crashed' = (crashed \/ ~(Target(f) \subseteq isopen))
        /\ full' \in {full, Streamed(f)}
        /\ av' = Tail(av)
    BY <1>4 DEF f, HandleFrame, MarkResume, Send
  <2>3. \A c \in Channel : chan'[c] = IF Begins(f) /\ f.stream = c THEN "WORKING" ELSE chan[c]
    BY <2>2 DEF IInv, TypeOK
  <2>4. \A c \in Channel : Phase(chan'[c]) = Phase(chan[c])
    BY <2>3 DEF Phase, Begins
  <2>5. TypeOK'
    <3>1. chan' \in [Channel -> ChanStatus] BY <2>2 DEF IInv, TypeOK, ChanStatus
    <3>2. whole' \subseteq File BY <2>2 DEF IInv, TypeOK
    <3>3. mark' \in {"none", "RESUME", "PAUSE", "STOP"} BY <2>2 DEF IInv, TypeOK
    <3>4. crashed' \in BOOLEAN BY <2>2
    <3>5. full' \in BOOLEAN BY <2>2 DEF IInv, TypeOK, Streamed, Written, Begins
    <3>6. QED BY <1>1, <2>1, <2>2, <3>1, <3>2, <3>3, <3>4, <3>5 DEF IInv, TypeOK
  <2>6. CtrlLegal'
    <3>1. SaveStatus' = SaveStatus BY <2>3, StoreChannel DEF SaveStatus, Begins
    <3>2. QED BY <1>1, <3>1 DEF IInv, CtrlLegal
  <2>7. Together'
    <3>1. \A c \in Channel : chan[c] = "IDLE" => chan'[c] = "IDLE" BY <2>3 DEF Begins
    <3>2. QED BY <2>4, <3>1, StoreChannel DEF IInv, Together, Addressed
  <2>8. Prompt' BY <1>2, <2>3, StoreChannel DEF Prompt
  <2>9. FilesMatch'
    <3>1. \A c \in Channel : chan'[c] \in Busy <=> chan[c] \in Busy
      BY <2>3 DEF Begins, Busy
    <3>2. QED BY <1>1, <3>1, FilesOwned DEF IInv, FilesMatch
  <2>10. Marked' BY <2>2, <2>3, StoreChannel DEF IInv, Marked
  <2>11. Unbroken'
    <3> SUFFICES ASSUME NEW c \in Channel \ {"live"}, chan'[c] = "WORKING"
                 PROVE  FileOf(c) \in whole'
      BY DEF Unbroken
    <3>1. CASE f.stream = c
      <4>1. Written(f) BY <2>3, <3>1, RecorderAssumption DEF Written, Begins, Channel
      <4>2. QED BY <2>2, <3>1, <4>1, FrameFile
    <3>2. CASE f.stream # c
      <4>1. FileOf(c) \in whole BY <2>3, <3>2 DEF IInv, Unbroken
      <4>2. FileOf(f.stream) # FileOf(c) BY <2>1, <3>2, FrameFile DEF Frame, Stream
      <4>3. QED BY <2>2, <4>1, <4>2
    <3>3. QED BY <3>1, <3>2
  <2>12. Safe' BY <2>1, <2>2, TargetOpen DEF IInv, Safe
  <2>13. QED BY <2>5, <2>6, <2>7, <2>8, <2>9, <2>10, <2>11, <2>12 DEF IInv
<1>5. QED BY <1>3, <1>4 DEF HandleFrame

-----------------------------------------------------------------------------
(* The theorems *)

\* The invariant holds whatever the instructor sends and however far the
\* writer lags behind.
THEOREM Invariance == Spec => []IInv
<1>1. IInv /\ [Next]_vars => IInv'
  <2> SUFFICES ASSUME IInv, [Next]_vars PROVE IInv' OBVIOUS
  <2>1. CASE Next
    BY <2>1, InstructorPreserves, ArrivePreserves, ServerReadsPreserves, TakeCtrlPreserves,
       HandleStartPreserves, HandleStopPreserves, HandleFramePreserves DEF Next, LocalSave
  <2>2. CASE UNCHANGED vars
    <3>1. UNCHANGED <<status, ctrl, av, pc, chan, isopen, mark, whole, full, crashed>>
      BY <2>2 DEF vars, saveVars
    <3>2. TypeOK' BY <3>1 DEF IInv, TypeOK
    <3>3. CtrlLegal' BY <3>1 DEF IInv, CtrlLegal, SaveStatus
    <3>4. Together' /\ Prompt' /\ FilesMatch' /\ Marked' /\ Unbroken' /\ Safe'
      BY <3>1 DEF IInv, Together, Prompt, FilesMatch, Marked, Unbroken, Safe
    <3>5. QED BY <3>2, <3>3, <3>4 DEF IInv
  <2>3. QED BY <2>1, <2>2
<1>2. QED BY InitIInv, <1>1, PTL DEF Spec

\* The two statuses, the fifos and the files keep their types.
THEOREM TypeCorrect == Spec => []TypeOK
<1>1. IInv => TypeOK BY DEF IInv
<1>2. QED BY <1>1, Invariance, PTL

\* If fopen does not fail, nothing is written to or closed through a NULL
\* FILE pointer: main's status, which the writer never sees, keeps it from
\* orders its files are not ready for.
THEOREM NoNullStream ==
  ASSUME ~FopenFails
  PROVE  Spec => []NoCrash
<1>1. IInv => NoCrash BY DEF IInv, Safe, NoCrash
<1>2. QED BY <1>1, Invariance, PTL

\* Frames of the composed picture are only written behind a RESUME line of
\* the .pro file.
THEOREM FramesAreMarked == Spec => []Marked
<1>1. IInv => Marked BY DEF IInv
<1>2. QED BY <1>1, Invariance, PTL

\* No file is opened over one that is still open.
THEOREM NoFileReopened == Spec => NoReopen
<1> DEFINE A == pc = "start" => (UNION {Files(c) : c \in In("START")}) \cap isopen = {}
<1>1. IInv => A
  <2> SUFFICES ASSUME IInv PROVE A
    OBVIOUS
  <2>1. UNION {Files(c) : c \in In("START")} = {x \in File : chan[Owner(x)] = "START"}
    BY Wanted
  <2>2. \A x \in isopen : x \in File /\ chan[Owner(x)] # "START"
    BY DEF IInv, TypeOK, FilesMatch, Busy
  <2>3. {x \in File : chan[Owner(x)] = "START"} \cap isopen = {} BY <2>2
  <2>4. QED BY <2>1, <2>3
<1>2. QED BY <1>1, Invariance, PTL DEF NoReopen

\* A frame that refers to the one before it is only written behind it.
THEOREM FilesDecodable == Spec => Decodable
<1> DEFINE A == \A c \in Channel \ {"live"} :
                  (pc = "frame" /\ av # <<>> /\ av' = Tail(av) /\ Head(av).stream = c
                    /\ chan'[c] = "WORKING" /\ ~Head(av).key)
                  => FileOf(c) \in whole
<1>1. IInv /\ [Next]_vars => A
  <2> SUFFICES ASSUME IInv, [Next]_vars, NEW c \in Channel \ {"live"}, pc = "frame",
                      av # <<>>, av' = Tail(av), Head(av).stream = c,
                      chan'[c] = "WORKING", ~Head(av).key
               PROVE  FileOf(c) \in whole
    OBVIOUS
  <2>1. av' # av BY DEF IInv, TypeOK
  <2>2. HandleFrame \/ \E f \in Frame : Arrive(f)
    BY <2>1 DEF Next, Instructor, Start, Stop, Pause, Resume, OtherCommand, LocalSave,
       ServerReads, TakeCtrl, HandleStart, HandleStop, vars
  <2>3. chan' = chan
    BY <2>2 DEF HandleFrame, Begins, Arrive, saveVars
  <2>4. QED BY <2>3 DEF IInv, Unbroken
<1>2. QED BY <1>1, Invariance, PTL DEF Spec, Decodable

-----------------------------------------------------------------------------
(* The connection to the streaming server: the inductive invariant *)

\* The two threads take turns with the field: while the connecting thread has
\* a socket to store, the field is empty, and the sending thread cannot touch
\* what is open.
Handover ==
  IF cpc = "store"
  THEN sock = 0 /\ new \in Conn /\ open = {new}
  ELSE open = {sock} \ {0}

\* A connection on which nothing was sent: one not yet made, or not yet stored.
Fresh ==
  /\ \A c \in Conn : server[c] = "none" => expects[c] = "first"
  /\ cpc = "store" => expects[new] = "first" /\ server[new] # "none"
  /\ sock # 0 => server[sock] # "none"

\* On the connection in the field the server waits for what the sending
\* thread sends next, unless nothing was sent on it.
Alternates ==
  sock # 0 =>
    /\ expects[sock] = "header" => spc = "idle"
    /\ expects[sock] = "payload" => spc = "payload"

LiveInv == LiveTypeOK /\ Handover /\ Fresh /\ Alternates

-----------------------------------------------------------------------------

\* The invariant holds when the two threads start.
LEMMA InitLiveInv == LiveInit => LiveInv
BY DEF LiveInit, LiveInv, LiveTypeOK, Handover, Fresh, Alternates, Conn

\* Every step preserves the invariant.
LEMMA NextLiveInv == LiveInv /\ [LiveNext]_liveVars => LiveInv'
<1> SUFFICES ASSUME LiveInv, [LiveNext]_liveVars PROVE LiveInv' OBVIOUS
<1> USE DEF LiveInv, LiveTypeOK, Handover, Fresh, Alternates, Conn
<1>1. CASE Connect BY <1>1 DEF Connect
<1>2. CASE Store BY <1>2 DEF Store
<1>3. CASE SendHeader BY <1>3 DEF SendHeader, Sent, GiveUp
<1>4. CASE SendPayload BY <1>4 DEF SendPayload, Sent, GiveUp
<1>5. ASSUME NEW c \in Conn, ServerCloses(c) PROVE LiveInv'
  BY <1>5 DEF ServerCloses
<1>6. CASE UNCHANGED liveVars BY <1>6 DEF liveVars
<1>7. QED
  BY <1>1, <1>2, <1>3, <1>4, <1>5, <1>6 DEF LiveNext, Connector, LiveSave

\* The invariant holds throughout.
THEOREM LiveInvariance == LiveSpec => []LiveInv
<1>1. QED BY InitLiveInv, NextLiveInv, PTL DEF LiveSpec

\* The fields and positions of the two threads keep their types.
THEOREM LiveTypeCorrect == LiveSpec => []LiveTypeOK
<1>1. LiveInv => LiveTypeOK BY DEF LiveInv
<1>2. QED BY <1>1, LiveInvariance, PTL

\* What is open is what the field names or is about to, although two threads
\* share p_localsave->sock without a lock: no connection is lost, and there is
\* never more than one.
THEOREM SingleConnection == LiveSpec => []OneConnection
<1>1. LiveInv => OneConnection BY DEF LiveInv, Handover, OneConnection
<1>2. QED BY <1>1, LiveInvariance, PTL

\* Header and payload alternate on every connection from its second send on,
\* however the connection is replaced between the two.
THEOREM HeaderAndPayloadAlternate == LiveSpec => InStep
<1> DEFINE A == \A c \in Conn : sock = c /\ sock' = c /\ spc' # spc =>
                 expects[c] \in {"first", IF spc = "idle" THEN "header" ELSE "payload"}
<1>1. LiveInv => A
  BY DEF LiveInv, LiveTypeOK, Alternates, Conn
<1>2. QED BY <1>1, LiveInvariance, PTL DEF InStep
=============================================================================
