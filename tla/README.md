# Verification of the classroom recording server (recbcsrv)

`src/recbcsrv` is the server of a classroom recorder. Codec boards (cores A, B,
C, D) send compressed audio, video, JPEG pictures and detection events over
TCP; an instructor console sends orders and shows pictures. The server records
the streams, forwards one of them live, points two motorised cameras and, in
automatic mode, directs: it decides which picture is recorded. It is one C
process of about a dozen threads that share structures, mostly without locks.

This directory holds TLA+ models of its core, TLC configurations that check
them, and proofs checked by TLAPS: the safety of the frame queue everything else
rests on and its refinement of a broadcast, and the safety properties of the
links, the recorder, the live stream, the camera holders, the director and
tracking.
The small SNTP programs in `src/sntp`, which set the clock of the boards, are
modelled too.
`PROJECT.json` maps every definition to the lines it models.

## 1. Inventory

| Part | Code | State | Operations | Module |
|---|---|---|---|---|
| Frame queue | `datafifo.c` | pools of buffers, lists, reference counts, status of each item | alloc, data_add, addto_consumers, remove_check, consumer_remove_head | `DataFifo`, `FrameBroadcast` |
| Links | `recbc_srv.c` 226-253, 2307-3437, 8897-9055 | `socket`, `senderr`, `recverr` per link | accept, receive, send, note an error, close | `CoreLink` |
| Instructor commands, recording files | 847-1091, 3625-4632 | main's `status`, nine channel statuses, `FILE` pointers | Start, Stop, Pause, Resume, write a frame | `Recorder` |
| Live stream | 3542-3623, 4283-4322, 4581-4612 | one socket field | connect, send header, send payload | `LiveStream` |
| Camera holders | 5551-5764, 6725-7091, 7396-7568 | status of the start-up dialogue, pending flags, position, target, presets, `g_camholder_still` | commands, answers, error, timeout, orders | `CameraHolder` |
| Automatic director | 5766-6381, 6461-6715, 7092-7394, 7774-7924, 8211-8484 | truth table, FSM state, loss counters, pip flags | VID, AUX, VGA events, orders, transition | `SwitchFsm` |
| Tracking movements | 7905-8144, 5598-5618 | direction, patience and loss counters, limits, excluded zone | track, scan | `Tracking` |
| Packet handlers | 1093-1919 | none between messages; the open frame of each queue | one per message type | `Ingest` |
| Frame sampling | 3451-3504, 4774-5205 | `g_camholder_still`, `g_analyze_frame_num`, `g_num_in_group`, the detector's last picture | sample, hand on, analyse | `Tracking`, `Pipeline` |
| Threads and fifos together | 8506-9070 | which thread waits for which pool | alloc, deliver, give back | `Pipeline` |
| SNTP client and server | `src/sntp` | the clock, the round, datagrams under way | request, answer, set the clock | `Sntp` |
| Message helpers, image analysis, MP4 conversion, XML, RTC, emulators, vendored code | see `PROJECT.json` | | | not modelled |

**How the parts interact.** `main` creates the fifos, connects producers to
consumers and starts the threads. A board's thread reads messages and puts
packets on producer fifos. `thread_localsave`, `thread_img`, `thread_analyze`,
`thread_SwitchTracking` and the sending halves of the links each drain consumer
fifos. The instructor's orders go from `main` over `Ctrl_producer_fifo` to all of
them at once. Besides the fifos the threads share plain fields: the sockets and
error flags of a link, the live socket, `g_camholder_still`, the pip flags of
`g_vmap_table`, the configuration.

**What is hard here.** Reference counts kept in several critical sections of
several threads; a copy outside the lock; sockets closed by one thread and
replaced by another; a writer that executes orders long after they were
accepted; answers from a camera that carry no relation to the command; counters
compared with `==`; flags that describe an earlier connection or movement. The
list, line by line, is `hazards` in `PROJECT.json`.

**What makes each part correct.**

- Frame queue: a frame reaches every connected consumer once, in order and
  unchanged; a buffer is reused exactly when nobody needs it any more.
- Links: a dead connection is noticed and replaced, a healthy one is left
  alone, no descriptor is lost or used after close.
- Recording: files are opened, paused and closed in a legal order, what they
  hold can be decoded and cut, and they are closed in the end, also by a writer
  that the streaming server keeps waiting.
- Live stream: one connection, none lost, header and payload alternate.
- Camera holders: the start-up dialogue ends, what it learned is true; the
  position held is the camera's; pictures are analysed only at rest.
- Director: the truth table describes one situation; a teacher believed in was
  seen; the overlay shown is fed; the picture follows the scene.
- Packet handlers: a frame handed on is a frame the board sent, wherever a
  connection broke and however its length compares with a buffer's; no packet
  continues a frame that is not there.
- Tracking: pictures that are compared were taken from one place; the camera
  stays where it may point; a teacher who stays is found and centred; the scan
  covers the room.
- Threads together: no circle of threads that wait for each other.
- SNTP: the clock is right afterwards; the client comes to an end, or waits for a
  reason that can be named.

## 2. Modules and how they correspond to the code

Common conventions: one action per step of a thread between two points where
another thread can interfere; a field name is kept where TLA+ allows it. A
mutated variant of a definition stands in front of it and says so. Names of
files and messages, formatting and logging are left out.

**DataFifo.** An item is a pair fifo/index, a list is a sequence. What happens
under one mutex is one step (no code holds two). `data_add` is `Call`,
`AllocFrame`, `Flush`, `LinkFrame` / `CheckTail`, `CopyPacket`; its call of
`addto_consumers` is `AllocForConsumer`, `CountReference`, `AddToConsumer` per
consumer, then `SetDoing` and `ProducerCheck`; `consumer_remove_head` is
`Release`, `ConsumerCheck`, `Unlink`. Buffers hold bytes, and a packet has
a length of its own: one that does not fit is refused (199-201), a shorter one behind
it may be appended all the same. In the
server every producer fifo is filled by one thread and every consumer fifo
drained by one, and fifos are connected before the threads start; that is what
the constants say. `Stray` admits a stream that resumes inside a frame.

**FrameBroadcast** is what the queue promises: no buffers, pools or counts, only
a queue of frames per consumer. `DataFifo` maps its pointers to frames *as they
read at that moment*, so a buffer reused too early is a frame that changes in a
queue.

**CoreLink** is one link, which one is chosen in `Init` from `Boards`. Core A has
three threads (listener, receiver, sender), the others two. Core C's loop lacks the
test that keeps `COMMAND_INTERNAL` from the board (`Filtered`). Its UART branch
(3158-3176) tests and sends the head of the control fifo instead; that fifo stays
empty, because the holders' channels are fixed to 1 and 3 at 6454-6455.
Connections are numbers, `socket = 0` is -1. The peer
may leave a last message behind (`draining`) or, with `TornClose`, half of one.
SIGPIPE is ignored (8508), so a send to a closed peer is an error return.

**Recorder** composes `InstructorMsgHandle` in main with the loop of
`thread_localsave`: the two statuses never meet except through the control fifo.
A `FILE` pointer is open or NULL; `mark` is the last line of the `.pro` file;
`whole` says which files hold the frame just before the next one, which is what
a frame that is not a key frame needs. Frames that also go to the streaming server
(`Streamed`) are sent on a blocking socket (3608, 4309, 4599 and the payloads behind
them): while the socket is `full` the writer stands still in `HandleFrame`, until
the server reads or closes (`ServerReads`). The connection itself is in `LiveStream`.

**LiveStream** is the socket field that `thread_connect_liveserver` fills and the
sending code clears; header and payload are separate steps because each reads
the field. The `#if 0` alternative at 3639 is not built.

**CameraHolder** is one holder (teacher: seven presets, student: one, chosen in `Init`) with the
loop phases of `thread_SwitchTracking` in their order. The dialogue's numbered
statuses are kept. The camera executes movements one at a time and keeps its
own presets; it may refuse, and the line may lose commands and answers. An
uninitialised position is `Unset`. The command flags follow the code's `(!FLAG)`
masks: every answer clears all of them.

**SwitchFsm** is the director. The 9 x 40 transition table is the function
`Entry`/`VgaEntry`; the truth table is the set of element conditions that hold.
Counters are kept up to the largest value the code compares them with. `free`
stands for the teacher's holder being initialised with nothing pending
(`CameraHolder`). With `Truthful` the events report `scene`. `EventVID2df` is the
step from the detector's result (1 a person, 2 motion, 3 both) to the event: it
sends `Detected = 1` for all three, so the director's case for motion in front of
the screen (`detected >= 2`, 7863) is there and never taken.

**Ingest** composes the three message handlers with `DataFifo`. A board's stream is
a sequence of frames in numbered packets; `Flags` derives the flags of `data_add`
from the numbers as the handlers do, `Dest` the fifo, `CallsFor` the calls one
message leads to (a camera's answer leads to one per byte). A thread takes no
message while one of its calls waits. `Reconnect` breaks a connection anywhere;
where a board goes on afterwards is its own matter and a constant (`resume`): with
frame 0, with a later frame, or with the last packet of a frame (`packet`). A frame
is the sequence of the places where its packets end, and a byte in a buffer carries
its frame, packet and place, so that a mixture and a gap are visible.

**Pipeline** is `main`: every thread that drains one fifo and fills another, every
fifo between them, at the granularity of one `alloc` and one delivery. A queue
holds only the producers its frames are from; what `DataFifo` shows of one queue is
taken as given. `Outputs` lists what an input can lead to, whatever the
conditions. Threads that fill nothing never wait for a fifo; they are left out, and
so are the fifos that lead only to them (video, switch and overlay messages, the
commands for core A's cameras). A board that is not connected counts as one of them.

**Tracking** is the control loop through three threads: the camera's pictures reach
`thread_img` some time after they were taken, a sample goes to `thread_analyze`,
which compares it with the one before, and `thread_SwitchTracking` turns the result
into a movement, which ends the standstill. The camera, the person and the line
are external. Offsets and pan positions have one unit, so the arc tangent is
exact; the holder's dialogue is reduced to an order that is pending until it is
answered or times out (`CameraHolder` has the whole of it).

**Sntp** is `SntpClient` and the server's loop. Timestamps are fixed-point numbers
modulo the era, scaled down, with the arithmetic of `mysntp.h`; `SntpGetSysTime`
puts microseconds into the fraction unconverted, as the code does. The server is
a standard one (external) or the repository's. `settimeofday` may fail (193): the
client then takes no new round but waits on (403-406). The time between the answer's
arrival (401) and the setting of the clock (193) is taken as zero; the code does not
correct for it.

**Proof modules.** `DataFifoProofs`, `CoreLinkProofs`, `RecorderProofs`,
`CameraHolderProofs`, `SwitchFsmProofs`, `TrackingProofs` and `SntpProofs` extend the
module they are named after with its inductive invariant, the lemmas and the
theorems. `DataFifoProofs` ends with the proof that the queue implements
`FrameBroadcast`. `RecorderProofs` also extends `LiveStream`, the other business of
`thread_localsave`, and `TrackingProofs` also extends `Pipeline`, the threads its loop runs
through with all others; the modules share no state, and their specifications
are called `LiveSpec` and `PipeSpec`. `IngestProofs` extends `Ingest` and `DataFifoProofs` and carries the
queue's theorems over to the composition, and adds those that only the handlers and
the queue together have.

## 3. Runs

| Run | Shows |
|---|---|
| `fifo_fan_out` | one producer, two consumers; frames of any length, unfinished, longer than a buffer with a short packet behind a refused one, resumed in the middle: no overrun, counts exact, no use after free, no leak, bytes of a visible frame stable, refinement of `FrameBroadcast`, every buffer comes back, `alloc` returns |
| `ingest` | packets through the handlers into queues that share a consumer, connections that break anywhere: a crash only where a board goes on in the middle of a frame, frames never mixed and without a gap unless too long, refinement of `FrameBroadcast` |
| `link` | cores A, B, C, D and the instructor: dead connections are noticed and replaced; one thread: no orphaned or dangling socket, only dead connections closed; core A: `recverr` is about the current connection |
| `rec_session` | any sequence of orders, the writer lagging or waiting for the streaming server: no NULL stream used, no file opened twice, decodable, marked, closed in the end |
| `live` | one connection, the one the field names: no lost, no closed socket; header and payload in step on it (but for its first bytes) |
| `cam` | losses and refusals during the dialogues, orders and tracking after them: presets and limits right, the dialogue ends, `g_camholder_still` implies rest until an order moves the camera, the position right once all is answered |
| `switch_director` | arbitrary events and orders: one situation, real teachers, overlay fed |
| `switch_follow` | truthful events: the picture follows the scene |
| `pipeline` | all threads, pools of one: every circle of waiting threads goes through one of two places, and none opens again |
| `tracking` | a walking teacher, lost commands and answers, Start orders: pictures compared are of one place, the camera stays in its zone, a teacher who stays is centred, the scan reaches both limits for ever |
| `sntp` | both servers, turns of second and era, delays, losses, duplicates, failing calls, a clock that cannot be set: the clock is right to half a second, the client ends or waits in a round with a loss or a refusal |

Each run's configuration and what it checks:

| Run | Module, configuration | Properties |
|---|---|---|
| `fifo_fan_out` | `MCDataFifo`, `MCDataFifo_FanOut.cfg` | `TypeOK`, `RefcntExact`, `RefsAlive`, `NoLeak`, `BufferStable`, `ImplementsBroadcast`, `BuffersRecycled`, `AllocReturns` |
| `ingest` | `MCIngest`, `MCIngest.cfg` | `CrashNeedsMidFrame`, `FramesWhole`, `ImplementsBroadcast` |
| `link` | `CoreLink`, `CoreLink.cfg` | `NoOrphan`, `NoDangling`, `RecverrIsCurrent`, `ClosesOnlyDead`, `LinkRecovers` |
| `link_mute` | `CoreLink`, `CoreLink_Mute.cfg` | `SenderrIsCurrent` |
| `rec_session` | `Recorder`, `Recorder_Session.cfg` | `NoCrash`, `Marked`, `NoReopen`, `Decodable`, `FilesClosed` |
| `live` | `LiveStream`, `LiveStream.cfg` | `OneConnection`, `InStep` |
| `cam` | `MCCameraHolder`, `MCCameraHolder.cfg` | `PresetsRight`, `StillMeansStill`, `PositionKnown`, `InitCompletes` |
| `switch_director` | `SwitchFsm`, `SwitchFsm_Director.cfg` | `OneOfEach`, `TeacherReal`, `OverlayFed` |
| `switch_follow` | `SwitchFsm`, `SwitchFsm_Follow.cfg` | `AutoFollows` |
| `pipeline` | `Pipeline`, `Pipeline.cfg` | `OnlyTheseJam`, `JamIsForEver` |
| `tracking` | `MCTracking`, `MCTracking.cfg` | `SamePlace`, `InZone`, `Follows`, `ScanCovers` |
| `sntp` | `Sntp`, `Sntp.cfg` | `RightToHalfASecond`, `Ends` |

One run is expected to fail and is a finding in `PROJECT.json`: `link_mute` (2522), a
`recverr` read before a reconnection makes the new connection mute.

**Two circles of waits.** `OnlyTheseJam` names the places where the server can lock
up, and both are reachable. (1) `thread_SwitchTracking` waits for a buffer of the
UART fifo of core B, which `thread_coreB` drains, while `thread_coreB` waits for an
item of the event (or answer) fifo that `thread_SwitchTracking` drains. (2) `main`
waits to hand an order on because `thread_SwitchTracking` or a board's thread is
behind, while `thread_img` waits for `main` to send images to the console, and the
board's thread for `thread_img`. Core A, which sends in a thread of its own, is in
neither. The pools (10 commands, 640 images) make them rare, not impossible, and
`JamIsForEver` says that there is no way out: threads that wait in a circle do so in
every later state, because `datafifo_alloc` waits without a timeout and only the
thread of a consumer takes from its queue.

**What the passing runs exclude.** Each of these is an assumption named in a
module or a condition of a property; without it TLC finds a counterexample, by
changing the constant named:

- `FopenFails = FALSE`: a failed `fopen` is reported (3943) and then written to.
- `TornClose = FALSE`: `getMsg` only peeks (231), so half a message from a peer
  that has gone hides the end of the stream, and the link stays down.
- `Prompt = TRUE`: a camera answer comes within the ten seconds of
  `camholder_command_timeout` or never. A late one is taken for the answer to the
  next command, and the dialogue saves a position that was never read (6756). With
  `Prompt` an error answer and the timeout never meet in one turn, so the double
  step back of 6898-6908 does not occur.
- `~Split` in `ClosesOnlyDead`, `NoOrphan`, `NoDangling`: core A's receiving thread
  may close a connection accepted after it tested the flags of the old one
  (2625-2627).
- `ordered = "none"` in `StillMeansStill`: Start and Stop (7143, 7255) and the
  manual orders move the camera without clearing `g_camholder_still`. The masks
  `(!FLAG)` in `update_camholder_ctx` (5670, 5678, 5688) are 0, so that an answer
  clears the flags of every command and the camera counts as still too early;
  the comments there say "clear corresponding pending flag".
- `running` in `TeacherReal`: before the first Start `acc_of_lost` is 0 (6391), which
  8237 reads as a captured teacher.
- `resume = "packet"` in `CrashNeedsMidFrame` and `FramesWhole`. A packet that continues
  no frame is meant to be refused (datafifo.c:193, "not first, but not filling"),
  but the test before it reads `listtail->status`, and `listtail` is NULL while the
  list is empty. The run `ingest` contains a board that goes on inside a frame after
  a lost connection, and its server does die there; the property says that nothing
  else makes it. Such a packet may also be taken for one of the frame being
  filled, which `FramesWhole` leaves out.
- A frame longer than a buffer in `FramesWhole`: of its packets those are missing that
  did not fit behind the ones before them, and since a shorter one may fit again
  (datafifo.c:199-204) it may be handed out with a hole.
- A break in `FramesWhole`: a board that goes on with a later frame leaves its
  unfinished frame to be handed on cut short (datafifo.c:156-173); one that starts
  with frame 0 leaves an empty frame.
- `[]<>~Blocked` in `FilesClosed`: a streaming server that is connected and never reads
  again stops `thread_localsave` in `send`, and the stop request waits behind it.
- The first bytes in `InStep`: when a header cannot be sent, the payload's send
  reads the socket field again (3613) and may find a new connection, whose first
  bytes are then a payload.
- `answersLost` in `Follows`: after a lost completion `PanPos` is where the camera
  was. At a limit the clamp then yields `PanPos`, no order is sent, and the teacher
  stays out of the picture.
- `Arrive`, `Resting` in `Tracking`: results of a standstill are in before the camera
  has turned, and recordings are started while it rests. If the analysis is
  slower, an old offset is added to the new position and the camera swings around
  the teacher.
- `Depth < SKIP_STEP` in `tracking`: with as many pictures under way as are skipped,
  a picture from before the turn is the first sample of the new group.
- `TrackingAssumption`: with presets 5 and 6 alike the scan stays on the edge, and
  outside both parts nothing is clamped (8034, 8043).
- `stale` in `RightToHalfASecond`: the client does not compare `tOrig` with its
  request (sntp_client.c:146-177), so a second copy of the first answer is used in the
  second round, with a clock that has been set in between.
- `server = "ntp"`: the repository's server repeats the `tOrig` of the request, which
  the client left 0 (sntp_server.c:155), and does not add the epoch the client
  subtracts. The client then sets the clock from `tNowTV`, which it did not write
  (146-150, 193). The comment at 256-257 says the first round takes the server's time
  as it is; the code passes 1 in both rounds (403).
- `failed` in `Ends`: `recvfrom` has no timeout (393) and the client asks once in a
  round, so it waits for ever after a loss, and after an answer whose time the
  system refuses (193, 403-406). The property says that nothing else keeps it, with
  either server.
- `InitialState` a single picture: for a combined one Start sends no command to the
  switch (`SwitchFsm.Start`). Stop stops feeding the overlay (7257) but leaves the
  board's picture as it is, so that after the next Start the board may still lay
  over a picture that is no longer fed.
- The teacher's orders in `cam` (and `Plain` in the proofs): recalling a preset other
  than 0 sets the zoom held by the program to one that was never read, and storing
  one does not compute the limits of his range again.
- `OrderComes`, `StoreComes`: an order during the start-up dialogue, or a preset
  stored while the camera moves, leaves wrong presets.

**Bounds and why they are enough.** *DataFifo*: pools of one and two items make
every wait happen (full producer pool, full consumer pool) and let a buffer be
reused while its earlier frame is still being given back; packets of one and two
bytes in buffers of two fill a buffer in one or two steps, are refused behind a first
one and fit again behind a refused one, and two payloads let a reader notice a
buffer that was reused. The theorems below remove the bounds for
safety. *CoreLink*: three connections let a flag of the first survive into the
second and be judged in the third; queues of two let a message wait behind a
failed one. *Recorder*: five control messages hold a whole Start plus a Stop,
Pause or Resume behind it, so the writer can be a full recording late; one
resource channel stands for seven that run the same code on separate
variables; one frame at a time in the queue is enough because frames are
handled one per turn and arrive at any turn. `full` is a bit, for all the code can
see of the connection is whether `send` returns. *LiveStream*: six connections.
*CameraHolder*: two faults, up to three commands and three answers on the line;
the teacher has all seven presets. *Ingest*: frames of up to three packets and four bytes against
buffers of two, among them one whose second packet is refused and third fits; five
setups, chosen in the initial state: two boards sharing `thread_localsave`, images of
a board that starts again, goes on with a later frame or inside one, short messages.
*Pipeline*: pools and queues of one make every wait happen, and a circle of waits
needs no more; core B is the board that both fills and drains (C and D run the
same loop without a camera, and core A's sending is a thread of its own).
*Tracking*: six pan positions and a view of two make limits, both edges of the
excluded zone and a step across it distinct; two outside events let a loss follow
a walk. Losses are counted to the eighth and then by their remainder by three, which
is all the code looks at. One sample under way to the detector; with two (three
million states) the same holds. *Sntp*: eight ticks and 256 parts to the second,
eight seconds to the era, starts just before the turn of each; that a tick is a whole
number of parts (`SntpAssumption`) makes a correct server's stamps exact, where real
ones are rounded by less than a microsecond. *SwitchFsm*: the limits
6, 90 and 3 s become 1, 2 and 1; what matters is a count below, at and beyond a
limit, and both are cut one above it. Two orders or two changes of the scene
reach every state of the machine from every other.

**Fairness.** `DataFifo`: every thread that can step does; whether another packet
comes is up to the board. `CoreLink`: the threads keep running; nothing is
assumed of the peers, `accept` may wait for ever. `Recorder`: the loop of
`thread_localsave` goes on whenever it can (it polls its fifos), but it cannot
while a `send` blocks; nothing is assumed of the streaming server, and `FilesClosed`
says of which behaviours it speaks (`[]<>~Blocked`). `CameraHolder`: the loop turns, the
camera answers what reaches it, time passes; losses are bounded by `MaxFault`
and orders are not fair. `SwitchFsm`: the detectors report several times a second
while the boards run, so events of each kind keep coming; strong fairness for
teacher events while the holder is free says that the holder is not busy at
*every* one of them, which its movements (a second or so each, started only by
such events) justify. `AutoFollows` also assumes that a detected teacher is not
hidden by a movement of the camera (`need_hiden`), and says nothing of a picture
an order chose by hand. `Tracking`: the threads turn, the camera sends pictures and
completes what reaches it; nobody has to walk, give orders or lose anything.
`Sntp`: client and server run, and the network delivers what it does not lose.
`DataFifo`'s `AllocReturns` is checked with one producer to a pool: where several
threads wait for the items of one consumer, nothing in `pthread_cond_wait` makes
the wake-up fair.

`CHECK_DEADLOCK FALSE` is set where the process may die of a fault (`fifo_fan_out`, `ingest`),
where the bound on connections ends the behaviour (`live`), where the threads may
really lock up (`pipeline`), and where the program ends (`sntp`).

## 4. Proofs

Every theorem holds for all values of the constants that satisfy the module's
assumption; where one needs more, the hypothesis is part of its statement and is
one of the exclusions of section 3. Every inductive invariant was checked by TLC on
small instances before it was proved.

### The frame queue

`DataFifoProofs` proves, from `DataFifoAssumption` alone (any finite set of
consumers, any set of producers, any connections without repetition, any pool
and buffer sizes, any calls, stray packets included):

- `TypeCorrect`: `Spec => []TypeOK`; the part that matters is `len[x] <= DataMaxLen`.
- `ReferenceCount`: `Spec => []RefcntExact`.
- `NoUseAfterFree`: `Spec => []RefsAlive`.
- `NoItemLost`: `Spec => []NoLeak`.
- `FramesAreStable`: `Spec => BufferStable`, an action property.

They follow from one inductive invariant (`Invariance`), the conjunction of

- `TypeOK`;
- `ListInv`: a list holds allocated items of its own pool, none of them twice,
  so that removing a head removes the item altogether;
- `CurInv`: a frame that is allocated and not yet linked is FILLING, of the
  thread's own pool and in no list;
- `CopyInv`: a thread about to copy has a FILLING tail, so the unlocked `memcpy`
  goes to a buffer nobody refers to: `RefsAlive` says that referenced frames are
  READY or DOING. `BufferStable` is exactly this;
- `ItemInv`: the frame being handed out is READY and in its list. This is why
  `datafifo.c` sets DOING last ("to prevent consumer's remove it", 137): while it
  is READY, `remove_check` stops at it, even when its count is 0;
- `CitemInv`: a consumer's item on its way is allocated, in no list, refers to
  the frame being handed out, and no two threads hold the same one;
- `ConsumerInv`: items in a consumer's list refer to producers' items, and a
  thread inside `remove_head` has a head;
- `RefsAlive`, `RefcntExact`, `NoLeak`, which need each other: a buffer is freed
  on count 0, which means no reference only because the count is exact.

One lemma per action shows that it preserves each part; `RemoveCheckEffect` is
the heart, because that action runs in threads of both kinds and frees several
buffers at once. The finiteness of the reference sets, which the cardinalities
need, follows from the finite pools.

`NoNullTail` (`~Stray`: no packet continues a frame that is not there) is
`Spec => []NoCrash`. It adds `TailInv`: a call that continues a frame finds the tail of
its list FILLING. No other thread can change that, because `remove_check`, which
runs in the consumers too, only takes items that are DOING.

### The queue implements the broadcast

`DataFifoProofs` proves `Implements`: `Spec => ImplementsBroadcast`. Handing out
begins in `Flush` or `CopyPacket`, which publish; `AddToConsumer` delivers to the next
consumer; `Release` consumes; every other action, `RemoveCheck` included, does not
show. The invariant above is extended by `HandedInv` (a consumer's item
on its way is a copy of the descriptor of the frame handed out, for the consumer
whose turn it is), `ArgsInv` (the packet being added is one of the board's) and
`BodyInv` (the first `len` bytes of a buffer were written). The mapping reads frames
through the consumers' pointers, so the heart is `FieldsKept`: no step of any thread
changes what an item says once a consumer can see it.

### The handlers and the queue

`IngestProofs`, for any boards, streams, frames and sizes of packets. `SysIsQueue` is
`SysSpec => Spec`: with the handlers as callers the queue behaves as its own
specification says, so that every theorem about it holds inside the server;
`SysImplements` is the refinement of `FrameBroadcast` among them. It rests on
`WiringAssumption` (the fifo of every stream that is taken exists, as `main` creates
them all) and on the types of what the handlers pass.

`SysNoNullTail` is `CrashNeedsMidFrame`, without `~Stray` and without a hypothesis:
the handlers, and not an assumption, see to it that no packet continues a frame
that is not there, unless a board itself goes on in the middle of one (`resume`),
which kills the server and does so in the run. For all other boards the invariant
relates three places: a stream inside a frame (`frame[s].next > 0`) has its fifo
inside a frame too (`Begun`: filling and idle, or anywhere on the way through
allocation, the flush of the frame before and its distribution, with a call that
does not end the frame), unless the call for its last packet is still in `todo`
(`StreamInv`); and a call in `todo` begins a frame or is the only one and finds its
frame filling (`PendingInv`). That the streams of a board go to different fifos is
needed: two streams in one fifo would end each other's frames.

`SysFramesWhole` is `FramesWhole`: no consumer ever sees a mixture of two frames, nor
part of one but in the cases the property names. It needs a buffer of at least one
byte (`DataMaxLen >= 1`) and nothing else: packets may be of any size, longer than a
buffer too. The invariant `WInv` says in `ContentInv` where the
packets are. For a stream that waits to send packet `k`, the tail of its fifo holds
of the packets `0 .. k - 1` of that frame those that fitted, each whole and in order,
and all of them if the frame fits (`Waits`); between two frames the
tail is finished, or too long for a buffer, or left over from a broken connection
(`Rests`). Both are carried through the call in `todo` (`Pending`) and every position
inside `data_add` (`InCall`): an allocation, which may wait while other threads go on;
the flush of the old tail, whose frame is then handed out; the link of the new one,
which is empty (`NewInv`); the copy. `TailKept` is what makes this possible: no other
thread, the consumers' `remove_check` included, touches a tail that is being filled.
From there the frames handed out are whole (`OutInv`), and the step to what the
consumers see is the refinement: queues change only as the broadcast's do
(`StepRefines`), so a frame that enters one is a frame that was handed out.

### The links

`CoreLinkProofs`, for every link, any number of connections, fifos of any length and
peers that may close inside a message: `NoConnectionLost` (`NoOrphan`),
`NoDeadDescriptor` (`NoDangling`), `ReceptionGivenUpRightly` (`RecverrIsCurrent`),
`ClosesDeadConnections` (`ClosesOnlyDead`, an action property). The invariant has
`ListenerAlone`: from the moment `thread_listen` sees -1 until it stores the new
socket nobody else writes the field, and `recverr` is down when it accepts, which
is why a flag of an old connection does not outlive it there (`senderr` has no such
protection, see `link_mute`). `FieldIsOpen` equates the field with what is open where
one thread does everything. `HeadChosen` says that the fifo core A's
sending thread takes a message from is not empty: nobody else drains it.

### The recorder

`RecorderProofs`, for any resource channels, fifos of any length and any frames:
`NoNullStream` (`NoCrash`, with `~FopenFails`), `FramesAreMarked` (`Marked`),
`NoFileReopened` (`NoReopen`) and `FilesDecodable` (`Decodable`). The difficulty is that
main accepts an order by its own status while the writer may still have any number
of them before it. `CtrlLegal` relates the two: there is a sequence of statuses that
leads from the writer's to main's, and every message in the control fifo is legal
in the status it will find. `Together` says the channels an order is for are in one
phase, `Prompt` that a request is carried out in the turn that takes it, `FilesMatch`
that the open files are those of the channels in use, `Unbroken` that a channel that
writes has the frame just before the next one.

### The live stream

`RecorderProofs`, last sections, for any number of connections:
`SingleConnection` (`OneConnection`), `HeaderAndPayloadAlternate` (`InStep`). `Handover`
is the reason no lock is needed: the connecting thread looks for a connection only
while the field is -1, and only it writes anything but -1. `Fresh` and `Alternates` tie
what the server expects to the position of the sending thread.

### The camera holders

`CameraHolderProofs`, for any number of losses and refusals, lines of any length and
both holders. All but `TypeCorrect` assume `Prompt`.

- `AnalysedAtRest` (`StillMeansStill`) needs `OneAtATime`: until an order interferes
  the teacher's holder has one command at a time under way, sent, being carried out
  or answered, and as long as it has, a flag is up that neither an error nor the
  timeout has taken down. So when an answer clears the flags, nothing moves.
- `PresetsAreRight` and `PositionIsKnown` also assume `Plain`: the teacher gets the orders
  home, pan and zoom (the student's holder gets every order). `Dialogue` says for
  each status what is under way and what the program has learnt; its point is that
  going back one status after an error or a timeout finds what the repeated step
  needs, for a step fails in one way at a time (`OneFailure`; failing twice would go
  back two statuses). `Table` says what the presets and limits are once initialised,
  a store under way included; `StoresAtRest` that such a store is first in line and
  the camera at rest. `Ahead` says that the target held by the program is where the
  commands still under way will lead the camera: the last of them that moves a
  coordinate decides about it. `DecidesLast` and `DecidesFirst` are the lemmas for a
  command that is appended and one that is taken.

### The director

`SwitchFsmProofs`, for any limits, durations and numbers of orders, events truthful or
not: `OneSituation` (`OneOfEach`), `TeacherIsReal` (`TeacherReal`) and, with
`InitialState \in Single`, `OverlayIsFed` (`OverlayFed`). `NobodyYet` strengthens
`TeacherReal`: as long as nobody was detected since Start the count of losses stays
where Start put it, so no event can make a captured teacher of it.

### Tracking

`TrackingProofs`, for rooms, ranges and queues of any size: `CameraStaysInZone`
(`InZone`), which needs that `PanPos`, the target and the goal are allowed places too
(`Places`), because lost answers make them differ and the next movement starts from
`PanPos`; and, with `Depth < SKIP_STEP`, `SamplesComparable` (`SamePlace`), which needs
`Skipped` (the pictures of the turn that are still under way are among those that
will be skipped) and `Continued` (the sample before the next one of a group is of
the same place).

### The threads and the queues

`TrackingProofs` also proves, for any boards connected and pools and queues of any size
(`PipelineAssumption`), both properties of `Pipeline`.

- `TheseJams`: `PipeSpec => []OnlyTheseJam`. The argument is about who can wait for
  whom. `OwnWork` is the invariant: a thread fills its own fifos only. `Edges` lists
  the threads behind the consumers of each fifo. Take any set of threads of which
  each waits for another of the set, without `thread_SwitchTracking`: `thread_analyze`
  waits only for that one, so it is not in the set; a board's thread then waits for
  `thread_img`, `thread_img` for `main`, and `main` for a board's thread, so the set
  holds `main` and `thread_img` with the fifos the property names.
- `JamsAreForEver`: `PipeSpec => JamIsForEver`, an action property. A thread that waits takes
  no step (`WaitingIsStill`); a step of any other leaves its work alone and only
  appends to the queues it drains (`Apart`, proved with the invariant by
  `StepPipeInv`), so buffers held are still held (`CountGrows`) and a full queue
  stays full. That a thread's input is a queue of its own, the other half of
  `OwnWork`, is what keeps strangers from taking a frame.

### The clock

`SntpProofs`: `TypeCorrect` and `ClockIsRight` (`RightToHalfASecond`), for any era, epoch,
resolution, offset and starting time, delays, losses, duplicates and refusals. Besides
`SntpAssumption` it uses `SntpDelays`: the delays there and back and a second make less
than half the era (68 years), without which a signed difference of timestamps
means nothing. The proof has two layers.

- Arithmetic. `DivModUnique`, `ModMultiple`, `ModSum` and `ModScaled` are about `%` and
  `\div`; from them come what the operators of `mysntp.h` and `SntpUtil.c` compute on
  times: `SysTime` and `UnixNtpTime` (the two kinds of timestamps as numbers modulo the
  era), `Elapsed` and `TimestampSum` (differences and sums do not see where the era
  turned over), `HalfOf` (the shift halves a signed difference that is less than half
  the era), `MeasuredHalf` (how far half of the two ways measured is from half of
  what they took: microseconds taken for parts of 2^-32 s cost at most half a
  second) and `AnswerTime` (the time the client sets).
- The exchange. `InTime` bounds the age of every datagram. `TellTheTruth` says what the
  timestamps of a datagram of the current round stand for: there is a reading `c` of
  the client's clock such that `tOrig` is its stamp, the clock has advanced from
  `c` by exactly the real time that has passed since, and the server's stamps are the
  real times of its two steps. `RightToHalfASecond` alone is not inductive, since
  it says nothing of an answer still under way; with these it is.

### Only model-checked

- Everything under fairness, which is out of the prover's reach: `BuffersRecycled`,
  `AllocReturns`, `LinkRecovers`, `FilesClosed`, `InitCompletes`, `AutoFollows`, `Follows`,
  `ScanCovers`, `Ends`.

Every invariant and every action property of the passing runs is a theorem.

## 5. Plan

Done: the modules of section 2. The first stage modelled the frame queue, the
links, the recorder, the live stream, the camera holders and the director and
proved the queue; the second composed the packet handlers with the queue
(`Ingest`), the threads with each other (`Pipeline`) and the samples with the camera
(`Tracking`), and added `Sntp`; the third proved the safety properties of all
components, the refinement of `FrameBroadcast`, that the handlers and the queue
together do not mix two frames and crash only for a board that goes on inside one, which threads can lock each other up
and that they never recover, and that the clock comes out right (section 4).

Models that would still add something: `Recorder` with file names and the
conversion thread (two recordings within one second share their names).

## 6. Not modelled

The repository is mostly other people's code: `src/ntp-4.2.6p5` alone, a copy of the
ntp distribution, is more than nine tenths of its lines, and ntpclient, mxml and
jpeg come on top. They are not this project's program and are left alone; the
share of all lines that the models cover is therefore small, while they cover
most of what runs in `recbc_srv.c` and all of `datafifo.c` that is called.

Of the server itself: what image analysis (`PC_CENTRIST`, 5219-5550) finds in a
picture is numerical; which pictures it compares is in `Tracking`. XML, RTC (whose
file does not compile), the text of messages and the command bytes are conversions
at the edge of the system; their results are constants or inputs here.
`CamZoom2internal` and its kin (542-830) rename attributes. `thread_mp4format` runs an
external program. `datafifo_disconnect` and `datafifo_consumer_clear` have no caller.
Code under `#if 0` (272-477, 1920-2240) is not built. The emulators are test tools.
Of `src/sntp`, the broadcast mode (whose socket is never bound), `ntp.c` and the older
client in `src/sntp_client` are variants of the exchange in `Sntp`.
