# Tiny-RTSPServer: TLA+ models and proofs

Tiny-RTSPServer streams H.264 and AAC files to RTSP clients.  This directory
models the parts of the program where threads meet and the places where frames
are cut and put together, checks them with TLC on small instances, and proves
with TLAPS, for every value of the constants, that the frame queue, the RTP
packetizer and the two file readers are correct, that connection handlers,
sessions, their threads and their ports are used only while they exist, and that the
server uses its queues in the way that the proofs about the queue take for granted.

## 1. The system

| Component | State | Operations | Talks to |
|---|---|---|---|
| `CircularQueue.h` | ring, write position, one position per session, `exit_`, two condition variables | `produce`, `consume`, `register_consumer`, `unregister_consumer`, `set_exit`, `set_run` | producer thread, sender threads, connection threads |
| `MediaSourceHandler.cpp` (tracks) | `is_active_`, the file, the producer thread, a queue | `start`, `stop`, `register_session`, `unregister_session`, `run_producer`, `read_next_frame` | its queue; called by sessions with no lock |
| `Session.cpp` | per track: `is_active_`, a sender thread, an RTP/RTCP handler | `add_media_track`, `start`, `pause`, `stop`, destructor | track, RTP handler |
| `SessionManager.cpp` | id to session table, `sessions_mutex_` | create, get, exists, terminate | called by connections; `terminate_session` joins threads with the mutex held |
| `ConnectionHandler.cpp` | socket, `session_id_`, the current request | `process` and one handler per method, destructor | session manager, media registry, port pool |
| `RtpRtcpHandler.cpp` | sockets, sequence number, timestamp, counters, report blocks | `send_rtp_packet`, two RTCP threads, `start`, `stop` | the client, over UDP |
| `RtspServer.cpp`, `ThreadPool.cpp` | listening socket, connection map, task queue, workers | accept, enqueue, worker loop, remove | connection handlers |
| `PortPool.h` | free port pairs | allocate, release (never called) | SETUP |
| `RtspMessage.cpp` | one message | parse, format | connection handler |
| `MediaSourceManager.cpp`, `main.cpp` | registry, filled before the server runs | lookup | connection handler |
| `Logger.h`; `ErrorHandling`, `RequestHandlers`, `ResourceManager` | none; empty files | | |

Threads: one accept loop; a pool thread per connection; per track one producer;
per playing session one sender; per `Session::start()` two short-lived RTCP
threads.  What is hard about the program:

* the producer waits for *all* sessions of a track, so one session can stall
  the others, and a stop must wake everybody it waits for;
* `terminate_session()` joins a sender thread with `sessions_mutex_` held;
* tracks have no lock: `start()` and `stop()` run in whatever connection thread
  calls them, and are serialised, if at all, by `sessions_mutex_`;
* `session_exists()`/`get_session()` are two critical sections;
* sessions are reference counted, so any thread may end up running `~Session`;
* assigning over, or destroying, a `std::thread` that was not joined ends the
  program, and so does a response to a client that has reset its connection:
  `send` has no `MSG_NOSIGNAL` and nothing ignores SIGPIPE;
* a SETUP that fails half-way, when the RTP ports cannot be bound, leaves a
  consumer in the track's queue.

What makes each component correct: the queue gives each session every frame in
order, once, and loses no wake-up; a track's file, flag and thread are used by
one thread at a time and are at rest when nobody is registered; a session's
sender never outlives it and never reads an unregistered position; a terminated
session goes away in finite time; a connection leaves no session behind; every
accepted connection gets a worker if one becomes free, and its handler is
destroyed once, after its last use; the RTCP threads end before the handler they
belong to; a reader returns the units of the file and the packetizer sends every
byte of a unit once, with the marks, sequence numbers and timestamps that a
receiver relies on.

The hazards, each at its line and with the properties that cover it, are in
`PROJECT.json`.

## 2. Modules

| Module | Models | State and actions |
|---|---|---|
| `FrameFifos` | what the queue promises: a bounded FIFO per session, a publisher that waits for all of them, and an end-of-stream flag | abstract specification |
| `CircularQueue` | `CircularQueue.h` | each variable is the member of the same name; `not_full`/`not_empty` are the sets of threads asleep on the condition variables; each method is one action, `produce` and `consume` are split at their `wait` |
| `MediaTrack` | the track: `start`, `stop`, `run_producer` | the steps between which other threads can act; the queue is instantiated with one anonymous frame |
| `RtspSessions` | connections, session table, sessions and sender threads, on top of `MediaTrack` | `pc[c]` is where connection thread `c` is; an object `o` is a `Session`; `sender[o]` its thread |
| `TwoTrackSession` | a `Session` with two tracks and the pool of ports | two instances of `MediaTrack`, each with variables of its own; `todo` is what a loop over `session_handlers_` has not visited yet; `port[t]`, `available_ports` are the pairs in use and free; `crashed` is what ended the program; `forgotten` and `asked` are history |
| `RtcpThreads` | `start`, `stop`, `send_rtcp_packet`, `receive_rtcp_packet`, `parse_rtcp_packet` of `RtpRtcpHandler` | `main`, `sending` and `receiving` are where the three threads are, `blocks` the keys of `rtcp_report_blocks_` |
| `RtpPacketizer` | `send_rtp_packet`, `send_h264`, `send_aac` | a packet is a step, as the loop makes it; counters are the members of the same name, `offset` is the loop's |
| `H264Reader` | `H264MediaTrack::read_next_frame` | `pos` and `eof` are the state of `h264_file_`; a step is one iteration of the `while` loop, ended by a return (`ReturnFrame`) or not (`SkipBlock`) |
| `AacReader` | `AACMediaTrack::read_next_frame` | `pos` is the position in `aac_file_`; a frame is a step |
| `Readers` | the `run_producer` of a track, which calls the reader of its media type | `track` is the type; the variables of both readers |
| `RtspServer` | `RTSPServer`, `ThreadPool`, the life of a `ConnectionHandler` | `starter[c]` is the `handle_client` thread of a connection, `pc[w]` a worker, `destructor[c]` the destructor in whichever thread runs it, `file` the kernel's descriptor table |
| `MCCircularQueue`, `MCRtspSessions`, `MCTwoTrackSession`, `MCRtcpThreads`, `MCRtpPacketizer`, `MCRtspServer`, `MCReaders` | instances | constants only |
| `CircularQueue_proofs`, `RtpPacketizer_proofs`, `Readers_proofs`, `AacReader_proofs`, `RtspServer_proofs`, `RtspSessions_proofs`, `RtcpThreads_proofs`, `TwoTrackSession_proofs` | theorems | |

`RtspSessions` instantiates `MediaTrack`, which instantiates `CircularQueue`; all
of them share variables, so a step of a sender is a step of the real queue.  What
`consume` returned is kept per session (`returned[c]`), as are the positions.
`TwoTrackSession` does the same with two tracks.  The two divide the work:
`RtspSessions` has many connections, the table, its mutex and the reference
counts, with one track per session; `TwoTrackSession` has one client at a time
and the loops over the tracks of a session, in any order, since
`session_handlers_` is an `unordered_map`.  That client uses the session it was
given (its first SETUP is the one without a Session header) and is otherwise free: it
may set up a track again that it plays, play what it has paused, and leave at any
point.  Two of these end the program, at `Session.cpp:43` and `:54`, and the
model goes there (`Crash`).  Two history variables, which no step depends on, are for the
properties: `forgotten[t]` collects the sessions whose SETUP of a new track failed to
bind its ports (`BindFails`: `Session.cpp:38` has registered them and nobody will
unregister them), and `asked[t]` says whether a request was a repeated one.  The other modules touch the rest at
one point each, and stand alone: a worker's `process` step is the whole of a
connection thread in `RtspSessions`, `SenderGetsFrame` there hands a frame to the
packetizer, `ProducerReadsFrame` calls a reader, and `SpawnSender` ends with the `stop()` of
`RtcpThreads`, whose return is `StopReturns` there.

Atomicity.  A method of the queue holds the queue's mutex, so it is one step,
split where `wait` releases it.  `session_exists`, `get_session` and
`create_session` are one step each that needs `sessions_mutex_` free;
`terminate_session` holds `lock` across its steps.  `is_active_` (track and
session) is a plain `bool` read in loops that contain calls the compiler cannot
see through: a read returns the current value.  In `RtspSessions` the following
are one step because nothing another thread can observe lies in between:
`StopSignals` (`is_active_ = false` and the first `set_exit`), `StartOpens`
(`is_exit`, `set_run` and `open`), `StopEndsAndCloses`.  Spurious wake-ups are
part of `CircularQueue`, where they are shown harmless, and left out of
`RtspSessions`, where they would only add repetitions of a loop test.

In `RtspServer` each critical section of the pool or of the connection map is a
step, and so is each effect outside of one: the notification (after the unlock),
each `close`, the return of `handle_client`, which drops its reference.  In
`RtcpThreads` a test of `is_running_`, the filling of the report under
the mutex, the `sendto` after it, and each report block that goes into the map are
steps.  `is_running_` is a plain `bool` (`RtpRtcpHandler.h:97`), like `is_active_`: the
loops that test it make system calls, so a test reads the current value.  The packets of one unit are kept in `packets` so that they can be compared.

Abstractions.  A request is `<<connection, method, Session header>>`.  Sending
a response can fail by ending the connection, which `Disconnect` covers, or by ending
the program, when the signal SIGPIPE comes first (`SendKills`, with the fault
`"send"` of `two_clients`; the other runs and `TwoTrackSession` leave it out, since
nothing but the crash itself comes of it).
A frame is anonymous in `RtspSessions`, distinguishable in the queue's own run.
Sleeps (frame pacing, the 5-second RTCP period) are delays, which an
interleaving model has anyway.  In `RtspSessions` a session has one track;
`session_handlers_` is then one entry, `handler[o]`.  A generated session id is new (the code: the
time and six random digits); the collision is not modelled.  Ids are drawn from a
small set, and one is new as long as no session, no connection and no queue knows it
(`Unused`): an id that a failed `bind` left in a queue is never given out again, and a
run makes no further session when none is left.  A unit is a type
and a size, its bytes are numbered, and a packet carries a range of them.  A file
is its size and the places of its start codes; that it begins with one is what
the comment at `MediaSourceHandler.cpp:48` assumes, and that two of them do not
touch is what a NAL unit with a header byte gives.  An ADTS
header is a length of 13 bits and the bits next to it.  Of an RTCP report only its
length field, its blocks (by SSRC) and the size of the datagram are kept; what
`parse_rtcp_packet` reads behind the end of a datagram is what an earlier one left
in the buffer, so any sources may come out of it.  A descriptor is a number, and
the kernel gives the lowest free one.  A `sendto` that fails is logged and
forgotten, so it changes nothing.

## 3. Runs

| Run | Instance | Result |
|---|---|---|
| `queue` | 2 sessions, 2 frames, 3 slots | `TypeOK`, `SleepingSendersHaveNothingToDo`, `OnlyMembershipStrandsTheProducer`, `NoSenderStarves` and the refinement `ImplementsFrameFifos` hold |
| `one_client` | 1 connection, `open` may fail, 2 slots, 3 frames | no deadlock (checked), teardown and the stream end |
| `two_clients` | 2 connections with a session each, set up once and not paused, `send` may raise SIGPIPE, 2 slots, 2 frames | structure: senders registered, registrations owned, file open while read, start and stop exclusive, sessions end with their connection; the only crashes are that of two racing PLAYs and SIGPIPE; the queue is used by the rules of `CircularQueue` (`UsesTheQueueByItsRules`: what happens to the queue is a behaviour of `CircularQueue!Spec`) |
| `shared_session` | 2 connections set up and drive one session, PAUSE, `bind` and `open` may fail, 3 `Session` objects, an empty file | no session is used or kept once nobody can refer to it, the sender never outlives it, it is destroyed once |
| `two_tracks` | 1 client at a time, 2 session ids, video and audio in any order and any number of times, PAUSE, `open` may fail for both tracks and `bind` for the video, 2 pairs of ports, 2 slots, 2 frames | when a session is gone nothing of it is left but the consumers of SETUPs that failed to bind; a joinable thread is destroyed only by a repeated request; ports are exclusive while there are any; the end of a connection completes, unless one of its tracks holds a forgotten consumer or was asked for again |
| `rtcp` | 2 starts, 3 sources | no thread outlives the handler, `stop()` returns, no report is shorter than it says, none leaves after `stop()` |
| `packetizer` | packets of 1024 bytes; units of 1 to 3032 bytes at every limit of the loop, SPS/PPS, units without a start code, AAC frames up to 1018 bytes; counters of two bits | the packets are the unit, marked, numbered, timed, and no larger than allowed (video) |
| `reader` | blocks of 12 bytes, every file of 1 to 4 units of 4, 5, 8, 9 or 13 bytes, short and long start codes; ADTS files of 1 to 3 frames | the frames are the units, or the contents of the audio frames; only units of the last block are lost |
| `server` | 3 connections, 2 workers, 2 descriptor numbers | no task is forgotten; handlers live exactly as long as they are used; a descriptor is another client's only after a second `close` |
| `pause_then_play` | one client that may PAUSE | **violated**: PLAY after PAUSE ends the program |
| `late_play` | as `two_clients` | **violated**: after the end of the file another session's PLAY finds an active track that has ended |
| `silent_client` | second client only sends SETUP | **violated**: TEARDOWN never returns and keeps `sessions_mutex_` |

Bounds.  Two sessions are the least that can hold each other up, and every
hazard found needs two parties or fewer.  Three slots let a session be two
frames behind, so order, wrap-around, a full ring and lapping all occur; in
`RtspSessions` two slots and a file at least as long make the producer wait for
every session that does not read, and wait in `stop()` too.  `FileFrames` is at
least `Capacity` there, as with any real file: a shorter one could be read before
the session that started it reads anything.  In `shared_session` the question is
who holds a reference when, not what the queue carries: its file is empty (a file
with nothing in it, which the code plays and ends at once), which leaves room for
a third object and for both connections to SETUP the same id, PAUSE it and fail.
`Objects` has a spare for every connection that may still hold a replaced session.  Clients named in `Orderly`
ask for one new session per connection.

In `two_tracks` two pairs of ports are used up by the second SETUP, and as no code
puts them back the next session gets the pair -1; both cases of `PortsAreExclusive`
are reached.  Two ids are one for a session that is forgotten and one for a session
that comes after it and meets its consumer; `bind` fails for the video only, as the two tracks
are alike.  `MCView` compares states by how far behind the producer a consumer is, and
not by the slots of the ring that are meant or by what was read from them, a frame that
is always the same: neither makes a difference to what a thread can do, nor do the
properties speak of them.  In `rtcp` the second start is the one that finds `is_running_` false,
and three blocks are enough for the map to grow between the filling of a report
and its sending, and within the parsing of one datagram.

The packetizer runs with the real packet size, since its limits are numbers: 1012
bytes of payload, 1010 per fragment, a loop that starts at byte 1, so 1012/1013,
2021/2022 and 3031/3032 are the sizes at which the number of fragments changes.
Its counters wrap at 4 so that they wrap within a unit.  In the reader, 8 + 4 and
9 + 3 bytes fill a block exactly, 13 bytes do not fit, and sums of unit sizes
place start codes before, across and behind the ends of blocks and make files
whose size is a multiple of the block.  The lengths of the audio frames, 3, 7, 8,
255, 2047, 2048 and 8191, are those at which a header tells less than itself, an
empty frame, and a carry from one of its three bytes to the next; a file may also
be cut off by a byte.  Two descriptor numbers for three
connections make `accept` fail, numbers be used again, and the second `close` hit
another connection.

Deadlock is checked in `queue`, `one_client`, `packetizer` and `server`
(in `server` it says little, because an idle worker may always wake up for nothing:
`QueuedConnectionIsServed` is the property to look at).  It is not in the other
runs, where the model can really stop: a crash ends the program (in `two_clients`,
`shared_session` and `two_tracks`), a producer that waits for a forgotten consumer is
joined for ever, two clients can hang the server as `silent_client` shows, an RTP/RTCP handler is destroyed, and a reader
ends at the end of its file.

Fairness.  `CircularQueue!FairSpec` is weakly fair to the senders only: a
runnable thread runs.  `RtspSessions!FairSpec` is weakly fair to each connection
thread *while it serves a request*, each sender and the producer; a client owes
nothing, it may stay silent for ever.  `std::mutex` gives no more than weak
fairness, and no property here needs more.  `TwoTrackSession!FairSpec` is the same
with one connection.  A program that has ended owes nothing.  `RtcpThreads!FairSpec` is weakly fair to the owner once it has
called `start()`, and to the two threads: a sleep ends, and `recvfrom` times out,
because the socket has `SO_RCVTIMEO`; nothing is assumed about datagrams.  `RtspServer!FairSpec` is weakly fair
to each `handle_client` thread, each worker and the second `close` of a
destructor; there is none for `ProcessReturns` (the client decides) and
`SessionTerminated` (`silent_client` shows that it may never come), so
`QueuedConnectionIsServed` excepts the case that these hold all workers.

Findings (details in `PROJECT.json`).
1. `Session::start()` after `pause()` replaces a joinable thread.
2. `is_active_` stays true at the end of the file.
3. `terminate_session()` can block for ever with `sessions_mutex_` held.  In the
   counterexample the other client *does* try to leave, and waits for the mutex.

Met while modelling, and not findings of a run, because nothing in the
repository promises otherwise or because the model leaves the case out:
* `unregister_consumer()` and `register_consumer()` do not notify a producer that
  waits for the slot they free; `OnlyMembershipStrandsTheProducer` says that nothing
  else strands it.  The next `set_exit()` wakes it.
* The descriptor of a connection is closed twice, by the task (`RtspServer.cpp:87`)
  and by `~ConnectionHandler` (`ConnectionHandler.cpp:26`); the second close may hit a
  newer connection with the same number.  `OnlyTheSecondCloseHurts` says that this
  is the only way in which one connection reaches another's descriptor.
* `RtpRtcpHandler::stop()` clears `is_running_` and nothing sets it again: as
  `Session::start()` calls both, a session sends at most one sender report, after
  the five seconds that PLAY then waits for each track.
* A sender report goes to `client_addr_`, which the sender thread fills with the RTP
  port; `receive_rtcp_packet()` looks at `rr` after a `recvfrom` that failed, and a
  BYE never ends the thread.
* `allocate_port_pair()` returns -1 when the pool is empty, which SETUP uses as a
  port; no code calls `release_port_pair()`.
* PLAY of two tracks whose second file cannot be opened leaves the first one
  playing; `TracksAreReleased` and `LeavingCompletes` show that leaving the
  connection cleans up all the same.
* A SETUP whose ports cannot be bound leaves its session in the track's queue
  (`Session.cpp:38`): the producer of the track waits for it for ever, later sessions
  do not stop the track, and one that has taken all there is to read cannot be torn down.
  `TracksAreReleased` says that this is the only thing that is left behind.
* A second SETUP of a track that was played, by the same client, ends the program
  (`Session.cpp:43`), as the PLAY after PAUSE of finding 1 does;
  `OnlyRepeatedRequestsReplaceThreads` says that nothing else destroys a joinable thread of a
  session's own.  A second SETUP without a Session header makes the connection forget
  its first session (`ConnectionHandler.cpp:220`), which `SetupOnce` excludes.
* `send` may raise SIGPIPE (`ConnectionHandler.cpp:106`), which ends the server.
* `read_next_frame()` drops everything behind the first unit of the last block it
  reads, because `eof()` is set by the read and not by the position.
  `OnlyTheLastBlockIsLost` bounds the loss; a file of less than 512 KiB plays a
  single unit.
* `send_aac()` compares no size: frames of more than 1008 bytes make packets
  above `MAX_RTP_PACKET_SIZE`, which is why `VideoPacketsFit` is about video.
* No response carries a `CSeq` header: `set_cseq()` stores the number in `cseq_`
  (`RtspMessage.cpp:143`), and `create_response()` writes only `headers_`
  (`RtspMessage.cpp:124`).
* The timestamp stays after SPS and PPS only if they fit in a packet.
* `total_rtp_packet_sent_`, which is the packet count of the sender reports, counts
  units and not packets.

`shared_session` also reaches the null dereference after `session_exists()`
(`ConnectionHandler.cpp:262`), and `two_clients` the crash of two PLAYs that both
find the track inactive.

## 4. Proofs

`CircularQueue_proofs`, for any set of sessions, any frames and any capacity
above zero (`CapacityAssumption`, `NoFrameAssumption`):

* `TypeCorrect`: `Spec => []TypeOK`; `TypeOK` is inductive by itself.
* `NoSenderWakeupIsLost`: `Spec => []SleepingSendersHaveNothingToDo`, inductive
  next to `TypeOK` (lemma `SendersStep`).  A write and a stop empty `not_empty`;
  the one step that needs care is leaving, which a session does not do while its
  sender sleeps: that is a rule for the queue's users, and `SessionsKeepTheRulesOfTheQueue`
  and `QueuesAreUsedByTheirRules` below prove that the server keeps it.
* `WhoStrandsTheProducer`: only membership changes free a slot silently.
* `RingImplementsFifos`: the refinement of `FrameFifos`.  The mapping reads the
  slots from a session's position up to the write position as its FIFO.  The
  lemmas on ring arithmetic (`LagAfterWrite`, `LagAfterRead`, `SlotPastUnread`,
  `UnreadSlots`) give `WriteAppends` and `ReadTakesHead`, which are the
  simulation of `Publish` and `Take`; `TypeOK` is the only invariant needed.

`RtpPacketizer_proofs`, for any packet and unit sizes (`SizesAssumption`: a
payload has room for more than the FU header; `UnitsAssumption`: units are not
empty, AAC frames are at most what an ADTS header can say):

* one inductive invariant, `IInv == TypeOK /\ LoopInv /\ Safe`.  `Safe` is the
  conjunction of the six safety properties the run checks.  It is not inductive
  alone: `LoopInv` adds that the loop only runs for H.264 units that do not fit,
  and `TypeOK` that the offset stays inside the unit, which is what makes the
  unsigned subtraction `payload_size - offset` harmless.
* lemma `Invariance`: `Spec => []IInv`; the theorems `TypeCorrect`,
  `FragmentsAreTheUnit`, `ReceiverSeesBeginAndEnd`, `VideoFits`, `Numbers`, `Times` and
  `AuHeaderIsRight` are read off it.  `AuHeaderIsRight` rests on
  `AuHeaderInverse`: shifting and masking 13 bits loses none.

`Readers_proofs`, for any file and block size (`FilesAssumption`: the file begins
with a start code, and start codes do not touch or overlap):

* `FramesAreUnits` needs to know where the next read begins: `PosInv` says that
  before a read the position is the end of the last frame and on a start code, or
  that nothing is left.  `IInv` is its conjunction with `TypeOK` and the two
  properties.  `FirstIsNext` is the core: if a block begins at a start code, the
  first offset the loop accepts is the next start code, although the loop also
  takes the last three bytes of a long one for a short one.  `NothingSeen` says
  that, units being no larger than a block, a block without a start code is the
  rest of the file.
* theorems `TypeCorrect`, `FramesAreTheUnits`, `LossIsBounded`.
* `TracksReadTheirFiles` puts the two readers together: a track keeps its type and the
  reader of the other type never returns anything, so what is proved of each reader,
  here and in `AacReader_proofs`, holds of the specification that the run `reader` checks.

`AacReader_proofs`, for any files whose headers are ADTS headers (`FilesAreAdts`, an
assumption of the theorem, and the assumption `AacFilesAssumption` of `Readers`, which TLC
evaluates for the files of `MCReaders`):

* `AudioIsTheFile`: `Spec => []FramesAreContents`, with the position at the end of
  the last frame as the strengthening.  It rests on `FrameSizeInverse`: the length
  put together from three masked and shifted bytes is the one that was written,
  whatever the neighbouring bits.

`RtcpThreads_proofs`, for any finite set of sources and any number of starts (`IInv` of five
parts).  `Joined` adds to `HandlerOutlivesItsThreads` that the send thread is gone while
the owner joins the other.  `MaySend` says that a thread that is
past its test of `is_running_` is a thread that `stop()` still has to join, which is
what `ReportsEndWithStop` needs.  `ReportIsOld` and `ReportIsWhole` follow the report
from the mutex to `sendto`: the map of blocks can only have grown in between, so the
datagram is too long for its header and never too short.  Theorems
`ThreadsEndFirst`, `ReportsAreWhole`, `ReportsEndWithStop`.

`RtspServer_proofs`, for any connections, descriptor numbers and finitely many
workers (`WorkersAssumption`):

* The life of a handler.  `Order` says that a task goes once from its starter through
  the queue to one worker; `Dead`, that once the destructor runs
  none of starter, queue, worker and map refers to it; `Mapped` adds to `MappedHandlersAreInUse` that an entry is at the number of its
  connection, so that the task that erases this number erases the handler it served,
  or one that is newer and has a starter or task of its own.  Theorems `MapKeepsNothingAlive`, `HandlersAreDestroyedLast`.
* `DescriptorsAreOwn` needs `Open`: a connection that is being served has its
  descriptor, unless one that had the same number has done its second `close`.
* `NoTaskIsForgotten`: `Enough` counts the tasks against the workers that are awake
  and the notifications on their way; the steps are arguments on cardinalities, and the
  finiteness of the set of notifications is part of the invariant.

`RtspSessions_proofs`, for any connections, requests, drawn ids, faults, files and
capacities (`FrameAssumption`: a frame is not the null pointer), in layers:
each invariant is inductive next to the ones before it.  First, for any clients at all:

* `TypeCorrect`: every variable keeps its type.
* The life of a Session, whatever the track does.  `PcInv` says at which labels a thread
  has the id of a session, a reference to one, and one that it destroys.  `DyingInv`
  says in which of two ways a session goes away.  It is `Held`: in the table, stopped
  by the thread that has the mutex; or `Gone`: not in the table and referred to by no
  handler, so that nobody can get at it again.  As only one thread has the mutex, a
  session is terminated once, and one that is `Gone` cannot be found, terminated or
  released by another.  `SenderInv`: behind the join of `~Session` the session has no
  sender.  A PLAY that is under way when TEARDOWN erases the session holds a reference,
  so the session is not `Gone`, and the sender it starts is joined by `~Session`.
  Theorems `LiveWhileReferenced`, `DestroyedOnce`, `SendersEndFirst`.
* What a session has.  `HandlerInv`: an entry of `session_handlers_` belongs to a session
  that exists, a sender thread to an entry, and a thread that sleeps in `consume()` is a
  sender.
* `NoConsumerIsForgotten`, if no `bind` fails.  `PositionInv`: each position has an owner of
  its name that will still erase it (`Serving`: it has an entry and its destructor is not
  past `unregister_session()`), or that SETUP is attaching.  Two `Session` objects may have
  one name, when one that was terminated is still referenced and a SETUP names its id
  again.  The sender of the older one can then put back the position that the newer one has
  erased; it stays owned, because that sender is joined before its own session
  unregisters.  With a failing `bind` the statement is false, which is a hazard in
  `PROJECT.json` (`Session.cpp:38`).
* `AStalledStreamIsHeldUpByAnIdleSession`, if no `bind` fails and the ring has more than
  one slot (it has 25 or 43).  `SleepInv`: a sleeping sender has read everything, or its
  position is gone, or another session of its name, which is awake, moves their common
  position.  When the producer sleeps too, the position in the slot after the one it writes
  has an owner (`PositionInv`) and is not the write position, so not every owner is a
  sleeping sender: there is a session without a sender.  With one slot the slot
  after is the same slot, and the producer waits for sessions that have nothing to read.

The other theorems are about clients that keep to their own sessions (`OwnSessions`: no
id is named by, or drawn for, two connections).  Nothing in the code enforces it; but an
id is a time and six random digits, told to one client, so these are the clients that
follow the protocol.  It is not a convenience: without it TLC refutes
`SendersAreRegistered`, `TrackIsNotStartedWhileStopped`, `ProducerHasOpenFile`,
`SessionsDoNotOutliveTheirConnection` and `OnlyRacingStartsCrash` with the constants of
`shared_session`: a second connection erases a session between `session_exists()` and
`get_session()`, or sets one up whose name is in use.
Under it a session is destroyed inside `terminate_session()`, under the mutex
(`OwnInv`), which is what all of the following rests on:

* `SendersStayRegistered`.  `RegInv` follows a registration from `register_session()`
  through the `SessionHandler` to `unregister_session()`: a handler's session is
  registered, up to where its destructor ends that.
* `TrackStartsAndStopsApart`, `ProducerReadsAnOpenFile`.  A PLAY takes the mutex only to
  find its session and starts the track outside of it, while `stop()` runs under the
  mutex, so the mutex alone does not keep them apart.  `TrackInv` says why they are:
  the track is stopped only when no session is registered, and a PLAY whose session is
  not attached has no `SessionHandler` to start.  The session of a PLAY that is under
  way is registered, so no other session is the last one to leave.
* `SessionsKeepTheRulesOfTheQueue`: `Spec => UsesTheQueueByItsRules`, the composition of
  server and queue.  The mapping is the identity except that a sleeping thread goes by
  the name of its session (`SessionQueue`).  Each step of the server that touches the
  queue is shown to be a step of `CircularQueue`, with its guard; the rest leave it
  alone.  A `consume()` needs a registered session, an `unregister_consumer()` one whose
  sender does not sleep (`RegInv`: the sender has been joined), and two threads of one
  name would be one in the mapping, which is where `OwnSessions` comes in.
* `SessionsAreServedByFifos`: hence the theorems about the queue hold of the server,
  `RingImplementsFifos` among them.  Frames are all alike in `RtspSessions`, so what
  this says is that a session has a FIFO of its own, misses no frame of it and takes
  each once; that they come in order is what `RingImplementsFifos` says for any frames.
* `SessionsEndWithTheirConnection`, for clients that SETUP once and name no session in it
  (`SetupOnce`).  A second SETUP overwrites `session_id_`, which is all that
  `~ConnectionHandler` knows.  `OwnerInv` says that a session's id is in its connection's
  `session_id_`, or that the connection is about to terminate it (`Keeps`), and that
  SETUP creates an id only while no session has it (`Once`).
* `OnlyRacingPlaysEndTheServer`, for clients that also do not pause (`NoPause`: a PLAY
  after a PAUSE assigns to a joinable thread, which is the finding of `pause_then_play`; a
  second SETUP, which `SetupOnce` excludes, would destroy one).  The other way is SIGPIPE, in every state
  in which a response is sent.
  `PlayInv`: a session that does not play has no joinable sender, except while it is
  being joined; between the test of `is_active_` and the assignment nobody else starts one.

Each action that changes what a layer speaks of has a lemma of its own; the others are
instances of a lemma that says what a step may change (`ThreadMoves`, `SenderMoves`,
`RegStays`, `QueueStays`, `OwnerMoves` and so on).  The hypotheses hold together: in
`MCRtspSessions`, `TwoClientsAssumption` lets TLC evaluate them for the constants of
`two_clients`, whose run checks the seven properties.

`TwoTrackSession_proofs`, for any pool, queue, file and faults, any set of session ids, and
any requests of a client within its session (`PairsAssumption`: the pairs of the pool are
different; `QueueAssumption`: the ring has a slot and a frame is not the null pointer;
`SessionAssumption`: no id is "no session").  A step that destroys a joinable
thread changes nothing but `crashed`, which lemma `StepCases` uses to deal with all of them
at once.

* `PortsAreOwn`: the pair that SETUP has drawn is followed from the pool to the
  handler (`PairInv`); where the bind fails it is lost.
* `ThreadsAreReplacedOnRequestOnly`.  `ProducersInv` says that a track that is not active
  has no producer unless `stop()` is just joining it.  A sender can be destroyed
  unjoined, so what is to be shown is who asks for that.  `AskedInv` ties the requests to
  the threads: between requests a track that was played has a joinable sender exactly if
  it is marked as playing, or was paused (`Settled`), and one that the loop of
  `start()` has not visited has a sender that it would replace only if it was asked for
  again (`ToStart`), whichever order the `unordered_map` gives.
* `OnlyFailedSetupsLeaveAConsumer`.  `LoopInv` says that the loops visit entries of
  `session_handlers_`, and `JoinedInv` that the loop of `stop()` has joined the senders of
  the entries it has visited.  `MembersInv` accounts for the queues: their consumers are
  the forgotten ones and the session, where it has an entry that the destructor has not
  visited.  `RestInv` says that a track without an entry, or one that the destructor's loop
  has left, is at rest if nobody was forgotten in it.  The one the loop is at gets there step by
  step: `exit_` stays set, so its producer cannot sleep again.
* `QueuesAreUsedByTheirRules` (`Spec => UseTheQueuesByTheirRules`) and, from it and the
  theorems about the queue, `TracksAreServedByFifos`, for both tracks, forgotten consumers
  included.  A sender's session is a member of its queue (`MembersInv`), only a sender of
  the session sleeps in it (`SleepInv`), and `JoinedInv` says that none is left when the
  loop of `~Session` unregisters.

Only model-checked: the liveness properties (`TeardownCompletes`, `StreamEnds`,
`NoSenderStarves`, `QueuedConnectionIsServed`, `StopReturns`, `LeavingCompletes`), because
fairness and ENABLED are out of the prover's reach.  Every safety property of a passing run
is the subject of a theorem.  `UseTheQueuesByTheirRules` has a theorem and no run:
`two_clients` asks TLC the same question of one track.
No theorem is by induction over data, which the installed provers cannot do; the invariants
above talk about all packets of a unit and all frames of a file instead.

## 5. Plan

1. (done) queue, abstract FIFOs, track, sessions; proofs about the queue.
2. (done) `RtpPacketizer` and `H264Reader` with their proofs; `RtspServer`.
3. (done) `RtcpThreads`, `AacReader`, `TwoTrackSession` with the port pool, and
   sessions set up by two connections in `shared_session`.
4. (done) proofs about `RtspServer`, `RtcpThreads`, `RtspSessions` and
   `TwoTrackSession`.
5. (done) the other safety properties of `RtspSessions`, layer by layer.
6. (done) `RegistrationsHaveAnOwner` and `StalledStreamHasAnIdleSession` for clients that
   share a session; `RtspSessions` and `TwoTrackSession` use `CircularQueue` by its
   rules, hence implement `FrameFifos`; the two readers put together.
7. (open) that `RtspSessions` implements, for each session, the abstract life created,
   playing, destroyed; and that the end of `SpawnSender` is implemented by the `stop()` of
   `RtcpThreads`, a correspondence that section 2 states and nothing checks.

## Not modelled

* `RtspMessage.cpp`: text parsing and formatting; a request is received whole and is
  what the client sent.  That one `recv` is taken for one message is a hazard in
  `PROJECT.json`.
* SDP, logging, and the empty files.
* `MediaSourceManager`: filled before the server runs and constant from then on.
