-------------------------- MODULE TwoTrackSession ---------------------------
(***************************************************************************)
(* A Session with two tracks: the loops of Session.cpp over                *)
(* session_handlers_, with a MediaTrack and its queue for each entry, and  *)
(* the pool of ports that every SETUP takes a pair from.                   *)
(*                                                                         *)
(* One client at a time, which uses the session it was given: the table of *)
(* sessions, its mutex and the counting of references are module           *)
(* RtspSessions, which has one track.  Within its session a client may     *)
(* send any requests in any order.  The order in which an unordered_map is *)
(* visited is not specified: any.  A send() that raises SIGPIPE, which     *)
(* ends the program wherever it is, is left to RtspSessions too.           *)
(***************************************************************************)
EXTENDS Integers, Sequences

CONSTANTS
  SessionIds,  \* the session ids in use: one session at a time
  NoSession,   \* no id
  Frame, NoFrame, Capacity, FileFrames,   \* see MediaTrack
  Faults,      \* what may fail: "bind" or "open", with the track it fails for
  Pairs        \* the pairs of ports in the pool, in order

ASSUME QueueAssumption == Capacity \in Nat \ {0} /\ Frame # NoFrame
ASSUME SessionAssumption == NoSession \notin SessionIds
ASSUME PairsAssumption ==
  /\ Pairs \in Seq(Nat)
  /\ \A i, j \in DOMAIN Pairs : Pairs[i] = Pairs[j] => i = j

Tracks    == {"video", "audio"}
NoPair    == -1     \* what an empty pool gives
NoSockets == -2     \* no RtpRtcpHandler
NoTrack   == "none"

VARIABLES
  v_buffer, v_write_position, v_consumer_positions, v_exit, v_not_full,
  v_not_empty, v_returned, v_is_active, v_file, v_producer,
  a_buffer, a_write_position, a_consumer_positions, a_exit, a_not_full,
  a_not_empty, a_returned, a_is_active, a_file, a_producer,
  session,          \* the id of the session in the table, or NoSession
  handlers,         \* the keys of session_handlers_
  playing,          \* playing[t]: is_active_ of the entry
  sender,           \* sender[t]: its sender_thread_, or "none"
  port,             \* port[t]: the pair its RtpRtcpHandler is bound to
  available_ports,  \* available_ports_
  pc,               \* where the connection thread is
  todo,             \* the entries that a loop has not visited yet
  track,            \* the track it is at, or NoTrack
  pair,             \* server_port in handle_setup()
  crashed,          \* what ended the program, or "no"
  forgotten,        \* history: the sessions whose SETUP of a new track failed to bind
  asked             \* history: what the client asked for each track of its session

videoVars == <<v_buffer, v_write_position, v_consumer_positions, v_exit, v_not_full,
               v_not_empty, v_returned, v_is_active, v_file, v_producer>>
audioVars == <<a_buffer, a_write_position, a_consumer_positions, a_exit, a_not_full,
               a_not_empty, a_returned, a_is_active, a_file, a_producer>>
videoTrack  == <<v_is_active, v_file, v_producer>>
audioTrack  == <<a_is_active, a_file, a_producer>>
mediaVars   == <<videoVars, audioVars>>
sessionVars == <<session, handlers, playing, sender, port, available_ports>>
localVars   == <<todo, track, pair>>
historyVars == <<forgotten, asked>>     \* no step depends on them
vars == <<mediaVars, sessionVars, pc, localVars, crashed, historyVars>>

V == INSTANCE MediaTrack WITH
  SessionIds <- SessionIds, buffer <- v_buffer, write_position <- v_write_position,
  consumer_positions <- v_consumer_positions, exit <- v_exit, not_full <- v_not_full,
  not_empty <- v_not_empty, returned <- v_returned, is_active <- v_is_active,
  file <- v_file, producer <- v_producer

A == INSTANCE MediaTrack WITH
  SessionIds <- SessionIds, buffer <- a_buffer, write_position <- a_write_position,
  consumer_positions <- a_consumer_positions, exit <- a_exit, not_full <- a_not_full,
  not_empty <- a_not_empty, returned <- a_returned, is_active <- a_is_active,
  file <- a_file, producer <- a_producer

(* A step of the one track or the other. *)
On(t, video, audio) ==
  \/ t = "video" /\ video /\ UNCHANGED audioVars
  \/ t = "audio" /\ audio /\ UNCHANGED videoVars

Is(t, video, audio) == IF t = "video" THEN video ELSE audio

Joinable(thread)    == thread # "none"
JoinReturns(thread) == thread \in {"none", "finished"}

Init ==
  /\ V!InitTrack /\ A!InitTrack
  /\ session = NoSession
  /\ handlers = {}
  /\ playing = [t \in Tracks |-> FALSE]
  /\ sender = [t \in Tracks |-> "none"]
  /\ port = [t \in Tracks |-> NoSockets]
  /\ available_ports = Pairs
  /\ pc = "closed"
  /\ todo = {}
  /\ track = NoTrack
  /\ pair = NoPair
  /\ crashed = "no"
  /\ forgotten = [t \in Tracks |-> {}]
  /\ asked = [t \in Tracks |-> "none"]

Goto(label) == pc' = label

(* A loop over session_handlers_ visits any entry that is left. *)
Visit(t) ==
  /\ t \in todo
  /\ todo' = todo \ {t}
  /\ track' = t
  /\ UNCHANGED pair

(* The destructor of a std::thread that is joinable calls std::terminate(). *)
Crash(reason) ==
  /\ crashed' = reason
  /\ UNCHANGED <<mediaVars, sessionVars, pc, localVars, historyVars>>

(* An id is new as long as no queue knows it.  Where none is left the model  *)
(* makes no further session: a bound, on the orphans that a run collects.    *)
Unused(s) == ~V!Queue!Registered(s) /\ ~A!Queue!Registered(s)
FreshId   == CHOOSE s \in SessionIds : Unused(s)

-----------------------------------------------------------------------------
(* The connection.  TEARDOWN, the end of the stream and an exception in a    *)
(* request all end it, and with it the session.                              *)

Accept ==
  /\ pc = "closed"
  /\ Goto("recv")
  /\ UNCHANGED <<mediaVars, sessionVars, localVars, crashed, historyVars>>

EndConnection ==
  /\ pc = "recv"
  /\ Goto("leave")
  /\ UNCHANGED <<mediaVars, sessionVars, localVars, crashed, historyVars>>

-----------------------------------------------------------------------------
(* SETUP of a track, the first one of a session or a further one.            *)

(* Mutant of allocate_port_pair: the pair stays in the pool.                 *)
lend_port_pair ==
  /\ pair' = IF available_ports = <<>> THEN NoPair ELSE Head(available_ports)
  /\ UNCHANGED available_ports

allocate_port_pair ==
  IF available_ports = <<>>
  THEN pair' = NoPair /\ UNCHANGED available_ports
  ELSE pair' = Head(available_ports) /\ available_ports' = Tail(available_ports)

(* An unknown URL: the pair was taken before the media is looked up.         *)
SetupNotFound ==
  /\ pc = "recv"
  /\ available_ports # <<>>
  /\ available_ports' = Tail(available_ports)
  /\ UNCHANGED <<mediaVars, session, handlers, playing, sender, port, pc, localVars, crashed, historyVars>>

(* The first SETUP of a connection is given a session, the others name it.   *)
(* What is set up after it was played is asked for again.                    *)
Setup(t) ==
  /\ pc = "recv"
  /\ session = NoSession => \E s \in SessionIds : Unused(s)
  /\ session' = IF session = NoSession THEN FreshId ELSE session
  /\ allocate_port_pair
  /\ track' = t
  /\ asked' = [asked EXCEPT ![t] = IF @ = "none" THEN "none" ELSE "again"]
  /\ Goto("register")
  /\ UNCHANGED <<mediaVars, handlers, playing, sender, port, todo, crashed, forgotten>>

RegisterSession ==
  /\ pc = "register"
  /\ On(track, V!register_session(session), A!register_session(session))
  /\ Goto("attach")
  /\ UNCHANGED <<sessionVars, localVars, crashed, historyVars>>

(* The RtpRtcpHandler cannot be made: add_media_track() throws and process() *)
(* returns.  The track was registered; an entry of an earlier SETUP stays.   *)
BindFails ==
  /\ pc = "attach" /\ <<"bind", track>> \in Faults
  /\ forgotten' = IF track \in handlers THEN forgotten
                  ELSE [forgotten EXCEPT ![track] = @ \cup {session}]
  /\ track' = NoTrack /\ pair' = NoPair
  /\ Goto("leave")
  /\ UNCHANGED <<mediaVars, sessionVars, todo, crashed, asked>>

(* An earlier handler of the track goes away: its sockets are closed, and    *)
(* its sender thread is destroyed, which no one has joined.                  *)
AttachHandler ==
  /\ pc = "attach"
  /\ IF Joinable(sender[track])
     THEN Crash("sender thread destroyed")
     ELSE /\ handlers' = handlers \cup {track}
          /\ playing' = [playing EXCEPT ![track] = FALSE]
          /\ port' = [port EXCEPT ![track] = pair]
          /\ track' = NoTrack /\ pair' = NoPair
          /\ Goto("recv")
          /\ UNCHANGED <<mediaVars, session, sender, available_ports, todo, crashed, historyVars>>

-----------------------------------------------------------------------------
(* PLAY: Session::start(). *)

(* What is played after it was paused is asked for again.                    *)
Play ==
  /\ pc = "recv" /\ session # NoSession
  /\ todo' = handlers
  /\ asked' = [t \in Tracks |-> IF t \notin handlers THEN asked[t]
                                ELSE IF asked[t] = "pause" THEN "again" ELSE "play"]
  /\ Goto("start")
  /\ UNCHANGED <<mediaVars, sessionVars, track, pair, crashed, forgotten>>

(* Mutant of StartEntry: a track that plays is started again.                *)
StartEntryAgain(t) ==
  /\ pc = "start"
  /\ Visit(t)
  /\ playing' = [playing EXCEPT ![t] = TRUE]
  /\ Goto(IF Is(t, v_is_active, a_is_active) THEN "spawnSender" ELSE "trackStart")
  /\ UNCHANGED <<mediaVars, session, handlers, sender, port, available_ports, crashed, historyVars>>

StartEntry(t) ==
  /\ pc = "start"
  /\ Visit(t)
  /\ IF playing[t]
     THEN UNCHANGED <<pc, playing>>
     ELSE /\ playing' = [playing EXCEPT ![t] = TRUE]
          /\ Goto(IF Is(t, v_is_active, a_is_active) THEN "spawnSender" ELSE "trackStart")
  /\ UNCHANGED <<mediaVars, session, handlers, sender, port, available_ports, crashed, historyVars>>

StartTrack ==
  /\ pc = "trackStart"
  /\ On(track, V!StartActivates, A!StartActivates)
  /\ Goto("trackOpen")
  /\ UNCHANGED <<sessionVars, localVars, crashed, historyVars>>

OpenTrack ==
  /\ pc = "trackOpen"
  /\ On(track, V!StartOpens, A!StartOpens)
  /\ Goto("spawnProducer")
  /\ UNCHANGED <<sessionVars, localVars, crashed, historyVars>>

(* start() throws: a track that was visited before it plays on till the end  *)
(* of the connection, one that was not stays silent.                         *)
OpenTrackFails ==
  /\ pc = "trackOpen" /\ <<"open", track>> \in Faults
  /\ On(track, V!StartFailsToOpen, A!StartFailsToOpen)
  /\ Goto("leave")
  /\ UNCHANGED <<sessionVars, localVars, crashed, historyVars>>

SpawnProducer ==
  /\ pc = "spawnProducer"
  /\ IF Joinable(Is(track, v_producer, a_producer))
     THEN Crash("producer thread destroyed")
     ELSE /\ On(track, V!StartSpawns, A!StartSpawns)
          /\ Goto("spawnSender")
          /\ UNCHANGED <<sessionVars, localVars, crashed, historyVars>>

(* sender_thread_.reset(new std::thread), then the RTCP threads are joined,  *)
(* which takes seconds (RtcpThreads!StopReturns).                            *)
SpawnSender ==
  /\ pc = "spawnSender"
  /\ IF Joinable(sender[track])
     THEN Crash("sender thread destroyed")
     ELSE /\ sender' = [sender EXCEPT ![track] = "loop"]
          /\ Goto("start")
          /\ UNCHANGED <<mediaVars, session, handlers, playing, port, available_ports, localVars,
                         crashed, historyVars>>

FinishStart ==
  /\ pc = "start" /\ todo = {}
  /\ track' = NoTrack
  /\ Goto("recv")
  /\ UNCHANGED <<mediaVars, sessionVars, todo, pair, crashed, historyVars>>

Pause ==
  /\ pc = "recv" /\ session # NoSession
  /\ playing' = [t \in Tracks |-> FALSE]
  /\ asked' = [t \in Tracks |-> IF asked[t] = "play" THEN "pause" ELSE asked[t]]
  /\ UNCHANGED <<mediaVars, session, handlers, sender, port, available_ports, pc, localVars,
                 crashed, forgotten>>

-----------------------------------------------------------------------------
(* terminate_session() and ~Session. *)

TerminateSession ==
  /\ pc = "leave"
  /\ Goto(IF session # NoSession THEN "stop" ELSE "closed")
  /\ todo' = handlers
  /\ track' = NoTrack
  /\ UNCHANGED <<mediaVars, sessionVars, pair, crashed, historyVars>>

StopEntry(t) ==
  /\ pc = "stop"
  /\ Visit(t)
  /\ playing' = [playing EXCEPT ![t] = FALSE]
  /\ Goto("join")
  /\ UNCHANGED <<mediaVars, session, handlers, sender, port, available_ports, crashed, historyVars>>

JoinSender ==
  /\ pc = "join" /\ JoinReturns(sender[track])
  /\ sender' = [sender EXCEPT ![track] = "none"]
  /\ Goto("stop")
  /\ UNCHANGED <<mediaVars, session, handlers, playing, port, available_ports, localVars, crashed, historyVars>>

(* The last reference goes with the entry of the table.  The destructor's    *)
(* own stop() finds every sender joined.                                     *)
EraseSession ==
  /\ pc = "stop" /\ todo = {}
  /\ todo' = handlers
  /\ track' = NoTrack
  /\ Goto("unregister")
  /\ UNCHANGED <<mediaVars, sessionVars, pair, crashed, historyVars>>

(* Mutant of UnregisterEntry: the session stays in the track's queue.        *)
KeepEntryRegistered(t) ==
  /\ pc = "unregister"
  /\ Visit(t)
  /\ Goto("noConsumer")
  /\ UNCHANGED <<mediaVars, sessionVars, crashed, historyVars>>

UnregisterEntry(t) ==
  /\ pc = "unregister"
  /\ Visit(t)
  /\ On(t, V!unregister_session(session), A!unregister_session(session))
  /\ Goto("noConsumer")
  /\ UNCHANGED <<sessionVars, crashed, historyVars>>

TestNoConsumer ==
  /\ pc = "noConsumer"
  /\ Goto(IF Is(track, V!Queue!no_consumer, A!Queue!no_consumer)
          THEN "trackStop" ELSE "release")
  /\ UNCHANGED <<mediaVars, sessionVars, localVars, crashed, historyVars>>

StopTrack ==
  /\ pc = "trackStop"
  /\ On(track, V!StopSignals, A!StopSignals)
  /\ Goto("trackJoin")
  /\ UNCHANGED <<sessionVars, localVars, crashed, historyVars>>

JoinProducer ==
  /\ pc = "trackJoin"
  /\ On(track, V!StopJoins, A!StopJoins)
  /\ Goto("trackClose")
  /\ UNCHANGED <<sessionVars, localVars, crashed, historyVars>>

CloseTrack ==
  /\ pc = "trackClose"
  /\ On(track, V!StopEndsAndCloses, A!StopEndsAndCloses)
  /\ Goto("release")
  /\ UNCHANGED <<sessionVars, localVars, crashed, historyVars>>

(* The sockets are closed; the pair does not go back to the pool.            *)
ReleaseHandler ==
  /\ pc = "release"
  /\ port' = [port EXCEPT ![track] = NoSockets]
  /\ Goto("unregister")
  /\ UNCHANGED <<mediaVars, session, handlers, playing, sender, available_ports, localVars, crashed, historyVars>>

DestroySession ==
  /\ pc = "unregister" /\ todo = {}
  /\ handlers' = {}
  /\ session' = NoSession
  /\ track' = NoTrack
  /\ asked' = [t \in Tracks |-> "none"]
  /\ Goto("closed")
  /\ UNCHANGED <<mediaVars, playing, sender, port, available_ports, todo, pair, crashed, forgotten>>

-----------------------------------------------------------------------------
(* The sender threads and the producer threads. *)

SenderTestsActive(t) ==
  /\ sender[t] = "loop"
  /\ sender' = [sender EXCEPT ![t] = IF playing[t] THEN "consume" ELSE "finished"]
  /\ UNCHANGED <<mediaVars, session, handlers, playing, port, available_ports, pc, localVars, crashed, historyVars>>

SenderWaits(t) ==
  /\ sender[t] = "consume"
  /\ On(t, V!Queue!ConsumeWaits(session, session) /\ UNCHANGED videoTrack,
           A!Queue!ConsumeWaits(session, session) /\ UNCHANGED audioTrack)
  /\ UNCHANGED <<sessionVars, pc, localVars, crashed, historyVars>>

SenderGetsFrame(t) ==
  /\ sender[t] = "consume"
  /\ On(t, (V!Queue!ConsumeTakes(session, session) \/ V!Queue!ConsumeExits(session, session))
              /\ UNCHANGED videoTrack,
           (A!Queue!ConsumeTakes(session, session) \/ A!Queue!ConsumeExits(session, session))
              /\ UNCHANGED audioTrack)
  /\ sender' = [sender EXCEPT ![t] =
                  IF Is(t, v_returned', a_returned')[session] = NoFrame
                  THEN "finished" ELSE "loop"]
  /\ UNCHANGED <<session, handlers, playing, port, available_ports, pc, localVars, crashed, historyVars>>

ProducerRuns(t) ==
  On(t, V!run_producer, A!run_producer) /\ UNCHANGED <<sessionVars, pc, localVars, crashed, historyVars>>

-----------------------------------------------------------------------------
(* What the connection thread does while it serves a request or leaves.      *)
ConnectionRuns ==
  \/ RegisterSession \/ BindFails \/ AttachHandler
  \/ \E t \in Tracks : StartEntry(t)
  \/ StartTrack \/ OpenTrack \/ OpenTrackFails \/ SpawnProducer \/ SpawnSender
  \/ FinishStart
  \/ TerminateSession \/ (\E t \in Tracks : StopEntry(t)) \/ JoinSender \/ EraseSession
  \/ \E t \in Tracks : UnregisterEntry(t)
  \/ TestNoConsumer \/ StopTrack \/ JoinProducer \/ CloseTrack \/ ReleaseHandler
  \/ DestroySession

ClientActs ==
  \/ Accept \/ EndConnection
  \/ (\E t \in Tracks : Setup(t)) \/ SetupNotFound \/ Play \/ Pause

SenderRuns(t) == SenderTestsActive(t) \/ SenderWaits(t) \/ SenderGetsFrame(t)

Alive == crashed = "no"

Next ==
  /\ Alive
  /\ \/ ClientActs \/ ConnectionRuns
     \/ \E t \in Tracks : SenderRuns(t) \/ ProducerRuns(t)

(* The scheduler runs every thread that can run.  A client owes nothing.     *)
Fairness ==
  /\ WF_vars(Alive /\ ConnectionRuns)
  /\ \A t \in Tracks : WF_vars(Alive /\ SenderRuns(t)) /\ WF_vars(Alive /\ ProducerRuns(t))

Spec     == Init /\ [][Next]_vars
FairSpec == Spec /\ Fairness

-----------------------------------------------------------------------------
RegisteredIn(t, s) == Is(t, V!Queue!Registered(s), A!Queue!Registered(s))

AtRest(t) ==
  /\ sender[t] = "none" /\ port[t] = NoSockets
  /\ Is(t, v_producer, a_producer) = "none"
  /\ ~Is(t, v_is_active, a_is_active) /\ ~Is(t, v_not_full, a_not_full)
  /\ Is(t, V!Queue!no_consumer, A!Queue!no_consumer)

(* ~Session leaves nothing behind in either track, even when PLAY started    *)
(* one track and failed to open the file of the other, or the session ended  *)
(* before all of its tracks were set up or played (Session.cpp:12-26): but   *)
(* where a SETUP failed to bind the ports of a track that had no entry, the  *)
(* position of its session stays in the track's queue, which no loop over    *)
(* session_handlers_ visits (Session.cpp:38-43), and a track that was left   *)
(* with such a position is not stopped by the sessions that come after.      *)
TracksAreReleased ==
  session = NoSession =>
    \A t \in Tracks :
      /\ sender[t] = "none" /\ port[t] = NoSockets
      /\ {s \in SessionIds : RegisteredIn(t, s)} = forgotten[t]
      /\ forgotten[t] = {} => AtRest(t)

(* A producer thread is never replaced before it was joined, and a sender    *)
(* thread only where the client asked again for a track that it had played:  *)
(* by a second SETUP, or by a PLAY after a PAUSE.  PLAY skips the tracks     *)
(* that play, also when it is repeated for a track that was set up later,    *)
(* and every stop() joins (Session.cpp:43,49-54,93,                          *)
(* MediaSourceHandler.cpp:141,150,157).                                      *)
OnlyRepeatedRequestsReplaceThreads ==
  /\ crashed # "producer thread destroyed"
  /\ crashed = "sender thread destroyed" => asked[track] = "again"

(* No two RtpRtcpHandlers are bound to the same ports while the pool lasts;  *)
(* from then on all are bound to the ports -1 and 0 (PortPool.h:24-31,       *)
(* ConnectionHandler.cpp:213).                                               *)
PortsAreExclusive ==
  \A t \in Tracks : port[t] # NoSockets =>
    \/ port[t] = NoPair /\ available_ports = <<>>
    \/ /\ \A u \in Tracks \ {t} : port[u] # port[t]
       /\ \A i \in DOMAIN available_ports : available_ports[i] # port[t]

(* Each track's queue is used by the rules of module CircularQueue, whichever *)
(* tracks were set up, played, torn down half-way or played on after their    *)
(* file had ended, and also with the positions that a failed SETUP left       *)
(* behind (Session.cpp:12-26,38,54-72,88-101).                                *)
UseTheQueuesByTheirRules == V!Queue!Spec /\ A!Queue!Spec

(* However a connection ends, in whatever state the two streams are, its     *)
(* thread gets to the end of ~Session: no join in the two loops waits for a  *)
(* thread that sleeps (Session.cpp:93, MediaSourceHandler.cpp:157).  Not so  *)
(* where one of its tracks has a position that no sender moves, left by a    *)
(* session before it, nor where a second SETUP of a track that plays failed  *)
(* to bind: it moved the position the producer waits for and notified no one *)
(* (CircularQueue.h:75-78).                                                  *)
LeavingCompletes ==
  (pc = "leave" /\ \A t \in handlers : forgotten[t] = {} /\ asked[t] # "again")
    ~> (pc = "closed")
=============================================================================
