---------------------------- MODULE RtspSessions ----------------------------
(***************************************************************************)
(* Session control: the connection threads that serve SETUP, PLAY, PAUSE   *)
(* and TEARDOWN (ConnectionHandler.cpp), the table of sessions and its     *)
(* mutex (SessionManager.cpp), the Session objects with their sender       *)
(* threads (Session.cpp), and the track they all stream from, which is     *)
(* module MediaTrack with its CircularQueue.                               *)
(*                                                                         *)
(* A connection thread is a program counter pc[c]; between two labels any  *)
(* other thread may run.  The short critical sections of SessionManager    *)
(* are one step that needs the mutex free; terminate_session() keeps it    *)
(* while it joins threads, so there it is held across steps.  A Session is *)
(* reference counted: it is destroyed by the thread that drops the last    *)
(* reference, the table's or a handler's local shared_ptr.                 *)
(*                                                                         *)
(* One track, hence one SessionHandler per Session.  OPTIONS and DESCRIBE  *)
(* touch no session; RTP ports and the RTCP threads that start() starts    *)
(* and joins are left to modules of their own.                             *)
(***************************************************************************)
EXTENDS MediaTrack

CONSTANTS
  Connections,   \* the client connections, each served by one pool thread
  Requests,      \* the requests clients send: <<connection, method, Session header>>
  Orderly,       \* the connections whose client asks for a new session once
  NewIds,        \* NewIds[c]: what generate_unique_session_id() may return to c
  Faults,        \* the system calls that may fail: "bind", "open", "send"
  Objects,       \* storage for Session objects
  NoId,          \* an empty session id
  NoObject,      \* a null shared_ptr<Session>
  NoConnection   \* nobody

Methods == {"SETUP", "PLAY", "PAUSE", "TEARDOWN"}

ASSUME RequestsAssumption ==
  Requests \subseteq Connections \X Methods \X (SessionIds \cup {NoId})
ASSUME OrderlyAssumption == Orderly \subseteq Connections
ASSUME NewIdsAssumption == NewIds \in [Connections -> SUBSET SessionIds]
ASSUME NullsAssumption ==
  NoId \notin SessionIds /\ NoObject \notin Objects /\ NoConnection \notin Connections

(* Kinds of clients that the theorems of RtspSessions_proofs are about.      *)

(* The sessions that a client may name, or is given.                         *)
SessionsOf(c) ==
  {s \in SessionIds : s \in NewIds[c] \/ \E m \in Methods : <<c, m, s>> \in Requests}

(* Every client has sessions of its own.                                     *)
OwnSessions ==
  \A c, d \in Connections : c # d => SessionsOf(c) \cap SessionsOf(d) = {}

(* Every client asks for one new session, and names none in a SETUP.         *)
SetupOnce ==
  /\ Connections \subseteq Orderly
  /\ \A c \in Connections : \A s \in SessionIds : <<c, "SETUP", s>> \notin Requests

(* No client pauses.                                                         *)
NoPause == \A c \in Connections : \A s \in SessionIds \cup {NoId} : <<c, "PAUSE", s>> \notin Requests

VARIABLES
  sessions,      \* SessionManager::sessions_
  lock,          \* the connection whose thread holds sessions_mutex_
  id,            \* id[o]: Session::session_id_; NoId where o is not allocated
  handler,       \* handler[o]: session_handlers_ has an entry for the track
  playing,       \* playing[o]: that entry's is_active_
  sender,        \* sender[o]: its sender_thread_, where it is, or NoThread
  pc,            \* pc[c]: where the thread serving connection c is
  sid,           \* sid[c]: session_id, the session the current request is about
  own,           \* own[c]: ConnectionHandler::session_id_
  ref,           \* ref[c]: the Session c's request handler holds a shared_ptr to
  dying,         \* dying[c]: the Session c's thread is stopping or destroying
  leaving,       \* leaving[c]: process() ends after the current request
  crashed        \* what ended the program, or "no"

tableVars   == <<sessions, lock>>
sessionVars == <<id, handler, playing, sender>>
localVars   == <<sid, own, ref, dying, leaving>>
mediaVars   == <<queueVars, trackVars>>
vars == <<mediaVars, tableVars, sessionVars, pc, localVars, crashed>>

Init ==
  /\ InitTrack
  /\ sessions = [s \in SessionIds |-> NoObject]
  /\ lock = NoConnection
  /\ id = [o \in Objects |-> NoId]
  /\ handler = [o \in Objects |-> FALSE]
  /\ playing = [o \in Objects |-> FALSE]
  /\ sender = [o \in Objects |-> NoThread]
  /\ pc = [c \in Connections |-> "closed"]
  /\ sid = [c \in Connections |-> NoId]
  /\ own = [c \in Connections |-> NoId]
  /\ ref = [c \in Connections |-> NoObject]
  /\ dying = [c \in Connections |-> NoObject]
  /\ leaving = [c \in Connections |-> FALSE]
  /\ crashed = "no"

-----------------------------------------------------------------------------
At(c, label)   == pc[c] = label
Goto(c, label) == pc' = [pc EXCEPT ![c] = label]

LockFree == lock = NoConnection

Exists(c) == sessions[sid[c]] # NoObject

(* Mutant of SharedBeyond: handlers use a plain pointer to the session. *)
SharedWithNobody(c, o) == FALSE

(* Some handler other than c's holds a reference to o. *)
SharedBeyond(c, o) == \E d \in Connections \ {c} : ref[d] = o

FreshObject == CHOOSE o \in Objects : id[o] = NoId

(* A drawn id is the time followed by six random digits, so it is new; an id *)
(* that nothing refers to any more is as good as a new one.  One that a      *)
(* failed SETUP left in the queue is not; where none is left the model makes *)
(* no further session: a bound, on the forgotten ones that a run collects.   *)
Unused(s) == /\ \A o \in Objects : id[o] # s
             /\ \A c \in Connections : own[c] # s
             /\ ~Queue!Registered(s)

(* Where a request handler, or the destructor of the connection, ends. *)
AfterRequest(c) == IF leaving[c] THEN "closing" ELSE "recv"

(* The program is gone: std::terminate(), a signal, or a null pointer        *)
(* dereferenced.                                                             *)
Crash(reason) ==
  /\ crashed' = reason
  /\ UNCHANGED <<mediaVars, tableVars, sessionVars, pc, localVars>>

-----------------------------------------------------------------------------
(***************************************************************************)
(* The connection: RTSPServer gives it to a pool thread, process() reads   *)
(* requests until TEARDOWN, the end of the stream or an exception, and     *)
(* ~ConnectionHandler terminates the session the connection made.          *)
(***************************************************************************)
Accept(c) ==
  /\ At(c, "closed")
  /\ Goto(c, "recv")
  /\ leaving' = [leaving EXCEPT ![c] = FALSE]
  /\ UNCHANGED <<mediaVars, tableVars, sessionVars, sid, own, ref, dying, crashed>>

FirstLabel(method) ==
  CASE method = "SETUP"    -> "setup"
    [] method = "PLAY"     -> "playExists"
    [] method = "PAUSE"    -> "pauseExists"
    [] method = "TEARDOWN" -> "teardownExists"

(* No session has the empty id, so a request that names it gets 404, unless  *)
(* it is a SETUP, which makes a new session.                                 *)
Receive(c, method, s) ==
  /\ At(c, "recv")
  /\ <<c, method, s>> \in Requests
  /\ s = NoId => method = "SETUP" /\ (c \in Orderly => own[c] = NoId)
  /\ sid' = [sid EXCEPT ![c] = s]
  /\ leaving' = [leaving EXCEPT ![c] = method = "TEARDOWN"]
  /\ Goto(c, FirstLabel(method))
  /\ UNCHANGED <<mediaVars, tableVars, sessionVars, own, ref, dying, crashed>>

Disconnect(c) ==
  /\ At(c, "recv")
  /\ leaving' = [leaving EXCEPT ![c] = TRUE]
  /\ Goto(c, "closing")
  /\ UNCHANGED <<mediaVars, tableVars, sessionVars, sid, own, ref, dying, crashed>>

(* send() on a connection that the client has reset raises SIGPIPE, which    *)
(* nothing ignores or masks: the response to the last request, or to an      *)
(* OPTIONS or a DESCRIBE, ends the program.  Where send() returns an error   *)
(* instead process() throws, which is a Disconnect.  A TEARDOWN is answered  *)
(* when its session is terminated and ~ConnectionHandler has yet to run.     *)
SendKills(c) ==
  /\ At(c, "recv") \/ At(c, "closing")
  /\ "send" \in Faults
  /\ Crash("SIGPIPE")

(* Mutant of CloseConnection: the destructor does not terminate the session. *)
CloseAndForget(c) ==
  /\ At(c, "closing")
  /\ Goto(c, "closed")
  /\ own' = [own EXCEPT ![c] = NoId]
  /\ UNCHANGED <<mediaVars, tableVars, sessionVars, sid, ref, dying, leaving, crashed>>

CloseConnection(c) ==
  /\ At(c, "closing")
  /\ Goto(c, IF own[c] = NoId THEN "closed" ELSE "terminate")
  /\ sid' = [sid EXCEPT ![c] = own[c]]
  /\ own' = [own EXCEPT ![c] = NoId]
  /\ UNCHANGED <<mediaVars, tableVars, sessionVars, ref, dying, leaving, crashed>>

-----------------------------------------------------------------------------
(***************************************************************************)
(* SETUP.                                                                  *)
(***************************************************************************)
(* The session is named before the media is looked up: an unknown track is *)
(* answered 404 Not Found and the new name stays in session_id_.           *)
SetupNames(c) ==
  /\ At(c, "setup")
  /\ IF sid[c] = NoId
     THEN \E s \in NewIds[c] : /\ Unused(s)
                               /\ sid' = [sid EXCEPT ![c] = s]
                               /\ own' = [own EXCEPT ![c] = s]
     ELSE UNCHANGED <<sid, own>>
  /\ \E label \in {"setupExists", "recv"} : Goto(c, label)
  /\ UNCHANGED <<mediaVars, tableVars, sessionVars, ref, dying, leaving, crashed>>

SetupTestsExists(c) ==
  /\ At(c, "setupExists") /\ LockFree
  /\ Goto(c, IF Exists(c) THEN "setupGet" ELSE "create")
  /\ UNCHANGED <<mediaVars, tableVars, sessionVars, localVars, crashed>>

(* create_session(): a session that got into the table since the test is    *)
(* overwritten, and destroyed in here when nobody else refers to it.        *)
CreateSession(c) ==
  /\ At(c, "create") /\ LockFree
  /\ LET o   == FreshObject
         old == sessions[sid[c]]
         destroys == old # NoObject /\ ~SharedBeyond(c, old)
     IN /\ \E p \in Objects : id[p] = NoId
        /\ id' = [id EXCEPT ![o] = sid[c]]
        /\ sessions' = [sessions EXCEPT ![sid[c]] = o]
        /\ ref' = [ref EXCEPT ![c] = o]
        /\ lock' = IF destroys THEN c ELSE lock
        /\ dying' = IF destroys THEN [dying EXCEPT ![c] = old] ELSE dying
        /\ Goto(c, IF destroys THEN "stop" ELSE "register")
  /\ UNCHANGED <<mediaVars, handler, playing, sender, sid, own, leaving, crashed>>

RegisterSession(c) ==
  /\ At(c, "register")
  /\ register_session(id[ref[c]])
  /\ Goto(c, "attach")
  /\ UNCHANGED <<tableVars, sessionVars, localVars, crashed>>

(* The new SessionHandler replaces the one of an earlier SETUP of the track. *)
AttachHandler(c) ==
  /\ At(c, "attach")
  /\ IF Joinable(sender[ref[c]])
     THEN Crash("sender thread destroyed")
     ELSE /\ handler' = [handler EXCEPT ![ref[c]] = TRUE]
          /\ playing' = [playing EXCEPT ![ref[c]] = FALSE]
          /\ Goto(c, "release")
          /\ UNCHANGED <<mediaVars, tableVars, id, sender, localVars, crashed>>

(* The RTP sockets cannot be bound: add_media_track() throws, and process() *)
(* returns; the track was registered but has no SessionHandler.             *)
BindFails(c) ==
  /\ At(c, "attach") /\ "bind" \in Faults
  /\ leaving' = [leaving EXCEPT ![c] = TRUE]
  /\ Goto(c, "release")
  /\ UNCHANGED <<mediaVars, tableVars, sessionVars, sid, own, ref, dying, crashed>>

-----------------------------------------------------------------------------
(***************************************************************************)
(* get_session(), called after session_exists() said yes, and the end of   *)
(* the expression or block that holds the shared_ptr.                      *)
(***************************************************************************)
AfterGet(label) ==
  CASE label = "setupGet" -> "register"
    [] label = "playGet"  -> "start"
    [] label = "pauseGet" -> "pause"

GetSession(c) ==
  /\ pc[c] \in {"setupGet", "playGet", "pauseGet"} /\ LockFree
  /\ IF Exists(c)
     THEN /\ ref' = [ref EXCEPT ![c] = sessions[sid[c]]]
          /\ Goto(c, AfterGet(pc[c]))
          /\ UNCHANGED <<mediaVars, tableVars, sessionVars, sid, own, dying, leaving, crashed>>
     ELSE Crash("null session")

ReleaseSession(c) ==
  /\ At(c, "release")
  /\ LET o == ref[c]
         last == sessions[id[o]] # o /\ ~SharedBeyond(c, o)
     IN /\ ref' = [ref EXCEPT ![c] = NoObject]
        /\ dying' = IF last THEN [dying EXCEPT ![c] = o] ELSE dying
        /\ Goto(c, IF last THEN "stop" ELSE AfterRequest(c))
  /\ UNCHANGED <<mediaVars, tableVars, sessionVars, sid, own, leaving, crashed>>

-----------------------------------------------------------------------------
(***************************************************************************)
(* PLAY: Session::start().  It runs with no lock held.                     *)
(***************************************************************************)
PlayTestsExists(c) ==
  /\ At(c, "playExists") /\ LockFree
  /\ Goto(c, IF Exists(c) THEN "playGet" ELSE "recv")
  /\ UNCHANGED <<mediaVars, tableVars, sessionVars, localVars, crashed>>

(* Mutant of StartSession: a session that plays is started again. *)
StartSessionAgain(c) ==
  /\ At(c, "start")
  /\ Goto(c, IF handler[ref[c]] THEN "activate" ELSE "release")
  /\ UNCHANGED <<mediaVars, tableVars, sessionVars, localVars, crashed>>

StartSession(c) ==
  /\ At(c, "start")
  /\ Goto(c, IF handler[ref[c]] /\ ~playing[ref[c]] THEN "activate" ELSE "release")
  /\ UNCHANGED <<mediaVars, tableVars, sessionVars, localVars, crashed>>

(* is_active_ is set and MediaTrack::start() tests the track's is_active_. *)
ActivateSession(c) ==
  /\ At(c, "activate")
  /\ playing' = [playing EXCEPT ![ref[c]] = TRUE]
  /\ Goto(c, IF is_active THEN "spawnSender" ELSE "trackStart")
  /\ UNCHANGED <<mediaVars, tableVars, id, handler, sender, localVars, crashed>>

StartTrack(c) ==
  /\ At(c, "trackStart")
  /\ StartActivates
  /\ Goto(c, "trackOpen")
  /\ UNCHANGED <<tableVars, sessionVars, localVars, crashed>>

OpenTrack(c) ==
  /\ At(c, "trackOpen")
  /\ StartOpens
  /\ Goto(c, "spawnProducer")
  /\ UNCHANGED <<tableVars, sessionVars, localVars, crashed>>

OpenFails(c) ==
  /\ At(c, "trackOpen") /\ "open" \in Faults
  /\ StartFailsToOpen
  /\ leaving' = [leaving EXCEPT ![c] = TRUE]
  /\ Goto(c, "release")
  /\ UNCHANGED <<tableVars, sessionVars, sid, own, ref, dying, crashed>>

SpawnProducer(c) ==
  /\ At(c, "spawnProducer")
  /\ IF Joinable(producer)
     THEN Crash("producer thread destroyed")
     ELSE /\ StartSpawns
          /\ Goto(c, "spawnSender")
          /\ UNCHANGED <<tableVars, sessionVars, localVars, crashed>>

(* sender_thread_.reset(new std::thread), then the RTCP threads are joined. *)
SpawnSender(c) ==
  /\ At(c, "spawnSender")
  /\ IF Joinable(sender[ref[c]])
     THEN Crash("sender thread destroyed")
     ELSE /\ sender' = [sender EXCEPT ![ref[c]] = "loop"]
          /\ Goto(c, "release")
          /\ UNCHANGED <<mediaVars, tableVars, id, handler, playing, localVars, crashed>>

-----------------------------------------------------------------------------
(***************************************************************************)
(* PAUSE.                                                                  *)
(***************************************************************************)
PauseTestsExists(c) ==
  /\ At(c, "pauseExists") /\ LockFree
  /\ Goto(c, IF Exists(c) THEN "pauseGet" ELSE "recv")
  /\ UNCHANGED <<mediaVars, tableVars, sessionVars, localVars, crashed>>

PauseSession(c) ==
  /\ At(c, "pause")
  /\ playing' = [playing EXCEPT ![ref[c]] = FALSE]
  /\ Goto(c, "release")
  /\ UNCHANGED <<mediaVars, tableVars, id, handler, sender, localVars, crashed>>

-----------------------------------------------------------------------------
(***************************************************************************)
(* TEARDOWN and ~ConnectionHandler: terminate_session(), and ~Session.     *)
(***************************************************************************)
TeardownTestsExists(c) ==
  /\ At(c, "teardownExists") /\ LockFree
  /\ Goto(c, IF Exists(c) THEN "terminate" ELSE AfterRequest(c))
  /\ UNCHANGED <<mediaVars, tableVars, sessionVars, localVars, crashed>>

(* Mutant of TerminateSession: the mutex is released after the lookup. *)
TerminateUnlocked(c) ==
  /\ At(c, "terminate") /\ LockFree
  /\ IF Exists(c)
     THEN /\ dying' = [dying EXCEPT ![c] = sessions[sid[c]]]
          /\ Goto(c, "stop")
     ELSE /\ Goto(c, AfterRequest(c))
          /\ UNCHANGED dying
  /\ UNCHANGED <<mediaVars, tableVars, sessionVars, sid, own, ref, leaving, crashed>>

(* The mutex is taken here and kept until the session is erased. *)
TerminateSession(c) ==
  /\ At(c, "terminate") /\ LockFree
  /\ IF Exists(c)
     THEN /\ lock' = c
          /\ dying' = [dying EXCEPT ![c] = sessions[sid[c]]]
          /\ Goto(c, "stop")
     ELSE /\ Goto(c, AfterRequest(c))
          /\ UNCHANGED <<lock, dying>>
  /\ UNCHANGED <<mediaVars, sessions, sessionVars, sid, own, ref, leaving, crashed>>

StopSession(c) ==
  /\ At(c, "stop")
  /\ playing' = [playing EXCEPT ![dying[c]] = FALSE]
  /\ Goto(c, "join")
  /\ UNCHANGED <<mediaVars, tableVars, id, handler, sender, localVars, crashed>>

(* Session::stop() is called on a session of the table by                  *)
(* terminate_session(), and on any other by the destructor.                *)
AfterJoin(o) == IF sessions[id[o]] = o THEN "erase" ELSE "unregister"

(* Mutant of JoinSender: stop() does not wait for the sender thread. *)
DetachSender(c) ==
  /\ At(c, "join")
  /\ Goto(c, AfterJoin(dying[c]))
  /\ UNCHANGED <<mediaVars, tableVars, sessionVars, localVars, crashed>>

JoinSender(c) ==
  /\ At(c, "join")
  /\ JoinReturns(sender[dying[c]])
  /\ sender' = [sender EXCEPT ![dying[c]] = NoThread]
  /\ Goto(c, AfterJoin(dying[c]))
  /\ UNCHANGED <<mediaVars, tableVars, id, handler, playing, localVars, crashed>>

EraseSession(c) ==
  /\ At(c, "erase")
  /\ sessions' = [sessions EXCEPT ![id[dying[c]]] = NoObject]
  /\ IF SharedBeyond(c, dying[c])
     THEN /\ lock' = NoConnection
          /\ dying' = [dying EXCEPT ![c] = NoObject]
          /\ Goto(c, AfterRequest(c))
     ELSE /\ Goto(c, "stop")
          /\ UNCHANGED <<lock, dying>>
  /\ UNCHANGED <<mediaVars, sessionVars, sid, own, ref, leaving, crashed>>

(* Mutant of UnregisterSession: the session stays in the queue's map. *)
KeepRegistered(c) ==
  /\ At(c, "unregister")
  /\ Goto(c, IF handler[dying[c]] THEN "noConsumer" ELSE "destroy")
  /\ UNCHANGED <<mediaVars, tableVars, sessionVars, localVars, crashed>>

UnregisterSession(c) ==
  /\ At(c, "unregister")
  /\ IF handler[dying[c]]
     THEN unregister_session(id[dying[c]]) /\ Goto(c, "noConsumer")
     ELSE Goto(c, "destroy") /\ UNCHANGED mediaVars
  /\ UNCHANGED <<tableVars, sessionVars, localVars, crashed>>

TestNoConsumer(c) ==
  /\ At(c, "noConsumer")
  /\ Goto(c, IF Queue!no_consumer THEN "trackStop" ELSE "destroy")
  /\ UNCHANGED <<mediaVars, tableVars, sessionVars, localVars, crashed>>

StopTrack(c) ==
  /\ At(c, "trackStop")
  /\ StopSignals
  /\ Goto(c, "trackJoin")
  /\ UNCHANGED <<tableVars, sessionVars, localVars, crashed>>

JoinProducer(c) ==
  /\ At(c, "trackJoin")
  /\ StopJoins
  /\ Goto(c, "trackClose")
  /\ UNCHANGED <<tableVars, sessionVars, localVars, crashed>>

CloseTrack(c) ==
  /\ At(c, "trackClose")
  /\ StopEndsAndCloses
  /\ Goto(c, "destroy")
  /\ UNCHANGED <<tableVars, sessionVars, localVars, crashed>>

(* The object is gone.  What follows: the rest of create_session(), the     *)
(* end of terminate_session(), or the end of the handler that let it go.    *)
DestroySession(c) ==
  /\ At(c, "destroy")
  /\ id' = [id EXCEPT ![dying[c]] = NoId]
  /\ handler' = [handler EXCEPT ![dying[c]] = FALSE]
  /\ dying' = [dying EXCEPT ![c] = NoObject]
  /\ lock' = IF lock = c THEN NoConnection ELSE lock
  /\ Goto(c, IF ref[c] # NoObject THEN "register" ELSE AfterRequest(c))
  /\ UNCHANGED <<mediaVars, sessions, playing, sender, sid, own, ref, leaving, crashed>>

-----------------------------------------------------------------------------
(***************************************************************************)
(* The sender thread of a session.                                         *)
(***************************************************************************)
SenderTestsActive(o) ==
  /\ sender[o] = "loop"
  /\ sender' = [sender EXCEPT ![o] = IF playing[o] THEN "consume" ELSE "finished"]
  /\ UNCHANGED <<mediaVars, tableVars, id, handler, playing, pc, localVars, crashed>>

SenderWaits(o) ==
  /\ sender[o] = "consume"
  /\ Queue!ConsumeWaits(o, id[o])
  /\ UNCHANGED <<trackVars, tableVars, sessionVars, pc, localVars, crashed>>

(* get_next_frame() returns: a null frame ends the loop, any other is sent. *)
SenderGetsFrame(o) ==
  /\ sender[o] = "consume"
  /\ Queue!ConsumeTakes(o, id[o]) \/ Queue!ConsumeExits(o, id[o])
  /\ sender' = [sender EXCEPT ![o] = IF returned'[id[o]] = NoFrame THEN "finished" ELSE "loop"]
  /\ UNCHANGED <<trackVars, tableVars, id, handler, playing, pc, localVars, crashed>>

ProducerRuns ==
  run_producer /\ UNCHANGED <<tableVars, sessionVars, pc, localVars, crashed>>

-----------------------------------------------------------------------------
(* What a connection thread does once it has a request, or has none left.  *)
ConnectionRuns(c) ==
  \/ CloseConnection(c)
  \/ SetupNames(c) \/ SetupTestsExists(c) \/ CreateSession(c)
  \/ RegisterSession(c) \/ AttachHandler(c) \/ BindFails(c)
  \/ GetSession(c) \/ ReleaseSession(c)
  \/ PlayTestsExists(c) \/ StartSession(c) \/ ActivateSession(c)
  \/ StartTrack(c) \/ OpenTrack(c) \/ OpenFails(c) \/ SpawnProducer(c) \/ SpawnSender(c)
  \/ PauseTestsExists(c) \/ PauseSession(c)
  \/ TeardownTestsExists(c) \/ TerminateSession(c) \/ StopSession(c) \/ JoinSender(c)
  \/ EraseSession(c) \/ UnregisterSession(c) \/ TestNoConsumer(c)
  \/ StopTrack(c) \/ JoinProducer(c) \/ CloseTrack(c) \/ DestroySession(c)

SenderRuns(o) == SenderTestsActive(o) \/ SenderWaits(o) \/ SenderGetsFrame(o)

Alive == crashed = "no"

Next ==
  /\ Alive
  /\ \/ \E c \in Connections :
          \/ Accept(c) \/ Disconnect(c) \/ SendKills(c) \/ ConnectionRuns(c)
          \/ \E m \in Methods : \E s \in SessionIds \cup {NoId} : Receive(c, m, s)
     \/ \E o \in Objects : SenderRuns(o)
     \/ ProducerRuns

(* The scheduler runs every thread that can run.  Clients owe nothing. *)
Fairness ==
  /\ \A c \in Connections : WF_vars(Alive /\ ConnectionRuns(c))
  /\ \A o \in Objects : WF_vars(Alive /\ SenderRuns(o))
  /\ WF_vars(Alive /\ ProducerRuns)

Spec     == Init /\ [][Next]_vars
FairSpec == Spec /\ Fairness

-----------------------------------------------------------------------------
Threads == {NoThread, "loop", "consume", "finished"}

Labels == {"closed", "recv", "closing", "setup", "setupExists", "setupGet", "create",
           "register", "attach", "release", "playExists", "playGet", "start",
           "activate", "trackStart", "trackOpen", "spawnProducer", "spawnSender",
           "pauseExists", "pauseGet", "pause", "teardownExists", "terminate", "stop",
           "join", "erase", "unregister", "noConsumer", "trackStop", "trackJoin",
           "trackClose", "destroy"}

CrashReasons == {"no", "null session", "sender thread destroyed",
                 "producer thread destroyed", "SIGPIPE"}

TypeOK ==
  /\ TrackTypeOK
  /\ not_empty \in SUBSET Objects
  /\ returned \in [SessionIds -> {Frame, NoFrame}]
  /\ sessions \in [SessionIds -> Objects \cup {NoObject}]
  /\ lock \in Connections \cup {NoConnection}
  /\ id \in [Objects -> SessionIds \cup {NoId}]
  /\ handler \in [Objects -> BOOLEAN]
  /\ playing \in [Objects -> BOOLEAN]
  /\ sender \in [Objects -> Threads]
  /\ pc \in [Connections -> Labels]
  /\ sid \in [Connections -> SessionIds \cup {NoId}]
  /\ own \in [Connections -> SessionIds \cup {NoId}]
  /\ ref \in [Connections -> Objects \cup {NoObject}]
  /\ dying \in [Connections -> Objects \cup {NoObject}]
  /\ leaving \in [Connections -> BOOLEAN]
  /\ crashed \in CrashReasons

Live(o)      == id[o] # NoId
Running(o)   == sender[o] \in {"loop", "consume"}
Producing    == producer \in {"loop", "produce"}

(* What CircularQueue takes for granted and Session.cpp:54-72,88-101 and      *)
(* ~Session must provide: a sender thread that may call consume() belongs to  *)
(* a session that is still registered, so that consumer_positions_[id] never  *)
(* inserts a consumer, and only senders inside consume() sleep there.         *)
SendersAreRegistered ==
  /\ \A o \in Objects : Running(o) => Live(o) /\ Queue!Registered(id[o])
  /\ not_empty \subseteq {o \in Objects : sender[o] = "consume"}

(* Every position in the queue belongs to a session whose destructor will     *)
(* erase it (Session.cpp:15-19), or to one that SETUP is about to attach: no  *)
(* forgotten consumer holds the producer back for ever.                       *)
RegistrationsHaveAnOwner ==
  \A s \in SessionIds : Queue!Registered(s) =>
    \E o \in Objects : /\ id[o] = s
                       /\ handler[o] \/ \E c \in Connections : ref[c] = o /\ At(c, "attach")

(* The queue as module CircularQueue sees it: a session's sender thread goes  *)
(* by the name of the session.                                                *)
SessionQueue == INSTANCE CircularQueue WITH
  Consumers <- SessionIds, Frames <- {Frame}, not_empty <- {id[o] : o \in not_empty}

(* The server keeps the rules that CircularQueue sets its users               *)
(* (CircularQueue.h:54-83, Session.cpp:12-26,54-72): every step of a          *)
(* connection, a sender or the producer is a step of that module's queue, or  *)
(* does not touch it; what the queue promises holds of the server.            *)
UsesTheQueueByItsRules == SessionQueue!Spec

(* Clients with sessions of their own: the producer thread only reads a file  *)
(* that is open.  The last session to leave closes it after the join          *)
(* (MediaSourceHandler.cpp:131-132,157), and nobody starts the track in       *)
(* between.                                                                   *)
ProducerHasOpenFile == Producing => file # Closed

(* start() and stop() of a track share is_active_, the file and the thread    *)
(* pointer with no lock of their own.  As long as every client has sessions   *)
(* of its own they never overlap: stop() runs when no session is registered,  *)
(* as that of a PLAY in progress is, which nobody else tears down; and it     *)
(* runs under sessions_mutex_, which a later PLAY needs to find its session   *)
(* (ConnectionHandler.cpp:260-262,310-312, SessionManager.cpp:29-38).         *)
TrackIsNotStartedWhileStopped ==
  \A c, d \in Connections :
    ~ /\ pc[c] \in {"trackStart", "trackOpen", "spawnProducer"}
      /\ pc[d] \in {"trackStop", "trackJoin", "trackClose"}

(* A stream whose producer and senders all sleep on a full ring is held up    *)
(* by a registered session that is not playing (set up only, paused, ended),  *)
(* never by the threads that play it.                                         *)
StalledStreamHasAnIdleSession ==
  (not_full /\ Queue!Full /\ \A o \in Objects : Running(o) => o \in not_empty)
    => \E o \in Objects : /\ Live(o) /\ ~Running(o)
                          /\ consumer_positions[id[o]] = Queue!slot_after(write_position)

(* ~ConnectionHandler (ConnectionHandler.cpp:21-24) lets no session outlive   *)
(* the connection that made it, wherever in its requests that ends, for a     *)
(* client that asks for one new session (SetupOnce): a second SETUP without a *)
(* Session header overwrites session_id_, and the first session stays         *)
(* (ConnectionHandler.cpp:218-221).                                           *)
SessionsDoNotOutliveTheirConnection ==
  \A o \in Objects : Live(o) =>
    \E c \in Connections : ~At(c, "closed") /\ id[o] \in {own[c], sid[c]}

(* A std::thread is joined before the Session that owns it is destroyed, even *)
(* when two connections control one session: otherwise the sender would read  *)
(* this->session_id_ of a dead object (Session.cpp:57).                       *)
NoSenderOutlivesItsSession ==
  \A o \in Objects : sender[o] # NoThread => Live(o)

(* A session that the table or a request handler refers to exists, and one    *)
(* that exists is referred to or on its way out: also when a SETUP replaces a *)
(* session in the table that another one has just put there, and when a       *)
(* TEARDOWN erases it while another request uses it                           *)
(* (SessionManager.cpp:8-13,29-38, ConnectionHandler.cpp:232-241).            *)
SessionsLiveWhileReferenced ==
  /\ \A c \in Connections : ref[c] # NoObject => Live(ref[c])
  /\ \A s \in SessionIds : sessions[s] # NoObject => id[sessions[s]] = s
  /\ \A o \in Objects : Live(o) =>
       sessions[id[o]] = o \/ \E c \in Connections : o \in {ref[c], dying[c]}

(* However the requests of two connections interleave, one thread at most     *)
(* stops and destroys a session (SessionManager.cpp:30, shared_ptr counts).   *)
SessionIsDestroyedOnce ==
  \A c, d \in Connections : c # d /\ dying[c] # NoObject => dying[c] # dying[d]

(* Nothing a client does ends the server.                                     *)
ServerSurvives == Alive

(* Clients with sessions of their own (OwnSessions), each set up once         *)
(* (SetupOnce: a second SETUP of a track that was played ends the server at   *)
(* Session.cpp:43) and never paused (NoPause: Session.cpp:54), end the server *)
(* in two ways only: by two PLAYs that both find the track inactive           *)
(* (MediaSourceHandler.cpp:141-142), and by a response that raises SIGPIPE    *)
(* (ConnectionHandler.cpp:106).                                               *)
OnlyRacingStartsCrash == crashed \in {"no", "producer thread destroyed", "SIGPIPE"}

(* "Start sending media data" (Session.cpp:48): a PLAY for a session that is  *)
(* not playing arrives at a track that is running, or that start() will       *)
(* start, but never at one that has ended and still says it is active.        *)
PlayCanStartTheStream ==
  [][ \A c \in Connections : \A s \in SessionIds :
        (Receive(c, "PLAY", s) /\ sessions[s] # NoObject /\ ~playing[sessions[s]])
          => ~(is_active /\ exit) ]_vars

(* "Stop the session before erasing it" (SessionManager.cpp:34): once         *)
(* terminate_session() has the mutex it stops and erases the session and      *)
(* gives the mutex back.                                                      *)
TeardownCompletes ==
  \A c \in Connections : (lock = c) ~> (lock # c \/ ~Alive)

(* A stream with its sender thread runs to its end: neither thread sleeps for *)
(* ever waiting for the other.                                                *)
StreamEnds ==
  \A o \in Objects : Running(o) ~> ~Running(o)
=============================================================================
