----------------------- MODULE TwoTrackSession_proofs -----------------------
(* Proofs about TwoTrackSession, for any pool of ports, queues, files and    *)
(* faults, and any number of sessions one after the other: no two RTP/RTCP   *)
(* handlers share ports while the pool lasts, what ~Session leaves behind    *)
(* and what it does not, which requests make a thread be assigned over, and  *)
(* both queues are used by the rules of CircularQueue, hence serve their     *)
(* tracks as it promises.                                                    *)
EXTENDS TwoTrackSession, TLAPS

(* What is proved of every queue whose users keep its rules.                 *)
VideoQueue == INSTANCE CircularQueue_proofs WITH
  Consumers <- SessionIds, Frames <- {Frame}, buffer <- v_buffer,
  write_position <- v_write_position, consumer_positions <- v_consumer_positions,
  exit <- v_exit, not_full <- v_not_full, not_empty <- v_not_empty, returned <- v_returned

AudioQueue == INSTANCE CircularQueue_proofs WITH
  Consumers <- SessionIds, Frames <- {Frame}, buffer <- a_buffer,
  write_position <- a_write_position, consumer_positions <- a_consumer_positions,
  exit <- a_exit, not_full <- a_not_full, not_empty <- a_not_empty, returned <- a_returned

-----------------------------------------------------------------------------
(* The steps of the program.  One that destroys a thread ends the program    *)
(* and changes nothing else.                                                 *)
Active(t)   == Is(t, v_is_active, a_is_active)
Producer(t) == Is(t, v_producer, a_producer)

Frozen         == UNCHANGED <<mediaVars, sessionVars, pc, localVars, historyVars>>
Attaches       == AttachHandler /\ ~Joinable(sender[track])
SpawnsProducer == SpawnProducer /\ ~Joinable(Producer(track))
SpawnsSender   == SpawnSender /\ ~Joinable(sender[track])

ConnectionSteps ==
  \/ RegisterSession \/ BindFails \/ Attaches
  \/ \E t \in Tracks : StartEntry(t)
  \/ StartTrack \/ OpenTrack \/ OpenTrackFails \/ SpawnsProducer \/ SpawnsSender
  \/ FinishStart
  \/ TerminateSession \/ (\E t \in Tracks : StopEntry(t)) \/ JoinSender \/ EraseSession
  \/ \E t \in Tracks : UnregisterEntry(t)
  \/ TestNoConsumer \/ StopTrack \/ JoinProducer \/ CloseTrack \/ ReleaseHandler
  \/ DestroySession

LEMMA StepCases ==
  ASSUME [Next]_vars
  PROVE  \/ Frozen \/ ClientActs \/ ConnectionSteps
         \/ \E t \in Tracks : SenderRuns(t) \/ ProducerRuns(t)
<1>1. ASSUME NEW reason, Crash(reason) PROVE Frozen
  BY <1>1 DEF Crash, Frozen
<1>2. CASE AttachHandler
  BY <1>1, <1>2 DEF AttachHandler, Attaches, ConnectionSteps
<1>3. CASE SpawnProducer
  BY <1>1, <1>3 DEF SpawnProducer, SpawnsProducer, Producer, ConnectionSteps
<1>4. CASE SpawnSender
  BY <1>1, <1>4 DEF SpawnSender, SpawnsSender, ConnectionSteps
<1>5. CASE UNCHANGED vars
  BY <1>5 DEF vars, Frozen
<1> QED
  BY <1>2, <1>3, <1>4, <1>5 DEF Next, ConnectionRuns, ConnectionSteps

-----------------------------------------------------------------------------
(* A pair of ports on its way from the pool to an RtpRtcpHandler.            *)
PairInv ==
  pc \in {"register", "attach"} =>
    \/ pair = NoPair /\ available_ports = <<>>
    \/ /\ pair \in Nat
       /\ \A t \in Tracks : port[t] # pair
       /\ \A i \in DOMAIN available_ports : available_ports[i] # pair

PoolInv ==
  /\ available_ports \in Seq(Nat)
  /\ \A i, j \in DOMAIN available_ports : available_ports[i] = available_ports[j] => i = j

PortsInv ==
  /\ port \in [Tracks -> Int]
  /\ pc = "attach" => track \in Tracks
  /\ pc = "register" => track \in Tracks
  /\ PoolInv /\ PairInv /\ PortsAreExclusive

-----------------------------------------------------------------------------
LEMMA PortsInit == Init => PortsInv
BY PairsAssumption DEF Init, PortsInv, PoolInv, PairInv, PortsAreExclusive, Tracks, NoSockets

LEMMA PortsStay ==
  ASSUME PortsInv, UNCHANGED <<port, available_ports>>,
         \/ pc' \notin {"register", "attach"}
         \/ pc = "register" /\ UNCHANGED <<track, pair>>
         \/ UNCHANGED <<pc, track, pair>>
  PROVE  PortsInv'
BY DEF PortsInv, PoolInv, PairInv, PortsAreExclusive

(* The first pair of a pool of different pairs is not among the others.      *)
LEMMA HeadIsOut ==
  ASSUME PoolInv, available_ports # <<>>
  PROVE  /\ Head(available_ports) \in Nat
         /\ Tail(available_ports) \in Seq(Nat)
         /\ \A i \in DOMAIN Tail(available_ports) :
              /\ i + 1 \in DOMAIN available_ports
              /\ Tail(available_ports)[i] = available_ports[i + 1]
              /\ Tail(available_ports)[i] # Head(available_ports)
         /\ 1 \in DOMAIN available_ports /\ Head(available_ports) = available_ports[1]
         /\ DOMAIN Tail(available_ports) \subseteq Nat
BY DEF PoolInv

LEMMA PoolShrinks ==
  ASSUME PoolInv, available_ports # <<>>, available_ports' = Tail(available_ports)
  PROVE  PoolInv'
<1>1. \A i, j \in DOMAIN Tail(available_ports) : i + 1 = j + 1 => i = j
  BY HeadIsOut
<1> QED
  BY <1>1, HeadIsOut DEF PoolInv

LEMMA SetupTakesPair ==
  ASSUME PortsInv, NEW t \in Tracks, Setup(t)
  PROVE  PortsInv'
<1>1. pc' = "register" /\ track' = t /\ UNCHANGED port
  BY DEF Setup, Goto
<1>2. CASE available_ports = <<>>
  <2>1. pair' = NoPair /\ UNCHANGED available_ports
    BY <1>2 DEF Setup, allocate_port_pair
  <2> QED
    BY <1>1, <1>2, <2>1 DEF PortsInv, PoolInv, PairInv, PortsAreExclusive
<1>3. CASE available_ports # <<>>
  <2>1. pair' = Head(available_ports) /\ available_ports' = Tail(available_ports)
    BY <1>3 DEF Setup, allocate_port_pair
  <2>2. PoolInv'
    BY <1>3, <2>1, PoolShrinks DEF PortsInv
  <2>3. PoolInv
    BY DEF PortsInv
  <2>4. \A u \in Tracks : port[u] # Head(available_ports)
    BY <1>3, <2>3, HeadIsOut DEF PortsInv, PortsAreExclusive, NoSockets
  <2>5. PairInv'
    BY <1>1, <1>3, <2>1, <2>3, <2>4, HeadIsOut DEF PairInv
  <2>6. PortsAreExclusive'
    BY <1>1, <1>3, <2>1, <2>3, HeadIsOut DEF PortsInv, PortsAreExclusive
  <2> QED
    BY <1>1, <2>2, <2>5, <2>6 DEF PortsInv
<1> QED
  BY <1>2, <1>3

LEMMA NotFoundLosesPair ==
  ASSUME PortsInv, SetupNotFound
  PROVE  PortsInv'
<1>1. /\ pc = "recv" /\ available_ports # <<>> /\ available_ports' = Tail(available_ports)
      /\ UNCHANGED <<port, pc, track, pair>>
  BY DEF SetupNotFound, localVars
<1>2. PoolInv /\ PoolInv'
  BY <1>1, PoolShrinks DEF PortsInv
<1>3. PortsAreExclusive'
  BY <1>1, <1>2, HeadIsOut DEF PortsInv, PortsAreExclusive
<1> QED
  BY <1>1, <1>2, <1>3 DEF PortsInv, PairInv

LEMMA AttachBinds ==
  ASSUME PortsInv, Attaches
  PROVE  PortsInv'
<1>1. /\ pc = "attach" /\ pc' = "recv" /\ port' = [port EXCEPT ![track] = pair]
      /\ UNCHANGED available_ports
  BY DEF Attaches, AttachHandler, Goto
<1>2. track \in Tracks /\ PairInv
  BY <1>1 DEF PortsInv
<1>3. \A t \in Tracks : port'[t] = IF t = track THEN pair ELSE port[t]
  BY <1>1 DEF PortsInv
<1>4. PortsAreExclusive'
  BY <1>1, <1>2, <1>3 DEF PortsInv, PairInv, PortsAreExclusive
<1>5. pair \in Int
  BY <1>1, <1>2 DEF PairInv, NoPair
<1> QED
  BY <1>1, <1>4, <1>5 DEF PortsInv, PairInv, PoolInv

LEMMA ReleaseCloses ==
  ASSUME PortsInv, ReleaseHandler
  PROVE  PortsInv'
<1>1. /\ pc' = "unregister" /\ port' = [port EXCEPT ![track] = NoSockets]
      /\ UNCHANGED available_ports
  BY DEF ReleaseHandler, Goto
<1>2. \A t \in Tracks : port'[t] = port[t] \/ port'[t] = NoSockets
  BY <1>1 DEF PortsInv
<1>3. NoSockets \in Int
  BY DEF NoSockets
<1>4. port' \in [Tracks -> Int]
  BY <1>1, <1>3 DEF PortsInv
<1>5. PortsAreExclusive'
  BY <1>1, <1>2 DEF PortsInv, PortsAreExclusive
<1> QED
  BY <1>1, <1>4, <1>5 DEF PortsInv, PairInv, PoolInv

LEMMA PortsStep == PortsInv /\ [Next]_vars => PortsInv'
<1> SUFFICES ASSUME PortsInv, [Next]_vars PROVE PortsInv'
  OBVIOUS
<1> USE DEF Goto, sessionVars, localVars, Visit
<1>1. CASE Frozen
  BY <1>1, PortsStay DEF Frozen
<1>2. CASE ClientActs
  <2>1. CASE Accept \/ EndConnection \/ Play \/ Pause
    BY <2>1, PortsStay DEF Accept, EndConnection, Play, Pause
  <2> QED
    BY <1>2, <2>1, SetupTakesPair, NotFoundLosesPair DEF ClientActs
<1>3. CASE ConnectionSteps
  <2>1. CASE RegisterSession \/ BindFails
    BY <2>1, PortsStay DEF RegisterSession, BindFails
  <2>2. CASE \/ \E t \in Tracks : StartEntry(t) \/ StopEntry(t) \/ UnregisterEntry(t)
             \/ StartTrack \/ OpenTrack \/ OpenTrackFails
    BY <2>2, PortsStay DEF StartEntry, StopEntry, UnregisterEntry, StartTrack, OpenTrack,
       OpenTrackFails
  <2>4. CASE SpawnsProducer
    BY <2>4, PortsStay DEF SpawnsProducer, SpawnProducer, Producer
  <2>5. CASE SpawnsSender
    BY <2>5, PortsStay DEF SpawnsSender, SpawnSender
  <2>3. CASE \/ FinishStart \/ TerminateSession \/ JoinSender \/ EraseSession
             \/ TestNoConsumer \/ StopTrack \/ JoinProducer \/ CloseTrack \/ DestroySession
    BY <2>3, PortsStay DEF FinishStart, TerminateSession, JoinSender, EraseSession,
       TestNoConsumer, StopTrack, JoinProducer, CloseTrack, DestroySession
  <2> QED
    BY <1>3, <2>1, <2>2, <2>3, <2>4, <2>5, AttachBinds, ReleaseCloses
       DEF ConnectionSteps
<1>4. ASSUME NEW t \in Tracks, SenderRuns(t) \/ ProducerRuns(t) PROVE PortsInv'
  BY <1>4, PortsStay DEF SenderRuns, SenderTestsActive, SenderWaits, SenderGetsFrame,
     ProducerRuns
<1> QED
  BY <1>1, <1>2, <1>3, <1>4, StepCases

(* The ports of a session's tracks are different from each other and from    *)
(* those of the pool, for any pool: a pair is taken out before it is used,   *)
(* also when the media is then not found or the ports cannot be bound, and   *)
(* none is put back (PortPool.h:24-31, ConnectionHandler.cpp:213-241).       *)
THEOREM PortsAreOwn == Spec => []PortsAreExclusive
<1>1. PortsInv => PortsAreExclusive
  BY DEF PortsInv
<1> QED
  BY <1>1, PortsInit, PortsStep, PTL DEF Spec

-----------------------------------------------------------------------------
(* The threads.                                                              *)
Starting == {"trackStart", "trackOpen", "spawnProducer", "spawnSender"}
Leaving  == {"noConsumer", "trackStop", "trackJoin", "trackClose", "release"}
AtTrack  == Starting \cup Leaving \cup {"register", "attach", "join"}

Places   == {"none", "loop", "consume", "finished"}

SendersInv ==
  /\ sender \in [Tracks -> Places] /\ playing \in [Tracks -> BOOLEAN]
  /\ todo \subseteq Tracks /\ handlers \subseteq Tracks
  /\ pc \in AtTrack => track \in Tracks

(* A track that is not active has no producer, unless stop() is about to     *)
(* join it: start() may make one.                                            *)
ProducersInv ==
  /\ \A t \in Tracks :
       Joinable(Producer(t)) => Active(t) \/ (pc = "trackJoin" /\ track = t)
  /\ pc \in {"trackStart", "trackOpen", "spawnProducer"} => ~Joinable(Producer(track))
  /\ pc \in {"trackOpen", "spawnProducer"} => Active(track)

ThreadsInv == SendersInv /\ ProducersInv

LEMMA ThreadsInit == Init => ThreadsInv
<1> SUFFICES ASSUME Init PROVE ThreadsInv
  OBVIOUS
<1>1. /\ pc = "closed" /\ todo = {} /\ handlers = {}
      /\ sender = [t \in Tracks |-> "none"] /\ playing = [t \in Tracks |-> FALSE]
  BY DEF Init
<1>2. v_producer = "none" /\ a_producer = "none"
  BY DEF Init, V!InitTrack, A!InitTrack, V!NoThread, A!NoThread
<1>3. SendersInv
  <2>1. sender \in [Tracks -> Places] /\ playing \in [Tracks -> BOOLEAN]
    BY <1>1 DEF Places
  <2>2. todo \subseteq Tracks /\ handlers \subseteq Tracks
    BY <1>1
  <2> QED
    BY <1>1, <2>1, <2>2 DEF SendersInv, Starting, Leaving, AtTrack
<1>4. ProducersInv
  BY <1>1, <1>2 DEF ProducersInv, Joinable, Producer, Is
<1> QED
  BY <1>3, <1>4 DEF ThreadsInv

(* Steps of the connection thread that leave the two producers as they are.  *)
LEMMA ProducersStay ==
  ASSUME ThreadsInv,
         \A t \in Tracks : Active(t)' = Active(t) /\ Producer(t)' = Producer(t),
         pc # "trackJoin" \/ UNCHANGED <<pc, track>>,
         \/ pc' \notin {"trackStart", "trackOpen", "spawnProducer"}
         \/ /\ pc \in {"trackStart", "trackOpen", "spawnProducer"} /\ UNCHANGED track
            /\ track \in Tracks /\ (pc = "trackOpen" \/ UNCHANGED pc)
         \/ pc' = "trackStart" /\ track' \in Tracks /\ ~Active(track')
  PROVE  ProducersInv'
<1>1. ASSUME NEW t \in Tracks, Joinable(Producer(t)')
      PROVE  Active(t)' \/ (pc' = "trackJoin" /\ track' = t)
  BY <1>1 DEF ThreadsInv, ProducersInv, Joinable
<1>2. ASSUME pc' \in {"trackStart", "trackOpen", "spawnProducer"}
      PROVE  ~Joinable(Producer(track)')
  BY <1>2 DEF ThreadsInv, ProducersInv
<1>3. ASSUME pc' \in {"trackOpen", "spawnProducer"}
      PROVE  Active(track)'
  BY <1>3 DEF ThreadsInv, ProducersInv
<1> QED
  BY <1>1, <1>2, <1>3 DEF ProducersInv, Joinable

(* Steps of a track: what they do to is_active_ and the producer thread.     *)
LEMMA TrackSteps ==
  ASSUME NEW u \in Tracks, On(u, V!register_session(session), A!register_session(session))
                         \/ On(u, V!unregister_session(session), A!unregister_session(session))
                         \/ On(u, V!StartOpens, A!StartOpens)
                         \/ On(u, V!StartFailsToOpen, A!StartFailsToOpen)
                         \/ On(u, V!StopEndsAndCloses, A!StopEndsAndCloses)
  PROVE  UNCHANGED <<v_is_active, v_producer, a_is_active, a_producer>>
BY DEF On, V!register_session, A!register_session, V!unregister_session,
   A!unregister_session, V!StartOpens, A!StartOpens, V!StartFailsToOpen,
   A!StartFailsToOpen, V!StopEndsAndCloses, A!StopEndsAndCloses, V!trackVars, A!trackVars,
   videoVars, audioVars

LEMMA QuietMedia ==
  ASSUME UNCHANGED <<v_is_active, v_producer, a_is_active, a_producer>>
  PROVE  \A t \in Tracks : Active(t)' = Active(t) /\ Producer(t)' = Producer(t)
BY DEF Active, Producer, Is

LEMMA MediaVarsStay ==
  ASSUME UNCHANGED mediaVars
  PROVE  \A t \in Tracks : Active(t)' = Active(t) /\ Producer(t)' = Producer(t)
BY QuietMedia DEF mediaVars, videoVars, audioVars

-----------------------------------------------------------------------------
LEMMA SendersStep == SendersInv /\ [Next]_vars => SendersInv'
<1> SUFFICES ASSUME SendersInv, [Next]_vars PROVE SendersInv'
  OBVIOUS
<1> USE DEF SendersInv, Starting, Leaving, AtTrack, Goto, Visit, sessionVars, localVars
<1>1. CASE Frozen
  BY <1>1 DEF Frozen
<1>2. CASE ClientActs
  <2>1. CASE Accept \/ EndConnection \/ SetupNotFound
    BY <2>1 DEF Accept, EndConnection, SetupNotFound
  <2>2. ASSUME NEW t \in Tracks, Setup(t) PROVE SendersInv'
    BY <2>2 DEF Setup
  <2>3. CASE Play
    BY <2>3 DEF Play
  <2>4. CASE Pause
    BY <2>4 DEF Pause
  <2> QED
    BY <1>2, <2>1, <2>2, <2>3, <2>4 DEF ClientActs
<1>3. CASE ConnectionSteps
  <2>1. CASE RegisterSession \/ BindFails
    BY <2>1 DEF RegisterSession, BindFails
  <2>2. CASE Attaches
    BY <2>2 DEF Attaches, AttachHandler
  <2>3. ASSUME NEW t \in Tracks, StartEntry(t) PROVE SendersInv'
    BY <2>3 DEF StartEntry
  <2>4. CASE StartTrack \/ OpenTrack \/ OpenTrackFails
    BY <2>4 DEF StartTrack, OpenTrack, OpenTrackFails
  <2>11. CASE SpawnsProducer
    BY <2>11 DEF SpawnsProducer, SpawnProducer, Producer
  <2>5. CASE SpawnsSender
    BY <2>5 DEF SpawnsSender, SpawnSender, Places
  <2>6. CASE FinishStart \/ TerminateSession \/ EraseSession \/ DestroySession
    BY <2>6 DEF FinishStart, TerminateSession, EraseSession, DestroySession
  <2>7. ASSUME NEW t \in Tracks, StopEntry(t) PROVE SendersInv'
    BY <2>7 DEF StopEntry
  <2>8. CASE JoinSender
    BY <2>8 DEF JoinSender, Places
  <2>9. ASSUME NEW t \in Tracks, UnregisterEntry(t) PROVE SendersInv'
    BY <2>9 DEF UnregisterEntry
  <2>10. CASE TestNoConsumer \/ StopTrack \/ JoinProducer \/ CloseTrack \/ ReleaseHandler
    BY <2>10 DEF TestNoConsumer, StopTrack, JoinProducer, CloseTrack, ReleaseHandler
  <2> QED
    BY <1>3, <2>1, <2>2, <2>3, <2>4, <2>5, <2>6, <2>7, <2>8, <2>9, <2>10, <2>11
       DEF ConnectionSteps
<1>4. ASSUME NEW t \in Tracks, SenderTestsActive(t) \/ SenderGetsFrame(t) PROVE SendersInv'
  <2>1. /\ sender[t] \in {"loop", "consume"}
        /\ \E l \in {"loop", "consume", "finished"} : sender' = [sender EXCEPT ![t] = l]
        /\ UNCHANGED <<handlers, playing, pc, todo, track>>
    BY <1>4 DEF SenderTestsActive, SenderGetsFrame
  <2> QED
    BY <2>1 DEF Joinable, Places
<1>5. ASSUME NEW t \in Tracks, SenderWaits(t) \/ ProducerRuns(t) PROVE SendersInv'
  BY <1>5 DEF SenderWaits, ProducerRuns
<1> QED
  BY <1>1, <1>2, <1>3, <1>4, <1>5, StepCases DEF SenderRuns

LEMMA ProducersStep == ThreadsInv /\ [Next]_vars => ProducersInv'
<1> SUFFICES ASSUME ThreadsInv, [Next]_vars PROVE ProducersInv'
  OBVIOUS
<1> DEFINE Stay == \A t \in Tracks : Active(t)' = Active(t) /\ Producer(t)' = Producer(t)
           Calm == pc' \notin {"trackStart", "trackOpen", "spawnProducer", "trackJoin"}
<1> USE DEF Goto, sessionVars, localVars
<1>1. ASSUME Stay, Calm, pc # "trackJoin" PROVE ProducersInv'
  BY <1>1, ProducersStay
<1>2. ASSUME Stay, UNCHANGED <<pc, track>> PROVE ProducersInv'
  BY <1>2, ProducersStay DEF ThreadsInv, SendersInv, AtTrack, Starting, Leaving
<1>3. CASE Frozen
  BY <1>2, <1>3, MediaVarsStay DEF Frozen
<1>4. CASE ClientActs
  <2>1. Stay /\ Calm /\ pc # "trackJoin"
    BY <1>4, MediaVarsStay DEF ClientActs, Accept, EndConnection, Setup, SetupNotFound, Play,
       Pause
  <2> QED
    BY <1>1, <2>1
<1>5. CASE ConnectionSteps
  <2>1. CASE RegisterSession
    <3>1. track \in Tracks
      BY <2>1 DEF RegisterSession, ThreadsInv, SendersInv, AtTrack, Leaving
    <3>2. Stay
      BY <2>1, <3>1, TrackSteps, QuietMedia DEF RegisterSession
    <3> QED
      BY <1>1, <2>1, <3>2 DEF RegisterSession
  <2>2. CASE BindFails \/ Attaches \/ SpawnsSender \/ FinishStart \/ TerminateSession
             \/ JoinSender \/ EraseSession \/ ReleaseHandler \/ DestroySession
    <3>1. Stay
      BY <2>2, MediaVarsStay DEF BindFails, Attaches, AttachHandler, SpawnsSender, SpawnSender, FinishStart,
         TerminateSession, JoinSender, EraseSession, ReleaseHandler, DestroySession
    <3>2. Calm /\ pc # "trackJoin"
      BY <2>2 DEF BindFails, Attaches, AttachHandler, SpawnsSender, SpawnSender, FinishStart,
         TerminateSession, JoinSender, EraseSession, ReleaseHandler, DestroySession
    <3> QED
      BY <1>1, <3>1, <3>2
  <2>3. ASSUME NEW t \in Tracks, StartEntry(t) PROVE ProducersInv'
    <3>1. Stay
      BY <2>3, MediaVarsStay DEF StartEntry
    <3>2. pc = "start"
      BY <2>3 DEF StartEntry
    <3>3. Calm \/ (pc' = "trackStart" /\ track' = t /\ ~Active(t))
      BY <2>3 DEF StartEntry, Visit, Active
    <3> QED
      BY <3>1, <3>2, <3>3, ProducersStay
  <2>4. CASE StartTrack
    <3>1. track \in Tracks /\ pc = "trackStart" /\ pc' = "trackOpen" /\ track' = track
      BY <2>4 DEF StartTrack, ThreadsInv, SendersInv, AtTrack, Starting, Leaving
    <3>2. \A t \in Tracks : /\ Producer(t)' = Producer(t)
                            /\ Active(t)' = IF t = track THEN TRUE ELSE Active(t)
      BY <2>4, <3>1 DEF StartTrack, On, V!StartActivates, A!StartActivates, Producer, Active, Is,
         videoVars, audioVars, Tracks
    <3> QED
      BY <3>1, <3>2 DEF ThreadsInv, ProducersInv, Joinable
  <2>5. CASE OpenTrack \/ OpenTrackFails
    <3>1. track \in Tracks /\ pc = "trackOpen" /\ track' = track
          /\ pc' \in {"spawnProducer", "leave"}
      BY <2>5 DEF OpenTrack, OpenTrackFails, ThreadsInv, SendersInv, AtTrack, Starting, Leaving
    <3>2. Stay
      BY <2>5, <3>1, TrackSteps, QuietMedia DEF OpenTrack, OpenTrackFails
    <3> QED
      BY <3>1, <3>2, ProducersStay
  <2>6. CASE SpawnsProducer
    <3>1. track \in Tracks /\ pc = "spawnProducer" /\ pc' = "spawnSender"
      BY <2>6 DEF SpawnsProducer, SpawnProducer, Producer, ThreadsInv, SendersInv, AtTrack, Starting, Leaving
    <3>2. \A t \in Tracks : /\ Active(t)' = Active(t)
                            /\ t # track => Producer(t)' = Producer(t)
      BY <2>6, <3>1 DEF SpawnsProducer, SpawnProducer, On, V!StartSpawns, A!StartSpawns, Producer, Active, Is,
         videoVars, audioVars, Tracks
    <3> QED
      BY <3>1, <3>2 DEF ThreadsInv, ProducersInv, Joinable
  <2>7. ASSUME NEW t \in Tracks, StopEntry(t) PROVE ProducersInv'
    BY <1>1, <2>7, MediaVarsStay DEF StopEntry
  <2>8. ASSUME NEW t \in Tracks, UnregisterEntry(t) PROVE ProducersInv'
    <3>1. Stay
      BY <2>8, TrackSteps, QuietMedia DEF UnregisterEntry
    <3> QED
      BY <1>1, <2>8, <3>1 DEF UnregisterEntry
  <2>9. CASE TestNoConsumer
    <3>1. pc = "noConsumer" /\ pc' \in {"trackStop", "release"}
      BY <2>9 DEF TestNoConsumer
    <3>2. Stay
      BY <2>9, MediaVarsStay DEF TestNoConsumer
    <3> QED
      BY <1>1, <3>1, <3>2
  <2>10. CASE StopTrack
    <3>1. track \in Tracks /\ pc = "trackStop" /\ pc' = "trackJoin" /\ track' = track
      BY <2>10 DEF StopTrack, ThreadsInv, SendersInv, AtTrack, Leaving
    <3>2. \A t \in Tracks : /\ Producer(t)' = Producer(t)
                            /\ t # track => Active(t)' = Active(t)
      BY <2>10, <3>1 DEF StopTrack, On, V!StopSignals, A!StopSignals, Producer, Active, Is,
         videoVars, audioVars, Tracks
    <3> QED
      BY <3>1, <3>2 DEF ThreadsInv, ProducersInv, Joinable
  <2>11. CASE JoinProducer
    <3>1. track \in Tracks /\ pc = "trackJoin" /\ pc' = "trackClose" /\ track' = track
      BY <2>11 DEF JoinProducer, ThreadsInv, SendersInv, AtTrack, Leaving
    <3>2. \A t \in Tracks : /\ Producer(t)' = IF t = track THEN "none" ELSE Producer(t)
                            /\ Active(t)' = Active(t)
      BY <2>11, <3>1 DEF JoinProducer, On, V!StopJoins, A!StopJoins, V!NoThread, A!NoThread,
         Producer, Active, Is, videoVars, audioVars, Tracks
    <3> QED
      BY <3>1, <3>2 DEF ThreadsInv, ProducersInv, Joinable
  <2>12. CASE CloseTrack
    <3>1. track \in Tracks /\ pc = "trackClose" /\ pc' = "release"
      BY <2>12 DEF CloseTrack, ThreadsInv, SendersInv, AtTrack, Leaving
    <3>2. Stay
      BY <2>12, <3>1, TrackSteps, QuietMedia DEF CloseTrack
    <3> QED
      BY <1>1, <3>1, <3>2
  <2> QED
    BY <1>5, <2>1, <2>2, <2>3, <2>4, <2>5, <2>6, <2>7, <2>8, <2>9, <2>10, <2>11, <2>12
       DEF ConnectionSteps
<1>6. ASSUME NEW t \in Tracks, SenderRuns(t) PROVE ProducersInv'
  <2>1. UNCHANGED <<v_is_active, v_producer, a_is_active, a_producer, pc, track>>
    BY <1>6 DEF SenderRuns, SenderTestsActive, SenderWaits, SenderGetsFrame, On, mediaVars,
       videoVars, audioVars, videoTrack, audioTrack
  <2> QED
    BY <1>2, <2>1, QuietMedia
<1>7. ASSUME NEW t \in Tracks, ProducerRuns(t) PROVE ProducersInv'
  <2>1. UNCHANGED <<v_is_active, a_is_active, pc, track>>
    BY <1>7 DEF ProducerRuns, On, V!run_producer, A!run_producer, videoVars, audioVars,
       V!ProducerReadsFrame, V!ProducerLeavesLoop, V!ProducerWaits, V!ProducerPutsFrame,
       V!ProducerFinishes, A!ProducerReadsFrame, A!ProducerLeavesLoop, A!ProducerWaits,
       A!ProducerPutsFrame, A!ProducerFinishes, V!trackVars, A!trackVars
  <2>2. \A u \in Tracks : Producer(u) = "none" => Producer(u)' = "none"
    BY <1>7 DEF ProducerRuns, On, V!run_producer, A!run_producer, videoVars, audioVars,
       V!ProducerReadsFrame, V!ProducerLeavesLoop, V!ProducerWaits, V!ProducerPutsFrame,
       V!ProducerFinishes, A!ProducerReadsFrame, A!ProducerLeavesLoop, A!ProducerWaits,
       A!ProducerPutsFrame, A!ProducerFinishes, V!trackVars, A!trackVars, Producer, Is
  <2>3. \A u \in Tracks : Active(u)' = Active(u)
    BY <2>1 DEF Active, Is
  <2>4. pc \in {"trackStart", "trackOpen", "spawnProducer"} => track \in Tracks
    BY DEF ThreadsInv, SendersInv, AtTrack, Starting, Leaving
  <2> QED
    BY <2>1, <2>2, <2>3, <2>4 DEF ThreadsInv, ProducersInv, Joinable
<1> QED
  BY <1>3, <1>4, <1>5, <1>6, <1>7, StepCases

LEMMA ThreadsStep == ThreadsInv /\ [Next]_vars => ThreadsInv'
BY SendersStep, ProducersStep DEF ThreadsInv

-----------------------------------------------------------------------------
(* The loops over session_handlers_ and the session they belong to.          *)
Looping == Starting \cup Leaving \cup {"start", "stop", "join", "unregister"}

LoopInv ==
  /\ session \in SessionIds \cup {NoSession}
  /\ pc \in Looping => todo \subseteq handlers
  /\ pc \in Starting \cup Leaving \cup {"join"} => track \in handlers
  /\ session = NoSession => handlers = {} /\ pc \in {"closed", "recv", "leave"}
  /\ pc = "closed" => session = NoSession

(* A sender has an entry, and the loop of stop() joins those of all entries. *)
JoinedInv ==
  /\ \A t \in Tracks \ handlers : ~Joinable(sender[t])
  /\ pc \in {"stop", "join"} =>
       \A t \in handlers \ todo : ~Joinable(sender[t]) \/ (pc = "join" /\ track = t)
  /\ pc \in Leaving \cup {"unregister"} => \A t \in Tracks : ~Joinable(sender[t])

EntryInv == SendersInv /\ LoopInv /\ JoinedInv

LEMMA FreshIsUnused ==
  ASSUME \E s \in SessionIds : Unused(s)
  PROVE  FreshId \in SessionIds /\ Unused(FreshId)
BY DEF FreshId

LEMMA SetupHasSession ==
  ASSUME NEW t \in Tracks, Setup(t), session \in SessionIds \cup {NoSession}
  PROVE  /\ session' \in SessionIds /\ session' # NoSession
         /\ session = NoSession => Unused(session')
         /\ session # NoSession => session' = session
BY FreshIsUnused, SessionAssumption DEF Setup

LEMMA LoopStep == LoopInv /\ [Next]_vars => LoopInv'
<1> SUFFICES ASSUME LoopInv, [Next]_vars PROVE LoopInv'
  OBVIOUS
<1> USE DEF LoopInv, Looping, Starting, Leaving, Goto, Visit, sessionVars, localVars
<1>1. CASE Frozen
  BY <1>1 DEF Frozen
<1>2. CASE ClientActs
  <2>1. CASE Accept \/ EndConnection \/ SetupNotFound \/ Play \/ Pause
    BY <2>1 DEF Accept, EndConnection, SetupNotFound, Play, Pause
  <2>2. ASSUME NEW t \in Tracks, Setup(t) PROVE LoopInv'
    BY <2>2, SetupHasSession DEF Setup
  <2> QED
    BY <1>2, <2>1, <2>2 DEF ClientActs
<1>3. CASE ConnectionSteps
  <2>1. CASE RegisterSession \/ BindFails
    BY <2>1 DEF RegisterSession, BindFails
  <2>2. CASE Attaches
    BY <2>2 DEF Attaches, AttachHandler
  <2>3. ASSUME NEW t \in Tracks, StartEntry(t) PROVE LoopInv'
    BY <2>3 DEF StartEntry
  <2>4. CASE StartTrack \/ OpenTrack \/ OpenTrackFails \/ FinishStart
    BY <2>4 DEF StartTrack, OpenTrack, OpenTrackFails, FinishStart
  <2>5. CASE SpawnsProducer
    BY <2>5 DEF SpawnsProducer, SpawnProducer, Producer
  <2>6. CASE SpawnsSender
    BY <2>6 DEF SpawnsSender, SpawnSender
  <2>7. CASE TerminateSession \/ JoinSender \/ EraseSession \/ DestroySession
    BY <2>7 DEF TerminateSession, JoinSender, EraseSession, DestroySession
  <2>8. ASSUME NEW t \in Tracks, StopEntry(t) \/ UnregisterEntry(t) PROVE LoopInv'
    BY <2>8 DEF StopEntry, UnregisterEntry
  <2>9. CASE TestNoConsumer \/ StopTrack \/ JoinProducer \/ CloseTrack \/ ReleaseHandler
    BY <2>9 DEF TestNoConsumer, StopTrack, JoinProducer, CloseTrack, ReleaseHandler
  <2> QED
    BY <1>3, <2>1, <2>2, <2>3, <2>4, <2>5, <2>6, <2>7, <2>8, <2>9 DEF ConnectionSteps
<1>4. ASSUME NEW t \in Tracks, SenderRuns(t) \/ ProducerRuns(t) PROVE LoopInv'
  BY <1>4 DEF SenderRuns, SenderTestsActive, SenderWaits, SenderGetsFrame, ProducerRuns
<1> QED
  BY <1>1, <1>2, <1>3, <1>4, StepCases

(* What a step of a sender does to the senders.                              *)
LEMMA SenderMoves ==
  ASSUME SendersInv, NEW t \in Tracks, SenderRuns(t)
  PROVE  /\ sender[t] # "none"
         /\ \A u \in Tracks : Joinable(sender'[u]) <=> Joinable(sender[u])
         /\ UNCHANGED <<session, handlers, playing, port, pc, localVars, historyVars>>
<1>1. CASE SenderTestsActive(t) \/ SenderGetsFrame(t)
  <2>1. sender[t] # "none" /\ UNCHANGED <<session, handlers, playing, port, pc, localVars, historyVars>>
    BY <1>1 DEF SenderTestsActive, SenderGetsFrame
  <2>2. PICK l \in {"loop", "consume", "finished"} : sender' = [sender EXCEPT ![t] = l]
    BY <1>1 DEF SenderTestsActive, SenderGetsFrame
  <2>3. \A u \in Tracks : sender'[u] = IF u = t THEN l ELSE sender[u]
    BY <2>2 DEF SendersInv
  <2> QED
    BY <2>1, <2>3 DEF Joinable
<1>2. CASE SenderWaits(t)
  BY <1>2 DEF SenderWaits, sessionVars
<1> QED
  BY <1>1, <1>2 DEF SenderRuns

LEMMA JoinedStep == EntryInv /\ [Next]_vars => JoinedInv'
<1> SUFFICES ASSUME EntryInv, [Next]_vars PROVE JoinedInv'
  OBVIOUS
<1>0. /\ SendersInv /\ JoinedInv /\ LoopInv /\ sender \in [Tracks -> Places]
      /\ (pc \in AtTrack => track \in Tracks) /\ handlers \subseteq Tracks
  BY DEF EntryInv, SendersInv
<1> USE DEF JoinedInv, Leaving, Goto, Visit, sessionVars, localVars
<1>1. CASE Frozen
  BY <1>0, <1>1 DEF Frozen
<1>2. CASE ClientActs
  BY <1>0, <1>2 DEF ClientActs, Accept, EndConnection, Setup, SetupNotFound, Play, Pause
<1>3. CASE ConnectionSteps
  <2>1. CASE RegisterSession \/ BindFails
    BY <1>0, <2>1 DEF RegisterSession, BindFails
  <2>2. CASE Attaches
    BY <1>0, <2>2 DEF Attaches, AttachHandler
  <2>3. ASSUME NEW t \in Tracks, StartEntry(t) PROVE JoinedInv'
    BY <1>0, <2>3 DEF StartEntry
  <2>4. CASE StartTrack \/ OpenTrack \/ OpenTrackFails \/ FinishStart
    BY <1>0, <2>4 DEF StartTrack, OpenTrack, OpenTrackFails, FinishStart
  <2>5. CASE SpawnsProducer
    BY <1>0, <2>5 DEF SpawnsProducer, SpawnProducer, Producer
  <2>6. CASE SpawnsSender
    <3>1. /\ pc = "spawnSender" /\ pc' = "start" /\ sender' = [sender EXCEPT ![track] = "loop"]
          /\ UNCHANGED handlers
      BY <2>6 DEF SpawnsSender, SpawnSender
    <3>2. track \in handlers
      BY <1>0, <3>1 DEF LoopInv, Starting
    <3>3. \A t \in Tracks \ {track} : sender'[t] = sender[t]
      BY <1>0, <3>1
    <3> QED
      BY <1>0, <3>1, <3>2, <3>3
  <2>7. CASE TerminateSession
    BY <1>0, <2>7 DEF TerminateSession
  <2>8. CASE JoinSender
    <3>1. /\ pc = "join" /\ pc' = "stop" /\ sender' = [sender EXCEPT ![track] = "none"]
          /\ UNCHANGED <<handlers, todo, track>>
      BY <2>8 DEF JoinSender
    <3>2. track \in Tracks
      BY <1>0, <3>1 DEF AtTrack
    <3>3. \A t \in Tracks : sender'[t] = IF t = track THEN "none" ELSE sender[t]
      BY <1>0, <3>1
    <3> QED
      BY <1>0, <3>1, <3>2, <3>3 DEF Joinable
  <2>9. CASE EraseSession
    <3>1. /\ pc = "stop" /\ pc' = "unregister" /\ todo = {} /\ UNCHANGED <<sender, handlers>>
      BY <2>9 DEF EraseSession
    <3>2. \A t \in handlers : ~Joinable(sender[t])
      BY <1>0, <3>1
    <3> QED
      BY <1>0, <3>1, <3>2
  <2>10. ASSUME NEW t \in Tracks, UnregisterEntry(t) PROVE JoinedInv'
    BY <1>0, <2>10 DEF UnregisterEntry
  <2>11. CASE TestNoConsumer \/ StopTrack \/ JoinProducer \/ CloseTrack \/ ReleaseHandler
              \/ DestroySession
    BY <1>0, <2>11 DEF TestNoConsumer, StopTrack, JoinProducer, CloseTrack, ReleaseHandler,
       DestroySession
  <2>12. ASSUME NEW t \in Tracks, StopEntry(t) PROVE JoinedInv'
    BY <1>0, <2>12 DEF StopEntry
  <2> QED
    BY <1>3, <2>1, <2>2, <2>3, <2>4, <2>5, <2>6, <2>7, <2>8, <2>9, <2>10, <2>11, <2>12
       DEF ConnectionSteps
<1>4. ASSUME NEW t \in Tracks, SenderRuns(t) PROVE JoinedInv'
  <2>1. /\ \A u \in Tracks : Joinable(sender'[u]) <=> Joinable(sender[u])
        /\ UNCHANGED <<handlers, pc, todo, track>>
    BY <1>0, <1>4, SenderMoves
  <2> QED
    BY <1>0, <2>1
<1>5. ASSUME NEW t \in Tracks, ProducerRuns(t) PROVE JoinedInv'
  BY <1>0, <1>5 DEF ProducerRuns
<1> QED
  BY <1>1, <1>2, <1>3, <1>4, <1>5, StepCases

LEMMA EntryInit == Init => EntryInv
<1> SUFFICES ASSUME Init PROVE EntryInv
  OBVIOUS
<1>1. /\ pc = "closed" /\ handlers = {} /\ sender = [t \in Tracks |-> "none"]
      /\ session = NoSession /\ SendersInv
  BY ThreadsInit DEF Init, ThreadsInv
<1> QED
  BY <1>1 DEF EntryInv, LoopInv, JoinedInv, Looping, Leaving, Starting, Joinable

LEMMA EntryStep == EntryInv /\ [Next]_vars => EntryInv'
BY SendersStep, LoopStep, JoinedStep DEF EntryInv

-----------------------------------------------------------------------------
(* What the client asked for.  Between two requests a track that was asked   *)
(* to play has a sender, and plays until it is told to pause.                *)
Settled(t) ==
  \/ asked[t] \in {"none", "again"} /\ ~Joinable(sender[t]) /\ ~playing[t]
  \/ asked[t] = "play" /\ Joinable(sender[t]) /\ playing[t]
  \/ asked[t] = "pause" /\ Joinable(sender[t]) /\ ~playing[t]

ToStart(t) ==
  \/ asked[t] = "play" /\ (Joinable(sender[t]) <=> playing[t])
  \/ asked[t] = "again" /\ Joinable(sender[t]) /\ ~playing[t]

AskedInv ==
  /\ asked \in [Tracks -> {"none", "play", "pause", "again"}]
  /\ \A t \in Tracks \ handlers : asked[t] = "none"
  /\ pc = "recv" => \A t \in handlers : Settled(t)
  /\ pc \in {"register", "attach"} =>
       /\ \A t \in handlers \ {track} : Settled(t)
       /\ asked[track] \in {"none", "again"}
       /\ Joinable(sender[track]) => asked[track] = "again"
  /\ pc \in Starting \cup {"start"} =>
       /\ \A t \in todo : ToStart(t)
       /\ \A t \in handlers \ todo : Settled(t) \/ (pc \in Starting /\ track = t)
  /\ pc \in Starting =>
       /\ track \notin todo /\ playing[track]
       /\ asked[track] = IF Joinable(sender[track]) THEN "again" ELSE "play"

LEMMA AskedInit == Init => AskedInv
BY DEF Init, AskedInv, Starting

(* Steps that are not about PLAY, or leave what is asked for as it is.       *)
LEMMA AskedStays ==
  ASSUME AskedInv, SendersInv, UNCHANGED <<playing, asked, handlers>>,
         \A t \in Tracks : Joinable(sender'[t]) <=> Joinable(sender[t]),
         \/ UNCHANGED <<pc, todo, track>>
         \/ pc' \notin Starting \cup {"start", "recv", "register", "attach"}
         \/ pc \in Starting /\ pc' \in Starting /\ UNCHANGED <<todo, track>>
         \/ pc = "register" /\ pc' = "attach" /\ UNCHANGED <<todo, track>>
  PROVE  AskedInv'
<1>1. handlers \subseteq Tracks /\ todo \subseteq Tracks
      /\ (pc \in Starting \cup {"register", "attach"} => track \in Tracks)
  BY DEF SendersInv, AtTrack
<1>2. \A t \in Tracks : (Settled(t)' <=> Settled(t)) /\ (ToStart(t)' <=> ToStart(t))
  BY DEF Settled, ToStart, Joinable
<1>3. CASE UNCHANGED <<pc, todo, track>>
  BY <1>1, <1>2, <1>3 DEF AskedInv, Joinable
<1>4. CASE pc' \notin Starting \cup {"start", "recv", "register", "attach"}
  BY <1>4 DEF AskedInv
<1>5. CASE pc \in Starting /\ pc' \in Starting /\ UNCHANGED <<todo, track>>
  BY <1>1, <1>2, <1>5 DEF AskedInv, Joinable, Starting
<1>6. CASE pc = "register" /\ pc' = "attach" /\ UNCHANGED <<todo, track>>
  BY <1>1, <1>2, <1>6 DEF AskedInv, Joinable, Starting
<1> QED
  BY <1>3, <1>4, <1>5, <1>6

(* The requests.                                                             *)
LEMMA AskedByClient ==
  ASSUME AskedInv, EntryInv, ClientActs
  PROVE  AskedInv'
<1>1. SendersInv /\ LoopInv /\ JoinedInv /\ handlers \subseteq Tracks
  BY DEF EntryInv, SendersInv
<1> USE DEF Goto, sessionVars, localVars, historyVars
<1>2. CASE Accept
  <2>1. pc = "closed" /\ pc' = "recv" /\ UNCHANGED <<handlers, asked>>
    BY <1>2 DEF Accept
  <2>2. handlers = {}
    BY <1>1, <2>1 DEF LoopInv
  <2> QED
    BY <2>1, <2>2 DEF AskedInv, Starting
<1>3. CASE EndConnection \/ SetupNotFound
  BY <1>1, <1>3, AskedStays DEF EndConnection, SetupNotFound, Starting
<1>4. ASSUME NEW t \in Tracks, Setup(t) PROVE AskedInv'
  <2>1. /\ pc = "recv" /\ pc' = "register" /\ track' = t
        /\ UNCHANGED <<handlers, playing, sender>>
        /\ asked' = [asked EXCEPT ![t] = IF @ = "none" THEN "none" ELSE "again"]
    BY <1>4 DEF Setup
  <2>2. /\ asked' \in [Tracks -> {"none", "play", "pause", "again"}]
        /\ asked'[t] = IF asked[t] = "none" THEN "none" ELSE "again"
        /\ \A u \in Tracks \ {t} : asked'[u] = asked[u]
    BY <2>1 DEF AskedInv
  <2>3. \A u \in handlers \ {t} : Settled(u)'
    BY <1>1, <2>1, <2>2 DEF AskedInv, Settled, Joinable
  <2>4. \A u \in Tracks \ handlers' : asked'[u] = "none"
    BY <2>1, <2>2 DEF AskedInv
  <2>5. Joinable(sender'[t]) => asked'[t] = "again"
    BY <1>1, <2>1, <2>2 DEF AskedInv, Settled, JoinedInv
  <2> QED
    BY <2>1, <2>2, <2>3, <2>4, <2>5 DEF AskedInv, Starting, Joinable
<1>5. CASE Play
  <2>1. /\ pc = "recv" /\ pc' = "start" /\ todo' = handlers
        /\ UNCHANGED <<handlers, playing, sender>>
        /\ asked' = [t \in Tracks |-> IF t \notin handlers THEN asked[t]
                                ELSE IF asked[t] = "pause" THEN "again" ELSE "play"]
    BY <1>5 DEF Play
  <2>2. \A t \in handlers : ToStart(t)'
    BY <1>1, <2>1 DEF AskedInv, Settled, ToStart, Joinable
  <2> QED
    BY <1>1, <2>1, <2>2 DEF AskedInv, Starting
<1>6. CASE Pause
  <2>1. /\ pc = "recv" /\ pc' = "recv" /\ UNCHANGED <<handlers, sender>>
        /\ playing' = [t \in Tracks |-> FALSE]
        /\ asked' = [t \in Tracks |-> IF asked[t] = "play" THEN "pause" ELSE asked[t]]
    BY <1>6 DEF Pause
  <2>2. \A t \in handlers : Settled(t)'
    BY <1>1, <2>1 DEF AskedInv, Settled, Joinable
  <2> QED
    BY <1>1, <2>1, <2>2 DEF AskedInv, Starting
<1> QED
  BY <1>2, <1>3, <1>4, <1>5, <1>6 DEF ClientActs

LEMMA AskedByLoops ==
  ASSUME AskedInv, EntryInv, ConnectionSteps
  PROVE  AskedInv'
<1>1. SendersInv /\ LoopInv /\ JoinedInv /\ handlers \subseteq Tracks /\ todo \subseteq Tracks
  BY DEF EntryInv, SendersInv
<1> USE DEF Goto, Visit, sessionVars, localVars, historyVars
<1>2. CASE RegisterSession
  BY <1>1, <1>2, AskedStays DEF RegisterSession
<1>3. ASSUME pc' \notin Starting \cup {"start", "recv", "register", "attach"},
             UNCHANGED <<asked, handlers>>
      PROVE  AskedInv'
  BY <1>3 DEF AskedInv
<1>4. CASE \/ BindFails \/ OpenTrackFails \/ TerminateSession \/ JoinSender \/ EraseSession
           \/ TestNoConsumer \/ StopTrack \/ JoinProducer \/ CloseTrack \/ ReleaseHandler
  BY <1>3, <1>4 DEF BindFails, OpenTrackFails, TerminateSession, JoinSender, EraseSession,
     TestNoConsumer, StopTrack, JoinProducer, CloseTrack, ReleaseHandler, Starting
<1>5. ASSUME NEW t \in Tracks, StopEntry(t) \/ UnregisterEntry(t) PROVE AskedInv'
  BY <1>3, <1>5 DEF StopEntry, UnregisterEntry, Starting
<1>6. CASE DestroySession
  BY <1>6 DEF DestroySession, AskedInv, Starting
<1>7. CASE Attaches
  <2>1. /\ pc = "attach" /\ pc' = "recv" /\ handlers' = handlers \cup {track}
        /\ playing' = [playing EXCEPT ![track] = FALSE]
        /\ UNCHANGED <<sender, asked>> /\ ~Joinable(sender[track])
    BY <1>7 DEF Attaches, AttachHandler
  <2>2. track \in Tracks /\ playing \in [Tracks -> BOOLEAN]
    BY <1>1, <2>1 DEF SendersInv, AtTrack
  <2>3. playing'[track] = FALSE /\ \A t \in Tracks \ {track} : playing'[t] = playing[t]
    BY <2>1, <2>2
  <2>4. \A t \in Tracks : t = track => Settled(t)'
    BY <2>1, <2>3 DEF AskedInv, Settled
  <2>5. \A t \in handlers \ {track} : Settled(t)'
    BY <1>1, <2>1, <2>3 DEF AskedInv, Settled, Joinable
  <2>6. \A t \in handlers' : Settled(t)'
    BY <2>1, <2>2, <2>4, <2>5
  <2>7. \A t \in Tracks \ handlers' : asked'[t] = "none"
    BY <2>1 DEF AskedInv
  <2> QED
    BY <2>1, <2>6, <2>7 DEF AskedInv, Starting
<1>8. ASSUME NEW t \in Tracks, StartEntry(t) PROVE AskedInv'
  <2>1. /\ pc = "start" /\ t \in todo /\ todo' = todo \ {t} /\ track' = t
        /\ UNCHANGED <<handlers, sender, asked>>
        /\ \/ playing[t] /\ pc' = "start" /\ UNCHANGED playing
           \/ /\ ~playing[t] /\ pc' \in {"spawnSender", "trackStart"}
              /\ playing' = [playing EXCEPT ![t] = TRUE]
    BY <1>8 DEF StartEntry
  <2>2. playing'[t] = TRUE /\ \A u \in Tracks \ {t} : playing'[u] = playing[u]
    BY <1>1, <2>1 DEF SendersInv
  <2>3. ToStart(t)
    BY <2>1 DEF AskedInv
  <2>4. /\ \A u \in Tracks \ {t} : Settled(u)' <=> Settled(u)
        /\ \A u \in Tracks \ {t} : ToStart(u)' <=> ToStart(u)
    BY <2>1, <2>2 DEF Settled, ToStart
  <2>5. pc' = "start" => Settled(t)'
    BY <2>1, <2>2, <2>3 DEF ToStart, Settled
  <2>6. pc' # "start" => asked'[t] = IF Joinable(sender'[t]) THEN "again" ELSE "play"
    BY <2>1, <2>3 DEF ToStart
  <2>7. \A u \in todo' : ToStart(u)'
    BY <1>1, <2>1, <2>4 DEF AskedInv
  <2>8. \A u \in handlers' \ todo' : Settled(u)' \/ (pc' \in Starting /\ track' = u)
    BY <1>1, <2>1, <2>4, <2>5 DEF AskedInv, Starting
  <2> QED
    BY <2>1, <2>2, <2>6, <2>7, <2>8 DEF AskedInv, Starting, Joinable
<1>9. CASE StartTrack \/ OpenTrack
  BY <1>1, <1>9, AskedStays DEF StartTrack, OpenTrack, Starting
<1>10. CASE SpawnsProducer
  BY <1>1, <1>10, AskedStays DEF SpawnsProducer, SpawnProducer, Producer, Starting
<1>11. CASE SpawnsSender
  <2>1. /\ pc = "spawnSender" /\ pc' = "start" /\ sender' = [sender EXCEPT ![track] = "loop"]
        /\ UNCHANGED <<handlers, playing, asked, todo, track>> /\ ~Joinable(sender[track])
    BY <1>11 DEF SpawnsSender, SpawnSender
  <2>2. track \in Tracks
    BY <1>1, <2>1 DEF SendersInv, AtTrack, Starting
  <2>3. sender'[track] = "loop" /\ \A t \in Tracks \ {track} : sender'[t] = sender[t]
    BY <1>1, <2>1, <2>2 DEF SendersInv
  <2>4. track \notin todo /\ playing[track] /\ asked[track] = "play"
    BY <2>1 DEF AskedInv, Starting
  <2>5. Settled(track)'
    BY <2>1, <2>3, <2>4 DEF Settled, Joinable
  <2>6. \A t \in Tracks \ {track} : (Settled(t)' <=> Settled(t)) /\ (ToStart(t)' <=> ToStart(t))
    BY <2>1, <2>3 DEF Settled, ToStart
  <2>7. \A t \in todo' : ToStart(t)'
    BY <1>1, <2>1, <2>4, <2>6 DEF AskedInv, Starting
  <2>8. \A t \in handlers' \ todo' : Settled(t)'
    BY <1>1, <2>1, <2>5, <2>6 DEF AskedInv, Starting
  <2> QED
    BY <2>1, <2>7, <2>8 DEF AskedInv, Starting
<1>12. CASE FinishStart
  <2>1. /\ pc = "start" /\ todo = {} /\ pc' = "recv"
        /\ UNCHANGED <<handlers, playing, sender, asked>>
    BY <1>12 DEF FinishStart
  <2>2. \A t \in handlers : Settled(t)'
    BY <2>1 DEF AskedInv, Starting, Settled
  <2> QED
    BY <2>1, <2>2 DEF AskedInv, Starting
<1> QED
  BY <1>2, <1>4, <1>5, <1>6, <1>7, <1>8, <1>9, <1>10, <1>11, <1>12 DEF ConnectionSteps

LEMMA AskedStep == AskedInv /\ EntryInv /\ [Next]_vars => AskedInv'
<1> SUFFICES ASSUME AskedInv, EntryInv, [Next]_vars PROVE AskedInv'
  OBVIOUS
<1>1. SendersInv
  BY DEF EntryInv
<1>2. CASE Frozen
  BY <1>1, <1>2, AskedStays DEF Frozen, sessionVars, localVars, historyVars
<1>3. ASSUME NEW t \in Tracks, SenderRuns(t) PROVE AskedInv'
  BY <1>1, <1>3, SenderMoves, AskedStays DEF localVars, historyVars
<1>4. ASSUME NEW t \in Tracks, ProducerRuns(t) PROVE AskedInv'
  BY <1>1, <1>4, AskedStays DEF ProducerRuns, sessionVars, localVars, historyVars
<1> QED
  BY <1>2, <1>3, <1>4, AskedByClient, AskedByLoops, StepCases

(* A thread is destroyed by the three steps that assign to its pointer only. *)
LEMMA CrashStep ==
  ASSUME AskedInv, ThreadsInv, [Next]_vars, OnlyRepeatedRequestsReplaceThreads
  PROVE  OnlyRepeatedRequestsReplaceThreads'
<1> USE DEF OnlyRepeatedRequestsReplaceThreads
<1>1. CASE UNCHANGED vars
  BY <1>1 DEF vars, localVars, historyVars
<1>2. ASSUME Alive, UNCHANGED crashed PROVE OnlyRepeatedRequestsReplaceThreads'
  BY <1>2 DEF Alive
<1>3. CASE Alive /\ AttachHandler
  <2>1. CASE Joinable(sender[track])
    BY <1>3, <2>1 DEF AttachHandler, Crash, AskedInv, localVars, historyVars
  <2> QED
    BY <1>2, <1>3, <2>1 DEF AttachHandler
<1>4. CASE SpawnProducer
  <2>1. ~Joinable(Producer(track))
    BY <1>4 DEF SpawnProducer, ThreadsInv, ProducersInv
  <2> QED
    BY <1>4, <2>1 DEF SpawnProducer, Producer, localVars, historyVars
<1>5. CASE SpawnSender
  <2>1. CASE Joinable(sender[track])
    BY <1>5, <2>1 DEF SpawnSender, Crash, AskedInv, Starting, localVars, historyVars
  <2> QED
    BY <1>5, <2>1 DEF SpawnSender, localVars, historyVars
<1>6. CASE Next
  <2>1. Alive
    BY <1>6 DEF Next
  <2>2. CASE ClientActs
    BY <1>2, <2>1, <2>2 DEF ClientActs, Accept, EndConnection, Setup, SetupNotFound, Play, Pause
  <2>3. CASE ConnectionRuns
    BY <1>2, <1>3, <1>4, <1>5, <2>1, <2>3
       DEF ConnectionRuns, RegisterSession, BindFails, StartEntry, StartTrack, OpenTrack,
           OpenTrackFails, FinishStart, TerminateSession, StopEntry, JoinSender, EraseSession,
           UnregisterEntry, TestNoConsumer, StopTrack, JoinProducer, CloseTrack, ReleaseHandler,
           DestroySession
  <2>4. ASSUME NEW t \in Tracks, SenderRuns(t) \/ ProducerRuns(t)
        PROVE  OnlyRepeatedRequestsReplaceThreads'
    BY <1>2, <2>1, <2>4
       DEF SenderRuns, SenderTestsActive, SenderWaits, SenderGetsFrame, ProducerRuns
  <2> QED
    BY <1>6, <2>2, <2>3, <2>4 DEF Next
<1> QED
  BY <1>1, <1>6

(* For any queue, file and faults, and whatever requests a client sends      *)
(* within its session: no producer thread is assigned over that is still     *)
(* joinable, and a sender thread only where the client has set up a track    *)
(* again that it had played, or plays again what it had paused               *)
(* (Session.cpp:43,49-54,93-96, MediaSourceHandler.cpp:141,150-158).         *)
THEOREM ThreadsAreReplacedOnRequestOnly == Spec => []OnlyRepeatedRequestsReplaceThreads
<1>1. Init => OnlyRepeatedRequestsReplaceThreads
  BY DEF Init, OnlyRepeatedRequestsReplaceThreads
<1>2. OnlyRepeatedRequestsReplaceThreads /\ AskedInv /\ ThreadsInv /\ [Next]_vars
        => OnlyRepeatedRequestsReplaceThreads'
  BY CrashStep
<1> QED
  BY <1>1, <1>2, ThreadsInit, ThreadsStep, EntryInit, EntryStep, AskedInit, AskedStep, PTL DEF Spec

-----------------------------------------------------------------------------
(* The queues' consumers.                                                    *)
Waiting(t)   == Is(t, v_not_full, a_not_full)
Ending(t)    == Is(t, v_exit, a_exit)
Positions(t) == Is(t, v_consumer_positions, a_consumer_positions)
Writing(t)   == Is(t, v_write_position, a_write_position)
Members(t)   == {s \in SessionIds : Positions(t)[s] # -1}

(* The loop of the destructor has been at the track.                         *)
Left(t) == pc \in Leaving \cup {"unregister"} /\ t \notin todo

Own(t) ==
  IF (t \in handlers /\ ~Left(t)) \/ (pc = "attach" /\ track = t) THEN {session} ELSE {}

(* A queue's members are the session, while the track has an entry, and      *)
(* those that a failed SETUP left there.                                     *)
MembersInv ==
  /\ \A t \in Tracks : Positions(t) \in [SessionIds -> Nat \cup {-1}] /\ Writing(t) \in Nat
  /\ forgotten \in [Tracks -> SUBSET SessionIds]
  /\ \A t \in Tracks : Members(t) = forgotten[t] \cup Own(t)
  /\ \A t \in Tracks : session \in forgotten[t] =>
       t \notin handlers /\ pc \in {"leave", "stop", "join", "unregister"} \cup Leaving

LEMMA MembersInit == Init => MembersInv
<1> SUFFICES ASSUME Init PROVE MembersInv
  OBVIOUS
<1>1. /\ pc = "closed" /\ handlers = {} /\ forgotten = [t \in Tracks |-> {}]
  BY DEF Init
<1>2. \A t \in Tracks : Positions(t) = [s \in SessionIds |-> -1] /\ Writing(t) = 0
  BY DEF Init, V!InitTrack, A!InitTrack, V!Queue!Init, A!Queue!Init, V!Queue!Absent,
         A!Queue!Absent, Positions, Writing, Is, Tracks
<1>3. \A t \in Tracks : Members(t) = {} /\ Own(t) = {}
  BY <1>1, <1>2 DEF Members, Own
<1> QED
  BY <1>1, <1>2, <1>3 DEF MembersInv

(* Steps that register nobody and let nobody go.                             *)
LEMMA MembersStay ==
  ASSUME MembersInv, UNCHANGED forgotten,
         \A t \in Tracks : /\ Positions(t)' = Positions(t) /\ Writing(t)' \in Nat
                           /\ Own(t)' = Own(t),
         \A t \in Tracks : session' \in forgotten[t] =>
           t \notin handlers' /\ pc' \in {"leave", "stop", "join", "unregister"} \cup Leaving
  PROVE  MembersInv'
<1>1. \A t \in Tracks : Members(t)' = Members(t)
  BY DEF Members
<1> QED
  BY <1>1 DEF MembersInv

LEMMA QuietMembers ==
  ASSUME UNCHANGED mediaVars
  PROVE  \A t \in Tracks : Positions(t)' = Positions(t) /\ Writing(t)' = Writing(t)
BY DEF mediaVars, videoVars, audioVars, Positions, Writing, Is

LEMMA OtherMembers ==
  ASSUME NEW u \in Tracks, NEW t \in Tracks \ {u},
         \/ u = "video" /\ UNCHANGED audioVars
         \/ u = "audio" /\ UNCHANGED videoVars
  PROVE  Positions(t)' = Positions(t) /\ Writing(t)' = Writing(t)
BY DEF Positions, Writing, Is, Tracks, videoVars, audioVars

LEMMA CallsKeepMembers ==
  ASSUME NEW u \in Tracks,
         \/ On(u, V!StartActivates, A!StartActivates)
         \/ On(u, V!StartOpens, A!StartOpens)
         \/ On(u, V!StartFailsToOpen, A!StartFailsToOpen)
         \/ On(u, V!StartSpawns, A!StartSpawns)
         \/ On(u, V!StopSignals, A!StopSignals)
         \/ On(u, V!StopJoins, A!StopJoins)
         \/ On(u, V!StopEndsAndCloses, A!StopEndsAndCloses)
  PROVE  \A t \in Tracks : Positions(t)' = Positions(t) /\ Writing(t)' = Writing(t)
<1>1. Positions(u)' = Positions(u) /\ Writing(u)' = Writing(u)
  BY DEF On, V!StartActivates, A!StartActivates, V!StartOpens, A!StartOpens,
         V!StartFailsToOpen, A!StartFailsToOpen, V!StartSpawns, A!StartSpawns,
         V!StopSignals, A!StopSignals, V!StopJoins, A!StopJoins, V!StopEndsAndCloses,
         A!StopEndsAndCloses, V!queueVars, A!queueVars, V!Queue!set_run, A!Queue!set_run,
         V!Queue!set_exit, A!Queue!set_exit, Positions, Writing, Is, Tracks
<1>2. \/ u = "video" /\ UNCHANGED audioVars
      \/ u = "audio" /\ UNCHANGED videoVars
  BY DEF On
<1> QED
  BY <1>1, <1>2, OtherMembers

(* The steps that leave the queues' members alone.                           *)
LEMMA QuietMembersStep ==
  ASSUME MembersInv, EntryInv,
         \/ ClientActs
         \/ Attaches \/ SpawnsSender \/ FinishStart \/ TerminateSession \/ JoinSender
         \/ EraseSession \/ TestNoConsumer \/ ReleaseHandler \/ DestroySession
         \/ \E t \in Tracks : StartEntry(t) \/ StopEntry(t)
  PROVE  MembersInv'
<1> DEFINE Gone == {"leave", "stop", "join", "unregister"} \cup Leaving
<1>1. /\ handlers \subseteq Tracks /\ LoopInv
      /\ pc = "attach" => track \in Tracks
  BY DEF EntryInv, SendersInv, AtTrack
<1>2. \A t \in Tracks : forgotten[t] \in SUBSET SessionIds
  BY DEF MembersInv
<1>3. UNCHANGED mediaVars /\ UNCHANGED forgotten
  BY DEF ClientActs, Accept, EndConnection, Setup, SetupNotFound, Play, Pause, Attaches,
         AttachHandler, SpawnsSender, SpawnSender, FinishStart, TerminateSession, JoinSender,
         EraseSession, TestNoConsumer, ReleaseHandler, DestroySession, StartEntry, StopEntry,
         historyVars
<1>4. \A t \in Tracks : Positions(t)' = Positions(t) /\ Writing(t)' \in Nat
  BY <1>3, QuietMembers DEF MembersInv
<1>5. ASSUME \A t \in Tracks : Own(t)' = Own(t),
             \A t \in Tracks : session' \in forgotten[t] => t \notin handlers' /\ pc' \in Gone
      PROVE  MembersInv'
  BY <1>3, <1>4, <1>5, MembersStay
<1> USE DEF Goto, Visit, sessionVars, localVars
<1>6. ASSUME UNCHANGED <<session, handlers>>, pc \in Gone => pc' \in Gone,
             pc # "attach", pc' # "attach",
             \A t \in Tracks : Left(t)' <=> Left(t)
      PROVE  MembersInv'
  BY <1>5, <1>6 DEF MembersInv, Own
<1>7. CASE ClientActs
  <2>1. CASE Accept
    <3>1. UNCHANGED <<session, handlers>> /\ pc = "closed" /\ pc' = "recv"
      BY <2>1 DEF Accept
    <3>2. session = NoSession
      BY <1>1, <3>1 DEF LoopInv
    <3>3. \A t \in Tracks : session' \notin forgotten[t]
      BY <1>2, <3>1, <3>2, SessionAssumption
    <3>4. \A t \in Tracks : Own(t)' = Own(t)
      BY <3>1 DEF Own, Left, Leaving
    <3> QED
      BY <1>5, <3>3, <3>4
  <2>2. CASE EndConnection \/ SetupNotFound \/ Play \/ Pause
    BY <1>6, <2>2 DEF EndConnection, SetupNotFound, Play, Pause, Left, Leaving
  <2>3. ASSUME NEW u \in Tracks, Setup(u) PROVE MembersInv'
    <3>1. /\ session' \in SessionIds
          /\ session = NoSession => Unused(session')
          /\ session # NoSession => session' = session
      BY <1>1, <2>3, SetupHasSession DEF LoopInv
    <3>2. pc = "recv" /\ pc' = "register" /\ UNCHANGED handlers
      BY <2>3 DEF Setup
    <3>3. session = NoSession => handlers = {}
      BY <1>1 DEF LoopInv
    <3>4. \A t \in Tracks : Own(t)' = Own(t)
      BY <3>1, <3>2, <3>3 DEF Own, Left, Leaving
    <3>5. \A t \in Tracks : session = NoSession => session' \notin Members(t)
      BY <3>1 DEF Unused, V!Queue!Registered, A!Queue!Registered, V!Queue!Absent,
         A!Queue!Absent, Members, Positions, Is, Tracks
    <3>6. \A t \in Tracks : session' \notin forgotten[t]
      BY <3>1, <3>2, <3>5 DEF MembersInv, Leaving
    <3> QED
      BY <1>5, <3>4, <3>6
  <2> QED
    BY <1>7, <2>1, <2>2, <2>3 DEF ClientActs
<1>8. CASE Attaches
  <2>1. /\ pc = "attach" /\ pc' = "recv" /\ handlers' = handlers \cup {track} /\ UNCHANGED session
    BY <1>8 DEF Attaches, AttachHandler
  <2>2. \A t \in Tracks : Own(t)' = Own(t)
    BY <1>1, <2>1 DEF Own, Left, Leaving
  <2>3. \A t \in Tracks : session' \notin forgotten[t]
    BY <2>1 DEF MembersInv, Leaving
  <2> QED
    BY <1>5, <2>2, <2>3
<1>9. CASE SpawnsSender
  BY <1>6, <1>9 DEF SpawnsSender, SpawnSender, Left, Leaving
<1>10. CASE FinishStart \/ JoinSender
  BY <1>6, <1>10 DEF FinishStart, JoinSender, Left, Leaving
<1>15. CASE TerminateSession
  <2>1. /\ pc = "leave" /\ pc' = (IF session # NoSession THEN "stop" ELSE "closed")
        /\ UNCHANGED <<session, handlers>>
    BY <1>15 DEF TerminateSession
  <2>2. \A t \in Tracks : Own(t)' = Own(t)
    BY <2>1 DEF Own, Left, Leaving
  <2>3. \A t \in Tracks : NoSession \notin forgotten[t]
    BY <1>2, SessionAssumption
  <2> QED
    BY <1>5, <2>1, <2>2, <2>3 DEF MembersInv
<1>11. CASE TestNoConsumer \/ ReleaseHandler
  BY <1>6, <1>11 DEF TestNoConsumer, ReleaseHandler, Left, Leaving
<1>12. ASSUME NEW t \in Tracks, StartEntry(t) \/ StopEntry(t) PROVE MembersInv'
  BY <1>6, <1>12 DEF StartEntry, StopEntry, Left, Leaving
<1>13. CASE EraseSession
  <2>1. /\ pc = "stop" /\ pc' = "unregister" /\ todo' = handlers /\ UNCHANGED <<session, handlers>>
    BY <1>13 DEF EraseSession
  <2>2. \A t \in Tracks : Own(t)' = Own(t)
    BY <2>1 DEF Own, Left, Leaving
  <2> QED
    BY <1>5, <2>1, <2>2 DEF MembersInv
<1>14. CASE DestroySession
  <2>1. pc = "unregister" /\ pc' = "closed" /\ todo = {} /\ handlers' = {} /\ session' = NoSession
    BY <1>14 DEF DestroySession
  <2>2. \A t \in Tracks : Own(t)' = Own(t)
    BY <2>1 DEF Own, Left
  <2>3. \A t \in Tracks : session' \notin forgotten[t]
    BY <1>2, <2>1, SessionAssumption
  <2> QED
    BY <1>5, <2>2, <2>3
<1> QED
  BY <1>7, <1>8, <1>9, <1>10, <1>11, <1>12, <1>13, <1>14, <1>15

LEMMA CallMembersStep ==
  ASSUME MembersInv, EntryInv,
         \/ StartTrack \/ OpenTrack \/ OpenTrackFails \/ SpawnsProducer
         \/ StopTrack \/ JoinProducer \/ CloseTrack
  PROVE  MembersInv'
<1>1. track \in Tracks
  BY DEF EntryInv, SendersInv, AtTrack, Starting, Leaving, StartTrack, OpenTrack,
         OpenTrackFails, SpawnsProducer, SpawnProducer, StopTrack, JoinProducer, CloseTrack
<1> USE DEF Goto, sessionVars, localVars, historyVars
<1>2. CASE StartTrack \/ OpenTrack \/ OpenTrackFails \/ StopTrack \/ JoinProducer \/ CloseTrack
  <2>1. \A t \in Tracks : Positions(t)' = Positions(t) /\ Writing(t)' = Writing(t)
    BY <1>1, <1>2, CallsKeepMembers
       DEF StartTrack, OpenTrack, OpenTrackFails, StopTrack, JoinProducer, CloseTrack
  <2>2. /\ UNCHANGED <<session, handlers, forgotten>> /\ pc # "attach" /\ pc' # "attach"
        /\ pc \in Leaving => pc' \in Leaving
        /\ pc # "leave" /\ pc \notin {"stop", "join", "unregister"}
        /\ \A t \in Tracks : Left(t)' <=> Left(t)
    BY <1>2 DEF StartTrack, OpenTrack, OpenTrackFails, StopTrack, JoinProducer, CloseTrack,
       Left, Leaving
  <2> QED
    BY <2>1, <2>2, MembersStay DEF MembersInv, Own
<1>3. CASE SpawnsProducer
  <2>1. /\ On(track, V!StartSpawns, A!StartSpawns)
        /\ pc = "spawnProducer" /\ pc' = "spawnSender"
        /\ UNCHANGED <<session, handlers, forgotten>>
    BY <1>3 DEF SpawnsProducer, SpawnProducer, Producer
  <2>2. \A t \in Tracks : Positions(t)' = Positions(t) /\ Writing(t)' = Writing(t)
    BY <1>1, <2>1, CallsKeepMembers
  <2> QED
    BY <2>1, <2>2, MembersStay DEF MembersInv, Own, Left, Leaving
<1> QED
  BY <1>2, <1>3

LEMMA RegisterMembersStep ==
  ASSUME MembersInv, EntryInv, RegisterSession
  PROVE  MembersInv'
<1>1. /\ pc = "register" /\ pc' = "attach" /\ UNCHANGED <<session, handlers, forgotten, track>>
      /\ On(track, V!register_session(session), A!register_session(session))
  BY DEF RegisterSession, Goto, sessionVars, localVars, historyVars
<1>2. track \in Tracks /\ session \in SessionIds
  BY <1>1 DEF EntryInv, SendersInv, AtTrack, LoopInv
<1>3. /\ Positions(track)' = [Positions(track) EXCEPT ![session] = Writing(track)]
      /\ Writing(track)' = Writing(track)
  BY <1>1 DEF On, V!register_session, A!register_session, V!Queue!register_consumer,
     A!Queue!register_consumer, Positions, Writing, Is
<1>4. \A t \in Tracks \ {track} : Positions(t)' = Positions(t) /\ Writing(t)' = Writing(t)
  BY <1>1, <1>2, OtherMembers DEF On
<1>5. /\ Positions(track) \in [SessionIds -> Nat \cup {-1}]
      /\ Writing(track) \in Nat
  BY <1>2 DEF MembersInv
<1>6. /\ Positions(track)' \in [SessionIds -> Nat \cup {-1}]
      /\ \A s \in SessionIds :
           Positions(track)'[s] = IF s = session THEN Writing(track) ELSE Positions(track)[s]
  BY <1>3, <1>5
<1>7. Members(track)' = Members(track) \cup {session}
  BY <1>2, <1>5, <1>6 DEF Members
<1>8. \A t \in Tracks \ {track} : Members(t)' = Members(t) /\ Own(t)' = Own(t)
  BY <1>1, <1>4 DEF Members, Own, Left, Leaving
<1>9. Own(track)' = {session} /\ Own(track) \subseteq {session}
  BY <1>1 DEF Own
<1>10. \A t \in Tracks : Members(t)' = forgotten'[t] \cup Own(t)'
  BY <1>1, <1>7, <1>8, <1>9 DEF MembersInv
<1>11. \A t \in Tracks : session' \notin forgotten'[t]
  BY <1>1 DEF MembersInv, Leaving
<1>12. \A t \in Tracks : Positions(t)' \in [SessionIds -> Nat \cup {-1}] /\ Writing(t)' \in Nat
  BY <1>1, <1>3, <1>4, <1>5, <1>6 DEF MembersInv
<1>13. forgotten' \in [Tracks -> SUBSET SessionIds]
  BY <1>1 DEF MembersInv
<1> QED
  BY <1>10, <1>11, <1>12, <1>13 DEF MembersInv

LEMMA BindMembersStep ==
  ASSUME MembersInv, EntryInv, BindFails
  PROVE  MembersInv'
<1>1. /\ pc = "attach" /\ pc' = "leave" /\ UNCHANGED <<mediaVars, session, handlers>>
      /\ forgotten' = IF track \in handlers THEN forgotten
                      ELSE [forgotten EXCEPT ![track] = @ \cup {session}]
  BY DEF BindFails, Goto, sessionVars
<1>2. track \in Tracks /\ session \in SessionIds
  BY <1>1 DEF EntryInv, SendersInv, AtTrack, LoopInv
<1>3. \A t \in Tracks : /\ Positions(t)' = Positions(t) /\ Writing(t)' = Writing(t)
                        /\ Members(t)' = Members(t)
  BY <1>1, QuietMembers DEF Members
<1>4. /\ forgotten' \in [Tracks -> SUBSET SessionIds]
      /\ \A t \in Tracks : forgotten'[t] = IF t = track /\ t \notin handlers
                                           THEN forgotten[t] \cup {session} ELSE forgotten[t]
  BY <1>1, <1>2 DEF MembersInv
<1>5. \A t \in Tracks : /\ Own(t) = (IF t \in handlers \/ t = track THEN {session} ELSE {})
                        /\ Own(t)' = (IF t \in handlers THEN {session} ELSE {})
  BY <1>1 DEF Own, Left, Leaving
<1>6. \A t \in Tracks : Members(t)' = forgotten'[t] \cup Own(t)'
  BY <1>3, <1>4, <1>5 DEF MembersInv
<1>7. \A t \in Tracks : session \notin forgotten[t]
  BY <1>1 DEF MembersInv, Leaving
<1>8. \A t \in Tracks : session' \in forgotten'[t] => t \notin handlers'
  BY <1>1, <1>4, <1>7
<1> QED
  BY <1>1, <1>3, <1>4, <1>6, <1>8 DEF MembersInv

LEMMA UnregisterMembersStep ==
  ASSUME MembersInv, EntryInv, NEW u \in Tracks, UnregisterEntry(u)
  PROVE  MembersInv'
<1>1. /\ pc = "unregister" /\ pc' = "noConsumer" /\ UNCHANGED <<session, handlers, forgotten>>
      /\ u \in todo /\ todo' = todo \ {u}
      /\ On(u, V!unregister_session(session), A!unregister_session(session))
  BY DEF UnregisterEntry, Goto, Visit, sessionVars, historyVars
<1>2. u \in handlers /\ session \in SessionIds
  BY <1>1 DEF EntryInv, LoopInv, Looping
<1>3. /\ Positions(u)' = [Positions(u) EXCEPT ![session] = -1]
      /\ Writing(u)' = Writing(u)
  BY <1>1 DEF On, V!unregister_session, A!unregister_session, V!Queue!unregister_consumer,
     A!Queue!unregister_consumer, V!Queue!Absent, A!Queue!Absent, Positions, Writing, Is
<1>4. \A t \in Tracks \ {u} : Positions(t)' = Positions(t) /\ Writing(t)' = Writing(t)
  BY <1>1, OtherMembers DEF On
<1>5. Positions(u) \in [SessionIds -> Nat \cup {-1}] /\ Writing(u) \in Nat
  BY DEF MembersInv
<1>6. /\ Positions(u)' \in [SessionIds -> Nat \cup {-1}]
      /\ \A s \in SessionIds : Positions(u)'[s] = IF s = session THEN -1 ELSE Positions(u)[s]
  BY <1>3, <1>5
<1>7. Members(u)' = Members(u) \ {session}
  BY <1>6 DEF Members
<1>8. Own(u) = {session} /\ Own(u)' = {}
  BY <1>1, <1>2 DEF Own, Left, Leaving
<1>9. \A t \in Tracks \ {u} : Members(t)' = Members(t) /\ Own(t)' = Own(t)
  BY <1>1, <1>4 DEF Members, Own, Left, Leaving
<1>10. session \notin forgotten[u]
  BY <1>2 DEF MembersInv
<1>11. \A t \in Tracks : Members(t)' = forgotten'[t] \cup Own(t)'
  BY <1>1, <1>7, <1>8, <1>9, <1>10 DEF MembersInv
<1>12. \A t \in Tracks : session' \in forgotten'[t] => t \notin handlers' /\ pc' \in Leaving
  BY <1>1 DEF MembersInv, Leaving
<1>13. \A t \in Tracks : Positions(t)' \in [SessionIds -> Nat \cup {-1}] /\ Writing(t)' \in Nat
  BY <1>3, <1>4, <1>5, <1>6 DEF MembersInv
<1> QED
  BY <1>1, <1>11, <1>12, <1>13 DEF MembersInv

(* A sender works for a session that is registered and not being destroyed.  *)
LEMMA SenderIsRegistered ==
  ASSUME MembersInv, EntryInv, NEW t \in Tracks, Joinable(sender[t])
  PROVE  /\ t \in handlers /\ pc \notin Leaving \cup {"unregister"}
         /\ session \in SessionIds /\ Positions(t)[session] \in Nat
<1>1. t \in handlers /\ pc \notin Leaving \cup {"unregister"}
  BY DEF EntryInv, JoinedInv
<1>2. session \in SessionIds
  BY <1>1 DEF EntryInv, LoopInv
<1>3. session \in Members(t)
  BY <1>1 DEF MembersInv, Own, Left
<1> QED
  BY <1>1, <1>2, <1>3 DEF MembersInv, Members

(* It keeps the position it has, or takes the next one.                      *)
LEMMA SenderMembersStep ==
  ASSUME MembersInv, EntryInv, NEW u \in Tracks, SenderRuns(u)
  PROVE  MembersInv'
<1>1. SendersInv
  BY DEF EntryInv
<1>2. sender[u] # "none" /\ UNCHANGED <<session, handlers, pc, todo, track, forgotten>>
  BY <1>1, SenderMoves DEF localVars, historyVars
<1>3. session \in SessionIds /\ Positions(u)[session] \in Nat
  BY <1>2, SenderIsRegistered DEF Joinable
<1>4. Positions(u) \in [SessionIds -> Nat \cup {-1}] /\ Writing(u) \in Nat
  BY DEF MembersInv
<1>5. /\ \E p \in Nat : Positions(u)' = [Positions(u) EXCEPT ![session] = p]
      /\ Writing(u)' = Writing(u)
  <2>1. \A p \in Nat : (p + 1) % Capacity \in Nat
    BY QueueAssumption
  <2>2. CASE SenderTestsActive(u)
    <3>1. Positions(u)' = Positions(u) /\ Writing(u)' = Writing(u)
      BY <2>2, QuietMembers DEF SenderTestsActive
    <3>2. Positions(u) = [Positions(u) EXCEPT ![session] = Positions(u)[session]]
      BY <1>3, <1>4
    <3> QED
      BY <1>3, <3>1, <3>2
  <2>3. CASE u = "video" /\ (SenderWaits(u) \/ SenderGetsFrame(u))
    BY <1>3, <2>1, <2>3
       DEF SenderWaits, SenderGetsFrame, On, V!Queue!ConsumeWaits, V!Queue!ConsumeTakes,
           V!Queue!ConsumeExits, V!Queue!Cursor, V!Queue!Absent, V!Queue!slot_after, Positions,
           Writing, Is
  <2>4. CASE u = "audio" /\ (SenderWaits(u) \/ SenderGetsFrame(u))
    BY <1>3, <2>1, <2>4
       DEF SenderWaits, SenderGetsFrame, On, A!Queue!ConsumeWaits, A!Queue!ConsumeTakes,
           A!Queue!ConsumeExits, A!Queue!Cursor, A!Queue!Absent, A!Queue!slot_after, Positions,
           Writing, Is
  <2> QED
    BY <2>2, <2>3, <2>4 DEF Tracks, SenderRuns
<1>6. /\ Positions(u)' \in [SessionIds -> Nat \cup {-1}]
      /\ \A s \in SessionIds : (Positions(u)'[s] # -1) <=> (Positions(u)[s] # -1)
  BY <1>3, <1>4, <1>5
<1>7. \A t \in Tracks \ {u} : Positions(t)' = Positions(t) /\ Writing(t)' = Writing(t)
  <2>1. CASE SenderTestsActive(u)
    BY <2>1, QuietMembers DEF SenderTestsActive
  <2>2. CASE SenderWaits(u) \/ SenderGetsFrame(u)
    BY <2>2, OtherMembers DEF SenderWaits, SenderGetsFrame, On
  <2> QED
    BY <2>1, <2>2 DEF SenderRuns
<1>8. \A t \in Tracks : Members(t)' = Members(t)
  BY <1>6, <1>7 DEF Members
<1>9. \A t \in Tracks : Own(t)' = Own(t)
  BY <1>2 DEF Own, Left
<1>10. \A t \in Tracks : Positions(t)' \in [SessionIds -> Nat \cup {-1}] /\ Writing(t)' \in Nat
  BY <1>4, <1>5, <1>6, <1>7 DEF MembersInv
<1> QED
  BY <1>2, <1>8, <1>9, <1>10 DEF MembersInv

LEMMA ProducerMembersStep ==
  ASSUME MembersInv, NEW u \in Tracks, ProducerRuns(u)
  PROVE  MembersInv'
<1>1. UNCHANGED <<session, handlers, pc, todo, track, forgotten>>
  BY DEF ProducerRuns, sessionVars, localVars, historyVars
<1>2. Positions(u)' = Positions(u) /\ Writing(u)' \in {Writing(u), (Writing(u) + 1) % Capacity}
  <2>1. CASE u = "video"
    <3>1. V!run_producer
      BY <2>1 DEF ProducerRuns, On
    <3> QED
      BY <2>1, <3>1 DEF V!run_producer, V!ProducerReadsFrame, V!ProducerLeavesLoop,
         V!ProducerWaits, V!ProducerPutsFrame, V!ProducerFinishes, V!trackVars, V!queueVars,
         V!Queue!ProduceWaits, V!Queue!ProduceWrites, V!Queue!set_exit, V!Queue!slot_after,
         Positions, Writing, Is
  <2>2. CASE u = "audio"
    <3>1. A!run_producer
      BY <2>2 DEF ProducerRuns, On
    <3> QED
      BY <2>2, <3>1 DEF A!run_producer, A!ProducerReadsFrame, A!ProducerLeavesLoop,
         A!ProducerWaits, A!ProducerPutsFrame, A!ProducerFinishes, A!trackVars, A!queueVars,
         A!Queue!ProduceWaits, A!Queue!ProduceWrites, A!Queue!set_exit, A!Queue!slot_after,
         Positions, Writing, Is
  <2> QED
    BY <2>1, <2>2 DEF Tracks
<1>3. \A t \in Tracks : Writing(t) \in Nat
  BY DEF MembersInv
<1>4. Writing(u)' \in Nat
  BY <1>2, <1>3, QueueAssumption
<1>5. \A t \in Tracks \ {u} : Positions(t)' = Positions(t) /\ Writing(t)' = Writing(t)
  BY OtherMembers DEF ProducerRuns, On
<1>6. \A t \in Tracks : Positions(t)' = Positions(t) /\ Writing(t)' \in Nat /\ Own(t)' = Own(t)
  BY <1>1, <1>2, <1>3, <1>4, <1>5 DEF Own, Left
<1> QED
  BY <1>1, <1>6, MembersStay DEF MembersInv

LEMMA MembersStep == MembersInv /\ EntryInv /\ [Next]_vars => MembersInv'
<1> SUFFICES ASSUME MembersInv, EntryInv, [Next]_vars PROVE MembersInv'
  OBVIOUS
<1>1. CASE Frozen
  <2>1. /\ UNCHANGED <<mediaVars, session, handlers, pc, todo, track, forgotten>>
    BY <1>1 DEF Frozen, sessionVars, localVars, historyVars
  <2>2. \A t \in Tracks : Positions(t)' = Positions(t) /\ Writing(t)' \in Nat /\ Own(t)' = Own(t)
    BY <2>1, QuietMembers DEF MembersInv, Own, Left
  <2> QED
    BY <2>1, <2>2, MembersStay DEF MembersInv
<1>2. CASE ConnectionSteps
  BY <1>2, QuietMembersStep, CallMembersStep, RegisterMembersStep, BindMembersStep,
     UnregisterMembersStep DEF ConnectionSteps
<1> QED
  BY <1>1, <1>2, QuietMembersStep, SenderMembersStep, ProducerMembersStep, StepCases

-----------------------------------------------------------------------------
(* A track is done with when it has no entry, or the destructor has left it. *)
Over(t) == t \notin handlers \/ (Left(t) /\ (pc = "unregister" \/ track # t))

(* What it is then, and that a track with an orphan position may not be.     *)
Rests(t) ==
  /\ port[t] = NoSockets
  /\ forgotten[t] = {} => ~Joinable(Producer(t)) /\ ~Active(t) /\ ~Waiting(t)

(* The one the destructor is at gets there step by step.                     *)
RestInv ==
  /\ \A t \in Tracks : Over(t) => Rests(t)
  /\ pc \in Leaving => track \notin todo
  /\ pc \in {"trackJoin", "trackClose", "release"} /\ forgotten[track] = {} =>
       ~Active(track) /\ ~Waiting(track) /\ Ending(track)
  /\ pc \in {"trackClose", "release"} /\ forgotten[track] = {} => ~Joinable(Producer(track))

CleanInv == EntryInv /\ PortsInv /\ MembersInv /\ RestInv

(* A step that does not start a track that is done with.                     *)
Keeps(t) ==
  /\ port'[t] = port[t] /\ (forgotten'[t] = {} => forgotten[t] = {})
  /\ Producer(t)' = Producer(t) /\ Active(t)' = Active(t) /\ (Waiting(t)' => Waiting(t))

LEMMA RestsStay ==
  ASSUME NEW t \in Tracks, Rests(t), Keeps(t)
  PROVE  Rests(t)'
BY DEF Rests, Keeps, Joinable

LEMMA RestStays ==
  ASSUME RestInv, \A t \in Tracks : Over(t)' => Over(t) /\ Keeps(t), pc' \notin Leaving
  PROVE  RestInv'
<1>1. \A t \in Tracks : Over(t)' => Rests(t)'
  BY RestsStay DEF RestInv
<1> QED
  BY <1>1 DEF RestInv, Leaving

LEMMA QuietTracks ==
  ASSUME UNCHANGED mediaVars
  PROVE  \A t \in Tracks : /\ Producer(t)' = Producer(t) /\ Active(t)' = Active(t)
                           /\ Waiting(t)' = Waiting(t) /\ Ending(t)' = Ending(t)
BY DEF mediaVars, videoVars, audioVars, Producer, Active, Waiting, Ending, Is

LEMMA OtherTracks ==
  ASSUME NEW u \in Tracks, NEW t \in Tracks \ {u},
         \/ u = "video" /\ UNCHANGED audioVars
         \/ u = "audio" /\ UNCHANGED videoVars
  PROVE  /\ Producer(t)' = Producer(t) /\ Active(t)' = Active(t)
         /\ Waiting(t)' = Waiting(t) /\ Ending(t)' = Ending(t)
BY DEF Producer, Active, Waiting, Ending, Is, Tracks, videoVars, audioVars

(* Registering and unregistering are about positions only.                   *)
LEMMA RegistryKeepsTracks ==
  ASSUME NEW u \in Tracks,
         \/ On(u, V!register_session(session), A!register_session(session))
         \/ On(u, V!unregister_session(session), A!unregister_session(session))
  PROVE  \A t \in Tracks : /\ Producer(t)' = Producer(t) /\ Active(t)' = Active(t)
                           /\ Waiting(t)' = Waiting(t) /\ Ending(t)' = Ending(t)
<1>1. /\ Producer(u)' = Producer(u) /\ Active(u)' = Active(u)
      /\ Waiting(u)' = Waiting(u) /\ Ending(u)' = Ending(u)
  BY DEF On, V!register_session, A!register_session, V!unregister_session,
         A!unregister_session, V!Queue!register_consumer, A!Queue!register_consumer,
         V!Queue!unregister_consumer, A!Queue!unregister_consumer, V!trackVars, A!trackVars,
         Producer, Active, Waiting, Ending, Is, Tracks
<1>2. \/ u = "video" /\ UNCHANGED audioVars
      \/ u = "audio" /\ UNCHANGED videoVars
  BY DEF On
<1> QED
  BY <1>1, <1>2, OtherTracks

(* Requests, and the loops of start() and stop().                            *)
LEMMA QuietRest ==
  ASSUME CleanInv,
         \/ ClientActs
         \/ RegisterSession \/ BindFails \/ Attaches \/ FinishStart \/ TerminateSession
         \/ SpawnsSender \/ JoinSender \/ EraseSession \/ DestroySession
         \/ \E t \in Tracks : StartEntry(t) \/ StopEntry(t)
  PROVE  RestInv'
<1>1. /\ RestInv /\ EntryInv /\ handlers \subseteq Tracks
      /\ (pc \in {"register", "attach"} => track \in Tracks)
      /\ port \in [Tracks -> Int] /\ forgotten \in [Tracks -> SUBSET SessionIds]
  BY DEF CleanInv, EntryInv, SendersInv, AtTrack, PortsInv, MembersInv
<1> USE DEF Goto, Visit, sessionVars, localVars, historyVars
<1>2. ASSUME UNCHANGED <<mediaVars, handlers, port, forgotten>>,
             pc \notin Leaving \cup {"unregister"}, pc' \notin Leaving \cup {"unregister"}
      PROVE  RestInv'
  <2>1. \A t \in Tracks : Over(t)' => Over(t) /\ Keeps(t)
    BY <1>2, QuietTracks DEF Over, Left, Keeps
  <2> QED
    BY <1>1, <1>2, <2>1, RestStays
<1>3. CASE ClientActs
  BY <1>2, <1>3 DEF ClientActs, Accept, EndConnection, Setup, SetupNotFound, Play, Pause, Leaving
<1>4. CASE FinishStart \/ TerminateSession \/ JoinSender
  BY <1>2, <1>4 DEF FinishStart, TerminateSession, JoinSender, Leaving
<1>5. CASE SpawnsSender
  BY <1>2, <1>5 DEF SpawnsSender, SpawnSender, Leaving
<1>6. ASSUME NEW t \in Tracks, StartEntry(t) \/ StopEntry(t) PROVE RestInv'
  BY <1>2, <1>6 DEF StartEntry, StopEntry, Leaving
<1>7. CASE RegisterSession
  <2>1. /\ pc = "register" /\ pc' = "attach" /\ UNCHANGED <<handlers, port, forgotten>>
        /\ On(track, V!register_session(session), A!register_session(session))
    BY <1>7 DEF RegisterSession
  <2>2. \A t \in Tracks : Over(t)' => Over(t) /\ Keeps(t)
    BY <1>1, <2>1, RegistryKeepsTracks DEF Over, Left, Leaving, Keeps
  <2> QED
    BY <1>1, <2>1, <2>2, RestStays DEF Leaving
<1>8. CASE BindFails
  <2>1. /\ pc = "attach" /\ pc' = "leave" /\ UNCHANGED <<mediaVars, handlers, port>>
        /\ forgotten' = IF track \in handlers THEN forgotten
                        ELSE [forgotten EXCEPT ![track] = @ \cup {session}]
    BY <1>8 DEF BindFails
  <2>2. \A t \in Tracks : forgotten[t] \subseteq forgotten'[t]
    BY <1>1, <2>1
  <2>3. \A t \in Tracks : Over(t)' => Over(t) /\ Keeps(t)
    BY <2>1, <2>2, QuietTracks DEF Over, Left, Leaving, Keeps
  <2> QED
    BY <1>1, <2>1, <2>3, RestStays DEF Leaving
<1>9. CASE Attaches
  <2>1. /\ pc = "attach" /\ pc' = "recv" /\ handlers' = handlers \cup {track}
        /\ port' = [port EXCEPT ![track] = pair] /\ UNCHANGED <<mediaVars, forgotten>>
    BY <1>9 DEF Attaches, AttachHandler
  <2>2. \A t \in Tracks \ {track} : port'[t] = port[t]
    BY <1>1, <2>1
  <2>3. \A t \in Tracks : Over(t)' => Over(t) /\ Keeps(t)
    BY <2>1, <2>2, QuietTracks DEF Over, Left, Leaving, Keeps
  <2> QED
    BY <1>1, <2>1, <2>3, RestStays DEF Leaving
<1>10. CASE EraseSession
  <2>1. /\ pc = "stop" /\ pc' = "unregister" /\ todo' = handlers
        /\ UNCHANGED <<mediaVars, handlers, port, forgotten>>
    BY <1>10 DEF EraseSession
  <2>2. \A t \in Tracks : Over(t)' => Over(t) /\ Keeps(t)
    BY <2>1, QuietTracks DEF Over, Left, Keeps
  <2> QED
    BY <1>1, <2>1, <2>2, RestStays DEF Leaving
<1>11. CASE DestroySession
  <2>1. /\ pc = "unregister" /\ pc' = "closed" /\ todo = {}
        /\ UNCHANGED <<mediaVars, port, forgotten>>
    BY <1>11 DEF DestroySession
  <2>2. \A t \in Tracks : Over(t)' => Over(t) /\ Keeps(t)
    BY <2>1, QuietTracks DEF Over, Left, Keeps
  <2> QED
    BY <1>1, <2>1, <2>2, RestStays DEF Leaving
<1> QED
  BY <1>3, <1>4, <1>5, <1>6, <1>7, <1>8, <1>9, <1>10, <1>11

(* start() of a track that has an entry.                                     *)
LEMMA StartRest ==
  ASSUME CleanInv, StartTrack \/ OpenTrack \/ OpenTrackFails \/ SpawnsProducer
  PROVE  RestInv'
<1>1. /\ pc \in Starting /\ pc' \in Starting \cup {"leave"}
      /\ UNCHANGED <<handlers, track, port, forgotten>>
      /\ \/ track = "video" /\ UNCHANGED audioVars
         \/ track = "audio" /\ UNCHANGED videoVars
  <2> USE DEF Goto, sessionVars, localVars, historyVars, On, Starting
  <2>1. CASE StartTrack \/ OpenTrack \/ OpenTrackFails
    BY <2>1 DEF StartTrack, OpenTrack, OpenTrackFails
  <2>2. CASE SpawnsProducer
    BY <2>2 DEF SpawnsProducer, SpawnProducer, Producer
  <2> QED
    BY <2>1, <2>2
<1>2. track \in Tracks /\ track \in handlers /\ RestInv
  BY <1>1 DEF CleanInv, EntryInv, SendersInv, AtTrack, LoopInv
<1>3. \A t \in Tracks \ {track} :
        /\ Producer(t)' = Producer(t) /\ Active(t)' = Active(t) /\ Waiting(t)' = Waiting(t)
  BY <1>1, <1>2, OtherTracks
<1>4. \A t \in Tracks : Over(t)' => Over(t) /\ Keeps(t)
  BY <1>1, <1>2, <1>3 DEF Over, Left, Starting, Leaving, Keeps
<1> QED
  BY <1>1, <1>2, <1>4, RestStays DEF Starting, Leaving

(* The destructor at one entry: the others stay at rest.                     *)
LEMMA LeaveRest ==
  ASSUME CleanInv,
         \/ TestNoConsumer \/ StopTrack \/ JoinProducer \/ CloseTrack \/ ReleaseHandler
         \/ \E t \in Tracks : UnregisterEntry(t)
  PROVE  RestInv'
<1>1. /\ RestInv /\ LoopInv /\ MembersInv /\ port \in [Tracks -> Int]
      /\ pc \in Leaving => track \in Tracks /\ track \in handlers /\ track \notin todo
  BY DEF CleanInv, EntryInv, PortsInv, SendersInv, AtTrack, LoopInv, RestInv
<1> USE DEF Goto, sessionVars, localVars, historyVars
<1>2. ASSUME pc \in Leaving, pc' \in Leaving, UNCHANGED <<handlers, todo, track, forgotten, port>>,
             \A t \in Tracks \ {track} : Producer(t)' = Producer(t) /\ Active(t)' = Active(t)
                                         /\ Waiting(t)' = Waiting(t)
      PROVE  /\ \A t \in Tracks : Over(t)' => Rests(t)'
             /\ pc' \in Leaving => track' \notin todo'
  <2>1. \A t \in Tracks : Over(t)' => t # track /\ Over(t)
    BY <1>1, <1>2 DEF Over, Left, Leaving
  <2>2. \A t \in Tracks : Over(t)' => Rests(t) /\ Keeps(t)
    BY <1>1, <1>2, <2>1 DEF RestInv, Keeps
  <2> QED
    BY <1>1, <1>2, <2>2, RestsStay
<1>3. ASSUME NEW u \in Tracks, UnregisterEntry(u) PROVE RestInv'
  <2>1. /\ pc = "unregister" /\ pc' = "noConsumer" /\ u \in todo /\ todo' = todo \ {u}
        /\ track' = u /\ UNCHANGED <<handlers, port, forgotten>>
        /\ On(u, V!unregister_session(session), A!unregister_session(session))
    BY <1>3 DEF UnregisterEntry, Visit
  <2>2. u \in handlers
    BY <1>1, <2>1 DEF LoopInv, Looping
  <2>3. \A t \in Tracks : Over(t)' => Over(t) /\ Keeps(t)
    BY <2>1, <2>2, RegistryKeepsTracks DEF Over, Left, Leaving, Keeps
  <2>4. \A t \in Tracks : Over(t)' => Rests(t)'
    BY <1>1, <2>3, RestsStay DEF RestInv
  <2> QED
    BY <2>1, <2>4 DEF RestInv
<1>4. CASE TestNoConsumer
  <2>1. /\ pc = "noConsumer" /\ UNCHANGED <<mediaVars, handlers, todo, track, port, forgotten>>
        /\ pc' = IF Is(track, V!Queue!no_consumer, A!Queue!no_consumer)
                 THEN "trackStop" ELSE "release"
    BY <1>4 DEF TestNoConsumer
  <2>2. track \in Tracks /\ track \notin todo
    BY <1>1, <2>1 DEF Leaving
  <2>3. forgotten[track] = {} => pc' = "trackStop"
    <3>1. Members(track) = forgotten[track]
      BY <1>1, <2>1, <2>2 DEF MembersInv, Own, Left, Leaving
    <3>2. Members(track) = {} => Is(track, V!Queue!no_consumer, A!Queue!no_consumer)
      BY DEF Members, Positions, Is, V!Queue!no_consumer, A!Queue!no_consumer, V!Queue!Absent,
         A!Queue!Absent
    <3> QED
      BY <2>1, <3>1, <3>2
  <2>4. \A t \in Tracks : Over(t)' => Rests(t)'
    BY <1>2, <2>1, QuietTracks DEF Leaving
  <2> QED
    BY <2>1, <2>2, <2>3, <2>4 DEF RestInv
<1>5. CASE StopTrack
  <2>1. /\ pc = "trackStop" /\ pc' = "trackJoin"
        /\ UNCHANGED <<handlers, todo, track, port, forgotten>>
        /\ On(track, V!StopSignals, A!StopSignals)
    BY <1>5 DEF StopTrack
  <2>2. track \in Tracks
    BY <1>1, <2>1 DEF Leaving
  <2>3. \A t \in Tracks \ {track} : /\ Producer(t)' = Producer(t) /\ Active(t)' = Active(t)
                                    /\ Waiting(t)' = Waiting(t)
    BY <2>1, <2>2, OtherTracks DEF On
  <2>4. ~Active(track)' /\ ~Waiting(track)' /\ Ending(track)'
    BY <2>1, <2>2 DEF On, V!StopSignals, A!StopSignals, V!Queue!set_exit,
       A!Queue!set_exit, Active, Waiting, Ending, Is, Tracks
  <2> QED
    BY <1>2, <2>1, <2>3, <2>4 DEF RestInv, Leaving
<1>6. CASE JoinProducer
  <2>1. /\ pc = "trackJoin" /\ pc' = "trackClose"
        /\ UNCHANGED <<handlers, todo, track, port, forgotten>>
        /\ On(track, V!StopJoins, A!StopJoins)
    BY <1>6 DEF JoinProducer
  <2>2. /\ track \in Tracks
        /\ forgotten[track] = {} => ~Active(track) /\ ~Waiting(track) /\ Ending(track)
    BY <1>1, <2>1 DEF Leaving, RestInv
  <2>3. \A t \in Tracks \ {track} : /\ Producer(t)' = Producer(t) /\ Active(t)' = Active(t)
                                    /\ Waiting(t)' = Waiting(t)
    BY <2>1, <2>2, OtherTracks DEF On
  <2>4. /\ Active(track)' = Active(track) /\ Waiting(track)' = Waiting(track)
        /\ Ending(track)' = Ending(track) /\ ~Joinable(Producer(track)')
    BY <2>1, <2>2 DEF On, V!StopJoins, A!StopJoins, V!queueVars, A!queueVars, V!NoThread,
       A!NoThread, Active, Waiting, Ending, Producer, Joinable, Is, Tracks
  <2>5. \A t \in Tracks : Over(t)' => Rests(t)'
    BY <1>2, <2>1, <2>3 DEF Leaving
  <2>6. track' \notin todo'
    BY <1>1, <2>1 DEF Leaving
  <2> QED
    BY <2>1, <2>2, <2>4, <2>5, <2>6 DEF RestInv, Joinable
<1>7. CASE CloseTrack
  <2>1. /\ pc = "trackClose" /\ pc' = "release"
        /\ UNCHANGED <<handlers, todo, track, port, forgotten>>
        /\ On(track, V!StopEndsAndCloses, A!StopEndsAndCloses)
    BY <1>7 DEF CloseTrack
  <2>2. /\ track \in Tracks
        /\ forgotten[track] = {} => ~Active(track) /\ ~Joinable(Producer(track))
    BY <1>1, <2>1 DEF Leaving, RestInv
  <2>3. \A t \in Tracks \ {track} : /\ Producer(t)' = Producer(t) /\ Active(t)' = Active(t)
                                    /\ Waiting(t)' = Waiting(t)
    BY <2>1, <2>2, OtherTracks DEF On
  <2>4. /\ Active(track)' = Active(track) /\ Producer(track)' = Producer(track)
        /\ ~Waiting(track)' /\ Ending(track)'
    BY <2>1, <2>2 DEF On, V!StopEndsAndCloses, A!StopEndsAndCloses, V!Queue!set_exit,
       A!Queue!set_exit, Active, Waiting, Ending, Producer, Is, Tracks
  <2>5. \A t \in Tracks : Over(t)' => Rests(t)'
    BY <1>2, <2>1, <2>3 DEF Leaving
  <2>6. track' \notin todo'
    BY <1>1, <2>1 DEF Leaving
  <2> QED
    BY <2>1, <2>2, <2>4, <2>5, <2>6 DEF RestInv, Joinable
<1>8. CASE ReleaseHandler
  <2>1. /\ pc = "release" /\ pc' = "unregister"
        /\ UNCHANGED <<mediaVars, handlers, todo, track, forgotten>>
        /\ port' = [port EXCEPT ![track] = NoSockets]
    BY <1>8 DEF ReleaseHandler
  <2>2. /\ track \in Tracks
        /\ forgotten[track] = {} => ~Active(track) /\ ~Waiting(track) /\ ~Joinable(Producer(track))
    BY <1>1, <2>1 DEF Leaving, RestInv
  <2>3. port'[track] = NoSockets /\ \A t \in Tracks \ {track} : port'[t] = port[t]
    BY <1>1, <2>1, <2>2
  <2>4. \A t \in Tracks \ {track} : Over(t)' => Over(t) /\ Keeps(t)
    BY <2>1, <2>3, QuietTracks DEF Over, Left, Leaving, Keeps
  <2>5. \A t \in Tracks \ {track} : Over(t)' => Rests(t)'
    BY <1>1, <2>4, RestsStay DEF RestInv
  <2>6. Rests(track)'
    BY <2>1, <2>2, <2>3, QuietTracks DEF Rests, Joinable
  <2> QED
    BY <2>1, <2>2, <2>5, <2>6 DEF RestInv, Leaving
<1> QED
  BY <1>3, <1>4, <1>5, <1>6, <1>7, <1>8

(* A step of one of the threads of a track.                                  *)
LEMMA ThreadRest ==
  ASSUME CleanInv, NEW u \in Tracks,
         UNCHANGED <<handlers, port, pc, todo, track, forgotten>>,
         \A t \in Tracks \ {u} : /\ Producer(t)' = Producer(t) /\ Active(t)' = Active(t)
                                 /\ Waiting(t)' = Waiting(t) /\ Ending(t)' = Ending(t),
         Active(u)' = Active(u),
         Over(u) => forgotten[u] # {},
         Joinable(Producer(u)') => Joinable(Producer(u)),
         Ending(u) => Ending(u)' /\ (Waiting(u)' => Waiting(u))
  PROVE  RestInv'
<1>1. /\ RestInv /\ port \in [Tracks -> Int]
      /\ pc \in Leaving => track \in Tracks
  BY DEF CleanInv, EntryInv, PortsInv, SendersInv, AtTrack
<1>2. \A t \in Tracks : Over(t)' <=> Over(t)
  BY DEF Over, Left
<1>3. \A t \in Tracks \ {u} : Over(t)' => Rests(t)'
  BY <1>1, <1>2, RestsStay DEF RestInv, Keeps
<1>4. Over(u)' => Rests(u)'
  BY <1>1, <1>2 DEF RestInv, Rests
<1>5. ASSUME pc \in {"trackJoin", "trackClose", "release"}, forgotten[track] = {}
      PROVE  ~Active(track)' /\ ~Waiting(track)' /\ Ending(track)'
  <2>1. ~Active(track) /\ ~Waiting(track) /\ Ending(track) /\ track \in Tracks
    BY <1>1, <1>5 DEF RestInv, Leaving
  <2>2. CASE track = u
    BY <2>1, <2>2
  <2>3. CASE track # u
    BY <2>1, <2>3
  <2> QED
    BY <2>2, <2>3
<1>6. ASSUME pc \in {"trackClose", "release"}, forgotten[track] = {}
      PROVE  ~Joinable(Producer(track)')
  <2>1. ~Joinable(Producer(track)) /\ track \in Tracks
    BY <1>1, <1>6 DEF RestInv, Leaving
  <2>2. CASE track = u
    BY <2>1, <2>2
  <2>3. CASE track # u
    BY <2>1, <2>3 DEF Joinable
  <2> QED
    BY <2>2, <2>3
<1> QED
  BY <1>1, <1>3, <1>4, <1>5, <1>6 DEF RestInv, Joinable

LEMMA SenderRest ==
  ASSUME CleanInv, NEW u \in Tracks, SenderRuns(u)
  PROVE  RestInv'
<1>1. EntryInv /\ SendersInv /\ MembersInv
  BY DEF CleanInv, EntryInv
<1>2. sender[u] # "none" /\ UNCHANGED <<handlers, port, pc, todo, track, forgotten>>
  BY <1>1, SenderMoves DEF localVars, historyVars
<1>3. ~Over(u)
  BY <1>1, <1>2, SenderIsRegistered DEF Over, Left, Joinable
<1>4. \A t \in Tracks \ {u} : /\ Producer(t)' = Producer(t) /\ Active(t)' = Active(t)
                              /\ Waiting(t)' = Waiting(t) /\ Ending(t)' = Ending(t)
  <2>1. CASE SenderTestsActive(u)
    BY <2>1, QuietTracks DEF SenderTestsActive
  <2>2. CASE SenderWaits(u) \/ SenderGetsFrame(u)
    BY <2>2, OtherTracks DEF SenderWaits, SenderGetsFrame, On
  <2> QED
    BY <2>1, <2>2 DEF SenderRuns
<1>5. /\ Producer(u)' = Producer(u) /\ Active(u)' = Active(u)
      /\ Ending(u)' = Ending(u) /\ (Waiting(u)' => Waiting(u))
  <2>1. CASE SenderTestsActive(u)
    BY <2>1, QuietTracks DEF SenderTestsActive
  <2>2. CASE SenderWaits(u)
    BY <2>2 DEF SenderWaits, On, V!Queue!ConsumeWaits, A!Queue!ConsumeWaits, videoTrack,
       audioTrack, Producer, Active, Waiting, Ending, Is, Tracks
  <2>3. CASE SenderGetsFrame(u)
    BY <2>3 DEF SenderGetsFrame, On, V!Queue!ConsumeTakes, A!Queue!ConsumeTakes,
       V!Queue!ConsumeExits, A!Queue!ConsumeExits, videoTrack, audioTrack, Producer, Active,
       Waiting, Ending, Is, Tracks
  <2> QED
    BY <2>1, <2>2, <2>3 DEF SenderRuns
<1> QED
  BY <1>2, <1>3, <1>4, <1>5, ThreadRest

LEMMA ProducerRest ==
  ASSUME CleanInv, NEW u \in Tracks, ProducerRuns(u)
  PROVE  RestInv'
<1> DEFINE Calls(t) == /\ Producer(t) # "none"
                       /\ Active(t)' = Active(t)
                       /\ Ending(t) => Ending(t)' /\ (Waiting(t)' => Waiting(t))
<1>1. Calls(u)
  <2> USE DEF V!run_producer, V!ProducerReadsFrame, V!ProducerLeavesLoop, V!ProducerWaits,
       V!ProducerPutsFrame, V!ProducerFinishes, V!trackVars, V!queueVars, V!Queue!ProduceWaits,
       V!Queue!ProduceWrites, V!Queue!set_exit
  <2> USE DEF A!run_producer, A!ProducerReadsFrame, A!ProducerLeavesLoop, A!ProducerWaits,
       A!ProducerPutsFrame, A!ProducerFinishes, A!trackVars, A!queueVars, A!Queue!ProduceWaits,
       A!Queue!ProduceWrites, A!Queue!set_exit
  <2>1. CASE u = "video"
    <3>1. V!run_producer
      BY <2>1 DEF ProducerRuns, On
    <3> QED
      BY <2>1, <3>1 DEF Producer, Active, Ending, Waiting, Is
  <2>2. CASE u = "audio"
    <3>1. A!run_producer
      BY <2>2 DEF ProducerRuns, On
    <3> QED
      BY <2>2, <3>1 DEF Producer, Active, Ending, Waiting, Is
  <2> QED
    BY <2>1, <2>2 DEF Tracks
<1>2. UNCHANGED <<handlers, port, pc, todo, track, forgotten>>
  BY DEF ProducerRuns, sessionVars, localVars, historyVars
<1>3. \A t \in Tracks \ {u} : /\ Producer(t)' = Producer(t) /\ Active(t)' = Active(t)
                              /\ Waiting(t)' = Waiting(t) /\ Ending(t)' = Ending(t)
  BY OtherTracks DEF ProducerRuns, On
<1>4. Over(u) => forgotten[u] # {}
  BY <1>1 DEF CleanInv, RestInv, Rests, Joinable
<1> QED
  BY <1>1, <1>2, <1>3, <1>4, ThreadRest DEF Joinable

LEMMA CleanStep == CleanInv /\ [Next]_vars => CleanInv'
<1> SUFFICES ASSUME CleanInv, [Next]_vars PROVE CleanInv'
  OBVIOUS
<1>1. EntryInv' /\ PortsInv' /\ MembersInv'
  BY EntryStep, PortsStep, MembersStep DEF CleanInv
<1>2. RestInv'
  <2>1. CASE Frozen
    <3>1. UNCHANGED <<mediaVars, port, handlers, pc, todo, track, forgotten>>
      BY <2>1 DEF Frozen, sessionVars, localVars, historyVars
    <3>2. pc \in Leaving => track \in Tracks
      BY DEF CleanInv, EntryInv, SendersInv, AtTrack
    <3>3. \A t \in Tracks : /\ Producer(t)' = Producer(t) /\ Active(t)' = Active(t)
                            /\ Waiting(t)' = Waiting(t) /\ Ending(t)' = Ending(t)
      BY <3>1, QuietTracks
    <3>4. \A t \in Tracks : Over(t)' => Rests(t)'
      BY <3>1, <3>3, RestsStay DEF CleanInv, RestInv, Over, Left, Keeps
    <3> QED
      BY <3>1, <3>2, <3>3, <3>4 DEF CleanInv, RestInv, Leaving, Joinable
  <2>2. CASE ConnectionSteps
    BY <2>2, QuietRest, StartRest, LeaveRest DEF ConnectionSteps
  <2> QED
    BY <2>1, <2>2, QuietRest, SenderRest, ProducerRest, StepCases
<1> QED
  BY <1>1, <1>2 DEF CleanInv

LEMMA CleanInit == Init => CleanInv
<1> SUFFICES ASSUME Init PROVE CleanInv
  OBVIOUS
<1>1. EntryInv /\ PortsInv /\ MembersInv
  BY EntryInit, PortsInit, MembersInit
<1>2. pc = "closed" /\ port = [t \in Tracks |-> NoSockets]
  BY DEF Init
<1>3. \A t \in Tracks : ~Joinable(Producer(t)) /\ ~Active(t) /\ ~Waiting(t)
  BY DEF Init, V!InitTrack, A!InitTrack, V!NoThread, A!NoThread, V!Queue!Init, A!Queue!Init,
         Producer, Active, Waiting, Is, Joinable, Tracks
<1> QED
  BY <1>1, <1>2, <1>3 DEF CleanInv, RestInv, Rests, Leaving

LEMMA CleanMeansReleased ==
  ASSUME CleanInv
  PROVE  TracksAreReleased
<1> SUFFICES ASSUME session = NoSession, NEW t \in Tracks
             PROVE  /\ sender[t] = "none" /\ port[t] = NoSockets
                    /\ {s \in SessionIds : RegisteredIn(t, s)} = forgotten[t]
                    /\ forgotten[t] = {} => AtRest(t)
  BY DEF TracksAreReleased
<1>1. handlers = {} /\ pc \in {"closed", "recv", "leave"}
  BY DEF CleanInv, EntryInv, LoopInv
<1>2. ~Joinable(sender[t]) /\ Rests(t)
  BY <1>1 DEF CleanInv, EntryInv, JoinedInv, RestInv, Over
<1>3. Members(t) = forgotten[t]
  BY <1>1 DEF CleanInv, MembersInv, Own
<1>4. {s \in SessionIds : RegisteredIn(t, s)} = Members(t)
  BY DEF RegisteredIn, Members, Positions, Is, V!Queue!Registered, A!Queue!Registered,
         V!Queue!Absent, A!Queue!Absent
<1>5. Members(t) = {} => Is(t, V!Queue!no_consumer, A!Queue!no_consumer)
  BY DEF Members, Positions, Is, V!Queue!no_consumer, A!Queue!no_consumer, V!Queue!Absent,
         A!Queue!Absent
<1>6. ASSUME forgotten[t] = {} PROVE AtRest(t)
  BY <1>2, <1>3, <1>5, <1>6 DEF Rests, AtRest, Joinable, Producer, Active, Waiting, Is
<1> QED
  BY <1>2, <1>3, <1>4, <1>6 DEF Rests, Joinable

(* For any queue, file, pool and faults, and any sessions one after the      *)
(* other: ~Session (Session.cpp:12-26) leaves no thread and no socket of its *)
(* session behind, and no registered consumer but those whose SETUP of a new *)
(* track had failed to bind (Session.cpp:38-43).  A track that has no such   *)
(* consumer is not active and has no producer thread.                        *)
THEOREM OnlyFailedSetupsLeaveAConsumer == Spec => []TracksAreReleased
<1>1. CleanInv => TracksAreReleased
  BY CleanMeansReleased
<1> QED
  BY <1>1, CleanInit, CleanStep, PTL DEF Spec

-----------------------------------------------------------------------------
(***************************************************************************)
(* The two queues and their users: every step of the program is a step of  *)
(* module CircularQueue for the video queue and for the audio queue, or    *)
(* leaves it alone.                                                        *)
(***************************************************************************)
Sleepers(t) == Is(t, v_not_empty, a_not_empty)

(* Who sleeps in consume() is the sender of the session.                     *)
SleepInv ==
  \A t \in Tracks : /\ Sleepers(t) \subseteq {session}
                    /\ Sleepers(t) # {} => sender[t] = "consume"

LEMMA SleepInit == Init => SleepInv
BY DEF Init, V!InitTrack, A!InitTrack, V!Queue!Init, A!Queue!Init, SleepInv, Sleepers, Is, Tracks

LEMMA SleepStays ==
  ASSUME SleepInv,
         \A t \in Tracks : Sleepers(t)' \subseteq Sleepers(t),
         \A t \in Tracks : sender[t] = "consume" => sender'[t] = "consume" /\ session' = session
  PROVE  SleepInv'
BY DEF SleepInv

LEMMA QuietSleepers ==
  ASSUME UNCHANGED mediaVars
  PROVE  \A t \in Tracks : Sleepers(t)' \subseteq Sleepers(t)
BY DEF mediaVars, videoVars, audioVars, Sleepers, Is

LEMMA OtherSleepers ==
  ASSUME NEW u \in Tracks, NEW t \in Tracks \ {u},
         \/ u = "video" /\ UNCHANGED audioVars
         \/ u = "audio" /\ UNCHANGED videoVars
  PROVE  Sleepers(t)' = Sleepers(t)
BY DEF Sleepers, Is, Tracks, videoVars, audioVars

(* No call of the connection thread puts anyone to sleep.                    *)
LEMMA CallsWakeOnly ==
  ASSUME NEW u \in Tracks,
         \/ On(u, V!register_session(session), A!register_session(session))
         \/ On(u, V!unregister_session(session), A!unregister_session(session))
         \/ On(u, V!StartActivates, A!StartActivates)
         \/ On(u, V!StartOpens, A!StartOpens)
         \/ On(u, V!StartFailsToOpen, A!StartFailsToOpen)
         \/ On(u, V!StartSpawns, A!StartSpawns)
         \/ On(u, V!StopSignals, A!StopSignals)
         \/ On(u, V!StopJoins, A!StopJoins)
         \/ On(u, V!StopEndsAndCloses, A!StopEndsAndCloses)
  PROVE  \A t \in Tracks : Sleepers(t)' \subseteq Sleepers(t)
<1>1. Sleepers(u)' \subseteq Sleepers(u)
  <2>1. CASE \/ On(u, V!register_session(session), A!register_session(session))
             \/ On(u, V!unregister_session(session), A!unregister_session(session))
    BY <2>1 DEF On, V!register_session, A!register_session, V!unregister_session,
       A!unregister_session, V!Queue!register_consumer, A!Queue!register_consumer,
       V!Queue!unregister_consumer, A!Queue!unregister_consumer, Sleepers, Is, Tracks
  <2>2. CASE \/ On(u, V!StartActivates, A!StartActivates)
             \/ On(u, V!StartOpens, A!StartOpens)
             \/ On(u, V!StartFailsToOpen, A!StartFailsToOpen)
             \/ On(u, V!StartSpawns, A!StartSpawns)
    BY <2>2 DEF On, V!StartActivates, A!StartActivates, V!StartOpens, A!StartOpens,
       V!StartFailsToOpen, A!StartFailsToOpen, V!StartSpawns, A!StartSpawns, V!queueVars,
       A!queueVars, V!Queue!set_run, A!Queue!set_run, Sleepers, Is, Tracks
  <2>3. CASE \/ On(u, V!StopSignals, A!StopSignals)
             \/ On(u, V!StopJoins, A!StopJoins)
             \/ On(u, V!StopEndsAndCloses, A!StopEndsAndCloses)
    BY <2>3 DEF On, V!StopSignals, A!StopSignals, V!StopJoins, A!StopJoins,
       V!StopEndsAndCloses, A!StopEndsAndCloses, V!queueVars, A!queueVars, V!Queue!set_exit,
       A!Queue!set_exit, Sleepers, Is, Tracks
  <2> QED
    BY <2>1, <2>2, <2>3
<1>2. \/ u = "video" /\ UNCHANGED audioVars
      \/ u = "audio" /\ UNCHANGED videoVars
  BY DEF On
<1> QED
  BY <1>1, <1>2, OtherSleepers

LEMMA SleepByConnection ==
  ASSUME SleepInv, EntryInv, ClientActs \/ ConnectionSteps
  PROVE  SleepInv'
<1>1. /\ SendersInv /\ LoopInv /\ JoinedInv /\ sender \in [Tracks -> Places]
      /\ session \in SessionIds \cup {NoSession}
      /\ pc \in AtTrack => track \in Tracks
  BY DEF EntryInv, SendersInv, LoopInv
<1> USE DEF Goto, Visit, sessionVars, localVars
<1>2. CASE Accept \/ EndConnection \/ SetupNotFound \/ Play \/ Pause
  BY <1>2, SleepStays, QuietSleepers DEF Accept, EndConnection, SetupNotFound, Play, Pause
<1>3. ASSUME NEW t \in Tracks, Setup(t) PROVE SleepInv'
  <2>1. UNCHANGED <<mediaVars, sender>>
    BY <1>3 DEF Setup
  <2>2. session = NoSession => \A u \in Tracks : sender[u] # "consume"
    BY <1>1 DEF LoopInv, JoinedInv, Joinable
  <2>3. session # NoSession => session' = session
    BY <1>1, <1>3, SetupHasSession
  <2> QED
    BY <2>1, <2>2, <2>3, SleepStays, QuietSleepers
<1>4. CASE \/ BindFails \/ FinishStart \/ TerminateSession \/ EraseSession \/ TestNoConsumer
           \/ ReleaseHandler
  BY <1>4, SleepStays, QuietSleepers
     DEF BindFails, FinishStart, TerminateSession, EraseSession, TestNoConsumer, ReleaseHandler
<1>5. CASE Attaches
  BY <1>5, SleepStays, QuietSleepers DEF Attaches, AttachHandler
<1>6. CASE DestroySession
  <2>1. pc = "unregister" /\ UNCHANGED <<mediaVars, sender>>
    BY <1>6 DEF DestroySession
  <2>2. \A t \in Tracks : sender[t] # "consume"
    BY <1>1, <2>1 DEF JoinedInv, Joinable
  <2> QED
    BY <2>1, <2>2, SleepStays, QuietSleepers
<1>7. CASE SpawnsSender \/ JoinSender
  <2>1. /\ track \in Tracks /\ sender[track] # "consume" /\ UNCHANGED <<mediaVars, session>>
        /\ \E l : sender' = [sender EXCEPT ![track] = l]
    BY <1>1, <1>7 DEF SpawnsSender, SpawnSender, JoinSender, JoinReturns, Joinable, AtTrack, Starting
  <2>2. \A t \in Tracks : sender[t] = "consume" => sender'[t] = "consume"
    BY <1>1, <2>1
  <2> QED
    BY <2>1, <2>2, SleepStays, QuietSleepers
<1>8. ASSUME NEW t \in Tracks, StartEntry(t) \/ StopEntry(t) PROVE SleepInv'
  BY <1>8, SleepStays, QuietSleepers DEF StartEntry, StopEntry
<1>9. CASE RegisterSession \/ StartTrack \/ OpenTrack \/ OpenTrackFails
  <2>1. track \in Tracks /\ UNCHANGED <<sender, session>>
    BY <1>1, <1>9 DEF RegisterSession, StartTrack, OpenTrack, OpenTrackFails, AtTrack, Starting
  <2>2. \A t \in Tracks : Sleepers(t)' \subseteq Sleepers(t)
    BY <1>9, <2>1, CallsWakeOnly DEF RegisterSession, StartTrack, OpenTrack, OpenTrackFails
  <2> QED
    BY <2>1, <2>2, SleepStays
<1>10. CASE SpawnsProducer
  <2>1. /\ track \in Tracks /\ UNCHANGED <<sender, session>>
        /\ On(track, V!StartSpawns, A!StartSpawns)
    BY <1>1, <1>10 DEF SpawnsProducer, SpawnProducer, Producer, AtTrack, Starting
  <2>2. \A t \in Tracks : Sleepers(t)' \subseteq Sleepers(t)
    BY <2>1, CallsWakeOnly
  <2> QED
    BY <2>1, <2>2, SleepStays
<1>11. CASE StopTrack \/ JoinProducer \/ CloseTrack
  <2>1. track \in Tracks /\ UNCHANGED <<sender, session>>
    BY <1>1, <1>11 DEF StopTrack, JoinProducer, CloseTrack, AtTrack, Leaving
  <2>2. \A t \in Tracks : Sleepers(t)' \subseteq Sleepers(t)
    BY <1>11, <2>1, CallsWakeOnly DEF StopTrack, JoinProducer, CloseTrack
  <2> QED
    BY <2>1, <2>2, SleepStays
<1>12. ASSUME NEW t \in Tracks, UnregisterEntry(t) PROVE SleepInv'
  <2>1. UNCHANGED <<sender, session>>
    BY <1>12 DEF UnregisterEntry
  <2>2. \A u \in Tracks : Sleepers(u)' \subseteq Sleepers(u)
    BY <1>12, CallsWakeOnly DEF UnregisterEntry
  <2> QED
    BY <2>1, <2>2, SleepStays
<1> QED
  BY <1>2, <1>3, <1>4, <1>5, <1>6, <1>7, <1>8, <1>9, <1>10, <1>11, <1>12
     DEF ClientActs, ConnectionSteps

LEMMA SleepBySender ==
  ASSUME SleepInv, EntryInv, NEW u \in Tracks, SenderRuns(u)
  PROVE  SleepInv'
<1>1. sender \in [Tracks -> Places]
  BY DEF EntryInv, SendersInv
<1>2. CASE SenderTestsActive(u)
  <2>1. /\ sender[u] = "loop" /\ UNCHANGED <<mediaVars, session>>
        /\ \E l : sender' = [sender EXCEPT ![u] = l]
    BY <1>2 DEF SenderTestsActive
  <2>2. \A t \in Tracks : sender[t] = "consume" => sender'[t] = "consume"
    BY <1>1, <2>1
  <2> QED
    BY <2>1, <2>2, SleepStays, QuietSleepers
<1>3. CASE SenderWaits(u)
  <2>1. /\ sender[u] = "consume" /\ UNCHANGED <<sender, session>>
        /\ \A t \in Tracks \ {u} : Sleepers(t)' = Sleepers(t)
    BY <1>3, OtherSleepers DEF SenderWaits, On, sessionVars
  <2>2. Sleepers(u)' = Sleepers(u) \cup {session}
    BY <1>3 DEF SenderWaits, On, V!Queue!ConsumeWaits, A!Queue!ConsumeWaits, Sleepers, Is, Tracks
  <2> QED
    BY <2>1, <2>2 DEF SleepInv
<1>4. CASE SenderGetsFrame(u)
  <2>1. /\ UNCHANGED session /\ \E l : sender' = [sender EXCEPT ![u] = l]
        /\ \A t \in Tracks \ {u} : Sleepers(t)' = Sleepers(t)
    BY <1>4, OtherSleepers DEF SenderGetsFrame, On
  <2>2. session \notin Sleepers(u) /\ Sleepers(u)' = Sleepers(u)
    BY <1>4 DEF SenderGetsFrame, On, V!Queue!ConsumeTakes, A!Queue!ConsumeTakes,
       V!Queue!ConsumeExits, A!Queue!ConsumeExits, Sleepers, Is, Tracks
  <2>3. Sleepers(u)' = {}
    BY <2>2 DEF SleepInv
  <2>4. \A t \in Tracks \ {u} : sender'[t] = sender[t]
    BY <1>1, <2>1
  <2> QED
    BY <2>1, <2>3, <2>4 DEF SleepInv
<1> QED
  BY <1>2, <1>3, <1>4 DEF SenderRuns

LEMMA SleepByProducer ==
  ASSUME SleepInv, NEW u \in Tracks, ProducerRuns(u)
  PROVE  SleepInv'
<1>1. UNCHANGED <<sender, session>> /\ \A t \in Tracks \ {u} : Sleepers(t)' = Sleepers(t)
  BY OtherSleepers DEF ProducerRuns, On, sessionVars
<1>2. Sleepers(u)' \subseteq Sleepers(u)
  <2>1. CASE u = "video"
    <3>1. V!run_producer
      BY <2>1 DEF ProducerRuns, On
    <3> QED
      BY <2>1, <3>1 DEF V!run_producer, V!ProducerReadsFrame, V!ProducerLeavesLoop,
         V!ProducerWaits, V!ProducerPutsFrame, V!ProducerFinishes, V!trackVars, V!queueVars,
         V!Queue!ProduceWaits, V!Queue!ProduceWrites, V!Queue!set_exit, Sleepers, Is
  <2>2. CASE u = "audio"
    <3>1. A!run_producer
      BY <2>2 DEF ProducerRuns, On
    <3> QED
      BY <2>2, <3>1 DEF A!run_producer, A!ProducerReadsFrame, A!ProducerLeavesLoop,
         A!ProducerWaits, A!ProducerPutsFrame, A!ProducerFinishes, A!trackVars, A!queueVars,
         A!Queue!ProduceWaits, A!Queue!ProduceWrites, A!Queue!set_exit, Sleepers, Is
  <2> QED
    BY <2>1, <2>2 DEF Tracks
<1>3. \A t \in Tracks : Sleepers(t)' \subseteq Sleepers(t)
  BY <1>1, <1>2
<1> QED
  BY <1>1, <1>3, SleepStays

LEMMA SleepStep == SleepInv /\ EntryInv /\ [Next]_vars => SleepInv'
<1> SUFFICES ASSUME SleepInv, EntryInv, [Next]_vars PROVE SleepInv'
  OBVIOUS
<1>1. CASE Frozen
  BY <1>1, SleepStays, QuietSleepers DEF Frozen, sessionVars
<1> QED
  BY <1>1, SleepByConnection, SleepBySender, SleepByProducer, StepCases

(* Of the session's connection.                                              *)
LEMMA ConnectionCallsQueue ==
  ASSUME EntryInv, SleepInv, ConnectionSteps
  PROVE  [V!Queue!Next]_(V!Queue!vars) /\ [A!Queue!Next]_(A!Queue!vars)
<1>1. LoopInv /\ JoinedInv
  BY DEF EntryInv
<1> USE DEF videoVars, audioVars, V!Queue!vars, A!Queue!vars
<1>2. CASE UNCHANGED mediaVars
  BY <1>2 DEF mediaVars
<1>3. CASE RegisterSession
  <2>1. /\ session \in SessionIds
        /\ On(track, V!register_session(session), A!register_session(session))
    BY <1>1, <1>3 DEF RegisterSession, LoopInv
  <2> QED
    BY <2>1 DEF On, V!register_session, A!register_session, V!Queue!Next, A!Queue!Next
<1>4. ASSUME NEW t \in Tracks, UnregisterEntry(t)
      PROVE  [V!Queue!Next]_(V!Queue!vars) /\ [A!Queue!Next]_(A!Queue!vars)
  <2>1. /\ pc = "unregister" /\ session \in SessionIds
        /\ On(t, V!unregister_session(session), A!unregister_session(session))
    BY <1>1, <1>4 DEF UnregisterEntry, LoopInv
  <2>2. session \notin Sleepers(t)
    BY <1>1, <2>1 DEF JoinedInv, SleepInv, Joinable
  <2>3. CASE t = "video"
    <3>1. V!Queue!Unregister(session) /\ UNCHANGED audioVars
      BY <2>1, <2>2, <2>3 DEF On, V!unregister_session, V!Queue!Unregister, Sleepers, Is
    <3> QED
      BY <2>1, <3>1 DEF V!Queue!Next
  <2>4. CASE t = "audio"
    <3>1. A!Queue!Unregister(session) /\ UNCHANGED videoVars
      BY <2>1, <2>2, <2>4 DEF On, A!unregister_session, A!Queue!Unregister, Sleepers, Is
    <3> QED
      BY <2>1, <3>1 DEF A!Queue!Next
  <2> QED
    BY <2>3, <2>4 DEF Tracks
<1>5. CASE \/ StartTrack \/ OpenTrack \/ OpenTrackFails
           \/ StopTrack \/ JoinProducer \/ CloseTrack
  BY <1>5 DEF StartTrack, OpenTrack, OpenTrackFails, StopTrack, JoinProducer,
     CloseTrack, On, V!StartActivates, A!StartActivates, V!StartOpens, A!StartOpens,
     V!StartFailsToOpen, A!StartFailsToOpen, V!StopSignals, A!StopSignals, V!StopJoins,
     A!StopJoins, V!StopEndsAndCloses, A!StopEndsAndCloses, V!queueVars, A!queueVars,
     V!Queue!Next, A!Queue!Next
<1>6. CASE SpawnsProducer
  <2>1. On(track, V!StartSpawns, A!StartSpawns)
    BY <1>6 DEF SpawnsProducer, SpawnProducer, Producer
  <2> QED
    BY <2>1 DEF On, V!StartSpawns, A!StartSpawns, V!queueVars, A!queueVars
<1> QED
  BY <1>2, <1>3, <1>4, <1>5, <1>6
     DEF ConnectionSteps, BindFails, Attaches, AttachHandler, StartEntry, SpawnsSender,
         SpawnSender, FinishStart, TerminateSession, StopEntry, JoinSender, EraseSession,
         TestNoConsumer, ReleaseHandler, DestroySession

LEMMA SenderCallsQueue ==
  ASSUME MembersInv, EntryInv, NEW t \in Tracks, SenderRuns(t)
  PROVE  [V!Queue!Next]_(V!Queue!vars) /\ [A!Queue!Next]_(A!Queue!vars)
<1> USE DEF videoVars, audioVars, V!Queue!vars, A!Queue!vars
<1>1. CASE SenderTestsActive(t)
  BY <1>1 DEF SenderTestsActive, mediaVars
<1>2. CASE SenderWaits(t) \/ SenderGetsFrame(t)
  <2>1. session \in SessionIds /\ Positions(t)[session] # -1
    BY <1>2, SenderIsRegistered DEF SenderWaits, SenderGetsFrame, Joinable
  <2>2. CASE t = "video"
    <3>1. V!Queue!Consume(session) /\ UNCHANGED audioVars
      BY <1>2, <2>1, <2>2 DEF SenderWaits, SenderGetsFrame, On, V!Queue!Consume,
         V!Queue!Registered, V!Queue!Absent, V!Queue!consume, Positions, Is
    <3> QED
      BY <2>1, <3>1 DEF V!Queue!Next
  <2>3. CASE t = "audio"
    <3>1. A!Queue!Consume(session) /\ UNCHANGED videoVars
      BY <1>2, <2>1, <2>3 DEF SenderWaits, SenderGetsFrame, On, A!Queue!Consume,
         A!Queue!Registered, A!Queue!Absent, A!Queue!consume, Positions, Is
    <3> QED
      BY <2>1, <3>1 DEF A!Queue!Next
  <2> QED
    BY <2>2, <2>3 DEF Tracks
<1> QED
  BY <1>1, <1>2 DEF SenderRuns

LEMMA ProducerCallsQueue ==
  ASSUME NEW t \in Tracks, ProducerRuns(t)
  PROVE  [V!Queue!Next]_(V!Queue!vars) /\ [A!Queue!Next]_(A!Queue!vars)
<1> USE DEF videoVars, audioVars, V!Queue!vars, A!Queue!vars
<1>1. CASE t = "video"
  <2>1. V!run_producer /\ UNCHANGED audioVars
    BY <1>1 DEF ProducerRuns, On
  <2> QED
    BY <2>1 DEF V!run_producer, V!ProducerReadsFrame, V!ProducerLeavesLoop, V!ProducerWaits,
       V!ProducerPutsFrame, V!ProducerFinishes, V!queueVars, V!Queue!Next, V!Queue!produce
<1>2. CASE t = "audio"
  <2>1. A!run_producer /\ UNCHANGED videoVars
    BY <1>2 DEF ProducerRuns, On
  <2> QED
    BY <2>1 DEF A!run_producer, A!ProducerReadsFrame, A!ProducerLeavesLoop, A!ProducerWaits,
       A!ProducerPutsFrame, A!ProducerFinishes, A!queueVars, A!Queue!Next, A!Queue!produce
<1> QED
  BY <1>1, <1>2 DEF Tracks

LEMMA QueuesStep ==
  ASSUME EntryInv, MembersInv, SleepInv, [Next]_vars
  PROVE  [V!Queue!Next]_(V!Queue!vars) /\ [A!Queue!Next]_(A!Queue!vars)
<1>1. CASE UNCHANGED mediaVars
  BY <1>1 DEF mediaVars, videoVars, audioVars, V!Queue!vars, A!Queue!vars
<1>2. CASE ClientActs
  BY <1>1, <1>2 DEF ClientActs, Accept, EndConnection, Setup, SetupNotFound, Play, Pause
<1> QED
  BY <1>1, <1>2, ConnectionCallsQueue, SenderCallsQueue, ProducerCallsQueue, StepCases DEF Frozen

(* With the handlers of a session visited in a loop (Session.cpp:12-26,      *)
(* 35-43,48-101), both queues are used by the rules of CircularQueue, any    *)
(* requests of the client and any orphan positions included: a track is      *)
(* registered before its sender starts, no sender of the session is left     *)
(* when the destructor unregisters its tracks, and each queue has one        *)
(* producer.                                                                 *)
THEOREM QueuesAreUsedByTheirRules == Spec => UseTheQueuesByTheirRules
<1>1. Init => V!Queue!Init /\ A!Queue!Init
  BY DEF Init, V!InitTrack, A!InitTrack
<1>2. EntryInv /\ MembersInv /\ SleepInv /\ [Next]_vars
        => [V!Queue!Next]_(V!Queue!vars) /\ [A!Queue!Next]_(A!Queue!vars)
  BY QueuesStep
<1>3. Spec => [](EntryInv /\ MembersInv /\ SleepInv)
  BY EntryInit, EntryStep, MembersInit, MembersStep, SleepInit, SleepStep, PTL DEF Spec
<1> QED
  BY <1>1, <1>2, <1>3, PTL DEF Spec, UseTheQueuesByTheirRules, V!Queue!Spec, A!Queue!Spec

(* The instances that the theorems of CircularQueue_proofs come with are the *)
(* queues of the model.                                                      *)
LEMMA SameVideoQueue == V!Queue!Spec => VideoQueue!Spec
<1>1. V!Queue!Init => VideoQueue!Init
  BY DEF V!Queue!Init, VideoQueue!Init, V!Queue!Positions, VideoQueue!Positions,
         V!Queue!Absent, VideoQueue!Absent
<1>2. [V!Queue!Next]_(V!Queue!vars) => [VideoQueue!Next]_(VideoQueue!vars)
  BY DEF V!Queue!Next, VideoQueue!Next, V!Queue!vars, VideoQueue!vars,
         V!Queue!produce, VideoQueue!produce, V!Queue!ProduceWaits, VideoQueue!ProduceWaits,
         V!Queue!ProduceWrites, VideoQueue!ProduceWrites, V!Queue!Full, VideoQueue!Full,
         V!Queue!is_position_in_use, VideoQueue!is_position_in_use,
         V!Queue!slot_after, VideoQueue!slot_after, V!Queue!Consume, VideoQueue!Consume,
         V!Queue!consume, VideoQueue!consume, V!Queue!ConsumeWaits, VideoQueue!ConsumeWaits,
         V!Queue!ConsumeTakes, VideoQueue!ConsumeTakes,
         V!Queue!ConsumeExits, VideoQueue!ConsumeExits, V!Queue!Cursor, VideoQueue!Cursor,
         V!Queue!Absent, VideoQueue!Absent, V!Queue!Registered, VideoQueue!Registered,
         V!Queue!register_consumer, VideoQueue!register_consumer,
         V!Queue!Unregister, VideoQueue!Unregister,
         V!Queue!unregister_consumer, VideoQueue!unregister_consumer,
         V!Queue!set_exit, VideoQueue!set_exit, V!Queue!set_run, VideoQueue!set_run,
         V!Queue!SpuriousWakeup, VideoQueue!SpuriousWakeup
<1> QED
  BY <1>1, <1>2, PTL DEF V!Queue!Spec, VideoQueue!Spec

LEMMA SameAudioQueue == A!Queue!Spec => AudioQueue!Spec
<1>1. A!Queue!Init => AudioQueue!Init
  BY DEF A!Queue!Init, AudioQueue!Init, A!Queue!Positions, AudioQueue!Positions,
         A!Queue!Absent, AudioQueue!Absent
<1>2. [A!Queue!Next]_(A!Queue!vars) => [AudioQueue!Next]_(AudioQueue!vars)
  BY DEF A!Queue!Next, AudioQueue!Next, A!Queue!vars, AudioQueue!vars,
         A!Queue!produce, AudioQueue!produce, A!Queue!ProduceWaits, AudioQueue!ProduceWaits,
         A!Queue!ProduceWrites, AudioQueue!ProduceWrites, A!Queue!Full, AudioQueue!Full,
         A!Queue!is_position_in_use, AudioQueue!is_position_in_use,
         A!Queue!slot_after, AudioQueue!slot_after, A!Queue!Consume, AudioQueue!Consume,
         A!Queue!consume, AudioQueue!consume, A!Queue!ConsumeWaits, AudioQueue!ConsumeWaits,
         A!Queue!ConsumeTakes, AudioQueue!ConsumeTakes,
         A!Queue!ConsumeExits, AudioQueue!ConsumeExits, A!Queue!Cursor, AudioQueue!Cursor,
         A!Queue!Absent, AudioQueue!Absent, A!Queue!Registered, AudioQueue!Registered,
         A!Queue!register_consumer, AudioQueue!register_consumer,
         A!Queue!Unregister, AudioQueue!Unregister,
         A!Queue!unregister_consumer, AudioQueue!unregister_consumer,
         A!Queue!set_exit, AudioQueue!set_exit, A!Queue!set_run, AudioQueue!set_run,
         A!Queue!SpuriousWakeup, AudioQueue!SpuriousWakeup
<1> QED
  BY <1>1, <1>2, PTL DEF A!Queue!Spec, AudioQueue!Spec

(* So each track's ring is to its sender what FrameFifos says                *)
(* (CircularQueue.h:30-101): no frame is missed while the stream runs, each  *)
(* is taken once, and the producer is held up only by a position a full ring *)
(* behind, an orphan included, whichever of the two tracks is started,       *)
(* stopped, paused or at its end first.                                      *)
THEOREM TracksAreServedByFifos ==
  Spec => VideoQueue!ImplementsFrameFifos /\ AudioQueue!ImplementsFrameFifos
<1>1. Capacity \in Nat \ {0} /\ NoFrame \notin {Frame}
  BY QueueAssumption
<1>2. VideoQueue!Spec => VideoQueue!ImplementsFrameFifos
  BY <1>1, VideoQueue!RingImplementsFifos
<1>3. AudioQueue!Spec => AudioQueue!ImplementsFrameFifos
  BY <1>1, AudioQueue!RingImplementsFifos
<1> QED
  BY <1>2, <1>3, QueuesAreUsedByTheirRules, SameVideoQueue, SameAudioQueue, PTL
     DEF UseTheQueuesByTheirRules
=============================================================================
