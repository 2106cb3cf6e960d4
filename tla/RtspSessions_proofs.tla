------------------------ MODULE RtspSessions_proofs -------------------------
(***************************************************************************)
(* Proofs about RtspSessions, in layers, each an invariant that the ones   *)
(* after it take for granted.                                              *)
(*                                                                         *)
(* For any connections, requests, ids and faults: the life of a Session    *)
(* (IInv), the types, what has a SessionHandler (HandlerInv), positions in *)
(* the queue (PositionInv, as long as no bind fails) and the senders that  *)
(* sleep there (SleepInv).  For clients with sessions of their own         *)
(* (OwnSessions): what a thread works on (OwnInv), registration (RegInv)   *)
(* and with it the rules that CircularQueue sets its users, start and stop *)
(* of the track (TrackInv), connections and what becomes of their sessions *)
(* (OwnerInv), and PLAY (PlayInv).                                         *)
(***************************************************************************)
EXTENDS RtspSessions, TLAPS

(* What is proved of every queue whose users keep its rules.                 *)
SessionQueueFacts == INSTANCE CircularQueue_proofs WITH
  Consumers <- SessionIds, Frames <- {Frame}, not_empty <- {id[o] : o \in not_empty}

(* Where a connection's thread needs the id of its session, holds a          *)
(* reference to it, and stops and destroys one; Late: after the sender has   *)
(* been joined for the last time.                                            *)
Named == {"setupExists", "setupGet", "create", "playExists", "playGet", "pauseExists",
          "pauseGet", "teardownExists", "terminate"}
Using == {"register", "attach", "release", "start", "activate", "trackStart", "trackOpen",
          "spawnProducer", "spawnSender", "pause"}
Late  == {"unregister", "noConsumer", "trackStop", "trackJoin", "trackClose", "destroy"}
Dying == Late \cup {"stop", "join", "erase"}

(* The types of what sessions and references are kept in.                    *)
TypeInv ==
  /\ sessions \in [SessionIds -> Objects \cup {NoObject}]
  /\ lock \in Connections \cup {NoConnection}
  /\ id \in [Objects -> SessionIds \cup {NoId}]
  /\ sender \in [Objects -> Threads]
  /\ pc \in [Connections -> Labels]
  /\ sid \in [Connections -> SessionIds \cup {NoId}]
  /\ own \in [Connections -> SessionIds \cup {NoId}]
  /\ ref \in [Connections -> Objects \cup {NoObject}]
  /\ dying \in [Connections -> Objects \cup {NoObject}]

(* What a thread has where.                                                  *)
PcInv == \A c \in Connections :
  /\ pc[c] \in Named => sid[c] \in SessionIds
  /\ pc[c] \in Using => ref[c] # NoObject
  /\ ref[c] # NoObject => pc[c] \in Using \cup Dying
  /\ pc[c] \in Dying <=> dying[c] # NoObject

(* A session that is terminated is in the table, under the mutex ...         *)
Held(c) ==
  /\ lock = c /\ pc[c] \in {"stop", "join", "erase"}
  /\ sessions[id[dying[c]]] = dying[c]
  /\ ref[c] = NoObject

(* ... and one that is destroyed is not, and nobody can get at it.           *)
Gone(c) ==
  /\ pc[c] # "erase"
  /\ sessions[id[dying[c]]] # dying[c]
  /\ \A d \in Connections : ref[d] # dying[c]

DyingInv ==
  /\ \A c \in Connections : dying[c] # NoObject => Live(dying[c]) /\ (Held(c) \/ Gone(c))
  /\ SessionIsDestroyedOnce

SenderInv ==
  /\ NoSenderOutlivesItsSession
  /\ \A c \in Connections : pc[c] \in Late => sender[dying[c]] = NoThread

IInv == TypeInv /\ PcInv /\ SessionsLiveWhileReferenced /\ DyingInv /\ SenderInv

-----------------------------------------------------------------------------
LEMMA InitOK == Init => IInv
<1> SUFFICES ASSUME Init PROVE IInv
  OBVIOUS
<1>1. /\ sessions = [s \in SessionIds |-> NoObject] /\ lock = NoConnection
      /\ id = [o \in Objects |-> NoId] /\ sender = [o \in Objects |-> NoThread]
      /\ pc = [c \in Connections |-> "closed"] /\ sid = [c \in Connections |-> NoId]
      /\ own = [c \in Connections |-> NoId]
      /\ ref = [c \in Connections |-> NoObject] /\ dying = [c \in Connections |-> NoObject]
  BY DEF Init
<1>2. TypeInv
  BY <1>1 DEF TypeInv, Threads, Labels
<1>3. PcInv
  BY <1>1 DEF PcInv, Named, Using, Late, Dying
<1>4. SessionsLiveWhileReferenced
  BY <1>1 DEF SessionsLiveWhileReferenced, Live
<1>5. DyingInv /\ SenderInv
  BY <1>1 DEF DyingInv, SessionIsDestroyedOnce, SenderInv, NoSenderOutlivesItsSession, Late
<1> QED
  BY <1>2, <1>3, <1>4, <1>5 DEF IInv

LEMMA NothingMoves ==
  ASSUME IInv, UNCHANGED <<sessions, lock, id, sender, pc, sid, own, ref, dying>>
  PROVE  IInv'
BY DEF IInv, TypeInv, PcInv, SessionsLiveWhileReferenced, DyingInv, SessionIsDestroyedOnce,
       SenderInv, NoSenderOutlivesItsSession, Live, Held, Gone

(* SIGPIPE ends the program and leaves every thread where it is.             *)
LEMMA KilledInPlace ==
  ASSUME IInv, NEW c \in Connections, SendKills(c)
  PROVE  \E l \in {"recv", "closing"} : pc' = [pc EXCEPT ![c] = l]
BY DEF IInv, TypeInv, SendKills, Crash, At

(* A thread goes on without touching the table, a session or a reference.    *)
LEMMA ThreadMoves ==
  ASSUME IInv, NEW c \in Connections, NEW l \in Labels,
         UNCHANGED <<sessions, lock, id, sender, ref, dying>>,
         pc' = [pc EXCEPT ![c] = l],
         sid' \in [Connections -> SessionIds \cup {NoId}],
         own' \in [Connections -> SessionIds \cup {NoId}],
         \A d \in Connections \ {c} : sid'[d] = sid[d],
         \/ /\ pc[c] \notin Using \cup Dying /\ l \notin Using \cup Dying
            /\ l \in Named => sid'[c] \in SessionIds
         \/ pc[c] \in Using /\ l \in Using
         \/ pc[c] = "stop" /\ l = "join"
         \/ pc[c] \in Late /\ l \in Late
  PROVE  IInv'
<1>1. TypeInv'
  BY DEF IInv, TypeInv
<1>2. /\ pc'[c] = l /\ \A d \in Connections \ {c} : pc'[d] = pc[d]
  BY DEF IInv, TypeInv
<1>3. \A x \in Using \cup Dying : x \notin Named
  BY DEF Named, Using, Dying, Late
<1>4. "stop" \in Dying /\ "join" \in Dying /\ Late \subseteq Dying
  BY DEF Dying
<1>5. "stop" \notin Late /\ "join" \notin Late /\ "erase" \notin Late
  BY DEF Late
<1>6. PcInv'
  <2>1. \A x \in Using : x \notin Dying
    BY DEF Using, Dying, Late
  <2>2. ASSUME NEW d \in Connections
        PROVE  /\ pc'[d] \in Named => sid'[d] \in SessionIds
               /\ pc'[d] \in Using => ref'[d] # NoObject
               /\ ref'[d] # NoObject => pc'[d] \in Using \cup Dying
               /\ pc'[d] \in Dying <=> dying'[d] # NoObject
    <3>1. CASE d # c
      BY <1>2, <3>1 DEF IInv, PcInv
    <3>2. CASE d = c
      BY <1>2, <1>3, <1>4, <2>1, <3>2 DEF IInv, PcInv
    <3> QED
      BY <3>1, <3>2
  <2> QED
    BY <2>2 DEF PcInv
<1>7. SessionsLiveWhileReferenced'
  BY DEF IInv, SessionsLiveWhileReferenced, Live
<1>8. DyingInv'
  <2>1. SessionIsDestroyedOnce'
    BY DEF IInv, DyingInv, SessionIsDestroyedOnce
  <2>2. ASSUME NEW d \in Connections, dying[d] # NoObject
        PROVE  Live(dying[d])' /\ (Held(d) \/ Gone(d))'
    <3>1. Live(dying[d]) /\ (Held(d) \/ Gone(d))
      BY <2>2 DEF IInv, DyingInv
    <3>2. CASE d # c
      BY <1>2, <3>1, <3>2 DEF Live, Held, Gone
    <3>3. CASE d = c
      <4>1. pc[c] \in Dying
        BY <2>2, <3>3 DEF IInv, PcInv
      <4>2. CASE pc[c] = "stop" /\ l = "join"
        BY <1>2, <3>1, <3>3, <4>2 DEF Live, Held, Gone
      <4>3. CASE pc[c] \in Late /\ l \in Late
        BY <1>2, <1>5, <3>1, <3>3, <4>3 DEF Live, Held, Gone, Late
      <4>4. pc[c] \notin Using
        BY <4>1 DEF Using, Dying, Late
      <4> QED
        BY <4>1, <4>2, <4>3, <4>4
    <3> QED
      BY <3>2, <3>3
  <2> QED
    BY <2>1, <2>2 DEF DyingInv
<1>9. SenderInv'
  <2>1. NoSenderOutlivesItsSession'
    BY DEF IInv, SenderInv, NoSenderOutlivesItsSession, Live
  <2>2. ASSUME NEW d \in Connections, pc'[d] \in Late PROVE pc[d] \in Late
    <3>1. CASE d = c
      <4>1. l \in Late
        BY <1>2, <2>2, <3>1
      <4>2. l \notin Using /\ l \in Dying /\ l # "join"
        BY <4>1 DEF Using, Late, Dying
      <4> QED
        BY <3>1, <4>1, <4>2
    <3> QED
      BY <1>2, <2>2, <3>1
  <2> QED
    BY <2>1, <2>2 DEF IInv, SenderInv
<1> QED
  BY <1>1, <1>6, <1>7, <1>8, <1>9 DEF IInv

(* The sender thread of a session that exists goes on.                       *)
LEMMA SenderMoves ==
  ASSUME IInv, NEW o \in Objects, NEW t \in Threads,
         UNCHANGED <<sessions, lock, id, pc, sid, own, ref, dying>>,
         sender' = [sender EXCEPT ![o] = t],
         t # NoThread => Live(o) /\ \A c \in Connections : pc[c] \in Late => dying[c] # o
  PROVE  IInv'
<1>1. TypeInv'
  BY DEF IInv, TypeInv
<1>2. PcInv' /\ SessionsLiveWhileReferenced' /\ DyingInv'
  BY DEF IInv, PcInv, SessionsLiveWhileReferenced, DyingInv, SessionIsDestroyedOnce,
         Live, Held, Gone
<1>3. \A p \in Objects : sender'[p] = IF p = o THEN t ELSE sender[p]
  BY DEF IInv, TypeInv
<1>4. NoSenderOutlivesItsSession'
  BY <1>3 DEF IInv, SenderInv, NoSenderOutlivesItsSession, Live
<1>5. ASSUME NEW c \in Connections, pc[c] \in Late PROVE sender'[dying[c]] = NoThread
  <2>1. dying[c] \in Objects
    BY <1>5 DEF IInv, TypeInv, PcInv, Dying
  <2> QED
    BY <1>3, <1>5, <2>1 DEF IInv, SenderInv
<1> QED
  BY <1>1, <1>2, <1>4, <1>5 DEF IInv, SenderInv

-----------------------------------------------------------------------------
(* The steps that only move a thread.                                        *)
LEMMA QuietStep ==
  ASSUME IInv, NEW c \in Connections,
         \/ Accept(c) \/ Disconnect(c) \/ SendKills(c) \/ CloseConnection(c)
         \/ \E m \in Methods : \E s \in SessionIds \cup {NoId} : Receive(c, m, s)
         \/ SetupNames(c) \/ SetupTestsExists(c)
         \/ RegisterSession(c) \/ AttachHandler(c) \/ BindFails(c)
         \/ PlayTestsExists(c) \/ StartSession(c) \/ ActivateSession(c)
         \/ StartTrack(c) \/ OpenTrack(c) \/ OpenFails(c) \/ SpawnProducer(c)
         \/ PauseTestsExists(c) \/ PauseSession(c) \/ TeardownTestsExists(c)
         \/ StopSession(c) \/ UnregisterSession(c) \/ TestNoConsumer(c)
         \/ StopTrack(c) \/ JoinProducer(c) \/ CloseTrack(c)
  PROVE  IInv'
<1> DEFINE SessionsStay == UNCHANGED <<sessions, lock, id, sender, ref, dying>>
<1> USE DEF At, Goto, tableVars, sessionVars, localVars
<1>1. sid \in [Connections -> SessionIds \cup {NoId}] /\ own \in [Connections -> SessionIds \cup {NoId}]
  BY DEF IInv, TypeInv
<1>2. AfterRequest(c) \in {"closing", "recv"}
  BY DEF AfterRequest
(* Outside of any session. *)
<1>3. ASSUME NEW l \in Labels, SessionsStay, pc' = [pc EXCEPT ![c] = l],
             pc[c] \in {"closed", "recv", "closing"} \cup Named \cup {"setup"},
             l \notin Using \cup Dying,
             sid' \in [Connections -> SessionIds \cup {NoId}],
             own' \in [Connections -> SessionIds \cup {NoId}],
             \A d \in Connections \ {c} : sid'[d] = sid[d],
             l \in Named => sid'[c] \in SessionIds
      PROVE  IInv'
  <2>1. pc[c] \notin Using \cup Dying
    BY <1>3 DEF Named, Using, Dying, Late
  <2> QED
    BY <1>3, <2>1, ThreadMoves
<1>4. CASE Accept(c)
  <2>1. "recv" \in Labels /\ "recv" \notin Using \cup Dying \cup Named
    BY DEF Labels, Using, Dying, Late, Named
  <2> QED
    BY <1>1, <1>3, <1>4, <2>1 DEF Accept
<1>5. CASE Disconnect(c)
  <2>1. "closing" \in Labels /\ "closing" \notin Using \cup Dying \cup Named
    BY DEF Labels, Using, Dying, Late, Named
  <2> QED
    BY <1>1, <1>3, <1>5, <2>1 DEF Disconnect
<1>6. CASE CloseConnection(c)
  <2>1. {"closed", "terminate"} \subseteq Labels /\ "closed" \notin Named
        /\ \A l \in {"closed", "terminate"} : l \notin Using \cup Dying
    BY DEF Labels, Using, Dying, Late, Named
  <2>2. sid' = [sid EXCEPT ![c] = own[c]] /\ own' = [own EXCEPT ![c] = NoId]
    BY <1>6 DEF CloseConnection
  <2>3. CASE own[c] = NoId
    BY <1>1, <1>3, <1>6, <2>1, <2>2, <2>3 DEF CloseConnection
  <2>4. CASE own[c] # NoId
    BY <1>1, <1>3, <1>6, <2>1, <2>2, <2>4 DEF CloseConnection
  <2> QED
    BY <2>3, <2>4
<1>7. ASSUME NEW m \in Methods, NEW s \in SessionIds \cup {NoId}, Receive(c, m, s) PROVE IInv'
  <2>1. FirstLabel(m) \in {"setup", "playExists", "pauseExists", "teardownExists"}
        /\ (FirstLabel(m) # "setup" => m # "SETUP")
    BY DEF FirstLabel, Methods
  <2>2. \A l \in {"setup", "playExists", "pauseExists", "teardownExists"} :
          l \in Labels /\ l \notin Using \cup Dying
    BY DEF Labels, Using, Dying, Late
  <2>3. "setup" \notin Named
    BY DEF Named
  <2>4. sid' = [sid EXCEPT ![c] = s] /\ (s = NoId => m = "SETUP") /\ UNCHANGED own
        /\ SessionsStay /\ pc[c] = "recv" /\ pc' = [pc EXCEPT ![c] = FirstLabel(m)]
    BY <1>7 DEF Receive
  <2> HIDE DEF SessionsStay
  <2> QED
    BY <1>1, <1>3, <2>1, <2>2, <2>3, <2>4
<1>8. CASE SetupNames(c)
  <2>1. {"setupExists", "recv"} \subseteq Labels /\ "recv" \notin Named
        /\ \A l \in {"setupExists", "recv"} : l \notin Using \cup Dying
    BY DEF Labels, Using, Dying, Late, Named
  <2>2. PICK l \in {"setupExists", "recv"} : pc' = [pc EXCEPT ![c] = l]
    BY <1>8 DEF SetupNames
  <2>3. pc[c] = "setup" /\ SessionsStay
    BY <1>8 DEF SetupNames
  <2>4. /\ sid' \in [Connections -> SessionIds \cup {NoId}]
        /\ own' \in [Connections -> SessionIds \cup {NoId}]
        /\ \A d \in Connections \ {c} : sid'[d] = sid[d]
        /\ sid'[c] \in SessionIds
    <3>1. CASE sid[c] = NoId
      <4>1. PICK s \in NewIds[c] : sid' = [sid EXCEPT ![c] = s] /\ own' = [own EXCEPT ![c] = s]
        BY <1>8, <3>1 DEF SetupNames
      <4>2. s \in SessionIds
        BY NewIdsAssumption
      <4> QED
        BY <1>1, <4>1, <4>2
    <3>2. CASE sid[c] # NoId
      BY <1>1, <1>8, <3>2 DEF SetupNames
    <3> QED
      BY <3>1, <3>2
  <2> HIDE DEF SessionsStay
  <2> QED
    BY <1>3, <2>1, <2>2, <2>3, <2>4
<1>9. CASE SetupTestsExists(c) \/ PlayTestsExists(c) \/ PauseTestsExists(c) \/ TeardownTestsExists(c)
  <2>1. \A l \in {"setupGet", "create", "playGet", "pauseGet", "terminate", "recv", "closing"} :
          l \in Labels /\ l \notin Using \cup Dying
    BY DEF Labels, Using, Dying, Late
  <2>2. pc[c] \in Named /\ SessionsStay /\ UNCHANGED <<sid, own>>
    BY <1>9 DEF SetupTestsExists, PlayTestsExists, PauseTestsExists, TeardownTestsExists, Named
  <2>3. \E l \in {"setupGet", "create", "playGet", "pauseGet", "terminate", "recv", "closing"} :
          pc' = [pc EXCEPT ![c] = l]
    BY <1>2, <1>9 DEF SetupTestsExists, PlayTestsExists, PauseTestsExists, TeardownTestsExists
  <2>4. sid[c] \in SessionIds
    BY <2>2 DEF IInv, PcInv
  <2> HIDE DEF SessionsStay
  <2> QED
    BY <1>1, <1>3, <2>1, <2>2, <2>3, <2>4
(* With a reference to a session. *)
<1>10. ASSUME pc[c] \in Using, SessionsStay, UNCHANGED <<sid, own>>,
              \E l \in Using : pc' = [pc EXCEPT ![c] = l]
       PROVE  IInv'
  <2>1. PICK l \in Using : pc' = [pc EXCEPT ![c] = l]
    BY <1>10
  <2>2. l \in Labels
    BY DEF Using, Labels
  <2> QED
    BY <1>1, <1>10, <2>1, <2>2, ThreadMoves
<1>11. ASSUME \/ Crash("sender thread destroyed") \/ Crash("producer thread destroyed")
              \/ Crash("SIGPIPE")
       PROVE  IInv'
  BY <1>11, NothingMoves DEF Crash
<1>12. CASE RegisterSession(c) \/ BindFails(c) \/ StartSession(c) \/ ActivateSession(c)
              \/ StartTrack(c) \/ OpenTrack(c) \/ OpenFails(c) \/ PauseSession(c)
  <2>1. SessionsStay /\ UNCHANGED <<sid, own>>
    BY <1>12 DEF RegisterSession, BindFails, StartSession, ActivateSession, StartTrack,
                 OpenTrack, OpenFails, PauseSession
  <2>2. pc[c] \in Using /\ \E l \in Using : pc' = [pc EXCEPT ![c] = l]
    BY <1>12 DEF RegisterSession, BindFails, StartSession, ActivateSession, StartTrack,
                 OpenTrack, OpenFails, PauseSession, Using
  <2> QED
    BY <1>10, <2>1, <2>2
<1>13. CASE AttachHandler(c)
  <2>1. "attach" \in Using /\ "release" \in Using
    BY DEF Using
  <2> QED
    BY <1>10, <1>11, <1>13, <2>1 DEF AttachHandler
<1>14. CASE SpawnProducer(c)
  <2>1. "spawnProducer" \in Using /\ "spawnSender" \in Using
    BY DEF Using
  <2> QED
    BY <1>10, <1>11, <1>14, <2>1 DEF SpawnProducer
(* With a session to stop. *)
<1>15. CASE StopSession(c)
  <2>1. "join" \in Labels
    BY DEF Labels
  <2> QED
    BY <1>1, <1>15, <2>1, ThreadMoves DEF StopSession
<1>16. CASE UnregisterSession(c) \/ TestNoConsumer(c) \/ StopTrack(c) \/ JoinProducer(c) \/ CloseTrack(c)
  <2>1. SessionsStay /\ UNCHANGED <<sid, own>>
    BY <1>16 DEF UnregisterSession, TestNoConsumer, StopTrack, JoinProducer, CloseTrack
  <2>2. pc[c] \in Late /\ \E l \in Late : pc' = [pc EXCEPT ![c] = l]
    BY <1>16 DEF UnregisterSession, TestNoConsumer, StopTrack, JoinProducer, CloseTrack, Late
  <2>3. PICK l \in Late : pc' = [pc EXCEPT ![c] = l]
    BY <2>2
  <2>4. l \in Labels
    BY DEF Late, Labels
  <2> QED
    BY <1>1, <2>1, <2>2, <2>3, <2>4, ThreadMoves
<1>17. CASE SendKills(c)
  BY <1>11, <1>17 DEF SendKills
<1> QED
  BY <1>4, <1>5, <1>6, <1>7, <1>8, <1>9, <1>12, <1>13, <1>14, <1>15, <1>16, <1>17

-----------------------------------------------------------------------------
(* What the invariant says of a session somebody can get at.                 *)
LEMMA TableIsLive ==
  ASSUME IInv, NEW s \in SessionIds, sessions[s] # NoObject
  PROVE  /\ sessions[s] \in Objects /\ id[sessions[s]] = s /\ Live(sessions[s])
         /\ \A d \in Connections : ~Gone(d) \/ dying[d] # sessions[s]
BY NullsAssumption DEF IInv, TypeInv, SessionsLiveWhileReferenced, Live, Gone

LEMMA RefIsLive ==
  ASSUME IInv, NEW c \in Connections, ref[c] # NoObject
  PROVE  /\ ref[c] \in Objects /\ Live(ref[c])
         /\ \A d \in Connections : ~Gone(d) \/ dying[d] # ref[c]
BY DEF IInv, TypeInv, SessionsLiveWhileReferenced, Gone

LEMMA NobodyHolds ==
  ASSUME IInv, LockFree, NEW d \in Connections, dying[d] # NoObject
  PROVE  Gone(d) /\ Live(dying[d]) /\ dying[d] \in Objects
BY NullsAssumption DEF IInv, TypeInv, DyingInv, Held, LockFree

LEMMA Classes ==
  /\ \A l \in Named : l \notin Using /\ l \notin Dying
  /\ \A l \in Using : l \notin Dying /\ l \in Labels
  /\ \A l \in Dying : l \in Labels
  /\ Late \subseteq Dying
  /\ "register" \in Using /\ "release" \in Using /\ "spawnSender" \in Using
  /\ {"stop", "join", "erase"} \subseteq Dying
  /\ "stop" \notin Late /\ "join" \notin Late /\ "erase" \notin Late
  /\ {"create", "terminate", "setupGet", "playGet", "pauseGet"} \subseteq Named
  /\ "unregister" \in Late /\ "destroy" \in Late
BY DEF Named, Using, Dying, Late, Labels

LEMMA Afterwards ==
  ASSUME NEW c
  PROVE  /\ AfterRequest(c) \in Labels /\ AfterRequest(c) \notin Named
         /\ AfterRequest(c) \notin Using /\ AfterRequest(c) \notin Dying
         /\ AfterRequest(c) \notin Late
BY DEF AfterRequest, Labels, Named, Using, Dying, Late

LEMMA GetStep ==
  ASSUME IInv, NEW c \in Connections, GetSession(c)
  PROVE  IInv'
<1> DEFINE o == sessions[sid[c]]
<1>1. pc[c] \in Named /\ LockFree
  BY Classes DEF GetSession
<1>2. sid[c] \in SessionIds /\ ref[c] = NoObject /\ dying[c] = NoObject
  BY <1>1, Classes DEF IInv, PcInv
<1>3. CASE ~Exists(c)
  BY <1>3, NothingMoves DEF GetSession, Crash, tableVars, sessionVars, localVars
<1>4. CASE Exists(c)
  <2>1. /\ ref' = [ref EXCEPT ![c] = o]
        /\ pc' = [pc EXCEPT ![c] = AfterGet(pc[c])]
        /\ UNCHANGED <<sessions, lock, id, sender, sid, own, dying>>
    BY <1>4 DEF GetSession, Goto, tableVars, sessionVars
  <2>2. AfterGet(pc[c]) \in Using
    BY DEF GetSession, AfterGet, Using
  <2>3. o # NoObject /\ o \in Objects /\ Live(o) /\ \A d \in Connections : ~Gone(d) \/ dying[d] # o
    BY <1>2, <1>4, TableIsLive DEF Exists
  <2> HIDE DEF o
  <2>4. /\ ref'[c] = o /\ pc'[c] \in Using
        /\ \A d \in Connections \ {c} : ref'[d] = ref[d] /\ pc'[d] = pc[d]
    BY <2>1, <2>2 DEF IInv, TypeInv
  <2>5. TypeInv'
    BY <2>1, <2>2, <2>3, Classes DEF IInv, TypeInv
  <2>6. PcInv'
    BY <1>2, <2>1, <2>3, <2>4, Classes DEF IInv, PcInv
  <2>7. SessionsLiveWhileReferenced'
    BY <1>2, <2>1, <2>3, <2>4 DEF IInv, SessionsLiveWhileReferenced, Live
  <2>8. DyingInv'
    <3>1. ASSUME NEW d \in Connections, dying'[d] # NoObject
          PROVE  Live(dying[d])' /\ Gone(d)'
      <4>1. d # c /\ dying[d] # NoObject
        BY <1>2, <2>1, <3>1
      <4>2. Gone(d) /\ Live(dying[d])
        BY <1>1, <4>1, NobodyHolds
      <4> QED
        BY <2>1, <2>3, <2>4, <4>1, <4>2 DEF Gone, Live
    <3>2. SessionIsDestroyedOnce'
      BY <2>1 DEF IInv, DyingInv, SessionIsDestroyedOnce
    <3> QED
      BY <3>1, <3>2 DEF DyingInv
  <2>9. SenderInv'
    BY <2>1, <2>4, Classes DEF IInv, SenderInv, NoSenderOutlivesItsSession, Live
  <2> QED
    BY <2>5, <2>6, <2>7, <2>8, <2>9 DEF IInv
<1> QED
  BY <1>3, <1>4

LEMMA ReleaseStep ==
  ASSUME IInv, NEW c \in Connections, ReleaseSession(c)
  PROVE  IInv'
<1> DEFINE o == ref[c]
           last == sessions[id[o]] # o /\ ~SharedBeyond(c, o)
<1>1. pc[c] = "release"
  BY DEF ReleaseSession, At
<1>2. o # NoObject /\ dying[c] = NoObject
  BY <1>1, Classes DEF IInv, PcInv
<1>3. o \in Objects /\ Live(o) /\ \A d \in Connections : ~Gone(d) \/ dying[d] # o
  BY <1>2, RefIsLive
<1>4. ref' = [ref EXCEPT ![c] = NoObject] /\ UNCHANGED <<sessions, lock, id, sender, sid, own>>
  BY DEF ReleaseSession, tableVars, sessionVars
<1>5. ref'[c] = NoObject /\ \A d \in Connections \ {c} : ref'[d] = ref[d]
  BY <1>4 DEF IInv, TypeInv
<1>6. CASE ~last
  <2>1. pc' = [pc EXCEPT ![c] = AfterRequest(c)] /\ UNCHANGED dying
    BY <1>6 DEF ReleaseSession, Goto
  <2>2. pc'[c] = AfterRequest(c) /\ \A d \in Connections \ {c} : pc'[d] = pc[d]
    BY <2>1 DEF IInv, TypeInv
  <2>3. \A d \in Connections : ref'[d] = NoObject \/ ref'[d] = ref[d]
    BY <1>5
  <2>4. TypeInv'
    BY <1>4, <2>1, Afterwards DEF IInv, TypeInv
  <2>5. PcInv'
    BY <1>2, <1>4, <1>5, <2>1, <2>2, Afterwards DEF IInv, PcInv
  <2>6. SessionsLiveWhileReferenced'
    <3>1. ASSUME NEW p \in Objects, Live(p)
          PROVE  sessions[id[p]] = p \/ \E d \in Connections : p \in {ref'[d], dying[d]}
      <4>1. CASE p = o
        BY <1>5, <1>6, <4>1 DEF SharedBeyond
      <4>2. CASE p # o
        BY <1>5, <3>1, <4>2 DEF IInv, SessionsLiveWhileReferenced
      <4> QED
        BY <4>1, <4>2
    <3> QED
      BY <1>4, <2>1, <2>3, <3>1 DEF IInv, SessionsLiveWhileReferenced, Live
  <2>7. DyingInv'
    <3>1. ASSUME NEW d \in Connections, dying'[d] # NoObject
          PROVE  Live(dying[d])' /\ (Held(d) \/ Gone(d))'
      <4>1. d # c /\ dying[d] # NoObject
        BY <1>2, <2>1, <3>1
      <4>2. Live(dying[d]) /\ (Held(d) \/ Gone(d))
        BY <4>1 DEF IInv, DyingInv
      <4> QED
        BY <1>4, <2>1, <2>2, <2>3, <4>1, <4>2 DEF Held, Gone, Live
    <3>2. SessionIsDestroyedOnce'
      BY <2>1 DEF IInv, DyingInv, SessionIsDestroyedOnce
    <3> QED
      BY <3>1, <3>2 DEF DyingInv
  <2>8. SenderInv'
    BY <1>4, <2>1, <2>2, Afterwards DEF IInv, SenderInv, NoSenderOutlivesItsSession, Live
  <2> QED
    BY <2>4, <2>5, <2>6, <2>7, <2>8 DEF IInv
<1>7. CASE last
  <2>1. pc' = [pc EXCEPT ![c] = "stop"] /\ dying' = [dying EXCEPT ![c] = o]
    BY <1>7 DEF ReleaseSession, Goto
  <2>2. /\ pc'[c] = "stop" /\ dying'[c] = o
        /\ \A d \in Connections \ {c} : pc'[d] = pc[d] /\ dying'[d] = dying[d]
    BY <2>1 DEF IInv, TypeInv
  <2>3. \A d \in Connections : dying[d] # o
    BY <1>2, <1>3, <1>7 DEF IInv, DyingInv, Held
  <2>4. \A d \in Connections : ref'[d] # o
    BY <1>2, <1>5, <1>7 DEF SharedBeyond
  <2>5. TypeInv'
    BY <1>3, <1>4, <2>1, Classes DEF IInv, TypeInv
  <2>6. PcInv'
    BY <1>2, <1>4, <1>5, <2>2, Classes DEF IInv, PcInv
  <2>7. SessionsLiveWhileReferenced'
    <3>1. ASSUME NEW p \in Objects, Live(p)
          PROVE  sessions[id[p]] = p \/ \E d \in Connections : p \in {ref'[d], dying'[d]}
      <4>1. CASE p = o
        BY <2>2, <4>1
      <4>2. CASE p # o
        <5>1. CASE \E d \in Connections : p \in {ref[d], dying[d]}
          <6>1. PICK d \in Connections : p \in {ref[d], dying[d]}
            BY <5>1
          <6>2. d # c \/ p = dying[c]
            BY <4>2, <6>1
          <6>3. p # NoObject
            BY NullsAssumption
          <6> QED
            BY <1>2, <1>5, <2>2, <6>1, <6>2, <6>3
        <5> QED
          BY <3>1, <5>1 DEF IInv, SessionsLiveWhileReferenced
      <4> QED
        BY <4>1, <4>2
    <3> QED
      BY <1>4, <1>5, <3>1 DEF IInv, SessionsLiveWhileReferenced, Live
  <2>8. DyingInv'
    <3>1. ASSUME NEW d \in Connections, dying'[d] # NoObject
          PROVE  Live(dying[d])' /\ (Held(d) \/ Gone(d))'
      <4>1. CASE d = c
        BY <1>3, <1>4, <1>7, <2>2, <2>4, <4>1 DEF Gone, Live
      <4>2. CASE d # c
        <5>1. Live(dying[d]) /\ (Held(d) \/ Gone(d))
          BY <2>2, <3>1, <4>2 DEF IInv, DyingInv
        <5>2. dying'[d] = dying[d] /\ pc'[d] = pc[d] /\ ref'[d] = ref[d]
          BY <1>5, <2>2, <4>2
        <5>3. \A e \in Connections : ref'[e] = NoObject \/ ref'[e] = ref[e]
          BY <1>5
        <5>4. dying[d] # NoObject
          BY <3>1, <5>2
        <5> QED
          BY <1>4, <5>1, <5>2, <5>3, <5>4 DEF Held, Gone, Live
      <4> QED
        BY <4>1, <4>2
    <3>2. SessionIsDestroyedOnce'
      BY <2>2, <2>3 DEF IInv, DyingInv, SessionIsDestroyedOnce
    <3> QED
      BY <3>1, <3>2 DEF DyingInv
  <2>9. SenderInv'
    BY <1>4, <2>2, Classes DEF IInv, SenderInv, NoSenderOutlivesItsSession, Live
  <2> QED
    BY <2>5, <2>6, <2>7, <2>8, <2>9 DEF IInv
<1> QED
  BY <1>6, <1>7

(* start() gives the session a new sender thread: whoever holds a reference  *)
(* is not overtaken by the destruction of the session.                       *)
LEMMA SpawnStep ==
  ASSUME IInv, NEW c \in Connections, SpawnSender(c)
  PROVE  IInv'
<1> DEFINE o == ref[c]
<1>1. CASE Joinable(sender[o])
  BY <1>1, NothingMoves DEF SpawnSender, Crash, tableVars, sessionVars, localVars
<1>2. CASE ~Joinable(sender[o])
  <2>1. /\ pc[c] = "spawnSender" /\ pc' = [pc EXCEPT ![c] = "release"]
        /\ sender' = [sender EXCEPT ![o] = "loop"]
        /\ UNCHANGED <<sessions, lock, id, sid, own, ref, dying>>
    BY <1>2 DEF SpawnSender, At, Goto, tableVars, localVars
  <2>2. o # NoObject
    BY <2>1, Classes DEF IInv, PcInv
  <2>3. o \in Objects /\ Live(o) /\ \A d \in Connections : ~Gone(d) \/ dying[d] # o
    BY <2>2, RefIsLive
  <2> HIDE DEF o
  <2>4. pc'[c] = "release" /\ \A d \in Connections \ {c} : pc'[d] = pc[d]
    BY <2>1 DEF IInv, TypeInv
  <2>5. \A p \in Objects : sender'[p] = IF p = o THEN "loop" ELSE sender[p]
    BY <2>1 DEF IInv, TypeInv
  <2>6. TypeInv'
    BY <2>1, Classes DEF IInv, TypeInv, Threads
  <2>7. PcInv'
    BY <2>1, <2>4, Classes DEF IInv, PcInv
  <2>8. SessionsLiveWhileReferenced'
    BY <2>1 DEF IInv, SessionsLiveWhileReferenced, Live
  <2>9. dying[c] = NoObject
    BY <2>1, Classes DEF IInv, PcInv
  <2>10. DyingInv'
    BY <2>1, <2>4, <2>9 DEF IInv, DyingInv, SessionIsDestroyedOnce, Live, Held, Gone
  <2>11. SenderInv'
    <3>1. NoSenderOutlivesItsSession'
      BY <2>1, <2>3, <2>5 DEF IInv, SenderInv, NoSenderOutlivesItsSession, Live
    <3>2. ASSUME NEW d \in Connections, pc'[d] \in Late
          PROVE  sender'[dying[d]] = NoThread
      <4>1. pc[d] \in Late
        BY <2>4, <3>2, Classes
      <4>2. dying[d] \in Objects
        BY <4>1, Classes DEF IInv, TypeInv, PcInv
      <4>3. dying[d] # o
        BY <2>3, <4>1, <4>2, NullsAssumption DEF IInv, DyingInv, Held, Late
      <4> QED
        BY <2>5, <4>1, <4>2, <4>3 DEF IInv, SenderInv
    <3> QED
      BY <2>1, <3>1, <3>2 DEF SenderInv
  <2> QED
    BY <2>6, <2>7, <2>8, <2>10, <2>11 DEF IInv
<1> QED
  BY <1>1, <1>2

(* terminate_session() takes the mutex: nobody else is at a session of the   *)
(* table.                                                                    *)
LEMMA TerminateStep ==
  ASSUME IInv, NEW c \in Connections, TerminateSession(c)
  PROVE  IInv'
<1> DEFINE o == sessions[sid[c]]
<1>1. pc[c] = "terminate" /\ LockFree /\ UNCHANGED <<sessions, id, sender, sid, own, ref>>
  BY DEF TerminateSession, At, sessionVars
<1>2. sid[c] \in SessionIds /\ ref[c] = NoObject /\ dying[c] = NoObject
  BY <1>1, Classes DEF IInv, PcInv
<1>3. CASE ~Exists(c)
  <2>1. UNCHANGED <<lock, dying>> /\ pc' = [pc EXCEPT ![c] = AfterRequest(c)]
    BY <1>3 DEF TerminateSession, Goto
  <2>2. pc[c] \notin Using \cup Dying
    BY <1>1, Classes
  <2>3. sid \in [Connections -> SessionIds \cup {NoId}] /\ own \in [Connections -> SessionIds \cup {NoId}]
    BY DEF IInv, TypeInv
  <2> QED
    BY <1>1, <2>1, <2>2, <2>3, Afterwards, ThreadMoves
<1>4. CASE Exists(c)
  <2>1. /\ lock' = c /\ dying' = [dying EXCEPT ![c] = o] /\ pc' = [pc EXCEPT ![c] = "stop"]
    BY <1>4 DEF TerminateSession, Goto
  <2>2. /\ o # NoObject /\ o \in Objects /\ id[o] = sid[c] /\ Live(o)
        /\ \A d \in Connections : ~Gone(d) \/ dying[d] # o
    BY <1>2, <1>4, TableIsLive DEF Exists
  <2>3. sessions[id[o]] = o
    BY <2>2
  <2> HIDE DEF o
  <2>4. /\ pc'[c] = "stop" /\ dying'[c] = o
        /\ \A d \in Connections \ {c} : pc'[d] = pc[d] /\ dying'[d] = dying[d]
    BY <2>1 DEF IInv, TypeInv
  <2>5. TypeInv'
    BY <1>1, <2>1, <2>2, Classes DEF IInv, TypeInv
  <2>6. PcInv'
    BY <1>1, <1>2, <2>2, <2>4, Classes DEF IInv, PcInv
  <2>7. SessionsLiveWhileReferenced'
    <3>1. \A d \in Connections : dying'[d] = dying[d] \/ dying[d] = NoObject
      BY <1>2, <2>4
    <3> QED
      BY <1>1, <3>1, NullsAssumption DEF IInv, SessionsLiveWhileReferenced, Live
  <2>8. \A d \in Connections : dying[d] # NoObject => Gone(d) /\ Live(dying[d]) /\ dying[d] # o
    BY <1>1, <2>2, NobodyHolds
  <2>9. DyingInv'
    <3>1. ASSUME NEW d \in Connections, dying'[d] # NoObject
          PROVE  Live(dying[d])' /\ (Held(d) \/ Gone(d))'
      <4>1. CASE d = c
        BY <1>1, <1>2, <2>1, <2>2, <2>3, <2>4, <4>1 DEF Held, Live
      <4>2. CASE d # c
        BY <1>1, <2>4, <2>8, <3>1, <4>2 DEF Gone, Live
      <4> QED
        BY <4>1, <4>2
    <3>2. SessionIsDestroyedOnce'
      BY <2>2, <2>4, <2>8 DEF IInv, DyingInv, SessionIsDestroyedOnce
    <3> QED
      BY <3>1, <3>2 DEF DyingInv
  <2>10. SenderInv'
    BY <1>1, <2>4, Classes DEF IInv, SenderInv, NoSenderOutlivesItsSession, Live
  <2> QED
    BY <2>5, <2>6, <2>7, <2>9, <2>10 DEF IInv
<1> QED
  BY <1>3, <1>4

(* stop() joins the sender thread.                                           *)
LEMMA JoinStep ==
  ASSUME IInv, NEW c \in Connections, JoinSender(c)
  PROVE  IInv'
<1> DEFINE o == dying[c]
<1>1. /\ pc[c] = "join" /\ pc' = [pc EXCEPT ![c] = AfterJoin(o)]
      /\ sender' = [sender EXCEPT ![o] = NoThread]
      /\ UNCHANGED <<sessions, lock, id, sid, own, ref, dying>>
  BY DEF JoinSender, At, Goto, tableVars, localVars
<1>2. o # NoObject
  BY <1>1, Classes DEF IInv, PcInv
<1>3. o \in Objects /\ Live(o) /\ (Held(c) \/ Gone(c))
  BY <1>2 DEF IInv, TypeInv, DyingInv
<1>4. AfterJoin(o) \in {"erase", "unregister"}
      /\ (AfterJoin(o) = "erase" <=> sessions[id[o]] = o)
  BY DEF AfterJoin
<1>5. AfterJoin(o) \in Dying /\ "join" \in Dying
  BY <1>4, Classes
<1>6. pc'[c] = AfterJoin(o) /\ \A d \in Connections \ {c} : pc'[d] = pc[d]
  BY <1>1 DEF IInv, TypeInv
<1>7. \A p \in Objects : sender'[p] = IF p = o THEN NoThread ELSE sender[p]
  BY <1>1 DEF IInv, TypeInv
<1>8. TypeInv'
  BY <1>1, <1>5, Classes DEF IInv, TypeInv, Threads
<1>9. PcInv'
  BY <1>1, <1>2, <1>5, <1>6, Classes DEF IInv, PcInv
<1>10. SessionsLiveWhileReferenced'
  BY <1>1 DEF IInv, SessionsLiveWhileReferenced, Live
<1>11. DyingInv'
  <2>1. ASSUME NEW d \in Connections, dying[d] # NoObject
        PROVE  Live(dying[d])' /\ (Held(d) \/ Gone(d))'
    <3>1. CASE d = c
      BY <1>1, <1>3, <1>4, <1>6, <3>1 DEF Held, Gone, Live
    <3>2. CASE d # c
      BY <1>1, <1>6, <2>1, <3>2 DEF IInv, DyingInv, Held, Gone, Live
    <3> QED
      BY <3>1, <3>2
  <2> QED
    BY <1>1, <2>1 DEF IInv, DyingInv, SessionIsDestroyedOnce
<1>12. SenderInv'
  <2>1. NoSenderOutlivesItsSession'
    BY <1>1, <1>7 DEF IInv, SenderInv, NoSenderOutlivesItsSession, Live
  <2>2. ASSUME NEW d \in Connections, pc'[d] \in Late
        PROVE  sender'[dying[d]] = NoThread
    <3>1. CASE d = c
      BY <1>3, <1>7, <3>1
    <3>2. CASE d # c
      <4>1. pc[d] \in Late
        BY <1>6, <2>2, <3>2
      <4>2. dying[d] \in Objects
        BY <4>1, Classes DEF IInv, TypeInv, PcInv
      <4> QED
        BY <1>7, <4>1, <4>2 DEF IInv, SenderInv
    <3> QED
      BY <3>1, <3>2
  <2> QED
    BY <1>1, <2>1, <2>2 DEF SenderInv
<1> QED
  BY <1>8, <1>9, <1>10, <1>11, <1>12 DEF IInv

(* terminate_session() erases the session; if it held the last reference,    *)
(* the destructor begins.                                                    *)
LEMMA EraseStep ==
  ASSUME IInv, NEW c \in Connections, EraseSession(c)
  PROVE  IInv'
<1> DEFINE o == dying[c]
<1>1. /\ pc[c] = "erase" /\ sessions' = [sessions EXCEPT ![id[o]] = NoObject]
      /\ UNCHANGED <<id, sender, sid, own, ref>>
  BY DEF EraseSession, At, sessionVars
<1>2. o # NoObject
  BY <1>1, Classes DEF IInv, PcInv
<1>3. o \in Objects /\ Live(o) /\ Held(c) /\ id[o] \in SessionIds
  BY <1>1, <1>2 DEF IInv, TypeInv, DyingInv, Gone, Live
<1>4. lock = c /\ sessions[id[o]] = o /\ ref[c] = NoObject
  BY <1>3 DEF Held
<1>5. \A d \in Connections \ {c} :
        dying[d] # NoObject => Gone(d) /\ Live(dying[d]) /\ dying[d] # o
  BY <1>2, <1>4 DEF IInv, DyingInv, SessionIsDestroyedOnce, Held
<1>6. \A s \in SessionIds : sessions'[s] = IF s = id[o] THEN NoObject ELSE sessions[s]
  BY <1>1 DEF IInv, TypeInv
<1>7. \A d \in Connections \ {c} : dying[d] # NoObject =>
        id[dying[d]] \in SessionIds /\ dying[d] \in Objects
  BY <1>5 DEF IInv, TypeInv, Live
<1>8. ASSUME NEW p \in Objects, Live(p), p # o
      PROVE  sessions'[id[p]] = p \/ \E d \in Connections \ {c} : p \in {ref[d], dying[d]}
  <2>1. CASE sessions[id[p]] = p
    <3>1. id[p] \in SessionIds /\ id[p] # id[o]
      BY <1>4, <1>8, <2>1 DEF IInv, TypeInv, Live
    <3> QED
      BY <1>6, <2>1, <3>1
  <2>2. CASE \E d \in Connections : p \in {ref[d], dying[d]}
    BY <1>4, <1>8, <2>2, NullsAssumption
  <2> QED
    BY <1>8, <2>1, <2>2 DEF IInv, SessionsLiveWhileReferenced
<1>9. CASE SharedBeyond(c, o)
  <2>1. /\ lock' = NoConnection /\ dying' = [dying EXCEPT ![c] = NoObject]
        /\ pc' = [pc EXCEPT ![c] = AfterRequest(c)]
    BY <1>9 DEF EraseSession, Goto
  <2>2. /\ pc'[c] = AfterRequest(c) /\ dying'[c] = NoObject
        /\ \A d \in Connections \ {c} : pc'[d] = pc[d] /\ dying'[d] = dying[d]
    BY <2>1 DEF IInv, TypeInv
  <2> HIDE DEF o
  <2>3. TypeInv'
    BY <1>1, <2>1, Afterwards DEF IInv, TypeInv
  <2>4. PcInv'
    BY <1>1, <1>4, <2>2, Afterwards DEF IInv, PcInv
  <2>5. SessionsLiveWhileReferenced'
    <3>1. \A p \in Objects : Live(p) =>
            sessions'[id[p]] = p \/ \E d \in Connections : p \in {ref[d], dying'[d]}
      BY <1>8, <1>9, <2>2 DEF SharedBeyond
    <3> QED
      BY <1>1, <1>6, <3>1 DEF IInv, SessionsLiveWhileReferenced, Live
  <2>6. DyingInv'
    <3>1. ASSUME NEW d \in Connections, dying'[d] # NoObject
          PROVE  Live(dying[d])' /\ Gone(d)'
      <4>1. d # c /\ dying[d] # NoObject
        BY <2>2, <3>1
      <4>2. sessions'[id[dying[d]]] # dying[d]
        BY <1>5, <1>6, <1>7, <4>1, NullsAssumption DEF Gone
      <4> QED
        BY <1>1, <1>5, <2>2, <4>1, <4>2 DEF Gone, Live
    <3>2. SessionIsDestroyedOnce'
      BY <2>2 DEF IInv, DyingInv, SessionIsDestroyedOnce
    <3> QED
      BY <3>1, <3>2 DEF DyingInv
  <2>7. SenderInv'
    BY <1>1, <2>2, Afterwards DEF IInv, SenderInv, NoSenderOutlivesItsSession, Live
  <2> QED
    BY <2>3, <2>4, <2>5, <2>6, <2>7 DEF IInv
<1>10. CASE ~SharedBeyond(c, o)
  <2>1. UNCHANGED <<lock, dying>> /\ pc' = [pc EXCEPT ![c] = "stop"]
    BY <1>10 DEF EraseSession, Goto
  <2>2. pc'[c] = "stop" /\ \A d \in Connections \ {c} : pc'[d] = pc[d]
    BY <2>1 DEF IInv, TypeInv
  <2>3. TypeInv'
    BY <1>1, <2>1, Classes DEF IInv, TypeInv
  <2>4. PcInv'
    BY <1>1, <1>2, <1>4, <2>1, <2>2, Classes DEF IInv, PcInv
  <2>5. SessionsLiveWhileReferenced'
    <3>1. \A p \in Objects : Live(p) =>
            sessions'[id[p]] = p \/ \E d \in Connections : p \in {ref[d], dying[d]}
      BY <1>8
    <3> QED
      BY <1>1, <1>6, <2>1, <3>1 DEF IInv, SessionsLiveWhileReferenced, Live
  <2>6. DyingInv'
    <3>1. ASSUME NEW d \in Connections, dying[d] # NoObject
          PROVE  Live(dying[d])' /\ Gone(d)'
      <4>1. CASE d = c
        <5>1. \A e \in Connections : ref[e] # o
          BY <1>2, <1>4, <1>10 DEF SharedBeyond
        <5>2. sessions'[id[o]] # o
          BY <1>2, <1>3, <1>6
        <5> QED
          BY <1>1, <1>3, <2>1, <2>2, <4>1, <5>1, <5>2 DEF Gone, Live
      <4>2. CASE d # c
        <5>1. sessions'[id[dying[d]]] # dying[d]
          BY <1>5, <1>6, <1>7, <3>1, <4>2, NullsAssumption DEF Gone
        <5> QED
          BY <1>1, <1>5, <2>1, <2>2, <3>1, <4>2, <5>1 DEF Gone, Live
      <4> QED
        BY <4>1, <4>2
    <3> QED
      BY <2>1, <3>1 DEF IInv, DyingInv, SessionIsDestroyedOnce
  <2>7. SenderInv'
    BY <1>1, <2>1, <2>2, Classes DEF IInv, SenderInv, NoSenderOutlivesItsSession, Live
  <2> QED
    BY <2>3, <2>4, <2>5, <2>6, <2>7 DEF IInv
<1> QED
  BY <1>9, <1>10

(* ~Session ends: nothing refers to the storage any more.                    *)
LEMMA DestroyStep ==
  ASSUME IInv, NEW c \in Connections, DestroySession(c)
  PROVE  IInv'
<1> DEFINE o    == dying[c]
           next == IF ref[c] # NoObject THEN "register" ELSE AfterRequest(c)
<1>1. /\ pc[c] = "destroy" /\ pc' = [pc EXCEPT ![c] = next]
      /\ id' = [id EXCEPT ![o] = NoId] /\ dying' = [dying EXCEPT ![c] = NoObject]
      /\ lock' = IF lock = c THEN NoConnection ELSE lock
      /\ UNCHANGED <<sessions, sender, sid, own, ref>>
  BY DEF DestroySession, At, Goto
<1>2. o # NoObject
  BY <1>1, Classes DEF IInv, PcInv
<1>3. o \in Objects /\ Live(o) /\ Gone(c) /\ sender[o] = NoThread
  BY <1>1, <1>2, Classes DEF IInv, TypeInv, DyingInv, Held, SenderInv
<1>4. /\ next \in Labels /\ next \notin Named /\ next \notin Dying
      /\ (next \in Using <=> ref[c] # NoObject)
  BY Classes, Afterwards
<1> HIDE DEF next
<1>5. /\ pc'[c] = next /\ dying'[c] = NoObject
      /\ \A d \in Connections \ {c} : pc'[d] = pc[d] /\ dying'[d] = dying[d]
  BY <1>1 DEF IInv, TypeInv
<1>6. \A p \in Objects : id'[p] = IF p = o THEN NoId ELSE id[p]
  BY <1>1 DEF IInv, TypeInv
<1>7. \A d \in Connections \ {c} : dying[d] # o
  BY <1>2 DEF IInv, DyingInv, SessionIsDestroyedOnce
<1>8. TypeInv'
  BY <1>1, <1>4 DEF IInv, TypeInv
<1>9. PcInv'
  BY <1>1, <1>4, <1>5 DEF IInv, PcInv
<1>10. SessionsLiveWhileReferenced'
  <2>1. ASSUME NEW d \in Connections, ref[d] # NoObject PROVE Live(ref[d])'
    BY <1>3, <1>6, <2>1, <1>1, RefIsLive DEF Live, Gone
  <2>2. ASSUME NEW s \in SessionIds, sessions[s] # NoObject PROVE id'[sessions[s]] = s
    <3>1. sessions[s] \in Objects /\ id[sessions[s]] = s
      BY <2>2, TableIsLive
    <3>2. sessions[s] # o
      BY <1>3, <3>1 DEF Gone
    <3> QED
      BY <1>6, <3>1, <3>2
  <2>3. ASSUME NEW p \in Objects, id'[p] # NoId
        PROVE  sessions[id'[p]] = p \/ \E d \in Connections : p \in {ref[d], dying'[d]}
    <3>1. p # o /\ id'[p] = id[p] /\ Live(p)
      BY <1>6, <2>3 DEF Live
    <3>2. ASSUME NEW d \in Connections, p \in {ref[d], dying[d]}
          PROVE  p \in {ref[d], dying'[d]}
      BY <1>5, <3>1, <3>2
    <3> QED
      BY <3>1, <3>2 DEF IInv, SessionsLiveWhileReferenced
  <2> QED
    BY <1>1, <2>1, <2>2, <2>3 DEF SessionsLiveWhileReferenced, Live
<1>11. DyingInv'
  <2>1. ASSUME NEW d \in Connections, dying'[d] # NoObject
        PROVE  Live(dying[d])' /\ (Held(d) \/ Gone(d))'
    <3>1. d # c /\ dying[d] # NoObject
      BY <1>5, <2>1
    <3>2. Live(dying[d]) /\ (Held(d) \/ Gone(d)) /\ dying[d] \in Objects
      BY <3>1 DEF IInv, DyingInv, TypeInv
    <3>3. id'[dying[d]] = id[dying[d]] /\ dying'[d] = dying[d] /\ pc'[d] = pc[d]
      BY <1>5, <1>6, <1>7, <3>1, <3>2
    <3>4. lock = d => lock' = d
      BY <1>1, <3>1
    <3> QED
      BY <1>1, <3>2, <3>3, <3>4 DEF Held, Gone, Live
  <2>2. SessionIsDestroyedOnce'
    BY <1>5 DEF IInv, DyingInv, SessionIsDestroyedOnce
  <2> QED
    BY <2>1, <2>2 DEF DyingInv
<1>12. SenderInv'
  <2>1. NoSenderOutlivesItsSession'
    BY <1>1, <1>3, <1>6 DEF IInv, SenderInv, NoSenderOutlivesItsSession, Live
  <2>2. next \notin Late
    BY <1>4, Classes
  <2> QED
    BY <1>1, <1>5, <2>1, <2>2 DEF IInv, SenderInv
<1> QED
  BY <1>8, <1>9, <1>10, <1>11, <1>12 DEF IInv

(* create_session() puts a new session into the table.  One that got there   *)
(* since session_exists() lives on while a handler refers to it.             *)
LEMMA CreateStep ==
  ASSUME IInv, NEW c \in Connections, CreateSession(c)
  PROVE  IInv'
<1> DEFINE o   == FreshObject
           s   == sid[c]
           old == sessions[s]
           destroys == old # NoObject /\ ~SharedBeyond(c, old)
<1>1. /\ pc[c] = "create" /\ LockFree
      /\ id' = [id EXCEPT ![o] = s] /\ sessions' = [sessions EXCEPT ![s] = o]
      /\ ref' = [ref EXCEPT ![c] = o]
      /\ lock' = IF destroys THEN c ELSE lock
      /\ dying' = IF destroys THEN [dying EXCEPT ![c] = old] ELSE dying
      /\ pc' = [pc EXCEPT ![c] = IF destroys THEN "stop" ELSE "register"]
      /\ UNCHANGED <<sender, sid, own>>
  BY DEF CreateSession, At, Goto
<1>2. o \in Objects /\ id[o] = NoId
  BY DEF CreateSession, FreshObject
<1>3. s \in SessionIds /\ s # NoId /\ ref[c] = NoObject /\ dying[c] = NoObject
  BY <1>1, Classes, NullsAssumption DEF IInv, PcInv
<1>4. o # NoObject /\ ~Live(o)
  BY <1>2, NullsAssumption DEF Live
<1>5. /\ \A d \in Connections : ref[d] # o /\ dying[d] # o
      /\ \A t \in SessionIds : sessions[t] # o
  BY <1>4, TableIsLive DEF IInv, SessionsLiveWhileReferenced, DyingInv
<1>6. \A d \in Connections : dying[d] # NoObject =>
        /\ Gone(d) /\ Live(dying[d]) /\ dying[d] \in Objects /\ id[dying[d]] \in SessionIds
        /\ d # c
  BY <1>1, <1>3, NobodyHolds DEF IInv, TypeInv, Live
<1>7. old # NoObject =>
        /\ old \in Objects /\ id[old] = s /\ Live(old)
        /\ \A d \in Connections : dying[d] # old
  BY <1>3, <1>6, TableIsLive
<1> HIDE DEF o, s, destroys, old
<1>8. \A p \in Objects : id'[p] = IF p = o THEN s ELSE id[p]
  BY <1>1 DEF IInv, TypeInv
<1>9. \A t \in SessionIds : sessions'[t] = IF t = s THEN o ELSE sessions[t]
  BY <1>1 DEF IInv, TypeInv
<1>10. /\ ref'[c] = o /\ \A d \in Connections \ {c} : ref'[d] = ref[d]
       /\ pc'[c] = IF destroys THEN "stop" ELSE "register"
       /\ \A d \in Connections \ {c} : pc'[d] = pc[d]
  BY <1>1 DEF IInv, TypeInv
<1>11. /\ dying'[c] = IF destroys THEN old ELSE NoObject
       /\ \A d \in Connections \ {c} : dying'[d] = dying[d]
  BY <1>1, <1>3 DEF IInv, TypeInv
<1>12. TypeInv'
  <2>1. {"stop", "register"} \subseteq Labels
    BY DEF Labels
  <2>2. destroys => old \in Objects
    BY <1>7 DEF destroys
  <2> QED
    BY <1>1, <1>2, <1>3, <2>1, <2>2 DEF IInv, TypeInv
<1>13. PcInv'
  <2>1. ASSUME NEW d \in Connections
        PROVE  /\ pc'[d] \in Named => sid'[d] \in SessionIds
               /\ pc'[d] \in Using => ref'[d] # NoObject
               /\ ref'[d] # NoObject => pc'[d] \in Using \cup Dying
               /\ pc'[d] \in Dying <=> dying'[d] # NoObject
    <3>1. CASE d # c
      BY <1>1, <1>10, <1>11, <3>1 DEF IInv, PcInv
    <3>2. CASE d = c /\ destroys
      BY <1>4, <1>10, <1>11, <3>2, Classes DEF destroys
    <3>3. CASE d = c /\ ~destroys
      BY <1>4, <1>10, <1>11, <3>3, Classes
    <3> QED
      BY <3>1, <3>2, <3>3
  <2> QED
    BY <2>1 DEF PcInv
<1>14. SessionsLiveWhileReferenced'
  <2>1. ASSUME NEW d \in Connections, ref'[d] # NoObject PROVE id'[ref'[d]] # NoId
    <3>1. CASE d = c
      BY <1>2, <1>3, <1>8, <1>10, <3>1
    <3>2. CASE d # c
      BY <1>5, <1>8, <1>10, <2>1, <3>2, RefIsLive DEF Live
    <3> QED
      BY <3>1, <3>2
  <2>2. ASSUME NEW t \in SessionIds, sessions'[t] # NoObject PROVE id'[sessions'[t]] = t
    <3>1. CASE t = s
      BY <1>2, <1>8, <1>9, <3>1
    <3>2. CASE t # s
      BY <1>5, <1>8, <1>9, <2>2, <3>2, TableIsLive
    <3> QED
      BY <3>1, <3>2
  <2>3. ASSUME NEW p \in Objects, id'[p] # NoId
        PROVE  sessions'[id'[p]] = p \/ \E d \in Connections : p \in {ref'[d], dying'[d]}
    <3>1. CASE p = o
      BY <1>10, <3>1
    <3>2. CASE p = old /\ p # o
      <4>1. p # NoObject
        BY NullsAssumption
      <4>2. CASE destroys
        BY <1>11, <3>2, <4>2
      <4>3. CASE ~destroys
        <5>1. PICK d \in Connections \ {c} : ref[d] = p
          BY <3>2, <4>1, <4>3 DEF destroys, SharedBeyond
        <5> QED
          BY <1>10, <5>1
      <4> QED
        BY <4>2, <4>3
    <3>3. CASE p # old /\ p # o
      <4>1. id'[p] = id[p] /\ Live(p) /\ id[p] \in SessionIds
        BY <1>8, <2>3, <3>3 DEF IInv, TypeInv, Live
      <4>2. CASE sessions[id[p]] = p
        BY <1>9, <3>3, <4>1, <4>2 DEF old
      <4>3. CASE \E d \in Connections : p \in {ref[d], dying[d]}
        <5>1. PICK d \in Connections : p \in {ref[d], dying[d]}
          BY <4>3
        <5>2. d # c
          BY <1>3, <5>1, NullsAssumption
        <5> QED
          BY <1>10, <1>11, <5>1, <5>2
      <4> QED
        BY <4>1, <4>2, <4>3 DEF IInv, SessionsLiveWhileReferenced
    <3> QED
      BY <3>1, <3>2, <3>3
  <2> QED
    BY <2>1, <2>2, <2>3 DEF SessionsLiveWhileReferenced, Live
<1>15. DyingInv'
  <2>1. ASSUME NEW d \in Connections, dying'[d] # NoObject
        PROVE  Live(dying[d])' /\ Gone(d)'
    <3>1. CASE d # c
      <4>1. dying'[d] = dying[d] /\ dying[d] # NoObject
        BY <1>11, <2>1, <3>1
      <4>2. Gone(d) /\ Live(dying[d]) /\ dying[d] \in Objects /\ id[dying[d]] \in SessionIds
            /\ dying[d] # o
        BY <1>5, <1>6, <4>1
      <4>3. id'[dying[d]] = id[dying[d]] /\ sessions'[id[dying[d]]] # dying[d]
        BY <1>8, <1>9, <4>2 DEF Gone
      <4>4. \A e \in Connections : ref'[e] # dying[d]
        BY <1>10, <4>2 DEF Gone
      <4> QED
        BY <1>10, <3>1, <4>1, <4>2, <4>3, <4>4 DEF Gone, Live
    <3>2. CASE d = c
      <4>1. destroys /\ dying'[c] = old
        BY <1>11, <2>1, <3>2
      <4>2. old \in Objects /\ id[old] = s /\ Live(old) /\ old # o
        BY <1>4, <1>7, <4>1 DEF destroys
      <4>3. id'[old] = s /\ sessions'[s] = o
        BY <1>3, <1>8, <1>9, <4>2
      <4>4. \A e \in Connections : ref'[e] # old
        BY <1>10, <4>1, <4>2 DEF destroys, SharedBeyond
      <4> QED
        BY <1>3, <1>10, <3>2, <4>1, <4>2, <4>3, <4>4 DEF Gone, Live
    <3> QED
      BY <3>1, <3>2
  <2>2. SessionIsDestroyedOnce'
    <3>1. destroys => \A d \in Connections : dying[d] # old
      BY <1>7 DEF destroys
    <3>2. destroys => old # NoObject
      BY DEF destroys
    <3> QED
      BY <1>11, <3>1, <3>2 DEF IInv, DyingInv, SessionIsDestroyedOnce
  <2> QED
    BY <2>1, <2>2 DEF DyingInv
<1>16. SenderInv'
  <2>1. NoSenderOutlivesItsSession'
    BY <1>1, <1>3, <1>8 DEF IInv, SenderInv, NoSenderOutlivesItsSession, Live
  <2>2. ASSUME NEW d \in Connections, pc'[d] \in Late
        PROVE  sender'[dying'[d]] = NoThread
    <3>1. d # c
      BY <1>10, <2>2, Classes
    <3> QED
      BY <1>1, <1>10, <1>11, <2>2, <3>1 DEF IInv, SenderInv
  <2> QED
    BY <2>1, <2>2 DEF SenderInv
<1> QED
  BY <1>12, <1>13, <1>14, <1>15, <1>16 DEF IInv

-----------------------------------------------------------------------------
(* The other threads: a sender that runs belongs to a session that exists    *)
(* and that nobody has joined it for.                                        *)
LEMMA SenderStep ==
  ASSUME IInv, NEW o \in Objects, SenderRuns(o)
  PROVE  IInv'
<1> DEFINE Stay == UNCHANGED <<sessions, lock, id, pc, sid, own, ref, dying>>
<1>1. CASE SenderWaits(o)
  BY <1>1, NothingMoves DEF SenderWaits, tableVars, sessionVars, localVars
<1>2. CASE SenderTestsActive(o) \/ SenderGetsFrame(o)
  <2>1. Stay /\ sender[o] \in {"loop", "consume"}
    BY <1>2 DEF SenderTestsActive, SenderGetsFrame, tableVars, localVars
  <2>2. PICK t \in {"loop", "consume", "finished"} : sender' = [sender EXCEPT ![o] = t]
    BY <1>2 DEF SenderTestsActive, SenderGetsFrame
  <2>3. t \in Threads
    BY DEF Threads
  <2>4. sender[o] # NoThread
    BY <2>1 DEF NoThread
  <2>5. Live(o)
    BY <2>4 DEF IInv, SenderInv, NoSenderOutlivesItsSession
  <2>6. \A c \in Connections : pc[c] \in Late => dying[c] # o
    BY <2>4 DEF IInv, SenderInv
  <2> QED
    BY <2>1, <2>2, <2>3, <2>5, <2>6, SenderMoves
<1> QED
  BY <1>1, <1>2 DEF SenderRuns

LEMMA StepOK == IInv /\ [Next]_vars => IInv'
<1> SUFFICES ASSUME IInv, [Next]_vars PROVE IInv'
  OBVIOUS
<1>1. CASE UNCHANGED vars
  BY <1>1, NothingMoves DEF vars, tableVars, sessionVars, localVars
<1>2. CASE ProducerRuns
  BY <1>2, NothingMoves DEF ProducerRuns, tableVars, sessionVars, localVars
<1>3. ASSUME NEW o \in Objects, SenderRuns(o) PROVE IInv'
  BY <1>3, SenderStep
<1>4. ASSUME NEW c \in Connections,
             \/ Accept(c) \/ Disconnect(c) \/ SendKills(c) \/ ConnectionRuns(c)
             \/ \E m \in Methods : \E s \in SessionIds \cup {NoId} : Receive(c, m, s)
      PROVE  IInv'
  <2>1. CASE CreateSession(c)
    BY <2>1, CreateStep
  <2>2. CASE GetSession(c)
    BY <2>2, GetStep
  <2>3. CASE ReleaseSession(c)
    BY <2>3, ReleaseStep
  <2>4. CASE SpawnSender(c)
    BY <2>4, SpawnStep
  <2>5. CASE TerminateSession(c)
    BY <2>5, TerminateStep
  <2>6. CASE JoinSender(c)
    BY <2>6, JoinStep
  <2>7. CASE EraseSession(c)
    BY <2>7, EraseStep
  <2>8. CASE DestroySession(c)
    BY <2>8, DestroyStep
  <2> QED
    BY <1>4, <2>1, <2>2, <2>3, <2>4, <2>5, <2>6, <2>7, <2>8, QuietStep DEF ConnectionRuns
<1> QED
  BY <1>1, <1>2, <1>3, <1>4 DEF Next

LEMMA Invariance == Spec => []IInv
BY InitOK, StepOK, PTL DEF Spec

-----------------------------------------------------------------------------
(* A Session is never freed while the table or a request handler can reach   *)
(* it, and is never forgotten: whatever requests interleave, with TEARDOWN   *)
(* erasing a session in use and SETUP overwriting one in the table           *)
(* (SessionManager.cpp:8-13,29-38, ConnectionHandler.cpp:232-241).           *)
THEOREM LiveWhileReferenced == Spec => []SessionsLiveWhileReferenced
<1>1. IInv => SessionsLiveWhileReferenced
  BY DEF IInv
<1> QED
  BY <1>1, Invariance, PTL

(* Two threads never run Session::stop() or ~Session of one session at once: *)
(* terminate_session() keeps the mutex over stop() (SessionManager.cpp:30),  *)
(* and only the last reference destroys.                                     *)
THEOREM DestroyedOnce == Spec => []SessionIsDestroyedOnce
<1>1. IInv => SessionIsDestroyedOnce
  BY DEF IInv, DyingInv
<1> QED
  BY <1>1, Invariance, PTL

(* The sender thread of a session (Session.cpp:54-72) has been joined when   *)
(* ~Session returns, even when a PLAY that was already under way restarts it *)
(* after a TEARDOWN has stopped it: ~Session stops the session once more     *)
(* (Session.cpp:12-14).                                                      *)
THEOREM SendersEndFirst == Spec => []NoSenderOutlivesItsSession
<1>1. IInv => NoSenderOutlivesItsSession
  BY DEF IInv, SenderInv
<1> QED
  BY <1>1, Invariance, PTL

-----------------------------------------------------------------------------
(***************************************************************************)
(* Clients with sessions of their own. What a thread works on is then the  *)
(* session that its request names: it finds what session_exists() has      *)
(* seen, and nobody else refers to, stops or destroys that session.        *)
(***************************************************************************)
(* What a thread works on is the session its request names; it is in the     *)
(* table until that thread erases it, and is destroyed under the mutex.      *)
Own(c) ==
  /\ sid[c] \in SessionsOf(c) \cup {NoId} /\ own[c] \in SessionsOf(c) \cup {NoId}
  /\ ref[c] # NoObject => id[ref[c]] = sid[c] /\ sessions[sid[c]] = ref[c]
  /\ dying[c] # NoObject => lock = c /\ id[dying[c]] = sid[c] /\ ref[c] = NoObject
  /\ pc[c] \in {"setupGet", "playGet", "pauseGet"} => Exists(c)
  /\ pc[c] = "create" => ~Exists(c)

Unique == \A o, p \in Objects : Live(o) /\ id[o] = id[p] => o = p

OwnInv == Unique /\ \A c \in Connections : Own(c)

LEMMA OwnInit == Init => OwnInv
<1> SUFFICES ASSUME Init PROVE OwnInv
  OBVIOUS
<1>1. Unique
  BY DEF Init, Unique, Live
<1>2. ASSUME NEW c \in Connections PROVE Own(c)
  BY DEF Init, Own
<1> QED
  BY <1>1, <1>2 DEF OwnInv

LEMMA Apart ==
  ASSUME OwnSessions, OwnInv, NEW c \in Connections, NEW d \in Connections \ {c},
         sid[c] # NoId
  PROVE  sid[c] # sid[d]
BY DEF OwnSessions, OwnInv, Own

(* A session that bears the name c's request is about is c's.                *)
LEMMA Alone ==
  ASSUME OwnSessions, IInv, OwnInv, NEW c \in Connections, NEW o \in Objects,
         Live(o), id[o] = sid[c]
  PROVE  /\ ~SharedBeyond(c, o)
         /\ \A d \in Connections \ {c} : ref[d] # o /\ dying[d] # o
         /\ sessions[sid[c]] = o \/ ref[c] = o \/ dying[c] = o
<1>1. o # NoObject /\ sid[c] # NoId
  BY NullsAssumption DEF Live
<1>2. ASSUME NEW d \in Connections \ {c} PROVE ref[d] # o /\ dying[d] # o
  BY <1>1, Apart DEF OwnInv, Own
<1>3. sessions[sid[c]] = o \/ \E d \in Connections : o \in {ref[d], dying[d]}
  BY DEF IInv, SessionsLiveWhileReferenced
<1> QED
  BY <1>2, <1>3 DEF SharedBeyond

(* get_session() finds the session that session_exists() has seen.           *)
LEMMA GetFinds ==
  ASSUME IInv, OwnInv, NEW c \in Connections, GetSession(c)
  PROVE  /\ Exists(c) /\ sid[c] \in SessionIds /\ sessions[sid[c]] \in Objects
         /\ pc[c] \in {"setupGet", "playGet", "pauseGet"}
         /\ ref[c] = NoObject /\ dying[c] = NoObject
         /\ ref' = [ref EXCEPT ![c] = sessions[sid[c]]]
         /\ pc' = [pc EXCEPT ![c] = AfterGet(pc[c])]
         /\ UNCHANGED <<mediaVars, sessions, lock, id, handler, playing, sender, sid, own,
                        dying, crashed>>
<1>1. pc[c] \in {"setupGet", "playGet", "pauseGet"}
  BY DEF GetSession
<1>2. Exists(c)
  BY <1>1 DEF OwnInv, Own
<1>3. sid[c] \in SessionIds /\ ref[c] = NoObject /\ dying[c] = NoObject
  BY <1>1, Classes DEF IInv, PcInv
<1>4. sessions[sid[c]] \in Objects
  BY <1>2, <1>3, TableIsLive DEF Exists
<1> QED
  BY <1>1, <1>2, <1>3, <1>4 DEF GetSession, Goto, tableVars, sessionVars

(* A request that lets its session go is never the last to refer to it.      *)
LEMMA ReleaseGoesOn ==
  ASSUME IInv, OwnInv, NEW c \in Connections, ReleaseSession(c)
  PROVE  /\ pc[c] = "release" /\ pc' = [pc EXCEPT ![c] = AfterRequest(c)]
         /\ ref' = [ref EXCEPT ![c] = NoObject]
         /\ UNCHANGED <<mediaVars, sessions, lock, id, handler, playing, sender, sid, own,
                        dying, leaving, crashed>>
<1>1. pc[c] = "release" /\ ref[c] # NoObject
  BY Classes DEF ReleaseSession, At, IInv, PcInv
<1>2. sessions[id[ref[c]]] = ref[c]
  BY <1>1 DEF OwnInv, Own
<1> QED
  BY <1>1, <1>2 DEF ReleaseSession, Goto, tableVars, sessionVars

(* create_session() finds the table as session_exists() has left it.         *)
LEMMA CreateIsFirst ==
  ASSUME IInv, OwnInv, NEW c \in Connections, CreateSession(c)
  PROVE  /\ pc[c] = "create" /\ sessions[sid[c]] = NoObject /\ sid[c] \in SessionIds
         /\ ref[c] = NoObject /\ dying[c] = NoObject
         /\ FreshObject \in Objects /\ id[FreshObject] = NoId
         /\ id' = [id EXCEPT ![FreshObject] = sid[c]]
         /\ sessions' = [sessions EXCEPT ![sid[c]] = FreshObject]
         /\ ref' = [ref EXCEPT ![c] = FreshObject]
         /\ pc' = [pc EXCEPT ![c] = "register"]
         /\ UNCHANGED <<mediaVars, lock, dying, handler, playing, sender, sid, own, leaving,
                        crashed>>
<1>1. pc[c] = "create"
  BY DEF CreateSession, At
<1>2. sessions[sid[c]] = NoObject /\ sid[c] \in SessionIds /\ ref[c] = NoObject /\ dying[c] = NoObject
  BY <1>1, Classes DEF OwnInv, Own, Exists, IInv, PcInv
<1>3. FreshObject \in Objects /\ id[FreshObject] = NoId
  BY DEF CreateSession, FreshObject
<1> HIDE DEF FreshObject
<1> QED
  BY <1>1, <1>2, <1>3 DEF CreateSession, Goto

LEMMA EraseGoesOn ==
  ASSUME OwnSessions, IInv, OwnInv, NEW c \in Connections, EraseSession(c)
  PROVE  /\ pc[c] = "erase" /\ dying[c] \in Objects /\ id[dying[c]] = sid[c]
         /\ sid[c] \in SessionIds /\ ref[c] = NoObject /\ sessions[sid[c]] = dying[c]
         /\ sessions' = [sessions EXCEPT ![sid[c]] = NoObject]
         /\ pc' = [pc EXCEPT ![c] = "stop"]
         /\ UNCHANGED <<mediaVars, lock, id, dying, handler, playing, sender, sid, own, ref,
                        leaving, crashed>>
<1>1. pc[c] = "erase" /\ dying[c] # NoObject
  BY Classes DEF EraseSession, At, IInv, PcInv
<1>2. /\ dying[c] \in Objects /\ Live(dying[c]) /\ Held(c)
      /\ id[dying[c]] = sid[c] /\ ref[c] = NoObject /\ sid[c] \in SessionIds
  BY <1>1 DEF IInv, TypeInv, DyingInv, OwnInv, Own, Gone, Live
<1>3. ~SharedBeyond(c, dying[c])
  BY <1>2, Alone
<1> QED
  BY <1>1, <1>2, <1>3 DEF EraseSession, Goto, sessionVars, Held

LEMMA DestroyEnds ==
  ASSUME IInv, OwnInv, NEW c \in Connections, DestroySession(c)
  PROVE  /\ pc[c] = "destroy" /\ dying[c] \in Objects /\ id[dying[c]] = sid[c]
         /\ Live(dying[c]) /\ Gone(c) /\ sender[dying[c]] = NoThread
         /\ lock = c /\ ref[c] = NoObject /\ lock' = NoConnection
         /\ id' = [id EXCEPT ![dying[c]] = NoId]
         /\ handler' = [handler EXCEPT ![dying[c]] = FALSE]
         /\ dying' = [dying EXCEPT ![c] = NoObject]
         /\ pc' = [pc EXCEPT ![c] = AfterRequest(c)]
         /\ UNCHANGED <<mediaVars, sessions, playing, sender, sid, own, ref, leaving, crashed>>
<1>1. pc[c] = "destroy" /\ dying[c] # NoObject
  BY Classes DEF DestroySession, At, IInv, PcInv
<1>2. /\ dying[c] \in Objects /\ Live(dying[c]) /\ Gone(c) /\ sender[dying[c]] = NoThread
      /\ lock = c /\ ref[c] = NoObject /\ id[dying[c]] = sid[c]
  BY <1>1, Classes DEF IInv, TypeInv, DyingInv, SenderInv, Held, OwnInv, Own
<1> QED
  BY <1>1, <1>2 DEF DestroySession, Goto

(* The steps that leave the table, references and objects alone, and do not  *)
(* lead to where Own asks something of the table.                            *)
Plain(c) ==
  \/ Accept(c) \/ Disconnect(c) \/ SendKills(c)
  \/ RegisterSession(c) \/ AttachHandler(c) \/ BindFails(c)
  \/ StartSession(c) \/ ActivateSession(c) \/ StartTrack(c) \/ OpenTrack(c) \/ OpenFails(c)
  \/ SpawnProducer(c) \/ SpawnSender(c) \/ PauseSession(c) \/ TeardownTestsExists(c)
  \/ StopSession(c) \/ JoinSender(c) \/ UnregisterSession(c) \/ TestNoConsumer(c)
  \/ StopTrack(c) \/ JoinProducer(c) \/ CloseTrack(c)

Questions == {"setupGet", "playGet", "pauseGet", "create"}

LEMMA PlainSteps ==
  ASSUME NEW c \in Connections, Plain(c)
  PROVE  /\ UNCHANGED <<sessions, lock, id, sid, own, ref, dying>>
         /\ pc' = pc \/ \E l \in Labels \ Questions : pc' = [pc EXCEPT ![c] = l]
<1> USE DEF At, Goto, tableVars, sessionVars, localVars, Labels, Questions
<1>1. CASE Accept(c) \/ Disconnect(c) \/ RegisterSession(c) \/ BindFails(c) \/ StartSession(c)
             \/ ActivateSession(c) \/ StartTrack(c) \/ OpenTrack(c) \/ OpenFails(c)
  BY <1>1 DEF Accept, Disconnect, RegisterSession, BindFails, StartSession, ActivateSession,
              StartTrack, OpenTrack, OpenFails
<1>2. CASE SendKills(c) \/ AttachHandler(c) \/ SpawnProducer(c) \/ SpawnSender(c)
  BY <1>2 DEF SendKills, AttachHandler, SpawnProducer, SpawnSender, Crash
<1>3. CASE PauseSession(c) \/ TeardownTestsExists(c) \/ StopSession(c) \/ JoinSender(c)
  BY <1>3 DEF PauseSession, TeardownTestsExists, StopSession, JoinSender, AfterJoin, AfterRequest
<1>4. CASE UnregisterSession(c) \/ TestNoConsumer(c) \/ StopTrack(c) \/ JoinProducer(c) \/ CloseTrack(c)
  BY <1>4 DEF UnregisterSession, TestNoConsumer, StopTrack, JoinProducer, CloseTrack
<1> QED
  BY <1>1, <1>2, <1>3, <1>4 DEF Plain

LEMMA OwnStays ==
  ASSUME IInv, OwnInv, NEW c \in Connections,
         pc'[c] = pc[c], sid'[c] = sid[c], own'[c] = own[c], ref'[c] = ref[c],
         dying'[c] = dying[c],
         lock = c => lock' = c,
         sid[c] \in SessionIds => sessions'[sid[c]] = sessions[sid[c]],
         ref[c] # NoObject => id'[ref[c]] = id[ref[c]],
         dying[c] # NoObject => id'[dying[c]] = id[dying[c]]
  PROVE  Own(c)'
<1>1. Own(c)
  BY DEF OwnInv
<1>2. ref[c] # NoObject => sid[c] \in SessionIds
  BY <1>1, RefIsLive DEF Own, Live, IInv, TypeInv
<1>3. pc[c] \in Questions => sid[c] \in SessionIds
  BY DEF IInv, PcInv, Named, Questions
<1> QED
  BY <1>1, <1>2, <1>3 DEF Own, Exists, Questions

(* A step that leaves the table, references and objects alone.               *)
LEMMA OwnMoves ==
  ASSUME IInv, OwnInv, NEW c \in Connections, NEW l \in Labels,
         UNCHANGED <<sessions, lock, id, ref, dying>>,
         pc' = [pc EXCEPT ![c] = l],
         sid'[c] \in SessionsOf(c) \cup {NoId}, own'[c] \in SessionsOf(c) \cup {NoId},
         \A d \in Connections \ {c} : sid'[d] = sid[d] /\ own'[d] = own[d],
         sid'[c] = sid[c] \/ (ref[c] = NoObject /\ dying[c] = NoObject),
         l \in Questions => sid'[c] \in SessionIds /\ (l = "create" <=> sessions[sid'[c]] = NoObject)
  PROVE  OwnInv'
<1>1. pc'[c] = l /\ \A d \in Connections \ {c} : pc'[d] = pc[d]
  BY DEF IInv, TypeInv
<1>2. ASSUME NEW d \in Connections \ {c} PROVE Own(d)'
  BY <1>1, OwnStays
<1>3. Own(c)'
  BY <1>1 DEF OwnInv, Own, Exists, Questions
<1>4. Unique'
  BY DEF OwnInv, Unique, Live
<1> QED
  BY <1>2, <1>3, <1>4 DEF OwnInv

LEMMA OwnQuietStep ==
  ASSUME OwnSessions, IInv, OwnInv, NEW c \in Connections,
         \/ Plain(c) \/ CloseConnection(c) \/ SetupNames(c)
         \/ SetupTestsExists(c) \/ PlayTestsExists(c) \/ PauseTestsExists(c)
         \/ \E m \in Methods : \E s \in SessionIds \cup {NoId} : Receive(c, m, s)
  PROVE  OwnInv'
<1> USE DEF At, Goto, tableVars, sessionVars, localVars
<1>1. /\ sid[c] \in SessionsOf(c) \cup {NoId} /\ own[c] \in SessionsOf(c) \cup {NoId}
      /\ SessionsOf(c) \subseteq SessionIds
      /\ sid \in [Connections -> SessionIds \cup {NoId}] /\ own \in [Connections -> SessionIds \cup {NoId}]
  BY DEF OwnInv, Own, SessionsOf, IInv, TypeInv
<1>2. CASE Plain(c)
  <2>1. UNCHANGED <<sessions, lock, id, sid, own, ref, dying>>
    BY <1>2, PlainSteps
  <2>2. CASE pc' = pc
    <3>1. \A d \in Connections : Own(d)'
      BY <2>1, <2>2, OwnStays
    <3> QED
      BY <2>1, <3>1 DEF OwnInv, Unique, Live
  <2>3. ASSUME NEW l \in Labels \ Questions, pc' = [pc EXCEPT ![c] = l] PROVE OwnInv'
    BY <1>1, <2>1, <2>3, OwnMoves
  <2> QED
    BY <1>2, <2>2, <2>3, PlainSteps
<1>3. ASSUME pc[c] \notin Using \cup Dying PROVE ref[c] = NoObject /\ dying[c] = NoObject
  BY <1>3 DEF IInv, PcInv
<1>4. CASE CloseConnection(c)
  <2>1. {"closed", "terminate"} \subseteq Labels \ Questions
    BY DEF Labels, Questions
  <2>2. ref[c] = NoObject /\ dying[c] = NoObject
    BY <1>3, <1>4 DEF CloseConnection, Using, Dying, Late
  <2>3. /\ sid' = [sid EXCEPT ![c] = own[c]] /\ own' = [own EXCEPT ![c] = NoId]
        /\ UNCHANGED <<sessions, lock, id, ref, dying>>
    BY <1>4 DEF CloseConnection
  <2>4. PICK l \in {"closed", "terminate"} : pc' = [pc EXCEPT ![c] = l]
    BY <1>4 DEF CloseConnection
  <2> QED
    BY <1>1, <2>1, <2>2, <2>3, <2>4, OwnMoves
<1>5. CASE SetupNames(c)
  <2>1. {"setupExists", "recv"} \subseteq Labels \ Questions
    BY DEF Labels, Questions
  <2>2. ref[c] = NoObject /\ dying[c] = NoObject
    BY <1>3, <1>5 DEF SetupNames, Using, Dying, Late
  <2>3. UNCHANGED <<sessions, lock, id, ref, dying>>
    BY <1>5 DEF SetupNames
  <2>4. PICK l \in {"setupExists", "recv"} : pc' = [pc EXCEPT ![c] = l]
    BY <1>5 DEF SetupNames
  <2>5. /\ sid'[c] \in SessionsOf(c) \cup {NoId} /\ own'[c] \in SessionsOf(c) \cup {NoId}
        /\ \A d \in Connections \ {c} : sid'[d] = sid[d] /\ own'[d] = own[d]
    <3>1. CASE sid[c] = NoId
      <4>1. PICK s \in NewIds[c] : sid' = [sid EXCEPT ![c] = s] /\ own' = [own EXCEPT ![c] = s]
        BY <1>5, <3>1 DEF SetupNames
      <4>2. s \in SessionsOf(c)
        BY NewIdsAssumption DEF SessionsOf
      <4> QED
        BY <1>1, <4>1, <4>2
    <3>2. CASE sid[c] # NoId
      BY <1>1, <1>5, <3>2 DEF SetupNames
    <3> QED
      BY <3>1, <3>2
  <2> QED
    BY <2>1, <2>2, <2>3, <2>4, <2>5, OwnMoves
<1>6. CASE SetupTestsExists(c) \/ PlayTestsExists(c) \/ PauseTestsExists(c)
  <2>1. {"setupGet", "create", "playGet", "pauseGet", "recv"} \subseteq Labels
        /\ "recv" \notin Questions
    BY DEF Labels, Questions
  <2>2. pc[c] \in Named /\ UNCHANGED <<sessions, lock, id, ref, dying, sid, own>>
    BY <1>6 DEF SetupTestsExists, PlayTestsExists, PauseTestsExists, Named
  <2>3. PICK l \in {"setupGet", "create", "playGet", "pauseGet", "recv"} :
          pc' = [pc EXCEPT ![c] = l] /\ (l = "create" => ~Exists(c))
          /\ (l \notin {"create", "recv"} => Exists(c))
    BY <1>6 DEF SetupTestsExists, PlayTestsExists, PauseTestsExists
  <2>4. sid[c] \in SessionIds
    BY <2>2 DEF IInv, PcInv
  <2>5. l \in Questions => (l = "create" <=> sessions[sid[c]] = NoObject)
    BY <2>1, <2>3 DEF Exists
  <2> QED
    BY <1>1, <2>1, <2>2, <2>3, <2>4, <2>5, OwnMoves
<1>7. ASSUME NEW m \in Methods, NEW s \in SessionIds \cup {NoId}, Receive(c, m, s) PROVE OwnInv'
  <2>1. FirstLabel(m) \in Labels \ Questions
    BY DEF FirstLabel, Methods, Labels, Questions
  <2>2. s \in SessionsOf(c) \cup {NoId}
    BY <1>7 DEF Receive, SessionsOf
  <2>3. ref[c] = NoObject /\ dying[c] = NoObject
    BY <1>3, <1>7 DEF Receive, Using, Dying, Late
  <2>4. /\ UNCHANGED <<sessions, lock, id, ref, dying, own>> /\ sid' = [sid EXCEPT ![c] = s]
        /\ pc' = [pc EXCEPT ![c] = FirstLabel(m)]
    BY <1>7 DEF Receive
  <2> QED
    BY <1>1, <2>1, <2>2, <2>3, <2>4, OwnMoves
<1> QED
  BY <1>2, <1>4, <1>5, <1>6, <1>7

(* The steps that change the table, references and objects: they concern the *)
(* session that bears the name of the request, and nobody else's.            *)
LEMMA OwnTableStep ==
  ASSUME OwnSessions, IInv, OwnInv, NEW c \in Connections,
         \/ CreateSession(c) \/ GetSession(c) \/ ReleaseSession(c)
         \/ TerminateSession(c) \/ EraseSession(c) \/ DestroySession(c)
  PROVE  OwnInv'
<1>1. CASE CreateSession(c)
  <2> DEFINE o == FreshObject
             s == sid[c]
  <2>1. /\ sessions[s] = NoObject /\ s \in SessionIds /\ o \in Objects /\ id[o] = NoId
        /\ ref[c] = NoObject /\ dying[c] = NoObject
        /\ id' = [id EXCEPT ![o] = s] /\ sessions' = [sessions EXCEPT ![s] = o]
        /\ ref' = [ref EXCEPT ![c] = o] /\ pc' = [pc EXCEPT ![c] = "register"]
        /\ UNCHANGED <<lock, dying, sid, own>>
    BY <1>1, CreateIsFirst
  <2> HIDE DEF o, s
  <2>2. /\ pc'[c] = "register" /\ ref'[c] = o /\ id'[o] = s /\ sessions'[s] = o
        /\ \A d \in Connections \ {c} : pc'[d] = pc[d] /\ ref'[d] = ref[d]
        /\ \A p \in Objects \ {o} : id'[p] = id[p]
        /\ \A t \in SessionIds \ {s} : sessions'[t] = sessions[t]
    BY <2>1 DEF IInv, TypeInv
  <2>3. \A d \in Connections : ref[d] # o /\ dying[d] # o
    BY <2>1, NullsAssumption DEF IInv, SessionsLiveWhileReferenced, DyingInv, Live
  <2>4. ASSUME NEW d \in Connections \ {c} PROVE Own(d)'
    <3>1. sid[d] \in SessionIds => sid[d] # s
      BY <2>1, Apart, NullsAssumption DEF s
    <3>2. /\ ref[d] # NoObject => ref[d] \in Objects \ {o}
          /\ dying[d] # NoObject => dying[d] \in Objects \ {o}
      BY <2>3 DEF IInv, TypeInv
    <3> QED
      BY <2>1, <2>2, <3>1, <3>2, OwnStays
  <2>5. Own(c)'
    BY <2>1, <2>2 DEF OwnInv, Own, s
  <2>6. \A p \in Objects \ {o} : Live(p) => id[p] # s
    BY <2>1, Alone, NullsAssumption DEF s
  <2>7. Unique'
    BY <2>1, <2>2, <2>6 DEF OwnInv, Unique, Live
  <2> QED
    BY <2>4, <2>5, <2>7 DEF OwnInv
<1>2. CASE GetSession(c)
  <2> DEFINE o == sessions[sid[c]]
  <2>1. /\ sid[c] \in SessionIds /\ o \in Objects /\ o # NoObject /\ dying[c] = NoObject
        /\ ref' = [ref EXCEPT ![c] = o] /\ pc' = [pc EXCEPT ![c] = AfterGet(pc[c])]
        /\ AfterGet(pc[c]) \in {"register", "start", "pause"}
        /\ UNCHANGED <<sessions, lock, id, sid, own, dying>>
    BY <1>2, GetFinds, NullsAssumption DEF AfterGet
  <2>2. id[o] = sid[c]
    BY <2>1, TableIsLive
  <2>3. /\ pc'[c] = AfterGet(pc[c]) /\ ref'[c] = o
        /\ \A d \in Connections \ {c} : pc'[d] = pc[d] /\ ref'[d] = ref[d]
    BY <2>1 DEF IInv, TypeInv
  <2>4. ASSUME NEW d \in Connections \ {c} PROVE Own(d)'
    BY <2>1, <2>3, OwnStays
  <2>5. Own(c)'
    BY <2>1, <2>2, <2>3 DEF OwnInv, Own
  <2> QED
    BY <2>1, <2>4, <2>5 DEF OwnInv, Unique, Live
<1>3. CASE ReleaseSession(c)
  <2>1. /\ pc' = [pc EXCEPT ![c] = AfterRequest(c)] /\ ref' = [ref EXCEPT ![c] = NoObject]
        /\ AfterRequest(c) \in {"closing", "recv"}
        /\ UNCHANGED <<sessions, lock, id, sid, own, dying>>
    BY <1>3, ReleaseGoesOn DEF AfterRequest
  <2>2. /\ pc'[c] = AfterRequest(c) /\ ref'[c] = NoObject
        /\ \A d \in Connections \ {c} : pc'[d] = pc[d] /\ ref'[d] = ref[d]
    BY <2>1 DEF IInv, TypeInv
  <2>3. ASSUME NEW d \in Connections \ {c} PROVE Own(d)'
    BY <2>1, <2>2, OwnStays
  <2>4. Own(c)'
    BY <2>1, <2>2 DEF OwnInv, Own
  <2> QED
    BY <2>1, <2>3, <2>4 DEF OwnInv, Unique, Live
<1>4. CASE TerminateSession(c)
  <2>1. /\ pc[c] = "terminate" /\ LockFree
        /\ UNCHANGED <<sessions, id, sid, own, ref>>
    BY <1>4 DEF TerminateSession, At, sessionVars
  <2>2. sid[c] \in SessionIds /\ ref[c] = NoObject /\ dying[c] = NoObject
    BY <2>1, Classes DEF IInv, PcInv
  <2>3. CASE Exists(c)
    <3>1. /\ lock' = c /\ dying' = [dying EXCEPT ![c] = sessions[sid[c]]]
          /\ pc' = [pc EXCEPT ![c] = "stop"]
      BY <1>4, <2>3 DEF TerminateSession, Goto
    <3>2. /\ pc'[c] = "stop" /\ dying'[c] = sessions[sid[c]]
          /\ \A d \in Connections \ {c} : pc'[d] = pc[d] /\ dying'[d] = dying[d]
      BY <3>1 DEF IInv, TypeInv
    <3>3. ASSUME NEW d \in Connections \ {c} PROVE Own(d)'
      BY <2>1, <3>1, <3>2, OwnStays, NullsAssumption DEF LockFree
    <3>4. id[sessions[sid[c]]] = sid[c]
      BY <2>2, <2>3, TableIsLive DEF Exists
    <3>5. Own(c)'
      BY <2>1, <2>2, <3>1, <3>2, <3>4 DEF OwnInv, Own
    <3> QED
      BY <2>1, <3>3, <3>5 DEF OwnInv, Unique, Live
  <2>4. CASE ~Exists(c)
    <3>1. UNCHANGED <<lock, dying>> /\ pc' = [pc EXCEPT ![c] = AfterRequest(c)]
      BY <1>4, <2>4 DEF TerminateSession, Goto
    <3>2. AfterRequest(c) \in Labels \ Questions
      BY DEF AfterRequest, Labels, Questions
    <3>3. sid[c] \in SessionsOf(c) \cup {NoId} /\ own[c] \in SessionsOf(c) \cup {NoId}
      BY DEF OwnInv, Own
    <3> QED
      BY <2>1, <3>1, <3>2, <3>3, OwnMoves
  <2> QED
    BY <2>3, <2>4
<1>5. CASE EraseSession(c)
  <2> DEFINE s == sid[c]
  <2>1. /\ s \in SessionIds /\ sessions' = [sessions EXCEPT ![s] = NoObject]
        /\ ref[c] = NoObject /\ pc' = [pc EXCEPT ![c] = "stop"]
        /\ UNCHANGED <<lock, id, dying, sid, own, ref>>
    BY <1>5, EraseGoesOn
  <2>2. /\ pc'[c] = "stop" /\ \A d \in Connections \ {c} : pc'[d] = pc[d]
        /\ \A t \in SessionIds \ {s} : sessions'[t] = sessions[t]
    BY <2>1 DEF IInv, TypeInv
  <2>3. ASSUME NEW d \in Connections \ {c} PROVE Own(d)'
    <3>1. sid[d] \in SessionIds => sid[d] # s
      BY <2>1, Apart, NullsAssumption
    <3> QED
      BY <2>1, <2>2, <3>1, OwnStays
  <2>4. Own(c)'
    BY <2>1, <2>2 DEF OwnInv, Own
  <2> QED
    BY <2>1, <2>3, <2>4 DEF OwnInv, Unique, Live
<1>6. CASE DestroySession(c)
  <2> DEFINE o == dying[c]
  <2>1. /\ o \in Objects /\ lock = c /\ lock' = NoConnection /\ ref[c] = NoObject
        /\ id' = [id EXCEPT ![o] = NoId] /\ dying' = [dying EXCEPT ![c] = NoObject]
        /\ pc' = [pc EXCEPT ![c] = AfterRequest(c)] /\ Gone(c)
        /\ AfterRequest(c) \in {"closing", "recv"}
        /\ UNCHANGED <<sessions, sid, own, ref>>
    BY <1>6, DestroyEnds DEF AfterRequest
  <2>2. /\ pc'[c] = AfterRequest(c) /\ dying'[c] = NoObject
        /\ \A d \in Connections \ {c} : pc'[d] = pc[d] /\ dying'[d] = dying[d]
        /\ id'[o] = NoId /\ \A p \in Objects \ {o} : id'[p] = id[p]
    BY <2>1 DEF IInv, TypeInv
  <2>3. ASSUME NEW d \in Connections \ {c} PROVE Own(d)'
    <3>1. lock # d /\ dying[d] = NoObject
      BY <2>1 DEF OwnInv, Own
    <3>2. ref[d] # NoObject => ref[d] \in Objects \ {o}
      BY <2>1 DEF Gone, IInv, TypeInv
    <3> QED
      BY <2>1, <2>2, <3>1, <3>2, OwnStays
  <2>4. Own(c)'
    BY <2>1, <2>2 DEF OwnInv, Own
  <2>5. Unique'
    BY <2>1, <2>2 DEF OwnInv, Unique, Live
  <2> QED
    BY <2>3, <2>4, <2>5 DEF OwnInv
<1> QED
  BY <1>1, <1>2, <1>3, <1>4, <1>5, <1>6

(* Every step of a connection is of one of the two kinds.                    *)
LEMMA OwnConnectionStep ==
  ASSUME OwnSessions, IInv, OwnInv, NEW c \in Connections,
         \/ Accept(c) \/ Disconnect(c) \/ SendKills(c) \/ ConnectionRuns(c)
         \/ \E m \in Methods : \E s \in SessionIds \cup {NoId} : Receive(c, m, s)
  PROVE  OwnInv'
BY OwnQuietStep, OwnTableStep DEF ConnectionRuns, Plain

LEMMA OwnStep ==
  OwnSessions /\ IInv /\ OwnInv /\ [Next]_vars => OwnInv'
<1> SUFFICES ASSUME OwnSessions, IInv, OwnInv, [Next]_vars PROVE OwnInv'
  OBVIOUS
<1>1. ASSUME UNCHANGED <<sessions, lock, id, pc, sid, own, ref, dying>> PROVE OwnInv'
  <2>1. \A d \in Connections : Own(d)'
    BY <1>1, OwnStays
  <2> QED
    BY <1>1, <2>1 DEF OwnInv, Unique, Live
<1>2. CASE UNCHANGED vars \/ ProducerRuns
  BY <1>1, <1>2 DEF vars, ProducerRuns, tableVars, sessionVars, localVars
<1>3. ASSUME NEW o \in Objects, SenderRuns(o) PROVE OwnInv'
  BY <1>1, <1>3 DEF SenderRuns, SenderTestsActive, SenderWaits, SenderGetsFrame,
                    tableVars, sessionVars, localVars
<1> QED
  BY <1>2, <1>3, OwnConnectionStep DEF Next

-----------------------------------------------------------------------------
(***************************************************************************)
(* The types, for any clients.                                             *)
(***************************************************************************)
(* What TypeOK says beyond TypeInv.                                          *)
MediaTypes ==
  /\ TrackTypeOK
  /\ not_empty \in SUBSET Objects
  /\ returned \in [SessionIds -> {Frame, NoFrame}]

FlagTypes ==
  /\ handler \in [Objects -> BOOLEAN]
  /\ playing \in [Objects -> BOOLEAN]
  /\ leaving \in [Connections -> BOOLEAN]
  /\ crashed \in CrashReasons

LEMMA TypeOKParts == TypeOK <=> TypeInv /\ MediaTypes /\ FlagTypes
BY DEF TypeOK, TypeInv, MediaTypes, FlagTypes

LEMMA SlotAfter ==
  ASSUME NEW p \in Queue!Positions
  PROVE  Queue!slot_after(p) \in Queue!Positions
BY CapacityAssumption DEF Queue!Positions, Queue!slot_after

LEMMA MediaInit == Init => MediaTypes /\ FlagTypes
<1> SUFFICES ASSUME Init PROVE MediaTypes /\ FlagTypes
  OBVIOUS
<1>1. 0 \in Queue!Positions
  BY CapacityAssumption DEF Queue!Positions
<1>2. MediaTypes
  <2>1. FileFrames \in 0 .. FileFrames
    BY FileFramesAssumption
  <2> QED
    BY <1>1, <2>1 DEF Init, InitTrack, Queue!Init, MediaTypes, TrackTypeOK, NoThread
<1>3. FlagTypes
  BY DEF Init, FlagTypes, CrashReasons
<1> QED
  BY <1>2, <1>3

(* What connection threads do to the track.                                  *)
LEMMA TrackCalls ==
  ASSUME MediaTypes,
         \/ \E s : register_session(s) \/ unregister_session(s)
         \/ StartActivates \/ StartOpens \/ StartFailsToOpen \/ StartSpawns
         \/ StopSignals \/ StopJoins \/ StopEndsAndCloses
  PROVE  MediaTypes'
<1> USE FileFramesAssumption DEF MediaTypes, TrackTypeOK, queueVars, trackVars, NoThread
<1>1. ASSUME NEW s, register_session(s) \/ unregister_session(s) PROVE MediaTypes'
  BY <1>1 DEF register_session, unregister_session, Queue!register_consumer,
              Queue!unregister_consumer, Queue!Absent
<1>2. CASE StartActivates \/ StartSpawns \/ StopJoins
  BY <1>2 DEF StartActivates, StartSpawns, StopJoins
<1>3. CASE StartOpens \/ StartFailsToOpen
  <2>1. file' = file \/ file' = FileFrames
    BY <1>3 DEF StartOpens, StartFailsToOpen
  <2>2. FileFrames \in 0 .. FileFrames
    OBVIOUS
  <2>3. /\ UNCHANGED <<buffer, write_position, consumer_positions, not_empty, returned,
                       producer, is_active>>
        /\ exit' \in BOOLEAN /\ not_full' \in BOOLEAN
    BY <1>3 DEF StartOpens, StartFailsToOpen, Queue!set_run
  <2> QED
    BY <2>1, <2>2, <2>3
<1>4. CASE StopSignals \/ StopEndsAndCloses
  BY <1>4 DEF StopSignals, StopEndsAndCloses, Queue!set_exit
<1> QED
  BY <1>1, <1>2, <1>3, <1>4

LEMMA ProducerCalls ==
  ASSUME MediaTypes, run_producer
  PROVE  MediaTypes'
<1> USE DEF MediaTypes, TrackTypeOK, queueVars, trackVars
<1>1. CASE ProducerReadsFrame
  BY <1>1, FileFramesAssumption DEF ProducerReadsFrame, Closed
<1>2. CASE ProducerLeavesLoop
  BY <1>2 DEF ProducerLeavesLoop
<1>3. CASE ProducerWaits
  BY <1>3 DEF ProducerWaits, Queue!ProduceWaits
<1>4. CASE ProducerPutsFrame
  BY <1>4, SlotAfter DEF ProducerPutsFrame, Queue!ProduceWrites
<1>5. CASE ProducerFinishes
  BY <1>5 DEF ProducerFinishes, Queue!set_exit
<1> QED
  BY <1>1, <1>2, <1>3, <1>4, <1>5 DEF run_producer

LEMMA SenderCalls ==
  ASSUME MediaTypes, UNCHANGED trackVars, NEW o \in Objects, NEW s \in SessionIds,
         Queue!ConsumeWaits(o, s) \/ Queue!ConsumeTakes(o, s) \/ Queue!ConsumeExits(o, s)
  PROVE  MediaTypes'
<1> USE DEF MediaTypes, TrackTypeOK, trackVars
<1>1. Queue!Cursor(s) \in Queue!Positions
  BY CapacityAssumption DEF Queue!Cursor, Queue!Positions, Queue!Absent
<1>2. CASE Queue!ConsumeWaits(o, s)
  BY <1>1, <1>2 DEF Queue!ConsumeWaits
<1>3. CASE Queue!ConsumeTakes(o, s)
  BY <1>1, <1>3, SlotAfter DEF Queue!ConsumeTakes
<1>4. CASE Queue!ConsumeExits(o, s)
  BY <1>1, <1>4 DEF Queue!ConsumeExits
<1> QED
  BY <1>2, <1>3, <1>4

(* A step of a connection leaves the track alone, or is one of those calls.  *)
LEMMA ConnectionCalls ==
  ASSUME NEW c \in Connections,
         \/ Accept(c) \/ Disconnect(c) \/ SendKills(c) \/ ConnectionRuns(c)
         \/ \E m \in Methods : \E s \in SessionIds \cup {NoId} : Receive(c, m, s)
  PROVE  \/ UNCHANGED mediaVars
         \/ \E s : register_session(s) \/ unregister_session(s)
         \/ StartActivates \/ StartOpens \/ StartFailsToOpen \/ StartSpawns
         \/ StopSignals \/ StopJoins \/ StopEndsAndCloses
<1>1. CASE RegisterSession(c) \/ UnregisterSession(c)
  BY <1>1 DEF RegisterSession, UnregisterSession
<1>2. CASE StartTrack(c) \/ OpenTrack(c) \/ OpenFails(c) \/ SpawnProducer(c)
             \/ StopTrack(c) \/ JoinProducer(c) \/ CloseTrack(c)
  BY <1>2 DEF StartTrack, OpenTrack, OpenFails, SpawnProducer, Crash, StopTrack, JoinProducer,
              CloseTrack
<1>3. CASE \/ Accept(c) \/ Disconnect(c) \/ SendKills(c) \/ CloseConnection(c) \/ SetupNames(c)
           \/ SetupTestsExists(c) \/ PlayTestsExists(c) \/ PauseTestsExists(c)
           \/ TeardownTestsExists(c)
           \/ \E m \in Methods : \E s \in SessionIds \cup {NoId} : Receive(c, m, s)
  BY <1>3 DEF Accept, Disconnect, SendKills, Crash, CloseConnection, SetupNames,
              SetupTestsExists, PlayTestsExists, PauseTestsExists, TeardownTestsExists, Receive
<1>4. CASE \/ CreateSession(c) \/ AttachHandler(c) \/ BindFails(c) \/ GetSession(c)
           \/ ReleaseSession(c) \/ StartSession(c) \/ ActivateSession(c) \/ SpawnSender(c)
           \/ PauseSession(c)
  BY <1>4 DEF CreateSession, AttachHandler, BindFails, GetSession, ReleaseSession,
              StartSession, ActivateSession, SpawnSender, PauseSession, Crash
<1>5. CASE \/ TerminateSession(c) \/ StopSession(c) \/ JoinSender(c) \/ EraseSession(c)
           \/ TestNoConsumer(c) \/ DestroySession(c)
  BY <1>5 DEF TerminateSession, StopSession, JoinSender, EraseSession, TestNoConsumer,
              DestroySession
<1> QED
  BY <1>1, <1>2, <1>3, <1>4, <1>5 DEF ConnectionRuns

LEMMA ConnectionFlags ==
  ASSUME FlagTypes, NEW c \in Connections,
         \/ Accept(c) \/ Disconnect(c) \/ SendKills(c) \/ ConnectionRuns(c)
         \/ \E m \in Methods : \E s \in SessionIds \cup {NoId} : Receive(c, m, s)
  PROVE  FlagTypes'
<1> USE DEF FlagTypes, CrashReasons, localVars, sessionVars
<1>1. CASE \/ Accept(c) \/ Disconnect(c) \/ SendKills(c) \/ CloseConnection(c) \/ SetupNames(c)
           \/ SetupTestsExists(c) \/ PlayTestsExists(c) \/ PauseTestsExists(c)
           \/ TeardownTestsExists(c)
           \/ \E m \in Methods : \E s \in SessionIds \cup {NoId} : Receive(c, m, s)
  BY <1>1 DEF Accept, Disconnect, SendKills, Crash, CloseConnection, SetupNames,
              SetupTestsExists, PlayTestsExists, PauseTestsExists, TeardownTestsExists, Receive
<1>2. CASE \/ CreateSession(c) \/ RegisterSession(c) \/ AttachHandler(c) \/ BindFails(c)
           \/ GetSession(c) \/ ReleaseSession(c)
  BY <1>2 DEF CreateSession, RegisterSession, AttachHandler, BindFails, GetSession,
              ReleaseSession, Crash
<1>3. CASE \/ StartSession(c) \/ ActivateSession(c) \/ SpawnSender(c) \/ PauseSession(c)
           \/ StartTrack(c) \/ OpenTrack(c) \/ OpenFails(c) \/ SpawnProducer(c)
  BY <1>3 DEF StartSession, ActivateSession, SpawnSender, PauseSession, StartTrack, OpenTrack,
              OpenFails, SpawnProducer, Crash
<1>4. CASE \/ TerminateSession(c) \/ StopSession(c) \/ JoinSender(c) \/ EraseSession(c)
           \/ UnregisterSession(c) \/ TestNoConsumer(c) \/ StopTrack(c) \/ JoinProducer(c)
           \/ CloseTrack(c) \/ DestroySession(c)
  BY <1>4 DEF TerminateSession, StopSession, JoinSender, EraseSession, UnregisterSession,
              TestNoConsumer, StopTrack, JoinProducer, CloseTrack, DestroySession
<1> QED
  BY <1>1, <1>2, <1>3, <1>4 DEF ConnectionRuns

LEMMA MediaStep ==
  IInv /\ MediaTypes /\ FlagTypes /\ [Next]_vars => MediaTypes' /\ FlagTypes'
<1> SUFFICES ASSUME IInv, MediaTypes, FlagTypes, [Next]_vars
             PROVE  MediaTypes' /\ FlagTypes'
  OBVIOUS
<1>1. ASSUME UNCHANGED mediaVars PROVE MediaTypes'
  BY <1>1 DEF mediaVars, queueVars, trackVars, MediaTypes, TrackTypeOK
<1>2. ASSUME UNCHANGED <<handler, playing, leaving, crashed>> PROVE FlagTypes'
  BY <1>2 DEF FlagTypes
<1>3. CASE UNCHANGED vars
  BY <1>1, <1>2, <1>3 DEF vars, sessionVars, localVars
<1>4. CASE ProducerRuns
  BY <1>2, <1>4, ProducerCalls DEF ProducerRuns, sessionVars, localVars
<1>5. ASSUME NEW o \in Objects, SenderRuns(o) PROVE MediaTypes' /\ FlagTypes'
  <2>1. UNCHANGED <<handler, playing, leaving, crashed>>
    BY <1>5 DEF SenderRuns, SenderTestsActive, SenderWaits, SenderGetsFrame, sessionVars, localVars
  <2>2. ASSUME SenderTestsActive(o) PROVE MediaTypes'
    BY <1>1, <2>2 DEF SenderTestsActive
  <2>3. ASSUME SenderWaits(o) \/ SenderGetsFrame(o) PROVE MediaTypes'
    <3>1. sender[o] = "consume"
      BY <2>3 DEF SenderWaits, SenderGetsFrame
    <3>2. Live(o)
      BY <3>1 DEF IInv, SenderInv, NoSenderOutlivesItsSession, NoThread
    <3>3. id[o] \in SessionIds
      BY <3>2 DEF IInv, TypeInv, Live
    <3>4. UNCHANGED trackVars
          /\ (Queue!ConsumeWaits(o, id[o]) \/ Queue!ConsumeTakes(o, id[o])
                \/ Queue!ConsumeExits(o, id[o]))
      BY <2>3 DEF SenderWaits, SenderGetsFrame
    <3> QED
      BY <3>3, <3>4, SenderCalls
  <2> QED
    BY <1>2, <1>5, <2>1, <2>2, <2>3 DEF SenderRuns
<1>6. ASSUME NEW c \in Connections,
             \/ Accept(c) \/ Disconnect(c) \/ SendKills(c) \/ ConnectionRuns(c)
             \/ \E m \in Methods : \E s \in SessionIds \cup {NoId} : Receive(c, m, s)
      PROVE  MediaTypes' /\ FlagTypes'
  BY <1>1, <1>6, ConnectionCalls, TrackCalls, ConnectionFlags
<1> QED
  BY <1>3, <1>4, <1>5, <1>6 DEF Next

(* Every variable keeps its type, whatever the handlers of ConnectionHandler *)
(* and SessionManager (ConnectionHandler.cpp:193-323, SessionManager.cpp)    *)
(* do: positions stay in the ring, the file has frames left or is closed,    *)
(* and a thread is at a label.                                               *)
THEOREM TypeCorrect == Spec => []TypeOK
<1>1. Init => MediaTypes /\ FlagTypes
  BY MediaInit
<1>2. IInv /\ MediaTypes /\ FlagTypes /\ [Next]_vars => MediaTypes' /\ FlagTypes'
  BY MediaStep
<1>3. IInv /\ MediaTypes /\ FlagTypes => TypeOK
  BY TypeOKParts DEF IInv
<1> QED
  BY <1>1, <1>2, <1>3, Invariance, PTL DEF Spec

-----------------------------------------------------------------------------
(***************************************************************************)
(* Positions in the queue, whose they are, and the senders that sleep.     *)
(* Clients that share a name can have two Sessions of it: the sender of    *)
(* one may play on after the other has been unregistered, and its next     *)
(* consume() puts the name back into consumer_positions_.  When a bind     *)
(* fails, SETUP leaves a position behind that has no owner.                *)
(***************************************************************************)
(* From the test of is_active_ in start() to its end; and what follows       *)
(* unregister_consumer() in the destructor.                                  *)
Activating == {"activate", "trackStart", "trackOpen", "spawnProducer", "spawnSender"}
Unregistered == {"noConsumer", "trackStop", "trackJoin", "trackClose", "destroy"}

(* A SessionHandler belongs to a session that exists, a sender thread to a   *)
(* SessionHandler, and a sender sleeps in consume() only.                    *)
HandlerInv ==
  /\ \A o \in Objects : handler[o] => Live(o)
  /\ \A o \in Objects : sender[o] # NoThread => handler[o]
  /\ \A c \in Connections : pc[c] \in Activating => handler[ref[c]]
  /\ not_empty \subseteq {o \in Objects : sender[o] = "consume"}

(* The destructor of o has still to call unregister_session().               *)
Serving(o) ==
  /\ handler[o]
  /\ \A c \in Connections : dying[c] = o => pc[c] \notin Unregistered

Attaching(o) == \E c \in Connections : ref[c] = o /\ pc[c] = "attach"

(* Every position has an owner that will erase it, or is about to be one.    *)
PositionInv ==
  \A s \in SessionIds : Queue!Registered(s) =>
    \E o \in Objects : id[o] = s /\ (Serving(o) \/ Attaching(o))

(* A sender sleeps where there is no frame for it yet, unless another        *)
(* Session of its name, which is awake, has moved their common position.     *)
Rested(o) ==
  \/ consumer_positions[id[o]] \in {write_position, Queue!Absent}
  \/ \E p \in Objects \ not_empty : id[p] = id[o] /\ Serving(p)

SleepInv == \A o \in not_empty : Rested(o)

LEMMA AnyInit == Init => HandlerInv /\ PositionInv /\ SleepInv
<1> SUFFICES ASSUME Init PROVE HandlerInv /\ PositionInv /\ SleepInv
  OBVIOUS
<1>1. /\ handler = [o \in Objects |-> FALSE] /\ sender = [o \in Objects |-> NoThread]
      /\ pc = [c \in Connections |-> "closed"] /\ not_empty = {}
      /\ consumer_positions = [s \in SessionIds |-> Queue!Absent]
  BY DEF Init, InitTrack, Queue!Init
<1> QED
  BY <1>1 DEF HandlerInv, PositionInv, SleepInv, Activating, Queue!Registered

(* What a sleeping sender and a session on its way out have.                 *)
LEMMA SleepersHaveSessions ==
  ASSUME IInv, HandlerInv, NEW o \in not_empty
  PROVE  /\ o \in Objects /\ sender[o] = "consume" /\ handler[o] /\ Live(o)
         /\ id[o] \in SessionIds
<1>1. o \in Objects /\ sender[o] = "consume"
  BY DEF HandlerInv
<1> QED
  BY <1>1 DEF HandlerInv, NoThread, IInv, TypeInv, Live

LEMMA LateIsGone ==
  ASSUME IInv, NEW d \in Connections, pc[d] \in Late
  PROVE  /\ dying[d] \in Objects /\ Live(dying[d]) /\ id[dying[d]] \in SessionIds /\ Gone(d)
         /\ sender[dying[d]] = NoThread
         /\ \A e \in Connections : ref[e] # dying[d]
         /\ \A e \in Connections \ {d} : dying[e] # dying[d]
<1>1. dying[d] # NoObject /\ pc[d] \notin {"stop", "join", "erase"}
  BY Classes DEF IInv, PcInv
<1>2. Gone(d)
  BY <1>1 DEF IInv, DyingInv, Held
<1>3. Live(dying[d])
  BY <1>1 DEF IInv, DyingInv
<1> QED
  BY <1>1, <1>2, <1>3 DEF IInv, TypeInv, DyingInv, SessionIsDestroyedOnce, SenderInv, Gone, Live

LEMMA UnregisteredIsLate == Unregistered \subseteq Late
BY DEF Unregistered, Late

(* A session with a sender thread is still to be unregistered.               *)
LEMMA SendersServe ==
  ASSUME IInv, HandlerInv, NEW o \in Objects, sender[o] # NoThread
  PROVE  Serving(o)
BY LateIsGone, UnregisteredIsLate DEF HandlerInv, Serving

(* Nothing happens to sessions and positions.                                *)
LEMMA SessionsRest ==
  ASSUME HandlerInv, UNCHANGED <<id, handler, sender, pc, ref, dying, consumer_positions>>,
         \/ not_empty' \subseteq not_empty /\ UNCHANGED write_position
         \/ not_empty' = {}
  PROVE  /\ HandlerInv'
         /\ SleepInv => SleepInv'
         /\ PositionInv => PositionInv'
<1>1. \A o : (Serving(o) <=> Serving(o)') /\ (Attaching(o) <=> Attaching(o)')
  BY DEF Serving, Attaching
<1>2. \A s : Queue!Registered(s) <=> Queue!Registered(s)'
  BY DEF Queue!Registered
<1>3. HandlerInv'
  BY DEF HandlerInv, Live
<1>4. SleepInv => SleepInv'
  BY <1>1 DEF SleepInv, Rested
<1>5. PositionInv => PositionInv'
  BY <1>1, <1>2 DEF PositionInv
<1> QED
  BY <1>3, <1>4, <1>5

(* A thread goes on: it does not come to destroy what has a SessionHandler,  *)
(* and starts only what has one.                                             *)
LEMMA SessionsGoOn ==
  ASSUME IInv, HandlerInv, NEW c \in Connections, NEW l \in Labels,
         UNCHANGED <<id, handler, consumer_positions>>,
         \/ not_empty' \subseteq not_empty /\ UNCHANGED write_position
         \/ not_empty' = {},
         \A o \in Objects : \/ sender'[o] = sender[o]
                            \/ sender[o] # "consume" /\ (handler[o] \/ sender'[o] = NoThread),
         pc' = [pc EXCEPT ![c] = l],
         \A d \in Connections \ {c} : ref'[d] = ref[d] /\ dying'[d] = dying[d],
         l \in Unregistered => pc[c] \in Unregistered /\ dying'[c] = dying[c],
         l \in Activating => handler[ref'[c]]
  PROVE  /\ HandlerInv'
         /\ SleepInv => SleepInv'
         /\ PositionInv /\ pc[c] # "attach" => PositionInv'
<1>1. pc'[c] = l /\ \A d \in Connections \ {c} : pc'[d] = pc[d]
  BY DEF IInv, TypeInv
<1>2. \A o : Serving(o) => Serving(o)'
  BY <1>1 DEF Serving
<1>3. \A s : Queue!Registered(s) <=> Queue!Registered(s)'
  BY DEF Queue!Registered
<1>4. HandlerInv'
  BY <1>1 DEF HandlerInv, Live
<1>5. SleepInv => SleepInv'
  BY <1>2 DEF SleepInv, Rested
<1>6. ASSUME PositionInv, pc[c] # "attach" PROVE PositionInv'
  <2>1. \A o : Attaching(o) => Attaching(o)'
    BY <1>1, <1>6 DEF Attaching
  <2> QED
    BY <1>2, <1>3, <1>6, <2>1 DEF PositionInv
<1> QED
  BY <1>4, <1>5, <1>6

(* What a step keeps; the owners only as long as no bind fails.              *)
Kept ==
  /\ HandlerInv'
  /\ SleepInv => SleepInv'
  /\ "bind" \notin Faults /\ PositionInv => PositionInv'

LEMMA AnyRequestStep ==
  ASSUME IInv, HandlerInv, NEW c \in Connections,
         \/ Accept(c) \/ Disconnect(c) \/ SendKills(c) \/ CloseConnection(c) \/ SetupNames(c)
         \/ SetupTestsExists(c) \/ PlayTestsExists(c) \/ PauseTestsExists(c)
         \/ TeardownTestsExists(c) \/ PauseSession(c) \/ StopSession(c)
         \/ BindFails(c) \/ TerminateSession(c) \/ EraseSession(c)
         \/ \E m \in Methods : \E s \in SessionIds \cup {NoId} : Receive(c, m, s)
  PROVE  Kept
<1> DEFINE Calm == {"recv", "closing", "closed", "terminate", "setup", "setupExists",
                    "setupGet", "create", "release", "playExists", "playGet", "pauseExists",
                    "pauseGet", "teardownExists", "stop", "join"}
<1> USE DEF At, Goto, mediaVars, queueVars, trackVars, tableVars, sessionVars, localVars
<1>1. AfterRequest(c) \in {"closing", "recv"}
  BY DEF AfterRequest
<1>2. Calm \subseteq Labels /\ \A l \in Calm : l \notin Unregistered /\ l \notin Activating
  BY DEF Labels, Unregistered, Activating
<1>3. /\ UNCHANGED <<id, handler, consumer_positions, sender, not_empty, write_position, ref>>
      /\ \A d \in Connections \ {c} : dying'[d] = dying[d]
      /\ pc[c] # "attach" \/ "bind" \in Faults
      /\ \E l \in Calm : pc' = [pc EXCEPT ![c] = l]
  <2>1. CASE \/ Accept(c) \/ Disconnect(c) \/ SendKills(c) \/ CloseConnection(c) \/ SetupNames(c)
             \/ SetupTestsExists(c) \/ PlayTestsExists(c) \/ PauseTestsExists(c)
             \/ TeardownTestsExists(c) \/ PauseSession(c) \/ StopSession(c) \/ BindFails(c)
    BY <1>1, <2>1, KilledInPlace
       DEF Accept, Disconnect, SendKills, Crash, CloseConnection, SetupNames, SetupTestsExists,
       PlayTestsExists, PauseTestsExists, TeardownTestsExists, PauseSession, StopSession, BindFails
  <2>2. CASE TerminateSession(c) \/ EraseSession(c)
    BY <1>1, <2>2 DEF TerminateSession, EraseSession, IInv, TypeInv
  <2>3. ASSUME NEW m \in Methods, NEW s \in SessionIds \cup {NoId}, Receive(c, m, s)
        PROVE  /\ UNCHANGED <<id, handler, consumer_positions, sender, not_empty,
                              write_position, ref, dying>>
               /\ pc[c] # "attach" /\ \E l \in Calm : pc' = [pc EXCEPT ![c] = l]
    BY <2>3 DEF Receive, FirstLabel, Methods
  <2> QED
    BY <2>1, <2>2, <2>3
<1> HIDE DEF Calm
<1> QED
  BY <1>2, <1>3, SessionsGoOn DEF Kept

LEMMA AnyTrackStep ==
  ASSUME IInv, HandlerInv, NEW c \in Connections,
         \/ StartSession(c) \/ ActivateSession(c) \/ StartTrack(c) \/ OpenTrack(c)
         \/ OpenFails(c) \/ SpawnProducer(c) \/ SpawnSender(c)
         \/ TestNoConsumer(c) \/ StopTrack(c) \/ JoinProducer(c) \/ CloseTrack(c)
  PROVE  Kept
<1> USE DEF At, Goto, mediaVars, queueVars, trackVars, tableVars, sessionVars, localVars
<1>1. ASSUME Crash("sender thread destroyed") \/ Crash("producer thread destroyed")
      PROVE  Kept
  BY <1>1, SessionsRest DEF Crash, Kept
<1>2. CASE \/ StartSession(c) \/ ActivateSession(c) \/ StartTrack(c) \/ OpenTrack(c)
           \/ OpenFails(c)
  <2>1. /\ UNCHANGED <<id, handler, consumer_positions, sender, not_empty, write_position,
                       ref, dying>>
        /\ pc[c] # "attach"
        /\ \/ pc[c] \in Activating \/ handler[ref[c]]
           \/ pc' = [pc EXCEPT ![c] = "release"]
        /\ \E l \in {"activate", "release", "spawnSender", "trackStart", "trackOpen",
                     "spawnProducer"} : pc' = [pc EXCEPT ![c] = l]
    BY <1>2 DEF StartSession, ActivateSession, StartTrack, OpenTrack, OpenFails, StartActivates,
                StartOpens, StartFailsToOpen, Queue!set_run, Activating
  <2>2. \A l \in {"activate", "release", "spawnSender", "trackStart", "trackOpen",
                  "spawnProducer"} : l \in Labels /\ l \notin Unregistered
    BY DEF Labels, Unregistered
  <2>3. "release" \notin Activating
    BY DEF Activating
  <2>4. CASE pc' = [pc EXCEPT ![c] = "release"]
    BY <2>1, <2>2, <2>3, <2>4, SessionsGoOn DEF Kept
  <2>5. CASE pc[c] \in Activating \/ handler[ref[c]]
    <3>1. handler[ref[c]]
      BY <2>5 DEF HandlerInv
    <3> QED
      BY <2>1, <2>2, <3>1, SessionsGoOn DEF Kept
  <2> QED
    BY <2>1, <2>4, <2>5
<1>3. CASE SpawnProducer(c)
  <2>1. CASE Joinable(producer)
    BY <1>1, <1>3, <2>1 DEF SpawnProducer
  <2>2. CASE ~Joinable(producer)
    <3>1. /\ UNCHANGED <<id, handler, consumer_positions, sender, not_empty, write_position,
                         ref, dying>>
          /\ pc[c] = "spawnProducer" /\ pc' = [pc EXCEPT ![c] = "spawnSender"]
      BY <1>3, <2>2 DEF SpawnProducer, StartSpawns
    <3>2. "spawnSender" \in Labels \ Unregistered /\ handler[ref[c]]
      BY <3>1 DEF Labels, Unregistered, HandlerInv, Activating
    <3> QED
      BY <3>1, <3>2, SessionsGoOn DEF Kept
  <2> QED
    BY <2>1, <2>2
<1>4. CASE SpawnSender(c)
  <2>1. CASE Joinable(sender[ref[c]])
    BY <1>1, <1>4, <2>1 DEF SpawnSender
  <2>2. CASE ~Joinable(sender[ref[c]])
    <3>1. /\ UNCHANGED <<id, handler, consumer_positions, not_empty, write_position, ref, dying>>
          /\ pc[c] = "spawnSender" /\ pc' = [pc EXCEPT ![c] = "release"]
          /\ sender' = [sender EXCEPT ![ref[c]] = "loop"] /\ sender[ref[c]] = NoThread
      BY <1>4, <2>2 DEF SpawnSender, Joinable
    <3>2. "release" \in Labels \ Unregistered /\ "release" \notin Activating /\ handler[ref[c]]
      BY <3>1 DEF Labels, Unregistered, HandlerInv, Activating
    <3>3. \A o \in Objects : \/ sender'[o] = sender[o]
                             \/ sender[o] # "consume" /\ handler[o]
      BY <3>1, <3>2 DEF IInv, TypeInv, NoThread
    <3> QED
      BY <3>1, <3>2, <3>3, SessionsGoOn DEF Kept
  <2> QED
    BY <2>1, <2>2
<1>5. CASE TestNoConsumer(c) \/ StopTrack(c) \/ JoinProducer(c) \/ CloseTrack(c)
  <2>1. /\ UNCHANGED <<id, handler, consumer_positions, sender, write_position, ref, dying>>
        /\ pc[c] # "attach" /\ pc[c] \in Unregistered
        /\ not_empty' = {} \/ UNCHANGED not_empty
    BY <1>5 DEF TestNoConsumer, StopTrack, JoinProducer, CloseTrack, StopSignals, StopJoins,
                StopEndsAndCloses, Queue!set_exit, Unregistered
  <2>2. \E l \in {"trackStop", "trackJoin", "trackClose", "destroy"} : pc' = [pc EXCEPT ![c] = l]
    BY <1>5 DEF TestNoConsumer, StopTrack, JoinProducer, CloseTrack
  <2>3. \A l \in {"trackStop", "trackJoin", "trackClose", "destroy"} :
          l \in Labels /\ l \notin Activating
    BY DEF Labels, Activating
  <2> QED
    BY <2>1, <2>2, <2>3, SessionsGoOn DEF Kept
<1> QED
  BY <1>2, <1>3, <1>4, <1>5

(* A thread gets, or lets go of, a reference; it joins a sender.             *)
LEMMA AnyReferenceStep ==
  ASSUME IInv, HandlerInv, NEW c \in Connections,
         GetSession(c) \/ ReleaseSession(c) \/ JoinSender(c)
  PROVE  Kept
<1> USE DEF At, Goto, mediaVars, queueVars, trackVars, tableVars, sessionVars, localVars
<1>1. CASE GetSession(c)
  <2>1. CASE ~Exists(c)
    BY <1>1, <2>1, SessionsRest DEF GetSession, Crash, Kept
  <2>2. CASE Exists(c)
    <3>1. /\ UNCHANGED <<id, handler, consumer_positions, sender, not_empty, write_position, dying>>
          /\ ref' = [ref EXCEPT ![c] = sessions[sid[c]]]
          /\ pc[c] # "attach" /\ pc' = [pc EXCEPT ![c] = AfterGet(pc[c])]
          /\ AfterGet(pc[c]) \in {"register", "start", "pause"}
      BY <1>1, <2>2 DEF GetSession, AfterGet
    <3>2. \A l \in {"register", "start", "pause"} :
            l \in Labels /\ l \notin Unregistered /\ l \notin Activating
      BY DEF Labels, Unregistered, Activating
    <3>3. \A d \in Connections \ {c} : ref'[d] = ref[d]
      BY <3>1 DEF IInv, TypeInv
    <3> QED
      BY <3>1, <3>2, <3>3, SessionsGoOn DEF Kept
  <2> QED
    BY <2>1, <2>2
<1>2. CASE ReleaseSession(c)
  <2>1. /\ UNCHANGED <<id, handler, consumer_positions, sender, not_empty, write_position>>
        /\ ref' = [ref EXCEPT ![c] = NoObject]
        /\ dying' = dying \/ \E o : dying' = [dying EXCEPT ![c] = o]
        /\ pc[c] # "attach"
        /\ \E l \in {"stop", "closing", "recv"} : pc' = [pc EXCEPT ![c] = l]
    BY <1>2 DEF ReleaseSession, AfterRequest
  <2>2. \A l \in {"stop", "closing", "recv"} :
          l \in Labels /\ l \notin Unregistered /\ l \notin Activating
    BY DEF Labels, Unregistered, Activating
  <2>3. \A d \in Connections \ {c} : ref'[d] = ref[d] /\ dying'[d] = dying[d]
    BY <2>1 DEF IInv, TypeInv
  <2> QED
    BY <2>1, <2>2, <2>3, SessionsGoOn DEF Kept
<1>3. CASE JoinSender(c)
  <2>1. /\ UNCHANGED <<id, handler, consumer_positions, not_empty, write_position, ref, dying>>
        /\ sender' = [sender EXCEPT ![dying[c]] = NoThread]
        /\ JoinReturns(sender[dying[c]]) /\ pc[c] # "attach"
        /\ pc' = [pc EXCEPT ![c] = AfterJoin(dying[c])]
        /\ AfterJoin(dying[c]) \in {"erase", "unregister"}
    BY <1>3 DEF JoinSender, AfterJoin
  <2>2. \A l \in {"erase", "unregister"} :
          l \in Labels /\ l \notin Unregistered /\ l \notin Activating
    BY DEF Labels, Unregistered, Activating
  <2>3. \A o \in Objects : \/ sender'[o] = sender[o]
                           \/ sender[o] # "consume" /\ sender'[o] = NoThread
    BY <2>1 DEF IInv, TypeInv, JoinReturns, NoThread
  <2> QED
    BY <2>1, <2>2, <2>3, SessionsGoOn DEF Kept
<1> QED
  BY <1>1, <1>2, <1>3

(* Who owns a position, or is about to, goes on doing so.                    *)
LEMMA OwnersLast ==
  ASSUME IInv, HandlerInv, UNCHANGED <<consumer_positions, write_position, not_empty>>,
         \A p \in Objects : (Serving(p) \/ Attaching(p)) /\ Live(p) =>
           /\ id'[p] = id[p]
           /\ Serving(p) => Serving(p)'
           /\ (Serving(p) \/ Attaching(p))'
  PROVE  (SleepInv => SleepInv') /\ (PositionInv => PositionInv')
<1>1. ASSUME SleepInv, NEW o \in not_empty PROVE Rested(o)'
  <2>1. o \in Objects /\ Live(o) /\ Serving(o)
    BY SleepersHaveSessions, SendersServe DEF NoThread
  <2>2. id'[o] = id[o]
    BY <2>1
  <2>3. CASE consumer_positions[id[o]] \in {write_position, Queue!Absent}
    BY <2>2, <2>3 DEF Rested, Queue!Absent
  <2>4. ASSUME NEW p \in Objects \ not_empty, id[p] = id[o], Serving(p) PROVE Rested(o)'
    <3>1. id'[p] = id[o] /\ Serving(p)'
      BY <2>1, <2>4 DEF Live
    <3> QED
      BY <2>2, <3>1 DEF Rested
  <2> QED
    BY <1>1, <2>3, <2>4 DEF SleepInv, Rested
<1>2. ASSUME PositionInv, NEW s \in SessionIds, Queue!Registered(s)'
      PROVE  \E p \in Objects : id'[p] = s /\ (Serving(p) \/ Attaching(p))'
  <2>1. PICK p \in Objects : id[p] = s /\ (Serving(p) \/ Attaching(p))
    BY <1>2 DEF PositionInv, Queue!Registered
  <2>2. Live(p)
    BY <2>1, NullsAssumption DEF Live
  <2> QED
    BY <2>1, <2>2
<1> QED
  BY <1>1, <1>2 DEF SleepInv, PositionInv

LEMMA AnyCreateStep ==
  ASSUME IInv, HandlerInv, NEW c \in Connections, CreateSession(c)
  PROVE  Kept
<1> DEFINE o == FreshObject
<1>1. /\ o \in Objects /\ id[o] = NoId /\ pc[c] = "create"
      /\ id' = [id EXCEPT ![o] = sid[c]] /\ ref' = [ref EXCEPT ![c] = o]
      /\ \E l \in {"stop", "register"} : pc' = [pc EXCEPT ![c] = l]
      /\ dying' = dying \/ \E p : dying' = [dying EXCEPT ![c] = p]
      /\ UNCHANGED <<mediaVars, handler, sender>>
  BY DEF CreateSession, FreshObject, At, Goto
<1> HIDE DEF o
<1>2. /\ pc'[c] \in {"stop", "register"}
      /\ \A d \in Connections \ {c} : pc'[d] = pc[d] /\ ref'[d] = ref[d] /\ dying'[d] = dying[d]
      /\ \A p \in Objects : Live(p) => id'[p] = id[p]
  BY <1>1 DEF IInv, TypeInv, Live
<1>3. \A l \in {"stop", "register"} : l \notin Unregistered /\ l \notin Activating
  BY DEF Unregistered, Activating
<1>4. HandlerInv'
  <2>1. \A p \in Objects : handler'[p] => Live(p)'
    BY <1>1, <1>2 DEF HandlerInv, Live
  <2> QED
    BY <1>1, <1>2, <1>3, <2>1 DEF HandlerInv, mediaVars, queueVars
<1>5. \A p : (Serving(p) => Serving(p)') /\ (Attaching(p) => Attaching(p)')
  BY <1>1, <1>2, <1>3 DEF Serving, Attaching
<1> QED
  BY <1>1, <1>2, <1>4, <1>5, OwnersLast DEF Kept, mediaVars, queueVars

LEMMA AnyRegisterStep ==
  ASSUME IInv, MediaTypes, HandlerInv, NEW c \in Connections, RegisterSession(c)
  PROVE  Kept
<1>0. PICK o : o = ref[c]
  OBVIOUS
<1>1. /\ pc[c] = "register" /\ pc' = [pc EXCEPT ![c] = "attach"]
      /\ consumer_positions' = [consumer_positions EXCEPT ![id[o]] = write_position]
      /\ UNCHANGED <<id, handler, sender, ref, dying, write_position, not_empty>>
  BY <1>0 DEF RegisterSession, register_session, Queue!register_consumer, At, Goto, sessionVars, localVars
<1>2. o \in Objects /\ Live(o) /\ id[o] \in SessionIds
  BY <1>0, <1>1, RefIsLive DEF IInv, PcInv, Using, TypeInv, Live
<1>3. Attaching(o)'
  BY <1>0, <1>1 DEF Attaching, IInv, TypeInv
<1>4. pc'[c] = "attach" /\ \A d \in Connections \ {c} : pc'[d] = pc[d]
  BY <1>1 DEF IInv, TypeInv
<1>5. \A p : (Serving(p) => Serving(p)') /\ (Attaching(p) => Attaching(p)')
  BY <1>1, <1>4 DEF Serving, Attaching, Unregistered
<1>6. /\ consumer_positions'[id[o]] = write_position
      /\ \A s \in SessionIds \ {id[o]} : consumer_positions'[s] = consumer_positions[s]
  BY <1>1, <1>2 DEF MediaTypes, TrackTypeOK
<1>7. HandlerInv'
  BY <1>1, <1>4 DEF HandlerInv, Activating, Live
<1>8. ASSUME SleepInv, NEW q \in not_empty PROVE Rested(q)'
  <2>1. id[q] \in SessionIds
    BY SleepersHaveSessions
  <2> QED
    BY <1>1, <1>5, <1>6, <1>8, <2>1 DEF SleepInv, Rested
<1>9. ASSUME PositionInv, NEW s \in SessionIds, Queue!Registered(s)'
      PROVE  \E p \in Objects : id'[p] = s /\ (Serving(p) \/ Attaching(p))'
  <2>1. CASE s = id[o]
    BY <1>1, <1>2, <1>3, <2>1
  <2>2. CASE s # id[o]
    BY <1>1, <1>5, <1>6, <1>9, <2>2 DEF PositionInv, Queue!Registered, Queue!Absent
  <2> QED
    BY <2>1, <2>2
<1>10. SleepInv => SleepInv'
  BY <1>1, <1>8 DEF SleepInv
<1> QED
  BY <1>7, <1>9, <1>10 DEF Kept, PositionInv

LEMMA AnyAttachStep ==
  ASSUME IInv, FlagTypes, HandlerInv, NEW c \in Connections, AttachHandler(c)
  PROVE  Kept
<1>1. CASE Joinable(sender[ref[c]])
  BY <1>1, SessionsRest DEF AttachHandler, Crash, Kept, mediaVars, queueVars, sessionVars, localVars
<1>2. CASE ~Joinable(sender[ref[c]])
  <2>0. PICK o : o = ref[c]
    OBVIOUS
  <2>1. /\ pc[c] = "attach" /\ pc' = [pc EXCEPT ![c] = "release"]
        /\ handler' = [handler EXCEPT ![o] = TRUE]
        /\ UNCHANGED <<mediaVars, id, sender, ref, dying>>
    BY <1>2, <2>0 DEF AttachHandler, At, Goto, localVars
  <2>2. o \in Objects /\ Live(o)
    BY <2>0, <2>1, RefIsLive DEF IInv, PcInv, Using
  <2>3. \A d \in Connections : dying[d] = o => pc[d] \notin Unregistered
    BY <2>0, LateIsGone, UnregisteredIsLate
  <2>4. \A p : Attaching(p) /\ p # o => \E e \in Connections \ {c} : ref[e] = p /\ pc[e] = "attach"
    BY <2>0 DEF Attaching
  <2>5. /\ pc'[c] = "release" /\ \A d \in Connections \ {c} : pc'[d] = pc[d]
        /\ handler'[o] /\ \A p \in Objects \ {o} : handler'[p] = handler[p]
    BY <2>1, <2>2 DEF IInv, TypeInv, FlagTypes
  <2>6. Serving(o)'
    BY <2>1, <2>3, <2>5 DEF Serving, Unregistered
  <2>7. \A p \in Objects : (Serving(p) => Serving(p)') /\ (Attaching(p) => (Serving(p) \/ Attaching(p))')
    BY <2>0, <2>1, <2>4, <2>5, <2>6 DEF Serving, Attaching, Unregistered
  <2>8. HandlerInv'
    <3>1. \A p \in Objects : handler[p] => handler'[p]
      BY <2>5
    <3>2. \A d \in Connections : pc'[d] \in Activating => handler'[ref'[d]]
      <4>1. ASSUME NEW d \in Connections, pc'[d] \in Activating PROVE handler'[ref'[d]]
        <5>1. d # c /\ pc[d] = pc'[d] /\ handler[ref[d]]
          BY <2>5, <4>1 DEF HandlerInv, Activating
        <5>2. ref[d] \in Objects
          BY <4>1, <5>1, RefIsLive DEF IInv, PcInv, Using, Activating
        <5> QED
          BY <2>1, <3>1, <5>1, <5>2
      <4> QED
        BY <4>1
    <3> QED
      BY <2>1, <2>2, <2>5, <3>1, <3>2 DEF HandlerInv, Live, mediaVars, queueVars
  <2> QED
    BY <2>1, <2>7, <2>8, OwnersLast DEF Kept, mediaVars, queueVars
<1> QED
  BY <1>1, <1>2

LEMMA AnyUnregisterStep ==
  ASSUME IInv, MediaTypes, HandlerInv, NEW c \in Connections, UnregisterSession(c)
  PROVE  Kept
<1> DEFINE o == dying[c]
<1>1. /\ pc[c] = "unregister"
      /\ pc' = [pc EXCEPT ![c] = IF handler[o] THEN "noConsumer" ELSE "destroy"]
      /\ UNCHANGED <<id, handler, sender, ref, dying, write_position, not_empty>>
      /\ IF handler[o] THEN consumer_positions' = [consumer_positions EXCEPT ![id[o]] = Queue!Absent]
                       ELSE UNCHANGED consumer_positions
  BY DEF UnregisterSession, unregister_session, Queue!unregister_consumer, Queue!Absent,
         At, Goto, mediaVars, queueVars, sessionVars, localVars
<1>2. o \in Objects /\ Live(o) /\ id[o] \in SessionIds /\ \A e \in Connections : ref[e] # o
  BY <1>1, Classes, LateIsGone
<1>3. ~Attaching(o)
  BY <1>2 DEF Attaching
<1>4. /\ pc'[c] \in {"noConsumer", "destroy"}
      /\ \A d \in Connections \ {c} : pc'[d] = pc[d]
  BY <1>1 DEF IInv, TypeInv
<1>5. \A p \in Objects \ {o} : (Serving(p) => Serving(p)') /\ (Attaching(p) => Attaching(p)')
  BY <1>1, <1>4 DEF Serving, Attaching
<1>6. HandlerInv'
  BY <1>1, <1>4 DEF HandlerInv, Activating, Live
<1> HIDE DEF o
<1>7. CASE ~handler[o]
  <2>1. ~Serving(o)
    BY <1>7 DEF Serving
  <2> QED
    BY <1>1, <1>3, <1>5, <1>6, <1>7, <2>1, OwnersLast DEF Kept
<1>8. CASE handler[o]
  <2>1. /\ consumer_positions'[id[o]] = Queue!Absent
        /\ \A s \in SessionIds \ {id[o]} : consumer_positions'[s] = consumer_positions[s]
    BY <1>1, <1>2, <1>8 DEF MediaTypes, TrackTypeOK
  <2>2. ASSUME SleepInv, NEW q \in not_empty PROVE Rested(q)'
    <3>1. id[q] \in SessionIds
      BY SleepersHaveSessions
    <3>2. CASE id[q] = id[o]
      BY <1>1, <2>1, <3>2 DEF Rested, Queue!Absent
    <3>3. CASE id[q] # id[o]
      BY <1>1, <1>5, <2>1, <2>2, <3>1, <3>3 DEF SleepInv, Rested, Queue!Absent
    <3> QED
      BY <3>2, <3>3
  <2>3. ASSUME PositionInv, NEW s \in SessionIds, Queue!Registered(s)'
        PROVE  \E p \in Objects : id'[p] = s /\ (Serving(p) \/ Attaching(p))'
    <3>1. s # id[o] /\ Queue!Registered(s)
      BY <2>1, <2>3 DEF Queue!Registered, Queue!Absent
    <3> QED
      BY <1>1, <1>5, <2>3, <3>1 DEF PositionInv
  <2>4. SleepInv => SleepInv'
    BY <1>1, <2>2 DEF SleepInv
  <2> QED
    BY <1>6, <2>3, <2>4 DEF Kept, PositionInv
<1> QED
  BY <1>7, <1>8

LEMMA AnyDestroyStep ==
  ASSUME IInv, FlagTypes, HandlerInv, NEW c \in Connections, DestroySession(c)
  PROVE  Kept
<1> DEFINE o == dying[c]
           l == IF ref[c] # NoObject THEN "register" ELSE AfterRequest(c)
<1>1. /\ pc[c] = "destroy" /\ pc' = [pc EXCEPT ![c] = l]
      /\ id' = [id EXCEPT ![o] = NoId] /\ handler' = [handler EXCEPT ![o] = FALSE]
      /\ dying' = [dying EXCEPT ![c] = NoObject]
      /\ UNCHANGED <<mediaVars, sender, ref>>
  BY DEF DestroySession, At, Goto
<1>2. l \notin Unregistered /\ l \notin Activating
  BY DEF AfterRequest, Unregistered, Activating
<1>3. /\ o \in Objects /\ sender[o] = NoThread /\ \A e \in Connections : ref[e] # o
  BY <1>1, Classes, LateIsGone
<1>4. ~Serving(o) /\ ~Attaching(o)
  BY <1>1, <1>3 DEF Serving, Attaching, Unregistered
<1> HIDE DEF o, l
<1>5. /\ pc'[c] = l /\ dying'[c] = NoObject
      /\ \A d \in Connections \ {c} : pc'[d] = pc[d] /\ dying'[d] = dying[d]
      /\ id'[o] = NoId /\ ~handler'[o]
      /\ \A p \in Objects \ {o} : id'[p] = id[p] /\ handler'[p] = handler[p]
  BY <1>1, <1>3 DEF IInv, TypeInv, FlagTypes
<1>6. HandlerInv'
  <2>1. ASSUME NEW d \in Connections, pc'[d] \in Activating PROVE handler'[ref'[d]]
    <3>1. d # c /\ pc[d] = pc'[d] /\ handler[ref[d]]
      BY <1>2, <1>5, <2>1 DEF HandlerInv
    <3>2. ref[d] \in Objects
      BY <2>1, <3>1, RefIsLive DEF IInv, PcInv, Using, Activating
    <3> QED
      BY <1>1, <1>3, <1>5, <3>1, <3>2
  <2>2. not_empty' \subseteq {p \in Objects : sender'[p] = "consume"}
    BY <1>1 DEF HandlerInv, mediaVars, queueVars
  <2> QED
    BY <1>1, <1>3, <1>5, <2>1, <2>2 DEF HandlerInv, Live
<1>7. \A p \in Objects \ {o} : (Serving(p) => Serving(p)') /\ (Attaching(p) => Attaching(p)')
  BY <1>1, <1>2, <1>5 DEF Serving, Attaching, Unregistered
<1> QED
  BY <1>1, <1>4, <1>5, <1>6, <1>7, OwnersLast DEF Kept, mediaVars, queueVars

LEMMA AnySenderStep ==
  ASSUME IInv, MediaTypes, HandlerInv, NEW o \in Objects, SenderRuns(o)
  PROVE  Kept
<1>1. /\ sender[o] # NoThread /\ UNCHANGED <<id, handler, pc, ref, dying, write_position>>
      /\ sender' = sender \/ \E t : sender' = [sender EXCEPT ![o] = t]
  BY DEF SenderRuns, SenderTestsActive, SenderWaits, SenderGetsFrame, Queue!ConsumeWaits,
         Queue!ConsumeTakes, Queue!ConsumeExits, NoThread, mediaVars, queueVars, sessionVars,
         localVars
<1>2. Serving(o) /\ handler[o] /\ Live(o) /\ id[o] \in SessionIds
  BY <1>1, SendersServe DEF HandlerInv, Live, IInv, TypeInv
<1>3. \A p : (Serving(p) <=> Serving(p)') /\ (Attaching(p) <=> Attaching(p)')
  BY <1>1 DEF Serving, Attaching
<1>4. \A p \in Objects \ {o} : sender'[p] = sender[p]
  BY <1>1 DEF IInv, TypeInv
<1>5. ASSUME not_empty' \subseteq {p \in Objects : sender'[p] = "consume"} PROVE HandlerInv'
  <2>1. \A p \in Objects : sender'[p] # NoThread => handler[p]
    BY <1>2, <1>4 DEF HandlerInv
  <2> QED
    BY <1>1, <1>5, <2>1 DEF HandlerInv, Live
<1>6. CASE SenderTestsActive(o)
  <2>1. sender[o] = "loop" /\ UNCHANGED <<not_empty, consumer_positions>>
    BY <1>6 DEF SenderTestsActive, mediaVars, queueVars
  <2>2. HandlerInv'
    BY <1>4, <1>5, <2>1 DEF HandlerInv
  <2> QED
    BY <1>1, <1>3, <2>1, <2>2, OwnersLast DEF Kept
<1>7. CASE SenderWaits(o) \/ SenderGetsFrame(o)
  <2>1. /\ sender[o] = "consume"
        /\ \/ /\ not_empty' = not_empty \cup {o} /\ UNCHANGED sender
              /\ Queue!Cursor(id[o]) = write_position
              /\ consumer_positions' = [consumer_positions EXCEPT ![id[o]] = Queue!Cursor(id[o])]
           \/ /\ o \notin not_empty /\ UNCHANGED not_empty
              /\ \E p : consumer_positions' = [consumer_positions EXCEPT ![id[o]] = p]
    BY <1>7 DEF SenderWaits, SenderGetsFrame, Queue!ConsumeWaits, Queue!ConsumeTakes,
                Queue!ConsumeExits, sessionVars
  <2>2. \A s \in SessionIds \ {id[o]} : consumer_positions'[s] = consumer_positions[s]
    BY <2>1 DEF MediaTypes, TrackTypeOK
  <2>3. HandlerInv'
    BY <1>4, <1>5, <2>1 DEF HandlerInv
  <2>4. not_empty' \subseteq not_empty \cup {o}
    BY <2>1
  <2>5. ASSUME SleepInv, NEW q \in not_empty' PROVE Rested(q)'
    <3>1. q \in not_empty \/ q = o
      BY <2>4
    <3>2. id[q] \in SessionIds
      BY <1>2, <3>1, SleepersHaveSessions
    <3>3. CASE id[q] = id[o]
      <4>1. CASE o \in not_empty'
        <5>1. consumer_positions'[id[o]] = write_position
          BY <1>2, <2>1, <4>1 DEF MediaTypes, TrackTypeOK
        <5> QED
          BY <1>1, <3>3, <5>1 DEF Rested
      <4>2. CASE o \notin not_empty'
        BY <1>1, <1>2, <1>3, <3>3, <4>2 DEF Rested
      <4> QED
        BY <4>1, <4>2
    <3>4. CASE id[q] # id[o]
      <4>1. q \in not_empty /\ Rested(q)
        BY <2>5, <3>1, <3>4 DEF SleepInv
      <4>2. CASE consumer_positions[id[q]] \in {write_position, Queue!Absent}
        BY <1>1, <2>2, <3>2, <3>4, <4>2 DEF Rested, Queue!Absent
      <4>3. ASSUME NEW p \in Objects \ not_empty, id[p] = id[q], Serving(p) PROVE Rested(q)'
        <5>1. p \notin not_empty'
          BY <2>4, <3>4, <4>3
        <5> QED
          BY <1>1, <1>3, <4>3, <5>1 DEF Rested
      <4> QED
        BY <4>1, <4>2, <4>3 DEF Rested
    <3> QED
      BY <3>3, <3>4
  <2>6. ASSUME PositionInv, NEW s \in SessionIds, Queue!Registered(s)'
        PROVE  \E p \in Objects : id'[p] = s /\ (Serving(p) \/ Attaching(p))'
    <3>1. CASE s = id[o]
      BY <1>1, <1>2, <1>3, <3>1
    <3>2. CASE s # id[o]
      BY <1>1, <1>3, <2>2, <2>6, <3>2 DEF PositionInv, Queue!Registered, Queue!Absent
    <3> QED
      BY <3>1, <3>2
  <2>7. SleepInv => SleepInv'
    BY <2>5 DEF SleepInv
  <2> QED
    BY <2>3, <2>6, <2>7 DEF Kept, PositionInv
<1> QED
  BY <1>6, <1>7 DEF SenderRuns

LEMMA AnyStep == IInv /\ MediaTypes /\ FlagTypes /\ HandlerInv /\ [Next]_vars => Kept
<1> SUFFICES ASSUME IInv, MediaTypes, FlagTypes, HandlerInv, [Next]_vars PROVE Kept
  OBVIOUS
<1>1. CASE UNCHANGED vars
  BY <1>1, SessionsRest DEF Kept, vars, mediaVars, queueVars, sessionVars, localVars
<1>2. CASE ProducerRuns
  BY <1>2, SessionsRest DEF Kept, ProducerRuns, run_producer, ProducerReadsFrame,
     ProducerLeavesLoop, ProducerWaits, ProducerPutsFrame, ProducerFinishes,
     Queue!ProduceWaits, Queue!ProduceWrites, Queue!set_exit, queueVars, sessionVars, localVars
<1>3. ASSUME NEW c \in Connections,
             \/ Accept(c) \/ Disconnect(c) \/ SendKills(c) \/ ConnectionRuns(c)
             \/ \E m \in Methods : \E s \in SessionIds \cup {NoId} : Receive(c, m, s)
      PROVE  Kept
  BY <1>3, AnyRequestStep, AnyTrackStep, AnyReferenceStep, AnyCreateStep, AnyRegisterStep,
     AnyAttachStep, AnyUnregisterStep, AnyDestroyStep DEF ConnectionRuns
<1> QED
  BY <1>1, <1>2, <1>3, AnySenderStep DEF Next

LEMMA TypesInvariance == Spec => [](IInv /\ MediaTypes /\ FlagTypes)
<1>1. TypeOK => MediaTypes /\ FlagTypes
  BY TypeOKParts
<1> QED
  BY <1>1, Invariance, TypeCorrect, PTL

LEMMA SleepInvariance == Spec => [](HandlerInv /\ SleepInv)
<1>1. IInv /\ MediaTypes /\ FlagTypes /\ HandlerInv /\ SleepInv /\ [Next]_vars
        => HandlerInv' /\ SleepInv'
  BY AnyStep DEF Kept
<1> QED
  BY <1>1, AnyInit, TypesInvariance, PTL DEF Spec

LEMMA PositionInvariance == "bind" \notin Faults => (Spec => []PositionInv)
<1> SUFFICES ASSUME "bind" \notin Faults PROVE Spec => []PositionInv
  OBVIOUS
<1>1. IInv /\ MediaTypes /\ FlagTypes /\ HandlerInv /\ PositionInv /\ [Next]_vars => PositionInv'
  BY AnyStep DEF Kept
<1> QED
  BY <1>1, AnyInit, TypesInvariance, SleepInvariance, PTL DEF Spec

(* As long as the RTP sockets can be bound, every key of consumer_positions_ *)
(* belongs to a session whose destructor will erase it (Session.cpp:15-20),  *)
(* or to one that SETUP is about to attach (Session.cpp:35-43), whatever the *)
(* clients share: a name that a sender puts back into the map, after another *)
(* session of that name has been unregistered, is that sender's own.         *)
THEOREM NoConsumerIsForgotten ==
  "bind" \notin Faults => (Spec => []RegistrationsHaveAnOwner)
<1> SUFFICES ASSUME "bind" \notin Faults PROVE Spec => []RegistrationsHaveAnOwner
  OBVIOUS
<1>1. PositionInv => RegistrationsHaveAnOwner
  BY DEF PositionInv, RegistrationsHaveAnOwner, Serving, Attaching, At
<1> QED
  BY <1>1, PositionInvariance, PTL

(* The ring has more than one slot.                                          *)
LEMMA NextSlotIsAnother ==
  ASSUME Capacity > 1, NEW p \in Queue!Positions
  PROVE  Queue!slot_after(p) # p /\ Queue!slot_after(p) # Queue!Absent
<1>1. CASE p + 1 < Capacity
  BY <1>1, CapacityAssumption DEF Queue!Positions, Queue!slot_after, Queue!Absent
<1>2. CASE p + 1 = Capacity
  BY <1>2, CapacityAssumption DEF Queue!Positions, Queue!slot_after, Queue!Absent
<1> QED
  BY <1>1, <1>2, CapacityAssumption DEF Queue!Positions

(* The owner of the position that the producer waits for is idle, or it      *)
(* sleeps because another Session of its name has been there: that one is.   *)
LEMMA FullRingHasAnIdleSession ==
  ASSUME Capacity > 1, MediaTypes, RegistrationsHaveAnOwner, SleepInv
  PROVE  StalledStreamHasAnIdleSession
<1> SUFFICES ASSUME Queue!Full, \A o \in Objects : Running(o) => o \in not_empty
             PROVE  \E o \in Objects : /\ Live(o) /\ ~Running(o)
                                       /\ consumer_positions[id[o]] = Queue!slot_after(write_position)
  BY DEF StalledStreamHasAnIdleSession
<1>1. PICK s \in SessionIds : consumer_positions[s] = Queue!slot_after(write_position)
  BY DEF Queue!Full, Queue!is_position_in_use
<1>2. /\ Queue!slot_after(write_position) # write_position
      /\ Queue!slot_after(write_position) # Queue!Absent
  BY NextSlotIsAnother DEF MediaTypes, TrackTypeOK
<1>3. PICK o \in Objects : id[o] = s
  BY <1>1, <1>2 DEF RegistrationsHaveAnOwner, Queue!Registered
<1>4. PICK p \in Objects : id[p] = s /\ ~Running(p)
  <2>1. CASE o \notin not_empty
    BY <1>3, <2>1
  <2>2. CASE o \in not_empty
    BY <1>1, <1>2, <1>3, <2>2 DEF SleepInv, Rested
  <2> QED
    BY <2>1, <2>2
<1>5. Live(p)
  BY <1>4, NullsAssumption DEF Live
<1> QED
  BY <1>1, <1>4, <1>5

(* When the producer and all the senders of a track sleep on a full ring, a  *)
(* session that does not play holds them up, and not a lost notification     *)
(* (CircularQueue.h:37-73): the position that the producer waits for belongs *)
(* to a session without a running sender thread.                             *)
THEOREM AStalledStreamIsHeldUpByAnIdleSession ==
  "bind" \notin Faults /\ Capacity > 1 => (Spec => []StalledStreamHasAnIdleSession)
<1> SUFFICES ASSUME "bind" \notin Faults, Capacity > 1
             PROVE  Spec => []StalledStreamHasAnIdleSession
  OBVIOUS
<1>1. MediaTypes /\ RegistrationsHaveAnOwner /\ SleepInv => StalledStreamHasAnIdleSession
  BY FullRingHasAnIdleSession
<1> QED
  BY <1>1, TypesInvariance, NoConsumerIsForgotten, SleepInvariance, PTL

-----------------------------------------------------------------------------
(***************************************************************************)
(* Registration: from register_session() in SETUP to unregister_session()  *)
(* in the destructor.                                                      *)
(***************************************************************************)
(* A session with a SessionHandler is registered, up to where its destructor *)
(* ends that, and so is one that is about to get one.                        *)
RegInv ==
  /\ \A o \in Objects : handler[o] =>
       Queue!Registered(id[o])
         \/ \E c \in Connections : dying[c] = o /\ pc[c] \in Unregistered
  /\ \A c \in Connections : pc[c] = "attach" => Queue!Registered(id[ref[c]])

Base == IInv /\ OwnInv /\ MediaTypes /\ FlagTypes /\ HandlerInv

LEMMA RegInit == Init => RegInv
BY DEF Init, InitTrack, Queue!Init, RegInv

LEMMA RegStays ==
  ASSUME Base, RegInv, UNCHANGED <<id, handler, pc, ref, dying>>,
         \A s \in SessionIds : Queue!Registered(s) => Queue!Registered(s)'
  PROVE  RegInv'
<1>1. \A o \in Objects : Live(o) => id[o] \in SessionIds
  BY DEF Base, IInv, TypeInv, Live
<1>2. \A o \in Objects : handler[o] => id[o] \in SessionIds
  BY <1>1 DEF Base, HandlerInv
<1>3. \A c \in Connections : pc[c] = "attach" => ref[c] # NoObject
  BY DEF Base, IInv, PcInv, Using
<1>4. \A c \in Connections : pc[c] = "attach" => id[ref[c]] \in SessionIds
  BY <1>1, <1>3, RefIsLive DEF Base
<1> QED
  BY <1>2, <1>4 DEF RegInv

(* A thread goes on: it does not lose track of what it destroys, and does    *)
(* not come to attach a SessionHandler.                                      *)
LEMMA RegMoves ==
  ASSUME IInv, RegInv, NEW c \in Connections, NEW l \in Labels,
         UNCHANGED <<id, handler, consumer_positions>>,
         pc' = [pc EXCEPT ![c] = l],
         \A d \in Connections \ {c} : ref'[d] = ref[d] /\ dying'[d] = dying[d],
         pc[c] \in Unregistered => l \in Unregistered /\ dying'[c] = dying[c],
         l # "attach"
  PROVE  RegInv'
<1>1. pc'[c] = l /\ \A d \in Connections \ {c} : pc'[d] = pc[d]
  BY DEF IInv, TypeInv
<1>2. \A s : Queue!Registered(s) <=> Queue!Registered(s)'
  BY DEF Queue!Registered
<1>3. ASSUME NEW o \in Objects, NEW d \in Connections, dying[d] = o, pc[d] \in Unregistered
      PROVE  dying'[d] = o /\ pc'[d] \in Unregistered
  BY <1>1, <1>3
<1>4. ASSUME NEW o \in Objects, handler'[o]
      PROVE  \/ Queue!Registered(id[o])'
             \/ \E d \in Connections : dying'[d] = o /\ pc'[d] \in Unregistered
  BY <1>2, <1>3, <1>4 DEF RegInv, Live
<1>5. \A d \in Connections : pc'[d] = "attach" => Queue!Registered(id[ref[d]])'
  BY <1>1, <1>2 DEF RegInv
<1> QED
  BY <1>4, <1>5 DEF RegInv

(* The steps that only move a thread.                                        *)
LEMMA RegQuietStep ==
  ASSUME OwnSessions, Base, RegInv, NEW c \in Connections,
         \/ Accept(c) \/ Disconnect(c) \/ SendKills(c) \/ CloseConnection(c) \/ SetupNames(c)
         \/ SetupTestsExists(c) \/ BindFails(c) \/ GetSession(c) \/ ReleaseSession(c)
         \/ PlayTestsExists(c) \/ StartSession(c) \/ ActivateSession(c) \/ StartTrack(c)
         \/ OpenTrack(c) \/ OpenFails(c) \/ SpawnProducer(c) \/ SpawnSender(c)
         \/ PauseTestsExists(c) \/ PauseSession(c) \/ TeardownTestsExists(c)
         \/ TerminateSession(c) \/ StopSession(c) \/ EraseSession(c)
         \/ TestNoConsumer(c) \/ StopTrack(c) \/ JoinProducer(c) \/ CloseTrack(c)
         \/ \E m \in Methods : \E s \in SessionIds \cup {NoId} : Receive(c, m, s)
  PROVE  RegInv'
<1> DEFINE Stay == UNCHANGED <<id, handler, consumer_positions>>
           Calm == Labels \ (Unregistered \cup {"attach"})
<1> USE DEF Base, At, Goto, mediaVars, queueVars, trackVars, tableVars, sessionVars, localVars
(* Outside of start() and the destructor. *)
<1>1. ASSUME Stay, UNCHANGED dying, pc[c] \notin Unregistered,
             \A d \in Connections \ {c} : ref'[d] = ref[d],
             \E l \in Calm : pc' = [pc EXCEPT ![c] = l]
      PROVE  RegInv'
  <2>1. PICK l \in Calm : pc' = [pc EXCEPT ![c] = l]
    BY <1>1
  <2> QED
    BY <1>1, <2>1, RegMoves
<1>2. AfterRequest(c) \in {"closing", "recv"} /\ {"closing", "recv"} \subseteq Calm
  BY DEF AfterRequest, Labels, Unregistered
<1>3. CASE \/ Accept(c) \/ Disconnect(c) \/ SendKills(c) \/ CloseConnection(c) \/ SetupNames(c)
           \/ SetupTestsExists(c) \/ BindFails(c)
           \/ PlayTestsExists(c) \/ PauseTestsExists(c) \/ PauseSession(c)
           \/ TeardownTestsExists(c) \/ StopSession(c)
  <2>1. Stay /\ UNCHANGED <<dying, ref>> /\ pc[c] \notin Unregistered
    BY <1>3 DEF Accept, Disconnect, SendKills, Crash, CloseConnection, SetupNames,
                SetupTestsExists, BindFails, PlayTestsExists, PauseTestsExists, PauseSession, TeardownTestsExists,
                StopSession, Unregistered
  <2>2. {"recv", "closing", "closed", "terminate", "setupExists", "setupGet", "create",
         "release", "playGet", "pauseGet", "join"} \subseteq Calm
    BY DEF Labels, Unregistered
  <2>3. \E l \in {"recv", "closing", "closed", "terminate", "setupExists", "setupGet", "create",
                  "release", "playGet", "pauseGet", "join"} : pc' = [pc EXCEPT ![c] = l]
    BY <1>2, <1>3, KilledInPlace
            DEF Base, Accept, Disconnect, CloseConnection, SetupNames, SetupTestsExists, BindFails, PlayTestsExists, PauseTestsExists, PauseSession,
                TeardownTestsExists, StopSession
  <2> QED
    BY <1>1, <2>1, <2>2, <2>3
<1>4. ASSUME NEW m \in Methods, NEW s \in SessionIds \cup {NoId}, Receive(c, m, s)
      PROVE  RegInv'
  <2>1. FirstLabel(m) \in Calm
    BY DEF FirstLabel, Methods, Labels, Unregistered
  <2>2. /\ Stay /\ UNCHANGED <<dying, ref>> /\ pc[c] \notin Unregistered
        /\ pc' = [pc EXCEPT ![c] = FirstLabel(m)]
    BY <1>4 DEF Receive, Unregistered
  <2> QED
    BY <1>1, <2>1, <2>2
<1>5. CASE GetSession(c)
  <2>1. AfterGet(pc[c]) \in Calm /\ pc[c] \notin Unregistered
    BY <1>5, GetFinds DEF AfterGet, Labels, Unregistered
  <2>2. /\ Stay /\ UNCHANGED dying /\ pc' = [pc EXCEPT ![c] = AfterGet(pc[c])]
        /\ ref' = [ref EXCEPT ![c] = sessions[sid[c]]]
    BY <1>5, GetFinds
  <2>3. \A d \in Connections \ {c} : ref'[d] = ref[d]
    BY <2>2 DEF IInv, TypeInv
  <2> QED
    BY <1>1, <2>1, <2>2, <2>3
<1>6. CASE ReleaseSession(c)
  <2>1. /\ Stay /\ UNCHANGED dying /\ pc' = [pc EXCEPT ![c] = AfterRequest(c)]
        /\ ref' = [ref EXCEPT ![c] = NoObject] /\ pc[c] \notin Unregistered
    BY <1>6, ReleaseGoesOn DEF Unregistered
  <2>2. \A d \in Connections \ {c} : ref'[d] = ref[d]
    BY <2>1 DEF IInv, TypeInv
  <2> QED
    BY <1>1, <1>2, <2>1, <2>2
<1>7. CASE EraseSession(c)
  <2>1. /\ Stay /\ UNCHANGED <<dying, ref>> /\ pc' = [pc EXCEPT ![c] = "stop"]
        /\ pc[c] \notin Unregistered /\ "stop" \in Calm
    BY <1>7, EraseGoesOn DEF Unregistered, Labels
  <2> QED
    BY <1>1, <2>1
<1>8. CASE TerminateSession(c)
  <2>1. Stay /\ UNCHANGED ref /\ pc[c] = "terminate"
    BY <1>8 DEF TerminateSession
  <2>2. \A d \in Connections \ {c} : dying'[d] = dying[d]
    BY <1>8 DEF TerminateSession, IInv, TypeInv
  <2>3. PICK l \in {"stop", "closing", "recv"} : pc' = [pc EXCEPT ![c] = l]
    BY <1>2, <1>8 DEF TerminateSession
  <2>4. l \in Calm /\ pc[c] \notin Unregistered
    BY <2>1, <2>3 DEF Labels, Unregistered
  <2> QED
    BY <2>1, <2>2, <2>3, <2>4, RegMoves
(* In start(). *)
<1>9. Activating \cup {"release"} \subseteq Calm
  BY DEF Labels, Activating, Unregistered
<1>10. CASE \/ StartSession(c) \/ ActivateSession(c) \/ StartTrack(c) \/ OpenTrack(c)
           \/ OpenFails(c)
  <2>1. Stay /\ UNCHANGED <<dying, ref>> /\ pc[c] \notin Unregistered
    BY <1>10 DEF StartSession, ActivateSession, StartTrack, OpenTrack, OpenFails,
                StartActivates, StartOpens, StartFailsToOpen, Queue!set_run, Unregistered
  <2>2. \E l \in Activating \cup {"release"} : pc' = [pc EXCEPT ![c] = l]
    BY <1>10 DEF StartSession, ActivateSession, StartTrack, OpenTrack, OpenFails, Activating
  <2> QED
    BY <1>1, <1>9, <2>1, <2>2
<1>11. CASE SpawnProducer(c) \/ SpawnSender(c)
  <2>1. ASSUME Crash("sender thread destroyed") \/ Crash("producer thread destroyed")
        PROVE  RegInv'
    BY <2>1, RegStays DEF Crash, Queue!Registered
  <2>2. CASE ~Crash("sender thread destroyed") /\ ~Crash("producer thread destroyed")
    <3>1. Stay /\ UNCHANGED <<dying, ref>> /\ pc[c] \notin Unregistered
      BY <1>11, <2>2 DEF SpawnProducer, SpawnSender, StartSpawns, Unregistered
    <3>2. \E l \in Activating \cup {"release"} : pc' = [pc EXCEPT ![c] = l]
      BY <1>11, <2>2 DEF SpawnProducer, SpawnSender, Activating
    <3> QED
      BY <1>1, <1>9, <3>1, <3>2
  <2> QED
    BY <2>1, <2>2
(* In the destructor. *)
<1>12. CASE TestNoConsumer(c) \/ StopTrack(c) \/ JoinProducer(c) \/ CloseTrack(c)
  <2>1. Stay /\ UNCHANGED <<dying, ref>>
    BY <1>12 DEF TestNoConsumer, StopTrack, JoinProducer, CloseTrack, StopSignals, StopJoins,
                 StopEndsAndCloses, Queue!set_exit
  <2>2. \E l \in Unregistered : pc' = [pc EXCEPT ![c] = l]
    BY <1>12 DEF TestNoConsumer, StopTrack, JoinProducer, CloseTrack, Unregistered
  <2>3. \A l \in Unregistered : l \in Labels /\ l # "attach"
    BY DEF Unregistered, Labels
  <2> HIDE DEF Stay
  <2>4. PICK l \in Unregistered : pc' = [pc EXCEPT ![c] = l]
    BY <2>2
  <2> QED
    BY <2>1, <2>3, <2>4, RegMoves DEF Stay
<1> QED
  BY <1>3, <1>4, <1>5, <1>6, <1>7, <1>8, <1>10, <1>11, <1>12

LEMMA RegCreateStep ==
  ASSUME Base, RegInv, NEW c \in Connections, CreateSession(c)
  PROVE  RegInv'
<1> DEFINE o == FreshObject
<1>1. /\ o \in Objects /\ id[o] = NoId /\ id' = [id EXCEPT ![o] = sid[c]]
      /\ ref' = [ref EXCEPT ![c] = o] /\ pc' = [pc EXCEPT ![c] = "register"]
      /\ sid[c] \in SessionIds
      /\ UNCHANGED <<mediaVars, dying, handler>>
  BY CreateIsFirst DEF Base
<1> HIDE DEF o
<1>2. /\ id'[o] # NoId /\ \A p \in Objects \ {o} : id'[p] = id[p]
      /\ pc'[c] = "register" /\ \A d \in Connections \ {c} : pc'[d] = pc[d] /\ ref'[d] = ref[d]
  BY <1>1, NullsAssumption DEF Base, IInv, TypeInv
<1>3. pc[c] \notin Unregistered
  BY CreateIsFirst DEF Base, Unregistered
<1>4. ~handler[o]
  BY <1>1 DEF Base, HandlerInv, Live
<1>5. \A d \in Connections : pc[d] = "attach" => ref[d] \in Objects \ {o}
  BY <1>1, RefIsLive DEF Base, IInv, PcInv, Using, Live
<1>6. \A s : Queue!Registered(s) <=> Queue!Registered(s)'
  BY <1>1 DEF Queue!Registered, mediaVars, queueVars
<1>7. ASSUME NEW p \in Objects, handler'[p]
      PROVE  \/ Queue!Registered(id[p])'
             \/ \E d \in Connections : dying'[d] = p /\ pc'[d] \in Unregistered
  <2>1. handler[p] /\ p # o
    BY <1>1, <1>4, <1>7
  <2>2. Live(p) /\ id'[p] = id[p]
    BY <1>2, <2>1 DEF Base, HandlerInv
  <2>3. ASSUME NEW d \in Connections, dying[d] = p, pc[d] \in Unregistered
        PROVE  dying'[d] = p /\ pc'[d] \in Unregistered
    BY <1>1, <1>2, <1>3, <2>3
  <2> QED
    BY <1>6, <2>1, <2>2, <2>3 DEF RegInv, Live
<1>8. \A d \in Connections : pc'[d] = "attach" => Queue!Registered(id[ref[d]])'
  BY <1>2, <1>5, <1>6 DEF RegInv
<1> QED
  BY <1>7, <1>8 DEF RegInv

LEMMA RegRegisterStep ==
  ASSUME Base, RegInv, NEW c \in Connections, RegisterSession(c)
  PROVE  RegInv'
<1> DEFINE s == id[ref[c]]
<1>1. /\ pc[c] = "register" /\ pc' = [pc EXCEPT ![c] = "attach"]
      /\ consumer_positions' = [consumer_positions EXCEPT ![s] = write_position]
      /\ UNCHANGED <<id, handler, ref, dying>>
  BY DEF RegisterSession, register_session, Queue!register_consumer, At, Goto, sessionVars,
         localVars
<1>2. pc'[c] = "attach" /\ \A d \in Connections \ {c} : pc'[d] = pc[d]
  BY <1>1 DEF Base, IInv, TypeInv
<1>3. ref[c] # NoObject
  BY <1>1, Classes DEF Base, IInv, PcInv
<1>4. ref[c] \in Objects /\ Live(ref[c])
  BY <1>3, RefIsLive DEF Base
<1>5. s \in SessionIds
  BY <1>4 DEF Base, IInv, TypeInv, Live
<1>6. \A t \in SessionIds : Queue!Registered(t)' <=> (t = s \/ Queue!Registered(t))
  BY <1>1, <1>5, CapacityAssumption
     DEF Base, MediaTypes, TrackTypeOK, Queue!Registered, Queue!Absent, Queue!Positions
<1> HIDE DEF s
<1>7. \A p \in Objects : Live(p) => id[p] \in SessionIds
  BY DEF Base, IInv, TypeInv, Live
<1>8. ASSUME NEW p \in Objects, handler'[p]
      PROVE  \/ Queue!Registered(id[p])'
             \/ \E d \in Connections : dying'[d] = p /\ pc'[d] \in Unregistered
  <2>1. ASSUME NEW d \in Connections, pc[d] \in Unregistered PROVE pc'[d] \in Unregistered
    BY <1>1, <1>2, <2>1 DEF Unregistered
  <2> QED
    BY <1>1, <1>6, <1>7, <1>8, <2>1 DEF RegInv, Base, HandlerInv
<1>9. \A d \in Connections : pc'[d] = "attach" => Queue!Registered(id[ref[d]])'
  <2>1. Queue!Registered(id[ref[c]])'
    BY <1>1, <1>5, <1>6 DEF s
  <2>2. ASSUME NEW d \in Connections \ {c}, pc[d] = "attach" PROVE Queue!Registered(id[ref[d]])'
    <3>1. ref[d] \in Objects /\ Live(ref[d])
      BY <2>2, RefIsLive DEF Base, IInv, PcInv, Using
    <3> QED
      BY <1>1, <1>6, <1>7, <2>2, <3>1 DEF RegInv
  <2> QED
    BY <1>2, <2>1, <2>2
<1> QED
  BY <1>8, <1>9 DEF RegInv

LEMMA RegAttachStep ==
  ASSUME Base, RegInv, NEW c \in Connections, AttachHandler(c)
  PROVE  RegInv'
<1> DEFINE o == ref[c]
<1>1. CASE Joinable(sender[o])
  BY <1>1, RegStays DEF AttachHandler, Crash, Base, mediaVars, queueVars, sessionVars, localVars,
                        Queue!Registered
<1>2. CASE ~Joinable(sender[o])
  <2>1. /\ pc[c] = "attach" /\ pc' = [pc EXCEPT ![c] = "release"]
        /\ handler' = [handler EXCEPT ![o] = TRUE]
        /\ UNCHANGED <<id, ref, dying, consumer_positions>>
    BY <1>2 DEF AttachHandler, At, Goto, mediaVars, queueVars, localVars
  <2>2. pc'[c] = "release" /\ \A d \in Connections \ {c} : pc'[d] = pc[d]
    BY <2>1 DEF Base, IInv, TypeInv
  <2>3. o \in Objects /\ Live(o) /\ Queue!Registered(id[o])
    BY <2>1, RefIsLive DEF Base, IInv, PcInv, Using, RegInv
  <2> HIDE DEF o
  <2>4. \A p \in Objects : handler'[p] = (p = o \/ handler[p])
    BY <2>1 DEF Base, FlagTypes
  <2>5. ASSUME NEW d \in Connections, pc[d] \in Unregistered PROVE pc'[d] \in Unregistered
    BY <2>1, <2>2, <2>5 DEF Unregistered
  <2>6. \A s : Queue!Registered(s)' <=> Queue!Registered(s)
    BY <2>1 DEF Queue!Registered
  <2>7. ASSUME NEW p \in Objects, handler'[p]
        PROVE  \/ Queue!Registered(id[p])'
               \/ \E d \in Connections : dying'[d] = p /\ pc'[d] \in Unregistered
    BY <2>1, <2>3, <2>4, <2>5, <2>6, <2>7 DEF RegInv, Live
  <2>8. \A d \in Connections : pc'[d] = "attach" => Queue!Registered(id[ref[d]])'
    BY <2>1, <2>2, <2>6 DEF RegInv
  <2> QED
    BY <2>7, <2>8 DEF RegInv
<1> QED
  BY <1>1, <1>2

LEMMA RegJoinStep ==
  ASSUME Base, RegInv, NEW c \in Connections, JoinSender(c)
  PROVE  RegInv'
<1> DEFINE o == dying[c]
<1>1. /\ pc[c] = "join" /\ pc' = [pc EXCEPT ![c] = AfterJoin(o)]
      /\ UNCHANGED <<id, handler, ref, dying, consumer_positions>>
  BY DEF JoinSender, At, Goto, mediaVars, queueVars, localVars
<1>2. AfterJoin(o) \in {"erase", "unregister"}
  BY DEF AfterJoin
<1>3. pc[c] \notin Unregistered /\ AfterJoin(o) \in Labels /\ AfterJoin(o) # "attach"
  BY <1>1, <1>2 DEF Unregistered, Labels
<1> QED
  BY <1>1, <1>3, RegMoves DEF Base

LEMMA RegUnregisterStep ==
  ASSUME Base, RegInv, NEW c \in Connections, UnregisterSession(c)
  PROVE  RegInv'
<1> DEFINE o == dying[c]
<1>1. /\ pc[c] = "unregister"
      /\ pc' = [pc EXCEPT ![c] = IF handler[o] THEN "noConsumer" ELSE "destroy"]
      /\ UNCHANGED <<id, handler, ref, dying>>
      /\ IF handler[o] THEN consumer_positions' = [consumer_positions EXCEPT ![id[o]] = -1]
                       ELSE UNCHANGED consumer_positions
  BY DEF UnregisterSession, unregister_session, Queue!unregister_consumer, Queue!Absent,
         At, Goto, mediaVars, queueVars, sessionVars, localVars
<1>2. o \in Objects /\ Live(o) /\ Gone(c)
  BY <1>1, Classes DEF Base, IInv, TypeInv, PcInv, DyingInv, Held
<1>3. /\ pc'[c] \in {"noConsumer", "destroy"}
      /\ \A d \in Connections \ {c} : pc'[d] = pc[d]
  BY <1>1 DEF Base, IInv, TypeInv
<1>4. \A p \in Objects : Live(p) /\ p # o => id[p] # id[o]
  BY <1>2 DEF Base, OwnInv, Unique
<1>5. \A s \in SessionIds : s # id[o] => (Queue!Registered(s) => Queue!Registered(s)')
  BY <1>1 DEF Base, MediaTypes, TrackTypeOK, Queue!Registered
<1>6. \A p \in Objects : Live(p) => id[p] \in SessionIds
  BY DEF Base, IInv, TypeInv, Live
<1>7. "noConsumer" \in Unregistered /\ "destroy" \in Unregistered
  BY DEF Unregistered
<1>8. ASSUME NEW p \in Objects, handler'[p]
      PROVE  \/ Queue!Registered(id[p])'
             \/ \E d \in Connections : dying'[d] = p /\ pc'[d] \in Unregistered
  <2>1. handler[p] /\ Live(p)
    BY <1>1, <1>8 DEF Base, HandlerInv, Live
  <2>2. CASE p = o
    BY <1>1, <1>3, <1>7, <2>1, <2>2
  <2>3. CASE p # o
    <3>1. Queue!Registered(id[p]) => Queue!Registered(id[p])'
      BY <1>1, <1>4, <1>5, <1>6, <2>1, <2>3
    <3>2. ASSUME NEW d \in Connections, pc[d] \in Unregistered PROVE pc'[d] \in Unregistered
      BY <1>3, <1>7, <3>2
    <3> QED
      BY <1>1, <2>1, <3>1, <3>2 DEF RegInv
  <2> QED
    BY <2>2, <2>3
<1>9. ASSUME NEW d \in Connections, pc'[d] = "attach" PROVE Queue!Registered(id[ref[d]])'
  <2>1. pc[d] = "attach"
    BY <1>3, <1>9
  <2>2. ref[d] \in Objects /\ Live(ref[d]) /\ ref[d] # o
    BY <1>2, <2>1, RefIsLive DEF Base, IInv, PcInv, Using, Gone
  <2> QED
    BY <1>1, <1>4, <1>5, <1>6, <2>1, <2>2 DEF RegInv
<1> QED
  BY <1>8, <1>9 DEF RegInv

LEMMA RegDestroyStep ==
  ASSUME Base, RegInv, NEW c \in Connections, DestroySession(c)
  PROVE  RegInv'
<1> DEFINE o == dying[c]
<1>1. /\ o \in Objects /\ Gone(c)
      /\ id' = [id EXCEPT ![o] = NoId] /\ handler' = [handler EXCEPT ![o] = FALSE]
      /\ dying' = [dying EXCEPT ![c] = NoObject]
      /\ pc' = [pc EXCEPT ![c] = AfterRequest(c)] /\ pc[c] = "destroy"
      /\ UNCHANGED <<mediaVars, ref>>
  BY DestroyEnds DEF Base
<1>2. AfterRequest(c) \in {"closing", "recv"}
  BY DEF AfterRequest
<1> HIDE DEF o
<1>3. /\ pc'[c] \in {"closing", "recv"}
      /\ \A d \in Connections \ {c} : pc'[d] = pc[d] /\ dying'[d] = dying[d]
  BY <1>1, <1>2 DEF Base, IInv, TypeInv
<1>4. \A p \in Objects : IF p = o THEN id'[p] = NoId /\ handler'[p] = FALSE
                                  ELSE id'[p] = id[p] /\ handler'[p] = handler[p]
  BY <1>1 DEF Base, IInv, TypeInv, FlagTypes
<1>5. \A s : Queue!Registered(s)' <=> Queue!Registered(s)
  BY <1>1 DEF Queue!Registered, mediaVars, queueVars
<1>6. \A d \in Connections : ref[d] # NoObject => ref[d] \in Objects /\ ref[d] # o
  BY <1>1 DEF Gone, Base, IInv, TypeInv, o
<1>7. ASSUME NEW p \in Objects, handler'[p]
      PROVE  \/ Queue!Registered(id[p])'
             \/ \E d \in Connections : dying'[d] = p /\ pc'[d] \in Unregistered
  <2>1. p # o /\ handler[p] /\ id'[p] = id[p]
    BY <1>4, <1>7
  <2>2. ASSUME NEW d \in Connections, dying[d] = p, pc[d] \in Unregistered
        PROVE  dying'[d] = p /\ pc'[d] \in Unregistered
    BY <1>3, <2>1, <2>2 DEF o
  <2> QED
    BY <1>5, <2>1, <2>2 DEF RegInv, Live
<1>8. ASSUME NEW d \in Connections, pc'[d] = "attach" PROVE Queue!Registered(id[ref[d]])'
  <2>1. pc[d] = "attach"
    BY <1>3, <1>8
  <2> QED
    BY <1>1, <1>4, <1>5, <1>6, <2>1 DEF RegInv, Base, IInv, PcInv, Using
<1> QED
  BY <1>7, <1>8 DEF RegInv

(* A sender thread consumes for a session that is registered.                *)
LEMMA SenderIsRegistered ==
  ASSUME Base, RegInv, NEW o \in Objects, sender[o] # NoThread
  PROVE  /\ Live(o) /\ id[o] \in SessionIds /\ Queue!Registered(id[o])
         /\ Queue!Cursor(id[o]) = consumer_positions[id[o]]
         /\ consumer_positions[id[o]] \in Queue!Positions
<1>1. handler[o] /\ Live(o) /\ id[o] \in SessionIds
  BY DEF Base, HandlerInv, IInv, TypeInv, Live
<1>2. \A c \in Connections : dying[c] = o => pc[c] \notin Unregistered
  BY DEF Base, IInv, SenderInv, Late, Unregistered
<1>3. Queue!Registered(id[o])
  BY <1>1, <1>2 DEF RegInv
<1> QED
  BY <1>1, <1>3 DEF Queue!Registered, Queue!Cursor, Base, MediaTypes, TrackTypeOK

LEMMA RegSenderStep ==
  ASSUME Base, RegInv, NEW o \in Objects, SenderRuns(o)
  PROVE  RegInv'
<1>1. sender[o] # NoThread /\ UNCHANGED <<id, handler, pc, ref, dying>>
  BY DEF SenderRuns, SenderTestsActive, SenderWaits, SenderGetsFrame, NoThread, sessionVars,
         localVars
<1>2. \A s \in SessionIds : Queue!Registered(s) => Queue!Registered(s)'
  <2>1. CASE SenderTestsActive(o)
    BY <2>1 DEF SenderTestsActive, mediaVars, queueVars, Queue!Registered
  <2>2. CASE SenderWaits(o) \/ SenderGetsFrame(o)
    <3>1. \E p \in Queue!Positions : consumer_positions' = [consumer_positions EXCEPT ![id[o]] = p]
      BY <1>1, <2>2, SenderIsRegistered, SlotAfter
         DEF SenderWaits, SenderGetsFrame, Queue!ConsumeWaits, Queue!ConsumeTakes,
             Queue!ConsumeExits
    <3>2. \A p \in Queue!Positions : p # Queue!Absent
      BY CapacityAssumption DEF Queue!Positions, Queue!Absent
    <3> QED
      BY <3>1, <3>2 DEF Queue!Registered, Base, MediaTypes, TrackTypeOK
  <2> QED
    BY <2>1, <2>2 DEF SenderRuns
<1> QED
  BY <1>1, <1>2, RegStays

LEMMA RegStep ==
  OwnSessions /\ Base /\ RegInv /\ [Next]_vars => RegInv'
<1> SUFFICES ASSUME OwnSessions, Base, RegInv, [Next]_vars PROVE RegInv'
  OBVIOUS
<1>1. CASE UNCHANGED vars
  BY <1>1, RegStays DEF vars, mediaVars, queueVars, sessionVars, localVars, Queue!Registered
<1>2. CASE ProducerRuns
  <2>1. UNCHANGED <<id, handler, pc, ref, dying, consumer_positions>>
    BY <1>2 DEF ProducerRuns, run_producer, ProducerReadsFrame, ProducerLeavesLoop,
                ProducerWaits, ProducerPutsFrame, ProducerFinishes, Queue!ProduceWaits,
                Queue!ProduceWrites, Queue!set_exit, queueVars, sessionVars, localVars
  <2> QED
    BY <2>1, RegStays DEF Queue!Registered
<1>3. ASSUME NEW o \in Objects, SenderRuns(o) PROVE RegInv'
  BY <1>3, RegSenderStep
<1>4. ASSUME NEW c \in Connections,
             \/ Accept(c) \/ Disconnect(c) \/ SendKills(c) \/ ConnectionRuns(c)
             \/ \E m \in Methods : \E s \in SessionIds \cup {NoId} : Receive(c, m, s)
      PROVE  RegInv'
  BY <1>4, RegQuietStep, RegCreateStep, RegRegisterStep, RegAttachStep,
     RegJoinStep, RegUnregisterStep, RegDestroyStep DEF ConnectionRuns
<1> QED
  BY <1>1, <1>2, <1>3, <1>4 DEF Next

(* What is known so far holds in every state.                                *)
LEMMA BaseInvariance == OwnSessions => (Spec => [](Base /\ RegInv))
<1> SUFFICES ASSUME OwnSessions PROVE Spec => [](Base /\ RegInv)
  OBVIOUS
<1>1. Init => Base /\ RegInv
  BY InitOK, OwnInit, MediaInit, AnyInit, RegInit DEF Base
<1>2. Base /\ RegInv /\ [Next]_vars => (Base /\ RegInv)'
  BY StepOK, OwnStep, MediaStep, AnyStep, RegStep DEF Base, Kept
<1> QED
  BY <1>1, <1>2, PTL DEF Spec

(* A sender thread that may call consume() belongs to a session that is in   *)
(* consumer_positions_ (Session.cpp:54-72,88-101): the threads are joined    *)
(* before ~Session unregisters, and started after SETUP has registered.      *)
THEOREM SendersStayRegistered == OwnSessions => (Spec => []SendersAreRegistered)
<1> SUFFICES ASSUME OwnSessions PROVE Spec => []SendersAreRegistered
  OBVIOUS
<1>1. ASSUME Base, RegInv PROVE SendersAreRegistered
  <2>1. \A o \in Objects : Running(o) => sender[o] # NoThread
    BY DEF Running, NoThread
  <2> QED
    BY <1>1, <2>1, SenderIsRegistered DEF SendersAreRegistered, Base, HandlerInv
<1> QED
  BY <1>1, BaseInvariance, PTL

-----------------------------------------------------------------------------
(***************************************************************************)
(* The queue and its users: with a sender called by the name of its        *)
(* session, every step of the server is a step of module CircularQueue, or *)
(* leaves the queue alone.  The names must be unique, which is what        *)
(* OwnSessions gives: of two senders of one name the second would sleep    *)
(* where the first does already.                                           *)
(***************************************************************************)
LEMMA QueueInit == Init => SessionQueue!Init
<1> SUFFICES ASSUME Init PROVE SessionQueue!Init
  OBVIOUS
<1>1. Queue!Init
  BY DEF Init, InitTrack
<1>2. {id[o] : o \in not_empty} = {}
  BY <1>1 DEF Queue!Init
<1> QED
  BY <1>1, <1>2 DEF Queue!Init, SessionQueue!Init, Queue!Positions, SessionQueue!Positions,
                    Queue!Absent, SessionQueue!Absent

(* The sleepers stay as they are: the queue takes no notice.                 *)
LEMMA QueueStays ==
  ASSUME UNCHANGED <<queueVars>>, \A o \in not_empty : id'[o] = id[o]
  PROVE  UNCHANGED SessionQueue!vars
BY DEF queueVars, SessionQueue!vars

LEMMA QueueProducerStep ==
  ASSUME run_producer, UNCHANGED id
  PROVE  [SessionQueue!Next]_(SessionQueue!vars)
<1>1. CASE ProducerReadsFrame \/ ProducerLeavesLoop
  BY <1>1, QueueStays DEF ProducerReadsFrame, ProducerLeavesLoop
<1>2. CASE ProducerWaits
  <2>1. SessionQueue!ProduceWaits
    BY <1>2 DEF ProducerWaits, Queue!ProduceWaits, SessionQueue!ProduceWaits, Queue!Full,
                SessionQueue!Full, Queue!is_position_in_use, SessionQueue!is_position_in_use,
                Queue!slot_after, SessionQueue!slot_after
  <2> QED
    BY <2>1 DEF SessionQueue!Next, SessionQueue!produce
<1>3. CASE ProducerPutsFrame
  <2>1. SessionQueue!ProduceWrites(Frame)
    BY <1>3 DEF ProducerPutsFrame, Queue!ProduceWrites, SessionQueue!ProduceWrites, Queue!Full,
                SessionQueue!Full, Queue!is_position_in_use, SessionQueue!is_position_in_use,
                Queue!slot_after, SessionQueue!slot_after
  <2> QED
    BY <2>1 DEF SessionQueue!Next, SessionQueue!produce
<1>4. CASE ProducerFinishes
  BY <1>4 DEF ProducerFinishes, Queue!set_exit, SessionQueue!set_exit, SessionQueue!Next
<1> QED
  BY <1>1, <1>2, <1>3, <1>4 DEF run_producer

LEMMA QueueSenderStep ==
  ASSUME Base, RegInv, NEW o \in Objects, SenderRuns(o)
  PROVE  [SessionQueue!Next]_(SessionQueue!vars)
<1>1. CASE SenderTestsActive(o)
  BY <1>1, QueueStays DEF SenderTestsActive, mediaVars
<1>2. CASE SenderWaits(o) \/ SenderGetsFrame(o)
  <2>1. /\ Live(o) /\ id[o] \in SessionIds /\ Queue!Registered(id[o]) /\ UNCHANGED id
    BY <1>2, SenderIsRegistered DEF SenderWaits, SenderGetsFrame, NoThread, sessionVars
  <2>2. PICK s \in SessionIds : s = id[o]
    BY <2>1
  <2>3. o \notin not_empty => s \notin {id[p] : p \in not_empty}
    BY <2>1, <2>2, SleepersHaveSessions DEF Base, OwnInv, Unique
  <2> USE DEF SessionQueue!Consume, SessionQueue!consume, Queue!Registered,
              SessionQueue!Registered, Queue!Cursor, SessionQueue!Cursor, Queue!Absent,
              SessionQueue!Absent
  <2>4. ASSUME SenderWaits(o) PROVE SessionQueue!Consume(s)
    BY <2>1, <2>2, <2>3, <2>4 DEF SenderWaits, Queue!ConsumeWaits, SessionQueue!ConsumeWaits
  <2>5. ASSUME SenderGetsFrame(o) PROVE SessionQueue!Consume(s)
    BY <2>1, <2>2, <2>3, <2>5
       DEF SenderGetsFrame, Queue!ConsumeTakes, SessionQueue!ConsumeTakes, Queue!ConsumeExits,
           SessionQueue!ConsumeExits, Queue!slot_after, SessionQueue!slot_after
  <2> HIDE DEF SessionQueue!Consume
  <2> QED
    BY <1>2, <2>4, <2>5 DEF SessionQueue!Next
<1> QED
  BY <1>1, <1>2 DEF SenderRuns

LEMMA QueueConnectionStep ==
  ASSUME Base, RegInv, NEW c \in Connections,
         \/ Accept(c) \/ Disconnect(c) \/ SendKills(c) \/ ConnectionRuns(c)
         \/ \E m \in Methods : \E s \in SessionIds \cup {NoId} : Receive(c, m, s)
  PROVE  [SessionQueue!Next]_(SessionQueue!vars)
<1>1. ASSUME UNCHANGED queueVars, UNCHANGED id PROVE UNCHANGED SessionQueue!vars
  BY <1>1, QueueStays
<1>2. CASE \/ Accept(c) \/ Disconnect(c) \/ SendKills(c) \/ CloseConnection(c) \/ SetupNames(c)
           \/ SetupTestsExists(c) \/ PlayTestsExists(c) \/ PauseTestsExists(c)
           \/ TeardownTestsExists(c)
           \/ \E m \in Methods : \E s \in SessionIds \cup {NoId} : Receive(c, m, s)
  BY <1>1, <1>2 DEF Accept, Disconnect, SendKills, Crash, CloseConnection, SetupNames,
                SetupTestsExists, PlayTestsExists, PauseTestsExists, TeardownTestsExists, Receive,
                mediaVars, sessionVars
<1>3. CASE \/ AttachHandler(c) \/ BindFails(c) \/ GetSession(c) \/ ReleaseSession(c)
           \/ StartSession(c) \/ ActivateSession(c) \/ SpawnSender(c) \/ PauseSession(c)
  BY <1>1, <1>3 DEF AttachHandler, BindFails, GetSession, ReleaseSession, StartSession,
                ActivateSession, SpawnSender, PauseSession, Crash, mediaVars, sessionVars
<1>4. CASE \/ TerminateSession(c) \/ StopSession(c) \/ JoinSender(c) \/ EraseSession(c)
           \/ TestNoConsumer(c)
  BY <1>1, <1>4 DEF TerminateSession, StopSession, JoinSender, EraseSession, TestNoConsumer,
                mediaVars, sessionVars
<1>5. CASE StartTrack(c) \/ SpawnProducer(c) \/ JoinProducer(c)
  BY <1>1, <1>5 DEF StartTrack, SpawnProducer, JoinProducer, StartActivates, StartSpawns,
                StopJoins, Crash, mediaVars, sessionVars
<1>6. CASE OpenTrack(c) \/ OpenFails(c)
  <2>1. UNCHANGED id /\ (UNCHANGED queueVars \/ (exit /\ Queue!set_run))
    BY <1>6 DEF OpenTrack, OpenFails, StartOpens, StartFailsToOpen, sessionVars
  <2>2. ASSUME exit, Queue!set_run PROVE SessionQueue!Next
    BY <2>1, <2>2 DEF Queue!set_run, SessionQueue!set_run, SessionQueue!Next
  <2> QED
    BY <1>1, <2>1, <2>2
<1>7. CASE StopTrack(c) \/ CloseTrack(c)
  BY <1>7 DEF StopTrack, CloseTrack, StopSignals, StopEndsAndCloses, Queue!set_exit,
              SessionQueue!set_exit, SessionQueue!Next
<1>8. CASE RegisterSession(c)
  <2>1. ref[c] \in Objects /\ Live(ref[c])
    BY <1>8, RefIsLive DEF RegisterSession, At, Base, IInv, PcInv, Using
  <2>2. id[ref[c]] \in SessionIds
    BY <2>1 DEF Base, IInv, TypeInv, Live
  <2>3. SessionQueue!register_consumer(id[ref[c]])
    BY <1>8 DEF RegisterSession, register_session, Queue!register_consumer,
                SessionQueue!register_consumer, sessionVars
  <2> QED
    BY <2>2, <2>3 DEF SessionQueue!Next
<1>9. CASE UnregisterSession(c)
  <2>1. pc[c] = "unregister" /\ UNCHANGED id
    BY <1>9 DEF UnregisterSession, At, sessionVars
  <2>2. /\ dying[c] \in Objects /\ Live(dying[c]) /\ sender[dying[c]] = NoThread
    BY <2>1, Classes DEF Base, IInv, TypeInv, PcInv, DyingInv, SenderInv
  <2>3. id[dying[c]] \in SessionIds
    BY <2>2 DEF Base, IInv, TypeInv, Live
  <2>4. id[dying[c]] \notin {id[o] : o \in not_empty}
    BY <2>2, SleepersHaveSessions DEF NoThread, Base, OwnInv, Unique
  <2>5. CASE handler[dying[c]]
    <3>1. SessionQueue!Unregister(id[dying[c]])
      BY <1>9, <2>1, <2>4, <2>5 DEF UnregisterSession, unregister_session,
         Queue!unregister_consumer, SessionQueue!unregister_consumer, SessionQueue!Unregister,
         Queue!Absent, SessionQueue!Absent
    <3> QED
      BY <2>3, <3>1 DEF SessionQueue!Next
  <2>6. CASE ~handler[dying[c]]
    BY <1>1, <1>9, <2>1, <2>6 DEF UnregisterSession, mediaVars
  <2> QED
    BY <2>5, <2>6
<1>10. CASE CreateSession(c)
  <2>1. /\ id' = [id EXCEPT ![FreshObject] = sid[c]] /\ id[FreshObject] = NoId
        /\ UNCHANGED mediaVars
    BY <1>10, CreateIsFirst DEF Base
  <2> HIDE DEF FreshObject
  <2>2. \A o \in not_empty : id'[o] = id[o]
    BY <2>1, SleepersHaveSessions DEF Live, Base, IInv, TypeInv
  <2> QED
    BY <2>1, <2>2, QueueStays DEF mediaVars
<1>11. CASE DestroySession(c)
  <2>1. /\ id' = [id EXCEPT ![dying[c]] = NoId] /\ sender[dying[c]] = NoThread
        /\ UNCHANGED mediaVars
    BY <1>11, DestroyEnds DEF Base
  <2>2. \A o \in not_empty : id'[o] = id[o]
    BY <2>1, SleepersHaveSessions DEF NoThread, Base, IInv, TypeInv
  <2> QED
    BY <2>1, <2>2, QueueStays DEF mediaVars
<1> QED
  BY <1>2, <1>3, <1>4, <1>5, <1>6, <1>7, <1>8, <1>9, <1>10, <1>11 DEF ConnectionRuns

LEMMA QueueStep ==
  ASSUME Base, RegInv, [Next]_vars
  PROVE  [SessionQueue!Next]_(SessionQueue!vars)
<1>1. CASE UNCHANGED vars
  BY <1>1, QueueStays DEF vars, mediaVars, sessionVars
<1>2. CASE ProducerRuns
  BY <1>2, QueueProducerStep DEF ProducerRuns, sessionVars
<1> QED
  BY <1>1, <1>2, QueueSenderStep, QueueConnectionStep DEF Next

(* The server keeps the rules that CircularQueue sets its users              *)
(* (CircularQueue.h:54-83): a session registers before it consumes, its      *)
(* sender consumes once at a time and is joined before unregister_session()  *)
(* (Session.cpp:12-26,35-43,54-72), one producer at a time calls produce(),  *)
(* and set_exit and set_run come from start(), stop() and run_producer()     *)
(* (MediaSourceHandler.cpp:108-160).                                         *)
THEOREM SessionsKeepTheRulesOfTheQueue == OwnSessions => (Spec => UsesTheQueueByItsRules)
<1> SUFFICES ASSUME OwnSessions PROVE Spec => UsesTheQueueByItsRules
  OBVIOUS
<1>1. Init => SessionQueue!Init
  BY QueueInit
<1>2. Base /\ RegInv /\ [Next]_vars => [SessionQueue!Next]_(SessionQueue!vars)
  BY QueueStep
<1> QED
  BY <1>1, <1>2, BaseInvariance, PTL DEF Spec, UsesTheQueueByItsRules, SessionQueue!Spec

(* The instance that the theorems of CircularQueue_proofs come with is the   *)
(* queue of the model.                                                       *)
LEMMA SameQueue == SessionQueue!Spec => SessionQueueFacts!Spec
<1>1. SessionQueue!Init => SessionQueueFacts!Init
  BY DEF SessionQueue!Init, SessionQueueFacts!Init, SessionQueue!Positions,
         SessionQueueFacts!Positions, SessionQueue!Absent, SessionQueueFacts!Absent
<1>2. [SessionQueue!Next]_(SessionQueue!vars) => [SessionQueueFacts!Next]_(SessionQueueFacts!vars)
  BY DEF SessionQueue!Next, SessionQueueFacts!Next, SessionQueue!vars, SessionQueueFacts!vars,
     SessionQueue!produce, SessionQueueFacts!produce,
     SessionQueue!ProduceWaits, SessionQueueFacts!ProduceWaits,
     SessionQueue!ProduceWrites, SessionQueueFacts!ProduceWrites,
     SessionQueue!Full, SessionQueueFacts!Full,
     SessionQueue!is_position_in_use, SessionQueueFacts!is_position_in_use,
     SessionQueue!slot_after, SessionQueueFacts!slot_after,
     SessionQueue!Consume, SessionQueueFacts!Consume,
     SessionQueue!consume, SessionQueueFacts!consume,
     SessionQueue!ConsumeWaits, SessionQueueFacts!ConsumeWaits,
     SessionQueue!ConsumeTakes, SessionQueueFacts!ConsumeTakes,
     SessionQueue!ConsumeExits, SessionQueueFacts!ConsumeExits,
     SessionQueue!Cursor, SessionQueueFacts!Cursor,
     SessionQueue!Absent, SessionQueueFacts!Absent,
     SessionQueue!Registered, SessionQueueFacts!Registered,
     SessionQueue!register_consumer, SessionQueueFacts!register_consumer,
     SessionQueue!Unregister, SessionQueueFacts!Unregister,
     SessionQueue!unregister_consumer, SessionQueueFacts!unregister_consumer,
     SessionQueue!set_exit, SessionQueueFacts!set_exit,
     SessionQueue!set_run, SessionQueueFacts!set_run,
     SessionQueue!SpuriousWakeup, SessionQueueFacts!SpuriousWakeup
<1> QED
  BY <1>1, <1>2, PTL DEF SessionQueue!Spec, SessionQueueFacts!Spec

(* Whatever clients with sessions of their own do, the ring is to them what  *)
(* FrameFifos says (CircularQueue.h:30-101): a registered session has a FIFO *)
(* of its own of fewer than Capacity frames, misses none while the stream    *)
(* runs, takes each once, and holds up the producer only when it is full.    *)
(* Frames are all alike in this module, so their order is what               *)
(* RingImplementsFifos says of the queue itself.                             *)
THEOREM SessionsAreServedByFifos ==
  OwnSessions => (Spec => SessionQueueFacts!ImplementsFrameFifos)
<1> SUFFICES ASSUME OwnSessions PROVE Spec => SessionQueueFacts!ImplementsFrameFifos
  OBVIOUS
<1>1. SessionQueueFacts!Spec => SessionQueueFacts!ImplementsFrameFifos
  <2>1. Capacity \in Nat \ {0} /\ NoFrame \notin {Frame}
    BY CapacityAssumption, FrameAssumption
  <2> QED
    BY <2>1, SessionQueueFacts!RingImplementsFifos
<1> QED
  BY <1>1, SessionsKeepTheRulesOfTheQueue, SameQueue, PTL DEF UsesTheQueueByItsRules

-----------------------------------------------------------------------------
(***************************************************************************)
(* The track: start() in PLAY and stop() in the destructor of the last     *)
(* session.                                                                *)
(***************************************************************************)
(* From the test of the SessionHandler to the end of start(); stop() of the  *)
(* track.                                                                    *)
Starting == Activating \cup {"start"}
Stopping == {"trackStop", "trackJoin", "trackClose"}

(* While the track is stopped, the sessions that PLAYs have found have no    *)
(* SessionHandler to start; the file is open when the thread that reads it   *)
(* is made, and closed when that thread has been joined.                     *)
TrackInv ==
  /\ \A c, d \in Connections : pc[c] \in Starting /\ pc[d] \in Stopping => ~handler[ref[c]]
  /\ \A c \in Connections : pc[c] = "spawnProducer" => file # Closed
  /\ \A c \in Connections : pc[c] = "trackClose" => producer = NoThread
  /\ ProducerHasOpenFile

LEMMA TrackInit == Init => TrackInv
BY DEF Init, InitTrack, TrackInv, Starting, Activating, ProducerHasOpenFile, Producing, NoThread

LEMMA StartIsNotStop ==
  ASSUME Base, TrackInv, NEW c \in Connections, pc[c] \in Activating
  PROVE  \A d \in Connections : pc[d] \notin Stopping
BY DEF TrackInv, Starting, Base, HandlerInv

(* Whoever stops the track holds the mutex.                                  *)
LEMMA StopIsLocked ==
  ASSUME Base, NEW d \in Connections, pc[d] \in Stopping
  PROVE  lock = d /\ ~LockFree
<1>1. dying[d] # NoObject
  BY DEF Stopping, Base, IInv, PcInv, Dying, Late
<1> QED
  BY <1>1, NullsAssumption DEF Base, OwnInv, Own, LockFree

LEMMA RefsApart ==
  ASSUME OwnSessions, Base, NEW c \in Connections, NEW d \in Connections \ {c},
         ref[c] # NoObject
  PROVE  ref[d] # ref[c]
<1>1. Live(ref[c])
  BY RefIsLive DEF Base
<1> QED
  BY <1>1, Apart DEF Base, OwnInv, Own, Live

LEMMA TrackStays ==
  ASSUME TrackInv, UNCHANGED <<pc, handler, ref, file, producer>>
  PROVE  TrackInv'
BY DEF TrackInv, ProducerHasOpenFile, Producing

(* A thread goes on, outside of start() and stop() of the track.             *)
LEMMA TrackMoves ==
  ASSUME Base, TrackInv, NEW c \in Connections, UNCHANGED <<file, producer>>,
         \E l \in Labels \ (Starting \cup Stopping) : pc' = [pc EXCEPT ![c] = l],
         \A d \in Connections \ {c} : ref'[d] = ref[d],
         \A d \in Connections \ {c} : pc[d] \in Starting /\ handler'[ref[d]] => handler[ref[d]]
  PROVE  TrackInv'
<1>1. PICK l \in Labels \ (Starting \cup Stopping) : pc' = [pc EXCEPT ![c] = l]
  OBVIOUS
<1>2. pc'[c] = l /\ \A d \in Connections \ {c} : pc'[d] = pc[d]
  BY <1>1 DEF Base, IInv, TypeInv
<1>3. "spawnProducer" \in Starting /\ "trackClose" \in Stopping
  BY DEF Starting, Activating, Stopping
<1>4. ASSUME NEW d \in Connections, NEW e \in Connections, pc'[d] \in Starting,
             pc'[e] \in Stopping
      PROVE  ~handler'[ref'[d]]
  <2>1. d # c /\ e # c
    BY <1>2, <1>4
  <2> QED
    BY <1>2, <1>4, <2>1 DEF TrackInv
<1>5. \A d \in Connections : /\ pc'[d] = "spawnProducer" => file' # Closed
                             /\ pc'[d] = "trackClose" => producer' = NoThread
  BY <1>2, <1>3 DEF TrackInv
<1>6. ProducerHasOpenFile'
  BY DEF TrackInv, ProducerHasOpenFile, Producing
<1> QED
  BY <1>4, <1>5, <1>6 DEF TrackInv

LEMMA TrackCalmStep ==
  ASSUME OwnSessions, Base, RegInv, TrackInv, NEW c \in Connections,
         \/ Accept(c) \/ Disconnect(c) \/ SendKills(c) \/ CloseConnection(c) \/ SetupNames(c)
         \/ SetupTestsExists(c) \/ CreateSession(c) \/ RegisterSession(c) \/ AttachHandler(c)
         \/ BindFails(c) \/ ReleaseSession(c) \/ PlayTestsExists(c) \/ OpenFails(c)
         \/ SpawnSender(c) \/ PauseTestsExists(c) \/ PauseSession(c)
         \/ TeardownTestsExists(c) \/ TerminateSession(c) \/ StopSession(c)
         \/ JoinSender(c) \/ EraseSession(c) \/ UnregisterSession(c) \/ DestroySession(c)
         \/ \E m \in Methods : \E s \in SessionIds \cup {NoId} : Receive(c, m, s)
  PROVE  TrackInv'
<1> DEFINE Calm == Labels \ (Starting \cup Stopping)
           Stay == UNCHANGED <<file, producer>>
<1> USE DEF At, Goto, mediaVars, trackVars, tableVars, sessionVars, localVars
<1>1. AfterRequest(c) \in {"closing", "recv"} /\ {"closing", "recv"} \subseteq Calm
  BY DEF AfterRequest, Labels, Starting, Activating, Stopping
<1>2. CASE \/ Accept(c) \/ Disconnect(c) \/ SendKills(c) \/ CloseConnection(c) \/ SetupNames(c)
           \/ SetupTestsExists(c) \/ RegisterSession(c) \/ BindFails(c) \/ PlayTestsExists(c)
           \/ OpenFails(c)
  <2>1. {"recv", "closing", "closed", "terminate", "setupExists", "setupGet", "create",
         "attach", "release", "playGet"} \subseteq Calm
    BY DEF Labels, Starting, Activating, Stopping
  <2>2. /\ Stay /\ UNCHANGED <<handler, ref>>
        /\ \E l \in {"recv", "closing", "closed", "terminate", "setupExists", "setupGet",
                     "create", "attach", "release", "playGet"} : pc' = [pc EXCEPT ![c] = l]
    BY <1>2, KilledInPlace
            DEF Base, Accept, Disconnect, SendKills, Crash, CloseConnection, SetupNames,
                SetupTestsExists, RegisterSession, register_session, BindFails, PlayTestsExists, OpenFails,
                StartFailsToOpen
  <2> QED
    BY <2>1, <2>2, TrackMoves
<1>3. CASE \/ PauseTestsExists(c) \/ PauseSession(c) \/ TeardownTestsExists(c)
           \/ TerminateSession(c) \/ StopSession(c) \/ JoinSender(c) \/ UnregisterSession(c)
  <2>1. {"recv", "closing", "pauseGet", "release", "terminate", "stop", "join", "erase",
         "unregister", "noConsumer", "destroy"} \subseteq Calm
    BY DEF Labels, Starting, Activating, Stopping
  <2>2. /\ Stay /\ UNCHANGED <<handler, ref>>
        /\ \E l \in {"recv", "closing", "pauseGet", "release", "terminate", "stop", "join",
                     "erase", "unregister", "noConsumer", "destroy"} : pc' = [pc EXCEPT ![c] = l]
    BY <1>1, <1>3 DEF PauseTestsExists, PauseSession, TeardownTestsExists, TerminateSession,
                StopSession, JoinSender, AfterJoin, UnregisterSession, unregister_session
  <2> QED
    BY <2>1, <2>2, TrackMoves
<1>4. CASE SpawnSender(c)
  <2>1. CASE Joinable(sender[ref[c]])
    BY <1>4, <2>1, TrackStays DEF SpawnSender, Crash
  <2>2. CASE ~Joinable(sender[ref[c]])
    <3>1. "release" \in Calm
      BY DEF Labels, Starting, Activating, Stopping
    <3>2. Stay /\ UNCHANGED <<handler, ref>> /\ pc' = [pc EXCEPT ![c] = "release"]
      BY <1>4, <2>2 DEF SpawnSender
    <3> QED
      BY <3>1, <3>2, TrackMoves
  <2> QED
    BY <2>1, <2>2
<1>5. CASE AttachHandler(c)
  <2>1. CASE Joinable(sender[ref[c]])
    BY <1>5, <2>1, TrackStays DEF AttachHandler, Crash
  <2>2. CASE ~Joinable(sender[ref[c]])
    <3>1. "release" \in Calm
      BY DEF Labels, Starting, Activating, Stopping
    <3>2. /\ Stay /\ UNCHANGED ref /\ pc' = [pc EXCEPT ![c] = "release"]
          /\ handler' = [handler EXCEPT ![ref[c]] = TRUE]
          /\ pc[c] = "attach"
      BY <1>5, <2>2 DEF AttachHandler
    <3>3. \A d \in Connections \ {c} : ref[d] # ref[c]
      BY <3>2, RefsApart DEF Base, IInv, PcInv, Using
    <3>4. \A d \in Connections \ {c} : handler'[ref[d]] => handler[ref[d]]
      BY <3>2, <3>3 DEF Base, FlagTypes
    <3> QED
      BY <3>1, <3>2, <3>4, TrackMoves
  <2> QED
    BY <2>1, <2>2
<1>6. CASE CreateSession(c)
  <2>1. "register" \in Calm
    BY DEF Labels, Starting, Activating, Stopping
  <2>2. /\ Stay /\ UNCHANGED handler /\ pc' = [pc EXCEPT ![c] = "register"]
        /\ ref' = [ref EXCEPT ![c] = FreshObject]
    BY <1>6, CreateIsFirst DEF Base
  <2> HIDE DEF FreshObject
  <2>3. \A d \in Connections \ {c} : ref'[d] = ref[d]
    BY <2>2 DEF Base, IInv, TypeInv
  <2> QED
    BY <2>1, <2>2, <2>3, TrackMoves
<1>7. CASE ReleaseSession(c)
  <2>1. /\ Stay /\ UNCHANGED handler /\ pc' = [pc EXCEPT ![c] = AfterRequest(c)]
        /\ ref' = [ref EXCEPT ![c] = NoObject]
    BY <1>7, ReleaseGoesOn DEF Base
  <2>2. \A d \in Connections \ {c} : ref'[d] = ref[d]
    BY <2>1 DEF Base, IInv, TypeInv
  <2> QED
    BY <1>1, <2>1, <2>2, TrackMoves
<1>8. CASE EraseSession(c)
  <2>1. "stop" \in Calm
    BY DEF Labels, Starting, Activating, Stopping
  <2>2. Stay /\ UNCHANGED <<handler, ref>> /\ pc' = [pc EXCEPT ![c] = "stop"]
    BY <1>8, EraseGoesOn DEF Base
  <2> QED
    BY <2>1, <2>2, TrackMoves
<1>9. CASE DestroySession(c)
  <2>1. /\ Stay /\ UNCHANGED ref /\ pc' = [pc EXCEPT ![c] = AfterRequest(c)]
        /\ handler' = [handler EXCEPT ![dying[c]] = FALSE]
    BY <1>9, DestroyEnds DEF Base
  <2>2. \A p : handler'[p] => handler[p]
    BY <2>1 DEF Base, FlagTypes
  <2> QED
    BY <1>1, <2>1, <2>2, TrackMoves
<1>10. ASSUME NEW m \in Methods, NEW s \in SessionIds \cup {NoId}, Receive(c, m, s)
       PROVE  TrackInv'
  <2>1. FirstLabel(m) \in Calm
    BY DEF FirstLabel, Methods, Labels, Starting, Activating, Stopping
  <2>2. Stay /\ UNCHANGED <<handler, ref>> /\ pc' = [pc EXCEPT ![c] = FirstLabel(m)]
    BY <1>10 DEF Receive
  <2> QED
    BY <2>1, <2>2, TrackMoves
<1> QED
  BY <1>2, <1>3, <1>4, <1>5, <1>6, <1>7, <1>8, <1>9, <1>10

(* get_session() needs the mutex that whoever stops the track holds.         *)
LEMMA TrackGetStep ==
  ASSUME Base, RegInv, TrackInv, NEW c \in Connections, GetSession(c)
  PROVE  TrackInv'
<1>1. /\ pc' = [pc EXCEPT ![c] = AfterGet(pc[c])] /\ AfterGet(pc[c]) \in {"register", "start", "pause"}
      /\ ref' = [ref EXCEPT ![c] = sessions[sid[c]]]
      /\ UNCHANGED <<handler, file, producer>>
  BY GetFinds DEF Base, AfterGet, mediaVars, trackVars
<1>2. /\ pc'[c] \in {"register", "start", "pause"}
      /\ \A d \in Connections \ {c} : pc'[d] = pc[d] /\ ref'[d] = ref[d]
  BY <1>1 DEF Base, IInv, TypeInv
<1>3. \A d \in Connections : pc'[d] \notin Stopping
  <2>1. LockFree
    BY DEF GetSession
  <2>2. {"register", "start", "pause"} \cap Stopping = {}
    BY DEF Stopping
  <2> QED
    BY <1>2, <2>1, <2>2, StopIsLocked
<1>4. "trackClose" \in Stopping
  BY DEF Stopping
<1>5. \A d \in Connections : pc'[d] = "spawnProducer" => file' # Closed
  BY <1>1, <1>2 DEF TrackInv
<1>6. ProducerHasOpenFile'
  BY <1>1 DEF TrackInv, ProducerHasOpenFile, Producing
<1> QED
  BY <1>3, <1>4, <1>5, <1>6 DEF TrackInv

(* The steps of start(): nobody stops the track meanwhile.                   *)
LEMMA TrackStartStep ==
  ASSUME Base, RegInv, TrackInv, NEW c \in Connections,
         \/ StartSession(c) \/ ActivateSession(c) \/ StartTrack(c) \/ OpenTrack(c)
         \/ SpawnProducer(c)
  PROVE  TrackInv'
<1> USE DEF At, Goto, localVars, sessionVars
<1>1. CASE SpawnProducer(c) /\ Joinable(producer)
  BY <1>1, TrackStays DEF SpawnProducer, Crash, mediaVars, trackVars
<1>2. CASE StartSession(c) /\ ~(handler[ref[c]] /\ ~playing[ref[c]])
  <2>1. UNCHANGED <<handler, ref, file, producer>> /\ pc' = [pc EXCEPT ![c] = "release"]
    BY <1>2 DEF StartSession, mediaVars, trackVars
  <2>2. "release" \in Labels \ (Starting \cup Stopping)
    BY DEF Labels, Starting, Activating, Stopping
  <2> QED
    BY <2>1, <2>2, TrackMoves
<1>3. CASE ~(SpawnProducer(c) /\ Joinable(producer))
           /\ ~(StartSession(c) /\ ~(handler[ref[c]] /\ ~playing[ref[c]]))
  <2>1. \A d \in Connections : pc[d] \notin Stopping
    <3>1. CASE StartSession(c)
      <4>1. pc[c] \in Starting /\ handler[ref[c]]
        BY <1>3, <3>1 DEF StartSession, Starting
      <4> QED
        BY <4>1 DEF TrackInv
    <3>2. CASE ~StartSession(c)
      <4>1. pc[c] \in Activating
        BY <3>2 DEF ActivateSession, StartTrack, OpenTrack, SpawnProducer, Activating
      <4> QED
        BY <4>1, StartIsNotStop
    <3> QED
      BY <3>1, <3>2
  <2>2. /\ UNCHANGED <<handler, ref>>
        /\ \E l \in Activating : pc' = [pc EXCEPT ![c] = l] /\ (l = "spawnProducer" => OpenTrack(c))
    BY <1>3 DEF StartSession, ActivateSession, StartTrack, OpenTrack, SpawnProducer, Activating
  <2>3. PICK l \in Activating : pc' = [pc EXCEPT ![c] = l] /\ (l = "spawnProducer" => OpenTrack(c))
    BY <2>2
  <2>4. pc'[c] = l /\ \A d \in Connections \ {c} : pc'[d] = pc[d]
    BY <2>3 DEF Base, IInv, TypeInv
  <2>5. \A d \in Connections : pc'[d] \notin Stopping
    BY <2>1, <2>3, <2>4 DEF Activating, Stopping
  <2>6. /\ file' = file \/ file' # Closed
        /\ OpenTrack(c) => file' # Closed
        /\ Producing' => Producing \/ (pc[c] = "spawnProducer" /\ UNCHANGED file)
    <3>1. FileFrames # Closed
      BY FileFramesAssumption DEF Closed
    <3>2. CASE OpenTrack(c)
      BY <3>1, <3>2 DEF OpenTrack, StartOpens, Producing
    <3>3. CASE ~OpenTrack(c)
      BY <3>3 DEF StartSession, ActivateSession, StartTrack, SpawnProducer, StartActivates,
                  StartSpawns, Crash, Producing, mediaVars, trackVars
    <3> QED
      BY <3>2, <3>3
  <2>7. \A d \in Connections : pc'[d] = "spawnProducer" => file' # Closed
    BY <2>3, <2>4, <2>6 DEF TrackInv
  <2>8. ProducerHasOpenFile'
    BY <2>6 DEF TrackInv, ProducerHasOpenFile
  <2> QED
    BY <2>5, <2>7, <2>8 DEF TrackInv, Stopping
<1> QED
  BY <1>1, <1>2, <1>3

(* The last session has left the queue: no SessionHandler can be started.    *)
LEMMA NobodyCanStart ==
  ASSUME Base, RegInv, Queue!no_consumer, NEW c \in Connections, pc[c] \in Starting
  PROVE  ~handler[ref[c]]
<1>1. ref[c] # NoObject
  BY DEF Base, IInv, PcInv, Starting, Activating, Using
<1>2. ref[c] \in Objects /\ Live(ref[c]) /\ id[ref[c]] \in SessionIds
  BY <1>1, RefIsLive DEF Base, IInv, TypeInv, Live
<1>3. ~Queue!Registered(id[ref[c]])
  BY <1>2 DEF Queue!no_consumer, Queue!Registered
<1>4. ASSUME NEW d \in Connections, pc[d] \in Unregistered PROVE dying[d] # ref[c]
  <2>1. dying[d] # NoObject /\ pc[d] \notin {"stop", "join", "erase"}
    BY <1>4 DEF Base, IInv, PcInv, Dying, Late, Unregistered
  <2>2. Gone(d)
    BY <2>1 DEF Base, IInv, DyingInv, Held
  <2> QED
    BY <2>2 DEF Gone
<1> QED
  BY <1>2, <1>3, <1>4 DEF RegInv, Base, HandlerInv

LEMMA TrackStopStep ==
  ASSUME Base, RegInv, TrackInv, NEW c \in Connections,
         TestNoConsumer(c) \/ StopTrack(c) \/ JoinProducer(c) \/ CloseTrack(c)
  PROVE  TrackInv'
<1> USE DEF At, Goto, localVars, sessionVars, mediaVars, trackVars
<1>1. /\ pc[c] \in {"noConsumer", "trackStop", "trackJoin", "trackClose"}
      /\ UNCHANGED <<handler, ref>>
      /\ \E l \in {"trackStop", "trackJoin", "trackClose", "destroy"} : pc' = [pc EXCEPT ![c] = l]
      /\ pc'[c] \in Stopping => pc[c] \in Stopping \/ Queue!no_consumer
  BY DEF TestNoConsumer, StopTrack, JoinProducer, CloseTrack, Stopping, Base, IInv, TypeInv
<1>2. /\ pc'[c] \in {"trackStop", "trackJoin", "trackClose", "destroy"}
      /\ \A d \in Connections \ {c} : pc'[d] = pc[d]
  BY <1>1 DEF Base, IInv, TypeInv
<1>3. {"trackStop", "trackJoin", "trackClose", "destroy"} \cap Starting = {}
  BY DEF Starting, Activating
<1>4. ASSUME NEW d \in Connections, NEW e \in Connections, pc'[d] \in Starting, pc'[e] \in Stopping
      PROVE  ~handler'[ref'[d]]
  <2>1. d # c /\ pc[d] \in Starting
    BY <1>2, <1>3, <1>4
  <2>2. CASE pc[e] \in Stopping
    BY <1>1, <2>1, <2>2 DEF TrackInv
  <2>3. CASE pc[e] \notin Stopping
    <3>1. Queue!no_consumer
      BY <1>1, <1>2, <1>4, <2>3
    <3> QED
      BY <1>1, <2>1, <3>1, NobodyCanStart
  <2> QED
    BY <2>2, <2>3
<1>5. CASE TestNoConsumer(c) \/ StopTrack(c)
  <2>1. UNCHANGED <<file, producer>> /\ pc'[c] # "trackClose"
    BY <1>5 DEF TestNoConsumer, StopTrack, StopSignals, Base, IInv, TypeInv
  <2> QED
    BY <1>2, <1>4, <2>1 DEF TrackInv, ProducerHasOpenFile, Producing
<1>6. CASE JoinProducer(c)
  <2>1. UNCHANGED file /\ producer' = NoThread
    BY <1>6 DEF JoinProducer, StopJoins
  <2> QED
    BY <1>2, <1>4, <2>1 DEF TrackInv, ProducerHasOpenFile, Producing, NoThread
<1>7. CASE CloseTrack(c)
  <2>1. pc[c] = "trackClose" /\ UNCHANGED producer
    BY <1>7 DEF CloseTrack, StopEndsAndCloses
  <2>2. \A d \in Connections : pc[d] # "spawnProducer"
    BY <2>1, StartIsNotStop DEF Activating, Stopping
  <2> QED
    BY <1>2, <1>4, <2>1, <2>2 DEF TrackInv, ProducerHasOpenFile, Producing, NoThread
<1> QED
  BY <1>5, <1>6, <1>7

LEMMA TrackProducerStep ==
  ASSUME Base, TrackInv, ProducerRuns
  PROVE  TrackInv'
<1>1. /\ UNCHANGED <<pc, handler, ref>> /\ producer # NoThread
      /\ producer' # NoThread
  BY DEF ProducerRuns, run_producer, ProducerReadsFrame, ProducerLeavesLoop, ProducerWaits,
         ProducerPutsFrame, ProducerFinishes, trackVars, NoThread, sessionVars, localVars
<1>2. file' = file \/ file' # Closed
  BY FileFramesAssumption
     DEF ProducerRuns, run_producer, ProducerReadsFrame, ProducerLeavesLoop, ProducerWaits,
         ProducerPutsFrame, ProducerFinishes, trackVars, Closed, Base, MediaTypes, TrackTypeOK
<1>3. Producing' => Producing
  BY DEF ProducerRuns, run_producer, ProducerReadsFrame, ProducerLeavesLoop, ProducerWaits,
         ProducerPutsFrame, ProducerFinishes, trackVars, Producing
<1> QED
  BY <1>1, <1>2, <1>3 DEF TrackInv, ProducerHasOpenFile

LEMMA TrackStep ==
  OwnSessions /\ Base /\ RegInv /\ TrackInv /\ [Next]_vars => TrackInv'
<1> SUFFICES ASSUME OwnSessions, Base, RegInv, TrackInv, [Next]_vars PROVE TrackInv'
  OBVIOUS
<1>1. CASE UNCHANGED vars
  BY <1>1, TrackStays DEF vars, mediaVars, trackVars, sessionVars, localVars
<1>2. CASE ProducerRuns
  BY <1>2, TrackProducerStep
<1>3. ASSUME NEW o \in Objects, SenderRuns(o) PROVE TrackInv'
  BY <1>3, TrackStays DEF SenderRuns, SenderTestsActive, SenderWaits, SenderGetsFrame,
                          mediaVars, trackVars, sessionVars, localVars
<1>4. ASSUME NEW c \in Connections,
             \/ Accept(c) \/ Disconnect(c) \/ SendKills(c) \/ ConnectionRuns(c)
             \/ \E m \in Methods : \E s \in SessionIds \cup {NoId} : Receive(c, m, s)
      PROVE  TrackInv'
  BY <1>4, TrackCalmStep, TrackGetStep, TrackStartStep, TrackStopStep DEF ConnectionRuns
<1> QED
  BY <1>1, <1>2, <1>3, <1>4 DEF Next

LEMMA TrackInvariance == OwnSessions => (Spec => []TrackInv)
<1> SUFFICES ASSUME OwnSessions PROVE Spec => []TrackInv
  OBVIOUS
<1>1. Base /\ RegInv /\ TrackInv /\ [Next]_vars => TrackInv'
  BY TrackStep
<1> QED
  BY <1>1, TrackInit, BaseInvariance, PTL DEF Spec

(* start() and stop() of a track never overlap, though they share            *)
(* is_active_, the file and the thread pointer without a lock                *)
(* (MediaSourceHandler.cpp:127-160): sessions_mutex_ keeps get_session() out *)
(* while the last session leaves.                                            *)
THEOREM TrackStartsAndStopsApart == OwnSessions => (Spec => []TrackIsNotStartedWhileStopped)
<1> SUFFICES ASSUME OwnSessions PROVE Spec => []TrackIsNotStartedWhileStopped
  OBVIOUS
<1>1. ASSUME Base, TrackInv PROVE TrackIsNotStartedWhileStopped
  BY <1>1, StartIsNotStop DEF TrackIsNotStartedWhileStopped, Activating, Stopping
<1> QED
  BY <1>1, BaseInvariance, TrackInvariance, PTL

(* run_producer() reads a file that is open                                  *)
(* (MediaSourceHandler.cpp:108-121): stop() joins the thread before it       *)
(* closes the file, and start() opens the file before it makes the thread.   *)
THEOREM ProducerReadsAnOpenFile == OwnSessions => (Spec => []ProducerHasOpenFile)
<1> SUFFICES ASSUME OwnSessions PROVE Spec => []ProducerHasOpenFile
  OBVIOUS
<1>1. TrackInv => ProducerHasOpenFile
  BY DEF TrackInv
<1> QED
  BY <1>1, TrackInvariance, PTL

-----------------------------------------------------------------------------
(***************************************************************************)
(* Connections and what becomes of their sessions.                         *)
(***************************************************************************)
(* From terminate_session() to the end of the destructor.                    *)
Ending == Dying \cup {"terminate"}

(* SETUP makes a session with a name that no session has, once.              *)
Once(c) ==
  /\ pc[c] = "closed" => own[c] = NoId
  /\ pc[c] = "setup" => own[c] = NoId /\ sid[c] = NoId
  /\ pc[c] \in {"setupExists", "create"} => own[c] = sid[c] /\ \A o \in Objects : id[o] # sid[c]
  /\ pc[c] # "setupGet"

(* c's destructor will terminate the session o, or its TEARDOWN is about to. *)
Keeps(c, o) == id[o] = own[c] \/ (id[o] = sid[c] /\ pc[c] \in Ending)

(* A session has a connection that remembers it until it terminates it.      *)
OwnerInv ==
  /\ \A c \in Connections : Once(c)
  /\ \A o \in Objects : Live(o) => \E c \in Connections : Keeps(c, o)

LEMMA OwnerInit == Init => OwnerInv
BY DEF Init, OwnerInv, Once, Live

LEMMA OwnerStays ==
  ASSUME OwnerInv, UNCHANGED <<id, pc, sid, own>>
  PROVE  OwnerInv'
BY DEF OwnerInv, Once, Keeps, Live

(* A thread goes on and no session comes or goes.                            *)
LEMMA OwnerMoves ==
  ASSUME Base, OwnerInv, NEW c \in Connections, NEW l \in Labels,
         UNCHANGED id, pc' = [pc EXCEPT ![c] = l],
         \A d \in Connections \ {c} : sid'[d] = sid[d] /\ own'[d] = own[d],
         Once(c)',
         \A o \in Objects : Live(o) /\ Keeps(c, o) => Keeps(c, o)'
  PROVE  OwnerInv'
<1>1. \A d \in Connections \ {c} : pc'[d] = pc[d]
  BY DEF Base, IInv, TypeInv
<1>2. ASSUME NEW d \in Connections \ {c}
      PROVE  Once(d)' /\ \A o \in Objects : Keeps(d, o) => Keeps(d, o)'
  BY <1>1 DEF OwnerInv, Once, Keeps
<1> QED
  BY <1>2 DEF OwnerInv, Live

LEMMA OwnerCalm ==
  ASSUME Base, OwnerInv, NEW c \in Connections, UNCHANGED <<id, sid, own>>,
         NEW l \in Labels \ {"closed", "setup", "setupExists", "create", "setupGet"},
         pc' = [pc EXCEPT ![c] = l], pc[c] \in Ending => l \in Ending
  PROVE  OwnerInv'
<1>1. pc'[c] = l
  BY DEF Base, IInv, TypeInv
<1>2. Once(c)'
  BY <1>1 DEF Once
<1>3. \A o \in Objects : Keeps(c, o) => Keeps(c, o)'
  BY <1>1 DEF Keeps
<1> QED
  BY <1>2, <1>3, OwnerMoves

LEMMA OwnerCalmStep ==
  ASSUME Base, OwnerInv, NEW c \in Connections,
         \/ Accept(c) \/ Disconnect(c) \/ SendKills(c) \/ RegisterSession(c) \/ AttachHandler(c)
         \/ BindFails(c) \/ GetSession(c) \/ ReleaseSession(c)
         \/ PlayTestsExists(c) \/ StartSession(c) \/ ActivateSession(c)
         \/ StartTrack(c) \/ OpenTrack(c) \/ OpenFails(c) \/ SpawnProducer(c) \/ SpawnSender(c)
         \/ PauseTestsExists(c) \/ PauseSession(c) \/ TeardownTestsExists(c)
  PROVE  OwnerInv'
<1> DEFINE Calm == Labels \ {"closed", "setup", "setupExists", "create", "setupGet"}
           Stay == UNCHANGED <<id, sid, own>>
<1> USE DEF At, Goto, sessionVars, localVars
<1>1. ASSUME Stay, pc[c] \notin Ending, pc' = pc \/ \E l \in Calm : pc' = [pc EXCEPT ![c] = l]
      PROVE  OwnerInv'
  BY <1>1, OwnerStays, OwnerCalm
<1>2. {"recv", "closing", "register", "attach", "release", "playGet", "start", "activate",
       "trackStart", "trackOpen", "spawnProducer", "spawnSender", "pauseGet", "pause",
       "terminate"} \subseteq Calm
  BY DEF Labels
<1>3. AfterRequest(c) \in {"closing", "recv"}
  BY DEF AfterRequest
<1>4. CASE \/ Accept(c) \/ Disconnect(c) \/ SendKills(c) \/ RegisterSession(c) \/ AttachHandler(c)
           \/ BindFails(c)
  <2>1. Stay /\ pc[c] \in {"closed", "recv", "closing", "register", "attach"}
    BY <1>4 DEF Accept, Disconnect, SendKills, RegisterSession, AttachHandler, BindFails, Crash
  <2>2. pc' = pc \/ \E l \in Calm : pc' = [pc EXCEPT ![c] = l]
    BY <1>2, <1>4 DEF Accept, Disconnect, SendKills, RegisterSession, AttachHandler, BindFails, Crash
  <2> QED
    BY <1>1, <2>1, <2>2 DEF Ending, Dying, Late
<1>5. CASE \/ PlayTestsExists(c) \/ PauseTestsExists(c) \/ PauseSession(c)
           \/ TeardownTestsExists(c)
  <2>1. Stay /\ pc[c] \in {"playExists", "pauseExists", "pause", "teardownExists"}
    BY <1>5 DEF PlayTestsExists, PauseTestsExists, PauseSession, TeardownTestsExists
  <2>2. \E l \in Calm : pc' = [pc EXCEPT ![c] = l]
    BY <1>2, <1>3, <1>5 DEF PlayTestsExists, PauseTestsExists, PauseSession, TeardownTestsExists
  <2> QED
    BY <1>1, <2>1, <2>2 DEF Ending, Dying, Late
<1>6. CASE \/ StartSession(c) \/ ActivateSession(c) \/ StartTrack(c) \/ OpenTrack(c)
           \/ OpenFails(c) \/ SpawnProducer(c) \/ SpawnSender(c)
  <2>1. Stay /\ pc[c] \in {"start", "activate", "trackStart", "trackOpen", "spawnProducer", "spawnSender"}
    BY <1>6 DEF StartSession, ActivateSession, StartTrack, OpenTrack, OpenFails, SpawnProducer,
                SpawnSender, Crash
  <2>2. pc' = pc \/ \E l \in Calm : pc' = [pc EXCEPT ![c] = l]
    BY <1>2, <1>6 DEF StartSession, ActivateSession, StartTrack, OpenTrack, OpenFails,
                SpawnProducer, SpawnSender, Crash
  <2> QED
    BY <1>1, <2>1, <2>2 DEF Ending, Dying, Late
<1>7. CASE GetSession(c)
  <2>1. /\ Stay /\ pc[c] \in {"setupGet", "playGet", "pauseGet"}
        /\ pc' = [pc EXCEPT ![c] = AfterGet(pc[c])]
    BY <1>7, GetFinds DEF Base
  <2>2. AfterGet(pc[c]) \in Calm
    BY <1>2, <2>1 DEF AfterGet
  <2> QED
    BY <1>1, <2>1, <2>2 DEF Ending, Dying, Late
<1>8. CASE ReleaseSession(c)
  <2>1. Stay /\ pc[c] = "release" /\ pc' = [pc EXCEPT ![c] = AfterRequest(c)]
    BY <1>8, ReleaseGoesOn DEF Base
  <2> QED
    BY <1>1, <1>2, <1>3, <2>1 DEF Ending, Dying, Late
<1> QED
  BY <1>4, <1>5, <1>6, <1>7, <1>8

(* terminate_session() and the destructor keep to the session of the thread. *)
LEMMA OwnerEndStep ==
  ASSUME OwnSessions, Base, OwnerInv, NEW c \in Connections,
         \/ TerminateSession(c) \/ StopSession(c) \/ JoinSender(c) \/ EraseSession(c)
         \/ UnregisterSession(c) \/ TestNoConsumer(c) \/ StopTrack(c) \/ JoinProducer(c)
         \/ CloseTrack(c) \/ DestroySession(c)
  PROVE  OwnerInv'
<1> DEFINE Calm == Labels \ {"closed", "setup", "setupExists", "create", "setupGet"}
           Stay == UNCHANGED <<id, sid, own>>
<1> USE DEF At, Goto, sessionVars, localVars
<1>1. AfterRequest(c) \in {"closing", "recv"}
  BY DEF AfterRequest
<1>2. \A l \in Dying \cup {"closing", "recv"} : l \in Calm
  BY DEF Dying, Late, Labels
<1>3. Dying \subseteq Ending
  BY DEF Ending
<1>4. CASE \/ StopSession(c) \/ JoinSender(c) \/ UnregisterSession(c) \/ TestNoConsumer(c)
           \/ StopTrack(c) \/ JoinProducer(c) \/ CloseTrack(c)
  <2>1. Stay
    BY <1>4 DEF StopSession, JoinSender, UnregisterSession, TestNoConsumer, StopTrack,
                JoinProducer, CloseTrack
  <2>2. \E l \in Dying : pc' = [pc EXCEPT ![c] = l]
    BY <1>4 DEF StopSession, JoinSender, AfterJoin, UnregisterSession, TestNoConsumer,
                StopTrack, JoinProducer, CloseTrack, Dying, Late
  <2> QED
    BY <1>2, <1>3, <2>1, <2>2, OwnerCalm
<1>5. CASE EraseSession(c)
  <2>1. Stay /\ pc' = [pc EXCEPT ![c] = "stop"]
    BY <1>5, EraseGoesOn DEF Base
  <2> QED
    BY <1>2, <1>3, <2>1, OwnerCalm, Classes
<1>6. CASE TerminateSession(c)
  <2>1. Stay /\ pc[c] = "terminate"
    BY <1>6 DEF TerminateSession
  <2>2. CASE Exists(c)
    <3>1. pc' = [pc EXCEPT ![c] = "stop"]
      BY <1>6, <2>2 DEF TerminateSession
    <3> QED
      BY <1>2, <1>3, <2>1, <3>1, OwnerCalm, Classes
  <2>3. CASE ~Exists(c)
    <3>1. PICK l \in {"closing", "recv"} : pc' = [pc EXCEPT ![c] = l]
      BY <1>1, <1>6, <2>3 DEF TerminateSession
    <3>2. ref[c] = NoObject /\ dying[c] = NoObject
      BY <2>1, Classes DEF Base, IInv, PcInv
    <3>3. ASSUME NEW o \in Objects, Live(o) PROVE id[o] # sid[c]
      BY <2>3, <3>2, <3>3, Alone, NullsAssumption DEF Base, Exists
    <3>4. pc'[c] = l
      BY <3>1 DEF Base, IInv, TypeInv
    <3>5. Once(c)'
      BY <3>4 DEF Once
    <3>6. \A o \in Objects : Live(o) /\ Keeps(c, o) => Keeps(c, o)'
      BY <2>1, <3>3 DEF Keeps
    <3> QED
      BY <1>2, <2>1, <3>1, <3>5, <3>6, OwnerMoves
  <2> QED
    BY <2>2, <2>3
<1>7. CASE DestroySession(c)
  <2>1. /\ dying[c] \in Objects /\ id' = [id EXCEPT ![dying[c]] = NoId]
        /\ pc' = [pc EXCEPT ![c] = AfterRequest(c)] /\ pc[c] = "destroy"
        /\ UNCHANGED <<sid, own>>
    BY <1>7, DestroyEnds DEF Base
  <2>2. /\ pc'[c] \in {"closing", "recv"}
        /\ \A d \in Connections \ {c} : pc'[d] = pc[d]
        /\ \A o \in Objects : IF o = dying[c] THEN id'[o] = NoId ELSE id'[o] = id[o]
    BY <1>1, <2>1 DEF Base, IInv, TypeInv
  <2>3. id[dying[c]] = sid[c] /\ Live(dying[c])
    BY <2>1, Classes, NullsAssumption DEF Base, OwnInv, Own, IInv, PcInv, DyingInv
  <2>4. ASSUME NEW d \in Connections PROVE Once(d)'
    <3>1. CASE d = c
      BY <2>2, <3>1 DEF Once
    <3>2. CASE d # c
      <4>1. pc[d] \in {"setupExists", "create"} => sid[d] # NoId
        BY NullsAssumption DEF Base, IInv, PcInv, Named
      <4> QED
        BY <2>1, <2>2, <3>2, <4>1 DEF OwnerInv, Once
    <3> QED
      BY <3>1, <3>2
  <2>5. ASSUME NEW o \in Objects, Live(o)' PROVE \E d \in Connections : Keeps(d, o)'
    <3>1. o # dying[c] /\ id'[o] = id[o] /\ Live(o)
      BY <2>2, <2>5 DEF Live
    <3>2. id[o] # sid[c]
      BY <2>1, <2>3, <3>1 DEF Base, OwnInv, Unique
    <3>3. PICK d \in Connections : Keeps(d, o)
      BY <3>1 DEF OwnerInv
    <3> QED
      BY <2>1, <2>2, <3>1, <3>2, <3>3 DEF Keeps
  <2> QED
    BY <2>4, <2>5 DEF OwnerInv
<1> QED
  BY <1>4, <1>5, <1>6, <1>7

LEMMA OwnerCloseStep ==
  ASSUME Base, OwnerInv, NEW c \in Connections, CloseConnection(c)
  PROVE  OwnerInv'
<1>1. /\ pc[c] = "closing" /\ UNCHANGED id
      /\ pc' = [pc EXCEPT ![c] = IF own[c] = NoId THEN "closed" ELSE "terminate"]
      /\ sid' = [sid EXCEPT ![c] = own[c]] /\ own' = [own EXCEPT ![c] = NoId]
  BY DEF CloseConnection, At, Goto, sessionVars
<1>2. /\ pc'[c] = IF own[c] = NoId THEN "closed" ELSE "terminate"
      /\ sid'[c] = own[c] /\ own'[c] = NoId
      /\ \A d \in Connections \ {c} : sid'[d] = sid[d] /\ own'[d] = own[d]
  BY <1>1 DEF Base, IInv, TypeInv
<1>3. Once(c)'
  BY <1>2 DEF Once
<1>4. ASSUME NEW o \in Objects, Live(o), Keeps(c, o) PROVE Keeps(c, o)'
  <2>1. id[o] = own[c] /\ own[c] # NoId
    BY <1>1, <1>4 DEF Keeps, Live, Ending, Dying, Late
  <2> QED
    BY <1>1, <1>2, <2>1 DEF Keeps, Ending
<1>5. "closed" \in Labels /\ "terminate" \in Labels
  BY DEF Labels
<1> QED
  BY <1>1, <1>2, <1>3, <1>4, <1>5, OwnerMoves

LEMMA OwnerReceiveStep ==
  ASSUME SetupOnce, Base, OwnerInv, NEW c \in Connections, NEW m \in Methods,
         NEW s \in SessionIds \cup {NoId}, Receive(c, m, s)
  PROVE  OwnerInv'
<1>1. /\ pc[c] = "recv" /\ UNCHANGED <<id, own>>
      /\ pc' = [pc EXCEPT ![c] = FirstLabel(m)] /\ sid' = [sid EXCEPT ![c] = s]
      /\ <<c, m, s>> \in Requests /\ (s = NoId => m = "SETUP" /\ own[c] = NoId)
  BY DEF Receive, At, Goto, sessionVars, SetupOnce
<1>2. /\ FirstLabel(m) \in Labels \ {"closed", "setupExists", "create", "setupGet"}
      /\ FirstLabel(m) = "setup" => m = "SETUP"
  BY DEF FirstLabel, Methods, Labels
<1>3. /\ pc'[c] = FirstLabel(m) /\ sid'[c] = s
      /\ \A d \in Connections \ {c} : sid'[d] = sid[d]
  BY <1>1 DEF Base, IInv, TypeInv
<1>4. Once(c)'
  BY <1>1, <1>2, <1>3 DEF Once, SetupOnce
<1>5. \A o \in Objects : Keeps(c, o) => Keeps(c, o)'
  BY <1>1 DEF Keeps, Ending, Dying, Late
<1> QED
  BY <1>1, <1>2, <1>3, <1>4, <1>5, OwnerMoves

LEMMA OwnerSetupStep ==
  ASSUME Base, OwnerInv, NEW c \in Connections, SetupNames(c) \/ SetupTestsExists(c)
  PROVE  OwnerInv'
<1> USE DEF At, Goto, sessionVars, localVars
<1>1. CASE SetupNames(c)
  <2>1. pc[c] = "setup" /\ own[c] = NoId /\ sid[c] = NoId /\ UNCHANGED id
    BY <1>1 DEF SetupNames, OwnerInv, Once
  <2>2. PICK s \in NewIds[c] : Unused(s) /\ sid' = [sid EXCEPT ![c] = s] /\ own' = [own EXCEPT ![c] = s]
    BY <1>1, <2>1 DEF SetupNames
  <2>3. PICK l \in {"setupExists", "recv"} : pc' = [pc EXCEPT ![c] = l]
    BY <1>1 DEF SetupNames
  <2>4. /\ pc'[c] = l /\ sid'[c] = s /\ own'[c] = s
        /\ \A d \in Connections \ {c} : sid'[d] = sid[d] /\ own'[d] = own[d]
    BY <2>2, <2>3 DEF Base, IInv, TypeInv
  <2>5. Once(c)'
    BY <2>1, <2>2, <2>4 DEF Once, Unused
  <2>6. \A o \in Objects : Live(o) /\ Keeps(c, o) => Keeps(c, o)'
    BY <2>1 DEF Keeps, Live
  <2>7. l \in Labels
    BY DEF Labels
  <2> QED
    BY <2>1, <2>3, <2>4, <2>5, <2>6, <2>7, OwnerMoves
<1>2. CASE SetupTestsExists(c)
  <2>1. /\ pc[c] = "setupExists" /\ UNCHANGED <<id, sid, own>>
        /\ pc' = [pc EXCEPT ![c] = IF Exists(c) THEN "setupGet" ELSE "create"]
    BY <1>2 DEF SetupTestsExists
  <2>2. own[c] = sid[c] /\ \A o \in Objects : id[o] # sid[c]
    BY <2>1 DEF OwnerInv, Once
  <2>3. ~Exists(c)
    <3>1. sid[c] \in SessionIds
      BY <2>1 DEF Base, IInv, PcInv, Named
    <3> QED
      BY <2>2, <3>1, TableIsLive DEF Exists, Base
  <2>4. pc' = [pc EXCEPT ![c] = "create"] /\ "create" \in Labels
    BY <2>1, <2>3 DEF Labels
  <2>5. pc'[c] = "create"
    BY <2>4 DEF Base, IInv, TypeInv
  <2>6. Once(c)'
    BY <2>1, <2>2, <2>5 DEF Once
  <2>7. \A o \in Objects : Keeps(c, o) => Keeps(c, o)'
    BY <2>1, <2>2 DEF Keeps
  <2> QED
    BY <2>1, <2>4, <2>6, <2>7, OwnerMoves
<1> QED
  BY <1>1, <1>2

LEMMA OwnerCreateStep ==
  ASSUME OwnSessions, Base, OwnerInv, NEW c \in Connections, CreateSession(c)
  PROVE  OwnerInv'
<1> DEFINE o == FreshObject
<1>1. /\ o \in Objects /\ id[o] = NoId /\ pc[c] = "create" /\ sid[c] \in SessionIds
      /\ id' = [id EXCEPT ![o] = sid[c]] /\ pc' = [pc EXCEPT ![c] = "register"]
      /\ UNCHANGED <<sid, own>>
  BY CreateIsFirst DEF Base
<1> HIDE DEF o
<1>2. /\ pc'[c] = "register" /\ \A d \in Connections \ {c} : pc'[d] = pc[d]
      /\ \A p \in Objects : IF p = o THEN id'[p] = sid[c] ELSE id'[p] = id[p]
  BY <1>1 DEF Base, IInv, TypeInv
<1>3. own[c] = sid[c]
  BY <1>1 DEF OwnerInv, Once
<1>4. ASSUME NEW d \in Connections PROVE Once(d)'
  <2>1. CASE d = c
    BY <1>2, <2>1 DEF Once
  <2>2. CASE d # c
    <3>1. sid[d] # sid[c]
      BY <1>1, <2>2, Apart, NullsAssumption DEF Base
    <3> QED
      BY <1>1, <1>2, <2>2, <3>1 DEF OwnerInv, Once
  <2> QED
    BY <2>1, <2>2
<1>5. ASSUME NEW p \in Objects, Live(p)' PROVE \E d \in Connections : Keeps(d, p)'
  <2>1. CASE p = o
    BY <1>1, <1>2, <1>3, <2>1 DEF Keeps
  <2>2. CASE p # o
    <3>1. PICK d \in Connections : Keeps(d, p)
      BY <1>2, <1>5, <2>2 DEF OwnerInv, Live
    <3> QED
      BY <1>1, <1>2, <1>3, <2>2, <3>1 DEF Keeps
  <2> QED
    BY <2>1, <2>2
<1> QED
  BY <1>4, <1>5 DEF OwnerInv

LEMMA OwnerStep ==
  OwnSessions /\ SetupOnce /\ Base /\ OwnerInv /\ [Next]_vars => OwnerInv'
<1> SUFFICES ASSUME OwnSessions, SetupOnce, Base, OwnerInv, [Next]_vars PROVE OwnerInv'
  OBVIOUS
<1>1. CASE UNCHANGED vars \/ ProducerRuns
  BY <1>1, OwnerStays DEF vars, ProducerRuns, sessionVars, localVars
<1>2. ASSUME NEW o \in Objects, SenderRuns(o) PROVE OwnerInv'
  BY <1>2, OwnerStays DEF SenderRuns, SenderTestsActive, SenderWaits, SenderGetsFrame,
                          sessionVars, localVars
<1>3. ASSUME NEW c \in Connections,
             \/ Accept(c) \/ Disconnect(c) \/ SendKills(c) \/ ConnectionRuns(c)
             \/ \E m \in Methods : \E s \in SessionIds \cup {NoId} : Receive(c, m, s)
      PROVE  OwnerInv'
  BY <1>3, OwnerCalmStep, OwnerEndStep, OwnerCloseStep, OwnerReceiveStep, OwnerSetupStep,
     OwnerCreateStep DEF ConnectionRuns
<1> QED
  BY <1>1, <1>2, <1>3 DEF Next

LEMMA OwnerInvariance == OwnSessions /\ SetupOnce => (Spec => []OwnerInv)
<1> SUFFICES ASSUME OwnSessions, SetupOnce PROVE Spec => []OwnerInv
  OBVIOUS
<1>1. Base /\ RegInv /\ OwnerInv /\ [Next]_vars => OwnerInv'
  BY OwnerStep
<1> QED
  BY <1>1, OwnerInit, BaseInvariance, PTL DEF Spec

(* ~ConnectionHandler lets no session outlive the connection that made it    *)
(* (ConnectionHandler.cpp:21-24), wherever the connection ends, for clients  *)
(* that ask for one new session each (SetupOnce: a second one would take the *)
(* place of the first in session_id_, lines 218-221): in every state an open *)
(* connection still knows the id of the session.                             *)
THEOREM SessionsEndWithTheirConnection ==
  OwnSessions /\ SetupOnce => (Spec => []SessionsDoNotOutliveTheirConnection)
<1> SUFFICES ASSUME OwnSessions, SetupOnce PROVE Spec => []SessionsDoNotOutliveTheirConnection
  OBVIOUS
<1>1. ASSUME OwnerInv PROVE SessionsDoNotOutliveTheirConnection
  <2> SUFFICES ASSUME NEW o \in Objects, Live(o)
               PROVE  \E c \in Connections : ~At(c, "closed") /\ id[o] \in {own[c], sid[c]}
    BY DEF SessionsDoNotOutliveTheirConnection
  <2>1. PICK c \in Connections : Keeps(c, o)
    BY <1>1 DEF OwnerInv
  <2>2. pc[c] # "closed"
    BY <1>1, <2>1 DEF OwnerInv, Once, Keeps, Live, Ending, Dying, Late
  <2> QED
    BY <2>1, <2>2 DEF At, Keeps
<1> QED
  BY <1>1, OwnerInvariance, PTL

-----------------------------------------------------------------------------
(***************************************************************************)
(* PLAY, and how the server can end.                                       *)
(***************************************************************************)
Pausing == {"pauseExists", "pauseGet", "pause"}
Fresh   == {"register", "attach"}

(* A session that does not play has no sender thread, or one that is being   *)
(* joined; start() and SETUP deal with sessions that have none.              *)
PlayInv ==
  /\ OnlyRacingStartsCrash
  /\ \A o \in Objects : Joinable(sender[o]) =>
       playing[o] \/ \E c \in Connections : dying[c] = o /\ pc[c] = "join"
  /\ \A c \in Connections :
       /\ pc[c] \in Activating \cup Fresh => sender[ref[c]] = NoThread
       /\ pc[c] \in Activating \ {"activate"} => playing[ref[c]]
       /\ pc[c] \notin Pausing

LEMMA PlayInit == Init => PlayInv
BY DEF Init, PlayInv, OnlyRacingStartsCrash, Joinable, Activating, Fresh, Pausing

LEMMA PlayStays ==
  ASSUME PlayInv, UNCHANGED <<sender, playing, pc, ref, dying>>, OnlyRacingStartsCrash'
  PROVE  PlayInv'
BY DEF PlayInv, Joinable

(* A thread goes on, the sender threads and the flags being as they were.    *)
LEMMA PlayMoves ==
  ASSUME Base, PlayInv, NEW c \in Connections, NEW l \in Labels,
         UNCHANGED <<sender, playing, crashed>>,
         pc' = [pc EXCEPT ![c] = l], pc[c] # "join",
         \A d \in Connections \ {c} : ref'[d] = ref[d] /\ dying'[d] = dying[d],
         l \in Activating \cup Fresh => sender[ref'[c]] = NoThread,
         l \in Activating \ {"activate"} => playing[ref'[c]],
         l \notin Pausing
  PROVE  PlayInv'
<1>1. pc'[c] = l /\ \A d \in Connections \ {c} : pc'[d] = pc[d]
  BY DEF Base, IInv, TypeInv
<1>2. ASSUME NEW o \in Objects, Joinable(sender[o])
      PROVE  playing[o] \/ \E d \in Connections : dying'[d] = o /\ pc'[d] = "join"
  BY <1>1, <1>2 DEF PlayInv
<1>3. ASSUME NEW d \in Connections
      PROVE  /\ pc'[d] \in Activating \cup Fresh => sender'[ref'[d]] = NoThread
             /\ pc'[d] \in Activating \ {"activate"} => playing'[ref'[d]]
             /\ pc'[d] \notin Pausing
  BY <1>1 DEF PlayInv
<1> QED
  BY <1>2, <1>3 DEF PlayInv, Joinable, OnlyRacingStartsCrash

LEMMA PlayCalmStep ==
  ASSUME OwnSessions, NoPause, Base, OwnerInv, PlayInv, NEW c \in Connections,
         \/ Accept(c) \/ Disconnect(c) \/ SendKills(c) \/ CloseConnection(c) \/ SetupNames(c)
         \/ SetupTestsExists(c) \/ BindFails(c) \/ GetSession(c) \/ ReleaseSession(c)
         \/ PlayTestsExists(c) \/ OpenFails(c) \/ PauseTestsExists(c) \/ PauseSession(c)
         \/ TeardownTestsExists(c) \/ TerminateSession(c) \/ EraseSession(c)
         \/ UnregisterSession(c) \/ TestNoConsumer(c) \/ StopTrack(c) \/ JoinProducer(c)
         \/ CloseTrack(c) \/ DestroySession(c)
         \/ \E m \in Methods : \E s \in SessionIds \cup {NoId} : Receive(c, m, s)
  PROVE  PlayInv'
<1> DEFINE Calm == Labels \ (Activating \cup Fresh \cup Pausing)
           Stay == UNCHANGED <<sender, playing, crashed>> /\ pc[c] # "join"
<1> USE DEF At, Goto, tableVars, sessionVars, localVars
<1>1. ASSUME Stay, \E l \in Calm : pc' = [pc EXCEPT ![c] = l],
             \A d \in Connections \ {c} : ref'[d] = ref[d] /\ dying'[d] = dying[d]
      PROVE  PlayInv'
  BY <1>1, PlayMoves
<1>2. {"recv", "closing", "closed", "terminate", "setupExists", "setupGet", "create", "release",
       "playGet", "start", "stop", "noConsumer", "trackStop", "trackJoin", "trackClose",
       "destroy"} \subseteq Calm
  BY DEF Labels, Activating, Fresh, Pausing
<1>3. AfterRequest(c) \in {"closing", "recv"}
  BY DEF AfterRequest
<1>4. CASE \/ Accept(c) \/ Disconnect(c) \/ CloseConnection(c) \/ SetupNames(c)
           \/ SetupTestsExists(c) \/ BindFails(c) \/ PlayTestsExists(c) \/ OpenFails(c)
           \/ TeardownTestsExists(c)
  <2>1. Stay /\ UNCHANGED <<ref, dying>>
    BY <1>4 DEF Accept, Disconnect, CloseConnection, SetupNames, SetupTestsExists, BindFails,
                PlayTestsExists, OpenFails, TeardownTestsExists
  <2>2. \E l \in Calm : pc' = [pc EXCEPT ![c] = l]
    BY <1>2, <1>3, <1>4 DEF Accept, Disconnect, CloseConnection, SetupNames, SetupTestsExists,
                BindFails, PlayTestsExists, OpenFails, TeardownTestsExists
  <2> QED
    BY <1>1, <2>1, <2>2
<1>5. CASE UnregisterSession(c) \/ TestNoConsumer(c) \/ StopTrack(c) \/ JoinProducer(c) \/ CloseTrack(c)
  <2>1. Stay /\ UNCHANGED <<ref, dying>>
    BY <1>5 DEF UnregisterSession, TestNoConsumer, StopTrack, JoinProducer, CloseTrack
  <2>2. \E l \in Calm : pc' = [pc EXCEPT ![c] = l]
    BY <1>2, <1>5 DEF UnregisterSession, TestNoConsumer, StopTrack, JoinProducer, CloseTrack
  <2> QED
    BY <1>1, <2>1, <2>2
<1>6. CASE GetSession(c)
  <2>1. /\ pc[c] = "playGet" /\ pc' = [pc EXCEPT ![c] = "start"]
        /\ UNCHANGED <<sender, playing, crashed, dying>>
        /\ ref' = [ref EXCEPT ![c] = sessions[sid[c]]]
    BY <1>6, GetFinds DEF Base, OwnerInv, Once, PlayInv, Pausing, AfterGet
  <2>2. \A d \in Connections \ {c} : ref'[d] = ref[d]
    BY <2>1 DEF Base, IInv, TypeInv
  <2> QED
    BY <1>1, <1>2, <2>1, <2>2
<1>7. CASE PauseTestsExists(c) \/ PauseSession(c)
  BY <1>7 DEF PauseTestsExists, PauseSession, PlayInv, Pausing
<1>8. CASE ReleaseSession(c)
  <2>1. /\ pc[c] = "release" /\ pc' = [pc EXCEPT ![c] = AfterRequest(c)]
        /\ ref' = [ref EXCEPT ![c] = NoObject]
        /\ UNCHANGED <<sender, playing, crashed, dying>>
    BY <1>8, ReleaseGoesOn DEF Base
  <2>2. \A d \in Connections \ {c} : ref'[d] = ref[d]
    BY <2>1 DEF Base, IInv, TypeInv
  <2> QED
    BY <1>1, <1>2, <1>3, <2>1, <2>2
<1>9. CASE TerminateSession(c)
  <2>1. Stay /\ UNCHANGED ref
    BY <1>9 DEF TerminateSession
  <2>2. \A d \in Connections \ {c} : dying'[d] = dying[d]
    BY <1>9 DEF TerminateSession, Base, IInv, TypeInv
  <2>3. \E l \in Calm : pc' = [pc EXCEPT ![c] = l]
    BY <1>2, <1>3, <1>9 DEF TerminateSession
  <2> QED
    BY <1>1, <2>1, <2>2, <2>3
<1>10. CASE EraseSession(c)
  <2>1. Stay /\ UNCHANGED <<ref, dying>> /\ pc' = [pc EXCEPT ![c] = "stop"]
    BY <1>10, EraseGoesOn DEF Base
  <2> QED
    BY <1>1, <1>2, <2>1
<1>11. CASE DestroySession(c)
  <2>1. /\ pc[c] = "destroy" /\ pc' = [pc EXCEPT ![c] = AfterRequest(c)]
        /\ dying' = [dying EXCEPT ![c] = NoObject] /\ UNCHANGED <<sender, playing, crashed, ref>>
    BY <1>11, DestroyEnds DEF Base, DestroySession
  <2>2. \A d \in Connections \ {c} : dying'[d] = dying[d]
    BY <2>1 DEF Base, IInv, TypeInv
  <2> QED
    BY <1>1, <1>2, <1>3, <2>1, <2>2
<1>12. ASSUME NEW m \in Methods, NEW s \in SessionIds \cup {NoId}, Receive(c, m, s)
       PROVE  PlayInv'
  <2>1. m # "PAUSE"
    BY <1>12 DEF Receive, NoPause
  <2>2. FirstLabel(m) \in Calm
    BY <2>1 DEF FirstLabel, Methods, Labels, Activating, Fresh, Pausing
  <2>3. Stay /\ UNCHANGED <<ref, dying>> /\ pc' = [pc EXCEPT ![c] = FirstLabel(m)]
    BY <1>12 DEF Receive
  <2> QED
    BY <1>1, <2>2, <2>3
<1>13. CASE SendKills(c)
  BY <1>13, PlayStays DEF SendKills, Crash, OnlyRacingStartsCrash
<1> QED
  BY <1>4, <1>5, <1>6, <1>7, <1>8, <1>9, <1>10, <1>11, <1>12, <1>13

(* SETUP: create_session() and add_media_track().                            *)
LEMMA PlaySetupStep ==
  ASSUME OwnSessions, Base, PlayInv, NEW c \in Connections,
         CreateSession(c) \/ RegisterSession(c) \/ AttachHandler(c)
  PROVE  PlayInv'
<1> USE DEF At, Goto, sessionVars, localVars
<1>1. CASE CreateSession(c)
  <2> DEFINE o == FreshObject
  <2>1. /\ pc[c] = "create" /\ pc' = [pc EXCEPT ![c] = "register"]
        /\ o \in Objects /\ id[o] = NoId /\ ref' = [ref EXCEPT ![c] = o]
        /\ UNCHANGED <<sender, playing, crashed, dying>>
    BY <1>1, CreateIsFirst DEF Base
  <2> HIDE DEF o
  <2>2. sender[o] = NoThread
    BY <2>1 DEF Base, IInv, SenderInv, NoSenderOutlivesItsSession, Live
  <2>3. ref'[c] = o /\ \A d \in Connections \ {c} : ref'[d] = ref[d]
    BY <2>1 DEF Base, IInv, TypeInv
  <2>4. "register" \in Labels \ (Activating \cup Pausing)
    BY DEF Labels, Activating, Pausing
  <2> QED
    BY <2>1, <2>2, <2>3, <2>4, PlayMoves
<1>2. CASE RegisterSession(c)
  <2>1. /\ pc[c] = "register" /\ pc' = [pc EXCEPT ![c] = "attach"]
        /\ UNCHANGED <<sender, playing, crashed, dying, ref>>
    BY <1>2 DEF RegisterSession
  <2>2. sender[ref[c]] = NoThread
    BY <2>1 DEF PlayInv, Fresh
  <2>3. "attach" \in Labels \ (Activating \cup Pausing)
    BY DEF Labels, Activating, Pausing
  <2> QED
    BY <2>1, <2>2, <2>3, PlayMoves
<1>3. CASE AttachHandler(c)
  <2>1. pc[c] = "attach" /\ sender[ref[c]] = NoThread
    BY <1>3 DEF AttachHandler, PlayInv, Fresh
  <2>2. /\ pc' = [pc EXCEPT ![c] = "release"]
        /\ playing' = [playing EXCEPT ![ref[c]] = FALSE]
        /\ UNCHANGED <<sender, crashed, dying, ref>>
    BY <1>3, <2>1 DEF AttachHandler, Joinable
  <2>3. /\ pc'[c] = "release" /\ \A d \in Connections \ {c} : pc'[d] = pc[d]
        /\ \A p \in Objects : p # ref[c] => playing'[p] = playing[p]
    BY <2>2 DEF Base, IInv, TypeInv, FlagTypes
  <2>4. ref[c] # NoObject
    BY <2>1 DEF Base, IInv, PcInv, Using
  <2>5. ASSUME NEW p \in Objects, Joinable(sender'[p])
        PROVE  playing'[p] \/ \E d \in Connections : dying'[d] = p /\ pc'[d] = "join"
    BY <2>1, <2>2, <2>3, <2>5 DEF PlayInv, Joinable
  <2>6. ASSUME NEW d \in Connections
        PROVE  /\ pc'[d] \in Activating \cup Fresh => sender'[ref'[d]] = NoThread
               /\ pc'[d] \in Activating \ {"activate"} => playing'[ref'[d]]
               /\ pc'[d] \notin Pausing
    <3>1. CASE d = c
      BY <2>3, <3>1 DEF Activating, Fresh, Pausing
    <3>2. CASE d # c
      <4>1. ref[d] # ref[c]
        BY <2>4, <3>2, RefsApart
      <4>2. pc[d] \in Activating => ref[d] \in Objects
        BY RefIsLive DEF Base, IInv, PcInv, Activating, Using
      <4> QED
        BY <2>2, <2>3, <3>2, <4>1, <4>2 DEF PlayInv
    <3> QED
      BY <3>1, <3>2
  <2> QED
    BY <2>2, <2>5, <2>6 DEF PlayInv, OnlyRacingStartsCrash
<1> QED
  BY <1>1, <1>2, <1>3

(* PLAY: start().                                                            *)
LEMMA PlayStartStep ==
  ASSUME OwnSessions, Base, PlayInv, NEW c \in Connections,
         \/ StartSession(c) \/ ActivateSession(c) \/ StartTrack(c) \/ OpenTrack(c)
         \/ SpawnProducer(c) \/ SpawnSender(c)
  PROVE  PlayInv'
<1> USE DEF At, Goto, sessionVars, localVars
<1>1. CASE StartSession(c)
  <2>1. /\ pc[c] = "start" /\ UNCHANGED <<sender, playing, crashed, ref, dying>>
        /\ pc' = [pc EXCEPT ![c] = IF handler[ref[c]] /\ ~playing[ref[c]]
                                   THEN "activate" ELSE "release"]
    BY <1>1 DEF StartSession
  <2>2. ref[c] \in Objects /\ ref[c] # NoObject
    BY <2>1, RefIsLive DEF Base, IInv, PcInv, Using
  <2>3. \A d \in Connections : dying[d] # ref[c]
    BY <2>2, RefIsLive, Alone DEF Base, OwnInv, Own
  <2>4. ~playing[ref[c]] => sender[ref[c]] = NoThread
    BY <2>2, <2>3 DEF PlayInv, Joinable
  <2>5. /\ "activate" \in Labels \ Pausing
        /\ "release" \in Labels \ (Activating \cup Fresh \cup Pausing)
    BY DEF Labels, Activating, Fresh, Pausing
  <2> QED
    BY <2>1, <2>4, <2>5, PlayMoves
<1>2. CASE ActivateSession(c)
  <2>1. /\ pc[c] = "activate" /\ UNCHANGED <<sender, crashed, ref, dying>>
        /\ playing' = [playing EXCEPT ![ref[c]] = TRUE]
        /\ \E l \in {"spawnSender", "trackStart"} : pc' = [pc EXCEPT ![c] = l]
    BY <1>2 DEF ActivateSession
  <2>2. ref[c] \in Objects /\ sender[ref[c]] = NoThread
    BY <2>1, RefIsLive DEF Base, IInv, PcInv, Using, PlayInv, Activating
  <2>3. /\ pc'[c] \in {"spawnSender", "trackStart"}
        /\ \A d \in Connections \ {c} : pc'[d] = pc[d]
        /\ playing'[ref[c]] /\ \A p \in Objects : playing[p] => playing'[p]
    BY <2>1, <2>2 DEF Base, IInv, TypeInv, FlagTypes
  <2>4. ASSUME NEW p \in Objects, Joinable(sender'[p])
        PROVE  playing'[p] \/ \E d \in Connections : dying'[d] = p /\ pc'[d] = "join"
    BY <2>1, <2>3, <2>4 DEF PlayInv, Joinable
  <2>5. ASSUME NEW d \in Connections
        PROVE  /\ pc'[d] \in Activating \cup Fresh => sender'[ref'[d]] = NoThread
               /\ pc'[d] \in Activating \ {"activate"} => playing'[ref'[d]]
               /\ pc'[d] \notin Pausing
    <3>1. pc[d] \in Activating => ref[d] \in Objects
      BY RefIsLive DEF Base, IInv, PcInv, Activating, Using
    <3> QED
      BY <2>1, <2>2, <2>3, <3>1 DEF PlayInv, Pausing
  <2> QED
    BY <2>1, <2>4, <2>5 DEF PlayInv, OnlyRacingStartsCrash
<1>3. CASE StartTrack(c) \/ OpenTrack(c) \/ (SpawnProducer(c) /\ ~Joinable(producer))
  <2>1. /\ pc[c] \in Activating \ {"activate"} /\ UNCHANGED <<sender, playing, crashed, ref, dying>>
        /\ \E l \in {"trackOpen", "spawnProducer", "spawnSender"} : pc' = [pc EXCEPT ![c] = l]
    BY <1>3 DEF StartTrack, OpenTrack, SpawnProducer, Activating
  <2>2. sender[ref[c]] = NoThread /\ playing[ref[c]]
    BY <2>1 DEF PlayInv
  <2>3. {"trackOpen", "spawnProducer", "spawnSender"} \subseteq Labels \ Pausing
        /\ pc[c] # "join"
    BY <2>1 DEF Labels, Pausing, Activating
  <2> QED
    BY <2>1, <2>2, <2>3, PlayMoves
<1>4. CASE SpawnProducer(c) /\ Joinable(producer)
  BY <1>4, PlayStays DEF SpawnProducer, Crash, OnlyRacingStartsCrash
<1>5. CASE SpawnSender(c)
  <2>1. pc[c] = "spawnSender" /\ sender[ref[c]] = NoThread /\ playing[ref[c]]
    BY <1>5 DEF SpawnSender, PlayInv, Activating
  <2>2. /\ pc' = [pc EXCEPT ![c] = "release"] /\ sender' = [sender EXCEPT ![ref[c]] = "loop"]
        /\ UNCHANGED <<playing, crashed, ref, dying>>
    BY <1>5, <2>1 DEF SpawnSender, Joinable
  <2>3. /\ pc'[c] = "release" /\ \A d \in Connections \ {c} : pc'[d] = pc[d]
        /\ \A p \in Objects : p # ref[c] => sender'[p] = sender[p]
    BY <2>2 DEF Base, IInv, TypeInv
  <2>4. ref[c] # NoObject
    BY <2>1 DEF Base, IInv, PcInv, Using
  <2>5. ASSUME NEW p \in Objects, Joinable(sender'[p])
        PROVE  playing'[p] \/ \E d \in Connections : dying'[d] = p /\ pc'[d] = "join"
    <3>1. CASE p = ref[c]
      BY <2>1, <2>2, <3>1
    <3>2. CASE p # ref[c]
      BY <2>1, <2>2, <2>3, <2>5, <3>2 DEF PlayInv
    <3> QED
      BY <3>1, <3>2
  <2>6. ASSUME NEW d \in Connections
        PROVE  /\ pc'[d] \in Activating \cup Fresh => sender'[ref'[d]] = NoThread
               /\ pc'[d] \in Activating \ {"activate"} => playing'[ref'[d]]
               /\ pc'[d] \notin Pausing
    <3>1. CASE d = c
      BY <2>3, <3>1 DEF Activating, Fresh, Pausing
    <3>2. CASE d # c
      <4>1. ref[d] # ref[c]
        BY <2>4, <3>2, RefsApart
      <4>2. pc[d] \in Activating \cup Fresh => ref[d] \in Objects
        BY RefIsLive DEF Base, IInv, PcInv, Activating, Fresh, Using
      <4> QED
        BY <2>2, <2>3, <3>2, <4>1, <4>2 DEF PlayInv
    <3> QED
      BY <3>1, <3>2
  <2> QED
    BY <2>2, <2>5, <2>6 DEF PlayInv, OnlyRacingStartsCrash
<1> QED
  BY <1>1, <1>2, <1>3, <1>4, <1>5

(* stop(), which nobody calls for a session that a request uses.             *)
LEMMA PlayStopStep ==
  ASSUME OwnSessions, Base, PlayInv, NEW c \in Connections, StopSession(c) \/ JoinSender(c)
  PROVE  PlayInv'
<1> DEFINE o == dying[c]
<1> USE DEF At, Goto, sessionVars, localVars
<1>1. /\ pc[c] \in {"stop", "join"}
      /\ \E l \in {"join", "erase", "unregister"} : pc' = [pc EXCEPT ![c] = l]
      /\ UNCHANGED <<crashed, ref, dying>>
      /\ \/ pc' = [pc EXCEPT ![c] = "join"] /\ playing' = [playing EXCEPT ![o] = FALSE] /\ UNCHANGED sender
         \/ sender' = [sender EXCEPT ![o] = NoThread] /\ UNCHANGED playing
  BY DEF StopSession, JoinSender, AfterJoin
<1>2. /\ o \in Objects /\ Live(o) /\ id[o] = sid[c] /\ ref[c] = NoObject
  BY <1>1, Classes DEF Base, IInv, PcInv, TypeInv, DyingInv, OwnInv, Own
<1>3. \A d \in Connections : ref[d] # o
  BY <1>2, Alone, NullsAssumption DEF Base
<1> HIDE DEF o
<1>4. /\ pc'[c] \in {"join", "erase", "unregister"}
      /\ \A d \in Connections \ {c} : pc'[d] = pc[d]
      /\ \A p \in Objects : p # o => sender'[p] = sender[p] /\ playing'[p] = playing[p]
  BY <1>1 DEF Base, IInv, TypeInv, FlagTypes
<1>5. pc'[c] = "join" \/ ~Joinable(sender'[o])
  BY <1>1, <1>2 DEF Base, IInv, TypeInv, Joinable
<1>6. ASSUME NEW p \in Objects, Joinable(sender'[p])
      PROVE  playing'[p] \/ \E d \in Connections : dying'[d] = p /\ pc'[d] = "join"
  <2>1. CASE p = o
    BY <1>1, <1>5, <1>6, <2>1 DEF o
  <2>2. CASE p # o
    <3>1. playing[p] \/ \E d \in Connections : dying[d] = p /\ pc[d] = "join"
      BY <1>4, <1>6, <2>2 DEF PlayInv
    <3> QED
      BY <1>1, <1>4, <2>2, <3>1 DEF o
  <2> QED
    BY <2>1, <2>2
<1>7. ASSUME NEW d \in Connections
      PROVE  /\ pc'[d] \in Activating \cup Fresh => sender'[ref'[d]] = NoThread
             /\ pc'[d] \in Activating \ {"activate"} => playing'[ref'[d]]
             /\ pc'[d] \notin Pausing
  <2>1. CASE d = c
    BY <1>4, <2>1 DEF Activating, Fresh, Pausing
  <2>2. CASE d # c
    <3>1. pc[d] \in Activating \cup Fresh => ref[d] \in Objects
      BY RefIsLive DEF Base, IInv, PcInv, Activating, Fresh, Using
    <3> QED
      BY <1>1, <1>3, <1>4, <2>2, <3>1 DEF PlayInv
  <2> QED
    BY <2>1, <2>2
<1> QED
  BY <1>1, <1>6, <1>7 DEF PlayInv, OnlyRacingStartsCrash

LEMMA PlaySenderStep ==
  ASSUME Base, PlayInv, NEW o \in Objects, SenderRuns(o)
  PROVE  PlayInv'
<1>1. /\ UNCHANGED <<pc, ref, dying, playing, crashed>>
      /\ \A p \in Objects : Joinable(sender'[p]) => Joinable(sender[p])
  BY DEF SenderRuns, SenderTestsActive, SenderWaits, SenderGetsFrame, Joinable, NoThread,
         sessionVars, localVars, Base, IInv, TypeInv
<1>2. \A d \in Connections : pc[d] \in Activating \cup Fresh => ref[d] \in Objects
  BY RefIsLive DEF Base, IInv, PcInv, Activating, Fresh, Using
<1> QED
  BY <1>1, <1>2 DEF PlayInv, OnlyRacingStartsCrash, Joinable

LEMMA PlayStep ==
  OwnSessions /\ NoPause /\ Base /\ OwnerInv /\ PlayInv /\ [Next]_vars => PlayInv'
<1> SUFFICES ASSUME OwnSessions, NoPause, Base, OwnerInv, PlayInv, [Next]_vars PROVE PlayInv'
  OBVIOUS
<1>1. CASE UNCHANGED vars \/ ProducerRuns
  <2>1. UNCHANGED <<sender, playing, pc, ref, dying, crashed>>
    BY <1>1 DEF vars, ProducerRuns, sessionVars, localVars
  <2> QED
    BY <2>1, PlayStays DEF PlayInv, OnlyRacingStartsCrash
<1>2. ASSUME NEW o \in Objects, SenderRuns(o) PROVE PlayInv'
  BY <1>2, PlaySenderStep
<1>3. ASSUME NEW c \in Connections,
             \/ Accept(c) \/ Disconnect(c) \/ SendKills(c) \/ ConnectionRuns(c)
             \/ \E m \in Methods : \E s \in SessionIds \cup {NoId} : Receive(c, m, s)
      PROVE  PlayInv'
  BY <1>3, PlayCalmStep, PlaySetupStep, PlayStartStep, PlayStopStep DEF ConnectionRuns
<1> QED
  BY <1>1, <1>2, <1>3 DEF Next

(* No null session is dereferenced and no sender thread is destroyed or      *)
(* assigned to while it is joinable (ConnectionHandler.cpp:260-262,          *)
(* Session.cpp:43,54): clients with sessions of their own, that set up once  *)
(* and do not PAUSE, can end the server only by two PLAYs that both find the *)
(* track inactive (MediaSourceHandler.cpp:141-142) or by a response that     *)
(* raises SIGPIPE (ConnectionHandler.cpp:106).                               *)
THEOREM OnlyRacingPlaysEndTheServer ==
  OwnSessions /\ SetupOnce /\ NoPause => (Spec => []OnlyRacingStartsCrash)
<1> SUFFICES ASSUME OwnSessions, SetupOnce, NoPause PROVE Spec => []OnlyRacingStartsCrash
  OBVIOUS
<1>1. Base /\ RegInv /\ OwnerInv /\ PlayInv /\ [Next]_vars => PlayInv'
  BY PlayStep
<1>2. PlayInv => OnlyRacingStartsCrash
  BY DEF PlayInv
<1> QED
  BY <1>1, <1>2, PlayInit, BaseInvariance, OwnerInvariance, PTL DEF Spec
=============================================================================
