----------------------------- MODULE RtspServer -----------------------------
(***************************************************************************)
(* RTSPServer and ThreadPool: from accept() to the end of a connection.    *)
(*                                                                         *)
(* The accept loop starts a detached thread per connection, handle_client, *)
(* which puts a ConnectionHandler into the connection map and a task into  *)
(* the queue of the pool.  A worker runs the task: process(), then         *)
(* remove_connection(), then close().  The handler is reference counted;   *)
(* the thread that drops the last reference runs its destructor, which     *)
(* terminates the session and closes the descriptor once more.             *)
(*                                                                         *)
(* run() never returns, so nobody calls ~ThreadPool and stop_ stays false. *)
(***************************************************************************)
EXTENDS Integers, Sequences, FiniteSets

CONSTANTS
  Conns,    \* client connections, each of them made once
  Workers,  \* the threads of the pool
  Fds,      \* descriptor numbers
  Nobody

ASSUME FdsAssumption == Fds \subseteq Nat
ASSUME WorkersAssumption == IsFiniteSet(Workers)
ASSUME NobodyAssumption == Nobody \notin Conns \cup Fds

VARIABLES
  fd,           \* the number a connection got: client_fd, client_socket_
  file,         \* the kernel's table: the connection behind a number
  connections,  \* connections_
  starter,      \* where the handle_client thread of a connection is
  tasks,        \* tasks_: a task is its connection
  asleep,       \* the workers asleep on tasks_cv_
  pc,           \* where a worker is
  current,      \* the connection whose task a worker runs
  destructor    \* where ~ConnectionHandler of a connection is

vars == <<fd, file, connections, starter, tasks, asleep, pc, current, destructor>>

Init ==
  /\ fd = [c \in Conns |-> Nobody]
  /\ file = [f \in Fds |-> Nobody]
  /\ connections = [f \in Fds |-> Nobody]
  /\ starter = [c \in Conns |-> "none"]
  /\ tasks = <<>>
  /\ asleep = {}
  /\ pc = [w \in Workers |-> "idle"]
  /\ current = [w \in Workers |-> Nobody]
  /\ destructor = [c \in Conns |-> "none"]

-----------------------------------------------------------------------------
(* Who holds a reference to the handler of c. *)

StarterHolds(c) == starter[c] \in {"insert", "enqueue", "notify", "return"}

MapHolds(c) == \E f \in Fds : connections[f] = c

Queued(c) == \E i \in 1 .. Len(tasks) : tasks[i] = c

Runs(w, c) == current[w] = c /\ pc[w] # "destroy"

(* The destructor runs in the thread that drops the last reference.          *)
Destroy(c) == destructor' = [destructor EXCEPT ![c] = "terminate"]

-----------------------------------------------------------------------------
(* The accept loop and the handle_client threads. *)

FreeFds == {f \in Fds : file[f] = Nobody}

(* The kernel gives the lowest free number; without one accept() fails and   *)
(* the loop tries again.                                                     *)
Accept(c) ==
  /\ starter[c] = "none"
  /\ \E f \in FreeFds :
       /\ \A g \in FreeFds : f <= g
       /\ fd' = [fd EXCEPT ![c] = f]
       /\ file' = [file EXCEPT ![f] = c]
  /\ starter' = [starter EXCEPT ![c] = "insert"]
  /\ UNCHANGED <<connections, tasks, asleep, pc, current, destructor>>

InsertConnection(c) ==
  /\ starter[c] = "insert"
  /\ connections' = [connections EXCEPT ![fd[c]] = c]
  /\ starter' = [starter EXCEPT ![c] = "enqueue"]
  /\ UNCHANGED <<fd, file, tasks, asleep, pc, current, destructor>>

Enqueue(c) ==
  /\ starter[c] = "enqueue"
  /\ tasks' = Append(tasks, c)
  /\ starter' = [starter EXCEPT ![c] = "notify"]
  /\ UNCHANGED <<fd, file, connections, asleep, pc, current, destructor>>

(* Mutant of Notify: enqueue() returns without notify_one().                 *)
NotifyNobody(c) ==
  /\ starter[c] = "notify"
  /\ starter' = [starter EXCEPT ![c] = "return"]
  /\ UNCHANGED <<fd, file, connections, tasks, asleep, pc, current, destructor>>

(* notify_one() comes after the unlock and wakes any one sleeper.            *)
Notify(c) ==
  /\ starter[c] = "notify"
  /\ IF asleep = {} THEN UNCHANGED asleep
     ELSE \E w \in asleep : asleep' = asleep \ {w}
  /\ starter' = [starter EXCEPT ![c] = "return"]
  /\ UNCHANGED <<fd, file, connections, tasks, pc, current, destructor>>

(* Mutant of Return: the task captures a plain pointer to the handler.       *)
ReturnSoleOwner(c) ==
  /\ starter[c] = "return"
  /\ starter' = [starter EXCEPT ![c] = "done"]
  /\ IF MapHolds(c) THEN UNCHANGED destructor ELSE Destroy(c)
  /\ UNCHANGED <<fd, file, connections, tasks, asleep, pc, current>>

(* The worker may have been faster: then this thread has the last reference. *)
Return(c) ==
  /\ starter[c] = "return"
  /\ starter' = [starter EXCEPT ![c] = "done"]
  /\ IF MapHolds(c) \/ Queued(c) \/ \E w \in Workers : Runs(w, c)
     THEN UNCHANGED destructor
     ELSE Destroy(c)
  /\ UNCHANGED <<fd, file, connections, tasks, asleep, pc, current>>

-----------------------------------------------------------------------------
(* The workers. *)

(* Mutant of Sleep: wait() without a predicate.                              *)
SleepUntested(w) ==
  /\ pc[w] = "idle" /\ w \notin asleep
  /\ asleep' = asleep \cup {w}
  /\ UNCHANGED <<fd, file, connections, starter, tasks, pc, current, destructor>>

Sleep(w) ==
  /\ pc[w] = "idle" /\ w \notin asleep
  /\ tasks = <<>>
  /\ asleep' = asleep \cup {w}
  /\ UNCHANGED <<fd, file, connections, starter, tasks, pc, current, destructor>>

SpuriousWakeup(w) ==
  /\ w \in asleep
  /\ asleep' = asleep \ {w}
  /\ UNCHANGED <<fd, file, connections, starter, tasks, pc, current, destructor>>

TakeTask(w) ==
  /\ pc[w] = "idle" /\ w \notin asleep
  /\ tasks # <<>>
  /\ current' = [current EXCEPT ![w] = Head(tasks)]
  /\ tasks' = Tail(tasks)
  /\ pc' = [pc EXCEPT ![w] = "process"]
  /\ UNCHANGED <<fd, file, connections, starter, asleep, destructor>>

(* process() returns when the client leaves or asks for TEARDOWN, or when    *)
(* the descriptor is not open any more.                                      *)
ProcessReturns(w) ==
  /\ pc[w] = "process"
  /\ pc' = [pc EXCEPT ![w] = "remove"]
  /\ UNCHANGED <<fd, file, connections, starter, tasks, asleep, current, destructor>>

(* Mutant of RemoveConnection: the entry of the map stays.                   *)
RemoveNothing(w) ==
  /\ pc[w] = "remove"
  /\ pc' = [pc EXCEPT ![w] = "close"]
  /\ UNCHANGED <<fd, file, connections, starter, tasks, asleep, current, destructor>>

(* Mutant of RemoveConnection: the descriptor is closed here as well.        *)
RemoveAndClose(w) ==
  /\ pc[w] = "remove"
  /\ connections' = [connections EXCEPT ![fd[current[w]]] = Nobody]
  /\ file' = [file EXCEPT ![fd[current[w]]] = Nobody]
  /\ pc' = [pc EXCEPT ![w] = "close"]
  /\ UNCHANGED <<fd, starter, tasks, asleep, current, destructor>>

(* connections_.erase(client_fd): whoever's entry that is.                   *)
RemoveConnection(w) ==
  /\ pc[w] = "remove"
  /\ connections' = [connections EXCEPT ![fd[current[w]]] = Nobody]
  /\ pc' = [pc EXCEPT ![w] = "close"]
  /\ UNCHANGED <<fd, file, starter, tasks, asleep, current, destructor>>

(* close(client_fd): whatever the number stands for now.                     *)
CloseDescriptor(w) ==
  /\ pc[w] = "close"
  /\ file' = [file EXCEPT ![fd[current[w]]] = Nobody]
  /\ pc' = [pc EXCEPT ![w] = "drop"]
  /\ UNCHANGED <<fd, connections, starter, tasks, asleep, current, destructor>>

(* The task object goes away at the end of the worker's iteration.           *)
DropTask(w) ==
  /\ pc[w] = "drop"
  /\ LET c == current[w]
     IN IF StarterHolds(c) \/ MapHolds(c)
        THEN /\ pc' = [pc EXCEPT ![w] = "idle"]
             /\ current' = [current EXCEPT ![w] = Nobody]
             /\ UNCHANGED destructor
        ELSE /\ Destroy(c)
             /\ pc' = [pc EXCEPT ![w] = "destroy"]
             /\ UNCHANGED current
  /\ UNCHANGED <<fd, file, connections, starter, tasks, asleep>>

WorkerGoesOn(w) ==
  /\ pc[w] = "destroy" /\ destructor[current[w]] = "done"
  /\ pc' = [pc EXCEPT ![w] = "idle"]
  /\ current' = [current EXCEPT ![w] = Nobody]
  /\ UNCHANGED <<fd, file, connections, starter, tasks, asleep, destructor>>

-----------------------------------------------------------------------------
(* ~ConnectionHandler, in whichever thread. *)

(* terminate_session() may take long, or for ever.                           *)
SessionTerminated(c) ==
  /\ destructor[c] = "terminate"
  /\ destructor' = [destructor EXCEPT ![c] = "close"]
  /\ UNCHANGED <<fd, file, connections, starter, tasks, asleep, pc, current>>

CloseAgain(c) ==
  /\ destructor[c] = "close"
  /\ file' = [file EXCEPT ![fd[c]] = Nobody]
  /\ destructor' = [destructor EXCEPT ![c] = "done"]
  /\ UNCHANGED <<fd, connections, starter, tasks, asleep, pc, current>>

StarterSteps(c) == InsertConnection(c) \/ Enqueue(c) \/ Notify(c) \/ Return(c)

WorkerSteps(w) ==
  Sleep(w) \/ TakeTask(w) \/ RemoveConnection(w) \/ CloseDescriptor(w)
    \/ DropTask(w) \/ WorkerGoesOn(w)

Next ==
  \/ \E c \in Conns : Accept(c) \/ StarterSteps(c) \/ SessionTerminated(c) \/ CloseAgain(c)
  \/ \E w \in Workers : WorkerSteps(w) \/ SpuriousWakeup(w) \/ ProcessReturns(w)

(* Threads run.  A client need not leave and a session need not end: no      *)
(* fairness for ProcessReturns and SessionTerminated.                        *)
Fairness ==
  /\ \A c \in Conns : WF_vars(StarterSteps(c)) /\ WF_vars(CloseAgain(c))
  /\ \A w \in Workers : WF_vars(WorkerSteps(w))

Spec     == Init /\ [][Next]_vars
FairSpec == Spec /\ Fairness

-----------------------------------------------------------------------------
(* Types.  A sleeping worker is one without a task, and a worker without a   *)
(* task is idle.                                                             *)
TypeOK ==
  /\ fd \in [Conns -> Fds \cup {Nobody}]
  /\ file \in [Fds -> Conns \cup {Nobody}]
  /\ connections \in [Fds -> Conns \cup {Nobody}]
  /\ starter \in [Conns -> {"none", "insert", "enqueue", "notify", "return", "done"}]
  /\ tasks \in Seq(Conns)
  /\ asleep \subseteq Workers
  /\ pc \in [Workers -> {"idle", "process", "remove", "close", "drop", "destroy"}]
  /\ current \in [Workers -> Conns \cup {Nobody}]
  /\ destructor \in [Conns -> {"none", "terminate", "close", "done"}]
  /\ \A c \in Conns : fd[c] = Nobody <=> starter[c] = "none"
  /\ \A w \in Workers : current[w] = Nobody <=> pc[w] = "idle"
  /\ \A w \in asleep : pc[w] = "idle"

Awake == {w \in Workers : pc[w] = "idle" /\ w \notin asleep}

Notifying == {c \in Conns : starter[c] = "notify"}

(* While a worker sleeps, every task in the queue has a worker that is about *)
(* to take one or a notification that is about to be sent: notify_one()      *)
(* outside the mutex loses none (ThreadPool::enqueue, ThreadPool::worker).   *)
SleepersLeaveNoTask ==
  asleep # {} => Len(tasks) <= Cardinality(Awake) + Cardinality(Notifying)

(* A handler in the map is still in use by its starter, the queue or a       *)
(* worker, so that erasing or overwriting an entry, even that of another     *)
(* connection with the same number, never destroys a handler, and a finished *)
(* connection leaves no handler (and no session) behind.                     *)
MappedHandlersAreInUse ==
  \A f \in Fds : connections[f] # Nobody =>
    LET c == connections[f]
    IN \/ starter[c] = "enqueue"
       \/ Queued(c)
       \/ \E w \in Workers : current[w] = c /\ pc[w] \in {"process", "remove"}

(* ~ConnectionHandler runs only when no thread, task or map entry can still  *)
(* reach the handler, whoever drops the last reference.                      *)
NoUseAfterDestruction ==
  \A c \in Conns : destructor[c] # "none" =>
    ~StarterHolds(c) /\ ~MapHolds(c) /\ ~Queued(c) /\ \A w \in Workers : ~Runs(w, c)

(* A connection in the queue is served, unless clients or their sessions     *)
(* keep every worker for ever.                                               *)
AllWorkersAreTaken ==
  \A w \in Workers : \/ pc[w] = "process"
                     \/ pc[w] = "destroy" /\ destructor[current[w]] = "terminate"

QueuedConnectionIsServed ==
  \/ \A c \in Conns : Queued(c) ~> (\E w \in Workers : current[w] = c)
  \/ <>[]AllWorkersAreTaken

(* The descriptor that process() reads from and writes to is its own         *)
(* client's, with one exception: another connection with the same number has *)
(* run ~ConnectionHandler, whose close() is the second one of that number    *)
(* (RtspServer.cpp:87, ConnectionHandler.cpp:26).                            *)
OnlyTheSecondCloseHurts ==
  \A w \in Workers : LET c == current[w] IN
    pc[w] = "process" /\ file[fd[c]] # c
      => \E d \in Conns \ {c} : fd[d] = fd[c] /\ destructor[d] = "done"
=============================================================================
