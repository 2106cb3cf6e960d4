------------------------- MODULE RtspServer_proofs --------------------------
(* Proofs about RtspServer, for any clients, any finite pool of workers and  *)
(* any descriptor numbers.                                                   *)
EXTENDS RtspServer, FiniteSetTheorems, TLAPS

(* A task goes once from its starter through the queue to one worker.        *)
Order ==
  /\ \A i, j \in 1 .. Len(tasks) : tasks[i] = tasks[j] => i = j
  /\ \A c \in Conns : starter[c] \in {"none", "insert", "enqueue"} => ~Queued(c)
  /\ \A w \in Workers, c \in Conns : current[w] = c =>
       starter[c] \in {"notify", "return", "done"} /\ ~Queued(c)
  /\ \A v, w \in Workers : current[v] = current[w] /\ current[v] # Nobody => v = w

(* Behind the destructor there is nothing left but the worker that runs it.  *)
Dead ==
  /\ \A c \in Conns : destructor[c] # "none" =>
       /\ starter[c] = "done" /\ ~Queued(c)
       /\ \A w \in Workers : current[w] = c => pc[w] = "destroy"
  /\ \A w \in Workers : pc[w] = "destroy" => destructor[current[w]] # "none"

(* An entry of the map is at the number of its connection.                   *)
Mapped ==
  /\ \A f \in Fds : connections[f] # Nobody => fd[connections[f]] = f
  /\ MappedHandlersAreInUse

(* The descriptor of c was not closed by its own task yet.                   *)
Live(c) ==
  \/ starter[c] \in {"insert", "enqueue"}
  \/ Queued(c)
  \/ \E w \in Workers : current[w] = c /\ pc[w] \in {"process", "remove", "close"}

(* Another connection with the number of c has closed it twice.              *)
Hurt(c) == \E d \in Conns \ {c} : fd[d] = fd[c] /\ destructor[d] = "done"

Open == \A c \in Conns : Live(c) => file[fd[c]] = c \/ Hurt(c)

Enough == IsFiniteSet(Notifying) /\ SleepersLeaveNoTask

IInv == TypeOK /\ Order /\ Dead /\ Mapped /\ Open

-----------------------------------------------------------------------------
(* The queue of the pool.                                                    *)
LEMMA QueueGrows ==
  ASSUME TypeOK, Order, NEW c \in Conns, tasks' = Append(tasks, c), ~Queued(c)
  PROVE  /\ tasks' \in Seq(Conns) /\ Len(tasks') = Len(tasks) + 1
         /\ \A d : Queued(d)' <=> Queued(d) \/ d = c
         /\ \A i, j \in 1 .. Len(tasks') : tasks'[i] = tasks'[j] => i = j
<1>1. tasks \in Seq(Conns) /\ Len(tasks) \in Nat
  BY DEF TypeOK
<1>2. /\ tasks' \in Seq(Conns) /\ Len(tasks') = Len(tasks) + 1
      /\ tasks'[Len(tasks) + 1] = c
      /\ \A i \in 1 .. Len(tasks) : tasks'[i] = tasks[i]
  BY <1>1
<1>3. \A i \in 1 .. Len(tasks) : tasks[i] # c
  BY DEF Queued
<1>4. ASSUME NEW i \in 1 .. Len(tasks'), NEW j \in 1 .. Len(tasks'), tasks'[i] = tasks'[j]
      PROVE  i = j
  <2>1. \/ i \in 1 .. Len(tasks) \/ i = Len(tasks) + 1
    BY <1>1, <1>2
  <2>2. \/ j \in 1 .. Len(tasks) \/ j = Len(tasks) + 1
    BY <1>1, <1>2
  <2> QED
    BY <1>2, <1>3, <1>4, <2>1, <2>2 DEF Order
<1>5. ASSUME NEW d
      PROVE  Queued(d)' <=> Queued(d) \/ d = c
  <2>1. Queued(d)' <=> \E i \in 1 .. Len(tasks) + 1 : tasks'[i] = d
    BY <1>2 DEF Queued
  <2>2. 1 .. Len(tasks) + 1 = (1 .. Len(tasks)) \cup {Len(tasks) + 1}
    BY <1>1
  <2> QED
    BY <1>2, <2>1, <2>2 DEF Queued
<1> QED
  BY <1>2, <1>4, <1>5

LEMMA QueueShrinks ==
  ASSUME TypeOK, Order, tasks # <<>>, tasks' = Tail(tasks)
  PROVE  /\ Head(tasks) \in Conns /\ Queued(Head(tasks))
         /\ tasks' \in Seq(Conns) /\ Len(tasks') = Len(tasks) - 1
         /\ \A d : Queued(d)' <=> Queued(d) /\ d # Head(tasks)
         /\ \A i, j \in 1 .. Len(tasks') : tasks'[i] = tasks'[j] => i = j
<1>1. tasks \in Seq(Conns) /\ Len(tasks) \in Nat /\ Len(tasks) > 0
  BY DEF TypeOK
<1>2. /\ Head(tasks) = tasks[1] /\ Head(tasks) \in Conns
      /\ tasks' \in Seq(Conns) /\ Len(tasks') = Len(tasks) - 1
      /\ \A i \in 1 .. Len(tasks) - 1 : tasks'[i] = tasks[i + 1]
  BY <1>1
<1>3. Queued(Head(tasks))
  BY <1>1, <1>2 DEF Queued
<1>4. \A i, j \in 1 .. Len(tasks') : tasks'[i] = tasks'[j] => i = j
  <2> SUFFICES ASSUME NEW i \in 1 .. Len(tasks) - 1, NEW j \in 1 .. Len(tasks) - 1,
                      tasks'[i] = tasks'[j]
               PROVE  i = j
    BY <1>2
  <2>1. i + 1 \in 1 .. Len(tasks) /\ j + 1 \in 1 .. Len(tasks)
    BY <1>1
  <2>2. i + 1 = j + 1
    BY <1>2, <2>1 DEF Order
  <2> QED
    BY <2>2
<1>5. ASSUME NEW d
      PROVE  Queued(d)' <=> Queued(d) /\ d # Head(tasks)
  <2>1. ASSUME Queued(d)' PROVE Queued(d) /\ d # Head(tasks)
    <3>1. PICK i \in 1 .. Len(tasks) - 1 : tasks'[i] = d
      BY <1>2, <2>1 DEF Queued
    <3>2. i + 1 \in 1 .. Len(tasks) /\ 1 \in 1 .. Len(tasks) /\ i + 1 # 1
      BY <1>1
    <3>3. tasks[i + 1] = d
      BY <1>2, <3>1
    <3>4. tasks[1] # d
      BY <3>2, <3>3 DEF Order
    <3> QED
      BY <1>2, <3>2, <3>3, <3>4 DEF Queued
  <2>2. ASSUME Queued(d), d # Head(tasks) PROVE Queued(d)'
    <3>1. PICK i \in 1 .. Len(tasks) : tasks[i] = d
      BY <2>2 DEF Queued
    <3>2. i # 1
      BY <1>2, <2>2, <3>1
    <3>3. i - 1 \in 1 .. Len(tasks) - 1 /\ (i - 1) + 1 = i
      BY <1>1, <3>2
    <3>4. tasks'[i - 1] = d
      BY <1>2, <3>1, <3>3
    <3> QED
      BY <1>2, <3>3, <3>4 DEF Queued
  <2> QED
    BY <2>1, <2>2
<1> QED
  BY <1>2, <1>3, <1>4, <1>5

LEMMA QueueStays ==
  ASSUME UNCHANGED tasks
  PROVE  \A d : Queued(d)' <=> Queued(d)
BY DEF Queued

-----------------------------------------------------------------------------
LEMMA InitOK == Init => IInv /\ Enough
<1> SUFFICES ASSUME Init PROVE IInv /\ Enough
  OBVIOUS
<1>1. TypeOK
  BY NobodyAssumption DEF Init, TypeOK
<1>2. \A d : ~Queued(d)
  BY DEF Init, Queued
<1>3. Order
  BY <1>2, NobodyAssumption DEF Init, Order
<1>4. Dead /\ Mapped
  BY DEF Init, Dead, Mapped, MappedHandlersAreInUse
<1>5. Open
  BY <1>2, NobodyAssumption DEF Init, Open, Live
<1>6. Enough
  <2>1. Notifying = {}
    BY DEF Init, Notifying
  <2> QED
    BY <2>1, FS_EmptySet DEF Init, Enough, SleepersLeaveNoTask
<1> QED
  BY <1>1, <1>3, <1>4, <1>5, <1>6 DEF IInv

LEMMA TypeStep ==
  ASSUME TypeOK, Order, [Next]_vars
  PROVE  TypeOK'
<1> USE NobodyAssumption DEF TypeOK
<1>1. ASSUME NEW c \in Conns, Accept(c) PROVE TypeOK'
  BY <1>1 DEF Accept, FreeFds
<1>2. ASSUME NEW c \in Conns, InsertConnection(c) PROVE TypeOK'
  BY <1>2 DEF InsertConnection
<1>3. ASSUME NEW c \in Conns, Enqueue(c) PROVE TypeOK'
  <2>1. tasks' \in Seq(Conns)
    BY <1>3 DEF Enqueue
  <2> QED
    BY <1>3, <2>1 DEF Enqueue
<1>4. ASSUME NEW c \in Conns, Notify(c) PROVE TypeOK'
  BY <1>4 DEF Notify
<1>5. ASSUME NEW c \in Conns, Return(c) PROVE TypeOK'
  BY <1>5 DEF Return, Destroy
<1>6. ASSUME NEW c \in Conns, SessionTerminated(c) PROVE TypeOK'
  BY <1>6 DEF SessionTerminated
<1>7. ASSUME NEW c \in Conns, CloseAgain(c) PROVE TypeOK'
  BY <1>7 DEF CloseAgain
<1>8. ASSUME NEW w \in Workers, Sleep(w) PROVE TypeOK'
  BY <1>8 DEF Sleep
<1>9. ASSUME NEW w \in Workers, TakeTask(w) PROVE TypeOK'
  <2>1. Head(tasks) \in Conns /\ tasks' \in Seq(Conns)
    BY <1>9, QueueShrinks DEF TakeTask
  <2>2. /\ current' = [current EXCEPT ![w] = Head(tasks)]
        /\ pc' = [pc EXCEPT ![w] = "process"]
        /\ UNCHANGED <<fd, file, connections, starter, asleep, destructor>>
        /\ w \notin asleep
    BY <1>9 DEF TakeTask
  <2> QED
    BY <2>1, <2>2
<1>10. ASSUME NEW w \in Workers, RemoveConnection(w) PROVE TypeOK'
  BY <1>10 DEF RemoveConnection
<1>11. ASSUME NEW w \in Workers, CloseDescriptor(w) PROVE TypeOK'
  BY <1>11 DEF CloseDescriptor
<1>12. ASSUME NEW w \in Workers, DropTask(w) PROVE TypeOK'
  BY <1>12 DEF DropTask, Destroy
<1>13. ASSUME NEW w \in Workers, WorkerGoesOn(w) PROVE TypeOK'
  BY <1>13 DEF WorkerGoesOn
<1>14. ASSUME NEW w \in Workers, SpuriousWakeup(w) PROVE TypeOK'
  BY <1>14 DEF SpuriousWakeup
<1>15. ASSUME NEW w \in Workers, ProcessReturns(w) PROVE TypeOK'
  BY <1>15 DEF ProcessReturns
<1>16. CASE UNCHANGED vars
  BY <1>16 DEF vars
<1> QED
  BY <1>1, <1>2, <1>3, <1>4, <1>5, <1>6, <1>7, <1>8, <1>9, <1>10, <1>11, <1>12, <1>13,
     <1>14, <1>15, <1>16 DEF Next, StarterSteps, WorkerSteps

(* Who may move a task: all other steps leave it where it is.                *)
LEMMA OrderStep ==
  ASSUME TypeOK, Order, [Next]_vars
  PROVE  Order'
<1> USE NobodyAssumption DEF TypeOK, Order
<1>1. ASSUME UNCHANGED tasks,
             \/ UNCHANGED <<starter, current>>
             \/ UNCHANGED starter /\ \E w \in Workers : current' = [current EXCEPT ![w] = Nobody]
             \/ UNCHANGED current /\ \E c \in Conns :
                  \/ starter[c] = "none" /\ starter' = [starter EXCEPT ![c] = "insert"]
                  \/ starter[c] = "insert" /\ starter' = [starter EXCEPT ![c] = "enqueue"]
                  \/ starter[c] = "notify" /\ starter' = [starter EXCEPT ![c] = "return"]
                  \/ starter[c] = "return" /\ starter' = [starter EXCEPT ![c] = "done"]
      PROVE  Order'
  <2>1. \A d : Queued(d)' <=> Queued(d)
    BY <1>1, QueueStays
  <2>2. CASE UNCHANGED <<starter, current>>
    BY <1>1, <2>1, <2>2
  <2>3. CASE UNCHANGED starter /\ \E w \in Workers : current' = [current EXCEPT ![w] = Nobody]
    BY <1>1, <2>1, <2>3
  <2>4. CASE UNCHANGED current /\ \E c \in Conns :
                  \/ starter[c] = "none" /\ starter' = [starter EXCEPT ![c] = "insert"]
                  \/ starter[c] = "insert" /\ starter' = [starter EXCEPT ![c] = "enqueue"]
                  \/ starter[c] = "notify" /\ starter' = [starter EXCEPT ![c] = "return"]
                  \/ starter[c] = "return" /\ starter' = [starter EXCEPT ![c] = "done"]
    BY <1>1, <2>1, <2>4
  <2> QED
    BY <1>1, <2>2, <2>3, <2>4
<1>2. ASSUME NEW c \in Conns, Enqueue(c) PROVE Order'
  <2>1. starter[c] = "enqueue" /\ ~Queued(c)
    BY <1>2 DEF Enqueue
  <2>2. /\ \A d : Queued(d)' <=> Queued(d) \/ d = c
        /\ \A i, j \in 1 .. Len(tasks') : tasks'[i] = tasks'[j] => i = j
    BY <1>2, <2>1, QueueGrows DEF Enqueue
  <2>3. starter' = [starter EXCEPT ![c] = "notify"] /\ UNCHANGED current
    BY <1>2 DEF Enqueue
  <2>4. \A w \in Workers : current[w] # c
    BY <2>1
  <2> QED
    BY <2>1, <2>2, <2>3, <2>4
<1>3. ASSUME NEW w \in Workers, TakeTask(w) PROVE Order'
  <2> DEFINE c == Head(tasks)
  <2>1. /\ c \in Conns /\ Queued(c)
        /\ \A d : Queued(d)' <=> Queued(d) /\ d # c
        /\ \A i, j \in 1 .. Len(tasks') : tasks'[i] = tasks'[j] => i = j
    BY <1>3, QueueShrinks DEF TakeTask
  <2>2. current' = [current EXCEPT ![w] = c] /\ UNCHANGED starter
    BY <1>3 DEF TakeTask
  <2> HIDE DEF c
  <2>3. starter[c] \in {"notify", "return", "done"} /\ \A v \in Workers : current[v] # c
    BY <2>1
  <2> QED
    BY <2>1, <2>2, <2>3
<1>4. ASSUME NEW c \in Conns,
             Accept(c) \/ InsertConnection(c) \/ Notify(c) \/ Return(c)
      PROVE  Order'
  BY <1>1, <1>4 DEF Accept, InsertConnection, Notify, Return
<1>5. ASSUME NEW c \in Conns, SessionTerminated(c) \/ CloseAgain(c) PROVE Order'
  BY <1>1, <1>5 DEF SessionTerminated, CloseAgain
<1>6. ASSUME NEW w \in Workers,
             Sleep(w) \/ RemoveConnection(w) \/ CloseDescriptor(w) \/ DropTask(w)
               \/ WorkerGoesOn(w) \/ SpuriousWakeup(w) \/ ProcessReturns(w)
      PROVE  Order'
  BY <1>1, <1>6 DEF Sleep, RemoveConnection, CloseDescriptor, DropTask, WorkerGoesOn,
                    SpuriousWakeup, ProcessReturns
<1>7. CASE UNCHANGED vars
  BY <1>1, <1>7 DEF vars
<1> QED
  BY <1>2, <1>3, <1>4, <1>5, <1>6, <1>7 DEF Next, StarterSteps, WorkerSteps

LEMMA DeadStep ==
  ASSUME TypeOK, Order, Dead, [Next]_vars
  PROVE  Dead'
<1> USE NobodyAssumption DEF TypeOK, Dead
<1>1. ASSUME UNCHANGED tasks PROVE \A d : Queued(d)' <=> Queued(d)
  BY <1>1, QueueStays
<1>2. ASSUME NEW c \in Conns, Accept(c) \/ InsertConnection(c) \/ Notify(c) PROVE Dead'
  <2>1. UNCHANGED <<tasks, pc, current, destructor>> /\ starter[c] # "done"
        /\ starter' \in [Conns -> {"none", "insert", "enqueue", "notify", "return", "done"}]
        /\ \A d \in Conns \ {c} : starter'[d] = starter[d]
    BY <1>2 DEF Accept, InsertConnection, Notify
  <2> QED
    BY <1>1, <2>1
<1>3. ASSUME NEW c \in Conns, Enqueue(c) PROVE Dead'
  <2>1. starter[c] = "enqueue" /\ ~Queued(c)
    BY <1>3 DEF Enqueue, Order
  <2>2. \A d : Queued(d)' <=> Queued(d) \/ d = c
    BY <1>3, <2>1, QueueGrows DEF Enqueue
  <2>3. starter' = [starter EXCEPT ![c] = "notify"] /\ UNCHANGED <<pc, current, destructor>>
    BY <1>3 DEF Enqueue
  <2> QED
    BY <2>1, <2>2, <2>3
<1>4. ASSUME NEW c \in Conns, Return(c) PROVE Dead'
  <2>1. starter[c] = "return" /\ starter' = [starter EXCEPT ![c] = "done"]
        /\ UNCHANGED <<tasks, pc, current>>
    BY <1>4 DEF Return
  <2>2. CASE UNCHANGED destructor
    BY <1>1, <2>1, <2>2
  <2>3. CASE ~Queued(c) /\ (\A w \in Workers : ~Runs(w, c)) /\ Destroy(c)
    <3>1. \A w \in Workers : current[w] = c => pc[w] = "destroy"
      BY <2>3 DEF Runs
    <3> QED
      BY <1>1, <2>1, <2>3, <3>1 DEF Destroy
  <2> QED
    BY <1>4, <2>2, <2>3 DEF Return
<1>5. ASSUME NEW c \in Conns, SessionTerminated(c) PROVE Dead'
  BY <1>1, <1>5 DEF SessionTerminated
<1>6. ASSUME NEW c \in Conns, CloseAgain(c) PROVE Dead'
  BY <1>1, <1>6 DEF CloseAgain
<1>7. ASSUME NEW w \in Workers, Sleep(w) \/ SpuriousWakeup(w) PROVE Dead'
  BY <1>1, <1>7 DEF Sleep, SpuriousWakeup
<1>8. ASSUME NEW w \in Workers, TakeTask(w) PROVE Dead'
  <2> DEFINE c == Head(tasks)
  <2>1. /\ c \in Conns /\ Queued(c)
        /\ \A d : Queued(d)' <=> Queued(d) /\ d # c
    BY <1>8, QueueShrinks DEF TakeTask
  <2>2. /\ current' = [current EXCEPT ![w] = c] /\ pc' = [pc EXCEPT ![w] = "process"]
        /\ UNCHANGED <<starter, destructor>>
    BY <1>8 DEF TakeTask
  <2> HIDE DEF c
  <2>3. destructor[c] = "none"
    BY <2>1
  <2> QED
    BY <2>1, <2>2, <2>3
<1>9. ASSUME NEW w \in Workers,
             RemoveConnection(w) \/ CloseDescriptor(w) \/ ProcessReturns(w)
      PROVE  Dead'
  <2>1. /\ pc[w] # "destroy" /\ \E l \in {"remove", "close", "drop"} : pc' = [pc EXCEPT ![w] = l]
        /\ UNCHANGED <<tasks, starter, current, destructor>>
    BY <1>9 DEF RemoveConnection, CloseDescriptor, ProcessReturns
  <2> QED
    BY <1>1, <2>1
<1>10. ASSUME NEW w \in Workers, DropTask(w) PROVE Dead'
  <2> DEFINE c == current[w]
  <2>1. c \in Conns /\ pc[w] = "drop" /\ UNCHANGED <<tasks, starter>>
    BY <1>10 DEF DropTask
  <2>2. /\ starter[c] \in {"notify", "return", "done"} /\ ~Queued(c)
        /\ \A v \in Workers : current[v] = c => v = w
    BY <2>1 DEF Order
  <2>3. CASE /\ pc' = [pc EXCEPT ![w] = "idle"]
             /\ current' = [current EXCEPT ![w] = Nobody]
             /\ UNCHANGED destructor
    BY <1>1, <2>1, <2>3
  <2>4. CASE /\ ~StarterHolds(c)
             /\ Destroy(c)
             /\ pc' = [pc EXCEPT ![w] = "destroy"]
             /\ UNCHANGED current
    <3>1. starter[c] = "done"
      BY <2>2, <2>4 DEF StarterHolds
    <3> QED
      BY <1>1, <2>1, <2>2, <2>4, <3>1 DEF Destroy
  <2> QED
    BY <1>10, <2>3, <2>4 DEF DropTask
<1>11. ASSUME NEW w \in Workers, WorkerGoesOn(w) PROVE Dead'
  BY <1>1, <1>11 DEF WorkerGoesOn
<1>12. CASE UNCHANGED vars
  BY <1>1, <1>12 DEF vars
<1> QED
  BY <1>2, <1>3, <1>4, <1>5, <1>6, <1>7, <1>8, <1>9, <1>10, <1>11, <1>12
  DEF Next, StarterSteps, WorkerSteps

LEMMA MappedStep ==
  ASSUME TypeOK, Order, Mapped, [Next]_vars
  PROVE  Mapped'
<1> USE NobodyAssumption DEF TypeOK, Mapped, MappedHandlersAreInUse
<1>1. ASSUME UNCHANGED tasks PROVE \A d : Queued(d)' <=> Queued(d)
  BY <1>1, QueueStays
<1>2. ASSUME NEW c \in Conns, Accept(c) PROVE Mapped'
  <2>1. /\ starter[c] = "none" /\ starter' = [starter EXCEPT ![c] = "insert"]
        /\ UNCHANGED <<connections, tasks, pc, current>>
        /\ \A d \in Conns \ {c} : fd'[d] = fd[d]
    BY <1>2 DEF Accept
  <2>2. \A f \in Fds : connections[f] # c
    BY <2>1 DEF Order
  <2> QED
    BY <1>1, <2>1, <2>2
<1>3. ASSUME NEW c \in Conns, InsertConnection(c) PROVE Mapped'
  BY <1>1, <1>3 DEF InsertConnection
<1>4. ASSUME NEW c \in Conns, Enqueue(c) PROVE Mapped'
  <2>1. starter[c] = "enqueue" /\ ~Queued(c)
    BY <1>4 DEF Enqueue, Order
  <2>2. \A d : Queued(d)' <=> Queued(d) \/ d = c
    BY <1>4, <2>1, QueueGrows DEF Enqueue
  <2>3. starter' = [starter EXCEPT ![c] = "notify"] /\ UNCHANGED <<fd, connections, pc, current>>
    BY <1>4 DEF Enqueue
  <2> QED
    BY <2>1, <2>2, <2>3
<1>5. ASSUME NEW c \in Conns, Notify(c) \/ Return(c) PROVE Mapped'
  <2>1. /\ starter[c] \in {"notify", "return"}
        /\ UNCHANGED <<fd, connections, tasks, pc, current>>
        /\ \A d \in Conns \ {c} : starter'[d] = starter[d]
    BY <1>5 DEF Notify, Return
  <2> QED
    BY <1>1, <2>1
<1>6. ASSUME NEW c \in Conns, SessionTerminated(c) \/ CloseAgain(c) PROVE Mapped'
  BY <1>1, <1>6 DEF SessionTerminated, CloseAgain
<1>7. ASSUME NEW w \in Workers, Sleep(w) \/ SpuriousWakeup(w) PROVE Mapped'
  BY <1>1, <1>7 DEF Sleep, SpuriousWakeup
<1>8. ASSUME NEW w \in Workers, TakeTask(w) PROVE Mapped'
  <2> DEFINE c == Head(tasks)
  <2>1. /\ c \in Conns /\ Queued(c)
        /\ \A d : Queued(d)' <=> Queued(d) /\ d # c
    BY <1>8, QueueShrinks DEF TakeTask
  <2>2. /\ current' = [current EXCEPT ![w] = c] /\ pc' = [pc EXCEPT ![w] = "process"]
        /\ pc[w] = "idle"
        /\ UNCHANGED <<fd, connections, starter>>
    BY <1>8 DEF TakeTask
  <2> HIDE DEF c
  <2>3. current'[w] = c /\ pc'[w] = "process"
        /\ \A v \in Workers \ {w} : current'[v] = current[v] /\ pc'[v] = pc[v]
    BY <2>2
  <2> QED
    BY <2>1, <2>2, <2>3
<1>9. ASSUME NEW w \in Workers, RemoveConnection(w) PROVE Mapped'
  <2> DEFINE c == current[w]
  <2>1. /\ c \in Conns /\ pc[w] = "remove"
        /\ connections' = [connections EXCEPT ![fd[c]] = Nobody]
        /\ pc' = [pc EXCEPT ![w] = "close"]
        /\ UNCHANGED <<fd, starter, tasks, current>>
    BY <1>9 DEF RemoveConnection
  <2>2. \A f \in Fds : connections'[f] # Nobody =>
          connections'[f] = connections[f] /\ connections[f] # c
    BY <2>1
  <2> HIDE DEF c
  <2>3. ASSUME NEW f \in Fds, connections'[f] # Nobody
        PROVE  /\ fd'[connections'[f]] = f
               /\ \/ starter'[connections'[f]] = "enqueue"
                  \/ Queued(connections[f])'
                  \/ \E v \in Workers : current'[v] = connections'[f] /\ pc'[v] \in {"process", "remove"}
    <3>1. connections'[f] = connections[f] /\ connections[f] # c /\ connections[f] # Nobody
      BY <2>2, <2>3
    <3>2. CASE starter[connections[f]] = "enqueue" \/ Queued(connections[f])
      <4>1. Queued(connections[f])' <=> Queued(connections[f])
        BY <2>1, <3>1 DEF Queued
      <4> QED
        BY <2>1, <3>1, <3>2, <4>1
    <3>3. CASE \E v \in Workers : current[v] = connections[f] /\ pc[v] \in {"process", "remove"}
      <4>1. PICK v \in Workers : current[v] = connections[f] /\ pc[v] \in {"process", "remove"}
        BY <3>3
      <4>2. v # w
        BY <3>1, <4>1 DEF c
      <4>3. current'[v] = current[v] /\ pc'[v] = pc[v] /\ fd' = fd
        BY <2>1, <4>2
      <4>4. fd'[connections'[f]] = f
        BY <3>1, <4>3
      <4>5. current'[v] = connections'[f] /\ pc'[v] \in {"process", "remove"}
        BY <3>1, <4>1, <4>3
      <4> QED
        BY <4>4, <4>5
    <3> QED
      BY <3>1, <3>2, <3>3
  <2>4. MappedHandlersAreInUse'
    BY <2>3
  <2>5. \A f \in Fds : connections'[f] # Nobody => fd'[connections'[f]] = f
    BY <2>3
  <2> QED
    BY <2>4, <2>5
<1>10. ASSUME NEW w \in Workers, CloseDescriptor(w) \/ DropTask(w) \/ WorkerGoesOn(w)
       PROVE  Mapped'
  <2>1. /\ pc[w] \in {"close", "drop", "destroy"}
        /\ UNCHANGED <<fd, connections, starter, tasks>>
        /\ \A v \in Workers \ {w} : current'[v] = current[v] /\ pc'[v] = pc[v]
    BY <1>10 DEF CloseDescriptor, DropTask, WorkerGoesOn
  <2> QED
    BY <1>1, <2>1
<1>11. ASSUME NEW w \in Workers, ProcessReturns(w) PROVE Mapped'
  <2>1. /\ pc[w] = "process" /\ pc' = [pc EXCEPT ![w] = "remove"]
        /\ UNCHANGED <<fd, connections, starter, tasks, current>>
    BY <1>11 DEF ProcessReturns
  <2>2. \A v \in Workers : pc[v] \in {"process", "remove"} => pc'[v] \in {"process", "remove"}
    BY <2>1
  <2> QED
    BY <1>1, <2>1, <2>2
<1>12. CASE UNCHANGED vars
  BY <1>1, <1>12 DEF vars
<1> QED
  BY <1>2, <1>3, <1>4, <1>5, <1>6, <1>7, <1>8, <1>9, <1>10, <1>11, <1>12
  DEF Next, StarterSteps, WorkerSteps

(* Nothing but Accept gives a connection a descriptor of its own.            *)
LEMMA LiveStays ==
  ASSUME TypeOK, Order, [Next]_vars, NEW c \in Conns, ~Accept(c), Live(c)'
  PROVE  Live(c) /\ fd'[c] = fd[c]
<1> USE NobodyAssumption DEF TypeOK, Live
<1>1. ASSUME UNCHANGED tasks PROVE Queued(c)' <=> Queued(c)
  BY <1>1, QueueStays
<1>2. ASSUME NEW d \in Conns, Accept(d) PROVE Live(c) /\ fd'[c] = fd[c]
  <2>1. /\ d # c /\ UNCHANGED <<tasks, pc, current>>
        /\ fd'[c] = fd[c] /\ starter'[c] = starter[c]
    BY <1>2 DEF Accept
  <2> QED
    BY <1>1, <2>1
<1>3. ASSUME NEW d \in Conns, InsertConnection(d) \/ Notify(d) \/ Return(d)
      PROVE  Live(c) /\ fd'[c] = fd[c]
  <2>1. /\ UNCHANGED <<fd, tasks, pc, current>>
        /\ starter'[c] \in {"insert", "enqueue"} => starter[c] \in {"insert", "enqueue"}
    BY <1>3 DEF InsertConnection, Notify, Return
  <2> QED
    BY <1>1, <2>1
<1>4. ASSUME NEW d \in Conns, Enqueue(d) PROVE Live(c) /\ fd'[c] = fd[c]
  <2>1. starter[d] = "enqueue" /\ ~Queued(d)
    BY <1>4 DEF Enqueue, Order
  <2>2. Queued(c)' <=> Queued(c) \/ c = d
    BY <1>4, <2>1, QueueGrows DEF Enqueue
  <2>3. starter' = [starter EXCEPT ![d] = "notify"] /\ UNCHANGED <<fd, pc, current>>
    BY <1>4 DEF Enqueue
  <2> QED
    BY <2>1, <2>2, <2>3
<1>5. ASSUME NEW d \in Conns, SessionTerminated(d) \/ CloseAgain(d)
      PROVE  Live(c) /\ fd'[c] = fd[c]
  BY <1>1, <1>5 DEF SessionTerminated, CloseAgain
<1>6. ASSUME NEW w \in Workers, Sleep(w) \/ SpuriousWakeup(w)
      PROVE  Live(c) /\ fd'[c] = fd[c]
  BY <1>1, <1>6 DEF Sleep, SpuriousWakeup
<1>7. ASSUME NEW w \in Workers, TakeTask(w) PROVE Live(c) /\ fd'[c] = fd[c]
  <2>1. /\ Queued(Head(tasks))
        /\ Queued(c)' <=> Queued(c) /\ c # Head(tasks)
    BY <1>7, QueueShrinks DEF TakeTask
  <2>2. /\ current'[w] = Head(tasks)
        /\ \A v \in Workers \ {w} : current'[v] = current[v] /\ pc'[v] = pc[v]
        /\ UNCHANGED <<fd, starter>>
    BY <1>7 DEF TakeTask
  <2> QED
    BY <2>1, <2>2
<1>8. ASSUME NEW w \in Workers, RemoveConnection(w) \/ CloseDescriptor(w) \/ ProcessReturns(w)
      PROVE  Live(c) /\ fd'[c] = fd[c]
  <2>1. /\ pc[w] \in {"process", "remove", "close"}
        /\ \A v \in Workers \ {w} : pc'[v] = pc[v]
        /\ UNCHANGED <<fd, starter, tasks, current>>
    BY <1>8 DEF RemoveConnection, CloseDescriptor, ProcessReturns
  <2> QED
    BY <1>1, <2>1
<1>9. ASSUME NEW w \in Workers, DropTask(w) \/ WorkerGoesOn(w)
      PROVE  Live(c) /\ fd'[c] = fd[c]
  <2>1. /\ pc'[w] \in {"idle", "destroy"}
        /\ \A v \in Workers \ {w} : pc'[v] = pc[v] /\ current'[v] = current[v]
        /\ UNCHANGED <<fd, starter, tasks>>
    BY <1>9 DEF DropTask, WorkerGoesOn
  <2> QED
    BY <1>1, <2>1
<1>10. CASE UNCHANGED vars
  BY <1>1, <1>10 DEF vars
<1> QED
  BY <1>2, <1>3, <1>4, <1>5, <1>6, <1>7, <1>8, <1>9, <1>10
  DEF Next, StarterSteps, WorkerSteps

(* A connection that has its descriptor has no destructor yet.               *)
LEMMA LiveIsNotDead ==
  ASSUME TypeOK, Order, Dead, NEW c \in Conns, Live(c)
  PROVE  destructor[c] = "none" /\ fd[c] \in Fds
<1>1. starter[c] # "none"
  BY DEF Live, Order
<1>2. starter[c] \in {"insert", "enqueue"} => starter[c] # "done"
  OBVIOUS
<1>3. fd[c] \in Fds
  BY <1>1 DEF TypeOK
<1> QED
  BY <1>2, <1>3 DEF TypeOK, Dead, Live

(* Once done, a destructor stays done, and its number stays.                 *)
LEMMA HurtStays ==
  ASSUME TypeOK, Dead, [Next]_vars, NEW c \in Conns, Hurt(c), fd'[c] = fd[c]
  PROVE  Hurt(c)'
<1>1. PICK d \in Conns \ {c} : fd[d] = fd[c] /\ destructor[d] = "done"
  BY DEF Hurt
<1>2. starter[d] = "done"
  BY <1>1 DEF Dead
<1>3. fd'[d] = fd[d] /\ destructor'[d] = "done"
  <2>1. ASSUME NEW b \in Conns, Accept(b) PROVE fd'[d] = fd[d] /\ destructor'[d] = "done"
    BY <1>1, <1>2, <2>1 DEF Accept, TypeOK
  <2>2. ASSUME NEW b \in Conns, InsertConnection(b) \/ Enqueue(b) \/ Notify(b)
        PROVE fd'[d] = fd[d] /\ destructor'[d] = "done"
    BY <1>1, <2>2 DEF InsertConnection, Enqueue, Notify
  <2>3. ASSUME NEW b \in Conns, Return(b) PROVE fd'[d] = fd[d] /\ destructor'[d] = "done"
    <3>1. b # d
      BY <1>2, <2>3 DEF Return
    <3> QED
      BY <1>1, <2>3, <3>1 DEF Return, Destroy, TypeOK
  <2>4. ASSUME NEW b \in Conns, SessionTerminated(b) \/ CloseAgain(b)
        PROVE fd'[d] = fd[d] /\ destructor'[d] = "done"
    BY <1>1, <2>4 DEF SessionTerminated, CloseAgain, TypeOK
  <2>5. ASSUME NEW w \in Workers,
               Sleep(w) \/ TakeTask(w) \/ RemoveConnection(w) \/ CloseDescriptor(w)
                 \/ WorkerGoesOn(w) \/ SpuriousWakeup(w) \/ ProcessReturns(w)
        PROVE fd'[d] = fd[d] /\ destructor'[d] = "done"
    BY <1>1, <2>5 DEF Sleep, TakeTask, RemoveConnection, CloseDescriptor, WorkerGoesOn,
                      SpuriousWakeup, ProcessReturns
  <2>6. ASSUME NEW w \in Workers, DropTask(w)
        PROVE fd'[d] = fd[d] /\ destructor'[d] = "done"
    <3>1. current[w] # d
      BY <1>1, <2>6 DEF DropTask, Dead
    <3> QED
      BY <1>1, <2>6, <3>1 DEF DropTask, Destroy, TypeOK
  <2>7. CASE UNCHANGED vars
    BY <1>1, <2>7 DEF vars
  <2> QED
    BY <2>1, <2>2, <2>3, <2>4, <2>5, <2>6, <2>7 DEF Next, StarterSteps, WorkerSteps
<1> QED
  BY <1>1, <1>3 DEF Hurt

LEMMA OpenStep ==
  ASSUME TypeOK, Order, Dead, Open, [Next]_vars
  PROVE  Open'
<1> SUFFICES ASSUME NEW c \in Conns, Live(c)'
             PROVE  file'[fd'[c]] = c \/ Hurt(c)'
  BY DEF Open
<1>1. CASE Accept(c)
  BY <1>1 DEF Accept, FreeFds, TypeOK
<1>2. CASE ~Accept(c)
  <2>1. Live(c) /\ fd'[c] = fd[c] /\ fd[c] \in Fds /\ destructor[c] = "none"
    BY <1>2, LiveStays, LiveIsNotDead
  <2>2. CASE Hurt(c)
    BY <2>1, <2>2, HurtStays
  <2>3. CASE ~Hurt(c) /\ file'[fd[c]] # file[fd[c]]
    <3>1. file[fd[c]] = c
      BY <2>1, <2>3 DEF Open
    <3>2. ASSUME NEW d \in Conns, Accept(d) PROVE FALSE
      BY <1>2, <2>1, <2>3, <3>1, <3>2, NobodyAssumption DEF Accept, FreeFds, TypeOK
    <3>3. ASSUME NEW d \in Conns, CloseAgain(d) PROVE Hurt(c)'
      <4>1. d # c /\ fd[d] = fd[c] /\ fd' = fd /\ destructor'[d] = "done"
        BY <2>1, <2>3, <3>3 DEF CloseAgain, TypeOK
      <4> QED
        BY <4>1 DEF Hurt
    <3>4. ASSUME NEW w \in Workers, CloseDescriptor(w) PROVE FALSE
      <4> DEFINE d == current[w]
      <4>1. d \in Conns /\ pc[w] = "close" /\ fd[d] = fd[c] /\ Live(d)
        BY <2>1, <2>3, <3>4, NobodyAssumption DEF CloseDescriptor, TypeOK, Live
      <4>2. CASE d = c
        <5>1. UNCHANGED <<starter, tasks, current>> /\ pc' = [pc EXCEPT ![w] = "drop"]
          BY <3>4 DEF CloseDescriptor
        <5>2. /\ starter[c] \notin {"insert", "enqueue"} /\ ~Queued(c)
              /\ \A v \in Workers : current[v] = c => v = w
          BY <4>1, <4>2, NobodyAssumption DEF Order
        <5>3. ~Queued(c)'
          BY <5>1, <5>2, QueueStays
        <5> QED
          BY <5>1, <5>2, <5>3 DEF Live, TypeOK
      <4>3. CASE d # c
        <5>1. Hurt(d)
          BY <3>1, <4>1, <4>3 DEF Open
        <5>2. Hurt(c)
          BY <2>1, <4>1, <5>1 DEF Hurt
        <5> QED
          BY <2>3, <5>2
      <4> QED
        BY <4>2, <4>3
    <3>5. ASSUME NEW d \in Conns, StarterSteps(d) \/ SessionTerminated(d) PROVE FALSE
      BY <2>3, <3>5
      DEF StarterSteps, InsertConnection, Enqueue, Notify, Return, SessionTerminated
    <3>6. ASSUME NEW w \in Workers,
                 Sleep(w) \/ TakeTask(w) \/ RemoveConnection(w) \/ DropTask(w)
                   \/ WorkerGoesOn(w) \/ SpuriousWakeup(w) \/ ProcessReturns(w)
          PROVE  FALSE
      BY <2>3, <3>6 DEF Sleep, TakeTask, RemoveConnection, DropTask, WorkerGoesOn,
                        SpuriousWakeup, ProcessReturns
    <3>7. CASE UNCHANGED vars
      BY <2>3, <3>7 DEF vars
    <3> QED
      BY <3>2, <3>3, <3>4, <3>5, <3>6, <3>7 DEF Next, WorkerSteps
  <2>4. CASE file'[fd[c]] = file[fd[c]] /\ file[fd[c]] = c
    BY <2>1, <2>4
  <2> QED
    BY <2>1, <2>2, <2>3, <2>4 DEF Open
<1> QED
  BY <1>1, <1>2

-----------------------------------------------------------------------------
LEMMA AwakeIsFinite == IsFiniteSet(Awake) /\ Cardinality(Awake) \in Nat
<1>1. Awake \subseteq Workers
  BY DEF Awake
<1> QED
  BY <1>1, WorkersAssumption, FS_Subset, FS_CardinalityType

(* Only the queue, the notifications and the sleepers matter.                *)
LEMMA EnoughStays ==
  ASSUME TypeOK, Enough, Len(tasks') = Len(tasks), asleep' \subseteq asleep,
         Notifying' = Notifying, Awake \subseteq Awake'
  PROVE  Enough'
<1>1. IsFiniteSet(Awake') /\ Cardinality(Awake') \in Nat
  <2>1. Awake' \subseteq Workers
    BY DEF Awake
  <2> QED
    BY <2>1, WorkersAssumption, FS_Subset, FS_CardinalityType
<1>2. Cardinality(Awake) \in Nat /\ Cardinality(Awake) <= Cardinality(Awake')
  BY <1>1, AwakeIsFinite, FS_Subset
<1>3. Cardinality(Notifying) \in Nat /\ Len(tasks) \in Nat
  BY FS_CardinalityType DEF Enough, TypeOK
<1> QED
  BY <1>1, <1>2, <1>3 DEF Enough, SleepersLeaveNoTask

LEMMA EnoughStep ==
  ASSUME TypeOK, Order, Enough, [Next]_vars
  PROVE  Enough'
<1>0. /\ Cardinality(Notifying) \in Nat /\ IsFiniteSet(Notifying)
      /\ Cardinality(Awake) \in Nat /\ IsFiniteSet(Awake)
      /\ Len(tasks) \in Nat
  BY FS_CardinalityType, AwakeIsFinite DEF Enough, TypeOK
<1>1. ASSUME NEW c \in Conns, Accept(c) \/ InsertConnection(c) \/ Return(c) PROVE Enough'
  <2>1. Notifying' = Notifying
    BY <1>1 DEF Accept, InsertConnection, Return, Notifying, TypeOK
  <2>2. UNCHANGED <<tasks, asleep, pc>>
    BY <1>1 DEF Accept, InsertConnection, Return
  <2> QED
    BY <2>1, <2>2, EnoughStays DEF Awake
<1>2. ASSUME NEW c \in Conns, Enqueue(c) PROVE Enough'
  <2>1. starter[c] = "enqueue" /\ ~Queued(c)
    BY <1>2 DEF Enqueue, Order
  <2>2. Len(tasks') = Len(tasks) + 1 /\ UNCHANGED <<asleep, pc>>
    BY <1>2, <2>1, QueueGrows DEF Enqueue
  <2>3. Notifying' = Notifying \cup {c} /\ c \notin Notifying
    BY <1>2, <2>1 DEF Enqueue, Notifying, TypeOK
  <2>4. IsFiniteSet(Notifying') /\ Cardinality(Notifying') = Cardinality(Notifying) + 1
    BY <1>0, <2>3, FS_AddElement
  <2>5. Awake' = Awake
    BY <2>2 DEF Awake
  <2> QED
    BY <1>0, <2>2, <2>4, <2>5 DEF Enough, SleepersLeaveNoTask
<1>3. ASSUME NEW c \in Conns, Notify(c) PROVE Enough'
  <2>1. Notifying' = Notifying \ {c} /\ c \in Notifying
    BY <1>3 DEF Notify, Notifying, TypeOK
  <2>2. IsFiniteSet(Notifying') /\ Cardinality(Notifying') = Cardinality(Notifying) - 1
    BY <1>0, <2>1, FS_RemoveElement
  <2>3. UNCHANGED <<tasks, pc>>
    BY <1>3 DEF Notify
  <2>4. CASE asleep = {} /\ UNCHANGED asleep
    BY <2>2, <2>4 DEF Enough, SleepersLeaveNoTask
  <2>5. ASSUME NEW w \in asleep, asleep' = asleep \ {w} PROVE Enough'
    <3>1. pc[w] = "idle" /\ w \in Workers
      BY DEF TypeOK
    <3>2. Awake' = Awake \cup {w} /\ w \notin Awake
      BY <2>3, <2>5, <3>1 DEF Awake
    <3>3. Cardinality(Awake') = Cardinality(Awake) + 1
      BY <1>0, <3>2, FS_AddElement
    <3> QED
      BY <1>0, <2>2, <2>3, <3>3 DEF Enough, SleepersLeaveNoTask
  <2> QED
    BY <1>3, <2>4, <2>5 DEF Notify
<1>4. ASSUME NEW c \in Conns, SessionTerminated(c) \/ CloseAgain(c) PROVE Enough'
  <2>1. UNCHANGED <<starter, tasks, asleep, pc>>
    BY <1>4 DEF SessionTerminated, CloseAgain
  <2> QED
    BY <2>1, EnoughStays DEF Awake, Notifying
<1>5. ASSUME NEW w \in Workers, Sleep(w) PROVE Enough'
  <2>1. Len(tasks') = 0 /\ Notifying' = Notifying
    BY <1>5 DEF Sleep, Notifying
  <2>2. Awake' \subseteq Workers
    BY DEF Awake
  <2>3. Cardinality(Awake') \in Nat
    BY <2>2, WorkersAssumption, FS_Subset, FS_CardinalityType
  <2> QED
    BY <1>0, <2>1, <2>3 DEF Enough, SleepersLeaveNoTask
<1>6. ASSUME NEW w \in Workers, TakeTask(w) PROVE Enough'
  <2>1. Len(tasks') = Len(tasks) - 1
    BY <1>6, QueueShrinks DEF TakeTask
  <2>2. Notifying' = Notifying /\ UNCHANGED asleep
    BY <1>6 DEF TakeTask, Notifying
  <2>3. Awake' = Awake \ {w} /\ w \in Awake
    BY <1>6 DEF TakeTask, Awake, TypeOK
  <2>4. Cardinality(Awake') = Cardinality(Awake) - 1
    BY <1>0, <2>3, FS_RemoveElement
  <2> QED
    BY <1>0, <2>1, <2>2, <2>4 DEF Enough, SleepersLeaveNoTask
<1>7. ASSUME NEW w \in Workers,
             RemoveConnection(w) \/ CloseDescriptor(w) \/ DropTask(w) \/ WorkerGoesOn(w)
               \/ SpuriousWakeup(w) \/ ProcessReturns(w)
      PROVE  Enough'
  <2>1. UNCHANGED <<starter, tasks>> /\ asleep' \subseteq asleep
    BY <1>7 DEF RemoveConnection, CloseDescriptor, DropTask, WorkerGoesOn, SpuriousWakeup,
                ProcessReturns
  <2>2. \A v \in Workers : pc[v] = "idle" => pc'[v] = "idle"
    BY <1>7 DEF RemoveConnection, CloseDescriptor, DropTask, WorkerGoesOn, SpuriousWakeup,
                ProcessReturns, TypeOK
  <2>3. Awake \subseteq Awake'
    BY <2>1, <2>2 DEF Awake
  <2> QED
    BY <2>1, <2>3, EnoughStays DEF Notifying
<1>8. CASE UNCHANGED vars
  BY <1>8, EnoughStays DEF vars, Awake, Notifying
<1> QED
  BY <1>1, <1>2, <1>3, <1>4, <1>5, <1>6, <1>7, <1>8 DEF Next, StarterSteps, WorkerSteps

LEMMA Invariance == Spec => [](IInv /\ Enough)
<1>1. IInv /\ Enough /\ [Next]_vars => (IInv /\ Enough)'
  BY TypeStep, OrderStep, DeadStep, MappedStep, OpenStep, EnoughStep DEF IInv
<1> QED
  BY InitOK, <1>1, PTL DEF Spec

-----------------------------------------------------------------------------
(* Descriptors, tasks and handlers keep their types, a sleeping worker has   *)
(* no task (RtspServer.cpp:57-98, ThreadPool.cpp:20-44).                     *)
THEOREM TypeCorrect == Spec => []TypeOK
<1>1. IInv => TypeOK
  BY DEF IInv
<1> QED
  BY <1>1, Invariance, PTL

(* No task waits for a sleeping worker: there is a worker about to test the  *)
(* queue, or a notification on its way, for each (ThreadPool.cpp:20-33).     *)
THEOREM NoTaskIsForgotten == Spec => []SleepersLeaveNoTask
<1>1. Enough => SleepersLeaveNoTask
  BY DEF Enough
<1> QED
  BY <1>1, Invariance, PTL

(* Whatever numbers the kernel gives and whichever entries are overwritten,  *)
(* the map keeps no handler alive by itself (RtspServer.cpp:76-98).          *)
THEOREM MapKeepsNothingAlive == Spec => []MappedHandlersAreInUse
<1>1. IInv => MappedHandlersAreInUse
  BY DEF IInv, Mapped
<1> QED
  BY <1>1, Invariance, PTL

(* The thread that drops the last reference to a handler, be it the worker   *)
(* or handle_client, is the last to reach it (RtspServer.cpp:76-89).         *)
THEOREM HandlersAreDestroyedLast == Spec => []NoUseAfterDestruction
<1>1. IInv => NoUseAfterDestruction
  <2> SUFFICES ASSUME IInv, NEW c \in Conns, destructor[c] # "none"
               PROVE  ~StarterHolds(c) /\ ~MapHolds(c) /\ ~Queued(c) /\ \A w \in Workers : ~Runs(w, c)
    BY DEF NoUseAfterDestruction
  <2>1. /\ starter[c] = "done" /\ ~Queued(c)
        /\ \A w \in Workers : current[w] = c => pc[w] = "destroy"
    BY DEF IInv, Dead
  <2>2. ~MapHolds(c)
    BY <2>1, NobodyAssumption DEF MapHolds, IInv, Mapped, MappedHandlersAreInUse
  <2> QED
    BY <2>1, <2>2 DEF StarterHolds, Runs
<1> QED
  BY <1>1, Invariance, PTL

(* A connection loses its descriptor only to the second close() of another   *)
(* one that had the same number (RtspServer.cpp:87, ConnectionHandler.cpp:26)*)
THEOREM DescriptorsAreOwn == Spec => []OnlyTheSecondCloseHurts
<1>1. IInv => OnlyTheSecondCloseHurts
  <2> SUFFICES ASSUME IInv, NEW w \in Workers, pc[w] = "process", file[fd[current[w]]] # current[w]
               PROVE  \E d \in Conns \ {current[w]} : fd[d] = fd[current[w]] /\ destructor[d] = "done"
    BY DEF OnlyTheSecondCloseHurts
  <2>1. current[w] \in Conns /\ Live(current[w])
    BY NobodyAssumption DEF IInv, TypeOK, Live
  <2> QED
    BY <2>1 DEF IInv, Open, Hurt
<1> QED
  BY <1>1, Invariance, PTL
=============================================================================
