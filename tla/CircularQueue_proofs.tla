------------------------ MODULE CircularQueue_proofs ------------------------
(***************************************************************************)
(* Proofs about CircularQueue for any set of sessions, any frames and any  *)
(* capacity: type correctness, no lost wake-up of a sender, who can strand *)
(* the producer, and the refinement of FrameFifos.                         *)
(***************************************************************************)
EXTENDS CircularQueue, Sequences, SequenceTheorems, TLAPS

-----------------------------------------------------------------------------
(* Arithmetic of the ring. *)

(* slot_after() stays in the ring, and wraps only at its end.                *)
LEMMA SlotAfter ==
  ASSUME NEW p \in Positions
  PROVE  /\ slot_after(p) \in Positions
         /\ slot_after(p) = IF p + 1 = Capacity THEN 0 ELSE p + 1
BY CapacityAssumption DEF slot_after, Positions

(* An index that ran past the end of the ring once is taken modulo Capacity. *)
LEMMA Wrap ==
  ASSUME NEW x \in Positions, NEW y \in Positions
  PROVE  (x + y) % Capacity = IF x + y < Capacity THEN x + y ELSE x + y - Capacity
BY CapacityAssumption DEF Positions

(* A session is less than a ring behind the producer.                        *)
LEMMA LagInRing ==
  ASSUME NEW p \in Positions, NEW w \in Positions
  PROVE  /\ Lag(p, w) \in 0 .. Capacity - 1
         /\ Lag(p, w) = 0 <=> p = w
BY CapacityAssumption DEF Lag, Positions

(* The ring is full for a session exactly when it is Capacity - 1 behind.    *)
LEMMA LagWhenFull ==
  ASSUME NEW p \in Positions, NEW w \in Positions
  PROVE  Lag(p, w) < Capacity - 1 <=> slot_after(w) # p
BY SlotAfter, CapacityAssumption DEF Lag, Positions

(* A write moves the producer one further away from every session that is   *)
(* not in the next slot, and onto one that is.                               *)
LEMMA LagAfterWrite ==
  ASSUME NEW p \in Positions, NEW w \in Positions
  PROVE  Lag(p, slot_after(w)) = IF slot_after(w) = p THEN 0 ELSE Lag(p, w) + 1
BY SlotAfter, CapacityAssumption DEF Lag, Positions

(* A read brings a session that has something to read one closer.            *)
LEMMA LagAfterRead ==
  ASSUME NEW p \in Positions, NEW w \in Positions, p # w
  PROVE  Lag(slot_after(p), w) = Lag(p, w) - 1
BY SlotAfter, CapacityAssumption DEF Lag, Positions

(* The slots a session has still to read are slots of the ring, and none of  *)
(* them is the one the producer writes next.                                 *)
LEMMA UnreadSlots ==
  ASSUME NEW p \in Positions, NEW w \in Positions, NEW i \in 1 .. Lag(p, w)
  PROVE  /\ (p + i - 1) % Capacity \in Positions
         /\ (p + i - 1) % Capacity # w
<1>1. i - 1 \in Positions /\ p + i - 1 = p + (i - 1)
  BY LagInRing, CapacityAssumption DEF Positions
<1>2. (p + (i - 1)) % Capacity
        = IF p + (i - 1) < Capacity THEN p + (i - 1) ELSE p + (i - 1) - Capacity
  BY <1>1, Wrap
<1> QED
  BY <1>1, <1>2, LagInRing, CapacityAssumption DEF Lag, Positions

(* The slot after the last unread one is the one the producer writes.        *)
LEMMA SlotPastUnread ==
  ASSUME NEW p \in Positions, NEW w \in Positions
  PROVE  (p + Lag(p, w)) % Capacity = w
<1>1. Lag(p, w) \in Positions
  BY LagInRing DEF Positions
<1>2. (p + Lag(p, w)) % Capacity
        = IF p + Lag(p, w) < Capacity THEN p + Lag(p, w) ELSE p + Lag(p, w) - Capacity
  BY <1>1, Wrap
<1> QED
  BY <1>1, <1>2, CapacityAssumption DEF Lag, Positions

(* The second unread slot of a session is the first one after it reads.      *)
LEMMA SlotsShift ==
  ASSUME NEW p \in Positions, NEW i \in 1 .. Capacity - 1
  PROVE  (slot_after(p) + i - 1) % Capacity = (p + i) % Capacity
<1>1. i \in Positions /\ i - 1 \in Positions /\ slot_after(p) \in Positions
  BY SlotAfter, CapacityAssumption DEF Positions
<1>2. (p + i) % Capacity = IF p + i < Capacity THEN p + i ELSE p + i - Capacity
  BY <1>1, Wrap
<1>3. (slot_after(p) + (i - 1)) % Capacity
        = IF slot_after(p) + (i - 1) < Capacity
          THEN slot_after(p) + (i - 1) ELSE slot_after(p) + (i - 1) - Capacity
  BY <1>1, Wrap
<1>4. slot_after(p) + i - 1 = slot_after(p) + (i - 1)
  BY <1>1 DEF Positions
<1> QED
  BY <1>1, <1>2, <1>3, <1>4, SlotAfter, CapacityAssumption DEF Positions

-----------------------------------------------------------------------------
(* Positions stay inside the ring and only known sessions sleep or receive,  *)
(* whatever the users of CircularQueue.h do and in whatever order.           *)
THEOREM TypeCorrect == Spec => []TypeOK
<1>1. Init => TypeOK
  <2> SUFFICES ASSUME Init PROVE TypeOK
    OBVIOUS
  <2>1. 0 \in Positions
    BY CapacityAssumption DEF Positions
  <2> QED
    BY <2>1 DEF Init, TypeOK
<1>2. TypeOK /\ [Next]_vars => TypeOK'
  <2> SUFFICES ASSUME TypeOK, [Next]_vars PROVE TypeOK'
    OBVIOUS
  <2> USE DEF TypeOK
  <2>1. ASSUME NEW f \in Frames, ProduceWaits PROVE TypeOK'
    BY <2>1 DEF ProduceWaits
  <2>2. ASSUME NEW f \in Frames, ProduceWrites(f) PROVE TypeOK'
    BY <2>2, SlotAfter DEF ProduceWrites
  <2>3. ASSUME NEW c \in Consumers, Registered(c), ConsumeWaits(c, c) PROVE TypeOK'
    BY <2>3 DEF ConsumeWaits, Cursor, Registered
  <2>4. ASSUME NEW c \in Consumers, Registered(c), ConsumeExits(c, c) PROVE TypeOK'
    BY <2>4 DEF ConsumeExits, Cursor, Registered
  <2>5. ASSUME NEW c \in Consumers, Registered(c), ConsumeTakes(c, c) PROVE TypeOK'
    <3>1. consumer_positions[c] \in Positions
      BY <2>5 DEF Registered
    <3> QED
      BY <2>5, <3>1, SlotAfter DEF ConsumeTakes, Cursor, Registered
  <2>6. ASSUME NEW c \in Consumers, register_consumer(c) PROVE TypeOK'
    BY <2>6 DEF register_consumer
  <2>7. ASSUME NEW c \in Consumers, Unregister(c) PROVE TypeOK'
    BY <2>7 DEF Unregister, unregister_consumer
  <2>8. CASE set_exit
    BY <2>8 DEF set_exit
  <2>9. CASE exit /\ set_run
    BY <2>9 DEF set_run
  <2>10. CASE SpuriousWakeup
    BY <2>10 DEF SpuriousWakeup
  <2>11. CASE UNCHANGED vars
    BY <2>11 DEF vars
  <2> QED
    BY <2>1, <2>2, <2>3, <2>4, <2>5, <2>6, <2>7, <2>8, <2>9, <2>10, <2>11
       DEF Next, produce, Consume, consume
<1> QED
  BY <1>1, <1>2, PTL DEF Spec

-----------------------------------------------------------------------------
(* No wake-up of a sender is lost. *)

(* SleepingSendersHaveNothingToDo is inductive next to TypeOK: a write and a  *)
(* stop wake every sender, and a session does not leave while its sender      *)
(* sleeps.                                                                    *)
LEMMA SendersStep ==
  TypeOK /\ SleepingSendersHaveNothingToDo /\ [Next]_vars
    => SleepingSendersHaveNothingToDo'
<1> SUFFICES ASSUME TypeOK, SleepingSendersHaveNothingToDo, [Next]_vars
             PROVE  SleepingSendersHaveNothingToDo'
  OBVIOUS
<1> USE DEF TypeOK, SleepingSendersHaveNothingToDo
<1>1. ASSUME ProduceWaits PROVE SleepingSendersHaveNothingToDo'
  BY <1>1 DEF ProduceWaits
<1>2. ASSUME NEW f \in Frames, ProduceWrites(f) PROVE SleepingSendersHaveNothingToDo'
  BY <1>2 DEF ProduceWrites
<1>3. ASSUME NEW c \in Consumers, Registered(c), ConsumeWaits(c, c)
      PROVE  SleepingSendersHaveNothingToDo'
  BY <1>3 DEF ConsumeWaits, Cursor, Registered
<1>4. ASSUME NEW c \in Consumers, Registered(c), ConsumeExits(c, c)
      PROVE  SleepingSendersHaveNothingToDo'
  BY <1>4 DEF ConsumeExits, Cursor, Registered
<1>5. ASSUME NEW c \in Consumers, Registered(c), ConsumeTakes(c, c)
      PROVE  SleepingSendersHaveNothingToDo'
  BY <1>5 DEF ConsumeTakes, Cursor, Registered
<1>6. ASSUME NEW c \in Consumers, register_consumer(c)
      PROVE  SleepingSendersHaveNothingToDo'
  BY <1>6 DEF register_consumer
<1>7. ASSUME NEW c \in Consumers, Unregister(c) PROVE SleepingSendersHaveNothingToDo'
  BY <1>7 DEF Unregister, unregister_consumer
<1>8. CASE set_exit
  BY <1>8 DEF set_exit
<1>9. CASE exit /\ set_run
  BY <1>9 DEF set_run
<1>10. CASE SpuriousWakeup
  BY <1>10 DEF SpuriousWakeup
<1>11. CASE UNCHANGED vars
  BY <1>11 DEF vars
<1> QED
  BY <1>1, <1>2, <1>3, <1>4, <1>5, <1>6, <1>7, <1>8, <1>9, <1>10, <1>11
     DEF Next, produce, Consume, consume

(* A sender that sleeps in consume() has nothing to read and no end of stream *)
(* to report (CircularQueue.h:51,22), with any number of sessions.            *)
THEOREM NoSenderWakeupIsLost == Spec => []SleepingSendersHaveNothingToDo
<1>1. Init => SleepingSendersHaveNothingToDo
  BY DEF Init, SleepingSendersHaveNothingToDo
<1> QED
  BY <1>1, TypeCorrect, SendersStep, PTL DEF Spec

(* A step after which the producer sleeps on for a slot that has come free is *)
(* a register_consumer() or an unregister_consumer() (CircularQueue.h:75-83). *)
THEOREM WhoStrandsTheProducer == Spec => OnlyMembershipStrandsTheProducer
<1> DEFINE Strands == not_full /\ Full /\ ~Full' /\ not_full'
           Membership == \E c \in Consumers : register_consumer(c) \/ unregister_consumer(c)
<1>1. TypeOK /\ [Next]_vars => [Strands => Membership]_vars
  <2> SUFFICES ASSUME TypeOK, Next, Strands PROVE Membership
    BY DEF vars
  <2>1. ASSUME NEW f \in Frames, produce(f) PROVE FALSE
    BY <2>1 DEF produce, ProduceWaits, ProduceWrites
  <2>2. ASSUME NEW c \in Consumers, Consume(c) PROVE FALSE
    <3>1. CASE ConsumeTakes(c, c)
      BY <3>1 DEF ConsumeTakes
    <3>2. CASE ConsumeWaits(c, c) \/ ConsumeExits(c, c)
      <4>1. consumer_positions' = consumer_positions /\ write_position' = write_position
        BY <2>2, <3>2 DEF ConsumeWaits, ConsumeExits, Consume, Registered, Cursor, TypeOK
      <4> QED
        BY <4>1 DEF Full, is_position_in_use, slot_after
    <3> QED
      BY <2>2, <3>1, <3>2 DEF Consume, consume
  <2>3. ASSUME set_exit \/ set_run PROVE FALSE
    BY <2>3 DEF set_exit, set_run
  <2>4. ASSUME SpuriousWakeup PROVE FALSE
    BY <2>4 DEF SpuriousWakeup, Full, is_position_in_use, slot_after
  <2> QED
    BY <2>1, <2>2, <2>3, <2>4 DEF Next, Unregister
<1> QED
  BY <1>1, TypeCorrect, PTL DEF Spec, OnlyMembershipStrandsTheProducer

-----------------------------------------------------------------------------
(* The unread slots of a session, as a sequence. *)

Item == Frames \cup {NoFrame}

LEMMA UnreadIsASequence ==
  ASSUME NEW b \in [Positions -> Item], NEW p \in Positions, NEW w \in Positions
  PROVE  /\ SlotsBetween(b, p, w) \in Seq(Item)
         /\ Len(SlotsBetween(b, p, w)) = Lag(p, w)
<1>1. Lag(p, w) \in Nat
  BY LagInRing
<1>2. \A i \in 1 .. Lag(p, w) : b[(p + i - 1) % Capacity] \in Item
  BY UnreadSlots
<1> QED
  BY <1>1, <1>2 DEF SlotsBetween

(* A session in the producer's slot has nothing to read.                     *)
LEMMA NothingUnread ==
  ASSUME NEW b, NEW p \in Positions
  PROVE  SlotsBetween(b, p, p) = <<>>
<1>1. Lag(p, p) = 0
  BY LagInRing
<1> QED
  BY <1>1 DEF SlotsBetween

(* Writing a frame appends it to what a session that has room can read.      *)
LEMMA WriteAppends ==
  ASSUME NEW b \in [Positions -> Item], NEW p \in Positions, NEW w \in Positions,
         NEW f \in Frames, slot_after(w) # p
  PROVE  SlotsBetween([b EXCEPT ![w] = f], p, slot_after(w))
           = Append(SlotsBetween(b, p, w), f)
<1> DEFINE n == Lag(p, w)
           new == SlotsBetween([b EXCEPT ![w] = f], p, slot_after(w))
           old == SlotsBetween(b, p, w)
           app == Append(old, f)
<1>1. n \in Nat /\ Lag(p, slot_after(w)) = n + 1
  BY LagAfterWrite, LagInRing
<1>2. new = [i \in 1 .. n + 1 |-> [b EXCEPT ![w] = f][(p + i - 1) % Capacity]]
  BY <1>1 DEF SlotsBetween
<1>3. old \in Seq(Item) /\ Len(old) = n /\ f \in Item
  BY UnreadIsASequence DEF Item
<1>4. \A i \in 1 .. n : new[i] = old[i]
  BY <1>1, <1>2, UnreadSlots DEF SlotsBetween
<1>5. new[n + 1] = f
  <2>1. p + (n + 1) - 1 = p + n
    BY <1>1 DEF Positions
  <2> QED
    BY <1>1, <1>2, <2>1, SlotPastUnread
<1>6. new \in Seq(Item) /\ Len(new) = n + 1
  <2>1. [b EXCEPT ![w] = f] \in [Positions -> Item] /\ slot_after(w) \in Positions
    BY <1>3, SlotAfter
  <2> QED
    BY <1>1, <2>1, UnreadIsASequence
<1>7. /\ app \in Seq(Item) /\ Len(app) = n + 1 /\ app[n + 1] = f
      /\ \A i \in 1 .. n : app[i] = old[i]
  BY <1>3, AppendProperties
<1> HIDE DEF n, new, old, app
<1>8. \A i \in 1 .. n + 1 : new[i] = app[i]
  BY <1>1, <1>4, <1>5, <1>7
<1>9. new = app
  BY <1>6, <1>7, <1>8, SeqEqual
<1> QED
  BY <1>9 DEF new, app, old

(* Reading takes the oldest of the frames a session can read.                *)
LEMMA ReadTakesHead ==
  ASSUME NEW b \in [Positions -> Item], NEW p \in Positions, NEW w \in Positions, p # w
  PROVE  /\ SlotsBetween(b, p, w) # <<>>
         /\ Head(SlotsBetween(b, p, w)) = b[p]
         /\ SlotsBetween(b, slot_after(p), w) = Tail(SlotsBetween(b, p, w))
<1> DEFINE n == Lag(p, w)
           old == SlotsBetween(b, p, w)
           new == SlotsBetween(b, slot_after(p), w)
<1>1. n \in 1 .. Capacity - 1 /\ Lag(slot_after(p), w) = n - 1
  BY LagInRing, LagAfterRead
<1>2. old \in Seq(Item) /\ Len(old) = n
  BY UnreadIsASequence
<1>3. old[1] = b[p]
  <2>1. p % Capacity = p /\ p + 1 - 1 = p
    BY CapacityAssumption DEF Positions
  <2> QED
    BY <1>1, <2>1 DEF SlotsBetween
<1>4. new = [i \in 1 .. n - 1 |-> b[(slot_after(p) + i - 1) % Capacity]]
  BY <1>1 DEF SlotsBetween
<1>5. \A i \in 1 .. n - 1 : new[i] = old[i + 1]
  <2> SUFFICES ASSUME NEW i \in 1 .. n - 1 PROVE new[i] = old[i + 1]
    OBVIOUS
  <2>0. i \in 1 .. Capacity - 1
    BY <1>1, CapacityAssumption
  <2>1. (slot_after(p) + i - 1) % Capacity = (p + i) % Capacity
    BY <2>0, SlotsShift
  <2>2. i + 1 \in 1 .. n /\ p + (i + 1) - 1 = p + i
    BY <1>1 DEF Positions
  <2> QED
    BY <1>4, <2>1, <2>2 DEF SlotsBetween
<1>6. new \in Seq(Item) /\ Len(new) = n - 1
  BY <1>1, SlotAfter, UnreadIsASequence
<1>7. old # <<>>
  BY <1>1, <1>2
<1>8. /\ Tail(old) \in Seq(Item) /\ Len(Tail(old)) = n - 1
      /\ \A i \in 1 .. n - 1 : Tail(old)[i] = old[i + 1]
  BY <1>2, <1>7, HeadTailProperties
<1>9. Head(old) = old[1]
  BY <1>2, <1>7
<1> HIDE DEF n, new, old
<1>10. new = Tail(old)
  BY <1>5, <1>6, <1>8, SeqEqual
<1> QED
  BY <1>3, <1>7, <1>9, <1>10 DEF new, old

-----------------------------------------------------------------------------
(* The ring implements the FIFOs: one lemma per kind of step. *)

Members == {c \in Consumers : Registered(c)}
Unread  == [c \in Consumers |-> Backlog(c)]

(* A write publishes the frame: each session with room gets it appended; a    *)
(* session without room, which a stopped queue does not wait for, loses all.  *)
LEMMA WritePublishes ==
  ASSUME TypeOK, NEW f \in Frames, ProduceWrites(f)
  PROVE  Fifos!Publish(f)
<1> DEFINE w == write_position
           p(c) == consumer_positions[c]
<1>1. /\ buffer' = [buffer EXCEPT ![w] = f] /\ write_position' = slot_after(w)
      /\ consumer_positions' = consumer_positions
      /\ UNCHANGED <<exit, returned>>
  BY DEF ProduceWrites
<1>2. w \in Positions /\ buffer \in [Positions -> Item]
  BY DEF TypeOK, Item
<1>3. \A c \in Consumers : Registered(c) => p(c) \in Positions
  BY DEF TypeOK, Registered
<1>4. \A c \in Consumers : Registered(c)' <=> Registered(c)
  BY <1>1 DEF Registered
<1>5. ASSUME NEW c \in Consumers, Registered(c)
      PROVE  /\ Unread[c] = SlotsBetween(buffer, p(c), w)
             /\ Len(Unread[c]) < Capacity - 1 <=> slot_after(w) # p(c)
  BY <1>2, <1>3, <1>5, UnreadIsASequence, LagWhenFull DEF Unread, Backlog
<1>6. exit \/ \A c \in Members : Len(Unread[c]) < Capacity - 1
  BY <1>5 DEF ProduceWrites, Full, is_position_in_use, Members
<1>7. ASSUME NEW c \in Consumers
      PROVE  Backlog(c)' = IF c \in Members /\ Len(Unread[c]) < Capacity - 1
                           THEN Append(Unread[c], f) ELSE <<>>
  <2>1. CASE ~Registered(c)
    BY <2>1, <1>4 DEF Backlog, Members
  <2>2. CASE Registered(c)
    <3>1. Backlog(c)' = SlotsBetween([buffer EXCEPT ![w] = f], p(c), slot_after(w))
      BY <2>2, <1>1, <1>4 DEF Backlog, SlotsBetween, Lag
    <3>2. CASE slot_after(w) # p(c)
      <4>1. Backlog(c)' = Append(SlotsBetween(buffer, p(c), w), f)
        BY <2>2, <3>1, <3>2, <1>2, <1>3, WriteAppends
      <4>2. c \in Members /\ Len(Unread[c]) < Capacity - 1
        BY <2>2, <3>2, <1>5 DEF Members
      <4> QED
        BY <2>2, <4>1, <4>2, <1>5
    <3>3. CASE slot_after(w) = p(c)
      <4>1. Backlog(c)' = <<>>
        BY <2>2, <3>1, <3>3, <1>3, NothingUnread
      <4>2. ~ Len(Unread[c]) < Capacity - 1
        BY <2>2, <3>3, <1>5
      <4> QED
        BY <4>1, <4>2
    <3> QED
      BY <3>2, <3>3
  <2> QED
    BY <2>1, <2>2
<1>8. Members' = Members
  BY <1>4 DEF Members
<1>9. Unread' = [c \in Consumers |->
                   IF c \in Members /\ Len(Unread[c]) < Capacity - 1
                   THEN Append(Unread[c], f) ELSE <<>>]
  BY <1>7 DEF Unread
<1> QED
  BY <1>1, <1>6, <1>8, <1>9 DEF Fifos!Publish, Fifos!HasRoom, Members, Unread

(* A read takes the head of the session's FIFO.                              *)
LEMMA ReadTakes ==
  ASSUME TypeOK, NEW c \in Consumers, Registered(c), ConsumeTakes(c, c)
  PROVE  Fifos!Take(c)
<1> DEFINE w == write_position
           p == consumer_positions[c]
<1>1. Cursor(c) = p /\ p \in Positions /\ p # w /\ w \in Positions
      /\ buffer \in [Positions -> Item]
  BY DEF ConsumeTakes, Cursor, Registered, TypeOK, Item
<1>2. /\ consumer_positions' = [consumer_positions EXCEPT ![c] = slot_after(p)]
      /\ returned' = [returned EXCEPT ![c] = buffer[p]]
      /\ ~exit /\ UNCHANGED <<buffer, write_position, exit>>
  BY <1>1 DEF ConsumeTakes
<1>3. slot_after(p) \in Positions /\ slot_after(p) # Absent
  BY <1>1, SlotAfter DEF Positions, Absent
<1>4. consumer_positions'[c] = slot_after(p)
      /\ \A d \in Consumers \ {c} : consumer_positions'[d] = consumer_positions[d]
  BY <1>2 DEF TypeOK
<1>5. \A d \in Consumers : Registered(d)' <=> Registered(d)
  BY <1>3, <1>4 DEF Registered
<1>6. Unread[c] # <<>> /\ Head(Unread[c]) = buffer[p]
  BY <1>1, ReadTakesHead DEF Unread, Backlog
<1>7. Backlog(c)' = Tail(Unread[c])
  <2>1. Backlog(c)' = SlotsBetween(buffer, slot_after(p), w)
    <3>1. Registered(c)'
      BY <1>5
    <3>2. Backlog(c)' = SlotsBetween(buffer', consumer_positions'[c], write_position')
      BY <3>1 DEF Backlog, SlotsBetween, Lag
    <3> QED
      BY <3>2, <1>2, <1>4
  <2> QED
    BY <2>1, <1>1, ReadTakesHead DEF Unread, Backlog
<1>8. \A d \in Consumers \ {c} : Backlog(d)' = Backlog(d)
  BY <1>2, <1>4, <1>5 DEF Backlog, SlotsBetween, Lag
<1>9. Unread' = [Unread EXCEPT ![c] = Tail(Unread[c])]
  BY <1>7, <1>8 DEF Unread
<1>10. Members' = Members
  BY <1>5 DEF Members
<1> QED
  BY <1>2, <1>6, <1>9, <1>10 DEF Fifos!Take, Members, Unread

(* Steps that move nothing but, perhaps, one session in or out of the map.   *)
LEMMA NothingMoves ==
  ASSUME TypeOK, UNCHANGED <<buffer, write_position, consumer_positions>>
  PROVE  Members' = Members /\ Unread' = Unread
BY DEF Members, Unread, Backlog, Registered, SlotsBetween, Lag

LEMMA OneSessionMoves ==
  ASSUME TypeOK, NEW c \in Consumers, NEW v \in {write_position, Absent},
         UNCHANGED <<buffer, write_position>>,
         consumer_positions' = [consumer_positions EXCEPT ![c] = v]
  PROVE  /\ Members' = IF v = Absent THEN Members \ {c} ELSE Members \cup {c}
         /\ Unread' = [Unread EXCEPT ![c] = <<>>]
<1>1. consumer_positions'[c] = v
      /\ \A d \in Consumers \ {c} : consumer_positions'[d] = consumer_positions[d]
  BY DEF TypeOK
<1>2. Registered(c)' <=> v # Absent
  BY <1>1 DEF Registered
<1>3. \A d \in Consumers \ {c} : (Registered(d)' <=> Registered(d)) /\ Backlog(d)' = Backlog(d)
  BY <1>1 DEF Registered, Backlog, SlotsBetween, Lag
<1>4. Backlog(c)' = <<>>
  <2>1. CASE v = Absent
    BY <2>1, <1>2 DEF Backlog
  <2>2. CASE v = write_position
    <3>1. v \in Positions /\ v # Absent
      BY <2>2 DEF TypeOK, Positions, Absent
    <3>2. Backlog(c)' = SlotsBetween(buffer, v, v)
      <4>1. Backlog(c)' = SlotsBetween(buffer', consumer_positions'[c], write_position')
        BY <3>1, <1>2 DEF Backlog, SlotsBetween, Lag
      <4> QED
        BY <2>2, <4>1, <1>1
    <3> QED
      BY <3>1, <3>2, NothingUnread
  <2> QED
    BY <2>1, <2>2
<1>5. Unread' = [Unread EXCEPT ![c] = <<>>]
  BY <1>3, <1>4 DEF Unread
<1> QED
  BY <1>2, <1>3, <1>5 DEF Members

(* Every step of the queue is a step of the FIFOs or leaves them unchanged.  *)
LEMMA StepSimulation ==
  TypeOK /\ [Next]_vars => [Fifos!Next]_(Fifos!vars)
<1> SUFFICES ASSUME TypeOK, [Next]_vars PROVE [Fifos!Next]_(Fifos!vars)
  OBVIOUS
<1>0. ASSUME UNCHANGED <<buffer, write_position, consumer_positions>>
      PROVE  Members' = Members /\ Unread' = Unread
  BY <1>0, NothingMoves
<1>1. ASSUME ProduceWaits PROVE UNCHANGED Fifos!vars
  BY <1>1, <1>0 DEF ProduceWaits, Fifos!vars, Members, Unread
<1>2. ASSUME NEW f \in Frames, ProduceWrites(f) PROVE Fifos!Next
  BY <1>2, WritePublishes DEF Fifos!Next
<1>3. ASSUME NEW c \in Consumers, Consume(c) PROVE Fifos!Next \/ UNCHANGED Fifos!vars
  <2>1. ASSUME ConsumeTakes(c, c) PROVE Fifos!Next
    BY <2>1, <1>3, ReadTakes DEF Fifos!Next, Consume
  <2>2. ASSUME ConsumeWaits(c, c) \/ ConsumeExits(c, c)
        PROVE  UNCHANGED <<buffer, write_position, consumer_positions>>
    BY <2>2, <1>3 DEF ConsumeWaits, ConsumeExits, Consume, Registered, Cursor, TypeOK
  <2>3. ASSUME ConsumeWaits(c, c) PROVE UNCHANGED Fifos!vars
    BY <2>2, <2>3, <1>0 DEF ConsumeWaits, Fifos!vars, Members, Unread
  <2>4. ASSUME ConsumeExits(c, c) PROVE Fifos!TakeEndOfStream(c)
    BY <2>2, <2>4, <1>0, <1>3
       DEF ConsumeExits, Consume, Fifos!TakeEndOfStream, Members, Unread
  <2> QED
    BY <1>3, <2>1, <2>3, <2>4 DEF Consume, consume, Fifos!Next
<1>4. ASSUME NEW c \in Consumers, register_consumer(c) PROVE Fifos!Next
  <2>1. write_position # Absent
    BY DEF TypeOK, Positions, Absent
  <2>2. Members' = Members \cup {c} /\ Unread' = [Unread EXCEPT ![c] = <<>>]
    BY <1>4, <2>1, OneSessionMoves DEF register_consumer
  <2>3. Fifos!Join(c)
    BY <1>4, <2>2 DEF register_consumer, Fifos!Join, Members, Unread
  <2> QED
    BY <2>3 DEF Fifos!Next
<1>5. ASSUME NEW c \in Consumers, Unregister(c) PROVE Fifos!Next
  <2>1. Members' = Members \ {c} /\ Unread' = [Unread EXCEPT ![c] = <<>>]
    BY <1>5, OneSessionMoves DEF Unregister, unregister_consumer
  <2>2. Fifos!Leave(c)
    BY <1>5, <2>1 DEF Unregister, unregister_consumer, Fifos!Leave, Members, Unread
  <2> QED
    BY <2>2 DEF Fifos!Next
<1>6. ASSUME set_exit PROVE Fifos!Next
  BY <1>6, <1>0 DEF set_exit, Fifos!Next, Fifos!Close, Members, Unread
<1>7. ASSUME set_run PROVE Fifos!Next
  BY <1>7, <1>0 DEF set_run, Fifos!Next, Fifos!Reopen, Members, Unread
<1>8. ASSUME SpuriousWakeup PROVE UNCHANGED Fifos!vars
  BY <1>8, <1>0 DEF SpuriousWakeup, Fifos!vars, Members, Unread
<1>9. ASSUME UNCHANGED vars PROVE UNCHANGED Fifos!vars
  BY <1>9, <1>0 DEF vars, Fifos!vars, Members, Unread
<1> QED
  BY <1>1, <1>2, <1>3, <1>4, <1>5, <1>6, <1>7, <1>8, <1>9 DEF Next, produce

(* CircularQueue.h hands every registered session every frame produced since  *)
(* it registered, in order and once, whatever the number of sessions and the  *)
(* capacity; frames are lost only to a session a full ring behind when the    *)
(* track is stopped.                                                          *)
THEOREM RingImplementsFifos == Spec => ImplementsFrameFifos
<1>1. Init => Fifos!Init
  <2> SUFFICES ASSUME Init PROVE Fifos!Init
    OBVIOUS
  <2>1. \A c \in Consumers : ~Registered(c)
    BY DEF Init, Registered
  <2>2. {c \in Consumers : Registered(c)} = {}
        /\ [c \in Consumers |-> Backlog(c)] = [c \in Consumers |-> <<>>]
    BY <2>1 DEF Backlog
  <2> QED
    BY <2>2 DEF Init, Fifos!Init
<1> QED
  BY <1>1, TypeCorrect, StepSimulation, PTL DEF Spec, ImplementsFrameFifos, Fifos!Spec
=============================================================================
