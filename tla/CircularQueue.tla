--------------------------- MODULE CircularQueue ----------------------------
(***************************************************************************)
(* CircularQueue.h: the bounded ring through which a track's producer      *)
(* thread broadcasts frames to the sender threads of all the sessions that *)
(* registered.  One mutex makes every method body one atomic step, except  *)
(* that a wait on a condition variable releases it: a thread that waits is *)
(* put in not_full (the producer) or not_empty (the senders), sleeps until *)
(* a notify_all empties that set, and then evaluates its loop condition    *)
(* again.                                                                  *)
(*                                                                         *)
(* A track has a single producer thread, so next_position, which produce() *)
(* computes before it waits, is still right when the wait ends.            *)
(***************************************************************************)
EXTENDS Integers

CONSTANTS Consumers,   \* the session ids, the keys of consumer_positions_
          Frames,      \* the frames
          NoFrame,     \* T(), the null shared_ptr
          Capacity     \* buffer_.size(): 25 for H.264, 43 for AAC

ASSUME CapacityAssumption == Capacity \in Nat \ {0}
ASSUME NoFrameAssumption == NoFrame \notin Frames

VARIABLES
  buffer,              \* buffer_
  write_position,      \* write_position_
  consumer_positions,  \* consumer_positions_; Absent where the map has no key
  exit,                \* exit_
  not_full,            \* TRUE: the producer sleeps on not_full_
  not_empty,           \* the sender threads that sleep on not_empty_
  returned             \* returned[c]: what the last consume() for session c returned

vars == <<buffer, write_position, consumer_positions, exit,
          not_full, not_empty, returned>>

Absent    == -1
Positions == 0 .. Capacity - 1

(* A new queue. *)
Init ==
  /\ buffer = [p \in Positions |-> NoFrame]
  /\ write_position = 0
  /\ consumer_positions = [c \in Consumers |-> Absent]
  /\ exit = FALSE
  /\ not_full = FALSE
  /\ not_empty = {}
  /\ returned = [c \in Consumers |-> NoFrame]

-----------------------------------------------------------------------------
(* Mutant of slot_after: the ring does not wrap. *)
SlotAfterUnwrapped(p) == p + 1

slot_after(p) == (p + 1) % Capacity

is_position_in_use(p) == \E c \in Consumers : consumer_positions[c] = p

no_consumer == \A c \in Consumers : consumer_positions[c] = Absent

(* Mutant of Full: the producer looks at the slot it writes, not at the next. *)
FullAtWritePosition == is_position_in_use(write_position)

Full == is_position_in_use(slot_after(write_position))

(***************************************************************************)
(* produce(): sleep while some consumer has not read the next slot yet,    *)
(* then write and wake all the sleeping senders.                           *)
(***************************************************************************)
ProduceWaits ==
  /\ ~not_full /\ Full /\ ~exit
  /\ not_full' = TRUE
  /\ UNCHANGED <<buffer, write_position, consumer_positions, exit, not_empty, returned>>

(* Mutant of ProduceWrites: the sleeping senders are not notified. *)
ProduceWritesSilently(f) ==
  /\ ~not_full /\ (~Full \/ exit)
  /\ buffer' = [buffer EXCEPT ![write_position] = f]
  /\ write_position' = slot_after(write_position)
  /\ UNCHANGED <<consumer_positions, exit, not_full, not_empty, returned>>

ProduceWrites(f) ==
  /\ ~not_full /\ (~Full \/ exit)
  /\ buffer' = [buffer EXCEPT ![write_position] = f]
  /\ write_position' = slot_after(write_position)
  /\ not_empty' = {}
  /\ UNCHANGED <<consumer_positions, exit, not_full, returned>>

produce(f) == ProduceWaits \/ ProduceWrites(f)

(***************************************************************************)
(* consume(session_id) called by sender thread t for session c.  Every     *)
(* consumer_positions_[session_id] default-inserts position 0 for a        *)
(* session that is not in the map.                                         *)
(***************************************************************************)
Cursor(c) == IF consumer_positions[c] = Absent THEN 0 ELSE consumer_positions[c]

ConsumeWaits(t, c) ==
  /\ t \notin not_empty /\ Cursor(c) = write_position /\ ~exit
  /\ not_empty' = not_empty \cup {t}
  /\ consumer_positions' = [consumer_positions EXCEPT ![c] = Cursor(c)]
  /\ UNCHANGED <<buffer, write_position, exit, not_full, returned>>

ConsumeExits(t, c) ==
  /\ t \notin not_empty /\ exit
  /\ returned' = [returned EXCEPT ![c] = NoFrame]
  /\ consumer_positions' = [consumer_positions EXCEPT ![c] = Cursor(c)]
  /\ UNCHANGED <<buffer, write_position, exit, not_full, not_empty>>

(* Mutant of ConsumeTakes: the sleeping producer is not notified. *)
ConsumeTakesSilently(t, c) ==
  /\ t \notin not_empty /\ Cursor(c) # write_position /\ ~exit
  /\ returned' = [returned EXCEPT ![c] = buffer[Cursor(c)]]
  /\ consumer_positions' = [consumer_positions EXCEPT ![c] = slot_after(Cursor(c))]
  /\ UNCHANGED <<buffer, write_position, exit, not_full, not_empty>>

ConsumeTakes(t, c) ==
  /\ t \notin not_empty /\ Cursor(c) # write_position /\ ~exit
  /\ returned' = [returned EXCEPT ![c] = buffer[Cursor(c)]]
  /\ consumer_positions' = [consumer_positions EXCEPT ![c] = slot_after(Cursor(c))]
  /\ not_full' = FALSE
  /\ UNCHANGED <<buffer, write_position, exit, not_empty>>

consume(t, c) == ConsumeWaits(t, c) \/ ConsumeExits(t, c) \/ ConsumeTakes(t, c)

(* register_consumer(): a session starts, or restarts, at the newest frame. *)
register_consumer(c) ==
  /\ consumer_positions' = [consumer_positions EXCEPT ![c] = write_position]
  /\ UNCHANGED <<buffer, write_position, exit, not_full, not_empty, returned>>

(* unregister_consumer(): erases the key and notifies nobody. *)
unregister_consumer(c) ==
  /\ consumer_positions' = [consumer_positions EXCEPT ![c] = Absent]
  /\ UNCHANGED <<buffer, write_position, exit, not_full, not_empty, returned>>

set_exit ==
  /\ exit' = TRUE
  /\ not_full' = FALSE
  /\ not_empty' = {}
  /\ UNCHANGED <<buffer, write_position, consumer_positions, returned>>

set_run ==
  /\ exit' = FALSE
  /\ not_full' = FALSE
  /\ UNCHANGED <<buffer, write_position, consumer_positions, not_empty, returned>>

(* A condition variable may wake its waiters for no reason. *)
SpuriousWakeup ==
  /\ not_full' \in {not_full, FALSE}
  /\ \E T \in SUBSET not_empty : not_empty' = T
  /\ UNCHANGED <<buffer, write_position, consumer_positions, exit, returned>>

-----------------------------------------------------------------------------
(***************************************************************************)
(* The queue with its users: any session may register and leave at any     *)
(* time and the track may be stopped and restarted at any time.  Each      *)
(* session has one sender thread, which has the session's name.  Its users *)
(* keep two rules, which modules RtspSessions and TwoTrackSession check:   *)
(* consume() is called for a registered session only, and no session is    *)
(* unregistered while its sender thread is inside consume().               *)
(***************************************************************************)
Registered(c) == consumer_positions[c] # Absent

Consume(c) == Registered(c) /\ consume(c, c)

Unregister(c) == c \notin not_empty /\ unregister_consumer(c)

Next ==
  \/ \E f \in Frames : produce(f)
  \/ \E c \in Consumers : Consume(c) \/ register_consumer(c) \/ Unregister(c)
  \/ set_exit
  \/ exit /\ set_run
  \/ SpuriousWakeup

(* A sender thread runs; nothing obliges a client or the producer to act. *)
Fairness == \A c \in Consumers : WF_vars(Consume(c))

Spec     == Init /\ [][Next]_vars
FairSpec == Spec /\ Fairness

-----------------------------------------------------------------------------
TypeOK ==
  /\ buffer \in [Positions -> Frames \cup {NoFrame}]
  /\ write_position \in Positions
  /\ consumer_positions \in [Consumers -> Positions \cup {Absent}]
  /\ exit \in BOOLEAN
  /\ not_full \in BOOLEAN
  /\ not_empty \in SUBSET Consumers
  /\ returned \in [Consumers -> Frames \cup {NoFrame}]

(* A sender that sleeps in consume() (CircularQueue.h:58-60) has nothing to  *)
(* read and no end of stream to report: no wake-up of a sender is lost.      *)
SleepingSendersHaveNothingToDo ==
  \A c \in not_empty : consumer_positions[c] = write_position /\ ~exit

(* A step that frees the slot the producer sleeps on wakes the producer      *)
(* (CircularQueue.h:70), unless the slot came free because a session left    *)
(* the map or registered again: those two do not notify not_full_.           *)
OnlyMembershipStrandsTheProducer ==
  [][ (not_full /\ Full /\ ~Full' /\ not_full')
        => \E c \in Consumers : register_consumer(c) \/ unregister_consumer(c) ]_vars

(* A running sender thread gets past every slot that has been written: a     *)
(* frame is taken unless the stream ends or the session leaves.              *)
NoSenderStarves ==
  \A c \in Consumers : \A p \in Positions :
    (consumer_positions[c] = p /\ p # write_position)
      ~> (consumer_positions[c] # p \/ exit)

-----------------------------------------------------------------------------
(***************************************************************************)
(* Refinement: the slots from a session's position up to write_position    *)
(* are its FIFO in FrameFifos.                                             *)
(***************************************************************************)
Lag(p, w) == IF p <= w THEN w - p ELSE w - p + Capacity

SlotsBetween(b, p, w) == [i \in 1 .. Lag(p, w) |-> b[(p + i - 1) % Capacity]]

Backlog(c) ==
  IF Registered(c)
  THEN SlotsBetween(buffer, consumer_positions[c], write_position)
  ELSE <<>>

Fifos == INSTANCE FrameFifos
           WITH Depth     <- Capacity - 1,
                members   <- {c \in Consumers : Registered(c)},
                unread    <- [c \in Consumers |-> Backlog(c)],
                closed    <- exit,
                delivered <- returned

(* The ring implements the per-session FIFOs: a registered session takes     *)
(* every frame produced since it registered, in order and once, unless the   *)
(* track is stopped while the session is a full ring behind.                 *)
ImplementsFrameFifos == Fifos!Spec
=============================================================================
