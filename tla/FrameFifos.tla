----------------------------- MODULE FrameFifos -----------------------------
(***************************************************************************)
(* What CircularQueue promises its users, without the ring: every          *)
(* registered session owns a bounded FIFO of the frames published since it *)
(* joined.  A frame is published to all the FIFOs at once, and only when   *)
(* none of them is full.  Sessions take their frames in order, each frame  *)
(* once.  Once the stream is closed, a publisher no longer waits: a        *)
(* FIFO that is full then loses everything it holds, and Take answers with *)
(* the end-of-stream value NoFrame until the stream is reopened.           *)
(***************************************************************************)
EXTENDS Integers, Sequences

CONSTANTS Consumers,   \* the session ids that may register
          Frames,      \* the frames a producer may publish
          NoFrame,     \* the null pointer a closed queue hands out
          Depth        \* frames a session may be behind the producer

VARIABLES members,     \* the registered sessions
          unread,      \* unread[c]: the frames c has still to take, oldest first
          closed,      \* the end-of-stream flag
          delivered    \* delivered[c]: what the last Take of c returned

vars == <<members, unread, closed, delivered>>

Init ==
  /\ members = {}
  /\ unread = [c \in Consumers |-> <<>>]
  /\ closed = FALSE
  /\ delivered = [c \in Consumers |-> NoFrame]

HasRoom(c) == Len(unread[c]) < Depth

Publish(f) ==
  /\ closed \/ \A c \in members : HasRoom(c)
  /\ unread' = [c \in Consumers |->
                  IF c \in members /\ HasRoom(c) THEN Append(unread[c], f) ELSE <<>>]
  /\ UNCHANGED <<members, closed, delivered>>

Take(c) ==
  /\ c \in members /\ ~closed /\ unread[c] # <<>>
  /\ delivered' = [delivered EXCEPT ![c] = Head(unread[c])]
  /\ unread' = [unread EXCEPT ![c] = Tail(unread[c])]
  /\ UNCHANGED <<members, closed>>

TakeEndOfStream(c) ==
  /\ c \in members /\ closed
  /\ delivered' = [delivered EXCEPT ![c] = NoFrame]
  /\ UNCHANGED <<members, unread, closed>>

Join(c) ==
  /\ members' = members \cup {c}
  /\ unread' = [unread EXCEPT ![c] = <<>>]
  /\ UNCHANGED <<closed, delivered>>

Leave(c) ==
  /\ members' = members \ {c}
  /\ unread' = [unread EXCEPT ![c] = <<>>]
  /\ UNCHANGED <<closed, delivered>>

Close  == closed' = TRUE  /\ UNCHANGED <<members, unread, delivered>>
Reopen == closed' = FALSE /\ UNCHANGED <<members, unread, delivered>>

Next ==
  \/ \E f \in Frames : Publish(f)
  \/ \E c \in Consumers : Take(c) \/ TakeEndOfStream(c) \/ Join(c) \/ Leave(c)
  \/ Close
  \/ Reopen

Spec == Init /\ [][Next]_vars
=============================================================================
