-------------------------- MODULE MCCircularQueue ---------------------------
(* The queue on a small instance: two sessions, two distinguishable frames   *)
(* and a ring of three slots, so that a session can be two frames behind,    *)
(* the ring wraps, fills up and laps a session that does not read.           *)
EXTENDS CircularQueue
=============================================================================
