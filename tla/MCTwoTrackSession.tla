------------------------- MODULE MCTwoTrackSession --------------------------
EXTENDS TwoTrackSession

(* Two pairs: enough for two tracks, and soon gone.                          *)
MCPairs == <<0, 2>>

MCFaults == {<<"bind", "video">>, <<"open", "video">>, <<"open", "audio">>}

(* How far behind the producer a consumer is.  Which slot of the ring that   *)
(* is, and the frames of which the model has only one, make no difference to *)
(* what a thread may do.                                                     *)
Lag(positions, write) ==
  [s \in SessionIds |-> IF positions[s] = -1 THEN -1 ELSE (write - positions[s]) % Capacity]

MCView ==
  <<Lag(v_consumer_positions, v_write_position), v_exit, v_not_full, v_not_empty, videoTrack,
    Lag(a_consumer_positions, a_write_position), a_exit, a_not_full, a_not_empty, audioTrack,
    sessionVars, pc, localVars, crashed, historyVars>>
=============================================================================
