--------------------------- MODULE MCRtspSessions ---------------------------
(* Small instances of the session model: which clients send what, and which  *)
(* ids the server draws for their sessions.  A ring of two slots lets a      *)
(* session be one frame behind, so a file of two frames makes the producer   *)
(* wait for every session that does not read.                                *)
EXTENDS RtspSessions, TLC

CONSTANTS c1, c2, s1, s2

SetUp(c)        == {<<c, "SETUP", NoId>>}
Control(c, s)   == {<<c, "PLAY", s>>, <<c, "TEARDOWN", s>>}
Pause(c, s)     == {<<c, "PAUSE", s>>}

(* One client that sets a session up, plays it and tears it down, as often   *)
(* as it likes; it may also repeat a request, or just disconnect.            *)
OneClientRequests == SetUp(c1) \cup Control(c1, s1)
OneClientIds      == [c \in Connections |-> {s1}]

(* The same client, and it may PAUSE.                                        *)
PausingRequests == OneClientRequests \cup Pause(c1, s1)

(* Two such clients, each with a session of its own.                         *)
TwoClientRequests == OneClientRequests \cup SetUp(c2) \cup Control(c2, s2)
TwoClientIds      == (c1 :> {s1}) @@ (c2 :> {s2})

(* They are the clients that every theorem of RtspSessions_proofs speaks of. *)
ASSUME TwoClientsAssumption ==
  Requests = TwoClientRequests /\ NewIds = TwoClientIds /\ Orderly = Connections
    => OwnSessions /\ SetupOnce /\ NoPause

(* The second client only sets its session up.                               *)
SilentClientRequests == OneClientRequests \cup SetUp(c2)

(* A second connection controls the session of the first one, and both may   *)
(* name it in a SETUP: of the track once more, or before it exists.          *)
SharedRequests ==
  PausingRequests \cup Control(c2, s1) \cup Pause(c2, s1)
    \cup {<<c1, "SETUP", s1>>, <<c2, "SETUP", s1>>}
SharedIds      == (c1 :> {s1}) @@ (c2 :> {})
=============================================================================
