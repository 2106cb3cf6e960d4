----------------------------- MODULE MediaTrack -----------------------------
(***************************************************************************)
(* MediaSourceHandler.cpp: one track (H264MediaTrack; AACMediaTrack has    *)
(* the same start, stop, run_producer and unregister_session, line for     *)
(* line).  A track owns a CircularQueue, a media file and the thread that  *)
(* reads the file into the queue.  No lock guards the track: its methods   *)
(* run in whatever connection thread calls them, so each is given here as  *)
(* the steps between which other threads can act, and module RtspSessions  *)
(* puts them in sequence.                                                  *)
(***************************************************************************)
EXTENDS Integers

CONSTANTS SessionIds,  \* the session ids in use
          Frame,       \* any frame: which one it is does not matter here
          NoFrame,     \* the null frame that ends a stream
          Capacity,    \* slots of the queue
          FileFrames   \* frames in the media file

ASSUME CapacityAssumption == Capacity \in Nat \ {0}
ASSUME FrameAssumption == Frame # NoFrame
ASSUME FileFramesAssumption == FileFrames \in Nat

VARIABLES
  buffer, write_position, consumer_positions, exit, not_full, not_empty, returned,
  is_active,           \* is_active_
  file,                \* frames left in the open file, or Closed
  producer             \* produce_thread_: where it is in run_producer(), or NoThread

Queue == INSTANCE CircularQueue WITH Consumers <- SessionIds, Frames <- {Frame}

queueVars == <<buffer, write_position, consumer_positions, exit,
               not_full, not_empty, returned>>
trackVars == <<is_active, file, producer>>

Closed   == -1
NoThread == "none"     \* a null thread pointer

(* Joining a thread that was never started, or has finished, does not block. *)
Joinable(thread) == thread # NoThread
JoinReturns(thread) == thread \in {NoThread, "finished"}

(* MediaSource::add_media_track() makes the track and opens its file. *)
InitTrack ==
  /\ Queue!Init
  /\ is_active = FALSE
  /\ file = FileFrames
  /\ producer = NoThread

TrackTypeOK ==
  /\ buffer \in [Queue!Positions -> {Frame, NoFrame}]
  /\ write_position \in Queue!Positions
  /\ consumer_positions \in [SessionIds -> Queue!Positions \cup {Queue!Absent}]
  /\ exit \in BOOLEAN
  /\ not_full \in BOOLEAN
  /\ is_active \in BOOLEAN
  /\ file \in (0 .. FileFrames) \cup {Closed}
  /\ producer \in {NoThread, "loop", "produce", "set_exit", "finished"}

-----------------------------------------------------------------------------
(***************************************************************************)
(* run_producer(), the producer thread.                                    *)
(***************************************************************************)
ProducerReadsFrame ==
  /\ producer = "loop" /\ is_active /\ file > 0
  /\ file' = file - 1
  /\ producer' = "produce"
  /\ UNCHANGED <<queueVars, is_active>>

(* The loop ends when the track was stopped or the file has no frame left. *)
ProducerLeavesLoop ==
  /\ producer = "loop" /\ ~(is_active /\ file > 0)
  /\ producer' = "set_exit"
  /\ UNCHANGED <<queueVars, is_active, file>>

ProducerWaits ==
  /\ producer = "produce"
  /\ Queue!ProduceWaits
  /\ UNCHANGED trackVars

ProducerPutsFrame ==
  /\ producer = "produce"
  /\ Queue!ProduceWrites(Frame)
  /\ producer' = "loop"
  /\ UNCHANGED <<is_active, file>>

ProducerFinishes ==
  /\ producer = "set_exit"
  /\ Queue!set_exit
  /\ producer' = "finished"
  /\ UNCHANGED <<is_active, file>>

run_producer == \/ ProducerReadsFrame \/ ProducerLeavesLoop
                \/ ProducerWaits \/ ProducerPutsFrame \/ ProducerFinishes

-----------------------------------------------------------------------------
(***************************************************************************)
(* start().  Its first line is a test of is_active.                        *)
(***************************************************************************)
StartActivates ==
  /\ is_active' = TRUE
  /\ UNCHANGED <<queueVars, file, producer>>

(* Mutant of StartOpens: the queue stays in the state the last stop() left. *)
StartOpensOnly ==
  /\ file' = IF file = Closed THEN FileFrames ELSE file
  /\ UNCHANGED <<queueVars, is_active, producer>>

(* The queue runs again and the file, when closed, is read from its start. *)
StartOpens ==
  /\ IF exit THEN Queue!set_run ELSE UNCHANGED queueVars
  /\ file' = IF file = Closed THEN FileFrames ELSE file
  /\ UNCHANGED <<is_active, producer>>

(* open() fails and start() throws, after is_active and the queue were set. *)
StartFailsToOpen ==
  /\ file = Closed
  /\ IF exit THEN Queue!set_run ELSE UNCHANGED queueVars
  /\ UNCHANGED trackVars

(* produce_thread_.reset(new std::thread): only over a null pointer; the     *)
(* destructor of a std::thread that is still joinable ends the program.      *)
StartSpawns ==
  /\ ~Joinable(producer)
  /\ producer' = "loop"
  /\ UNCHANGED <<queueVars, is_active, file>>

-----------------------------------------------------------------------------
(***************************************************************************)
(* stop() and the end of unregister_session().                             *)
(***************************************************************************)
(* Mutant of StopSignals: the sleeping producer is not told to stop. *)
StopQuietly ==
  /\ is_active' = FALSE
  /\ UNCHANGED <<queueVars, file, producer>>

StopSignals ==
  /\ is_active' = FALSE
  /\ Queue!set_exit
  /\ UNCHANGED <<file, producer>>

(* Mutant of StopJoins: stop() does not wait for the producer thread. *)
StopWithoutJoin ==
  UNCHANGED <<queueVars, trackVars>>

StopJoins ==
  /\ JoinReturns(producer)
  /\ producer' = NoThread
  /\ UNCHANGED <<queueVars, is_active, file>>

StopEndsAndCloses ==
  /\ Queue!set_exit
  /\ file' = Closed
  /\ UNCHANGED <<is_active, producer>>

(* register_session(), get_next_frame() and the unregister_consumer() of     *)
(* unregister_session() only call the queue.                                 *)
register_session(s) ==
  Queue!register_consumer(s) /\ UNCHANGED trackVars

unregister_session(s) ==
  Queue!unregister_consumer(s) /\ UNCHANGED trackVars
=============================================================================
