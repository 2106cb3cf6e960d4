------------------------------ MODULE Readers -------------------------------
(***************************************************************************)
(* The producer thread of a track runs the reader of the track's media     *)
(* type: run_producer() calls the read_next_frame() of H264MediaTrack or   *)
(* of AACMediaTrack.  The initial state chooses the track and its file;    *)
(* the reader of the other type is never called.                           *)
(***************************************************************************)
EXTENDS H264Reader

CONSTANTS AacFiles   \* the files of audio tracks, as in AacReader

VARIABLES
  track,   \* the media type of the track
  aac_file, aac_pos, aac_ended, aac_frames

aacVars == <<aac_file, aac_pos, aac_ended, aac_frames>>

Aac == INSTANCE AacReader WITH
  Files <- AacFiles, file <- aac_file, pos <- aac_pos, ended <- aac_ended,
  frames <- aac_frames

ASSUME AacFilesAssumption == Aac!FilesAreAdts

NoAudio ==
  /\ aac_file = [size |-> 0, headers |-> {}] /\ aac_pos = 0
  /\ aac_ended = TRUE /\ aac_frames = <<>>

NoVideo ==
  /\ file = [size |-> 0, codes |-> {}] /\ pos = 0
  /\ eof = TRUE /\ frames = <<>>

InitReaders ==
  \/ track = "video" /\ Init /\ NoAudio
  \/ track = "audio" /\ NoVideo /\ Aac!Init

ReadVideo == track = "video" /\ Next /\ UNCHANGED <<track, aacVars>>

ReadAudio == track = "audio" /\ Aac!Next /\ UNCHANGED <<track, vars>>

NextReaders == ReadVideo \/ ReadAudio

SpecReaders == InitReaders /\ [][NextReaders]_<<track, vars, aacVars>>

(* What is returned of an audio file are the contents of its frames, one     *)
(* after the other, up to the first place that is not a whole frame          *)
(* (MediaSourceHandler.cpp:181-198).                                         *)
AudioFramesAreContents == Aac!FramesAreContents
=============================================================================
