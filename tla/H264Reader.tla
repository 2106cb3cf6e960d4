----------------------------- MODULE H264Reader -----------------------------
(***************************************************************************)
(* H264MediaTrack::read_next_frame(): the producer thread cuts the file    *)
(* into NAL units.  It reads a block of MAX_FRAME_SIZE bytes, looks for    *)
(* the second start code in it, and seeks back to where that one is.  The  *)
(* test for the end of the file is that of std::ifstream: a read that gets *)
(* fewer bytes than it asked for sets eof().                               *)
(*                                                                         *)
(* A file is its size and the places of its start codes, 00 00 01 or       *)
(* 00 00 00 01; a frame is the bytes from .. to - 1.                       *)
(***************************************************************************)
EXTENDS Integers, Sequences

CONSTANTS
  BlockSize,  \* MAX_FRAME_SIZE: 512 * 1024
  Files       \* the files: [size, codes], a code being [at, len]

(* A NAL unit has a header byte, so two start codes do not touch; the file   *)
(* begins with a start code, as the comment in the code assumes.             *)
ASSUME BlockAssumption == BlockSize \in Nat /\ BlockSize > 4
ASSUME FilesAssumption ==
  \A f \in Files :
    /\ f.size \in Nat
    /\ f.codes \subseteq [at : Nat, len : {3, 4}]
    /\ \E c \in f.codes : c.at = 0
    /\ \A c \in f.codes : c.at + c.len < f.size
    /\ \A b, c \in f.codes : b = c \/ b.at + b.len < c.at \/ c.at + c.len < b.at

VARIABLES
  file,    \* what url_ names: it never changes
  pos,     \* the position in h264_file_
  eof,     \* h264_file_.eof()
  frames   \* the frames returned so far

vars == <<file, pos, eof, frames>>

Init ==
  /\ file \in Files
  /\ pos = 0
  /\ eof = FALSE
  /\ frames = <<>>

-----------------------------------------------------------------------------
(* gcount() of the next read.                                                *)
ReadBytes == IF file.size - pos < BlockSize THEN file.size - pos ELSE BlockSize

(* Mutant of ReadsToTheEnd: gcount() is compared with <=.                    *)
ReadsToTheEndAlways == ReadBytes <= BlockSize

ReadsToTheEnd == ReadBytes < BlockSize

(* The offsets in the block, from 3 on, at which the loop sees a start code  *)
(* that is in the block as a whole.  The last three bytes of a long start    *)
(* code are a short one.                                                     *)
StartCodesInBlock ==
  {i \in 3 .. ReadBytes - 1 : \E c \in file.codes :
     \/ c.at = pos + i /\ i + c.len <= ReadBytes
     \/ c.len = 4 /\ c.at + 1 = pos + i /\ i + 3 <= ReadBytes}

(* Mutant of ReturnFrame: the file is not set back.                          *)
ReturnFrameWithoutSeek ==
  /\ ~eof
  /\ \E i \in StartCodesInBlock :
       /\ \A j \in StartCodesInBlock : i <= j
       /\ frames' = Append(frames, [from |-> pos, to |-> pos + i])
  /\ pos' = pos + ReadBytes
  /\ eof' = ReadsToTheEnd
  /\ UNCHANGED file

(* Mutant of ReturnFrame: the offset of the seek has the wrong sign.         *)
ReturnFrameSeekingForward ==
  /\ ~eof
  /\ \E i \in StartCodesInBlock :
       /\ \A j \in StartCodesInBlock : i <= j
       /\ frames' = Append(frames, [from |-> pos, to |-> pos + i])
       /\ pos' = pos + ReadBytes + IF ReadsToTheEnd THEN 0 ELSE ReadBytes - i
  /\ eof' = ReadsToTheEnd
  /\ UNCHANGED file

(* The frame ends at the first such offset.  At the end of the file there is *)
(* no seek.                                                                  *)
ReturnFrame ==
  /\ ~eof
  /\ \E i \in StartCodesInBlock :
       /\ \A j \in StartCodesInBlock : i <= j
       /\ frames' = Append(frames, [from |-> pos, to |-> pos + i])
       /\ pos' = IF ReadsToTheEnd THEN pos + ReadBytes ELSE pos + i
  /\ eof' = ReadsToTheEnd
  /\ UNCHANGED file

(* Without a start code the block is forgotten and the next one is read.     *)
SkipBlock ==
  /\ ~eof
  /\ StartCodesInBlock = {}
  /\ pos' = pos + ReadBytes
  /\ eof' = ReadsToTheEnd
  /\ UNCHANGED <<file, frames>>

Next == ReturnFrame \/ SkipBlock

Spec == Init /\ [][Next]_vars

-----------------------------------------------------------------------------
(* The position is in the file and frames are in what has been read.         *)
TypeOK ==
  /\ pos \in 0 .. file.size
  /\ eof \in BOOLEAN
  /\ frames \in Seq([from : 0 .. pos, to : 0 .. pos])

(* The code c is the next one behind b.                                      *)
NextCode(b, c) ==
  b.at < c.at /\ \A d \in file.codes : d.at <= b.at \/ c.at <= d.at

(* Every unit fits in a block, together with the start code that follows it  *)
(* unless the rest of the file fits as a whole.                              *)
UnitsFit ==
  \A b \in file.codes :
    \/ file.size - b.at <= BlockSize
    \/ \E c \in file.codes : b.at < c.at /\ c.at + c.len - b.at <= BlockSize

(* What read_next_frame() returns are the units of the file, one after the   *)
(* other from the first: each frame begins and ends at a start code and has  *)
(* none inside, wherever blocks begin and end.                               *)
FramesAreUnits ==
  UnitsFit => \A i \in 1 .. Len(frames) :
    /\ frames[i].from = IF i = 1 THEN 0 ELSE frames[i - 1].to
    /\ \E b, c \in file.codes :
         NextCode(b, c) /\ frames[i].from = b.at /\ frames[i].to = c.at

(* Where the last frame ended.                                               *)
Returned == IF frames = <<>> THEN 0 ELSE frames[Len(frames)].to

(* The units that are not returned are in the last block of the file: they   *)
(* are lost because eof() is set before they are looked at.                  *)
OnlyTheLastBlockIsLost == UnitsFit /\ eof => file.size - Returned <= BlockSize
=============================================================================
