----------------------------- MODULE AacReader ------------------------------
(***************************************************************************)
(* AACMediaTrack::read_next_frame(): the producer thread takes the ADTS    *)
(* frames of the file one after the other.  The header tells the length of *)
(* a frame in 13 bits of its bytes 3, 4 and 5; what the track returns is   *)
(* the frame without the seven bytes of its header.  Anything else than a  *)
(* frame ends the stream.                                                  *)
(*                                                                         *)
(* A file is its size and the headers in it: where a header is, the length *)
(* it tells, and the bits that share bytes 3 and 5 with the length.        *)
(***************************************************************************)
EXTENDS Integers, Sequences

CONSTANTS Files   \* the files: [size, headers], a header being [at, length, other]

HeaderSize == 7   \* adts_header_size

(* What a header tells besides: a length of 13 bits, and its neighbours.     *)
Lengths == 0 .. 8191
Others == 0 .. 31

(* The lengths have 13 bits, and a header is where it is.                    *)
FilesAreAdts ==
  \A f \in Files :
    /\ f.size \in Nat
    /\ f.headers \subseteq [at : Nat, length : Lengths, other : Others]
    /\ \A g, h \in f.headers : g.at = h.at => g = h

VARIABLES
  file,    \* what url_ names: it never changes
  pos,     \* the position in aac_file_ between two frames
  ended,   \* read_next_frame() has returned -1 or 0
  frames   \* the frames returned so far: the bytes from .. to - 1

vars == <<file, pos, ended, frames>>

Init ==
  /\ file \in Files
  /\ pos = 0
  /\ ended = FALSE
  /\ frames = <<>>

-----------------------------------------------------------------------------
(* The bytes 3, 4 and 5 of an ADTS header.                                   *)
Byte3(h) == h.other * 4 + (h.length \div 2048)
Byte4(h) == (h.length \div 8) % 256
Byte5(h) == (h.length % 8) * 32 + h.other

(* Mutant of FrameSize: the two top bits of the length are not cut out.      *)
FrameSizeUnmasked(h) ==
  Byte3(h) * 2048 + Byte4(h) * 8 + (Byte5(h) \div 32) - HeaderSize

FrameSize(h) ==
  (Byte3(h) % 4) * 2048 + Byte4(h) * 8 + (Byte5(h) \div 32) - HeaderSize

Left == file.size - pos

(* The header is there as a whole and begins with the sync word.             *)
HeaderRead(h) == h \in file.headers /\ h.at = pos /\ HeaderSize <= Left

PayloadRead(h) == FrameSize(h) >= 0 /\ HeaderSize + FrameSize(h) <= Left

ReturnFrame ==
  /\ ~ended
  /\ \E h \in file.headers :
       /\ HeaderRead(h) /\ PayloadRead(h) /\ FrameSize(h) > 0
       /\ frames' = Append(frames, [from |-> pos + HeaderSize,
                                    to   |-> pos + HeaderSize + FrameSize(h)])
       /\ pos' = pos + HeaderSize + FrameSize(h)
  /\ UNCHANGED <<file, ended>>

(* No header, one that tells less than its own length, an empty frame or one *)
(* that is cut short: run_producer() takes 0 for an end as well.             *)
EndStream ==
  /\ ~ended
  /\ \A h \in file.headers : ~(HeaderRead(h) /\ PayloadRead(h) /\ FrameSize(h) > 0)
  /\ ended' = TRUE
  /\ UNCHANGED <<file, pos, frames>>

Next == ReturnFrame \/ EndStream

Spec == Init /\ [][Next]_vars

-----------------------------------------------------------------------------
(* Where the frame after the first n frames begins.                          *)
EndOf(n) == IF n = 0 THEN 0 ELSE frames[n].to

(* A frame with something in it that is all there.                           *)
Whole(h) == HeaderSize < h.length /\ h.at + h.length <= file.size

(* What is returned are the contents of the frames of the file, one after    *)
(* the other from the first, whatever their lengths and the bits next to     *)
(* them; the stream ends at the first place that is not a whole frame, and   *)
(* not before (MediaSourceHandler.cpp:181-198).                              *)
FramesAreContents ==
  /\ \A i \in 1 .. Len(frames) : \E h \in file.headers :
       /\ Whole(h) /\ h.at = EndOf(i - 1)
       /\ frames[i] = [from |-> h.at + HeaderSize, to |-> h.at + h.length]
  /\ ended => \A h \in file.headers : Whole(h) => h.at # EndOf(Len(frames))
=============================================================================
