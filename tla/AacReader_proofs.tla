-------------------------- MODULE AacReader_proofs --------------------------
(* Proofs about AacReader, for any files whose headers are those of ADTS.    *)
EXTENDS AacReader, TLAPS

FrameRange == [from : Nat, to : Nat]

TypeInv ==
  /\ file \in Files
  /\ pos \in Nat
  /\ ended \in BOOLEAN
  /\ frames \in Seq(FrameRange)

(* Between two frames the position is the end of the last one.               *)
IInv == TypeInv /\ pos = EndOf(Len(frames)) /\ FramesAreContents

-----------------------------------------------------------------------------
(* A length is its two top bits, the next eight and the last three.          *)
LEMMA LengthInParts ==
  ASSUME NEW l \in Lengths
  PROVE  /\ l \div 2048 \in 0 .. 3 /\ (l \div 8) % 256 \in 0 .. 255 /\ l % 8 \in 0 .. 7
         /\ (l \div 2048) * 2048 + ((l \div 8) % 256) * 8 + (l % 8) = l
BY DEF Lengths

(* The bits that share a byte with them are cut out again.                   *)
LEMMA NeighboursAreCut ==
  ASSUME NEW o \in Others, NEW top \in 0 .. 3, NEW low \in 0 .. 7
  PROVE  (o * 4 + top) % 4 = top /\ (low * 32 + o) \div 32 = low
BY DEF Others

(* The length that the track puts together from three bytes is the one the   *)
(* header was written with, less the header: masking and shifting lose no    *)
(* bit of it and let none of the neighbours in (MediaSourceHandler.cpp:185). *)
LEMMA FrameSizeInverse ==
  ASSUME NEW h \in [at : Nat, length : Lengths, other : Others]
  PROVE  FrameSize(h) = h.length - HeaderSize
<1>1. h.length \in Lengths /\ h.other \in Others
  OBVIOUS
<1> DEFINE l   == h.length
           top == l \div 2048
           mid == (l \div 8) % 256
           low == l % 8
           o   == h.other
           msb == Byte3(h) % 4
           lsb == Byte5(h) \div 32
<1>2. /\ top \in 0 .. 3 /\ mid \in 0 .. 255 /\ low \in 0 .. 7
      /\ top * 2048 + mid * 8 + low = l
  BY <1>1, LengthInParts
<1>3. Byte3(h) = o * 4 + top /\ Byte4(h) = mid /\ Byte5(h) = low * 32 + o
  BY DEF Byte3, Byte4, Byte5
<1>4. FrameSize(h) = msb * 2048 + mid * 8 + lsb - HeaderSize
  BY <1>3 DEF FrameSize
<1>5. o \in Others
  BY <1>1
<1> HIDE DEF l, top, mid, low, o
<1>6. (o * 4 + top) % 4 = top /\ (low * 32 + o) \div 32 = low
  BY <1>2, <1>5, NeighboursAreCut
<1>7. msb = top /\ lsb = low
  BY <1>3, <1>6
<1> HIDE DEF msb, lsb
<1>8. FrameSize(h) = l - HeaderSize
  BY <1>2, <1>4, <1>7 DEF HeaderSize
<1> QED
  BY <1>8 DEF l

(* Sums of a place in the file and a length stay places in the file.         *)
LEMMA Sums ==
  ASSUME NEW a \in Nat, NEW l \in Lengths
  PROVE  /\ l \in Nat /\ a + HeaderSize \in Nat /\ a + l \in Nat
         /\ a + HeaderSize + (l - HeaderSize) = a + l
BY DEF HeaderSize, Lengths

(* The frame at the position is returned exactly if it is whole.             *)
LEMMA HeaderFacts ==
  ASSUME FilesAreAdts, TypeInv, NEW h \in file.headers
  PROVE  /\ h \in [at : Nat, length : Lengths, other : Others]
         /\ file.size \in Nat
         /\ HeaderRead(h) /\ PayloadRead(h) /\ FrameSize(h) > 0
              <=> h.at = pos /\ Whole(h)
<1>1. h \in [at : Nat, length : Lengths, other : Others] /\ file.size \in Nat
  BY DEF FilesAreAdts, TypeInv
<1>2. FrameSize(h) = h.length - HeaderSize
  BY <1>1, FrameSizeInverse
<1>3. h.at \in Nat /\ h.length \in Nat /\ pos \in Nat
  <2>1. h.at \in Nat /\ h.length \in Lengths
    BY <1>1
  <2>2. pos \in Nat
    BY DEF TypeInv
  <2> QED
    BY <2>1, <2>2, Sums
<1>4. PayloadRead(h) <=> h.length >= 7 /\ pos + h.length <= file.size
  BY <1>1, <1>2, <1>3 DEF PayloadRead, Left, HeaderSize
<1>5. HeaderRead(h) <=> h.at = pos /\ pos + 7 <= file.size
  BY <1>1, <1>3 DEF HeaderRead, Left, HeaderSize
<1>6. Whole(h) <=> 7 < h.length /\ h.at + h.length <= file.size
  BY DEF Whole, HeaderSize
<1>7. FrameSize(h) > 0 <=> 7 < h.length
  BY <1>2, <1>3 DEF HeaderSize
<1> QED
  BY <1>1, <1>3, <1>4, <1>5, <1>6, <1>7

LEMMA InitOK == Init => IInv
<1> SUFFICES ASSUME Init PROVE IInv
  OBVIOUS
<1>1. Len(frames) = 0 /\ frames \in Seq(FrameRange)
  BY DEF Init
<1>2. TypeInv
  BY <1>1 DEF Init, TypeInv
<1>3. pos = EndOf(Len(frames))
  BY <1>1 DEF Init, EndOf
<1>4. FramesAreContents
  BY <1>1 DEF Init, FramesAreContents
<1> QED
  BY <1>2, <1>3, <1>4 DEF IInv

LEMMA FrameStep ==
  ASSUME FilesAreAdts, IInv, ReturnFrame
  PROVE  IInv'
<1>1. PICK h \in file.headers :
        /\ HeaderRead(h) /\ PayloadRead(h) /\ FrameSize(h) > 0
        /\ frames' = Append(frames, [from |-> pos + HeaderSize,
                                     to   |-> pos + HeaderSize + FrameSize(h)])
        /\ pos' = pos + HeaderSize + FrameSize(h)
  BY DEF ReturnFrame
<1>2. /\ h \in [at : Nat, length : Lengths, other : Others]
      /\ h.at = pos /\ Whole(h)
      /\ FrameSize(h) = h.length - HeaderSize
  <2>1. TypeInv
    BY DEF IInv
  <2>2. h \in [at : Nat, length : Lengths, other : Others] /\ h.at = pos /\ Whole(h)
    BY <1>1, <2>1, HeaderFacts
  <2> QED
    BY <2>2, FrameSizeInverse
<1> DEFINE f == [from |-> h.at + HeaderSize, to |-> h.at + h.length]
           n == Len(frames)
<1>3. pos \in Nat /\ frames \in Seq(FrameRange) /\ n \in Nat
  BY DEF IInv, TypeInv
<1>4. f \in FrameRange /\ f.to = h.at + h.length
  <2>1. h.at \in Nat /\ h.length \in Lengths
    BY <1>2
  <2>2. h.at + HeaderSize \in Nat /\ h.at + h.length \in Nat
    BY <2>1, Sums
  <2> QED
    BY <2>2 DEF FrameRange
<1>5. frames' = Append(frames, f) /\ pos' = f.to
  <2>1. h.at \in Nat /\ h.length \in Lengths
    BY <1>2
  <2>2. pos + HeaderSize + FrameSize(h) = h.at + h.length
    BY <1>2, <2>1, Sums
  <2> QED
    BY <1>1, <1>2, <2>2
<1>6. /\ frames' \in Seq(FrameRange) /\ Len(frames') = n + 1
      /\ frames'[n + 1] = f
      /\ \A i \in 1 .. n : frames'[i] = frames[i]
  BY <1>3, <1>4, <1>5
<1>7. file' = file /\ ended' = ended /\ ended = FALSE
  BY DEF ReturnFrame, IInv, TypeInv
<1>8. TypeInv'
  BY <1>2, <1>4, <1>5, <1>6, <1>7 DEF IInv, TypeInv, FrameRange
<1>9. (pos = EndOf(Len(frames)))'
  BY <1>3, <1>5, <1>6 DEF EndOf
<1>10. \A i \in 0 .. n : EndOf(i)' = EndOf(i)
  BY <1>3, <1>6 DEF EndOf
<1>11. FramesAreContents'
  <2>1. ASSUME NEW i \in 1 .. n + 1
        PROVE  \E g \in file.headers :
                 /\ Whole(g) /\ g.at = EndOf(i - 1)
                 /\ frames'[i] = [from |-> g.at + HeaderSize, to |-> g.at + g.length]
    <3>1. CASE i = n + 1
      <4>1. h.at = EndOf(i - 1)
        BY <1>2, <1>3, <3>1 DEF IInv
      <4> QED
        BY <1>2, <1>6, <3>1, <4>1
    <3>2. CASE i \in 1 .. n
      BY <1>6, <3>2 DEF IInv, FramesAreContents
    <3> QED
      BY <1>3, <3>1, <3>2
  <2>2. \A g : Whole(g)' <=> Whole(g)
    BY <1>7 DEF Whole
  <2>3. \A i \in 1 .. n + 1 : EndOf(i - 1)' = EndOf(i - 1)
    BY <1>3, <1>10
  <2> QED
    BY <1>6, <1>7, <2>1, <2>2, <2>3 DEF FramesAreContents
<1> QED
  BY <1>8, <1>9, <1>11 DEF IInv

LEMMA EndStep ==
  ASSUME FilesAreAdts, IInv, EndStream
  PROVE  IInv'
<1>1. /\ file' = file /\ pos' = pos /\ frames' = frames /\ ended' = TRUE
      /\ \A h \in file.headers : ~(HeaderRead(h) /\ PayloadRead(h) /\ FrameSize(h) > 0)
  BY DEF EndStream
<1>2. \A h \in file.headers : Whole(h) => h.at # EndOf(Len(frames))
  BY <1>1, HeaderFacts DEF IInv
<1>3. TypeInv' /\ (pos = EndOf(Len(frames)))'
  BY <1>1 DEF IInv, TypeInv, EndOf
<1>4. FramesAreContents'
  BY <1>1, <1>2 DEF IInv, FramesAreContents, EndOf, Whole
<1> QED
  BY <1>3, <1>4 DEF IInv

(* An AAC track returns the contents of the frames of its file, in order and *)
(* without a gap, and ends at the first place that is not a whole frame      *)
(* (MediaSourceHandler.cpp:181-198).                                         *)
THEOREM AudioIsTheFile ==
  ASSUME FilesAreAdts
  PROVE  Spec => []FramesAreContents
<1>1. IInv /\ [Next]_vars => IInv'
  <2> SUFFICES ASSUME IInv, [Next]_vars PROVE IInv'
    OBVIOUS
  <2>1. CASE ReturnFrame
    BY <2>1, FrameStep
  <2>2. CASE EndStream
    BY <2>2, EndStep
  <2>3. CASE UNCHANGED vars
    BY <2>3 DEF vars, IInv, TypeInv, EndOf, FramesAreContents, Whole
  <2> QED
    BY <2>1, <2>2, <2>3 DEF Next
<1>2. IInv => FramesAreContents
  BY DEF IInv
<1> QED
  BY InitOK, <1>1, <1>2, PTL DEF Spec
=============================================================================
