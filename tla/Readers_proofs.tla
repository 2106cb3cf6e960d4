--------------------------- MODULE Readers_proofs ---------------------------
(***************************************************************************)
(* Proofs about H264Reader for any file and any size of block: frames are  *)
(* the units of the file in order, and what is lost was in the last block. *)
(* And about Readers: whichever type a track has, what is proved here and  *)
(* in AacReader_proofs of the reader of its type holds of the track.       *)
(***************************************************************************)
EXTENDS Readers, SequenceTheorems, TLAPS

AacFacts == INSTANCE AacReader_proofs WITH
  Files <- AacFiles, file <- aac_file, pos <- aac_pos, ended <- aac_ended,
  frames <- aac_frames

FileInv == file \in Files

(* Before a read, the position is where the last frame ended, on a start     *)
(* code, or the last unit has been skipped and nothing is left.              *)
PosInv ==
  UnitsFit /\ ~eof =>
    \/ pos = Returned /\ \E b \in file.codes : b.at = pos
    \/ pos = file.size /\ file.size - Returned <= BlockSize

IInv == FileInv /\ TypeOK /\ FramesAreUnits /\ OnlyTheLastBlockIsLost /\ PosInv

-----------------------------------------------------------------------------
(* What the assumption on files says of the file. *)

LEMMA FileFacts ==
  ASSUME FileInv
  PROVE  /\ file.size \in Nat
         /\ \A c \in file.codes : c.at \in Nat /\ c.len \in {3, 4} /\ c.at + c.len < file.size
         /\ \A b, c \in file.codes : b.at < c.at => b.at + b.len < c.at
<1>1. /\ file.size \in Nat
      /\ file.codes \subseteq [at : Nat, len : {3, 4}]
      /\ \A c \in file.codes : c.at + c.len < file.size
      /\ \A b, c \in file.codes : b = c \/ b.at + b.len < c.at \/ c.at + c.len < b.at
  BY FilesAssumption DEF FileInv
<1>2. \A c \in file.codes : c.at \in Nat /\ c.len \in {3, 4}
  BY <1>1
<1>3. ASSUME NEW b \in file.codes, NEW c \in file.codes, b.at < c.at
      PROVE  b.at + b.len < c.at
  <2>1. b.at \in Nat /\ c.at \in Nat /\ b.len \in Nat /\ c.len \in Nat
    BY <1>2
  <2>2. b # c
    BY <1>3, <2>1
  <2>3. ~(c.at + c.len < b.at)
    BY <1>3, <2>1
  <2> QED
    BY <1>1, <2>2, <2>3
<1> QED
  BY <1>1, <1>2, <1>3

LEMMA ReadBytesFacts ==
  ASSUME FileInv, TypeOK
  PROVE  /\ ReadBytes \in Nat /\ ReadBytes <= BlockSize /\ pos + ReadBytes <= file.size
         /\ pos \in Nat
         /\ file.size - pos <= BlockSize => pos + ReadBytes = file.size
         /\ file.size - pos > BlockSize => ReadBytes = BlockSize
         /\ ReadsToTheEnd => pos + ReadBytes = file.size
<1> DEFINE size == file.size
<1>1. size \in Nat /\ pos \in 0 .. size /\ BlockSize \in Nat
  BY FileFacts, BlockAssumption DEF TypeOK
<1>2. ReadBytes = IF size - pos < BlockSize THEN size - pos ELSE BlockSize
  BY DEF ReadBytes
<1>3. ReadsToTheEnd <=> ReadBytes < BlockSize
  BY DEF ReadsToTheEnd
<1> HIDE DEF size
<1>4. /\ ReadBytes \in Nat /\ ReadBytes <= BlockSize /\ pos + ReadBytes <= size
      /\ pos \in Nat
      /\ size - pos <= BlockSize => pos + ReadBytes = size
      /\ size - pos > BlockSize => ReadBytes = BlockSize
      /\ ReadsToTheEnd => pos + ReadBytes = size
  BY <1>1, <1>2, <1>3
<1> QED
  BY <1>4 DEF size

(* A start code behind the one the block begins with is seen if it is in the *)
(* block as a whole.                                                         *)
LEMMA SeesStartCode ==
  ASSUME FileInv, TypeOK,
         NEW b \in file.codes, b.at = pos,
         NEW c \in file.codes, b.at < c.at, c.at + c.len <= pos + ReadBytes
  PROVE  c.at - pos \in StartCodesInBlock
<1>1. c.at \in Nat /\ b.at \in Nat /\ c.len \in {3, 4} /\ b.len \in {3, 4}
      /\ b.at + b.len < c.at /\ ReadBytes \in Nat
  BY FileFacts, ReadBytesFacts
<1> DEFINE i == c.at - pos
<1>2. i \in 3 .. ReadBytes - 1 /\ c.at = pos + i /\ i + c.len <= ReadBytes
  BY <1>1
<1> QED
  BY <1>2 DEF StartCodesInBlock

(* The first offset that is seen is the next start code.                     *)
LEMMA FirstIsNext ==
  ASSUME FileInv, TypeOK,
         NEW b \in file.codes, b.at = pos,
         NEW i \in StartCodesInBlock, \A j \in StartCodesInBlock : i <= j
  PROVE  \E c \in file.codes : NextCode(b, c) /\ c.at = pos + i
<1>1. i \in Nat /\ i >= 3 /\ i < ReadBytes /\ ReadBytes \in Nat /\ pos \in Nat
  BY ReadBytesFacts DEF StartCodesInBlock
<1>2. PICK c \in file.codes : \/ c.at = pos + i /\ i + c.len <= ReadBytes
                              \/ c.len = 4 /\ c.at + 1 = pos + i /\ i + 3 <= ReadBytes
  BY DEF StartCodesInBlock
<1>3. c.at \in Nat /\ c.len \in {3, 4} /\ b.at < c.at /\ c.at + c.len <= pos + ReadBytes
  BY <1>1, <1>2, FileFacts
<1>4. c.at - pos \in StartCodesInBlock
  BY <1>3, SeesStartCode
<1>5. c.at = pos + i
  BY <1>1, <1>2, <1>3, <1>4
<1>6. ASSUME NEW d \in file.codes, b.at < d.at, d.at < c.at
      PROVE  FALSE
  <2>1. d.at \in Nat /\ d.len \in {3, 4} /\ d.at + d.len < c.at
    BY <1>6, FileFacts
  <2>2. d.at - pos \in StartCodesInBlock
    BY <1>1, <1>3, <1>6, <2>1, SeesStartCode
  <2> QED
    BY <1>1, <1>5, <1>6, <2>1, <2>2
<1>7. \A d \in file.codes : d.at <= b.at \/ c.at <= d.at
  BY <1>3, <1>6, FileFacts
<1> QED
  BY <1>3, <1>5, <1>7 DEF NextCode

-----------------------------------------------------------------------------
(* Steps. *)

(* A larger position only widens the type of the frames.                     *)
LEMMA FramesWiden ==
  ASSUME NEW p \in Nat, NEW q \in Nat, p <= q,
         NEW s \in Seq([from : 0 .. p, to : 0 .. p])
  PROVE  s \in Seq([from : 0 .. q, to : 0 .. q])
<1>1. 0 .. p \subseteq 0 .. q
  OBVIOUS
<1>2. [from : 0 .. p, to : 0 .. p] \subseteq [from : 0 .. q, to : 0 .. q]
  BY <1>1
<1> QED
  BY <1>2, SeqMonotonic

(* What a step of the reader does when it returns the frame that ends at     *)
(* offset i of the block.                                                    *)
LEMMA ReturnedFrame ==
  ASSUME FileInv, TypeOK, ReturnFrame
  PROVE  \E i \in StartCodesInBlock :
           /\ \A j \in StartCodesInBlock : i <= j
           /\ frames' = Append(frames, [from |-> pos, to |-> pos + i])
           /\ i \in Nat /\ i < ReadBytes
           /\ pos' \in Nat /\ pos + i <= pos' /\ pos' <= file.size
           /\ pos' = IF ReadsToTheEnd THEN file.size ELSE pos + i
<1>1. PICK i \in StartCodesInBlock :
        /\ \A j \in StartCodesInBlock : i <= j
        /\ frames' = Append(frames, [from |-> pos, to |-> pos + i])
        /\ pos' = IF ReadsToTheEnd THEN pos + ReadBytes ELSE pos + i
  BY DEF ReturnFrame
<1>2. i \in 3 .. ReadBytes - 1
  BY DEF StartCodesInBlock
<1>3. ReadBytes \in Nat /\ pos \in Nat /\ pos + ReadBytes <= file.size
      /\ (ReadsToTheEnd => pos + ReadBytes = file.size) /\ file.size \in Nat
  BY ReadBytesFacts, FileFacts
<1>4. i \in Nat /\ i < ReadBytes
  BY <1>2, <1>3
<1>5. pos' = IF ReadsToTheEnd THEN file.size ELSE pos + i
  BY <1>1, <1>3
<1>6. pos' \in Nat /\ pos + i <= pos' /\ pos' <= file.size
  BY <1>3, <1>4, <1>5
<1> QED
  BY <1>1, <1>4, <1>5, <1>6

LEMMA TypeStep ==
  ASSUME FileInv, TypeOK, [Next]_vars
  PROVE  FileInv' /\ TypeOK'
<1>1. CASE ReturnFrame
  <2>1. PICK i \in StartCodesInBlock :
          /\ frames' = Append(frames, [from |-> pos, to |-> pos + i])
          /\ i \in Nat
          /\ pos' \in Nat /\ pos + i <= pos' /\ pos' <= file.size
    BY <1>1, ReturnedFrame
  <2>2. file' = file /\ eof' = ReadsToTheEnd
    BY <1>1 DEF ReturnFrame
  <2>3. pos \in Nat /\ pos <= pos' /\ file.size \in Nat
    BY <2>1, ReadBytesFacts, FileFacts
  <2> DEFINE S == [from : 0 .. pos', to : 0 .. pos']
             f == [from |-> pos, to |-> pos + i]
  <2>4. frames \in Seq(S)
    BY <2>1, <2>3, FramesWiden DEF TypeOK
  <2>5. pos \in 0 .. pos' /\ pos + i \in 0 .. pos'
    BY <2>1, <2>3
  <2>6. f \in S
    BY <2>5
  <2>7. frames' \in Seq(S)
    <3> HIDE DEF S, f
    <3>1. Append(frames, f) \in Seq(S)
      BY <2>4, <2>6
    <3> QED
      BY <3>1, <2>1 DEF f
  <2>8. pos' \in 0 .. file'.size
    BY <2>1, <2>2, <2>3
  <2>9. eof' \in BOOLEAN
    BY <2>2 DEF ReadsToTheEnd
  <2> QED
    BY <2>2, <2>7, <2>8, <2>9 DEF TypeOK, FileInv
<1>2. CASE SkipBlock
  <2>1. pos' = pos + ReadBytes /\ eof' = ReadsToTheEnd /\ file' = file /\ frames' = frames
    BY <1>2 DEF SkipBlock
  <2>2. pos \in Nat /\ pos' \in Nat /\ pos <= pos' /\ pos' <= file.size /\ file.size \in Nat
    BY <2>1, ReadBytesFacts, FileFacts
  <2>3. frames' \in Seq([from : 0 .. pos', to : 0 .. pos'])
    BY <2>1, <2>2, FramesWiden DEF TypeOK
  <2>4. pos' \in 0 .. file'.size
    BY <2>1, <2>2
  <2>5. eof' \in BOOLEAN
    BY <2>1 DEF ReadsToTheEnd
  <2> QED
    BY <2>1, <2>3, <2>4, <2>5 DEF TypeOK, FileInv
<1>3. CASE UNCHANGED vars
  BY <1>3 DEF vars, TypeOK, FileInv
<1> QED
  BY <1>1, <1>2, <1>3 DEF Next

(* If the position is on a start code and units fit in a block, a block      *)
(* without a start code is the rest of the file.                             *)
LEMMA NothingSeen ==
  ASSUME FileInv, TypeOK, UnitsFit, StartCodesInBlock = {},
         NEW b \in file.codes, b.at = pos
  PROVE  file.size - pos <= BlockSize
<1> SUFFICES ASSUME file.size - pos > BlockSize
             PROVE  FALSE
  BY ReadBytesFacts, FileFacts, BlockAssumption
<1>1. ReadBytes = BlockSize /\ BlockSize \in Nat /\ pos \in Nat /\ file.size \in Nat
  BY ReadBytesFacts, FileFacts, BlockAssumption
<1>2. PICK c \in file.codes : b.at < c.at /\ c.at + c.len - b.at <= BlockSize
  BY <1>1 DEF UnitsFit
<1>3. c.at \in Nat /\ c.len \in {3, 4}
  BY FileFacts
<1>4. c.at + c.len <= pos + ReadBytes
  BY <1>1, <1>2, <1>3
<1> QED
  BY <1>2, <1>4, SeesStartCode

(* The position of a read that sees a start code is itself on one.           *)
LEMMA OnStartCode ==
  ASSUME FileInv, TypeOK, PosInv, UnitsFit, ~eof, StartCodesInBlock # {}
  PROVE  pos = Returned /\ \E b \in file.codes : b.at = pos
<1>1. PICK i \in StartCodesInBlock : TRUE
  OBVIOUS
<1>2. i \in 3 .. ReadBytes - 1
  BY DEF StartCodesInBlock
<1>3. pos # file.size
  BY <1>2, ReadBytesFacts, FileFacts
<1> QED
  BY <1>3 DEF PosInv

(* UnitsFit is about the file alone.                                         *)
LEMMA UnitsFitStays ==
  ASSUME file' = file
  PROVE  /\ UnitsFit' <=> UnitsFit
         /\ \A b, c : NextCode(b, c)' <=> NextCode(b, c)
BY DEF UnitsFit, NextCode

(* ReturnFrame appends the next unit of the file.                            *)
LEMMA ReturnStep ==
  ASSUME IInv, ReturnFrame
  PROVE  FramesAreUnits' /\ OnlyTheLastBlockIsLost' /\ PosInv'
<1> USE DEF IInv
<1>1. PICK i \in StartCodesInBlock :
        /\ \A j \in StartCodesInBlock : i <= j
        /\ frames' = Append(frames, [from |-> pos, to |-> pos + i])
        /\ i \in Nat /\ i < ReadBytes
        /\ pos' \in Nat /\ pos + i <= pos' /\ pos' <= file.size
        /\ pos' = IF ReadsToTheEnd THEN file.size ELSE pos + i
  BY ReturnedFrame
<1>2. file' = file /\ eof' = ReadsToTheEnd /\ ~eof
  BY DEF ReturnFrame
<1> SUFFICES ASSUME UnitsFit
             PROVE  FramesAreUnits' /\ OnlyTheLastBlockIsLost' /\ PosInv'
  BY <1>2, UnitsFitStays DEF FramesAreUnits, OnlyTheLastBlockIsLost, PosInv
<1>3. pos = Returned /\ \E b \in file.codes : b.at = pos
  BY <1>1, <1>2, OnStartCode
<1>4. PICK b \in file.codes : b.at = pos
  BY <1>3
<1>5. PICK c \in file.codes : NextCode(b, c) /\ c.at = pos + i
  BY <1>1, <1>4, FirstIsNext
<1> DEFINE f == [from |-> pos, to |-> pos + i]
           n == Len(frames)
<1>6. /\ n \in Nat /\ Len(frames') = n + 1 /\ frames'[n + 1] = f
      /\ \A k \in 1 .. n : frames'[k] = frames[k]
  <2>1. frames \in Seq([from : 0 .. pos, to : 0 .. pos])
    BY DEF TypeOK
  <2> QED
    BY <2>1, <1>1
<1>7. Returned' = pos + i
  <2>1. frames' # <<>>
    BY <1>6
  <2>2. frames'[Len(frames')].to = pos + i
    BY <1>6
  <2> QED
    BY <2>1, <2>2 DEF Returned
<1>8. FramesAreUnits'
  <2> SUFFICES ASSUME NEW k \in 1 .. n + 1
               PROVE  /\ frames'[k].from = IF k = 1 THEN 0 ELSE frames'[k - 1].to
                      /\ \E d, e \in file.codes :
                           NextCode(d, e) /\ frames'[k].from = d.at /\ frames'[k].to = e.at
    BY <1>2, <1>6 DEF FramesAreUnits, NextCode
  <2>1. CASE k = n + 1
    <3>1. frames'[k].from = pos /\ frames'[k].to = pos + i
      BY <1>6, <2>1
    <3>2. CASE n = 0
      <4>1. frames = <<>>
        BY <3>2, EmptySeq DEF TypeOK
      <4> QED
        BY <1>3, <1>4, <1>5, <2>1, <3>1, <3>2, <4>1 DEF Returned
    <3>3. CASE n # 0
      <4>1. frames # <<>> /\ k # 1 /\ k - 1 = n /\ n \in 1 .. n
        BY <1>6, <2>1, <3>3
      <4>2. frames'[k - 1].to = pos
        BY <1>3, <1>6, <4>1 DEF Returned
      <4> QED
        BY <1>4, <1>5, <3>1, <4>1, <4>2
    <3> QED
      BY <3>2, <3>3
  <2>2. CASE k \in 1 .. n
    <3>1. /\ frames[k].from = IF k = 1 THEN 0 ELSE frames[k - 1].to
          /\ \E d, e \in file.codes :
               NextCode(d, e) /\ frames[k].from = d.at /\ frames[k].to = e.at
      BY <2>2 DEF FramesAreUnits
    <3>2. frames'[k] = frames[k] /\ (k # 1 => frames'[k - 1] = frames[k - 1])
      BY <1>6, <2>2
    <3> QED
      BY <3>1, <3>2
  <2> QED
    BY <1>6, <2>1, <2>2
<1>9. OnlyTheLastBlockIsLost'
  <2>1. SUFFICES ASSUME ReadsToTheEnd
                 PROVE  file.size - (pos + i) <= BlockSize
    BY <1>2, <1>7 DEF OnlyTheLastBlockIsLost
  <2>2. pos + ReadBytes = file.size /\ ReadBytes <= BlockSize
        /\ pos \in Nat /\ ReadBytes \in Nat /\ BlockSize \in Nat
    BY <2>1, ReadBytesFacts, BlockAssumption
  <2> QED
    BY <1>1, <2>2
<1>10. PosInv'
  BY <1>1, <1>2, <1>5, <1>7 DEF PosInv
<1> QED
  BY <1>8, <1>9, <1>10

(* SkipBlock finds no start code only in the last block.                     *)
LEMMA SkipStep ==
  ASSUME IInv, SkipBlock
  PROVE  FramesAreUnits' /\ OnlyTheLastBlockIsLost' /\ PosInv'
<1> USE DEF IInv
<1>1. /\ pos' = pos + ReadBytes /\ eof' = ReadsToTheEnd /\ file' = file
      /\ frames' = frames /\ ~eof /\ StartCodesInBlock = {}
  BY DEF SkipBlock
<1>2. Returned' = Returned
  BY <1>1 DEF Returned
<1>3. FramesAreUnits'
  BY <1>1 DEF FramesAreUnits, UnitsFit, NextCode
<1> SUFFICES ASSUME UnitsFit
             PROVE  OnlyTheLastBlockIsLost' /\ PosInv'
  BY <1>1, <1>3, UnitsFitStays DEF OnlyTheLastBlockIsLost, PosInv
<1>4. pos' = file.size /\ file.size - Returned <= BlockSize
  <2>1. CASE pos = Returned /\ \E b \in file.codes : b.at = pos
    BY <1>1, <2>1, NothingSeen, ReadBytesFacts
  <2>2. CASE pos = file.size /\ file.size - Returned <= BlockSize
    <3>1. file.size - pos <= BlockSize
      BY <2>2, FileFacts, BlockAssumption
    <3> QED
      BY <1>1, <2>2, <3>1, ReadBytesFacts
  <2> QED
    BY <1>1, <2>1, <2>2 DEF PosInv
<1> QED
  BY <1>1, <1>2, <1>4 DEF OnlyTheLastBlockIsLost, PosInv

LEMMA Initially == Init => IInv
<1> SUFFICES ASSUME Init
             PROVE  IInv
  OBVIOUS
<1>1. file \in Files /\ pos = 0 /\ eof = FALSE /\ frames = <<>>
  BY DEF Init
<1>2. FileInv
  BY <1>1 DEF FileInv
<1>3. \E b \in file.codes : b.at = 0
  BY <1>1, FilesAssumption
<1>4. file.size \in Nat
  BY <1>2, FileFacts
<1>5. Returned = 0 /\ Len(frames) = 0
  BY <1>1 DEF Returned
<1>6. frames \in Seq([from : 0 .. pos, to : 0 .. pos])
  BY <1>1
<1>7. TypeOK
  <2>1. pos \in 0 .. file.size
    BY <1>1, <1>4
  <2>2. eof \in BOOLEAN
    BY <1>1
  <2> QED
    BY <1>6, <2>1, <2>2 DEF TypeOK
<1>8. FramesAreUnits /\ OnlyTheLastBlockIsLost /\ PosInv
  BY <1>1, <1>3, <1>5 DEF FramesAreUnits, OnlyTheLastBlockIsLost, PosInv
<1> QED
  BY <1>2, <1>7, <1>8 DEF IInv

LEMMA IInvStep == IInv /\ [Next]_vars => IInv'
<1> SUFFICES ASSUME IInv, [Next]_vars
             PROVE  IInv'
  OBVIOUS
<1>1. FileInv' /\ TypeOK'
  BY TypeStep DEF IInv
<1>2. FramesAreUnits' /\ OnlyTheLastBlockIsLost' /\ PosInv'
  <2>1. CASE ReturnFrame
    BY <2>1, ReturnStep
  <2>2. CASE SkipBlock
    BY <2>2, SkipStep
  <2>3. CASE UNCHANGED vars
    BY <2>3 DEF vars, IInv, FramesAreUnits, OnlyTheLastBlockIsLost, PosInv,
                UnitsFit, NextCode, Returned
  <2> QED
    BY <2>1, <2>2, <2>3 DEF Next
<1> QED
  BY <1>1, <1>2 DEF IInv

LEMMA Invariance == Spec => []IInv
BY Initially, IInvStep, PTL DEF Spec

(* The reader stays in its file: read_next_frame() never reads or seeks past *)
(* what the file has.                                                        *)
THEOREM TypeCorrect == Spec => []TypeOK
<1>1. IInv => TypeOK
  BY DEF IInv
<1> QED
  BY Invariance, <1>1, PTL

(* For every file whose units fit in a block, what read_next_frame() returns *)
(* are its units in order, none cut or skipped.                              *)
THEOREM FramesAreTheUnits == Spec => []FramesAreUnits
<1>1. IInv => FramesAreUnits
  BY DEF IInv
<1> QED
  BY Invariance, <1>1, PTL

(* What the early eof() of read_next_frame() loses is never more than one    *)
(* block at the end of the file.                                             *)
THEOREM LossIsBounded == Spec => []OnlyTheLastBlockIsLost
<1>1. IInv => OnlyTheLastBlockIsLost
  BY DEF IInv
<1> QED
  BY Invariance, <1>1, PTL

-----------------------------------------------------------------------------
(* A track keeps its type. *)

allVars == <<track, vars, aacVars>>

VideoTrack == track = "video" /\ NoAudio

AudioTrack == track = "audio" /\ NoVideo

(* A video track is read by the H.264 reader, an audio track by the AAC      *)
(* reader, and by nothing else.                                              *)
LEMMA VideoTrackIsVideo ==
  track = "video" /\ Init /\ NoAudio /\ [][NextReaders]_allVars => Spec /\ []VideoTrack
<1>1. VideoTrack /\ [NextReaders]_allVars => VideoTrack'
  BY DEF VideoTrack, NoAudio, NextReaders, ReadVideo, ReadAudio, allVars, aacVars
<1>2. VideoTrack /\ [NextReaders]_allVars => [Next]_vars
  BY DEF VideoTrack, NextReaders, ReadVideo, ReadAudio, allVars
<1>3. track = "video" /\ NoAudio => VideoTrack
  BY DEF VideoTrack
<1> QED
  BY <1>1, <1>2, <1>3, PTL DEF Spec

LEMMA AudioTrackIsAudio ==
  track = "audio" /\ NoVideo /\ Aac!Init /\ [][NextReaders]_allVars => Aac!Spec /\ []AudioTrack
<1>1. AudioTrack /\ [NextReaders]_allVars => AudioTrack'
  BY DEF AudioTrack, NoVideo, NextReaders, ReadVideo, ReadAudio, allVars, vars
<1>2. AudioTrack /\ [NextReaders]_allVars => [Aac!Next]_(Aac!vars)
  BY DEF AudioTrack, NextReaders, ReadVideo, ReadAudio, allVars, aacVars, Aac!vars
<1>3. track = "audio" /\ NoVideo => AudioTrack
  BY DEF AudioTrack
<1> QED
  BY <1>1, <1>2, <1>3, PTL DEF Aac!Spec

(* A reader that was never called has returned nothing.                      *)
LEMMA UnusedReaders ==
  /\ VideoTrack => AudioFramesAreContents
  /\ AudioTrack => FramesAreUnits /\ OnlyTheLastBlockIsLost
<1>1. ASSUME VideoTrack PROVE AudioFramesAreContents
  BY <1>1 DEF VideoTrack, NoAudio, AudioFramesAreContents, Aac!FramesAreContents
<1>2. ASSUME AudioTrack PROVE FramesAreUnits /\ OnlyTheLastBlockIsLost
  <2>1. Len(frames) = 0 /\ frames = <<>> /\ file.size = 0
    BY <1>2 DEF AudioTrack, NoVideo
  <2>2. Returned = 0
    BY <2>1 DEF Returned
  <2> QED
    BY <2>1, <2>2, BlockAssumption DEF FramesAreUnits, OnlyTheLastBlockIsLost
<1> QED
  BY <1>1, <1>2

(* AacReader_proofs, of an audio track. *)

LEMMA AacTracksAreRead == Aac!Spec => []AudioFramesAreContents
<1>1. AacFacts!FilesAreAdts
  <2>1. Aac!Lengths = AacFacts!Lengths /\ Aac!Others = AacFacts!Others
    BY DEF Aac!Lengths, AacFacts!Lengths, Aac!Others, AacFacts!Others
  <2> QED
    BY Zenon, AacFilesAssumption, <2>1 DEF Aac!FilesAreAdts, AacFacts!FilesAreAdts
<1>2. AacFacts!Spec => []AacFacts!FramesAreContents
  BY <1>1, AacFacts!AudioIsTheFile
<1>3. Aac!Init => AacFacts!Init
  BY DEF Aac!Init, AacFacts!Init
<1>4. [Aac!Next]_(Aac!vars) => [AacFacts!Next]_(AacFacts!vars)
  <2>1. Aac!HeaderSize = AacFacts!HeaderSize /\ Aac!Left = AacFacts!Left
    BY DEF Aac!HeaderSize, AacFacts!HeaderSize, Aac!Left, AacFacts!Left
  <2>2. \A h : Aac!FrameSize(h) = AacFacts!FrameSize(h)
    BY <2>1 DEF Aac!FrameSize, AacFacts!FrameSize, Aac!Byte3, AacFacts!Byte3,
                Aac!Byte4, AacFacts!Byte4, Aac!Byte5, AacFacts!Byte5
  <2>3. \A h : /\ Aac!HeaderRead(h) <=> AacFacts!HeaderRead(h)
               /\ Aac!PayloadRead(h) <=> AacFacts!PayloadRead(h)
    BY <2>1, <2>2 DEF Aac!HeaderRead, AacFacts!HeaderRead,
                      Aac!PayloadRead, AacFacts!PayloadRead
  <2>4. Aac!ReturnFrame <=> AacFacts!ReturnFrame
    BY <2>1, <2>2, <2>3 DEF Aac!ReturnFrame, AacFacts!ReturnFrame
  <2>5. Aac!EndStream <=> AacFacts!EndStream
    BY <2>2, <2>3 DEF Aac!EndStream, AacFacts!EndStream
  <2> QED
    BY <2>4, <2>5 DEF Aac!Next, AacFacts!Next, Aac!vars, AacFacts!vars
<1>5. AacFacts!FramesAreContents => AudioFramesAreContents
  BY DEF AudioFramesAreContents, Aac!FramesAreContents, AacFacts!FramesAreContents,
         Aac!Whole, AacFacts!Whole, Aac!EndOf, AacFacts!EndOf,
         Aac!HeaderSize, AacFacts!HeaderSize
<1> QED
  BY <1>2, <1>3, <1>4, <1>5, PTL DEF Aac!Spec, AacFacts!Spec

(* What a track hands to its queue is what its file contains, whichever of   *)
(* the two readers its producer runs: for every video file and block, frames *)
(* are units and the loss is at the end of the file; for every audio file,   *)
(* frames are the contents of the audio frames                               *)
(* (MediaSourceHandler.cpp:30-80,108-120,181-198).                           *)
THEOREM TracksReadTheirFiles ==
  SpecReaders => [](FramesAreUnits /\ OnlyTheLastBlockIsLost /\ AudioFramesAreContents)
<1> DEFINE Read == FramesAreUnits /\ OnlyTheLastBlockIsLost /\ AudioFramesAreContents
<1>1. track = "video" /\ Init /\ NoAudio /\ [][NextReaders]_allVars => []Read
  <2>1. VideoTrack => AudioFramesAreContents
    BY UnusedReaders
  <2> QED
    BY VideoTrackIsVideo, FramesAreTheUnits, LossIsBounded, <2>1, PTL
<1>2. track = "audio" /\ NoVideo /\ Aac!Init /\ [][NextReaders]_allVars => []Read
  <2>1. AudioTrack => FramesAreUnits /\ OnlyTheLastBlockIsLost
    BY UnusedReaders
  <2>2. Aac!Spec => []AudioFramesAreContents
    BY AacTracksAreRead
  <2> QED
    BY AudioTrackIsAudio, <2>1, <2>2, PTL
<1>3. SpecReaders =>
        \/ track = "video" /\ Init /\ NoAudio /\ [][NextReaders]_allVars
        \/ track = "audio" /\ NoVideo /\ Aac!Init /\ [][NextReaders]_allVars
  BY DEF SpecReaders, InitReaders, allVars
<1> QED
  BY <1>1, <1>2, <1>3
=============================================================================
