----------------------- MODULE RtpPacketizer_proofs -------------------------
(***************************************************************************)
(* Proofs about RtpPacketizer for packets and units of any size: the       *)
(* fragments of a unit are the unit, its begin and end are marked, video   *)
(* packets fit, and sequence numbers and timestamps are as a receiver      *)
(* expects.                                                                *)
(***************************************************************************)
EXTENDS RtpPacketizer, SequenceTheorems, TLAPS

(* The loop runs for NAL units that do not fit in a packet.                  *)
LoopInv ==
  unit # Idle => /\ unit \in NalUnits
                 /\ unit.type \in {"picture", "parameters"}
                 /\ unit.size > MaxPayload
                 /\ media = "H264"

Safe ==
  /\ PacketsAreTheUnit
  /\ BeginAndEndAreMarked
  /\ VideoPacketsFit
  /\ SequenceNumbersAreConsecutive
  /\ OneTimestampPerUnit
  /\ AuHeaderTellsTheSize

IInv == TypeOK /\ LoopInv /\ Safe

-----------------------------------------------------------------------------
(* Arithmetic. *)

(* A counter that is incremented modulo its range stays in it.               *)
LEMMA Modulo ==
  ASSUME NEW a \in Nat, NEW m \in Nat \ {0}
  PROVE  a % m \in 0 .. m - 1
OBVIOUS

(* A list of one packet.                                                    *)
LEMMA Singleton ==
  ASSUME NEW S, NEW p \in S
  PROVE  <<p>> \in Seq(S) /\ Len(<<p>>) = 1 /\ <<p>>[1] = p
OBVIOUS

(* A unit has a size, and Idle is none of the units.                         *)
LEMMA Units ==
  /\ \A u \in NalUnits : u.size \in Nat \ {0} /\ u # Idle
                         /\ u.type \in {"picture", "parameters", "broken"}
  /\ \A u \in AacFrames : u.size \in Nat \ {0} /\ u.size <= AacMaxSize
                          /\ u # Idle /\ u.type = "audio"
<1>1. AacMaxSize \in Nat
  BY DEF AacMaxSize
<1> QED
  BY <1>1, UnitsAssumption DEF Idle

(* The two bytes of an AU header give the size back.                         *)
LEMMA AuHeaderInverse ==
  ASSUME NEW n \in 0 .. AacMaxSize
  PROVE  /\ AuHeaders(n) \in Headers
         /\ AuHeaders(n).size = 4
         /\ AuHeaders(n).au[1] * 32 + AuHeaders(n).au[2] \div 8 = n
<1> DEFINE h == n \div 32
           l == n % 32
<1>1. n % 8192 = n
  BY DEF AacMaxSize
<1>2. h \in 0 .. 255 /\ l \in 0 .. 31 /\ h * 32 + l = n
  BY DEF AacMaxSize
<1>3. l * 8 \in 0 .. 255 /\ (l * 8) \div 8 = l
  BY <1>2
<1>4. AuHeaders(n) = [size |-> 4, au |-> <<h, l * 8>>]
  BY <1>1 DEF AuHeaders
<1> HIDE DEF h, l
<1>5. <<h, l * 8>> \in Seq(0 .. 255)
  BY <1>2, <1>3
<1> QED
  BY <1>2, <1>3, <1>4, <1>5 DEF Headers

(* A packet with a proper header is a packet.                                *)
LEMMA PacketType ==
  ASSUME TypeOK, NEW h \in Headers, NEW from \in Nat, NEW to \in Nat, from <= to,
         NEW marker \in BOOLEAN
  PROVE  Packet(h, from, to, marker) \in Packets
<1>1. h.size \in Nat
  BY DEF Headers, NoHeader
<1> QED
  BY <1>1, SizesAssumption DEF Packet, Packets, TypeOK

-----------------------------------------------------------------------------
(* What a step of the loop does to the list of packets. *)

(* A fragment is not empty, stays in the unit and is full unless it ends it. *)
LEMMA FragmentFacts ==
  ASSUME TypeOK, LoopInv, unit # Idle, offset < unit.size
  PROVE  /\ FragmentEnd \in Nat
         /\ offset < FragmentEnd /\ FragmentEnd <= unit.size
         /\ Fragment \in Packets
         /\ Fragment.from = offset /\ Fragment.to = FragmentEnd
         /\ Fragment.seq = rtp_sequence_number /\ Fragment.time = timestamp
         /\ Fragment.header.start <=> offset = 1
         /\ Fragment.header.end <=> FragmentEnd = unit.size
         /\ Fragment.marker <=> FragmentEnd = unit.size
         /\ Fragment.size <= MaxPacketSize
         /\ FragmentEnd < unit.size => Fragment.size = MaxPacketSize
         /\ offset = 1 => FragmentEnd < unit.size
<1>1. unit.size \in Nat /\ offset \in Nat /\ 1 <= offset /\ unit.size > MaxPayload
  BY Units DEF TypeOK, LoopInv
<1>2. /\ FragmentEnd \in Nat /\ offset < FragmentEnd /\ FragmentEnd <= unit.size
      /\ FragmentEnd - offset <= MaxPayload - 2
      /\ FragmentEnd < unit.size => FragmentEnd - offset = MaxPayload - 2
      /\ offset = 1 => FragmentEnd < unit.size
  BY <1>1, SizesAssumption DEF FragmentEnd, MaxPayload
<1> HIDE DEF FragmentEnd
<1> DEFINE ends == FragmentEnd = unit.size
           header == FuHeader(offset = 1, ends)
<1>3. header \in Headers /\ header.size = 2
      /\ (header.start <=> offset = 1) /\ (header.end <=> ends)
  BY DEF FuHeader, Headers
<1>4. Fragment = Packet(header, offset, FragmentEnd, ends)
  BY DEF Fragment
<1> HIDE DEF header
<1>9. offset <= FragmentEnd /\ ends \in BOOLEAN
  BY <1>1, <1>2
<1>5. Fragment \in Packets
  BY <1>1, <1>2, <1>3, <1>4, <1>9, PacketType, Zenon
<1>6. /\ Fragment.from = offset /\ Fragment.to = FragmentEnd
      /\ Fragment.seq = rtp_sequence_number /\ Fragment.time = timestamp
      /\ Fragment.header = header /\ Fragment.marker = ends
      /\ Fragment.size = HeaderSize + header.size + (FragmentEnd - offset)
  BY <1>4 DEF Packet
<1>7. /\ Fragment.size <= MaxPacketSize
      /\ FragmentEnd < unit.size => Fragment.size = MaxPacketSize
  BY <1>1, <1>2, <1>3, <1>6, SizesAssumption DEF MaxPayload
<1>8. /\ Fragment.header.start <=> offset = 1
      /\ Fragment.header.end <=> FragmentEnd = unit.size
      /\ Fragment.marker <=> FragmentEnd = unit.size
  BY <1>3, <1>6, Zenon
<1> QED
  BY <1>2, <1>5, <1>6, <1>7, <1>8, Zenon

(* SendFragment appends that fragment.                                       *)
LEMMA FragmentAppended ==
  ASSUME TypeOK, LoopInv, SendFragment
  PROVE  /\ Len(packets) \in Nat
         /\ packets' \in Seq(Packets)
         /\ Len(packets') = Len(packets) + 1
         /\ \A i \in 1 .. Len(packets) : packets'[i] = packets[i]
         /\ packets'[Len(packets) + 1] = Fragment
<1>1. Fragment \in Packets
  BY FragmentFacts DEF SendFragment
<1>2. packets \in Seq(Packets) /\ packets' = Append(packets, Fragment)
  BY DEF TypeOK, SendFragment
<1> QED
  BY <1>1, <1>2

-----------------------------------------------------------------------------
(* Types. *)

LEMMA TypeInit == Init => TypeOK
BY SizesAssumption DEF Init, TypeOK, Idle

LEMMA TypeStep ==
  ASSUME TypeOK, LoopInv, [Next]_vars
  PROVE  TypeOK'
<1>1. /\ (rtp_sequence_number + 1) % SequenceNumbers \in 0 .. SequenceNumbers - 1
      /\ (timestamp + Increment) % Words \in 0 .. Words - 1
      /\ (total_rtp_packet_sent + 1) % Words \in 0 .. Words - 1
      /\ \A n \in Nat : (total_payload_size + n) % Words \in 0 .. Words - 1
  BY SizesAssumption, Modulo DEF TypeOK
<1>2. NoHeader \in Headers
  BY DEF Headers
<1>3. CASE \E u \in NalUnits, n \in StartCodes : SendWholeUnit(u, n)
  <2> PICK u \in NalUnits, n \in StartCodes : SendWholeUnit(u, n)
    BY <1>3
  <2>1. u.size \in Nat /\ 0 \in Nat /\ 0 <= u.size
    BY Units
  <2>2. Packet(NoHeader, 0, u.size, TRUE) \in Packets
    BY <1>2, <2>1, PacketType, Zenon
  <2>3. n + u.size \in Nat
    BY Units DEF StartCodes
  <2>4. packets' \in Seq(Packets)
    BY <2>2, Singleton, Zenon DEF SendWholeUnit
  <2>5. /\ rtp_sequence_number' \in 0 .. SequenceNumbers - 1
        /\ timestamp' \in 0 .. Words - 1
        /\ total_rtp_packet_sent' \in 0 .. Words - 1
        /\ total_payload_size' \in 0 .. Words - 1
    BY <1>1, <2>3 DEF TypeOK, SendWholeUnit, CountPacket, AdvanceTimestamp, CountUnit
  <2>6. media' = media /\ unit' = unit /\ unit = Idle /\ offset' = offset /\ last' = u
    BY DEF SendWholeUnit, CanSend
  <2> QED
    BY <2>4, <2>5, <2>6 DEF TypeOK
<1>4. CASE \E u \in NalUnits : StartFragments(u)
  <2> PICK u \in NalUnits : StartFragments(u)
    BY <1>4
  <2> QED
    BY Units DEF TypeOK, StartFragments, CanSend
<1>5. CASE \E u \in NalUnits : RejectUnit(u)
  <2> PICK u \in NalUnits : RejectUnit(u)
    BY <1>5
  <2>1. total_payload_size' \in 0 .. Words - 1
    <3>1. total_payload_size + u.size \in Nat /\ Words \in Nat \ {0}
      BY Units, SizesAssumption DEF TypeOK
    <3>2. (total_payload_size + u.size) % Words \in 0 .. Words - 1
      BY <3>1, Modulo
    <3> QED
      BY <3>2 DEF RejectUnit
  <2>2. media' = media /\ unit' = unit /\ unit = Idle /\ offset' = offset /\ last' = u
        /\ packets' = <<>> /\ rtp_sequence_number' = rtp_sequence_number
        /\ timestamp' = timestamp /\ total_rtp_packet_sent' = total_rtp_packet_sent
    BY DEF RejectUnit, CanSend
  <2> QED
    BY <2>1, <2>2 DEF TypeOK
<1>6. CASE SendFragment
  <2>1. packets' \in Seq(Packets)
    BY <1>6, FragmentAppended
  <2>2. offset' \in Nat /\ offset <= offset' /\ offset' <= unit.size
    BY <1>6, FragmentFacts DEF SendFragment, TypeOK
  <2> QED
    BY <1>1, <1>6, <2>1, <2>2, Units DEF TypeOK, SendFragment, CountPacket
<1>7. CASE \E n \in StartCodes : FinishFragments(n)
  <2> PICK n \in StartCodes : FinishFragments(n)
    BY <1>7
  <2>1. n + unit.size \in Nat
    BY Units DEF StartCodes, FinishFragments, TypeOK
  <2> QED
    BY <1>1, <2>1 DEF TypeOK, FinishFragments, AdvanceTimestamp, CountUnit
<1>8. CASE \E u \in AacFrames : SendAac(u)
  <2> PICK u \in AacFrames : SendAac(u)
    BY <1>8
  <2>1. u.size \in Nat /\ u.size <= AacMaxSize
    BY Units
  <2>2. u.size \in 0 .. AacMaxSize /\ u.size \in Nat /\ 0 \in Nat /\ 0 <= u.size
    <3>1. AacMaxSize \in Nat
      BY DEF AacMaxSize
    <3> QED
      BY <2>1, <3>1
  <2>3. AuHeaders(u.size) \in Headers
    BY <2>2, AuHeaderInverse, Zenon
  <2>4. Packet(AuHeaders(u.size), 0, u.size, TRUE) \in Packets
    BY <2>2, <2>3, PacketType, Zenon
  <2>5. packets' \in Seq(Packets)
    BY <2>4, Singleton, Zenon DEF SendAac
  <2>6. /\ rtp_sequence_number' \in 0 .. SequenceNumbers - 1
        /\ timestamp' \in 0 .. Words - 1
        /\ total_rtp_packet_sent' \in 0 .. Words - 1
        /\ total_payload_size' \in 0 .. Words - 1
    BY <1>1, <2>2 DEF TypeOK, SendAac, CountPacket, AdvanceTimestamp, CountUnit
  <2>7. media' = media /\ unit' = unit /\ unit = Idle /\ offset' = offset /\ last' = u
    BY DEF SendAac, CanSend
  <2> QED
    BY <2>5, <2>6, <2>7 DEF TypeOK
<1>9. CASE UNCHANGED vars
  BY <1>9 DEF TypeOK, vars
<1> QED
  BY <1>3, <1>4, <1>5, <1>6, <1>7, <1>8, <1>9 DEF Next

LEMMA LoopStep ==
  ASSUME TypeOK, LoopInv, [Next]_vars
  PROVE  LoopInv'
<1>1. CASE \E u \in NalUnits : StartFragments(u)
  <2> PICK u \in NalUnits : StartFragments(u)
    BY <1>1
  <2>1. media = "H264"
    <3>1. media = "AAC" => u \in AacFrames
      BY DEF StartFragments, CanSend
    <3> QED
      BY <3>1, Units DEF StartFragments, TypeOK
  <2> QED
    BY <2>1 DEF LoopInv, StartFragments
<1>2. CASE unit' = Idle
  BY <1>2 DEF LoopInv
<1>3. CASE UNCHANGED <<media, unit>>
  BY <1>3 DEF LoopInv
<1> QED
  BY <1>1, <1>2, <1>3
  DEF Next, vars, SendWholeUnit, RejectUnit, SendFragment, FinishFragments, SendAac

-----------------------------------------------------------------------------
(* The steps that send a unit at once, or do not send it, leave a list of    *)
(* at most one packet. *)

(* The packet of a unit that is sent whole.                                  *)
LEMMA OnePacket ==
  ASSUME TypeOK, NEW h \in Headers, NEW n \in Nat,
         packets' = <<Packet(h, 0, n, TRUE)>>
  PROVE  /\ Final' = 1 /\ packets' # <<>> /\ \A i \in 1 .. Final' : i = 1
         /\ packets'[1].from = 0 /\ packets'[1].to = n
         /\ packets'[1].seq = rtp_sequence_number /\ packets'[1].time = timestamp
         /\ packets'[1].header = h /\ packets'[1].marker = TRUE
         /\ packets'[1].size = HeaderSize + h.size + n
BY SizesAssumption DEF Packet, Final

LEMMA SafeAfterWholeUnit ==
  ASSUME TypeOK, NEW u \in NalUnits, NEW n \in StartCodes, SendWholeUnit(u, n)
  PROVE  Safe'
<1>1. /\ u.size \in Nat \ {0} /\ u.size <= MaxPayload /\ u.type # "audio"
      /\ unit' = Idle /\ last' = u /\ media' = media
      /\ packets' = <<Packet(NoHeader, 0, u.size, TRUE)>>
  BY Units DEF SendWholeUnit, CanSend
<1>2. NoHeader \in Headers /\ NoHeader.size = 0
  BY DEF Headers, NoHeader
<1>3. /\ Final' = 1 /\ packets' # <<>> /\ \A i \in 1 .. Final' : i = 1
      /\ packets'[1].from = 0 /\ packets'[1].to = u.size
      /\ packets'[1].seq = rtp_sequence_number /\ packets'[1].time = timestamp
      /\ packets'[1].header = NoHeader /\ packets'[1].marker = TRUE
      /\ packets'[1].size = HeaderSize + NoHeader.size + u.size
  BY <1>1, <1>2, OnePacket
<1>4. ~Fragmented'
  BY <1>1, SizesAssumption DEF Fragmented, MaxPayload
<1>5. media = "H264"
  BY <1>1, Units DEF SendWholeUnit, CanSend, TypeOK
<1>6. PacketsAreTheUnit'
  <2>1. ASSUME NEW i \in 1 .. Final'
        PROVE  /\ packets'[i].from < packets'[i].to
               /\ packets'[i].from = IF i > 1 THEN packets'[i - 1].to
                                     ELSE IF Fragmented' THEN 1 ELSE 0
               /\ ~ (packets'[i].to < last'.size)
    <3>1. i = 1 /\ ~ (i > 1)
      BY <1>3
    <3>2. packets'[i].from = 0 /\ packets'[i].to = u.size /\ last'.size = u.size
      BY <1>1, <1>3, <3>1
    <3>3. 0 < u.size /\ ~ (u.size < u.size)
      BY <1>1
    <3> QED
      BY <1>4, <3>1, <3>2, <3>3
  <2>2. packets'[Final'].to = last'.size
    BY <1>1, <1>3
  <2> QED
    BY <1>1, <2>1, <2>2 DEF PacketsAreTheUnit
<1>7. BeginAndEndAreMarked'
  BY <1>1, <1>3, <1>4 DEF BeginAndEndAreMarked
<1>8. VideoPacketsFit'
  <2>1. packets'[1].size = HeaderSize + 0 + u.size
    BY <1>2, <1>3
  <2>2. HeaderSize + 0 + u.size <= MaxPacketSize
    BY <1>1, SizesAssumption DEF MaxPayload
  <2>3. packets'[1].size <= MaxPacketSize
    BY <2>1, <2>2
  <2> QED
    BY <1>3, <2>3 DEF VideoPacketsFit
<1>9. SequenceNumbersAreConsecutive'
  <2>1. rtp_sequence_number' = (packets'[1].seq + 1) % SequenceNumbers
    BY <1>3 DEF SendWholeUnit, CountPacket
  <2> QED
    BY <1>3, <2>1 DEF SequenceNumbersAreConsecutive
<1>10. OneTimestampPerUnit'
  BY <1>1, <1>3
  DEF OneTimestampPerUnit, SendWholeUnit, KeepsTimestamp, AdvanceTimestamp
<1>11. AuHeaderTellsTheSize'
  BY <1>1, <1>5 DEF AuHeaderTellsTheSize
<1> QED
  BY <1>6, <1>7, <1>8, <1>9, <1>10, <1>11 DEF Safe

LEMMA SafeAfterAac ==
  ASSUME TypeOK, NEW u \in AacFrames, SendAac(u)
  PROVE  Safe'
<1>1. /\ u.size \in Nat \ {0} /\ u.size <= AacMaxSize /\ u.type = "audio"
      /\ unit' = Idle /\ last' = u /\ media' = media
      /\ packets' = <<Packet(AuHeaders(u.size), 0, u.size, TRUE)>>
  BY Units DEF SendAac, CanSend
<1>2. u.size \in 0 .. AacMaxSize /\ u.size \in Nat
  <2>1. AacMaxSize \in Nat
    BY DEF AacMaxSize
  <2> QED
    BY <1>1, <2>1
<1> DEFINE h == AuHeaders(u.size)
<1>3. h \in Headers /\ h.au[1] * 32 + h.au[2] \div 8 = u.size
  BY <1>2, AuHeaderInverse, Zenon
<1> HIDE DEF h
<1>4. /\ Final' = 1 /\ packets' # <<>> /\ \A i \in 1 .. Final' : i = 1
      /\ packets'[1].from = 0 /\ packets'[1].to = u.size
      /\ packets'[1].seq = rtp_sequence_number /\ packets'[1].time = timestamp
      /\ packets'[1].header = h /\ packets'[1].marker = TRUE
  <2>1. packets' = <<Packet(h, 0, u.size, TRUE)>>
    BY <1>1 DEF h
  <2> QED
    BY <1>2, <1>3, <2>1, OnePacket
<1>5. ~Fragmented'
  BY <1>1 DEF Fragmented
<1>6. media = "AAC"
  BY <1>1, Units DEF SendAac, CanSend, TypeOK
<1>7. PacketsAreTheUnit'
  <2>1. ASSUME NEW i \in 1 .. Final'
        PROVE  /\ packets'[i].from < packets'[i].to
               /\ packets'[i].from = IF i > 1 THEN packets'[i - 1].to
                                     ELSE IF Fragmented' THEN 1 ELSE 0
               /\ ~ (packets'[i].to < last'.size)
    <3>1. i = 1 /\ ~ (i > 1)
      BY <1>4
    <3>2. packets'[i].from = 0 /\ packets'[i].to = u.size /\ last'.size = u.size
      BY <1>1, <1>4, <3>1
    <3>3. 0 < u.size /\ ~ (u.size < u.size)
      BY <1>1
    <3> QED
      BY <1>5, <3>1, <3>2, <3>3
  <2>2. packets'[Final'].to = last'.size
    BY <1>1, <1>4
  <2> QED
    BY <1>1, <2>1, <2>2 DEF PacketsAreTheUnit
<1>8. BeginAndEndAreMarked'
  BY <1>1, <1>4, <1>5 DEF BeginAndEndAreMarked
<1>9. VideoPacketsFit'
  BY <1>1, <1>6 DEF VideoPacketsFit
<1>10. SequenceNumbersAreConsecutive'
  <2>1. rtp_sequence_number' = (packets'[1].seq + 1) % SequenceNumbers
    BY <1>4 DEF SendAac, CountPacket
  <2> QED
    BY <1>4, <2>1 DEF SequenceNumbersAreConsecutive
<1>11. OneTimestampPerUnit'
  BY <1>1, <1>4
  DEF OneTimestampPerUnit, SendAac, KeepsTimestamp, AdvanceTimestamp
<1>12. AuHeaderTellsTheSize'
  BY <1>2, <1>3, <1>4 DEF AuHeaderTellsTheSize
<1> QED
  BY <1>7, <1>8, <1>9, <1>10, <1>11, <1>12 DEF Safe

(* With no packet there is nothing to show, but that offset is 1.            *)
LEMMA SafeWithoutPackets ==
  ASSUME packets' = <<>>, unit' = Idle \/ offset' = 1
  PROVE  Safe'
<1>1. Len(packets') = 0
  OBVIOUS
<1> QED
  BY <1>1
  DEF Safe, PacketsAreTheUnit, BeginAndEndAreMarked, VideoPacketsFit, Final,
      SequenceNumbersAreConsecutive, OneTimestampPerUnit, AuHeaderTellsTheSize

(* The end of the loop keeps the packets: the last one reached the end of    *)
(* the unit.                                                                 *)
LEMMA SafeAfterLoop ==
  ASSUME IInv, NEW n \in StartCodes, FinishFragments(n)
  PROVE  Safe'
<1>1. /\ unit # Idle /\ unit = last /\ unit' = Idle /\ last' = last
      /\ packets' = packets /\ offset' = offset /\ media' = media
      /\ rtp_sequence_number' = rtp_sequence_number
      /\ timestamp' = (timestamp + Increment) % Words
  BY DEF IInv, TypeOK, FinishFragments, AdvanceTimestamp
<1>2. offset = last.size /\ offset > 1
  BY <1>1, SizesAssumption, Units DEF IInv, TypeOK, LoopInv, FinishFragments, MaxPayload
<1>3. Final' = Final /\ (Fragmented' <=> Fragmented) /\ Fragmented
  BY <1>1 DEF Final, Fragmented, IInv, LoopInv
<1>4. PacketsAreTheUnit'
  BY <1>1, <1>2, <1>3 DEF IInv, Safe, PacketsAreTheUnit
<1>5. BeginAndEndAreMarked'
  <2>1. packets # <<>> => packets[Final].to = last.size /\ Final \in 1 .. Final
    BY <1>1, <1>2 DEF IInv, Safe, PacketsAreTheUnit, TypeOK, Final
  <2> QED
    BY <1>1, <1>3, <2>1 DEF IInv, Safe, BeginAndEndAreMarked
<1>6. VideoPacketsFit'
  BY <1>1, <1>3 DEF IInv, Safe, VideoPacketsFit
<1>7. SequenceNumbersAreConsecutive'
  BY <1>1, <1>3 DEF IInv, Safe, SequenceNumbersAreConsecutive
<1>8. OneTimestampPerUnit'
  <2>1. ~KeepsTimestamp(last)
    BY <1>1, <1>3, SizesAssumption, Units
    DEF KeepsTimestamp, Fragmented, IInv, TypeOK, LoopInv, MaxPayload
  <2>2. ~KeepsTimestamp(last)'
    BY <1>1, <2>1 DEF KeepsTimestamp
  <2> QED
    BY <1>1, <1>3, <2>2 DEF IInv, Safe, OneTimestampPerUnit
<1>9. AuHeaderTellsTheSize'
  BY <1>1, <1>3 DEF IInv, Safe, AuHeaderTellsTheSize
<1> QED
  BY <1>4, <1>5, <1>6, <1>7, <1>8, <1>9 DEF Safe

(* One more fragment.                                                        *)
LEMMA SafeAfterFragment ==
  ASSUME IInv, SendFragment
  PROVE  Safe'
<1> DEFINE f == Fragment
           k == Len(packets) + 1
<1>1. /\ unit # Idle /\ unit = last /\ offset < unit.size /\ media = "H264"
      /\ unit' = unit /\ last' = last /\ media' = media /\ timestamp' = timestamp
      /\ offset' = FragmentEnd
      /\ rtp_sequence_number' = (rtp_sequence_number + 1) % SequenceNumbers
  BY DEF IInv, TypeOK, LoopInv, SendFragment, CountPacket
<1>2. /\ FragmentEnd \in Nat /\ offset \in Nat /\ 1 <= offset /\ last.size \in Nat
      /\ offset < FragmentEnd /\ FragmentEnd <= last.size
      /\ f.from = offset /\ f.to = FragmentEnd
      /\ f.seq = rtp_sequence_number /\ f.time = timestamp
      /\ f.size <= MaxPacketSize
      /\ FragmentEnd < last.size => f.size = MaxPacketSize
      /\ offset = 1 => FragmentEnd < last.size
  BY <1>1, FragmentFacts, Units DEF IInv, TypeOK
<1>3. /\ f.header.start <=> offset = 1
      /\ f.header.end <=> FragmentEnd = last.size
      /\ f.marker <=> FragmentEnd = last.size
  BY <1>1, FragmentFacts, Zenon DEF IInv
<1>4. /\ Final = Len(packets) /\ Final \in Nat /\ k = Final + 1 /\ Final' = k
      /\ \A i \in 1 .. Final : packets'[i] = packets[i]
      /\ packets'[k] = f
      /\ packets' # <<>>
  BY FragmentAppended DEF IInv, Final
<1>5. Fragmented /\ (Fragmented' <=> Fragmented)
  BY <1>1 DEF Fragmented, IInv, LoopInv
<1>6. /\ Final > 0 => packets # <<>> /\ packets[Final].to = offset
      /\ Final = 0 => offset = 1
      /\ Final > 0 => offset > 1
  <2>1. Final = 0 => packets = <<>>
    <3>1. packets \in Seq(Packets)
      BY DEF IInv, TypeOK
    <3> QED
      BY <1>4, <3>1, EmptySeq
  <2>2. \A i \in 1 .. Final : packets[i] \in Packets
    BY <1>4 DEF IInv, TypeOK
  <2>3. ASSUME Final > 0
        PROVE  packets # <<>> /\ packets[Final].to = offset /\ offset > 1
    <3>1. packets # <<>> /\ Final \in 1 .. Final
      BY <1>4, <2>3
    <3>2. packets[Final].to = offset
      BY <1>1, <3>1 DEF IInv, Safe, PacketsAreTheUnit
    <3>3. packets[Final].from < packets[Final].to
      BY <3>1 DEF IInv, Safe, PacketsAreTheUnit
    <3>4. packets[Final].from >= 1
      <4>1. CASE Final = 1
        BY <1>5, <3>1, <4>1 DEF IInv, Safe, PacketsAreTheUnit
      <4>2. CASE Final > 1
        <5>1. Final - 1 \in 1 .. Final
          BY <1>4, <4>2
        <5>2. packets[Final - 1].from < packets[Final - 1].to
          BY <5>1 DEF IInv, Safe, PacketsAreTheUnit
        <5>3. packets[Final].from = packets[Final - 1].to
          BY <3>1, <4>2 DEF IInv, Safe, PacketsAreTheUnit
        <5>4. packets[Final - 1].from \in Nat /\ packets[Final - 1].to \in Nat
          BY <2>2, <5>1 DEF Packets
        <5> QED
          BY <5>2, <5>3, <5>4
      <4> QED
        BY <1>4, <3>1, <4>1, <4>2
    <3>5. packets[Final].from \in Nat
      BY <2>2, <3>1 DEF Packets
    <3> QED
      BY <1>2, <3>1, <3>2, <3>3, <3>4, <3>5
  <2>4. Final = 0 => offset = 1
    BY <1>1, <1>2, <2>1 DEF IInv, Safe, PacketsAreTheUnit
  <2> QED
    BY <2>3, <2>4
<1>13. ASSUME NEW i \in 1 .. Final'
      PROVE  (i \in 1 .. Final /\ i < k /\ packets'[i] = packets[i]) \/ (i = k /\ packets'[i] = f)
  BY <1>4
<1> HIDE DEF f, k
<1>7. PacketsAreTheUnit'
  <2>1. ASSUME NEW i \in 1 .. Final'
        PROVE  /\ packets'[i].from < packets'[i].to
               /\ packets'[i].from = IF i > 1 THEN packets'[i - 1].to
                                     ELSE IF Fragmented' THEN 1 ELSE 0
               /\ packets'[i].to < last'.size => packets'[i].size = MaxPacketSize
    <3>1. CASE i \in 1 .. Final
      <4>1. packets'[i] = packets[i] /\ (i > 1 => packets'[i - 1] = packets[i - 1])
        BY <1>4, <3>1
      <4> QED
        BY <1>1, <1>5, <3>1, <4>1 DEF IInv, Safe, PacketsAreTheUnit
    <3>2. CASE i = k
      <4>1. packets'[i].from = offset /\ packets'[i].to = FragmentEnd
            /\ packets'[i].size = f.size
        BY <1>2, <1>4, <3>2
      <4>2. i > 1 => packets'[i - 1].to = offset
        BY <1>4, <1>6, <3>2
      <4>3. ~(i > 1) => offset = 1
        BY <1>4, <1>6, <3>2
      <4> QED
        BY <1>1, <1>2, <1>5, <4>1, <4>2, <4>3
    <3> QED
      BY <1>13, <3>1, <3>2
  <2>2. packets'[Final'].to = offset' /\ unit' # Idle
    BY <1>1, <1>2, <1>4
  <2> QED
    BY <1>4, <2>1, <2>2 DEF PacketsAreTheUnit
<1>8. BeginAndEndAreMarked'
  <2>1. ASSUME NEW i \in 1 .. Final'
        PROVE  /\ packets'[i].header.start <=> i = 1
               /\ packets'[i].header.end <=> packets'[i].to = last'.size
               /\ packets'[i].marker <=> packets'[i].header.end
               /\ packets'[i].header.end => i = Final'
               /\ ~(packets'[i].header.start /\ packets'[i].header.end)
    <3>1. CASE i \in 1 .. Final
      <4>1. /\ packets'[i] = packets[i] /\ last' = last
            /\ packets[i].header.start <=> i = 1
            /\ packets[i].header.end <=> packets[i].to = last.size
            /\ packets[i].marker <=> packets[i].header.end
            /\ packets[i].header.end => i = Final
            /\ ~(packets[i].header.start /\ packets[i].header.end)
        BY <1>1, <1>4, <1>5, <3>1, Zenon DEF IInv, Safe, BeginAndEndAreMarked
      <4>2. i = Final => packets[i].to # last.size
        BY <1>1, <1>2, <1>4, <1>6, <3>1
      <4>3. ~packets[i].header.end
        BY <4>1, <4>2, Zenon
      <4>4. /\ packets'[i].header = packets[i].header /\ packets'[i].to = packets[i].to
            /\ packets'[i].marker = packets[i].marker
        BY <4>1
      <4> QED
        BY <4>1, <4>3, <4>4, Zenon
    <3>2. CASE i = k
      <4>1. i = Final' /\ packets'[i] = f
        BY <1>4, <3>2
      <4>2. i = 1 <=> offset = 1
        BY <1>4, <1>6, <3>2
      <4>3. ~(offset = 1 /\ FragmentEnd = last.size)
        BY <1>2
      <4>4. f.to = FragmentEnd /\ last' = last
        BY <1>1, <1>2
      <4> QED
        BY <1>3, <4>1, <4>2, <4>3, <4>4, Zenon
    <3> QED
      BY <1>13, <3>1, <3>2
  <2>2. unit' # Idle
    BY <1>1
  <2> QED
    BY <2>1, <2>2, Zenon DEF BeginAndEndAreMarked
<1>9. VideoPacketsFit'
  BY <1>1, <1>2, <1>13 DEF IInv, Safe, VideoPacketsFit
<1>10. SequenceNumbersAreConsecutive'
  <2>1. ASSUME NEW i \in 1 .. Final'
        PROVE  (packets'[i].seq + 1) % SequenceNumbers
                 = IF i < Final' THEN packets'[i + 1].seq ELSE rtp_sequence_number'
    <3>1. CASE i \in 1 .. Final /\ i < Final
      <4>1. i < Final' /\ packets'[i] = packets[i] /\ packets'[i + 1] = packets[i + 1]
        BY <1>4, <3>1
      <4>2. (packets[i].seq + 1) % SequenceNumbers = packets[i + 1].seq
        BY <3>1 DEF IInv, Safe, SequenceNumbersAreConsecutive
      <4> QED
        BY <4>1, <4>2
    <3>2. CASE i \in 1 .. Final /\ i = Final
      <4>1. i < Final' /\ packets'[i] = packets[i] /\ packets'[i + 1] = f
        BY <1>4, <3>2
      <4>2. (packets[i].seq + 1) % SequenceNumbers = rtp_sequence_number
        BY <1>4, <3>2 DEF IInv, Safe, SequenceNumbersAreConsecutive
      <4> QED
        BY <1>2, <4>1, <4>2
    <3>3. CASE i = k
      <4>1. ~(i < Final') /\ packets'[i] = f
        BY <1>4, <3>3
      <4> QED
        BY <1>1, <1>2, <4>1
    <3> QED
      BY <1>4, <3>1, <3>2, <3>3
  <2> QED
    BY <2>1 DEF SequenceNumbersAreConsecutive
<1>11. OneTimestampPerUnit'
  BY <1>1, <1>2, <1>13 DEF IInv, Safe, OneTimestampPerUnit
<1>12. AuHeaderTellsTheSize'
  BY <1>1 DEF AuHeaderTellsTheSize
<1> QED
  BY <1>7, <1>8, <1>9, <1>10, <1>11, <1>12 DEF Safe

-----------------------------------------------------------------------------
(* The theorems. *)

LEMMA Initially == Init => IInv
<1> SUFFICES ASSUME Init PROVE IInv
  OBVIOUS
<1>1. TypeOK
  BY TypeInit
<1>2. LoopInv
  BY DEF Init, LoopInv
<1>3. Final = 0 /\ packets = <<>> /\ unit = Idle
  BY DEF Init, Final
<1>4. Safe
  BY <1>3
  DEF Safe, PacketsAreTheUnit, BeginAndEndAreMarked, VideoPacketsFit,
      SequenceNumbersAreConsecutive, OneTimestampPerUnit, AuHeaderTellsTheSize
<1> QED
  BY <1>1, <1>2, <1>4 DEF IInv

LEMMA Inductive == IInv /\ [Next]_vars => IInv'
<1> SUFFICES ASSUME IInv, [Next]_vars PROVE IInv'
  OBVIOUS
<1>1. TypeOK' /\ LoopInv'
  BY TypeStep, LoopStep DEF IInv
<1>2. CASE \E u \in NalUnits, n \in StartCodes : SendWholeUnit(u, n)
  BY <1>1, <1>2, SafeAfterWholeUnit DEF IInv
<1>3. CASE \E u \in NalUnits : StartFragments(u)
  BY <1>1, <1>3, SafeWithoutPackets DEF StartFragments, IInv
<1>4. CASE \E u \in NalUnits : RejectUnit(u)
  BY <1>1, <1>4, SafeWithoutPackets DEF RejectUnit, CanSend, IInv
<1>5. CASE SendFragment
  BY <1>1, <1>5, SafeAfterFragment DEF IInv
<1>6. CASE \E n \in StartCodes : FinishFragments(n)
  BY <1>1, <1>6, SafeAfterLoop DEF IInv
<1>7. CASE \E u \in AacFrames : SendAac(u)
  BY <1>1, <1>7, SafeAfterAac DEF IInv
<1>8. CASE UNCHANGED vars
  BY <1>1, <1>8
  DEF vars, IInv, Safe, PacketsAreTheUnit, BeginAndEndAreMarked, VideoPacketsFit, Final,
      SequenceNumbersAreConsecutive, OneTimestampPerUnit, AuHeaderTellsTheSize,
      Fragmented, KeepsTimestamp
<1> QED
  BY <1>2, <1>3, <1>4, <1>5, <1>6, <1>7, <1>8 DEF Next

(* The inductive invariant.                                                 *)
THEOREM Invariance == Spec => []IInv
BY Initially, Inductive, PTL DEF Spec

(* The loop's offset stays in its unit, AU header bytes are bytes, counters  *)
(* stay in their words.                                                      *)
THEOREM TypeCorrect == Spec => []TypeOK
<1>1. IInv => TypeOK
  BY DEF IInv
<1> QED
  BY <1>1, Invariance, PTL

(* For any size of packet and unit, the packets of a unit put together are   *)
(* the unit (send_h264()'s loop, and the units that need no loop).           *)
THEOREM FragmentsAreTheUnit == Spec => []PacketsAreTheUnit
<1>1. IInv => PacketsAreTheUnit
  BY DEF IInv, Safe
<1> QED
  BY <1>1, Invariance, PTL

(* The FU header's start and end bits and the RTP marker are right, and a    *)
(* unit is never cut into a single fragment.                                 *)
THEOREM ReceiverSeesBeginAndEnd == Spec => []BeginAndEndAreMarked
<1>1. IInv => BeginAndEndAreMarked
  BY DEF IInv, Safe
<1> QED
  BY <1>1, Invariance, PTL

(* No packet of a video track exceeds MAX_RTP_PACKET_SIZE.                   *)
THEOREM VideoFits == Spec => []VideoPacketsFit
<1>1. IInv => VideoPacketsFit
  BY DEF IInv, Safe
<1> QED
  BY <1>1, Invariance, PTL

(* The sequence numbers of a unit's packets are consecutive, and the member  *)
(* numbers the next one (RtpRtcpHandler.cpp:127, 163, 196)                      *)
THEOREM Numbers == Spec => []SequenceNumbersAreConsecutive
<1>1. IInv => SequenceNumbersAreConsecutive
  BY DEF IInv, Safe
<1> QED
  BY <1>1, Invariance, PTL

(* All packets of a unit carry one timestamp, and the member is that of the  *)
(* next unit (RtpRtcpHandler.cpp:152, 182, 218).                            *)
THEOREM Times == Spec => []OneTimestampPerUnit
<1>1. IInv => OneTimestampPerUnit
  BY DEF IInv, Safe
<1> QED
  BY <1>1, Invariance, PTL

(* The AU header of every AAC packet gives the size of its frame.            *)
THEOREM AuHeaderIsRight == Spec => []AuHeaderTellsTheSize
<1>1. IInv => AuHeaderTellsTheSize
  BY DEF IInv, Safe
<1> QED
  BY <1>1, Invariance, PTL
=============================================================================
