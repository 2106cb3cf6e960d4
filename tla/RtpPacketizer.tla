--------------------------- MODULE RtpPacketizer ----------------------------
(***************************************************************************)
(* RtpRtcpHandler::send_rtp_packet(): how the sender thread of a session   *)
(* turns the units of its track (H.264 NAL units or AAC frames) into RTP   *)
(* packets.  A NAL unit that does not fit in one packet is cut into FU-A   *)
(* fragments by a loop; the RTCP thread may look at the counters between   *)
(* two packets, so each packet is a step.                                  *)
(*                                                                         *)
(* A unit is its type and its size.  Its bytes are numbered from 0, start  *)
(* code excluded; a packet carries the bytes from .. to - 1.  Byte 0 of a  *)
(* fragmented unit, its header, travels in the two bytes of the FU header. *)
(***************************************************************************)
EXTENDS Integers, Sequences

CONSTANTS
  MaxPacketSize,    \* MAX_RTP_PACKET_SIZE: 1024
  HeaderSize,       \* sizeof(RTPHeader): 12
  SequenceNumbers,  \* 2^16: sequence_number_ is a uint16_t
  Words,            \* 2^32: the timestamp and the counters are uint32_t
  Increment,        \* timestamp_increment_
  NalUnits,         \* the units of a video track
  AacFrames         \* the frames of an audio track

MaxPayload == MaxPacketSize - HeaderSize

AacMaxSize == 8191 - 7  \* the 13 bits of an ADTS frame length, less its header

(* "broken" has no start code; "parameters" is an SPS or a PPS, "picture"    *)
(* any other NAL unit.                                                       *)
ASSUME SizesAssumption ==
  /\ MaxPacketSize \in Nat /\ HeaderSize \in Nat /\ MaxPayload > 2
  /\ SequenceNumbers \in Nat \ {0} /\ Words \in Nat \ {0} /\ Increment \in Nat
ASSUME UnitsAssumption ==
  /\ NalUnits \subseteq [type : {"picture", "parameters", "broken"}, size : Nat \ {0}]
  /\ AacFrames \subseteq [type : {"audio"}, size : 1 .. AacMaxSize]

Idle == [type |-> "none", size |-> 0]

VARIABLES
  media,                  \* the type of the track: it never changes
  unit,                   \* the unit being fragmented, or Idle
  offset,                 \* the first byte of it that is not sent yet
  last,                   \* the last unit that was given to send_rtp_packet()
  packets,                \* the packets made of it so far
  rtp_sequence_number,    \* rtp_sequence_number_ as a uint16_t
  timestamp,              \* timestamp_
  total_rtp_packet_sent,  \* total_rtp_packet_sent_
  total_payload_size      \* total_payload_size_

vars == <<media, unit, offset, last, packets, rtp_sequence_number, timestamp,
          total_rtp_packet_sent, total_payload_size>>

Init ==
  /\ media \in {"H264", "AAC"}
  /\ unit = Idle
  /\ offset = 0
  /\ last = Idle
  /\ packets = <<>>
  /\ rtp_sequence_number = 0
  /\ timestamp = 0
  /\ total_rtp_packet_sent = 0
  /\ total_payload_size = 0

-----------------------------------------------------------------------------
(* What stands between the RTP header and the bytes of the unit: nothing,    *)
(* an FU indicator and FU header, or a 16-bit AU header length and one AU    *)
(* header, which is 13 bits of size in two bytes and then 3 bits of index.   *)
NoHeader == [size |-> 0]

FuHeader(start, end) == [size |-> 2, start |-> start, end |-> end]

(* Mutant of AuHeaders: the low bits are not shifted past the index.         *)
AuHeadersUnshifted(n) == [size |-> 4, au |-> <<(n % 8192) \div 32, n % 32>>]

AuHeaders(n) == [size |-> 4, au |-> <<(n % 8192) \div 32, (n % 32) * 8>>]

Packet(header, from, to, marker) ==
  [seq |-> rtp_sequence_number, time |-> timestamp, marker |-> marker,
   header |-> header, from |-> from, to |-> to,
   size |-> HeaderSize + header.size + (to - from)]

CountPacket == rtp_sequence_number' = (rtp_sequence_number + 1) % SequenceNumbers

AdvanceTimestamp == timestamp' = (timestamp + Increment) % Words

(* At the end of send_rtp_packet(): one packet per unit, and all its bytes.  *)
CountUnit(bytes) ==
  /\ total_rtp_packet_sent' = (total_rtp_packet_sent + 1) % Words
  /\ total_payload_size' = (total_payload_size + bytes) % Words

CanSend(u) ==
  /\ unit = Idle
  /\ u \in IF media = "H264" THEN NalUnits ELSE AacFrames

(* SPS and PPS have the timestamp of the picture that follows them, unless   *)
(* they are fragmented.                                                      *)
KeepsTimestamp(u) == u.type = "parameters" /\ u.size <= MaxPayload

-----------------------------------------------------------------------------
(* A NAL unit that fits is one packet.                                       *)
SendWholeUnit(u, start_code) ==
  /\ CanSend(u)
  /\ u.type \in {"picture", "parameters"} /\ u.size <= MaxPayload
  /\ last' = u
  /\ packets' = <<Packet(NoHeader, 0, u.size, TRUE)>>
  /\ CountPacket
  /\ IF KeepsTimestamp(u) THEN UNCHANGED timestamp ELSE AdvanceTimestamp
  /\ CountUnit(start_code + u.size)
  /\ UNCHANGED <<media, unit, offset>>

(* The loop starts behind the header byte.                                   *)
StartFragments(u) ==
  /\ CanSend(u)
  /\ u.type \in {"picture", "parameters"} /\ u.size > MaxPayload
  /\ last' = u
  /\ unit' = u
  /\ offset' = 1
  /\ packets' = <<>>
  /\ UNCHANGED <<media, rtp_sequence_number, timestamp,
                 total_rtp_packet_sent, total_payload_size>>

(* Mutant of FragmentEnd: the two bytes of the FU header are not taken off.  *)
FragmentEndWithoutFu ==
  IF offset + MaxPayload < unit.size THEN offset + MaxPayload ELSE unit.size

(* Mutant of FragmentEnd: what is left of the unit is not looked at.         *)
FragmentEndUnbounded == offset + (MaxPayload - 2)

(* The offset plus min(max_payload_size - 2, payload_size - offset).         *)
FragmentEnd ==
  IF offset + (MaxPayload - 2) < unit.size THEN offset + (MaxPayload - 2) ELSE unit.size

(* Mutant of Fragment: the end bit and marker belong to any short fragment.  *)
FragmentShortEnd ==
  LET short == FragmentEnd - offset < MaxPayload - 2
  IN Packet(FuHeader(offset = 1, short), offset, FragmentEnd, short)

(* The start bit is set in the first fragment, end bit and marker in the     *)
(* one that reaches the end of the unit.                                     *)
Fragment ==
  LET ends == FragmentEnd = unit.size
  IN Packet(FuHeader(offset = 1, ends), offset, FragmentEnd, ends)

(* Mutant of SendFragment: the offset moves on by the size of the payload.   *)
SendFragmentSkipping ==
  /\ unit # Idle /\ offset < unit.size
  /\ packets' = Append(packets, Fragment)
  /\ offset' = IF FragmentEnd = unit.size THEN unit.size ELSE FragmentEnd + 2
  /\ CountPacket
  /\ UNCHANGED <<media, unit, last, timestamp, total_rtp_packet_sent, total_payload_size>>

(* Mutant of SendFragment: one sequence number for all the fragments.        *)
SendFragmentSameNumber ==
  /\ unit # Idle /\ offset < unit.size
  /\ packets' = Append(packets, Fragment)
  /\ offset' = FragmentEnd
  /\ UNCHANGED <<media, unit, last, rtp_sequence_number, timestamp,
                 total_rtp_packet_sent, total_payload_size>>

(* Mutant of SendFragment: the timestamp moves on with every fragment.       *)
SendFragmentNewTime ==
  /\ unit # Idle /\ offset < unit.size
  /\ packets' = Append(packets, Fragment)
  /\ offset' = FragmentEnd
  /\ CountPacket
  /\ AdvanceTimestamp
  /\ UNCHANGED <<media, unit, last, total_rtp_packet_sent, total_payload_size>>

SendFragment ==
  /\ unit # Idle /\ offset < unit.size
  /\ packets' = Append(packets, Fragment)
  /\ offset' = FragmentEnd
  /\ CountPacket
  /\ UNCHANGED <<media, unit, last, timestamp, total_rtp_packet_sent, total_payload_size>>

(* The loop is over: every fragmented unit moves the timestamp on.           *)
FinishFragments(start_code) ==
  /\ unit # Idle /\ offset >= unit.size
  /\ unit' = Idle
  /\ AdvanceTimestamp
  /\ CountUnit(start_code + unit.size)
  /\ UNCHANGED <<media, offset, last, packets, rtp_sequence_number>>

(* A frame without a start code is counted by send_rtp_packet() but not sent. *)
RejectUnit(u) ==
  /\ CanSend(u)
  /\ u.type = "broken"
  /\ last' = u
  /\ packets' = <<>>
  /\ total_payload_size' = (total_payload_size + u.size) % Words
  /\ UNCHANGED <<media, unit, offset, rtp_sequence_number, timestamp, total_rtp_packet_sent>>

(* An AAC frame is one packet, whatever its size.                            *)
SendAac(u) ==
  /\ CanSend(u)
  /\ u.type = "audio"
  /\ last' = u
  /\ packets' = <<Packet(AuHeaders(u.size), 0, u.size, TRUE)>>
  /\ CountPacket
  /\ AdvanceTimestamp
  /\ CountUnit(u.size)
  /\ UNCHANGED <<media, unit, offset>>

StartCodes == {3, 4}

Next ==
  \/ \E u \in NalUnits, n \in StartCodes : SendWholeUnit(u, n)
  \/ \E u \in NalUnits : StartFragments(u) \/ RejectUnit(u)
  \/ SendFragment
  \/ \E n \in StartCodes : FinishFragments(n)
  \/ \E u \in AacFrames : SendAac(u)

Spec == Init /\ [][Next]_vars

-----------------------------------------------------------------------------
Headers ==
  {NoHeader} \cup [size : {2}, start : BOOLEAN, end : BOOLEAN]
             \cup [size : {4}, au : Seq(0 .. 255)]

Packets ==
  [seq : 0 .. SequenceNumbers - 1, time : 0 .. Words - 1, marker : BOOLEAN,
   header : Headers, from : Nat, to : Nat, size : Nat]

(* Types: the AU header bytes are bytes, the counters stay in their words    *)
(* and the loop's offset never runs past the end of its unit, which the      *)
(* unsigned subtraction payload_size - offset needs.                         *)
TypeOK ==
  /\ media \in {"H264", "AAC"}
  /\ unit \in NalUnits \cup {Idle}
  /\ offset \in Nat
  /\ last \in NalUnits \cup AacFrames \cup {Idle}
  /\ packets \in Seq(Packets)
  /\ rtp_sequence_number \in 0 .. SequenceNumbers - 1
  /\ timestamp \in 0 .. Words - 1
  /\ total_rtp_packet_sent \in 0 .. Words - 1
  /\ total_payload_size \in 0 .. Words - 1
  /\ unit # Idle => unit = last /\ 1 <= offset /\ offset <= unit.size

Fragmented == last.type # "audio" /\ last.size > MaxPayload /\ last.type # "broken"

Final == Len(packets)

(* The packets of a unit, put together, are the unit: no byte is missing or  *)
(* sent twice, and each fragment short of the end is full (the offset of     *)
(* send_h264()'s loop against the bytes it copies).                          *)
PacketsAreTheUnit ==
  /\ \A i \in 1 .. Final :
       /\ packets[i].from < packets[i].to
       /\ packets[i].from = IF i > 1 THEN packets[i - 1].to
                            ELSE IF Fragmented THEN 1 ELSE 0
       /\ packets[i].to < last.size => packets[i].size = MaxPacketSize
  /\ packets # <<>> => packets[Final].to = IF unit = Idle THEN last.size ELSE offset
  /\ unit # Idle /\ offset > 1 => packets # <<>>

(* A receiver can tell where a fragmented unit begins and ends: the start    *)
(* bit is in its first packet and no other, end bit and marker in its last   *)
(* packet and no other, and the two are never in the same packet.            *)
BeginAndEndAreMarked ==
  /\ Fragmented => \A i \in 1 .. Final :
       /\ packets[i].header.start <=> i = 1
       /\ packets[i].header.end <=> packets[i].to = last.size
       /\ packets[i].marker <=> packets[i].header.end
       /\ packets[i].header.end => i = Final
       /\ ~(packets[i].header.start /\ packets[i].header.end)
  /\ unit = Idle /\ packets # <<>> => packets[Final].marker

(* A packet of a video track never exceeds MAX_RTP_PACKET_SIZE, so it fits   *)
(* in rtp_buf_: both branches of send_h264() keep to the limit.              *)
VideoPacketsFit ==
  media = "H264" => \A i \in 1 .. Final : packets[i].size <= MaxPacketSize

(* The packets of a unit have consecutive sequence numbers up to             *)
(* rtp_sequence_number_, across the wrap at 2^16 too.                        *)
SequenceNumbersAreConsecutive ==
  \A i \in 1 .. Final :
    (packets[i].seq + 1) % SequenceNumbers =
      IF i < Final THEN packets[i + 1].seq ELSE rtp_sequence_number

(* All packets of a unit have one timestamp.  The next unit has a new one,   *)
(* except after an SPS or a PPS in one packet.                               *)
OneTimestampPerUnit ==
  \A i \in 1 .. Final :
    timestamp = IF unit # Idle \/ KeepsTimestamp(last) THEN packets[i].time
                ELSE (packets[i].time + Increment) % Words

(* What a receiver reads as the size in the AU header is the size of the     *)
(* frame, so 13 bits split over two bytes lose nothing.                      *)
AuHeaderTellsTheSize ==
  media = "AAC" => \A i \in 1 .. Final :
    LET au == packets[i].header.au
    IN au[1] * 32 + au[2] \div 8 = packets[i].to - packets[i].from
=============================================================================
