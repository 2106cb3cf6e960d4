-------------------------- MODULE MCRtpPacketizer ---------------------------
EXTENDS RtpPacketizer

(* Sizes next to the limits of send_h264(): a packet carries 1012 bytes, a   *)
(* fragment 1010, and the loop starts at byte 1.                             *)
MCNalUnits ==
  [type : {"picture"}, size : {1, 1011, 1012, 1013, 2020, 2021, 2022, 3031, 3032}]
    \cup [type : {"parameters"}, size : {9, 1013}] \cup {[type |-> "broken", size |-> 9]}

(* Sizes next to the carries of the AU header; the largest fits in rtp_buf_. *)
MCAacFrames == [type : {"audio"}, size : {1, 31, 32, 255, 256, 1018}]
=============================================================================
