----------------------------- MODULE RtcpThreads ----------------------------
(***************************************************************************)
(* The two RTCP threads of an RtpRtcpHandler and the thread that starts,   *)
(* stops and destroys them.  Session::start() calls start() and, once the  *)
(* sender thread runs, stop(); ~RtpRtcpHandler calls stop() again.         *)
(*                                                                         *)
(* The send thread sleeps five seconds and sends a report; the receive     *)
(* thread waits at most a second (SO_RCVTIMEO) for a datagram and keeps    *)
(* the report blocks in it, which the next report sends back.  Both look   *)
(* at is_running_ before each round.  Of a report only what its header     *)
(* says about its blocks is kept: words of four bytes are the unit.        *)
(***************************************************************************)
EXTENDS Integers, FiniteSets

CONSTANTS
  Sources,     \* the SSRCs that report blocks may name
  MaxStarts    \* bound: how often the handler is started

ASSUME SourcesAssumption == IsFiniteSet(Sources)
ASSUME StartsAssumption  == MaxStarts \in Nat

HeaderWords == 7   \* sizeof(RTCPSenderReport) / 4
BlockWords  == 6   \* sizeof(RTCPReportBlock) / 4

VARIABLES
  is_running,  \* is_running_
  main,        \* where the thread that owns the handler is
  starts,      \* how often it has called start()
  sending,     \* rtcp_send_thread_: where it is, or "none"
  receiving,   \* rtcp_receive_thread_: where it is, or "none"
  blocks,      \* the keys of rtcp_report_blocks_
  parsed,      \* the blocks of a datagram that are not in the map yet
  mutex,       \* the receive thread has rtcp_send_receive_mutex_
  report,      \* the header in the send thread's buffer, and its blocks
  sent         \* the size of the last datagram and the header in it

vars == <<is_running, main, starts, sending, receiving, blocks, parsed, mutex, report, sent>>

NoReport == [length |-> HeaderWords - 1, blocks |-> {}]

Init ==
  /\ is_running = TRUE
  /\ main = "idle"
  /\ starts = 0
  /\ sending = "none"
  /\ receiving = "none"
  /\ blocks = {}
  /\ parsed = {}
  /\ mutex = FALSE
  /\ report = NoReport
  /\ sent = [size |-> HeaderWords, report |-> NoReport]

-----------------------------------------------------------------------------
(* start(), stop() and the destructor. *)

(* Mutant of StartSend: the loop of the send thread is a do-while loop.      *)
StartSendUntested ==
  /\ main = "idle" /\ starts < MaxStarts
  /\ starts' = starts + 1
  /\ sending' = "sleep"
  /\ main' = "startReceive"
  /\ UNCHANGED <<is_running, receiving, blocks, parsed, mutex, report, sent>>

StartSend ==
  /\ main = "idle" /\ starts < MaxStarts
  /\ starts' = starts + 1
  /\ sending' = "test"
  /\ main' = "startReceive"
  /\ UNCHANGED <<is_running, receiving, blocks, parsed, mutex, report, sent>>

StartReceive ==
  /\ main = "startReceive"
  /\ receiving' = "test"
  /\ main' = "started"
  /\ UNCHANGED <<is_running, starts, sending, blocks, parsed, mutex, report, sent>>

StopSignals ==
  /\ main = "started"
  /\ is_running' = FALSE
  /\ main' = "joinSend"
  /\ UNCHANGED <<starts, sending, receiving, blocks, parsed, mutex, report, sent>>

JoinSend ==
  /\ main = "joinSend" /\ sending = "finished"
  /\ sending' = "none"
  /\ main' = "joinReceive"
  /\ UNCHANGED <<is_running, starts, receiving, blocks, parsed, mutex, report, sent>>

(* Mutant of JoinReceive: the receive thread is left to end by itself.       *)
LeaveReceive ==
  /\ main = "joinReceive"
  /\ main' = "idle"
  /\ UNCHANGED <<is_running, starts, sending, receiving, blocks, parsed, mutex, report, sent>>

JoinReceive ==
  /\ main = "joinReceive" /\ receiving = "finished"
  /\ receiving' = "none"
  /\ main' = "idle"
  /\ UNCHANGED <<is_running, starts, sending, blocks, parsed, mutex, report, sent>>

(* ~RtpRtcpHandler: stop() finds no thread any more, the sockets are closed. *)
Destroy ==
  /\ main = "idle"
  /\ is_running' = FALSE
  /\ main' = "destroyed"
  /\ UNCHANGED <<starts, sending, receiving, blocks, parsed, mutex, report, sent>>

-----------------------------------------------------------------------------
(* send_rtcp_packet(). *)

SendTests ==
  /\ sending = "test"
  /\ sending' = IF is_running THEN "sleep" ELSE "finished"
  /\ UNCHANGED <<is_running, main, starts, receiving, blocks, parsed, mutex, report, sent>>

(* The five seconds are over; header and blocks are copied under the mutex.  *)
FillReport ==
  /\ sending = "sleep" /\ ~mutex
  /\ report' = [length |-> HeaderWords - 1 + BlockWords * Cardinality(blocks),
                blocks |-> blocks]
  /\ sending' = "send"
  /\ UNCHANGED <<is_running, main, starts, receiving, blocks, parsed, mutex, sent>>

(* The size of the datagram is that of the map now, with no mutex: a block   *)
(* that the receive thread puts in meanwhile is counted or not.              *)
SendReport ==
  /\ sending = "send"
  /\ sent' = [size |-> HeaderWords + BlockWords * Cardinality(blocks), report |-> report]
  /\ sending' = "test"
  /\ UNCHANGED <<is_running, main, starts, receiving, blocks, parsed, mutex, report>>

-----------------------------------------------------------------------------
(* receive_rtcp_packet() and parse_rtcp_packet(). *)

ReceiveTests ==
  /\ receiving = "test"
  /\ receiving' = IF is_running THEN "receive" ELSE "finished"
  /\ UNCHANGED <<is_running, main, starts, sending, blocks, parsed, mutex, report, sent>>

(* Mutant of TimesOut: the socket has no SO_RCVTIMEO.                        *)
NeverTimesOut == FALSE /\ UNCHANGED vars

(* recvfrom() gives up.  rr is looked at though nothing was written to it:   *)
(* if the byte on the stack is 203, the loop ends.                           *)
TimesOut ==
  /\ receiving = "receive"
  /\ receiving' \in {"test", "finished"}
  /\ UNCHANGED <<is_running, main, starts, sending, blocks, parsed, mutex, report, sent>>

(* A datagram that is too short or is no receiver report, a BYE included.    *)
RejectDatagram ==
  /\ receiving = "receive"
  /\ receiving' = "test"
  /\ UNCHANGED <<is_running, main, starts, sending, blocks, parsed, mutex, report, sent>>

(* Mutant of AcceptReport: a report replaces what earlier ones have left.    *)
AcceptReportAfresh(S) ==
  /\ receiving = "receive"
  /\ receiving' = "parse"
  /\ mutex' = TRUE
  /\ blocks' = {}
  /\ parsed' = S
  /\ UNCHANGED <<is_running, main, starts, sending, report, sent>>

(* report_count_ says how many blocks are read from the buffer.  What is not *)
(* in the datagram is what an earlier one has left there: any sources.       *)
AcceptReport(S) ==
  /\ receiving = "receive"
  /\ receiving' = "parse"
  /\ mutex' = TRUE
  /\ parsed' = S
  /\ UNCHANGED <<is_running, main, starts, sending, blocks, report, sent>>

KeepBlock ==
  /\ receiving = "parse"
  /\ \E s \in parsed : blocks' = blocks \cup {s} /\ parsed' = parsed \ {s}
  /\ UNCHANGED <<is_running, main, starts, sending, receiving, mutex, report, sent>>

EndParse ==
  /\ receiving = "parse" /\ parsed = {}
  /\ mutex' = FALSE
  /\ receiving' = "test"
  /\ UNCHANGED <<is_running, main, starts, sending, blocks, parsed, report, sent>>

-----------------------------------------------------------------------------
Owner == StartReceive \/ StopSignals \/ JoinSend \/ JoinReceive

SendThread == SendTests \/ FillReport \/ SendReport

ReceiveThread == ReceiveTests \/ TimesOut \/ KeepBlock \/ EndParse

Datagram == RejectDatagram \/ \E S \in SUBSET Sources : AcceptReport(S)

Next == StartSend \/ Destroy \/ Owner \/ SendThread \/ ReceiveThread \/ Datagram

(* Threads run, sleeps end and recvfrom() times out.  Nobody needs to call   *)
(* start(), and a client need not send anything.                             *)
Fairness == WF_vars(Owner) /\ WF_vars(SendThread) /\ WF_vars(ReceiveThread)

Spec     == Init /\ [][Next]_vars
FairSpec == Spec /\ Fairness

-----------------------------------------------------------------------------
Reports == [length : Nat, blocks : SUBSET Sources]

(* Types; the mutex is held from the first block of a datagram to the last.  *)
TypeOK ==
  /\ is_running \in BOOLEAN
  /\ main \in {"idle", "startReceive", "started", "joinSend", "joinReceive", "destroyed"}
  /\ starts \in 0 .. MaxStarts
  /\ sending \in {"none", "test", "sleep", "send", "finished"}
  /\ receiving \in {"none", "test", "receive", "parse", "finished"}
  /\ blocks \in SUBSET Sources
  /\ parsed \in SUBSET Sources
  /\ mutex = (receiving = "parse")
  /\ receiving # "parse" => parsed = {}
  /\ report \in Reports
  /\ sent \in [size : Nat, report : Reports]

(* When stop() has returned neither thread exists, so start() replaces no    *)
(* thread that is still joinable and the destructor closes no socket in use  *)
(* (RtpRtcpHandler.cpp:70-88).                                               *)
HandlerOutlivesItsThreads ==
  /\ main \in {"idle", "destroyed"} => sending = "none" /\ receiving = "none"
  /\ main = "startReceive" => receiving = "none"

(* A datagram is never shorter than its header says, although the length is  *)
(* computed under the mutex and the size after the unlock                    *)
(* (RtpRtcpHandler.cpp:346,355): the map never shrinks.                      *)
ReportIsWhole ==
  sent.size >= sent.report.length + 1

(* No report leaves once stop() has returned, not even after another start() *)
(* (Session.cpp:77): the last one is sent before stop() or while it waits.   *)
NoReportAfterStop ==
  [][SendReport => is_running \/ main = "joinSend"]_vars

(* stop(), and with it the PLAY that calls it and the destructor, returns    *)
(* even if the client never sends a datagram (RtpRtcpHandler.cpp:53,79-88).  *)
StopReturns ==
  (main = "joinSend") ~> (main = "idle")
=============================================================================
