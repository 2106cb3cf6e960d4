------------------------- MODULE RtcpThreads_proofs -------------------------
(* Proofs about RtcpThreads, for any sources and any number of starts.       *)
EXTENDS RtcpThreads, FiniteSetTheorems, TLAPS

(* Each thread exists only between its creation and its join.                *)
Joined ==
  /\ HandlerOutlivesItsThreads
  /\ main = "joinReceive" => sending = "none"

(* The send thread is past its test only while it may still send.            *)
MaySend == sending \in {"sleep", "send"} => is_running \/ main = "joinSend"

(* The map has every block of the report, and has grown since at most.       *)
ReportIsOld ==
  /\ report.blocks \subseteq blocks
  /\ report.length = HeaderWords - 1 + BlockWords * Cardinality(report.blocks)

IInv == TypeOK /\ Joined /\ MaySend /\ ReportIsOld /\ ReportIsWhole

LEMMA SizesOfMaps ==
  ASSUME NEW S \in SUBSET Sources
  PROVE  IsFiniteSet(S) /\ Cardinality(S) \in Nat
BY SourcesAssumption, FS_Subset, FS_CardinalityType

LEMMA ReportType ==
  ASSUME NEW S \in SUBSET Sources
  PROVE  [length |-> HeaderWords - 1 + BlockWords * Cardinality(S), blocks |-> S] \in Reports
<1>1. Cardinality(S) \in Nat
  BY SizesOfMaps
<1>2. HeaderWords - 1 + BlockWords * Cardinality(S) \in Nat
  BY <1>1 DEF HeaderWords, BlockWords
<1> QED
  BY <1>2 DEF Reports

LEMMA InitOK == Init => IInv
<1> SUFFICES ASSUME Init PROVE IInv
  OBVIOUS
<1>1. Cardinality({}) = 0
  BY FS_EmptySet
<1>2. /\ NoReport \in Reports
      /\ NoReport.blocks = {}
      /\ NoReport.length = HeaderWords - 1 + BlockWords * Cardinality({})
  BY <1>1 DEF NoReport, Reports, HeaderWords, BlockWords
<1>3. TypeOK
  <2>1. [size |-> HeaderWords, report |-> NoReport] \in [size : Nat, report : Reports]
    BY <1>2 DEF HeaderWords
  <2>2. report \in Reports /\ sent \in [size : Nat, report : Reports]
    BY <1>2, <2>1, Zenon DEF Init
  <2>3. starts \in 0 .. MaxStarts
    BY StartsAssumption DEF Init
  <2>4. mutex = (receiving = "parse")
    BY Zenon DEF Init
  <2> QED
    BY <2>2, <2>3, <2>4 DEF Init, TypeOK
<1>4. Joined /\ MaySend
  BY DEF Init, Joined, HandlerOutlivesItsThreads, MaySend
<1>5. ReportIsOld /\ ReportIsWhole
  BY <1>2 DEF Init, ReportIsOld, ReportIsWhole, NoReport, HeaderWords
<1> QED
  BY <1>3, <1>4, <1>5 DEF IInv

-----------------------------------------------------------------------------
(* A step that leaves the report and what was sent alone, and takes nothing  *)
(* out of the map.                                                           *)
LEMMA ReportStays ==
  ASSUME IInv, UNCHANGED <<report, sent>>, blocks \subseteq blocks'
  PROVE  ReportIsOld' /\ ReportIsWhole'
BY DEF IInv, ReportIsOld, ReportIsWhole

LEMMA OwnerStep ==
  ASSUME IInv, StartSend \/ Destroy \/ Owner
  PROVE  IInv'
<1> USE DEF IInv, TypeOK, Joined, HandlerOutlivesItsThreads, MaySend
<1>1. UNCHANGED <<blocks, report, sent>>
  BY DEF Owner, StartSend, Destroy, StartReceive, StopSignals, JoinSend, JoinReceive
<1>2. ReportIsOld' /\ ReportIsWhole'
  BY <1>1, ReportStays
<1>3. CASE StartSend
  BY <1>2, <1>3, StartsAssumption DEF StartSend
<1>4. CASE StartReceive
  BY <1>2, <1>4 DEF StartReceive
<1>5. CASE StopSignals
  BY <1>2, <1>5 DEF StopSignals
<1>6. CASE JoinSend
  BY <1>2, <1>6 DEF JoinSend
<1>7. CASE JoinReceive
  BY <1>2, <1>7 DEF JoinReceive
<1>8. CASE Destroy
  BY <1>2, <1>8 DEF Destroy
<1> QED
  BY <1>3, <1>4, <1>5, <1>6, <1>7, <1>8 DEF Owner

LEMMA SendStep ==
  ASSUME IInv, SendThread
  PROVE  IInv'
<1>1. CASE SendTests
  <2>1. ReportIsOld' /\ ReportIsWhole'
    BY <1>1, ReportStays DEF SendTests
  <2> QED
    BY <1>1, <2>1
    DEF SendTests, IInv, TypeOK, Joined, HandlerOutlivesItsThreads, MaySend
<1>2. CASE FillReport
  <2>1. blocks \in SUBSET Sources
    BY DEF IInv, TypeOK
  <2>2. report' \in Reports
    BY <1>2, <2>1, ReportType DEF FillReport
  <2>3. ReportIsOld' /\ ReportIsWhole'
    BY <1>2, <2>1 DEF FillReport, IInv, ReportIsOld, ReportIsWhole
  <2>4. UNCHANGED <<is_running, main, starts, receiving, blocks, parsed, mutex, sent>>
        /\ sending = "sleep" /\ sending' = "send"
    BY <1>2 DEF FillReport
  <2> QED
    BY <2>2, <2>3, <2>4
    DEF IInv, TypeOK, Joined, HandlerOutlivesItsThreads, MaySend
<1>3. CASE SendReport
  <2>1. blocks \in SUBSET Sources /\ report \in Reports
    BY DEF IInv, TypeOK
  <2>2. /\ IsFiniteSet(blocks) /\ report.blocks \in SUBSET Sources
        /\ Cardinality(blocks) \in Nat /\ Cardinality(report.blocks) \in Nat
    BY <2>1, SizesOfMaps DEF Reports
  <2>3. Cardinality(report.blocks) <= Cardinality(blocks)
    BY <2>2, FS_Subset DEF IInv, ReportIsOld
  <2>4. /\ sent' = [size |-> HeaderWords + BlockWords * Cardinality(blocks), report |-> report]
        /\ UNCHANGED <<is_running, main, starts, receiving, blocks, parsed, mutex, report>>
        /\ sending = "send" /\ sending' = "test"
    BY <1>3 DEF SendReport
  <2>5. HeaderWords + BlockWords * Cardinality(blocks) \in Nat
    BY <2>2 DEF HeaderWords, BlockWords
  <2>6. ReportIsWhole'
    BY <2>2, <2>3, <2>4 DEF IInv, ReportIsOld, ReportIsWhole, HeaderWords, BlockWords
  <2>7. ReportIsOld'
    BY <2>4 DEF IInv, ReportIsOld
  <2> QED
    BY <2>1, <2>4, <2>5, <2>6, <2>7
    DEF IInv, TypeOK, Joined, HandlerOutlivesItsThreads, MaySend
<1> QED
  BY <1>1, <1>2, <1>3 DEF SendThread

LEMMA ReceiveStep ==
  ASSUME IInv, ReceiveThread \/ Datagram
  PROVE  IInv'
<1> USE DEF IInv, TypeOK, Joined, HandlerOutlivesItsThreads, MaySend
<1>1. UNCHANGED <<report, sent>> /\ blocks \subseteq blocks'
  BY DEF ReceiveThread, Datagram, ReceiveTests, TimesOut, KeepBlock, EndParse,
         RejectDatagram, AcceptReport
<1>2. ReportIsOld' /\ ReportIsWhole'
  BY <1>1, ReportStays
<1>3. CASE ReceiveTests
  BY <1>2, <1>3 DEF ReceiveTests
<1>4. CASE TimesOut
  BY <1>2, <1>4 DEF TimesOut
<1>5. CASE KeepBlock
  BY <1>2, <1>5 DEF KeepBlock
<1>6. CASE EndParse
  BY <1>2, <1>6 DEF EndParse
<1>7. CASE RejectDatagram
  BY <1>2, <1>7 DEF RejectDatagram
<1>8. CASE \E S \in SUBSET Sources : AcceptReport(S)
  <2>1. PICK S \in SUBSET Sources : AcceptReport(S)
    BY <1>8
  <2> QED
    BY <1>2, <2>1 DEF AcceptReport
<1> QED
  BY <1>3, <1>4, <1>5, <1>6, <1>7, <1>8 DEF ReceiveThread, Datagram

LEMMA Invariance == Spec => []IInv
<1>1. IInv /\ [Next]_vars => IInv'
  <2> SUFFICES ASSUME IInv, [Next]_vars PROVE IInv'
    OBVIOUS
  <2>1. CASE Next
    BY <2>1, OwnerStep, SendStep, ReceiveStep DEF Next
  <2>2. CASE UNCHANGED vars
    BY <2>2 DEF vars, IInv, TypeOK, Joined, HandlerOutlivesItsThreads, MaySend,
                ReportIsOld, ReportIsWhole
  <2> QED
    BY <2>1, <2>2
<1> QED
  BY InitOK, <1>1, PTL DEF Spec

-----------------------------------------------------------------------------
(* Neither thread exists when stop() has returned, so none is replaced by    *)
(* start() and none uses the sockets the destructor closes                   *)
(* (RtpRtcpHandler.cpp:70-88).                                               *)
THEOREM ThreadsEndFirst == Spec => []HandlerOutlivesItsThreads
<1>1. IInv => HandlerOutlivesItsThreads
  BY DEF IInv, Joined
<1> QED
  BY <1>1, Invariance, PTL

(* Whatever blocks arrive between the unlock and sendto(), a report has the  *)
(* length its header tells (RtpRtcpHandler.cpp:346,355).                     *)
THEOREM ReportsAreWhole == Spec => []ReportIsWhole
<1>1. IInv => ReportIsWhole
  BY DEF IInv
<1> QED
  BY <1>1, Invariance, PTL

(* A report leaves before stop() or while stop() waits for its thread, and   *)
(* never after a second start() (Session.cpp:77).                            *)
THEOREM ReportsEndWithStop == Spec => NoReportAfterStop
<1>1. IInv /\ [Next]_vars => [SendReport => is_running \/ main = "joinSend"]_vars
  BY DEF IInv, MaySend, SendReport
<1> QED
  BY <1>1, Invariance, PTL DEF Spec, NoReportAfterStop
=============================================================================
