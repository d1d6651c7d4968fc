---------------------------- MODULE Quiesce_proofs ----------------------------
(***************************************************************************)
(* quiesceDatapath beside a callback: the safety properties hold on either *)
(* thread and for every interleaving of the split callbacks and the        *)
(* unordered stores, because of the inductive invariant IInv.              *)
(***************************************************************************)
EXTENDS Quiesce, TLAPS

(* How far the teardown is says which flags have been stored, whether the  *)
(* objects exist, and when the queue is busy with Stop itself.             *)
Latched ==
  /\ teardown # "none" => /\ "stopping" \in unlatched \/ stopping
                          /\ "txDatapathReady" \in unlatched \/ ~txDatapathReady
  /\ GatesClosed => unlatched = {}
  /\ objects <=> teardown # "released"
  /\ callback = "stop" <=> /\ quiescer = "queue"
                           /\ teardown \in {"latching", "abortIn", "abortOut", "aborted"}

(* Behind closed gates only the straggler is past a gate: what begins      *)
(* later gets no further than armRxRead's test of stopping.                *)
StragglerOnly ==
  /\ straggler => /\ quiescer = "start" /\ GatesClosed /\ teardown # "released"
                  /\ callback \notin {"idle", "stop"}
  /\ GatesClosed /\ ~straggler =>
       callback \in {"idle", "stop", "rxComplete", "arm", "armFailed"}

(* Reads outstanding: one at most, none where armRxRead is about to submit *)
(* one, and none that rxArmed does not tell of, but for the moment between *)
(* AsyncIO and the store.                                                  *)
ReadBook ==
  /\ inBusy + inDone <= 1
  /\ callback = "submitRead" => inBusy + inDone = 0
  /\ objects /\ ~rxArmed /\ callback # "readAccepted" => inBusy + inDone = 0

(* Frames outstanding, the same: txInFlight is stored before AsyncIO.      *)
FrameBook ==
  /\ outBusy + outDone <= 1
  /\ callback = "submitFrame" => txInFlight /\ outBusy + outDone = 0
  /\ objects /\ ~txInFlight => outBusy + outDone = 0

(* A straggler that has submitted late has no second submission left: the  *)
(* read's AsyncIO ends armRxRead, and the frame keeps txInFlight up, which *)
(* nobody takes down before its drain ends.                                *)
LateBook ==
  /\ lateIn + lateOut <= 1
  /\ lateIn + lateOut > 0 => quiescer = "start" /\ GatesClosed /\ teardown # "abortIn"
  /\ lateIn + lateOut > 0 /\ straggler =>
       \/ callback = "readAccepted"
       \/ callback = "drain" /\ txInFlight /\ teardown \in {"aborted", "done"}

IInv == TypeOK /\ Latched /\ StragglerOnly /\ ReadBook /\ FrameBook /\ LateBook

-----------------------------------------------------------------------------
(* Types, in two parts.                                                    *)

ControlTyped ==
  /\ quiescer \in Quiescers
  /\ teardown \in {"none", "latching", "abortIn", "abortOut", "aborted", "done", "released"}
  /\ unlatched \subseteq Gates
  /\ callback \in {"idle", "stop", "enabling", "enablingUnordered", "rxComplete",
                   "drain", "submitFrame"} \cup ArmSteps
  /\ arming \in {"enable", "loop"}

FlagsTyped ==
  /\ stopping \in BOOLEAN /\ rxRunning \in BOOLEAN /\ txDatapathReady \in BOOLEAN
  /\ rxArmed \in BOOLEAN /\ txInFlight \in BOOLEAN
  /\ objects \in BOOLEAN /\ up \in BOOLEAN /\ wake \in BOOLEAN
  /\ straggler \in BOOLEAN

CountsTyped ==
  /\ inBusy \in Nat /\ outBusy \in Nat /\ inDone \in Nat /\ outDone \in Nat
  /\ lateIn \in Nat /\ lateOut \in Nat

(* The parts are TypeOK, as the books bound the counts.                    *)
LEMMA TypeParts ==
  /\ TypeOK => ControlTyped /\ FlagsTyped /\ CountsTyped
  /\ ControlTyped /\ FlagsTyped /\ CountsTyped /\ ReadBook /\ FrameBook /\ LateBook => TypeOK
<1>1. TypeOK => CountsTyped
  BY DEF TypeOK, CountsTyped
<1>2. TypeOK => ControlTyped /\ FlagsTyped
  BY Zenon DEF TypeOK, ControlTyped, FlagsTyped
<1>3. CountsTyped /\ ReadBook /\ FrameBook /\ LateBook =>
        /\ inBusy \in 0 .. 1 /\ outBusy \in 0 .. 1 /\ inDone \in 0 .. 1 /\ outDone \in 0 .. 1
        /\ lateIn \in 0 .. 1 /\ lateOut \in 0 .. 1
  BY DEF CountsTyped, ReadBook, FrameBook, LateBook
<1> QED
  BY <1>1, <1>2, <1>3, Zenon DEF TypeOK, ControlTyped, FlagsTyped

(* Every step keeps the types of the control state.                        *)
LEMMA ControlTypedStep ==
  ASSUME TypeOK, [Next]_vars
  PROVE  ControlTyped'
<1> USE DEF ControlTyped, ArmSteps
<1>0. ControlTyped
  BY TypeParts
<1>1. CASE ReadEnds
  BY <1>0, <1>1 DEF ReadEnds, quiesceVars
<1>2. CASE FrameEnds
  BY <1>0, <1>2 DEF FrameEnds, quiesceVars
<1>3. CASE EnableBegins
  BY <1>0, <1>3 DEF EnableBegins, Goes, Elsewhere, quiesceVars
<1>4. CASE EnableRuns
  BY <1>0, <1>4 DEF EnableRuns, Goes, Elsewhere, quiesceVars
<1>5. CASE EnableReadsFirst
  BY <1>0, <1>5 DEF EnableReadsFirst, Goes, Elsewhere, quiesceVars
<1>6. CASE EnableStoresLast
  BY <1>0, <1>6 DEF EnableStoresLast, Goes, Elsewhere, quiesceVars
<1>7. CASE Disable
  BY <1>0, <1>7 DEF Disable, Goes, Elsewhere, quiesceVars
<1>8. CASE RxCompleteBegins
  BY <1>0, <1>8 DEF RxCompleteBegins, Goes, Elsewhere, quiesceVars
<1>9. CASE RxCompleteRearms
  BY <1>0, <1>9 DEF RxCompleteRearms, Goes, Elsewhere, quiesceVars
<1>10. CASE RxCompleteReturns
  BY <1>0, <1>10 DEF RxCompleteReturns, Goes, Elsewhere, quiesceVars
<1>11. CASE RxBackoffExpired
  BY <1>0, <1>11 DEF RxBackoffExpired, Goes, Elsewhere, quiesceVars
<1>12. CASE ArmRxRead
  BY <1>0, <1>12 DEF ArmRxRead, Goes, Elsewhere, quiesceVars
<1>13. CASE ArmTestsArmed
  BY <1>0, <1>13 DEF ArmTestsArmed, Goes, Elsewhere, quiesceVars
<1>14. CASE SubmitRead
  BY <1>0, <1>14 DEF SubmitRead, Goes, Elsewhere, quiesceVars
<1>15. CASE SubmitReadFails
  BY <1>0, <1>15 DEF SubmitReadFails, Goes, Elsewhere, quiesceVars
<1>16. CASE ReadAccepted
  BY <1>0, <1>16 DEF ReadAccepted, Goes, Elsewhere, quiesceVars
<1>17. CASE ArmFailed
  BY <1>0, <1>17 DEF ArmFailed, Goes, Elsewhere, quiesceVars
<1>18. CASE TxDataAvailable
  BY <1>0, <1>18 DEF TxDataAvailable, Goes, Elsewhere, quiesceVars
<1>19. CASE TxComplete
  BY <1>0, <1>19 DEF TxComplete, Goes, Elsewhere, quiesceVars
<1>20. CASE DrainFrames
  BY <1>0, <1>20 DEF DrainFrames, Goes, Elsewhere, quiesceVars
<1>21. CASE SubmitFrame
  BY <1>0, <1>21 DEF SubmitFrame, Goes, Elsewhere, quiesceVars
<1>22. CASE SubmitFrameFails
  BY <1>0, <1>22 DEF SubmitFrameFails, Goes, Elsewhere, quiesceVars
<1>23. CASE DrainEnds
  BY <1>0, <1>23 DEF DrainEnds, Goes, Elsewhere, quiesceVars
<1>24. CASE QuiesceBegins
  BY <1>0, <1>24 DEF QuiesceBegins
<1>25. ASSUME NEW flag \in Gates, LatchFlag(flag)
      PROVE  ControlTyped'
  BY <1>0, <1>25 DEF LatchFlag
<1>26. CASE GatesAreClosed
  BY <1>0, <1>26 DEF GatesAreClosed
<1>27. CASE AbortIn
  BY <1>0, <1>27 DEF AbortIn
<1>28. CASE AbortOut
  BY <1>0, <1>28 DEF AbortOut
<1>29. CASE QuiesceReturns
  BY <1>0, <1>29 DEF QuiesceReturns
<1>30. CASE ReleaseResources
  BY <1>0, <1>30 DEF ReleaseResources
<1>31. CASE UNCHANGED vars
  BY <1>0, <1>31 DEF vars, quiesceVars
<1> QED
  BY <1>1, <1>2, <1>3, <1>4, <1>5, <1>6, <1>7, <1>8, <1>9, <1>10, <1>11, <1>12, <1>13,
     <1>14, <1>15, <1>16, <1>17, <1>18, <1>19, <1>20, <1>21, <1>22, <1>23, <1>24, <1>25,
     <1>26, <1>27, <1>28, <1>29, <1>30, <1>31 DEF Next, Interface, Receive, Arm,
     Transmit, Teardown

(* Every step keeps the types of the flags.                                *)
LEMMA FlagsTypedStep ==
  ASSUME TypeOK, [Next]_vars
  PROVE  FlagsTyped'
<1> USE DEF FlagsTyped
<1>0. FlagsTyped
  BY TypeParts
<1>1. CASE ReadEnds
  BY <1>0, <1>1 DEF ReadEnds, gateVars
<1>2. CASE FrameEnds
  BY <1>0, <1>2 DEF FrameEnds, gateVars
<1>3. CASE EnableBegins
  BY <1>0, <1>3 DEF EnableBegins, Goes, Elsewhere, gateVars
<1>4. CASE EnableRuns
  BY <1>0, <1>4 DEF EnableRuns, Goes, Elsewhere, gateVars
<1>5. CASE EnableReadsFirst
  BY <1>0, <1>5 DEF EnableReadsFirst, Goes, Elsewhere, gateVars
<1>6. CASE EnableStoresLast
  BY <1>0, <1>6 DEF EnableStoresLast, Goes, Elsewhere, gateVars
<1>7. CASE Disable
  BY <1>0, <1>7 DEF Disable, Goes, Elsewhere, gateVars
<1>8. CASE RxCompleteBegins
  BY <1>0, <1>8 DEF RxCompleteBegins, Goes, Elsewhere, gateVars
<1>9. CASE RxCompleteRearms
  BY <1>0, <1>9 DEF RxCompleteRearms, Goes, Elsewhere, gateVars
<1>10. CASE RxCompleteReturns
  BY <1>0, <1>10 DEF RxCompleteReturns, Goes, Elsewhere, gateVars
<1>11. CASE RxBackoffExpired
  BY <1>0, <1>11 DEF RxBackoffExpired, Goes, Elsewhere, gateVars
<1>12. CASE ArmRxRead
  BY <1>0, <1>12 DEF ArmRxRead, Goes, Elsewhere, gateVars
<1>13. CASE ArmTestsArmed
  BY <1>0, <1>13 DEF ArmTestsArmed, Goes, Elsewhere, gateVars
<1>14. CASE SubmitRead
  BY <1>0, <1>14 DEF SubmitRead, Goes, Elsewhere, gateVars
<1>15. CASE SubmitReadFails
  BY <1>0, <1>15 DEF SubmitReadFails, Goes, Elsewhere, gateVars
<1>16. CASE ReadAccepted
  BY <1>0, <1>16 DEF ReadAccepted, Goes, Elsewhere, gateVars
<1>17. CASE ArmFailed
  BY <1>0, <1>17 DEF ArmFailed, Goes, Elsewhere, gateVars
<1>18. CASE TxDataAvailable
  BY <1>0, <1>18 DEF TxDataAvailable, Goes, Elsewhere, gateVars
<1>19. CASE TxComplete
  BY <1>0, <1>19 DEF TxComplete, Goes, Elsewhere, gateVars
<1>20. CASE DrainFrames
  BY <1>0, <1>20 DEF DrainFrames, Goes, Elsewhere, gateVars
<1>21. CASE SubmitFrame
  BY <1>0, <1>21 DEF SubmitFrame, Goes, Elsewhere, gateVars
<1>22. CASE SubmitFrameFails
  BY <1>0, <1>22 DEF SubmitFrameFails, Goes, Elsewhere, gateVars
<1>23. CASE DrainEnds
  BY <1>0, <1>23 DEF DrainEnds, Goes, Elsewhere, gateVars
<1>24. CASE QuiesceBegins
  BY <1>0, <1>24 DEF QuiesceBegins, gateVars
<1>25. ASSUME NEW flag \in Gates, LatchFlag(flag)
      PROVE  FlagsTyped'
  BY <1>0, <1>25 DEF LatchFlag
<1>26. CASE GatesAreClosed
  BY <1>0, <1>26 DEF GatesAreClosed, gateVars
<1>27. CASE AbortIn
  BY <1>0, <1>27 DEF AbortIn, gateVars
<1>28. CASE AbortOut
  BY <1>0, <1>28 DEF AbortOut, gateVars
<1>29. CASE QuiesceReturns
  BY <1>0, <1>29 DEF QuiesceReturns, gateVars
<1>30. CASE ReleaseResources
  BY <1>0, <1>30 DEF ReleaseResources, gateVars
<1>31. CASE UNCHANGED vars
  BY <1>0, <1>31 DEF vars, gateVars
<1> QED
  BY <1>1, <1>2, <1>3, <1>4, <1>5, <1>6, <1>7, <1>8, <1>9, <1>10, <1>11, <1>12, <1>13,
     <1>14, <1>15, <1>16, <1>17, <1>18, <1>19, <1>20, <1>21, <1>22, <1>23, <1>24, <1>25,
     <1>26, <1>27, <1>28, <1>29, <1>30, <1>31 DEF Next, Interface, Receive, Arm,
     Transmit, Teardown

(* Every step keeps the types of the counts.                               *)
LEMMA CountsTypedStep ==
  ASSUME TypeOK, [Next]_vars
  PROVE  CountsTyped'
<1> USE DEF CountsTyped
<1>0. CountsTyped
  BY TypeParts
<1>1. CASE ReadEnds
  BY <1>0, <1>1 DEF ReadEnds, lateVars
<1>2. CASE FrameEnds
  BY <1>0, <1>2 DEF FrameEnds, lateVars
<1>3. CASE EnableBegins
  BY <1>0, <1>3 DEF EnableBegins, usbVars, lateVars
<1>4. CASE EnableRuns
  BY <1>0, <1>4 DEF EnableRuns, usbVars, lateVars
<1>5. CASE EnableReadsFirst
  BY <1>0, <1>5 DEF EnableReadsFirst, usbVars, lateVars
<1>6. CASE EnableStoresLast
  BY <1>0, <1>6 DEF EnableStoresLast, usbVars, lateVars
<1>7. CASE Disable
  BY <1>0, <1>7 DEF Disable, usbVars, lateVars
<1>8. CASE RxCompleteBegins
  BY <1>0, <1>8 DEF RxCompleteBegins, usbVars, lateVars
<1>9. CASE RxCompleteRearms
  BY <1>0, <1>9 DEF RxCompleteRearms, usbVars, lateVars
<1>10. CASE RxCompleteReturns
  BY <1>0, <1>10 DEF RxCompleteReturns, usbVars, lateVars
<1>11. CASE RxBackoffExpired
  BY <1>0, <1>11 DEF RxBackoffExpired, usbVars, lateVars
<1>12. CASE ArmRxRead
  BY <1>0, <1>12 DEF ArmRxRead, usbVars, lateVars
<1>13. CASE ArmTestsArmed
  BY <1>0, <1>13 DEF ArmTestsArmed, usbVars, lateVars
<1>14. CASE SubmitRead
  BY <1>0, <1>14 DEF SubmitRead, usbVars, lateVars
<1>15. CASE SubmitReadFails
  BY <1>0, <1>15 DEF SubmitReadFails, usbVars, lateVars
<1>16. CASE ReadAccepted
  BY <1>0, <1>16 DEF ReadAccepted, usbVars, lateVars
<1>17. CASE ArmFailed
  BY <1>0, <1>17 DEF ArmFailed, usbVars, lateVars
<1>18. CASE TxDataAvailable
  BY <1>0, <1>18 DEF TxDataAvailable, usbVars, lateVars
<1>19. CASE TxComplete
  BY <1>0, <1>19 DEF TxComplete, usbVars, lateVars
<1>20. CASE DrainFrames
  BY <1>0, <1>20 DEF DrainFrames, usbVars, lateVars
<1>21. CASE SubmitFrame
  BY <1>0, <1>21 DEF SubmitFrame, usbVars, lateVars
<1>22. CASE SubmitFrameFails
  BY <1>0, <1>22 DEF SubmitFrameFails, usbVars, lateVars
<1>23. CASE DrainEnds
  BY <1>0, <1>23 DEF DrainEnds, usbVars, lateVars
<1>24. CASE QuiesceBegins
  BY <1>0, <1>24 DEF QuiesceBegins, usbVars, lateVars
<1>25. ASSUME NEW flag \in Gates, LatchFlag(flag)
      PROVE  CountsTyped'
  BY <1>0, <1>25 DEF LatchFlag, usbVars, lateVars
<1>26. CASE GatesAreClosed
  BY <1>0, <1>26 DEF GatesAreClosed, usbVars, lateVars
<1>27. CASE AbortIn
  BY <1>0, <1>27 DEF AbortIn, lateVars
<1>28. CASE AbortOut
  BY <1>0, <1>28 DEF AbortOut, lateVars
<1>29. CASE QuiesceReturns
  BY <1>0, <1>29 DEF QuiesceReturns, usbVars, lateVars
<1>30. CASE ReleaseResources
  BY <1>0, <1>30 DEF ReleaseResources, usbVars, lateVars
<1>31. CASE UNCHANGED vars
  BY <1>0, <1>31 DEF vars, usbVars, lateVars
<1> QED
  BY <1>1, <1>2, <1>3, <1>4, <1>5, <1>6, <1>7, <1>8, <1>9, <1>10, <1>11, <1>12, <1>13,
     <1>14, <1>15, <1>16, <1>17, <1>18, <1>19, <1>20, <1>21, <1>22, <1>23, <1>24, <1>25,
     <1>26, <1>27, <1>28, <1>29, <1>30, <1>31 DEF Next, Interface, Receive, Arm,
     Transmit, Teardown

-----------------------------------------------------------------------------
(* Control and books.                                                      *)

(* Every step keeps the flags in step with the teardown.                   *)
LEMMA LatchedStep ==
  ASSUME IInv, [Next]_vars
  PROVE  Latched'
<1> USE DEF Latched, GatesClosed, Gates
<1>0. Latched /\ StragglerOnly /\ ControlTyped /\ FlagsTyped
  BY TypeParts DEF IInv
<1>1. CASE ReadEnds
  BY <1>0, <1>1 DEF ReadEnds, quiesceVars, gateVars
<1>2. CASE FrameEnds
  BY <1>0, <1>2 DEF FrameEnds, quiesceVars, gateVars
<1>3. CASE EnableBegins
  BY <1>0, <1>3 DEF EnableBegins, Goes, Elsewhere, quiesceVars, gateVars
<1>4. CASE EnableRuns
  BY <1>0, <1>4 DEF EnableRuns, Goes, Elsewhere, quiesceVars, gateVars
<1>5. CASE EnableReadsFirst
  BY <1>0, <1>5 DEF EnableReadsFirst, Goes, Elsewhere, quiesceVars, gateVars
<1>6. CASE EnableStoresLast
  BY <1>0, <1>6 DEF EnableStoresLast, Goes, Elsewhere, quiesceVars, gateVars
<1>7. CASE Disable
  BY <1>0, <1>7 DEF Disable, Goes, Elsewhere, quiesceVars, gateVars
<1>8. CASE RxCompleteBegins
  BY <1>0, <1>8 DEF RxCompleteBegins, Goes, Elsewhere, quiesceVars, gateVars
<1>9. CASE RxCompleteRearms
  BY <1>0, <1>9 DEF RxCompleteRearms, Goes, Elsewhere, quiesceVars, gateVars
<1>10. CASE RxCompleteReturns
  BY <1>0, <1>10 DEF RxCompleteReturns, Goes, Elsewhere, quiesceVars, gateVars
<1>11. CASE RxBackoffExpired
  BY <1>0, <1>11 DEF RxBackoffExpired, Goes, Elsewhere, quiesceVars, gateVars
<1>12. CASE ArmRxRead
  BY <1>0, <1>12 DEF ArmRxRead, Goes, Elsewhere, quiesceVars, gateVars
<1>13. CASE ArmTestsArmed
  BY <1>0, <1>13 DEF ArmTestsArmed, Goes, Elsewhere, quiesceVars, gateVars
<1>14. CASE SubmitRead
  BY <1>0, <1>14 DEF SubmitRead, Goes, Elsewhere, quiesceVars, gateVars
<1>15. CASE SubmitReadFails
  BY <1>0, <1>15 DEF SubmitReadFails, Goes, Elsewhere, quiesceVars, gateVars
<1>16. CASE ReadAccepted
  BY <1>0, <1>16 DEF ReadAccepted, Goes, Elsewhere, quiesceVars, gateVars
<1>17. CASE ArmFailed
  BY <1>0, <1>17 DEF ArmFailed, Goes, Elsewhere, quiesceVars, gateVars
<1>18. CASE TxDataAvailable
  BY <1>0, <1>18 DEF TxDataAvailable, Goes, Elsewhere, quiesceVars, gateVars
<1>19. CASE TxComplete
  BY <1>0, <1>19 DEF TxComplete, Goes, Elsewhere, quiesceVars, gateVars
<1>20. CASE DrainFrames
  BY <1>0, <1>20 DEF DrainFrames, Goes, Elsewhere, quiesceVars, gateVars
<1>21. CASE SubmitFrame
  BY <1>0, <1>21 DEF SubmitFrame, Goes, Elsewhere, quiesceVars, gateVars
<1>22. CASE SubmitFrameFails
  BY <1>0, <1>22 DEF SubmitFrameFails, Goes, Elsewhere, quiesceVars, gateVars
<1>23. CASE DrainEnds
  BY <1>0, <1>23 DEF DrainEnds, Goes, Elsewhere, quiesceVars, gateVars
<1>24. CASE QuiesceBegins
  BY <1>0, <1>24 DEF QuiesceBegins, gateVars
<1>25. ASSUME NEW flag \in Gates, LatchFlag(flag)
      PROVE  Latched'
  BY <1>0, <1>25 DEF LatchFlag
<1>26. CASE GatesAreClosed
  BY <1>0, <1>26 DEF GatesAreClosed, gateVars
<1>27. CASE AbortIn
  BY <1>0, <1>27 DEF AbortIn, gateVars
<1>28. CASE AbortOut
  BY <1>0, <1>28 DEF AbortOut, gateVars
<1>29. CASE QuiesceReturns
  BY <1>0, <1>29 DEF QuiesceReturns, gateVars
<1>30. CASE ReleaseResources
  BY <1>0, <1>30 DEF ReleaseResources, gateVars
<1>31. CASE UNCHANGED vars
  BY <1>0, <1>31 DEF vars, quiesceVars, gateVars
<1> QED
  BY <1>1, <1>2, <1>3, <1>4, <1>5, <1>6, <1>7, <1>8, <1>9, <1>10, <1>11, <1>12, <1>13,
     <1>14, <1>15, <1>16, <1>17, <1>18, <1>19, <1>20, <1>21, <1>22, <1>23, <1>24, <1>25,
     <1>26, <1>27, <1>28, <1>29, <1>30, <1>31 DEF Next, Interface, Receive, Arm,
     Transmit, Teardown

(* Every step keeps everybody but the straggler before the gates.          *)
LEMMA StragglerStep ==
  ASSUME IInv, [Next]_vars
  PROVE  StragglerOnly'
<1> USE DEF StragglerOnly, Latched, GatesClosed, FlagsTyped
<1>0. StragglerOnly /\ Latched /\ ControlTyped /\ FlagsTyped /\ quiescer \in {"queue", "start"}
  BY TypeParts, QuiesceAssumption DEF IInv, ControlTyped
<1>1. CASE ReadEnds
  BY <1>0, <1>1 DEF ReadEnds, quiesceVars
<1>2. CASE FrameEnds
  BY <1>0, <1>2 DEF FrameEnds, quiesceVars
<1>3. CASE EnableBegins
  BY <1>0, <1>3 DEF EnableBegins, Goes, Elsewhere, quiesceVars
<1>4. CASE EnableRuns
  BY <1>0, <1>4 DEF EnableRuns, Goes, Elsewhere, quiesceVars
<1>5. CASE EnableReadsFirst
  BY <1>0, <1>5 DEF EnableReadsFirst, Goes, Elsewhere, quiesceVars
<1>6. CASE EnableStoresLast
  BY <1>0, <1>6 DEF EnableStoresLast, Goes, Elsewhere, quiesceVars
<1>7. CASE Disable
  BY <1>0, <1>7 DEF Disable, Goes, Elsewhere, quiesceVars
<1>8. CASE RxCompleteBegins
  BY <1>0, <1>8 DEF RxCompleteBegins, Goes, Elsewhere, quiesceVars
<1>9. CASE RxCompleteRearms
  BY <1>0, <1>9 DEF RxCompleteRearms, Goes, Elsewhere, quiesceVars
<1>10. CASE RxCompleteReturns
  BY <1>0, <1>10 DEF RxCompleteReturns, Goes, Elsewhere, quiesceVars
<1>11. CASE RxBackoffExpired
  BY <1>0, <1>11 DEF RxBackoffExpired, Goes, Elsewhere, quiesceVars
<1>12. CASE ArmRxRead
  BY <1>0, <1>12 DEF ArmRxRead, ArmTests, Goes, Elsewhere, quiesceVars
<1>13. CASE ArmTestsArmed
  BY <1>0, <1>13 DEF ArmTestsArmed, BufferIsFree, Goes, Elsewhere, quiesceVars
<1>14. CASE SubmitRead
  BY <1>0, <1>14 DEF SubmitRead, Goes, Elsewhere, quiesceVars
<1>15. CASE SubmitReadFails
  BY <1>0, <1>15 DEF SubmitReadFails, Goes, Elsewhere, quiesceVars
<1>16. CASE ReadAccepted
  BY <1>0, <1>16 DEF ReadAccepted, Goes, Elsewhere, quiesceVars
<1>17. CASE ArmFailed
  BY <1>0, <1>17 DEF ArmFailed, Goes, Elsewhere, quiesceVars
<1>18. CASE TxDataAvailable
  BY <1>0, <1>18 DEF TxDataAvailable, DrainGate, Goes, Elsewhere, quiesceVars
<1>19. CASE TxComplete
  BY <1>0, <1>19 DEF TxComplete, DrainGate, Goes, Elsewhere, quiesceVars
<1>20. CASE DrainFrames
  BY <1>0, <1>20 DEF DrainFrames, DrainContinues, Goes, Elsewhere, quiesceVars
<1>21. CASE SubmitFrame
  BY <1>0, <1>21 DEF SubmitFrame, Goes, Elsewhere, quiesceVars
<1>22. CASE SubmitFrameFails
  BY <1>0, <1>22 DEF SubmitFrameFails, Goes, Elsewhere, quiesceVars
<1>23. CASE DrainEnds
  BY <1>0, <1>23 DEF DrainEnds, Goes, Elsewhere, quiesceVars
<1>24. CASE QuiesceBegins
  BY <1>0, <1>24 DEF QuiesceBegins
<1>25. ASSUME NEW flag \in Gates, LatchFlag(flag)
      PROVE  StragglerOnly'
  BY <1>0, <1>25 DEF LatchFlag
<1>26. CASE GatesAreClosed
  BY <1>0, <1>26 DEF GatesAreClosed
<1>27. CASE AbortIn
  BY <1>0, <1>27 DEF AbortIn
<1>28. CASE AbortOut
  BY <1>0, <1>28 DEF AbortOut
<1>29. CASE QuiesceReturns
  BY <1>0, <1>29 DEF QuiesceReturns
<1>30. CASE ReleaseResources
  BY <1>0, <1>30 DEF ReleaseResources
<1>31. CASE UNCHANGED vars
  BY <1>0, <1>31 DEF vars, quiesceVars
<1> QED
  BY <1>1, <1>2, <1>3, <1>4, <1>5, <1>6, <1>7, <1>8, <1>9, <1>10, <1>11, <1>12, <1>13,
     <1>14, <1>15, <1>16, <1>17, <1>18, <1>19, <1>20, <1>21, <1>22, <1>23, <1>24, <1>25,
     <1>26, <1>27, <1>28, <1>29, <1>30, <1>31 DEF Next, Interface, Receive, Arm,
     Transmit, Teardown

(* Every step keeps the reads' book.                                       *)
LEMMA ReadStep ==
  ASSUME IInv, [Next]_vars
  PROVE  ReadBook'
<1> USE DEF ReadBook, CountsTyped, StragglerOnly, Latched, GatesClosed
<1>0. ReadBook /\ CountsTyped /\ StragglerOnly /\ Latched
  BY TypeParts DEF IInv
<1>1. CASE ReadEnds
  BY <1>0, <1>1 DEF ReadEnds, quiesceVars
<1>2. CASE FrameEnds
  BY <1>0, <1>2 DEF FrameEnds, quiesceVars
<1>3. CASE EnableBegins
  BY <1>0, <1>3 DEF EnableBegins, Goes, Elsewhere, quiesceVars, usbVars
<1>4. CASE EnableRuns
  BY <1>0, <1>4 DEF EnableRuns, Goes, Elsewhere, quiesceVars, usbVars
<1>5. CASE EnableReadsFirst
  BY <1>0, <1>5 DEF EnableReadsFirst, Goes, Elsewhere, quiesceVars, usbVars
<1>6. CASE EnableStoresLast
  BY <1>0, <1>6 DEF EnableStoresLast, Goes, Elsewhere, quiesceVars, usbVars
<1>7. CASE Disable
  BY <1>0, <1>7 DEF Disable, Goes, Elsewhere, quiesceVars, usbVars
<1>8. CASE RxCompleteBegins
  BY <1>0, <1>8 DEF RxCompleteBegins, Goes, Elsewhere, quiesceVars, usbVars
<1>9. CASE RxCompleteRearms
  BY <1>0, <1>9 DEF RxCompleteRearms, Goes, Elsewhere, quiesceVars, usbVars
<1>10. CASE RxCompleteReturns
  BY <1>0, <1>10 DEF RxCompleteReturns, Goes, Elsewhere, quiesceVars, usbVars
<1>11. CASE RxBackoffExpired
  BY <1>0, <1>11 DEF RxBackoffExpired, Goes, Elsewhere, quiesceVars, usbVars
<1>12. CASE ArmRxRead
  BY <1>0, <1>12 DEF ArmRxRead, Goes, Elsewhere, quiesceVars, usbVars
<1>13. CASE ArmTestsArmed
  BY <1>0, <1>13 DEF ArmTestsArmed, BufferIsFree, Goes, Elsewhere, quiesceVars, usbVars
<1>14. CASE SubmitRead
  BY <1>0, <1>14 DEF SubmitRead, Goes, Elsewhere, quiesceVars, usbVars
<1>15. CASE SubmitReadFails
  BY <1>0, <1>15 DEF SubmitReadFails, Goes, Elsewhere, quiesceVars, usbVars
<1>16. CASE ReadAccepted
  BY <1>0, <1>16 DEF ReadAccepted, Goes, Elsewhere, quiesceVars, usbVars
<1>17. CASE ArmFailed
  BY <1>0, <1>17 DEF ArmFailed, Goes, Elsewhere, quiesceVars, usbVars
<1>18. CASE TxDataAvailable
  BY <1>0, <1>18 DEF TxDataAvailable, Goes, Elsewhere, quiesceVars, usbVars
<1>19. CASE TxComplete
  BY <1>0, <1>19 DEF TxComplete, Goes, Elsewhere, quiesceVars, usbVars
<1>20. CASE DrainFrames
  BY <1>0, <1>20 DEF DrainFrames, Goes, Elsewhere, quiesceVars, usbVars
<1>21. CASE SubmitFrame
  BY <1>0, <1>21 DEF SubmitFrame, Goes, Elsewhere, quiesceVars, usbVars
<1>22. CASE SubmitFrameFails
  BY <1>0, <1>22 DEF SubmitFrameFails, Goes, Elsewhere, quiesceVars, usbVars
<1>23. CASE DrainEnds
  BY <1>0, <1>23 DEF DrainEnds, Goes, Elsewhere, quiesceVars, usbVars
<1>24. CASE QuiesceBegins
  BY <1>0, <1>24 DEF QuiesceBegins, usbVars
<1>25. ASSUME NEW flag \in Gates, LatchFlag(flag)
      PROVE  ReadBook'
  BY <1>0, <1>25 DEF LatchFlag, usbVars
<1>26. CASE GatesAreClosed
  BY <1>0, <1>26 DEF GatesAreClosed, usbVars
<1>27. CASE AbortIn
  BY <1>0, <1>27 DEF AbortIn
<1>28. CASE AbortOut
  BY <1>0, <1>28 DEF AbortOut
<1>29. CASE QuiesceReturns
  BY <1>0, <1>29 DEF QuiesceReturns, usbVars
<1>30. CASE ReleaseResources
  BY <1>0, <1>30 DEF ReleaseResources, usbVars
<1>31. CASE UNCHANGED vars
  BY <1>0, <1>31 DEF vars, quiesceVars, usbVars
<1> QED
  BY <1>1, <1>2, <1>3, <1>4, <1>5, <1>6, <1>7, <1>8, <1>9, <1>10, <1>11, <1>12, <1>13,
     <1>14, <1>15, <1>16, <1>17, <1>18, <1>19, <1>20, <1>21, <1>22, <1>23, <1>24, <1>25,
     <1>26, <1>27, <1>28, <1>29, <1>30, <1>31 DEF Next, Interface, Receive, Arm,
     Transmit, Teardown

(* Every step keeps the frames' book.                                      *)
LEMMA FrameStep ==
  ASSUME IInv, [Next]_vars
  PROVE  FrameBook'
<1> USE DEF FrameBook, CountsTyped, StragglerOnly, Latched, GatesClosed
<1>0. FrameBook /\ CountsTyped /\ StragglerOnly /\ Latched
  BY TypeParts DEF IInv
<1>1. CASE ReadEnds
  BY <1>0, <1>1 DEF ReadEnds, quiesceVars
<1>2. CASE FrameEnds
  BY <1>0, <1>2 DEF FrameEnds, quiesceVars
<1>3. CASE EnableBegins
  BY <1>0, <1>3 DEF EnableBegins, Goes, Elsewhere, quiesceVars, usbVars
<1>4. CASE EnableRuns
  BY <1>0, <1>4 DEF EnableRuns, Goes, Elsewhere, quiesceVars, usbVars
<1>5. CASE EnableReadsFirst
  BY <1>0, <1>5 DEF EnableReadsFirst, Goes, Elsewhere, quiesceVars, usbVars
<1>6. CASE EnableStoresLast
  BY <1>0, <1>6 DEF EnableStoresLast, Goes, Elsewhere, quiesceVars, usbVars
<1>7. CASE Disable
  BY <1>0, <1>7 DEF Disable, Goes, Elsewhere, quiesceVars, usbVars
<1>8. CASE RxCompleteBegins
  BY <1>0, <1>8 DEF RxCompleteBegins, Goes, Elsewhere, quiesceVars, usbVars
<1>9. CASE RxCompleteRearms
  BY <1>0, <1>9 DEF RxCompleteRearms, Goes, Elsewhere, quiesceVars, usbVars
<1>10. CASE RxCompleteReturns
  BY <1>0, <1>10 DEF RxCompleteReturns, Goes, Elsewhere, quiesceVars, usbVars
<1>11. CASE RxBackoffExpired
  BY <1>0, <1>11 DEF RxBackoffExpired, Goes, Elsewhere, quiesceVars, usbVars
<1>12. CASE ArmRxRead
  BY <1>0, <1>12 DEF ArmRxRead, Goes, Elsewhere, quiesceVars, usbVars
<1>13. CASE ArmTestsArmed
  BY <1>0, <1>13 DEF ArmTestsArmed, Goes, Elsewhere, quiesceVars, usbVars
<1>14. CASE SubmitRead
  BY <1>0, <1>14 DEF SubmitRead, Goes, Elsewhere, quiesceVars, usbVars
<1>15. CASE SubmitReadFails
  BY <1>0, <1>15 DEF SubmitReadFails, Goes, Elsewhere, quiesceVars, usbVars
<1>16. CASE ReadAccepted
  BY <1>0, <1>16 DEF ReadAccepted, Goes, Elsewhere, quiesceVars, usbVars
<1>17. CASE ArmFailed
  BY <1>0, <1>17 DEF ArmFailed, Goes, Elsewhere, quiesceVars, usbVars
<1>18. CASE TxDataAvailable
  BY <1>0, <1>18 DEF TxDataAvailable, DrainGate, Goes, Elsewhere, quiesceVars, usbVars
<1>19. CASE TxComplete
  BY <1>0, <1>19 DEF TxComplete, DrainGate, Goes, Elsewhere, quiesceVars, usbVars
<1>20. CASE DrainFrames
  BY <1>0, <1>20 DEF DrainFrames, DrainContinues, Goes, Elsewhere, quiesceVars, usbVars
<1>21. CASE SubmitFrame
  BY <1>0, <1>21 DEF SubmitFrame, Goes, Elsewhere, quiesceVars, usbVars
<1>22. CASE SubmitFrameFails
  BY <1>0, <1>22 DEF SubmitFrameFails, Goes, Elsewhere, quiesceVars, usbVars
<1>23. CASE DrainEnds
  BY <1>0, <1>23 DEF DrainEnds, Goes, Elsewhere, quiesceVars, usbVars
<1>24. CASE QuiesceBegins
  BY <1>0, <1>24 DEF QuiesceBegins, usbVars
<1>25. ASSUME NEW flag \in Gates, LatchFlag(flag)
      PROVE  FrameBook'
  BY <1>0, <1>25 DEF LatchFlag, usbVars
<1>26. CASE GatesAreClosed
  BY <1>0, <1>26 DEF GatesAreClosed, usbVars
<1>27. CASE AbortIn
  BY <1>0, <1>27 DEF AbortIn
<1>28. CASE AbortOut
  BY <1>0, <1>28 DEF AbortOut
<1>29. CASE QuiesceReturns
  BY <1>0, <1>29 DEF QuiesceReturns, usbVars
<1>30. CASE ReleaseResources
  BY <1>0, <1>30 DEF ReleaseResources, usbVars
<1>31. CASE UNCHANGED vars
  BY <1>0, <1>31 DEF vars, quiesceVars, usbVars
<1> QED
  BY <1>1, <1>2, <1>3, <1>4, <1>5, <1>6, <1>7, <1>8, <1>9, <1>10, <1>11, <1>12, <1>13,
     <1>14, <1>15, <1>16, <1>17, <1>18, <1>19, <1>20, <1>21, <1>22, <1>23, <1>24, <1>25,
     <1>26, <1>27, <1>28, <1>29, <1>30, <1>31 DEF Next, Interface, Receive, Arm,
     Transmit, Teardown

(* Every step keeps the late submissions' book.                            *)
LEMMA LateStep ==
  ASSUME IInv, [Next]_vars
  PROVE  LateBook'
<1> USE DEF LateBook, CountsTyped, StragglerOnly, Latched, GatesClosed
<1>0. LateBook /\ FrameBook /\ CountsTyped /\ StragglerOnly /\ Latched
  BY TypeParts DEF IInv
<1>1. CASE ReadEnds
  BY <1>0, <1>1 DEF ReadEnds, quiesceVars, lateVars
<1>2. CASE FrameEnds
  BY <1>0, <1>2 DEF FrameEnds, quiesceVars, lateVars
<1>3. CASE EnableBegins
  BY <1>0, <1>3 DEF EnableBegins, Goes, Elsewhere, quiesceVars, lateVars
<1>4. CASE EnableRuns
  BY <1>0, <1>4 DEF EnableRuns, Goes, Elsewhere, quiesceVars, lateVars
<1>5. CASE EnableReadsFirst
  BY <1>0, <1>5 DEF EnableReadsFirst, Goes, Elsewhere, quiesceVars, lateVars
<1>6. CASE EnableStoresLast
  BY <1>0, <1>6 DEF EnableStoresLast, Goes, Elsewhere, quiesceVars, lateVars
<1>7. CASE Disable
  BY <1>0, <1>7 DEF Disable, Goes, Elsewhere, quiesceVars, lateVars
<1>8. CASE RxCompleteBegins
  BY <1>0, <1>8 DEF RxCompleteBegins, Goes, Elsewhere, quiesceVars, lateVars
<1>9. CASE RxCompleteRearms
  BY <1>0, <1>9 DEF RxCompleteRearms, Goes, Elsewhere, quiesceVars, lateVars
<1>10. CASE RxCompleteReturns
  BY <1>0, <1>10 DEF RxCompleteReturns, Goes, Elsewhere, quiesceVars, lateVars
<1>11. CASE RxBackoffExpired
  BY <1>0, <1>11 DEF RxBackoffExpired, Goes, Elsewhere, quiesceVars, lateVars
<1>12. CASE ArmRxRead
  BY <1>0, <1>12 DEF ArmRxRead, Goes, Elsewhere, quiesceVars, lateVars
<1>13. CASE ArmTestsArmed
  BY <1>0, <1>13 DEF ArmTestsArmed, Goes, Elsewhere, quiesceVars, lateVars
<1>14. CASE SubmitRead
  BY <1>0, <1>14 DEF SubmitRead, Goes, Elsewhere, quiesceVars, lateVars
<1>15. CASE SubmitReadFails
  BY <1>0, <1>15 DEF SubmitReadFails, Goes, Elsewhere, quiesceVars, lateVars
<1>16. CASE ReadAccepted
  BY <1>0, <1>16 DEF ReadAccepted, Goes, Elsewhere, quiesceVars, lateVars
<1>17. CASE ArmFailed
  BY <1>0, <1>17 DEF ArmFailed, Goes, Elsewhere, quiesceVars, lateVars
<1>18. CASE TxDataAvailable
  BY <1>0, <1>18 DEF TxDataAvailable, DrainGate, Goes, Elsewhere, quiesceVars, lateVars
<1>19. CASE TxComplete
  BY <1>0, <1>19 DEF TxComplete, DrainGate, Goes, Elsewhere, quiesceVars, lateVars
<1>20. CASE DrainFrames
  BY <1>0, <1>20 DEF DrainFrames, DrainContinues, Goes, Elsewhere, quiesceVars, lateVars
<1>21. CASE SubmitFrame
  BY <1>0, <1>21 DEF SubmitFrame, Goes, Elsewhere, FrameBook, quiesceVars
<1>22. CASE SubmitFrameFails
  BY <1>0, <1>22 DEF SubmitFrameFails, Goes, Elsewhere, quiesceVars, lateVars
<1>23. CASE DrainEnds
  BY <1>0, <1>23 DEF DrainEnds, Goes, Elsewhere, quiesceVars, lateVars
<1>24. CASE QuiesceBegins
  BY <1>0, <1>24 DEF QuiesceBegins, lateVars
<1>25. ASSUME NEW flag \in Gates, LatchFlag(flag)
      PROVE  LateBook'
  BY <1>0, <1>25 DEF LatchFlag, lateVars
<1>26. CASE GatesAreClosed
  BY <1>0, <1>26 DEF GatesAreClosed, lateVars
<1>27. CASE AbortIn
  BY <1>0, <1>27 DEF AbortIn, lateVars
<1>28. CASE AbortOut
  BY <1>0, <1>28 DEF AbortOut, lateVars
<1>29. CASE QuiesceReturns
  BY <1>0, <1>29 DEF QuiesceReturns, lateVars
<1>30. CASE ReleaseResources
  BY <1>0, <1>30 DEF ReleaseResources, lateVars
<1>31. CASE UNCHANGED vars
  BY <1>0, <1>31 DEF vars, quiesceVars, lateVars
<1> QED
  BY <1>1, <1>2, <1>3, <1>4, <1>5, <1>6, <1>7, <1>8, <1>9, <1>10, <1>11, <1>12, <1>13,
     <1>14, <1>15, <1>16, <1>17, <1>18, <1>19, <1>20, <1>21, <1>22, <1>23, <1>24, <1>25,
     <1>26, <1>27, <1>28, <1>29, <1>30, <1>31 DEF Next, Interface, Receive, Arm,
     Transmit, Teardown

-----------------------------------------------------------------------------
(* The theorems.                                                           *)

(* The family knows the driver, nothing is outstanding.                    *)
LEMMA InitInv == Init => IInv
<1> SUFFICES ASSUME Init
             PROVE  IInv
  OBVIOUS
<1>1. ControlTyped /\ FlagsTyped
  BY DEF Init, ControlTyped, FlagsTyped
<1>2. CountsTyped
  BY DEF Init, CountsTyped
<1>3. Latched /\ StragglerOnly
  BY DEF Init, Latched, StragglerOnly, GatesClosed
<1>4. ReadBook /\ FrameBook /\ LateBook
  BY DEF Init, ReadBook, FrameBook, LateBook
<1> QED
  BY <1>1, <1>2, <1>3, <1>4, TypeParts DEF IInv

(* Two counts of which one at most is not zero.                            *)
LEMMA OneOfTwo ==
  ASSUME NEW m \in Nat, NEW n \in Nat, m + n <= 1
  PROVE  m \in 0 .. 1 /\ n \in 0 .. 1
OBVIOUS

(* A step keeps the inductive invariant.                                   *)
LEMMA InvStep ==
  ASSUME IInv, [Next]_vars
  PROVE  IInv'
<1>1. Latched' /\ StragglerOnly' /\ ReadBook' /\ FrameBook' /\ LateBook'
  BY LatchedStep, StragglerStep, ReadStep, FrameStep, LateStep
<1>2. ControlTyped' /\ FlagsTyped' /\ CountsTyped'
  BY ControlTypedStep, FlagsTypedStep, CountsTypedStep DEF IInv
<1>3. inBusy' \in 0 .. 1 /\ inDone' \in 0 .. 1
  BY <1>1, <1>2, OneOfTwo DEF CountsTyped, ReadBook
<1>4. outBusy' \in 0 .. 1 /\ outDone' \in 0 .. 1
  BY <1>1, <1>2, OneOfTwo DEF CountsTyped, FrameBook
<1>5. lateIn' \in 0 .. 1 /\ lateOut' \in 0 .. 1
  BY <1>1, <1>2, OneOfTwo DEF CountsTyped, LateBook
<1>6. TypeOK'
  BY <1>2, <1>3, <1>4, <1>5, Zenon DEF TypeOK, ControlTyped, FlagsTyped
<1> QED
  BY <1>1, <1>6 DEF IInv

(* Every reachable state satisfies the inductive invariant.                *)
THEOREM Invariance == Spec => []IInv
<1>1. IInv /\ [Next]_vars => IInv'
  BY InvStep
<1> QED
  BY <1>1, InitInv, PTL DEF Spec

(* Type correctness, the bounds of the counts included.                    *)
THEOREM TypeCorrect == Spec => []TypeOK
<1>1. IInv => TypeOK
  BY DEF IInv
<1> QED
  BY <1>1, Invariance, PTL

(* Two threads and unordered stores included, each of the two buffers has  *)
(* one transfer at most.                                                   *)
THEOREM OneTransferOnEachBuffer == Spec => []OneTransferEach
<1>1. IInv => OneTransferEach
  BY DEF IInv, ReadBook, FrameBook, OneTransferEach
<1> QED
  BY <1>1, Invariance, PTL

(* One AsyncIO at most is beyond the aborts' reach, and none when Stop     *)
(* runs on the queue.                                                      *)
THEOREM OneLateTransferAtMost == Spec => []LateIoIsBounded
<1>1. IInv => LateIoIsBounded
  <2> SUFFICES ASSUME IInv
               PROVE  LateIoIsBounded
    OBVIOUS
  <2>1. CountsTyped /\ LateBook
    BY TypeParts DEF IInv
  <2> QED
    BY <2>1 DEF CountsTyped, LateBook, LateIoIsBounded
<1> QED
  BY <1>1, Invariance, PTL

(* A step behind closed gates, with no straggler, submits nothing: the     *)
(* callback is not at an AsyncIO.                                          *)
LEMMA QuietStep ==
  ASSUME IInv, [Next]_vars, GatesClosed, ~straggler
  PROVE  inBusy' <= inBusy /\ outBusy' <= outBusy
<1>0. CountsTyped /\ callback \notin {"submitRead", "submitFrame"}
  BY TypeParts DEF IInv, StragglerOnly
<1>1. CASE ReadEnds
  BY <1>0, <1>1 DEF CountsTyped, ReadEnds
<1>2. CASE FrameEnds
  BY <1>0, <1>2 DEF CountsTyped, FrameEnds
<1>3. CASE EnableBegins
  BY <1>0, <1>3 DEF CountsTyped, EnableBegins, usbVars
<1>4. CASE EnableRuns
  BY <1>0, <1>4 DEF CountsTyped, EnableRuns, usbVars
<1>5. CASE EnableReadsFirst
  BY <1>0, <1>5 DEF CountsTyped, EnableReadsFirst, usbVars
<1>6. CASE EnableStoresLast
  BY <1>0, <1>6 DEF CountsTyped, EnableStoresLast, usbVars
<1>7. CASE Disable
  BY <1>0, <1>7 DEF CountsTyped, Disable, usbVars
<1>8. CASE RxCompleteBegins
  BY <1>0, <1>8 DEF CountsTyped, RxCompleteBegins, usbVars
<1>9. CASE RxCompleteRearms
  BY <1>0, <1>9 DEF CountsTyped, RxCompleteRearms, usbVars
<1>10. CASE RxCompleteReturns
  BY <1>0, <1>10 DEF CountsTyped, RxCompleteReturns, usbVars
<1>11. CASE RxBackoffExpired
  BY <1>0, <1>11 DEF CountsTyped, RxBackoffExpired, usbVars
<1>12. CASE ArmRxRead
  BY <1>0, <1>12 DEF CountsTyped, ArmRxRead, usbVars
<1>13. CASE ArmTestsArmed
  BY <1>0, <1>13 DEF CountsTyped, ArmTestsArmed, usbVars
<1>14. CASE SubmitRead
  BY <1>0, <1>14 DEF CountsTyped, SubmitRead, usbVars, Goes
<1>15. CASE SubmitReadFails
  BY <1>0, <1>15 DEF CountsTyped, SubmitReadFails, usbVars
<1>16. CASE ReadAccepted
  BY <1>0, <1>16 DEF CountsTyped, ReadAccepted, usbVars
<1>17. CASE ArmFailed
  BY <1>0, <1>17 DEF CountsTyped, ArmFailed, usbVars
<1>18. CASE TxDataAvailable
  BY <1>0, <1>18 DEF CountsTyped, TxDataAvailable, usbVars
<1>19. CASE TxComplete
  BY <1>0, <1>19 DEF CountsTyped, TxComplete, usbVars
<1>20. CASE DrainFrames
  BY <1>0, <1>20 DEF CountsTyped, DrainFrames, usbVars
<1>21. CASE SubmitFrame
  BY <1>0, <1>21 DEF CountsTyped, SubmitFrame, usbVars, Goes
<1>22. CASE SubmitFrameFails
  BY <1>0, <1>22 DEF CountsTyped, SubmitFrameFails, usbVars
<1>23. CASE DrainEnds
  BY <1>0, <1>23 DEF CountsTyped, DrainEnds, usbVars
<1>24. CASE QuiesceBegins
  BY <1>0, <1>24 DEF CountsTyped, QuiesceBegins, usbVars
<1>25. ASSUME NEW flag \in Gates, LatchFlag(flag)
      PROVE  inBusy' <= inBusy /\ outBusy' <= outBusy
  BY <1>0, <1>25 DEF CountsTyped, LatchFlag, usbVars
<1>26. CASE GatesAreClosed
  BY <1>0, <1>26 DEF CountsTyped, GatesAreClosed, usbVars
<1>27. CASE AbortIn
  BY <1>0, <1>27 DEF CountsTyped, AbortIn
<1>28. CASE AbortOut
  BY <1>0, <1>28 DEF CountsTyped, AbortOut
<1>29. CASE QuiesceReturns
  BY <1>0, <1>29 DEF CountsTyped, QuiesceReturns, usbVars
<1>30. CASE ReleaseResources
  BY <1>0, <1>30 DEF CountsTyped, ReleaseResources, usbVars
<1>31. CASE UNCHANGED vars
  BY <1>0, <1>31 DEF CountsTyped, vars, usbVars
<1> QED
  BY <1>1, <1>2, <1>3, <1>4, <1>5, <1>6, <1>7, <1>8, <1>9, <1>10, <1>11, <1>12, <1>13,
     <1>14, <1>15, <1>16, <1>17, <1>18, <1>19, <1>20, <1>21, <1>22, <1>23, <1>24, <1>25,
     <1>26, <1>27, <1>28, <1>29, <1>30, <1>31 DEF Next, Interface, Receive, Arm,
     Transmit, Teardown

(* Once the gates are closed, no callback that begins later submits.       *)
THEOREM OnlyAStragglerSubmits == Spec => OnlyTheStragglerSubmits
<1>1. IInv /\ [Next]_vars =>
        [GatesClosed /\ ~straggler => inBusy' <= inBusy /\ outBusy' <= outBusy]_vars
  BY QuietStep
<1> QED
  BY <1>1, Invariance, PTL DEF Spec, OnlyTheStragglerSubmits
===============================================================================
