------------------------------- MODULE Quiesce -------------------------------
(***************************************************************************)
(* quiesceDatapath beside a callback (SMSC95xxDriver_datapath.cpp).  Stop  *)
(* runs on the serial dispatch queue, where TxPath and RxPath model it;    *)
(* but when registerEthernetInterface fails after the family has begun to  *)
(* call the driver, quiesceDatapath runs on Start's own thread, and a      *)
(* callback on the queue can be between a gate and the AsyncIO behind it.  *)
(*                                                                         *)
(* So a callback is split here at every flag it tests and at AsyncIO.  The *)
(* flags are plain fields: nothing orders the quiescer's three stores, or  *)
(* the store of rxRunning and the load of stopping behind it, before the   *)
(* next call into the system, and the model takes them in either order.    *)
(* Contents, packets and statuses are in TxPath, RxPath and RxRecords.     *)
(***************************************************************************)
EXTENDS Naturals

CONSTANT Quiescers   \* the threads quiesceDatapath may run on

ASSUME QuiesceAssumption == Quiescers \subseteq {"queue", "start"}

VARIABLES
  quiescer,      \* the thread of this behaviour's quiesceDatapath
  teardown,      \* how far quiesceDatapath and the release are
  unlatched,     \* the flags it has yet to store
  callback,      \* where the callback on the dispatch queue is
  arming,        \* who called armRxRead: "enable" or "loop"
  stopping, rxRunning, txDatapathReady,
  rxArmed, txInFlight,
  objects,       \* the pipes, actions, buffers and queues exist
  up,            \* the packet queues have been enabled once
  wake,          \* the backoff timer has a deadline
  inBusy, outBusy,   \* transfers the controller is executing
  inDone, outDone,   \* completions not delivered yet
  straggler,     \* the callback was running when the last gate was closed
  lateIn, lateOut    \* history: AsyncIOs after the Abort of their pipe

quiesceVars == <<quiescer, teardown, unlatched>>
gateVars    == <<stopping, rxRunning, txDatapathReady>>
usbVars     == <<inBusy, outBusy, inDone, outDone>>
lateVars    == <<lateIn, lateOut>>
vars == <<quiesceVars, callback, arming, gateVars, rxArmed, txInFlight, objects, up, wake,
          usbVars, straggler, lateVars>>

Gates == {"stopping", "rxRunning", "txDatapathReady"}

ArmSteps == {"arm", "armed?", "submitRead", "readAccepted", "armFailed"}

TypeOK ==
  /\ quiescer \in Quiescers
  /\ teardown \in {"none", "latching", "abortIn", "abortOut", "aborted", "done", "released"}
  /\ unlatched \subseteq Gates
  /\ callback \in {"idle", "stop", "enabling", "enablingUnordered", "rxComplete",
                   "drain", "submitFrame"} \cup ArmSteps
  /\ arming \in {"enable", "loop"}
  /\ stopping \in BOOLEAN /\ rxRunning \in BOOLEAN /\ txDatapathReady \in BOOLEAN
  /\ rxArmed \in BOOLEAN /\ txInFlight \in BOOLEAN
  /\ objects \in BOOLEAN /\ up \in BOOLEAN /\ wake \in BOOLEAN
  /\ inBusy \in 0 .. 1 /\ outBusy \in 0 .. 1 /\ inDone \in 0 .. 1 /\ outDone \in 0 .. 1
  /\ straggler \in BOOLEAN
  /\ lateIn \in 0 .. 1 /\ lateOut \in 0 .. 1

(* registerEthernetInterface has been called and the family knows the      *)
(* driver, which has not been enabled.                                     *)
Init ==
  /\ quiescer \in Quiescers
  /\ teardown = "none" /\ unlatched = {}
  /\ callback = "idle" /\ arming = "loop"
  /\ stopping = FALSE /\ rxRunning = FALSE /\ txDatapathReady = TRUE
  /\ rxArmed = FALSE /\ txInFlight = FALSE
  /\ objects = TRUE /\ up = FALSE /\ wake = FALSE
  /\ inBusy = 0 /\ outBusy = 0 /\ inDone = 0 /\ outDone = 0
  /\ straggler = FALSE /\ lateIn = 0 /\ lateOut = 0

-----------------------------------------------------------------------------
(* The controller.                                                         *)

ReadEnds ==
  /\ inBusy > 0
  /\ inBusy' = inBusy - 1 /\ inDone' = inDone + 1
  /\ UNCHANGED <<quiesceVars, callback, arming, gateVars, rxArmed, txInFlight, objects, up,
                 wake, outBusy, outDone, straggler, lateVars>>

FrameEnds ==
  /\ outBusy > 0
  /\ outBusy' = outBusy - 1 /\ outDone' = outDone + 1
  /\ UNCHANGED <<quiesceVars, callback, arming, gateVars, rxArmed, txInFlight, objects, up,
                 wake, inBusy, inDone, straggler, lateVars>>

-----------------------------------------------------------------------------
(* The callbacks, one at a time on the queue.                              *)

(* The callback is at from and goes on to step, or returns ("idle").       *)
Goes(from, step) ==
  /\ callback = from
  /\ callback' = step
  /\ straggler' = (straggler /\ step # "idle")

(* The callbacks' other steps leave these alone.                           *)
Elsewhere == UNCHANGED <<quiesceVars, objects>>

(* setInterfaceEnable(true): its own test of stopping, then super and the  *)
(* four queues.                                                            *)
EnableBegins ==
  /\ ~stopping
  /\ Goes("idle", "enabling")
  /\ up' = TRUE
  /\ Elsewhere
  /\ UNCHANGED <<arming, gateVars, rxArmed, txInFlight, wake, usbVars, lateVars>>

(* rxRunning is set before armRxRead is called ...                         *)
EnableRuns ==
  /\ Goes("enabling", "arm")
  /\ rxRunning' = TRUE /\ arming' = "enable"
  /\ Elsewhere
  /\ UNCHANGED <<stopping, txDatapathReady, rxArmed, txInFlight, up, wake, usbVars, lateVars>>

(* ... or becomes visible after armRxRead has read stopping as FALSE.      *)
EnableReadsFirst ==
  /\ ~stopping
  /\ Goes("enabling", "enablingUnordered")
  /\ Elsewhere
  /\ UNCHANGED <<arming, gateVars, rxArmed, txInFlight, up, wake, usbVars, lateVars>>

EnableStoresLast ==
  /\ Goes("enablingUnordered", "armed?")
  /\ rxRunning' = TRUE /\ arming' = "enable"
  /\ Elsewhere
  /\ UNCHANGED <<stopping, txDatapathReady, rxArmed, txInFlight, up, wake, usbVars, lateVars>>

(* setInterfaceEnable(false) leaves the read outstanding.                  *)
Disable ==
  /\ Goes("idle", "idle")
  /\ up /\ rxRunning' = FALSE
  /\ Elsewhere
  /\ UNCHANGED <<arming, stopping, txDatapathReady, rxArmed, txInFlight, up, wake, usbVars,
                 lateVars>>

(* RxComplete on the queue, to its test of rxRunning.                      *)
RxCompleteBegins ==
  /\ Goes("idle", "rxComplete")
  /\ inDone > 0 /\ inDone' = inDone - 1
  /\ rxArmed' = FALSE
  /\ Elsewhere
  /\ UNCHANGED <<arming, gateVars, txInFlight, up, wake, inBusy, outBusy, outDone, lateVars>>

(* It re-arms, leaves that to the timer, or the path is not running.       *)
RxCompleteRearms ==
  /\ rxRunning /\ objects
  /\ Goes("rxComplete", "arm")
  /\ arming' = "loop"
  /\ Elsewhere
  /\ UNCHANGED <<gateVars, rxArmed, txInFlight, up, wake, usbVars, lateVars>>

RxCompleteReturns ==
  /\ Goes("rxComplete", "idle")
  /\ wake' \in {wake, wake \/ (rxRunning /\ objects)}
  /\ Elsewhere
  /\ UNCHANGED <<arming, gateVars, rxArmed, txInFlight, up, usbVars, lateVars>>

(* RxBackoffExpired, until its source is gone.                             *)
RxBackoffExpired ==
  /\ wake /\ wake' = FALSE
  /\ IF rxRunning
     THEN Goes("idle", "arm") /\ arming' = "loop"
     ELSE Goes("idle", "idle") /\ UNCHANGED arming
  /\ Elsewhere
  /\ UNCHANGED <<gateVars, rxArmed, txInFlight, up, usbVars, lateVars>>

-----------------------------------------------------------------------------
(* armRxRead.                                                              *)

ArmTestsObjectsOnly(ok) == ok = objects

ArmTests(ok) == ok = (~stopping /\ objects)

ArmRxRead ==
  /\ \E ok \in BOOLEAN : ArmTests(ok) /\ Goes("arm", IF ok THEN "armed?" ELSE "armFailed")
  /\ Elsewhere
  /\ UNCHANGED <<arming, gateVars, rxArmed, txInFlight, up, wake, usbVars, lateVars>>

AlwaysFree == TRUE

BufferIsFree == ~rxArmed

ArmTestsArmed ==
  /\ Goes("armed?", IF BufferIsFree THEN "submitRead" ELSE "idle")
  /\ Elsewhere
  /\ UNCHANGED <<arming, gateVars, rxArmed, txInFlight, up, wake, usbVars, lateVars>>

SubmitRead ==
  /\ Goes("submitRead", "readAccepted")
  /\ inBusy' = inBusy + 1
  /\ lateIn' = IF teardown \in {"abortOut", "aborted", "done"} THEN lateIn + 1 ELSE lateIn
  /\ Elsewhere
  /\ UNCHANGED <<arming, gateVars, rxArmed, txInFlight, up, wake, outBusy, inDone, outDone,
                 lateOut>>

SubmitReadFails ==
  /\ Goes("submitRead", "armFailed")
  /\ Elsewhere
  /\ UNCHANGED <<arming, gateVars, rxArmed, txInFlight, up, wake, usbVars, lateVars>>

ReadAccepted ==
  /\ Goes("readAccepted", "idle")
  /\ rxArmed' = TRUE
  /\ Elsewhere
  /\ UNCHANGED <<arming, gateVars, txInFlight, up, wake, usbVars, lateVars>>

(* setInterfaceEnable takes rxRunning back; the loop only logs.            *)
ArmFailed ==
  /\ Goes("armFailed", "idle")
  /\ rxRunning' = IF arming = "enable" THEN FALSE ELSE rxRunning
  /\ Elsewhere
  /\ UNCHANGED <<arming, stopping, txDatapathReady, rxArmed, txInFlight, up, wake, usbVars,
                 lateVars>>

-----------------------------------------------------------------------------
(* Transmit.                                                               *)

DrainGateForgotten == objects

(* txDrainSubmission tests the gate before its loop, and not again.        *)
DrainGate == objects /\ txDatapathReady

(* The doorbell.                                                           *)
TxDataAvailable ==
  /\ up
  /\ Goes("idle", IF DrainGate THEN "drain" ELSE "idle")
  /\ Elsewhere
  /\ UNCHANGED <<arming, gateVars, rxArmed, txInFlight, up, wake, usbVars, lateVars>>

(* TxComplete on the queue, to its drain.                                  *)
TxComplete ==
  /\ outDone > 0 /\ outDone' = outDone - 1
  /\ txInFlight' = FALSE
  /\ Goes("idle", IF DrainGate THEN "drain" ELSE "idle")
  /\ Elsewhere
  /\ UNCHANGED <<arming, gateVars, rxArmed, up, wake, inBusy, outBusy, inDone, lateVars>>

DrainContinuesAlways == TRUE

(* The loop condition.                                                     *)
DrainContinues == ~txInFlight

(* A packet is dequeued and framed: the flag goes up before AsyncIO.       *)
DrainFrames ==
  /\ DrainContinues
  /\ Goes("drain", "submitFrame")
  /\ txInFlight' = TRUE
  /\ Elsewhere
  /\ UNCHANGED <<arming, gateVars, rxArmed, up, wake, usbVars, lateVars>>

SubmitFrame ==
  /\ Goes("submitFrame", "drain")
  /\ outBusy' = outBusy + 1
  /\ lateOut' = IF teardown \in {"aborted", "done"} THEN lateOut + 1 ELSE lateOut
  /\ Elsewhere
  /\ UNCHANGED <<arming, gateVars, rxArmed, txInFlight, up, wake, inBusy, inDone, outDone,
                 lateIn>>

SubmitFrameFails ==
  /\ Goes("submitFrame", "drain")
  /\ txInFlight' = FALSE
  /\ Elsewhere
  /\ UNCHANGED <<arming, gateVars, rxArmed, up, wake, usbVars, lateVars>>

(* A transfer is in flight or the submission queue is empty.               *)
DrainEnds ==
  /\ Goes("drain", "idle")
  /\ Elsewhere
  /\ UNCHANGED <<arming, gateVars, rxArmed, txInFlight, up, wake, usbVars, lateVars>>

-----------------------------------------------------------------------------
(* quiesceDatapath.                                                        *)

(* Stop is a callback of its own; a failed registration is not.            *)
QuiesceBegins ==
  /\ teardown = "none" /\ teardown' = "latching"
  /\ unlatched' = Gates
  /\ IF quiescer = "queue"
     THEN callback = "idle" /\ callback' = "stop"
     ELSE UNCHANGED callback
  /\ UNCHANGED <<quiescer, arming, gateVars, rxArmed, txInFlight, objects, up, wake,
                 usbVars, straggler, lateVars>>

(* The stores, in whatever order they become visible.                      *)
LatchFlag(flag) ==
  /\ teardown = "latching" /\ flag \in unlatched
  /\ unlatched' = unlatched \ {flag}
  /\ stopping' = (stopping \/ flag = "stopping")
  /\ rxRunning' = (rxRunning /\ flag # "rxRunning")
  /\ txDatapathReady' = (txDatapathReady /\ flag # "txDatapathReady")
  /\ UNCHANGED <<quiescer, teardown, callback, arming, rxArmed, txInFlight, objects,
                 up, wake, usbVars, straggler, lateVars>>

(* The first Abort is a call into the system: the stores are done.         *)
GatesAreClosed ==
  /\ teardown = "latching" /\ unlatched = {}
  /\ teardown' = "abortIn"
  /\ straggler' = (callback \notin {"idle", "stop"})
  /\ UNCHANGED <<quiescer, unlatched, callback, arming, gateVars, rxArmed,
                 txInFlight, objects, up, wake, usbVars, lateVars>>

(* A synchronous Abort delivers the aborted transfer's completion on the   *)
(* quiescer's own thread, beside the callback, or leaves it to the queue;  *)
(* or there is nothing to abort, or it is refused.  On this thread the     *)
(* gates are closed, whatever another has made of rxRunning: the           *)
(* completion ends with its first store.                                   *)
AbortIn ==
  /\ teardown = "abortIn" /\ teardown' = "abortOut"
  /\ \/ inBusy' = 0 /\ inDone' = inDone + inBusy /\ UNCHANGED rxArmed
     \/ inBusy = 1 /\ inBusy' = 0 /\ rxArmed' = FALSE /\ UNCHANGED inDone
     \/ UNCHANGED <<inBusy, inDone, rxArmed>>
  /\ UNCHANGED <<quiescer, unlatched, callback, arming, gateVars,
                 txInFlight, objects, up, wake, outBusy, outDone, straggler, lateVars>>

AbortOut ==
  /\ teardown = "abortOut" /\ teardown' = "aborted"
  /\ \/ outBusy' = 0 /\ outDone' = outDone + outBusy /\ UNCHANGED txInFlight
     \/ outBusy = 1 /\ outBusy' = 0 /\ txInFlight' = FALSE /\ UNCHANGED outDone
     \/ UNCHANGED <<outBusy, outDone, txInFlight>>
  /\ UNCHANGED <<quiescer, unlatched, callback, arming, gateVars, rxArmed,
                 objects, up, wake, inBusy, inDone, straggler, lateVars>>

(* finishStop has issued its Cancels.                                      *)
QuiesceReturns ==
  /\ teardown = "aborted" /\ teardown' = "done"
  /\ callback' = IF callback = "stop" THEN "idle" ELSE callback
  /\ UNCHANGED <<quiescer, unlatched, arming, gateVars, rxArmed, txInFlight, objects,
                 up, wake, usbVars, straggler, lateVars>>

(* The last cancellation handler, on the idle queue.                       *)
ReleaseResources ==
  /\ teardown = "done" /\ callback = "idle"
  /\ teardown' = "released"
  /\ objects' = FALSE /\ rxArmed' = FALSE /\ txInFlight' = FALSE /\ wake' = FALSE
  /\ UNCHANGED <<quiescer, unlatched, callback, arming, gateVars, up, usbVars,
                 straggler, lateVars>>

-----------------------------------------------------------------------------
Interface == EnableBegins \/ EnableRuns \/ EnableReadsFirst \/ EnableStoresLast \/ Disable
Receive   == RxCompleteBegins \/ RxCompleteRearms \/ RxCompleteReturns \/ RxBackoffExpired
Arm       == ArmRxRead \/ ArmTestsArmed \/ SubmitRead \/ SubmitReadFails
               \/ ReadAccepted \/ ArmFailed
Transmit  == TxDataAvailable \/ TxComplete \/ DrainFrames \/ SubmitFrame
               \/ SubmitFrameFails \/ DrainEnds
Teardown  == \/ QuiesceBegins \/ GatesAreClosed \/ AbortIn \/ AbortOut
             \/ QuiesceReturns \/ ReleaseResources
             \/ \E flag \in Gates : LatchFlag(flag)

Next == ReadEnds \/ FrameEnds \/ Interface \/ Receive \/ Arm \/ Transmit \/ Teardown

Spec == Init /\ [][Next]_vars

-----------------------------------------------------------------------------
(* Properties.                                                             *)

(* Two threads and weak stores included, each buffer has one transfer: the *)
(* controller's and the completions not delivered are one at most.         *)
OneTransferEach ==
  /\ inBusy + inDone <= 1
  /\ outBusy + outDone <= 1

(* What the Abort cannot reach is bounded: one read or one frame, of the   *)
(* one callback that was past its gates; and none at all when Stop runs on *)
(* the queue.                                                              *)
LateIoIsBounded ==
  /\ lateIn + lateOut <= 1
  /\ quiescer = "queue" => lateIn + lateOut = 0

(* Once the gates are closed nothing is submitted by a callback that       *)
(* begins after that, also if rxRunning was left TRUE by an enable whose   *)
(* store came last: armRxRead's own test of stopping is what stops it.     *)
GatesClosed == teardown \in {"abortIn", "abortOut", "aborted", "done", "released"}

OnlyTheStragglerSubmits ==
  [][GatesClosed /\ ~straggler => inBusy' <= inBusy /\ outBusy' <= outBusy]_vars
===============================================================================
