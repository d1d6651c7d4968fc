-------------------------------- MODULE TxPath --------------------------------
(***************************************************************************)
(* The transmit half of the driver: the doorbell, the drain loop, the one  *)
(* bulk OUT transfer, its completion, and what teardown does to them       *)
(* (src/dext/SMSC95xxDriver/SMSC95xxDriver_datapath.cpp).                  *)
(*                                                                         *)
(* Three parties run concurrently: the network stack fills the submission  *)
(* queue, the USB stack finishes transfers, and the driver's handlers run  *)
(* one at a time on one serial dispatch queue (onQueue).  A handler is one *)
(* step, except the drain loop and Stop: the stack can act between two     *)
(* DequeuePackets calls, and a completion can be delivered from inside the *)
(* synchronous Abort.                                                      *)
(***************************************************************************)
EXTENDS Naturals, Sequences, FiniteSets

CONSTANTS Packet,      \* the packets of the pool
          NoPacket,    \* a null IOUserNetworkPacket pointer
          CounterMod,  \* the counters wrap here (2^64 in the code)
          FaultSets    \* the sets of library calls that may fail, see FaultKinds

FaultKinds == {"enqueueFails", "clearStallFails", "nullPacket", "abortRefused"}

ASSUME TxAssumption ==
  /\ IsFiniteSet(Packet)
  /\ NoPacket \notin Packet
  /\ CounterMod \in Nat
  /\ CounterMod > Cardinality(Packet)
  /\ FaultSets \subseteq SUBSET FaultKinds

VARIABLES
  onQueue,          \* what the dispatch queue is executing
  stackPackets,     \* packets the network stack owns
  submitQ,          \* the TX submission queue
  doorbell,         \* a TxDataAvailable callback is queued
  txInFlight, txPacket, txDatapathReady,
  txObjects,        \* pipeOut, txAction, txBuffer, txBytes exist
  txQueues,         \* txSubmit and txComplete exist
  txDequeued, txReturned, txLost,
  outBusy,          \* bulk OUT transfers the controller is still executing
  outDone,          \* statuses of the completions not yet delivered
  outPipe,          \* the endpoint: "ok", "halted", or "stuck" (ClearStall refused)
  faults            \* the calls that may fail in this behaviour

custodyVars == <<stackPackets, submitQ, doorbell>>
counterVars == <<txDequeued, txReturned, txLost>>
stateVars   == <<txInFlight, txPacket>>
objectVars  == <<txDatapathReady, txObjects, txQueues, faults>>
usbVars     == <<outBusy, outDone, outPipe>>
vars == <<onQueue, custodyVars, counterVars, stateVars, objectVars, usbVars>>

Status == {"success", "aborted", "stalled", "failed"}

TypeOK ==
  /\ onQueue \in {"idle", "drain", "stop", "abort"}
  /\ stackPackets \subseteq Packet
  /\ submitQ \in Seq(Packet)
  /\ doorbell \in BOOLEAN
  /\ txInFlight \in BOOLEAN
  /\ txPacket \in Packet \cup {NoPacket}
  /\ txDatapathReady \in BOOLEAN /\ txObjects \in BOOLEAN /\ txQueues \in BOOLEAN
  /\ txDequeued \in 0 .. CounterMod - 1
  /\ txReturned \in 0 .. CounterMod - 1
  /\ txLost \in 0 .. CounterMod - 1
  /\ outBusy \in 0 .. 1
  /\ outDone \in Seq(Status)
  /\ outPipe \in {"ok", "halted", "stuck"}
  /\ faults \in FaultSets

(* The moment setupDatapath() sets txDatapathReady: every object exists.   *)
Init ==
  /\ onQueue = "idle"
  /\ stackPackets = Packet /\ submitQ = <<>> /\ doorbell = FALSE
  /\ txInFlight = FALSE /\ txPacket = NoPacket
  /\ txDatapathReady = TRUE /\ txObjects = TRUE /\ txQueues = TRUE
  /\ txDequeued = 0 /\ txReturned = 0 /\ txLost = 0
  /\ outBusy = 0 /\ outDone = <<>> /\ outPipe = "ok"
  /\ faults \in FaultSets

Inc(counter) == IF counter + 1 = CounterMod THEN 0 ELSE counter + 1

Elements(s) == {s[i] : i \in 1 .. Len(s)}

(* The packets waiting in the submission queue.                            *)
Queued == Elements(submitQ)

-----------------------------------------------------------------------------
(* The network stack.                                                      *)

(* The data queue notifies on the edge only: when it becomes non-empty.    *)
StackSubmits(p) ==
  /\ txQueues
  /\ p \in stackPackets
  /\ stackPackets' = stackPackets \ {p}
  /\ submitQ' = Append(submitQ, p)
  /\ doorbell' = (doorbell \/ submitQ = <<>>)
  /\ UNCHANGED <<onQueue, counterVars, stateVars, objectVars, usbVars>>

-----------------------------------------------------------------------------
(* The USB stack.                                                          *)

(* The controller ends a transfer and queues its completion.  An abort can *)
(* be spontaneous (sleep, bus reset); a halted endpoint moves no data.     *)
TransferEnds(s) ==
  /\ outBusy > 0
  /\ s = "success" => outPipe = "ok"
  /\ outBusy' = outBusy - 1
  /\ outDone' = Append(outDone, s)
  /\ outPipe' = IF s = "stalled" THEN "halted" ELSE outPipe
  /\ UNCHANGED <<onQueue, custodyVars, counterVars, stateVars, objectVars>>

(* A completion queued behind Stop on a cancelled action may never come.   *)
CompletionDropped ==
  /\ onQueue = "idle" /\ ~txDatapathReady
  /\ outDone # <<>>
  /\ outDone' = Tail(outDone)
  /\ UNCHANGED <<onQueue, custodyVars, counterVars, stateVars, objectVars, outBusy, outPipe>>

-----------------------------------------------------------------------------
(* The driver.                                                             *)

HandBackUncounted(p) ==
  \/ /\ p = NoPacket
     /\ UNCHANGED <<stackPackets, txReturned, txLost>>
  \/ /\ p # NoPacket /\ txQueues
     /\ stackPackets' = stackPackets \cup {p}
     /\ txReturned' = Inc(txReturned)
     /\ UNCHANGED txLost
  \/ /\ p # NoPacket
     /\ ~txQueues \/ "enqueueFails" \in faults
     /\ UNCHANGED <<stackPackets, txReturned, txLost>>

(* txReturnPacket: the only place a packet goes back.                      *)
HandBack(p) ==
  \/ /\ p = NoPacket
     /\ UNCHANGED <<stackPackets, txReturned, txLost>>
  \/ /\ p # NoPacket /\ txQueues
     /\ stackPackets' = stackPackets \cup {p}
     /\ txReturned' = Inc(txReturned)
     /\ UNCHANGED txLost
  \/ /\ p # NoPacket
     /\ ~txQueues \/ "enqueueFails" \in faults
     /\ txLost' = Inc(txLost)
     /\ UNCHANGED <<stackPackets, txReturned>>

DrainGateForgotten == txQueues

(* The two early returns of txDrainSubmission.                             *)
DrainGate == txQueues /\ txDatapathReady

(* Call txDrainSubmission: enter the loop, or return to what was running.  *)
EnterDrain == onQueue' = IF DrainGate THEN "drain" ELSE onQueue

DrainIgnoresInFlight == TRUE

(* The loop condition: one transfer at a time, there is one TX buffer.     *)
DrainContinues == ~txInFlight

(* One turn of the loop whose packet the bulk OUT pipe accepts.            *)
DrainSubmits ==
  /\ onQueue = "drain" /\ DrainContinues /\ submitQ # <<>>
  /\ txObjects
  /\ submitQ' = Tail(submitQ)
  /\ txDequeued' = Inc(txDequeued)
  /\ txInFlight' = TRUE /\ txPacket' = Head(submitQ)
  /\ outBusy' = outBusy + 1
  /\ UNCHANGED <<onQueue, stackPackets, doorbell, txReturned, txLost, objectVars, outDone, outPipe>>

(* One turn whose packet is refused: a length or an address out of range,  *)
(* or AsyncIO fails and the two state variables are undone.  The packet    *)
(* goes straight back and the loop goes on.                                *)
DrainRefuses ==
  /\ onQueue = "drain" /\ DrainContinues /\ submitQ # <<>>
  /\ submitQ' = Tail(submitQ)
  /\ txDequeued' = Inc(txDequeued)
  /\ HandBack(Head(submitQ))
  /\ UNCHANGED <<onQueue, doorbell, stateVars, objectVars, usbVars>>

(* The loop ends: a transfer is in flight, the queue is empty, or          *)
(* DequeuePackets reported a packet and yielded none.                      *)
DrainEnds ==
  /\ onQueue = "drain"
  /\ ~DrainContinues \/ submitQ = <<>> \/ "nullPacket" \in faults
  /\ onQueue' = "idle"
  /\ UNCHANGED <<custodyVars, counterVars, stateVars, objectVars, usbVars>>

(* The doorbell.                                                           *)
TxDataAvailable ==
  /\ onQueue = "idle" /\ doorbell
  /\ doorbell' = FALSE
  /\ EnterDrain
  /\ UNCHANGED <<stackPackets, submitQ, counterVars, stateVars, objectVars, usbVars>>

ForgetOnlyTheFlag == txInFlight' = FALSE /\ UNCHANGED txPacket

(* The transfer is over: flag and pointer are dropped together.            *)
ForgetTransfer == txInFlight' = FALSE /\ txPacket' = NoPacket

RecoverPipeNever(s) == UNCHANGED outPipe

(* A stall stays until it is cleared; ClearStall itself may be refused.    *)
RecoverPipe(s) ==
  IF s = "stalled" /\ txObjects
  THEN \/ outPipe' = "ok"
       \/ "clearStallFails" \in faults /\ outPipe' = "stuck"
  ELSE UNCHANGED outPipe

DrainAfterCompletionForgotten == UNCHANGED onQueue

(* Pull what was queued while the transfer ran: its doorbell is spent.     *)
DrainAfterCompletion == EnterDrain

(* The completion of a bulk OUT transfer, delivered on the queue or from   *)
(* inside quiesceDatapath's synchronous Abort.                             *)
TxComplete ==
  /\ onQueue \in {"idle", "abort"} /\ outDone # <<>>
  /\ outDone' = Tail(outDone)
  /\ ForgetTransfer
  /\ RecoverPipe(Head(outDone))
  /\ HandBack(txPacket)
  /\ DrainAfterCompletion
  /\ UNCHANGED <<submitQ, doorbell, txDequeued, objectVars, outBusy>>

-----------------------------------------------------------------------------
(* Teardown.  Stop runs on the dispatch queue, so no handler is running.   *)

(* quiesceDatapath closes the gate ...                                     *)
StopClosesGate ==
  /\ onQueue = "idle" /\ txDatapathReady
  /\ txDatapathReady' = FALSE
  /\ onQueue' = "stop"
  /\ UNCHANGED <<custodyVars, counterVars, stateVars, txObjects, txQueues, faults, usbVars>>

Aborted(n) == [i \in 1 .. n |-> "aborted"]

(* ... and aborts the pipe.  A refused Abort is logged and leaves the      *)
(* transfer running; otherwise its completion comes from inside the Abort  *)
(* (TxComplete while onQueue = "abort"), after Stop, or never.             *)
StopAborts ==
  /\ onQueue = "stop"
  /\ onQueue' = "abort"
  /\ \/ /\ outBusy' = 0
        /\ outDone' = outDone \o Aborted(outBusy)
     \/ /\ "abortRefused" \in faults
        /\ UNCHANGED <<outBusy, outDone>>
  /\ UNCHANGED <<custodyVars, counterVars, stateVars, objectVars, outPipe>>

(* finishStop has issued its Cancels and Stop returns.                     *)
StopReturns ==
  /\ onQueue = "abort"
  /\ onQueue' = "idle"
  /\ UNCHANGED <<custodyVars, counterVars, stateVars, objectVars, usbVars>>

ReclaimNothing == UNCHANGED <<stateVars, stackPackets, txReturned, txLost>>

(* releaseDatapath takes back the packet of a transfer whose completion    *)
(* has not run; the completion queue still exists.                         *)
ReclaimInFlight ==
  /\ ForgetTransfer
  /\ IF txPacket = NoPacket /\ txInFlight
     THEN txLost' = Inc(txLost) /\ UNCHANGED <<stackPackets, txReturned>>
     ELSE HandBack(txPacket)

(* The last cancellation handler: releaseDatapath, then the queues.        *)
ReleaseResources ==
  /\ onQueue = "idle" /\ ~txDatapathReady /\ txObjects
  /\ ReclaimInFlight
  /\ txObjects' = FALSE /\ txQueues' = FALSE
  /\ UNCHANGED <<onQueue, submitQ, doorbell, txDequeued, txDatapathReady, faults, usbVars>>

-----------------------------------------------------------------------------
Drain == DrainSubmits \/ DrainRefuses \/ DrainEnds
Stop  == StopAborts \/ StopReturns \/ ReleaseResources

Next ==
  \/ \E p \in Packet : StackSubmits(p)
  \/ \E s \in Status : TransferEnds(s)
  \/ CompletionDropped
  \/ Drain
  \/ TxDataAvailable
  \/ TxComplete
  \/ StopClosesGate
  \/ Stop

Spec == Init /\ [][Next]_vars

(* The dispatch queue is a FIFO, so a queued callback runs however often   *)
(* others are queued (SF); a running handler and an accepted transfer go   *)
(* on (WF).  The stack and Stop itself owe nothing.                        *)
Fairness ==
  /\ WF_vars(Drain)
  /\ SF_vars(TxDataAvailable)
  /\ SF_vars(TxComplete)
  /\ WF_vars(\E s \in Status : TransferEnds(s))
  /\ WF_vars(StopAborts) /\ WF_vars(StopReturns) /\ SF_vars(ReleaseResources)

FairSpec == Spec /\ Fairness

-----------------------------------------------------------------------------
(* Properties.                                                             *)

Held  == {txPacket} \ {NoPacket}
Gone  == Packet \ (stackPackets \cup Queued \cup Held)

(* "The accounting rule the whole transmit path is built around": what was *)
(* dequeued was handed back, lost, or is in flight, teardown included.     *)
(* The counters wrap, so the two sides may differ by CounterMod.           *)
TxAccounting ==
  txReturned + txLost + (IF txInFlight THEN 1 ELSE 0)
    \in {txDequeued, txDequeued + CounterMod}

(* No packet leaves the pool silently: the packets that neither the stack, *)
(* the queue nor a transfer has are exactly as many as txLost reports.     *)
LostAreCounted == txLost = Cardinality(Gone)

(* A packet has one owner: the driver never points at a packet it has      *)
(* already handed back or has not taken from the queue.                    *)
OneOwner ==
  /\ Held \cap (stackPackets \cup Queued) = {}
  /\ stackPackets \cap Queued = {}
  /\ \A i, j \in 1 .. Len(submitQ) : submitQ[i] = submitQ[j] => i = j

(* One scratch buffer, one transfer: while the datapath is live the flag   *)
(* is up exactly while a transfer or its completion is outstanding, and at *)
(* no time are there two of them.                                          *)
OneTransfer ==
  /\ outBusy + Len(outDone) <= 1
  /\ txDatapathReady => (txInFlight <=> outBusy + Len(outDone) = 1)
  /\ txInFlight <=> txPacket # NoPacket

(* A halted endpoint is never left halted by an oversight: either the      *)
(* completion that will clear it is queued, or teardown released the pipe. *)
StallIsCleared ==
  outPipe = "halted" => outDone = <<"stalled">> \/ ~txDatapathReady

(* No lost wakeup behind the edge-triggered doorbell: a queued packet is   *)
(* taken, unless the driver is stopped or DequeuePackets yields nothing.   *)
QueuedIsTaken ==
  \A p \in Packet :
    p \in Queued /\ "nullPacket" \notin faults
      ~> p \notin Queued \/ ~txDatapathReady

(* A packet given to a transfer leaves it, also when teardown's abort      *)
(* swallows the completion.                                                *)
HeldComesBack == \A p \in Packet : txPacket = p ~> txPacket # p

(* The whole of what the stack may rely on: see PacketCustody.             *)
Custody == INSTANCE PacketCustody WITH
             home <- stackPackets, queue <- submitQ, out <- Held, lost <- Gone,
             closed <- ~txDatapathReady
RefinesCustody == Custody!Spec

(* What the drain loop's comment claims ("Bounded without a counter"): a   *)
(* handler that entered the loop leaves it.                                *)
DrainTerminates == onQueue = "drain" ~> onQueue # "drain"
===============================================================================
