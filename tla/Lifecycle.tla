------------------------------ MODULE Lifecycle ------------------------------
(***************************************************************************)
(* Attach and teardown of the driver: Start's acquisitions and its two     *)
(* failure paths, Stop, finishStop's countdown of cancellation handlers,   *)
(* ReleaseResources and super::Stop (SMSC95xxDriver.cpp, with              *)
(* setupDatapath and releaseDatapath of SMSC95xxDriver_datapath.cpp).      *)
(*                                                                         *)
(* Three threads act: Start's own, the serial Default queue that delivers  *)
(* Stop, every callback and every cancellation handler, and the family's   *)
(* thread that calls setPromiscuousModeEnable.  What the callbacks do to   *)
(* packets and transfers is TxPath and RxPath; here a callback is the time *)
(* between the checks it makes and its return, and the objects it          *)
(* dereferences in between.                                                *)
(***************************************************************************)
EXTENDS Naturals, Sequences, FiniteSets, SequencesExt

CONSTANT FaultSets   \* the sets of calls that may fail, one per behaviour

FaultKinds == {"acquireFails", "registerFails", "cancelFails"}

ASSUME LifecycleAssumption == FaultSets \subseteq SUBSET FaultKinds

(* What Start does up to the registration, in order.  "chip" is the        *)
(* conversation with the chip (BringUp); the attach steps give a source    *)
(* its handler and enable it.                                              *)
StartSteps ==
  <<"interface", "ctrlBuffer", "chip", "dispatchQueue", "pool",
    "txSubmit", "txComplete", "rxSubmit", "rxComplete",
    "pipeIn", "pipeOut", "rxBuffer", "txBuffer", "rxAction", "txAction",
    "txDataQueue", "txDataAvailableAction", "attachDoorbell",
    "rxBackoffTimer", "rxBackoffAction", "attachTimer">>

DatapathOrder ==
  <<"rxBackoffAction", "rxBackoffTimer", "txDataAvailableAction", "txDataQueue",
    "rxAction", "txAction", "pipeIn", "pipeOut", "rxBuffer", "txBuffer">>

QueueOrder == <<"txSubmit", "rxSubmit", "txComplete", "rxComplete">>

(* releaseDatapath, then the rest of ReleaseResources.                     *)
ReleaseOrder ==
  DatapathOrder \o QueueOrder \o <<"pool", "interface", "ctrlBuffer", "dispatchQueue">>

Resources == ToSet(ReleaseOrder)

(* What finishStop cancels, in order.                                      *)
Sources == <<"rxBackoffTimer", "txDataQueue", "rxAction", "txAction">>

(* The sources whose Cancel waits for the callbacks already queued.        *)
SourceOf == [RxBackoffExpired |-> "rxBackoffTimer", TxDataAvailable |-> "txDataQueue"]

PacketQueues == {"txSubmit", "txComplete", "rxSubmit", "rxComplete"}

Handlers == {"RxBackoffExpired", "TxDataAvailable", "RxComplete", "TxComplete",
             "setInterfaceEnable"}

VARIABLES
  faults,       \* chosen once
  startPc,      \* where Start's thread is
  startAt,      \* its place in StartSteps
  held,         \* the objects the driver holds; "interface" is the open session
  stopping,
  familyKnows,  \* registerEthernetInterface has been called
  queue,        \* what the dispatch queue is executing
  uses,         \* the objects the executing callback dereferences
  teardown,     \* how far the teardown is
  by,           \* the thread that releases and calls super
  toCancel,     \* the sources finishStop has yet to cancel
  cancelling,   \* accepted Cancels whose handler has not run
  joined,       \* sources whose cancellation handler has run
  pending,      \* stopCancelsPending
  retained,     \* finishStop's retains on the driver and the provider
  releaseAt,    \* the place in ReleaseOrder
  superStops,   \* calls of super::Stop
  promisc       \* where setPromiscuousModeEnable is

startVars    == <<startPc, startAt>>
queueVars    == <<queue, uses>>
cancelVars   == <<toCancel, cancelling, joined, pending, retained>>
teardownVars == <<teardown, by, cancelVars, releaseAt, superStops>>
vars == <<faults, startVars, held, stopping, familyKnows, queueVars, teardownVars, promisc>>

Init ==
  /\ faults \in FaultSets
  /\ startPc = "entered" /\ startAt = 1
  /\ held = {} /\ stopping = FALSE /\ familyKnows = FALSE
  /\ queue = "idle" /\ uses = {}
  /\ teardown = "none" /\ by = "nobody"
  /\ toCancel = {} /\ cancelling = {} /\ joined = {}
  /\ pending = 0 /\ retained = FALSE
  /\ releaseAt = 1 /\ superStops = 0
  /\ promisc = "out"

-----------------------------------------------------------------------------
(* Start.                                                                  *)

StartSuper ==
  /\ startPc = "entered"
  /\ startPc' \in {"acquiring"} \cup (IF "acquireFails" \in faults THEN {"returned"} ELSE {})
  /\ UNCHANGED <<faults, startAt, held, stopping, familyKnows, queueVars, teardownVars, promisc>>

Acquire ==
  /\ startPc = "acquiring"
  /\ held' = held \cup ({StartSteps[startAt]} \cap Resources)
  /\ startAt' = startAt + 1
  /\ startPc' = IF startAt = Len(StartSteps) THEN "registering" ELSE "acquiring"
  /\ UNCHANGED <<faults, stopping, familyKnows, queueVars, teardownVars, promisc>>

AcquireFails ==
  /\ startPc = "acquiring"
  /\ "acquireFails" \in faults
  /\ startPc' = "failing"
  /\ UNCHANGED <<faults, startAt, held, stopping, familyKnows, queueVars, teardownVars, promisc>>

(* The label fail: nothing to join, so it releases and stops in its frame. *)
FailsSynchronously ==
  /\ startPc = "failing"
  /\ startPc' = "tearing" /\ stopping' = TRUE
  /\ teardown' = "releasing" /\ by' = "start"
  /\ UNCHANGED <<faults, startAt, held, familyKnows, queueVars, cancelVars, releaseAt,
                 superStops, promisc>>

(* From here the family may call the driver, whatever the call returns.    *)
RegisterBegins ==
  /\ startPc = "registering" /\ ~familyKnows
  /\ familyKnows' = TRUE
  /\ UNCHANGED <<faults, startVars, held, stopping, queueVars, teardownVars, promisc>>

RegisterSucceeds ==
  /\ startPc = "registering" /\ familyKnows
  /\ startPc' = "returned"
  /\ UNCHANGED <<faults, startAt, held, stopping, familyKnows, queueVars, teardownVars, promisc>>

-----------------------------------------------------------------------------
(* quiesceDatapath and finishStop.                                         *)

LiveSources == ToSet(Sources) \cap held

BeginFinishStopUncounted ==
  /\ teardown = "none"
  /\ stopping' = TRUE /\ retained' = TRUE
  /\ teardown' = "cancelling" /\ toCancel' = LiveSources
  /\ UNCHANGED <<by, pending, cancelling, joined, releaseAt, superStops>>

BeginFinishStop ==
  /\ teardown = "none"
  /\ stopping' = TRUE /\ retained' = TRUE
  /\ teardown' = "cancelling" /\ toCancel' = LiveSources
  /\ pending' = Cardinality(LiveSources)
  /\ UNCHANGED <<by, cancelling, joined, releaseAt, superStops>>

(* A failed registration that takes the label fail instead.                *)
RegisterFailsSynchronously ==
  /\ startPc = "registering" /\ familyKnows
  /\ "registerFails" \in faults
  /\ startPc' = "failing"
  /\ UNCHANGED <<faults, startAt, held, stopping, familyKnows, queueVars, teardownVars, promisc>>

RegisterFails ==
  /\ startPc = "registering" /\ familyKnows
  /\ "registerFails" \in faults
  /\ startPc' = "tearing"
  /\ BeginFinishStop
  /\ UNCHANGED <<faults, startAt, held, familyKnows, queueVars, promisc>>

Stop ==
  /\ queue = "idle"
  /\ startPc = "returned" /\ familyKnows
  /\ queue' = "stop"
  /\ BeginFinishStop
  /\ UNCHANGED <<faults, startVars, held, familyKnows, uses, promisc>>

(* finalize: the last one to run goes on to release, on its own thread.    *)
FinalizeEarly(thread) ==
  /\ pending' = pending - 1
  /\ teardown' = IF pending = 2 THEN "releasing" ELSE teardown
  /\ by' = IF pending = 2 THEN thread ELSE by

Finalize(thread) ==
  /\ pending' = pending - 1
  /\ teardown' = IF pending = 1 THEN "releasing" ELSE teardown
  /\ by' = IF pending = 1 THEN thread ELSE by

(* The thread that is in finishStop.                                       *)
Canceller == IF queue = "stop" THEN "queue" ELSE "start"

(* The sources are cancelled in order, the missing ones passed over.       *)
CancelInTurn(s) ==
  /\ teardown = "cancelling" /\ s \in toCancel
  /\ \E i \in DOMAIN Sources :
       s = Sources[i] /\ \A j \in 1 .. i - 1 : Sources[j] \notin toCancel
  /\ toCancel' = toCancel \ {s}

CancelAccepted(s) ==
  /\ CancelInTurn(s)
  /\ cancelling' = cancelling \cup {s}
  /\ UNCHANGED <<faults, startVars, held, stopping, familyKnows, queueVars, teardown, by,
                 joined, pending, retained, releaseAt, superStops, promisc>>

(* The failed Cancel's handler will not run, and nobody completes it.      *)
CancelFailsSilently(s) ==
  /\ CancelInTurn(s)
  /\ "cancelFails" \in faults
  /\ UNCHANGED <<faults, startVars, held, stopping, familyKnows, queueVars, teardown, by,
                 cancelling, joined, pending, retained, releaseAt, superStops, promisc>>

(* finalize() in place of the handler that will not run.                   *)
CancelFails(s) ==
  /\ CancelInTurn(s)
  /\ "cancelFails" \in faults
  /\ Finalize(Canceller)
  /\ UNCHANGED <<faults, startVars, held, stopping, familyKnows, queueVars,
                 cancelling, joined, retained, releaseAt, superStops, promisc>>

LeaveFinishStop ==
  /\ queue' = IF queue = "stop" THEN "idle" ELSE queue
  /\ startPc' = IF startPc = "tearing" THEN "returned" ELSE startPc
  /\ UNCHANGED <<faults, startAt, held, stopping, familyKnows, uses, teardownVars, promisc>>

(* A finishStop that waits for the handlers instead of returning.          *)
FinishStopWaits ==
  /\ queue = "stop" \/ startPc = "tearing"
  /\ toCancel = {} /\ pending = 0 /\ by # Canceller
  /\ LeaveFinishStop

(* finishStop returns without super and leaves the rest to the handlers.   *)
FinishStopReturns ==
  /\ queue = "stop" \/ startPc = "tearing"
  /\ toCancel = {} /\ by # Canceller
  /\ LeaveFinishStop

CancelHandler(s) ==
  /\ queue = "idle" /\ s \in cancelling
  /\ cancelling' = cancelling \ {s} /\ joined' = joined \cup {s}
  /\ Finalize("queue")
  /\ queue' = IF pending = 1 THEN "finalize" ELSE "idle"
  /\ UNCHANGED <<faults, startVars, held, stopping, familyKnows, uses, toCancel, retained,
                 releaseAt, superStops, promisc>>

-----------------------------------------------------------------------------
(* ReleaseResources and super::Stop.                                       *)

ReleaseNext ==
  /\ teardown = "releasing"
  /\ held' = held \ {ReleaseOrder[releaseAt]}
  /\ releaseAt' = releaseAt + 1
  /\ teardown' = IF releaseAt = Len(ReleaseOrder) THEN "super" ELSE "releasing"
  /\ UNCHANGED <<faults, startVars, stopping, familyKnows, queueVars, by, cancelVars,
                 superStops, promisc>>

SuperStop ==
  /\ teardown = "super"
  /\ superStops' = superStops + 1
  /\ teardown' = "stopped" /\ by' = "nobody" /\ retained' = FALSE
  /\ queue' = IF by = "queue" THEN "idle" ELSE queue
  /\ startPc' = IF by = "start" THEN "returned" ELSE startPc
  /\ UNCHANGED <<faults, startAt, held, stopping, familyKnows, uses, toCancel, cancelling,
                 joined, pending, releaseAt, promisc>>

-----------------------------------------------------------------------------
(* The callbacks on the dispatch queue.                                    *)

(* What a callback goes on to dereference once its gate flags let it in.   *)
Needs == [RxBackoffExpired   |-> {"pipeIn", "rxAction", "rxBuffer"},
          TxDataAvailable    |-> {"pipeOut", "txAction", "txBuffer", "txSubmit", "txComplete",
                                  "dispatchQueue"},
          RxComplete         |-> {"pipeIn", "rxAction", "rxBuffer", "rxBackoffTimer",
                                  "pool", "rxSubmit", "rxComplete", "dispatchQueue"},
          TxComplete         |-> {"pipeOut", "txAction", "txBuffer", "txSubmit", "txComplete",
                                  "dispatchQueue"},
          setInterfaceEnable |-> PacketQueues \cup {"pipeIn", "rxAction", "rxBuffer"}]

(* What the gates leave once stopping is set: the OnQueue check ahead of   *)
(* them, a completion's packet to return and its stall to clear, and the   *)
(* queues setInterfaceEnable(false) disables.                              *)
PastGates(h) ==
  CASE ~stopping               -> Needs[h]
    [] h = "TxComplete"         -> {"txComplete", "pipeOut"}
    [] h = "setInterfaceEnable" -> PacketQueues
    [] h = "RxBackoffExpired"   -> {}
    [] OTHER                    -> {"dispatchQueue"}

(* Cancel joins a timer or doorbell callback; a completion of an aborted   *)
(* transfer may come at any time before super::Stop, its buffers released  *)
(* or not, and finds the null guards.                                      *)
HandlerEnters(h) ==
  /\ queue = "idle" /\ familyKnows /\ teardown # "stopped"
  /\ h \in DOMAIN SourceOf => SourceOf[h] \notin joined
  /\ queue' = h
  /\ uses' = PastGates(h) \cap held
  /\ UNCHANGED <<faults, startVars, held, stopping, familyKnows, teardownVars, promisc>>

HandlerLeaves ==
  /\ queue \in Handlers
  /\ queue' = "idle" /\ uses' = {}
  /\ UNCHANGED <<faults, startVars, held, stopping, familyKnows, teardownVars, promisc>>

-----------------------------------------------------------------------------
(* setPromiscuousModeEnable, on a thread of the family's.                  *)

PromiscCalled ==
  /\ promisc = "out" /\ familyKnows /\ teardown # "stopped"
  /\ ~stopping
  /\ promisc' = "checked"
  /\ UNCHANGED <<faults, startVars, held, stopping, familyKnows, queueVars, teardownVars>>

(* readRegister and writeRegister look once, then use what they saw.       *)
RegisterAccess ==
  /\ promisc = "checked"
  /\ promisc' = IF {"interface", "ctrlBuffer"} \subseteq held THEN "request" ELSE "out"
  /\ UNCHANGED <<faults, startVars, held, stopping, familyKnows, queueVars, teardownVars>>

(* The read is followed by the write, unless it failed or nothing changes. *)
RegisterAccessEnds ==
  /\ promisc = "request"
  /\ promisc' \in {"checked", "out"}
  /\ UNCHANGED <<faults, startVars, held, stopping, familyKnows, queueVars, teardownVars>>

-----------------------------------------------------------------------------

StartThread == \/ StartSuper \/ Acquire \/ AcquireFails \/ FailsSynchronously
               \/ RegisterBegins \/ RegisterSucceeds \/ RegisterFails
Teardown    == \/ \E s \in ToSet(Sources) : CancelAccepted(s) \/ CancelFails(s)
               \/ FinishStopReturns \/ ReleaseNext \/ SuperStop
Family      == \/ PromiscCalled \/ RegisterAccess \/ RegisterAccessEnds

Next ==
  \/ StartThread \/ Stop \/ Teardown \/ Family
  \/ \E s \in ToSet(Sources) : CancelHandler(s)
  \/ \E h \in Handlers : HandlerEnters(h)
  \/ HandlerLeaves

Spec == Init /\ [][Next]_vars

(* Every thread runs on; the queue is first in, first out, so callbacks    *)
(* that keep coming do not overtake a cancellation handler for ever.       *)
Fairness ==
  /\ WF_vars(StartThread) /\ WF_vars(Teardown) /\ WF_vars(HandlerLeaves)
  /\ \A s \in ToSet(Sources) : SF_vars(CancelHandler(s))

FairSpec == Spec /\ Fairness

-----------------------------------------------------------------------------

TypeOK ==
  /\ faults \in FaultSets
  /\ startPc \in {"entered", "acquiring", "failing", "registering", "tearing", "returned"}
  /\ startAt \in 1 .. Len(StartSteps) + 1
  /\ held \subseteq Resources
  /\ stopping \in BOOLEAN /\ familyKnows \in BOOLEAN
  /\ queue \in Handlers \cup {"idle", "stop", "finalize"} /\ uses \subseteq Resources
  /\ teardown \in {"none", "cancelling", "releasing", "super", "stopped"}
  /\ by \in {"nobody", "start", "queue"}
  /\ toCancel \subseteq ToSet(Sources) /\ cancelling \subseteq ToSet(Sources)
  /\ joined \subseteq ToSet(Sources) /\ pending \in 0 .. Len(Sources)
  /\ retained \in BOOLEAN
  /\ releaseAt \in 1 .. Len(ReleaseOrder) + 1 /\ superStops \in 0 .. 1
  /\ promisc \in {"out", "checked", "request"}

(* An executing callback never sees an object it dereferences released:    *)
(* "these releases cannot pull an object out from under a running handler" *)
(* (releaseDatapath).                                                      *)
NoReleaseUnderHandler == uses \subseteq held

(* The countdown owes one decrement per Cancel still to be issued or       *)
(* answered, so it reaches zero on the last one and not before             *)
(* (finishStop: "keeps the countdown honest").                             *)
CountdownHonest ==
  teardown \in {"cancelling", "releasing", "super", "stopped"} =>
    pending = Cardinality(toCancel) + Cardinality(cancelling)

(* super::Stop is called once, with nothing left to release, nobody still  *)
(* owed a handler and no retain kept; and a Start that returned without a  *)
(* driver leaves nothing behind.                                           *)
NothingOutlivesStop ==
  /\ superStops = 1 => held = {} /\ ~retained /\ cancelling = {} /\ toCancel = {}
  /\ startPc = "returned" /\ ~familyKnows => held = {}

(* Once teardown has begun, by whichever path, super::Stop is reached.     *)
TeardownEnds == stopping ~> superStops = 1

(* setPromiscuousModeEnable: "Register I/O is safe here even though this   *)
(* is not delivered on the driver's dispatch queue".                       *)
ControlIOIsSafe == promisc = "request" => {"interface", "ctrlBuffer"} \subseteq held
=============================================================================
