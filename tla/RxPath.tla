-------------------------------- MODULE RxPath --------------------------------
(***************************************************************************)
(* The receive half of the driver: the one bulk IN read, its completion,   *)
(* the idle backoff timer, enabling and disabling the interface, and what  *)
(* teardown does to them (SMSC95xxDriver_datapath.cpp and                  *)
(* setInterfaceEnable of SMSC95xxDriver.cpp).  What RxComplete does with   *)
(* the records of a transfer that carried data is RxRecords.               *)
(*                                                                         *)
(* Every handler, setInterfaceEnable included, runs on the serial dispatch *)
(* queue and is one step; the USB stack, the timer and the network family  *)
(* act between them, and a completion may come from inside Stop's Abort.   *)
(***************************************************************************)
EXTENDS Naturals, Sequences

CONSTANTS IdleLimit,   \* SMSC95XX_RX_IDLE_RUN_LIMIT
          RxFaults     \* which calls to the libraries may fail

RxFaultKinds == {"asyncFails", "wakeFails", "clearStallFails", "enableFails",
                 "disableFails", "linkFails", "superFails", "abortRefused"}

ASSUME RxAssumption ==
  /\ IdleLimit \in Nat
  /\ RxFaults \subseteq RxFaultKinds

VARIABLES
  onQueue,          \* what the dispatch queue is executing
  stopping, rxRunning, rxArmed,
  rxIdleRun,        \* empty completions in a row, kept at IdleLimit + 1
  rxObjects,        \* pipeIn, rxAction, rxBuffer, rxBytes, the timer exist
  wakeSet,          \* the backoff timer has a deadline
  wakeDue,          \* an RxBackoffExpired callback is queued
  familyUp,         \* super::setInterfaceEnable(true) is in force
  enabled,          \* the packet queues that are enabled
  undoFailed,       \* history: a call to disable a queue or the family failed
  inBusy,           \* bulk IN reads the controller is still executing
  inDone,           \* outcomes of the completions not yet delivered
  inPipe,           \* the endpoint: "ok", "halted" or "stuck"
  saidDead,         \* the last word of the log: the receive path is dead
  spin              \* empty completions since data, a backoff wait or an enable

loopVars   == <<stopping, rxRunning, rxArmed, rxIdleRun, rxObjects>>
timerVars  == <<wakeSet, wakeDue>>
familyVars == <<familyUp, enabled, undoFailed>>
usbVars    == <<inBusy, inDone, inPipe>>
logVars    == <<saidDead, spin>>
vars == <<onQueue, loopVars, timerVars, familyVars, usbVars, logVars>>

Outcome == {"data", "empty", "aborted", "stalled", "failed"}

(* txSubmit, rxSubmit, txComplete, rxComplete, in the order of queues[].   *)
Queues == 1 .. 4

TypeOK ==
  /\ onQueue \in {"idle", "stop", "abort"}
  /\ stopping \in BOOLEAN /\ rxRunning \in BOOLEAN /\ rxArmed \in BOOLEAN
  /\ rxIdleRun \in 0 .. IdleLimit + 1
  /\ rxObjects \in BOOLEAN
  /\ wakeSet \in BOOLEAN /\ wakeDue \in BOOLEAN
  /\ familyUp \in BOOLEAN /\ enabled \subseteq Queues /\ undoFailed \in BOOLEAN
  /\ inBusy \in 0 .. 1 /\ inDone \in Seq(Outcome)
  /\ inPipe \in {"ok", "halted", "stuck"}
  /\ saidDead \in BOOLEAN /\ spin \in Nat

(* The interface is registered and has not been enabled yet.               *)
Init ==
  /\ onQueue = "idle"
  /\ stopping = FALSE /\ rxRunning = FALSE /\ rxArmed = FALSE
  /\ rxIdleRun = 0 /\ rxObjects = TRUE
  /\ wakeSet = FALSE /\ wakeDue = FALSE
  /\ familyUp = FALSE /\ enabled = {} /\ undoFailed = FALSE
  /\ inBusy = 0 /\ inDone = <<>> /\ inPipe = "ok"
  /\ saidDead = FALSE /\ spin = 0

-----------------------------------------------------------------------------
(* The USB stack and the timer.                                            *)

ReadEnds(o) ==
  /\ inBusy > 0
  /\ o \in {"data", "empty"} => inPipe = "ok"
  /\ inBusy' = inBusy - 1
  /\ inDone' = Append(inDone, o)
  /\ inPipe' = IF o = "stalled" THEN "halted" ELSE inPipe
  /\ UNCHANGED <<onQueue, loopVars, timerVars, familyVars, logVars>>

(* A completion queued behind Stop on a cancelled action may never come.   *)
CompletionDropped ==
  /\ onQueue = "idle" /\ stopping
  /\ inDone # <<>>
  /\ inDone' = Tail(inDone)
  /\ UNCHANGED <<onQueue, loopVars, timerVars, familyVars, inBusy, inPipe, logVars>>

TimerFires ==
  /\ wakeSet
  /\ wakeSet' = FALSE /\ wakeDue' = TRUE
  /\ UNCHANGED <<onQueue, loopVars, familyVars, usbVars, logVars>>

-----------------------------------------------------------------------------
(* Arming the read.                                                        *)

ArmIgnoresOutstanding(armed, ok) ==
  \/ /\ ok /\ ~stopping /\ rxObjects
     /\ rxArmed' = TRUE /\ inBusy' = inBusy + 1
  \/ /\ ~ok
     /\ stopping \/ ~rxObjects \/ "asyncFails" \in RxFaults
     /\ rxArmed' = armed /\ UNCHANGED inBusy

(* armRxRead, entered with rxArmed = armed and returning ok.  With a read  *)
(* outstanding it succeeds and submits nothing.                            *)
ArmRxRead(armed, ok) ==
  \/ /\ ok /\ ~stopping /\ rxObjects
     /\ rxArmed' = TRUE
     /\ inBusy' = IF armed THEN inBusy ELSE inBusy + 1
  \/ /\ ~ok
     /\ stopping \/ ~rxObjects \/ (~armed /\ "asyncFails" \in RxFaults)
     /\ rxArmed' = armed /\ UNCHANGED inBusy

(* rearmRxRead(true): the transfer carried bytes.                          *)
RearmAfterData ==
  /\ rxIdleRun' = 0 /\ spin' = 0
  /\ \E ok \in BOOLEAN : ArmRxRead(FALSE, ok) /\ saidDead' = ~ok
  /\ UNCHANGED timerVars

IdleThresholdNever(run) == TRUE

(* Up to the threshold an empty completion re-arms at once.                *)
ImmediateRearm(run) == run <= IdleLimit

TimerForgotten == UNCHANGED <<wakeSet, saidDead>>

(* Past it, the timer does; a refused deadline leaves the path deaf.       *)
ScheduleRearm ==
  \/ wakeSet' = TRUE /\ UNCHANGED saidDead
  \/ "wakeFails" \in RxFaults /\ saidDead' = TRUE /\ UNCHANGED wakeSet

(* rearmRxRead(false): a zero-length or failed transfer.                   *)
RearmAfterNothing ==
  LET run == rxIdleRun + 1
  IN  /\ rxIdleRun' = IF run > IdleLimit THEN IdleLimit + 1 ELSE run
      /\ spin' = spin + 1
      /\ IF ImmediateRearm(run)
         THEN /\ \E ok \in BOOLEAN : ArmRxRead(FALSE, ok) /\ saidDead' = ~ok
              /\ UNCHANGED wakeSet
         ELSE /\ ScheduleRearm
              /\ rxArmed' = FALSE /\ UNCHANGED inBusy
      /\ UNCHANGED wakeDue

RecoverPipeNever(o) == UNCHANGED inPipe

RecoverPipe(o) ==
  IF o = "stalled"
  THEN \/ inPipe' = "ok"
       \/ "clearStallFails" \in RxFaults /\ inPipe' = "stuck"
  ELSE UNCHANGED inPipe

(* RxComplete.  Exits 1 to 3 discard the transfer: teardown, or the        *)
(* interface is disabled, or the objects are gone.  Exits 4 and 5 (failed, *)
(* empty) and 6 (data) re-arm.                                             *)
RxComplete ==
  /\ onQueue \in {"idle", "abort"} /\ inDone # <<>>
  /\ inDone' = Tail(inDone)
  /\ LET o == Head(inDone)
     IN  \/ /\ ~rxRunning \/ ~rxObjects
            /\ rxArmed' = FALSE
            /\ UNCHANGED <<rxIdleRun, timerVars, inBusy, inPipe, logVars>>
         \/ /\ rxRunning /\ rxObjects /\ o # "data"
            /\ RecoverPipe(o)
            /\ RearmAfterNothing
         \/ /\ rxRunning /\ rxObjects /\ o = "data"
            /\ RearmAfterData
            /\ UNCHANGED inPipe
  /\ UNCHANGED <<onQueue, stopping, rxRunning, rxObjects, familyVars>>

(* The timer's handler: the re-arm that rearmRxRead put off.               *)
RxBackoffExpired ==
  /\ onQueue = "idle" /\ wakeDue
  /\ wakeDue' = FALSE
  /\ IF rxRunning
     THEN /\ \E ok \in BOOLEAN : ArmRxRead(rxArmed, ok) /\ saidDead' = ~ok
          /\ spin' = IF rxArmed THEN spin ELSE 0
     ELSE UNCHANGED <<rxArmed, inBusy, logVars>>
  /\ UNCHANGED <<onQueue, stopping, rxRunning, rxIdleRun, rxObjects, wakeSet,
                 familyVars, inDone, inPipe>>

-----------------------------------------------------------------------------
(* setInterfaceEnable, called by the network family.                       *)

(* The loop enables queues 1 to k; an enabled queue refuses a second       *)
(* setEnable(true), and so may any queue.                                  *)
EnablesQueues(k) ==
  /\ enabled \cap 1 .. k = {}
  /\ k < 4 => k + 1 \in enabled \/ "enableFails" \in RxFaults

(* The queues whose setEnable(false) fails stay enabled.                   *)
DisablesQueues(from) ==
  \E left \in SUBSET from :
    /\ left # {} => "disableFails" \in RxFaults
    /\ enabled' = (enabled \ from) \cup left
    /\ undoFailed' = (undoFailed \/ left # {})

UnwindForgotten(k) ==
  /\ enabled' = enabled \cup 1 .. k
  /\ familyUp' = FALSE
  /\ UNCHANGED undoFailed

(* enable_failed: disable what was enabled here and take the family down;  *)
(* a failure to undo is logged and nothing more.                           *)
Unwind(k) ==
  \E left \in SUBSET (1 .. k), superRefuses \in BOOLEAN :
    /\ left # {} => "disableFails" \in RxFaults
    /\ superRefuses => "superFails" \in RxFaults
    /\ enabled' = enabled \cup left
    /\ familyUp' = superRefuses
    /\ undoFailed' = (undoFailed \/ left # {} \/ superRefuses)

(* Nothing in the code keeps the family from enabling what is enabled: the *)
(* first queue then refuses, and EnableFailsEarly is what happens.         *)
EnableSucceeds ==
  /\ onQueue = "idle" /\ ~stopping
  /\ EnablesQueues(4)
  /\ enabled' = Queues /\ familyUp' = TRUE /\ UNCHANGED undoFailed
  /\ rxRunning' = TRUE /\ rxIdleRun' = 0 /\ spin' = 0
  /\ ArmRxRead(rxArmed, TRUE)
  /\ saidDead' = FALSE
  /\ UNCHANGED <<onQueue, stopping, rxObjects, timerVars, inDone, inPipe>>

(* A queue, or the link report, fails before the read is armed.            *)
EnableFailsEarly ==
  /\ onQueue = "idle" /\ ~stopping
  /\ \E k \in 0 .. 4 :
       /\ EnablesQueues(k)
       /\ k = 4 => "linkFails" \in RxFaults
       /\ Unwind(k)
  /\ UNCHANGED <<onQueue, loopVars, timerVars, usbVars, logVars>>

(* The first read cannot be armed.                                         *)
EnableFailsToArm ==
  /\ onQueue = "idle" /\ ~stopping
  /\ EnablesQueues(4)
  /\ ArmRxRead(rxArmed, FALSE)
  /\ rxRunning' = FALSE /\ rxIdleRun' = 0
  /\ Unwind(4)
  /\ UNCHANGED <<onQueue, stopping, rxObjects, timerVars, inDone, inPipe, logVars>>

(* The outstanding read is left to complete.                               *)
Disable ==
  /\ onQueue = "idle"
  /\ familyUp' = FALSE
  /\ rxRunning' = FALSE
  /\ DisablesQueues(enabled)
  /\ UNCHANGED <<onQueue, stopping, rxArmed, rxIdleRun, rxObjects, timerVars, usbVars, logVars>>

-----------------------------------------------------------------------------
(* Teardown.                                                               *)

(* The flags left to the cancellation handlers.                            *)
LatchForgotten == UNCHANGED <<stopping, rxRunning>>

(* quiesceDatapath's two receive flags.                                    *)
LatchStopping == stopping' = TRUE /\ rxRunning' = FALSE

StopClosesGate ==
  /\ onQueue = "idle" /\ ~stopping
  /\ LatchStopping
  /\ onQueue' = "stop"
  /\ UNCHANGED <<rxArmed, rxIdleRun, rxObjects, timerVars, familyVars, usbVars, logVars>>

StopAborts ==
  /\ onQueue = "stop"
  /\ onQueue' = "abort"
  /\ \/ /\ inBusy' = 0
        /\ inDone' = inDone \o [i \in 1 .. inBusy |-> "aborted"]
     \/ /\ "abortRefused" \in RxFaults
        /\ UNCHANGED <<inBusy, inDone>>
  /\ UNCHANGED <<loopVars, timerVars, familyVars, inPipe, logVars>>

StopReturns ==
  /\ onQueue = "abort"
  /\ onQueue' = "idle"
  /\ UNCHANGED <<loopVars, timerVars, familyVars, usbVars, logVars>>

(* The last cancellation handler; the timer is cancelled and released, and *)
(* with the packet queues goes their being enabled.                        *)
ReleaseResources ==
  /\ onQueue = "idle" /\ stopping /\ rxObjects
  /\ rxObjects' = FALSE /\ rxArmed' = FALSE /\ rxIdleRun' = 0
  /\ wakeSet' = FALSE /\ wakeDue' = FALSE
  /\ enabled' = {}
  /\ UNCHANGED <<onQueue, stopping, rxRunning, familyUp, undoFailed, usbVars, logVars>>

-----------------------------------------------------------------------------
Enable == EnableSucceeds \/ EnableFailsEarly \/ EnableFailsToArm

Next ==
  \/ \E o \in Outcome : ReadEnds(o)
  \/ CompletionDropped
  \/ TimerFires
  \/ RxComplete
  \/ RxBackoffExpired
  \/ Enable
  \/ Disable
  \/ StopClosesGate
  \/ StopAborts
  \/ StopReturns
  \/ ReleaseResources

Spec == Init /\ [][Next]_vars

(* A halted endpoint answers a read with a STALL.                          *)
HaltedReadStalls == inPipe # "ok" /\ ReadEnds("stalled")

(* A submitted read completes, a deadline passes, and the dispatch queue   *)
(* is a FIFO that runs every queued callback.  Reads of a halted endpoint  *)
(* are not all aborted or failed for another reason.  The family and Stop  *)
(* owe nothing.                                                            *)
Fairness ==
  /\ WF_vars(\E o \in Outcome : ReadEnds(o))
  /\ SF_vars(HaltedReadStalls)
  /\ WF_vars(TimerFires)
  /\ SF_vars(RxComplete) /\ SF_vars(RxBackoffExpired)
  /\ WF_vars(StopAborts) /\ WF_vars(StopReturns) /\ SF_vars(ReleaseResources)

FairSpec == Spec /\ Fairness

-----------------------------------------------------------------------------
(* Properties.                                                             *)

(* One buffer, one read: never two reads outstanding, and until the objects*)
(* are released rxArmed says exactly whether one is.                       *)
OneRead ==
  /\ inBusy + Len(inDone) <= 1
  /\ ~stopping => (rxArmed <=> inBusy + Len(inDone) = 1)

(* A running receive path is never deaf without a word: a read or a wakeup *)
(* is outstanding, or the log said the path is dead.                       *)
NeverSilentlyDeaf ==
  rxRunning => rxArmed \/ wakeSet \/ wakeDue \/ saidDead

(* The busy loop the backoff exists for: empty completions follow one      *)
(* another without data, a wait or a re-enable at most IdleLimit + 1 times.*)
SpinBounded == spin <= IdleLimit + 1

(* The receive path never runs over queues that are half enabled, also     *)
(* after an enable that failed half way, an undo that failed in turn       *)
(* ("unwind errors are logged and otherwise ignored"), and enables and     *)
(* disables in any order.  As long as every undo succeeded, the queues are *)
(* all enabled or none, as the driver runs or not, and the family is never *)
(* up over a receive path that is dead.  It may be down over one that      *)
(* runs: an enable of an enabled interface is refused by its first queue,  *)
(* and the unwind takes the family down but leaves rxRunning.              *)
InterfaceAgrees ==
  rxObjects => /\ rxRunning => enabled = Queues
               /\ ~undoFailed => /\ enabled \in {{}, Queues}
                                 /\ familyUp => enabled = Queues
                                 /\ ~stopping => enabled = IF rxRunning THEN Queues ELSE {}

(* After teardown has begun no read is submitted and no wakeup asked for:  *)
(* not by a completion that arrives from inside the Abort or late, not by  *)
(* the timer, not by an enable in the gap before the release               *)
(* (quiesceDatapath: "Latch teardown and stop the receive loop BEFORE      *)
(* anything is aborted").                                                  *)
TearingDown == stopping \/ onQueue \in {"stop", "abort"}

NoReadAfterStop ==
  [][TearingDown => inBusy' <= inBusy /\ (wakeSet' => wakeSet)]_vars

(* A running receive path reads again, whatever ended the last read.       *)
ReadsAgain == rxRunning ~> inBusy > 0 \/ ~rxRunning \/ saidDead

(* A stall, also one that hit while the interface was down, is cleared by  *)
(* a running receive path.                                                 *)
StallIsCleared ==
  rxRunning /\ inPipe = "halted" ~> inPipe # "halted" \/ ~rxRunning \/ saidDead
===============================================================================
