---------------------------- MODULE RxPath_proofs ----------------------------
(***************************************************************************)
(* The receive half's safety properties, for every backoff threshold and   *)
(* every set of faults: they follow from the inductive invariant IInv.     *)
(***************************************************************************)
EXTENDS RxPath, SequenceTheorems, TLAPS

(* The teardown order: the receive loop stops before anything is aborted,  *)
(* and the objects go only after that, when Stop is off the queue.         *)
TeardownOrder ==
  /\ stopping => ~rxRunning
  /\ onQueue # "idle" => stopping /\ rxObjects
  /\ ~rxObjects => stopping

(* What the reads in a row have cost so far: while one is outstanding, the *)
(* empty completions behind it were all re-armed below the threshold.      *)
ArmedBelowLimit == rxArmed => spin <= rxIdleRun /\ spin <= IdleLimit

IInv ==
  /\ TypeOK
  /\ TeardownOrder
  /\ OneRead
  /\ NeverSilentlyDeaf
  /\ SpinBounded
  /\ ArmedBelowLimit
  /\ InterfaceAgrees

-----------------------------------------------------------------------------
(* The completions not yet delivered.                                      *)

(* Delivering or dropping a completion takes one and leaves the others.    *)
LEMMA TakeCompletion ==
  ASSUME TypeOK, inDone # <<>>
  PROVE  /\ Head(inDone) \in Outcome
         /\ Tail(inDone) \in Seq(Outcome)
         /\ Len(inDone) \in Nat /\ Len(Tail(inDone)) = Len(inDone) - 1
  BY DEF TypeOK

(* A synchronous Abort turns the read the controller holds, if any, into   *)
(* one aborted completion behind those already there.                      *)
LEMMA AbortedCompletions ==
  ASSUME TypeOK
  PROVE  LET all == inDone \o [i \in 1 .. inBusy |-> "aborted"]
         IN  all \in Seq(Outcome) /\ Len(all) = Len(inDone) + inBusy
<1> DEFINE aborted == [i \in 1 .. inBusy |-> "aborted"]
<1>1. inBusy \in Nat /\ inDone \in Seq(Outcome)
  BY DEF TypeOK
<1>2. aborted \in Seq(Outcome) /\ Len(aborted) = inBusy
  BY <1>1 DEF Outcome
<1> HIDE DEF aborted
<1>3. inDone \o aborted \in Seq(Outcome) /\ Len(inDone \o aborted) = Len(inDone) + inBusy
  BY <1>1, <1>2, ConcatProperties
<1> QED
  BY <1>3 DEF aborted

-----------------------------------------------------------------------------
(* The re-arming operators, as the steps below use them.                   *)

(* armRxRead submits a read exactly when it succeeds with none outstanding,*)
(* and succeeds only before teardown.                                      *)
LEMMA ArmEffect ==
  ASSUME TypeOK, NEW armed \in BOOLEAN, NEW ok \in BOOLEAN, ArmRxRead(armed, ok)
  PROVE  /\ rxArmed' = (armed \/ ok)
         /\ inBusy' = IF ok /\ ~armed THEN inBusy + 1 ELSE inBusy
         /\ ok => ~stopping /\ rxObjects
         /\ ~stopping /\ rxObjects /\ ~ok => ~armed
  BY DEF TypeOK, ArmRxRead

(* RxComplete in one formula: the completion is consumed; a read is armed  *)
(* only before teardown, and if none is, the running path has a wakeup or  *)
(* a word in the log; only the third case, past no data, counts up.        *)
LEMMA CompleteEffect ==
  ASSUME TypeOK, TeardownOrder, RxComplete
  PROVE  /\ inDone # <<>> /\ inDone' = Tail(inDone) /\ onQueue # "stop"
         /\ UNCHANGED <<onQueue, stopping, rxRunning, rxObjects, wakeDue, familyVars>>
         /\ rxArmed' \in BOOLEAN /\ wakeSet' \in BOOLEAN /\ saidDead' \in BOOLEAN
         /\ inPipe' \in {"ok", "halted", "stuck"}
         /\ inBusy' = IF rxArmed' THEN inBusy + 1 ELSE inBusy
         /\ rxArmed' => rxRunning
         /\ rxRunning => rxArmed' \/ wakeSet' \/ saidDead'
         /\ wakeSet' => wakeSet \/ rxRunning
         /\ \/ UNCHANGED <<rxIdleRun, spin>> /\ ~rxArmed'
            \/ rxIdleRun' = 0 /\ spin' = 0
            \/ /\ rxRunning /\ spin' = spin + 1 /\ rxIdleRun' \in 0 .. IdleLimit + 1
               /\ rxArmed' => rxIdleRun' = rxIdleRun + 1 /\ rxIdleRun' <= IdleLimit
<1> DEFINE o == Head(inDone)
<1>1. /\ inDone # <<>> /\ inDone' = Tail(inDone) /\ onQueue # "stop"
      /\ UNCHANGED <<onQueue, stopping, rxRunning, rxObjects, familyVars>>
  BY DEF RxComplete
<1>2. CASE /\ ~rxRunning \/ ~rxObjects
           /\ rxArmed' = FALSE
           /\ UNCHANGED <<rxIdleRun, timerVars, inBusy, inPipe, logVars>>
  <2>1. ~rxRunning
    BY <1>2 DEF TeardownOrder
  <2> QED
    BY <1>1, <1>2, <2>1 DEF TypeOK, timerVars, logVars
<1>3. CASE rxRunning /\ rxObjects /\ RecoverPipe(o) /\ RearmAfterNothing
  <2> DEFINE run == rxIdleRun + 1
  <2>1. spin' = spin + 1 /\ wakeDue' = wakeDue
    BY <1>3 DEF RearmAfterNothing
  <2>2. rxIdleRun' = IF run > IdleLimit THEN IdleLimit + 1 ELSE run
    BY <1>3 DEF RearmAfterNothing
  <2>3. inPipe' \in {"ok", "halted", "stuck"}
    BY <1>3 DEF RecoverPipe, TypeOK
  <2>4. CASE run <= IdleLimit
    <3>1. PICK ok \in BOOLEAN : ArmRxRead(FALSE, ok) /\ saidDead' = ~ok
      BY <1>3, <2>4 DEF RearmAfterNothing, ImmediateRearm
    <3>2. rxArmed' = ok /\ inBusy' = IF ok THEN inBusy + 1 ELSE inBusy
      BY <3>1, ArmEffect
    <3>3. wakeSet' = wakeSet
      BY <1>3, <2>4 DEF RearmAfterNothing, ImmediateRearm
    <3>4. rxIdleRun' = rxIdleRun + 1 /\ rxIdleRun' <= IdleLimit /\ rxIdleRun' \in 0 .. IdleLimit + 1
      BY <2>2, <2>4, RxAssumption DEF TypeOK
    <3>5. saidDead' \in BOOLEAN /\ rxArmed' \in BOOLEAN /\ (rxArmed' \/ saidDead')
      BY <3>1, <3>2
    <3> QED
      BY <1>1, <1>3, <2>1, <2>3, <3>2, <3>3, <3>4, <3>5 DEF TypeOK
  <2>5. CASE ~(run <= IdleLimit)
    <3>1. rxArmed' = FALSE /\ inBusy' = inBusy /\ ScheduleRearm
      BY <1>3, <2>5 DEF RearmAfterNothing, ImmediateRearm
    <3>2. /\ wakeSet' \in BOOLEAN /\ saidDead' \in BOOLEAN
          /\ wakeSet' \/ saidDead'
      BY <3>1 DEF ScheduleRearm, TypeOK
    <3>3. rxIdleRun' \in 0 .. IdleLimit + 1
      BY <2>2, <2>5, RxAssumption DEF TypeOK
    <3> QED
      BY <1>1, <1>3, <2>1, <2>3, <3>1, <3>2, <3>3
  <2> QED
    BY <2>4, <2>5
<1>4. CASE rxRunning /\ rxObjects /\ RearmAfterData /\ UNCHANGED inPipe
  <2>1. PICK ok \in BOOLEAN : ArmRxRead(FALSE, ok) /\ saidDead' = ~ok
    BY <1>4 DEF RearmAfterData
  <2>2. rxArmed' = ok /\ inBusy' = IF ok THEN inBusy + 1 ELSE inBusy
    BY <2>1, ArmEffect
  <2>3. rxIdleRun' = 0 /\ spin' = 0 /\ UNCHANGED timerVars
    BY <1>4 DEF RearmAfterData
  <2> QED
    BY <1>1, <1>4, <2>1, <2>2, <2>3 DEF TypeOK, timerVars
<1> QED
  BY <1>2, <1>3, <1>4 DEF RxComplete

(* Unwinding an enable: what it leaves up or enabled, it has counted as an *)
(* undo that failed; it disables no queue that an earlier enable enabled.  *)
LEMMA UnwindEffect ==
  ASSUME TypeOK, NEW k \in 0 .. 4, Unwind(k)
  PROVE  /\ familyUp' \in BOOLEAN /\ enabled' \subseteq Queues /\ undoFailed' \in BOOLEAN
         /\ enabled \subseteq enabled'
         /\ ~undoFailed' => ~undoFailed /\ ~familyUp' /\ enabled' = enabled
<1>1. ASSUME NEW left \in SUBSET (1 .. k), NEW superRefuses \in BOOLEAN,
             enabled' = enabled \cup left,
             familyUp' = superRefuses,
             undoFailed' = (undoFailed \/ left # {} \/ superRefuses)
      PROVE  /\ familyUp' \in BOOLEAN /\ enabled' \subseteq Queues /\ undoFailed' \in BOOLEAN
             /\ enabled \subseteq enabled'
             /\ ~undoFailed' => ~undoFailed /\ ~familyUp' /\ enabled' = enabled
  <2>1. left \subseteq Queues
    BY DEF Queues
  <2>2. enabled' \subseteq Queues
    BY <1>1, <2>1 DEF TypeOK
  <2>3. familyUp' \in BOOLEAN /\ undoFailed' \in BOOLEAN
    BY <1>1
  <2>4. ASSUME ~undoFailed'
        PROVE  ~undoFailed /\ ~familyUp' /\ enabled' = enabled
    <3>1. left = {} /\ ~superRefuses /\ ~undoFailed
      BY <1>1, <2>4, Zenon
    <3> QED
      BY <1>1, <3>1
  <2>5. enabled \subseteq enabled'
    BY <1>1
  <2> QED
    BY <2>2, <2>3, <2>4, <2>5
<1> QED
  BY <1>1 DEF Unwind

-----------------------------------------------------------------------------
(* Types and the read.                                                     *)

(* Every step keeps the types; that the controller holds one read at most  *)
(* is OneRead's doing.                                                     *)
LEMMA TypeStep ==
  ASSUME TypeOK, TeardownOrder, OneRead, [Next]_vars
  PROVE  TypeOK'
<1>0. inBusy \in Nat /\ Len(inDone) \in Nat /\ 0 \in 0 .. IdleLimit + 1
  BY RxAssumption DEF TypeOK
<1>1. ASSUME NEW o \in Outcome, ReadEnds(o)
      PROVE  TypeOK'
  <2>1. inDone' \in Seq(Outcome) /\ inBusy' \in 0 .. 1
    BY <1>1 DEF TypeOK, ReadEnds
  <2> QED
    BY <1>1, <2>1 DEF TypeOK, ReadEnds, loopVars, timerVars, familyVars, logVars
<1>2. CASE CompletionDropped
  BY <1>2, TakeCompletion DEF TypeOK, CompletionDropped, loopVars, timerVars, familyVars, logVars
<1>3. CASE TimerFires
  BY <1>3 DEF TypeOK, TimerFires, loopVars, familyVars, usbVars, logVars
<1>4. CASE RxComplete
  <2>1. inDone' \in Seq(Outcome)
    BY <1>4, CompleteEffect, TakeCompletion
  <2>2. inBusy' \in 0 .. 1
    <3>1. Len(inDone) \in Nat /\ Len(inDone) # 0
      BY <1>4, CompleteEffect DEF TypeOK
    <3>2. inBusy = 0
      BY <3>1 DEF TypeOK, OneRead
    <3> QED
      BY <1>4, <3>2, CompleteEffect
  <2>3. rxIdleRun' \in 0 .. IdleLimit + 1 /\ spin' \in Nat
    BY <1>4, CompleteEffect, RxAssumption DEF TypeOK
  <2>4. /\ rxArmed' \in BOOLEAN /\ wakeSet' \in BOOLEAN /\ saidDead' \in BOOLEAN
        /\ inPipe' \in {"ok", "halted", "stuck"}
        /\ UNCHANGED <<onQueue, stopping, rxRunning, rxObjects, wakeDue, familyVars>>
    BY <1>4, CompleteEffect
  <2> QED
    BY <2>1, <2>2, <2>3, <2>4 DEF TypeOK, familyVars
<1>5. CASE RxBackoffExpired
  <2>1. CASE ~rxRunning
    BY <1>5, <2>1 DEF TypeOK, RxBackoffExpired, familyVars, logVars
  <2>2. CASE rxRunning
    <3>1. PICK ok \in BOOLEAN : ArmRxRead(rxArmed, ok) /\ saidDead' = ~ok
      BY <1>5, <2>2 DEF RxBackoffExpired
    <3>2. /\ rxArmed' = (rxArmed \/ ok)
          /\ inBusy' = IF ok /\ ~rxArmed THEN inBusy + 1 ELSE inBusy
          /\ ~stopping
      BY <2>2, <3>1, ArmEffect DEF TypeOK, TeardownOrder
    <3>3. inBusy' \in 0 .. 1
      BY <1>0, <3>2 DEF TypeOK, OneRead
    <3>4. rxArmed' \in BOOLEAN /\ saidDead' \in BOOLEAN
      BY <3>1, <3>2 DEF TypeOK
    <3>5. spin' \in Nat
      BY <1>5, <2>2 DEF TypeOK, RxBackoffExpired
    <3> QED
      BY <1>5, <3>3, <3>4, <3>5 DEF TypeOK, RxBackoffExpired, familyVars
  <2> QED
    BY <2>1, <2>2
<1>6. CASE EnableSucceeds
  <2>1. ArmRxRead(rxArmed, TRUE) /\ ~stopping
    BY <1>6 DEF EnableSucceeds
  <2>2. rxArmed' = TRUE /\ inBusy' = IF ~rxArmed THEN inBusy + 1 ELSE inBusy
    BY <2>1, ArmEffect DEF TypeOK
  <2>3. inBusy' \in 0 .. 1
    BY <1>0, <2>1, <2>2 DEF TypeOK, OneRead
  <2> QED
    BY <1>0, <1>6, <2>2, <2>3 DEF TypeOK, EnableSucceeds, timerVars
<1>7. CASE EnableFailsEarly
  <2>1. familyUp' \in BOOLEAN /\ enabled' \subseteq Queues /\ undoFailed' \in BOOLEAN
    BY <1>7, UnwindEffect DEF TypeOK, EnableFailsEarly
  <2> QED
    BY <1>7, <2>1 DEF TypeOK, EnableFailsEarly, loopVars, timerVars, usbVars, logVars
<1>8. CASE EnableFailsToArm
  <2>1. rxArmed' = rxArmed /\ inBusy' = inBusy
    BY <1>8 DEF EnableFailsToArm, ArmRxRead
  <2>2. familyUp' \in BOOLEAN /\ enabled' \subseteq Queues /\ undoFailed' \in BOOLEAN
    BY <1>8, UnwindEffect DEF TypeOK, EnableFailsToArm
  <2> QED
    BY <1>0, <1>8, <2>1, <2>2 DEF TypeOK, EnableFailsToArm, timerVars, logVars
<1>9. CASE Disable
  <2>1. enabled' \subseteq Queues /\ undoFailed' \in BOOLEAN
    BY <1>9 DEF TypeOK, Disable, DisablesQueues
  <2> QED
    BY <1>9, <2>1 DEF TypeOK, Disable, timerVars, usbVars, logVars
<1>10. CASE StopClosesGate
  BY <1>10 DEF TypeOK, StopClosesGate, LatchStopping, timerVars, familyVars, usbVars, logVars
<1>11. CASE StopAborts
  <2>1. inBusy' \in 0 .. 1
    BY <1>11 DEF TypeOK, StopAborts
  <2>2. inDone' \in Seq(Outcome)
    BY <1>11, AbortedCompletions DEF TypeOK, StopAborts
  <2> QED
    BY <1>11, <2>1, <2>2 DEF TypeOK, StopAborts, loopVars, timerVars, familyVars, logVars
<1>12. CASE StopReturns
  BY <1>12 DEF TypeOK, StopReturns, loopVars, timerVars, familyVars, usbVars, logVars
<1>13. CASE ReleaseResources
  BY <1>0, <1>13 DEF TypeOK, ReleaseResources, usbVars, logVars
<1>14. CASE UNCHANGED vars
  BY <1>14 DEF TypeOK, vars, loopVars, timerVars, familyVars, usbVars, logVars
<1> QED
  BY <1>1, <1>2, <1>3, <1>4, <1>5, <1>6, <1>7, <1>8, <1>9, <1>10, <1>11, <1>12, <1>13,
     <1>14 DEF Next, Enable

(* Every step keeps the teardown order.                                    *)
LEMMA TeardownStep ==
  ASSUME TypeOK, TeardownOrder, [Next]_vars
  PROVE  TeardownOrder'
<1> USE DEF TeardownOrder
<1>1. ASSUME NEW o \in Outcome, ReadEnds(o)
      PROVE  TeardownOrder'
  BY <1>1 DEF ReadEnds, loopVars
<1>2. CASE CompletionDropped
  BY <1>2 DEF CompletionDropped, loopVars
<1>3. CASE TimerFires
  BY <1>3 DEF TimerFires, loopVars
<1>4. CASE RxComplete
  BY <1>4, CompleteEffect
<1>5. CASE RxBackoffExpired
  BY <1>5 DEF RxBackoffExpired
<1>6. CASE EnableSucceeds
  BY <1>6 DEF EnableSucceeds
<1>7. CASE EnableFailsEarly
  BY <1>7 DEF EnableFailsEarly, loopVars
<1>8. CASE EnableFailsToArm
  BY <1>8 DEF EnableFailsToArm
<1>9. CASE Disable
  BY <1>9 DEF Disable
<1>10. CASE StopClosesGate
  BY <1>10 DEF StopClosesGate, LatchStopping
<1>11. CASE StopAborts
  BY <1>11 DEF StopAborts, loopVars
<1>12. CASE StopReturns
  BY <1>12 DEF StopReturns, loopVars
<1>13. CASE ReleaseResources
  BY <1>13 DEF ReleaseResources
<1>14. CASE UNCHANGED vars
  BY <1>14 DEF vars, loopVars
<1> QED
  BY <1>1, <1>2, <1>3, <1>4, <1>5, <1>6, <1>7, <1>8, <1>9, <1>10, <1>11, <1>12, <1>13,
     <1>14 DEF Next, Enable

(* Every step keeps the reads outstanding at one at most, and rxArmed true *)
(* to them.                                                                *)
LEMMA OneReadStep ==
  ASSUME TypeOK, TeardownOrder, OneRead, [Next]_vars
  PROVE  OneRead'
<1> USE DEF OneRead
<1>0. inBusy \in Nat /\ inDone \in Seq(Outcome) /\ Len(inDone) \in Nat
  BY DEF TypeOK
<1>1. ASSUME NEW o \in Outcome, ReadEnds(o)
      PROVE  OneRead'
  <2>1. Len(inDone') = Len(inDone) + 1 /\ inBusy' = inBusy - 1
    BY <1>0, <1>1 DEF ReadEnds
  <2>2. UNCHANGED <<stopping, rxArmed>>
    BY <1>1 DEF ReadEnds, loopVars
  <2> QED
    BY <1>0, <2>1, <2>2
<1>2. CASE CompletionDropped
  <2>1. stopping' /\ inBusy' = inBusy /\ Len(inDone') = Len(inDone) - 1
    BY <1>2, TakeCompletion DEF CompletionDropped, loopVars
  <2> QED
    BY <1>0, <2>1
<1>3. CASE TimerFires
  BY <1>3 DEF TimerFires, loopVars, usbVars
<1>4. CASE RxComplete
  <2>1. /\ inDone # <<>> /\ Len(inDone') = Len(inDone) - 1
        /\ Len(inDone) >= 1
    <3>1. inDone # <<>> /\ inDone' = Tail(inDone)
      BY <1>4, CompleteEffect
    <3>2. Len(inDone) # 0
      BY <1>0, <3>1
    <3> QED
      BY <1>0, <3>1, <3>2, TakeCompletion
  <2>2. /\ inBusy' = IF rxArmed' THEN inBusy + 1 ELSE inBusy
        /\ stopping' = stopping
    BY <1>4, CompleteEffect
  <2>3. inBusy = 0 /\ Len(inDone) = 1
    BY <1>0, <2>1
  <2> QED
    BY <2>1, <2>2, <2>3
<1>5. CASE RxBackoffExpired
  <2>1. UNCHANGED <<stopping, inDone>>
    BY <1>5 DEF RxBackoffExpired
  <2>2. CASE ~rxRunning
    BY <1>5, <2>1, <2>2 DEF RxBackoffExpired
  <2>3. CASE rxRunning
    <3>1. PICK ok \in BOOLEAN : ArmRxRead(rxArmed, ok)
      BY <1>5, <2>3 DEF RxBackoffExpired
    <3>2. /\ rxArmed' = (rxArmed \/ ok)
          /\ inBusy' = IF ok /\ ~rxArmed THEN inBusy + 1 ELSE inBusy
          /\ ~stopping
      BY <2>3, <3>1, ArmEffect DEF TypeOK, TeardownOrder
    <3> QED
      BY <1>0, <2>1, <3>2 DEF TypeOK
  <2> QED
    BY <2>2, <2>3
<1>6. CASE EnableSucceeds
  <2>1. ArmRxRead(rxArmed, TRUE) /\ ~stopping /\ UNCHANGED <<stopping, inDone>>
    BY <1>6 DEF EnableSucceeds
  <2>2. rxArmed' /\ inBusy' = IF ~rxArmed THEN inBusy + 1 ELSE inBusy
    BY <2>1, ArmEffect DEF TypeOK
  <2> QED
    BY <1>0, <2>1, <2>2 DEF TypeOK
<1>7. CASE EnableFailsEarly
  BY <1>7 DEF EnableFailsEarly, loopVars, usbVars
<1>8. CASE EnableFailsToArm
  <2>1. ArmRxRead(rxArmed, FALSE) /\ UNCHANGED <<stopping, inDone>>
    BY <1>8 DEF EnableFailsToArm
  <2>2. rxArmed' = rxArmed /\ inBusy' = inBusy
    BY <2>1 DEF ArmRxRead
  <2> QED
    BY <2>1, <2>2
<1>9. CASE Disable
  BY <1>9 DEF Disable, usbVars
<1>10. CASE StopClosesGate
  BY <1>10 DEF StopClosesGate, LatchStopping, usbVars
<1>11. CASE StopAborts
  <2>1. stopping /\ stopping' = stopping
    BY <1>11 DEF StopAborts, TeardownOrder, loopVars
  <2>2. inBusy' + Len(inDone') = inBusy + Len(inDone)
    BY <1>0, <1>11, AbortedCompletions DEF StopAborts
  <2> QED
    BY <2>1, <2>2
<1>12. CASE StopReturns
  BY <1>12 DEF StopReturns, loopVars, usbVars
<1>13. CASE ReleaseResources
  BY <1>13 DEF ReleaseResources, usbVars
<1>14. CASE UNCHANGED vars
  BY <1>14 DEF vars, loopVars, usbVars
<1> QED
  BY <1>1, <1>2, <1>3, <1>4, <1>5, <1>6, <1>7, <1>8, <1>9, <1>10, <1>11, <1>12, <1>13,
     <1>14 DEF Next, Enable

-----------------------------------------------------------------------------
(* The running path.                                                       *)

(* Every step leaves a running path a read, a wakeup or a word.            *)
LEMMA NeverDeafStep ==
  ASSUME TypeOK, TeardownOrder, NeverSilentlyDeaf, [Next]_vars
  PROVE  NeverSilentlyDeaf'
<1> USE DEF NeverSilentlyDeaf
<1>1. ASSUME NEW o \in Outcome, ReadEnds(o)
      PROVE  NeverSilentlyDeaf'
  BY <1>1 DEF ReadEnds, loopVars, timerVars, logVars
<1>2. CASE CompletionDropped
  BY <1>2 DEF CompletionDropped, loopVars, timerVars, logVars
<1>3. CASE TimerFires
  BY <1>3 DEF TimerFires, loopVars, logVars
<1>4. CASE RxComplete
  BY <1>4, CompleteEffect
<1>5. CASE RxBackoffExpired
  <2>1. CASE ~rxRunning
    BY <1>5, <2>1 DEF RxBackoffExpired
  <2>2. CASE rxRunning
    <3>1. PICK ok \in BOOLEAN : ArmRxRead(rxArmed, ok) /\ saidDead' = ~ok
      BY <1>5, <2>2 DEF RxBackoffExpired
    <3>2. rxArmed' = (rxArmed \/ ok)
      BY <3>1, ArmEffect DEF TypeOK
    <3> QED
      BY <3>1, <3>2
  <2> QED
    BY <2>1, <2>2
<1>6. CASE EnableSucceeds
  BY <1>6, ArmEffect DEF EnableSucceeds, ArmRxRead
<1>7. CASE EnableFailsEarly
  BY <1>7 DEF EnableFailsEarly, loopVars, timerVars, logVars
<1>8. CASE EnableFailsToArm
  BY <1>8 DEF EnableFailsToArm
<1>9. CASE Disable
  BY <1>9 DEF Disable
<1>10. CASE StopClosesGate
  BY <1>10 DEF StopClosesGate, LatchStopping
<1>11. CASE StopAborts
  BY <1>11 DEF StopAborts, loopVars, timerVars, logVars
<1>12. CASE StopReturns
  BY <1>12 DEF StopReturns, loopVars, timerVars, logVars
<1>13. CASE ReleaseResources
  BY <1>13 DEF ReleaseResources, TeardownOrder
<1>14. CASE UNCHANGED vars
  BY <1>14 DEF vars, loopVars, timerVars, logVars
<1> QED
  BY <1>1, <1>2, <1>3, <1>4, <1>5, <1>6, <1>7, <1>8, <1>9, <1>10, <1>11, <1>12, <1>13,
     <1>14 DEF Next, Enable

(* Every step keeps the busy loop below the threshold.                     *)
LEMMA SpinStep ==
  ASSUME TypeOK, TeardownOrder, OneRead, SpinBounded, ArmedBelowLimit, [Next]_vars
  PROVE  (SpinBounded /\ ArmedBelowLimit)'
<1> USE DEF SpinBounded, ArmedBelowLimit
<1>0. IdleLimit \in Nat /\ rxIdleRun \in Nat /\ spin \in Nat
  BY RxAssumption DEF TypeOK
<1>1. ASSUME NEW o \in Outcome, ReadEnds(o)
      PROVE  (SpinBounded /\ ArmedBelowLimit)'
  BY <1>1 DEF ReadEnds, loopVars, logVars
<1>2. CASE CompletionDropped
  BY <1>2 DEF CompletionDropped, loopVars, logVars
<1>3. CASE TimerFires
  BY <1>3 DEF TimerFires, loopVars, logVars
<1>4. CASE RxComplete
  <2>1. CASE UNCHANGED <<rxIdleRun, spin>> /\ ~rxArmed'
    BY <2>1
  <2>2. CASE rxIdleRun' = 0 /\ spin' = 0
    BY <1>0, <2>2
  <2>3. CASE /\ rxRunning /\ spin' = spin + 1
             /\ rxArmed' => rxIdleRun' = rxIdleRun + 1 /\ rxIdleRun' <= IdleLimit
    <3>1. rxArmed
      <4>1. Len(inDone) \in Nat /\ Len(inDone) # 0 /\ inBusy \in Nat
        BY <1>4, CompleteEffect DEF TypeOK
      <4>2. inBusy + Len(inDone) = 1
        BY <4>1 DEF OneRead
      <4>3. ~stopping
        BY <2>3 DEF TeardownOrder
      <4> QED
        BY <4>2, <4>3 DEF OneRead
    <3>2. spin <= rxIdleRun /\ spin <= IdleLimit
      BY <3>1
    <3> QED
      BY <1>0, <2>3, <3>2
  <2> QED
    BY <1>4, <2>1, <2>2, <2>3, CompleteEffect
<1>5. CASE RxBackoffExpired
  <2>1. CASE ~rxRunning
    BY <1>5, <2>1 DEF RxBackoffExpired, logVars
  <2>2. CASE rxRunning /\ rxArmed
    BY <1>5, <2>2 DEF RxBackoffExpired
  <2>3. CASE rxRunning /\ ~rxArmed
    BY <1>0, <1>5, <2>3 DEF RxBackoffExpired
  <2> QED
    BY <2>1, <2>2, <2>3
<1>6. CASE EnableSucceeds
  BY <1>0, <1>6 DEF EnableSucceeds
<1>7. CASE EnableFailsEarly
  BY <1>7 DEF EnableFailsEarly, loopVars, logVars
<1>8. CASE EnableFailsToArm
  <2>1. ArmRxRead(rxArmed, FALSE) /\ ~stopping /\ spin' = spin
    BY <1>8 DEF EnableFailsToArm, logVars
  <2>2. ~rxArmed'
    BY <2>1 DEF ArmRxRead, TeardownOrder
  <2> QED
    BY <2>1, <2>2
<1>9. CASE Disable
  BY <1>9 DEF Disable, logVars
<1>10. CASE StopClosesGate
  BY <1>10 DEF StopClosesGate, logVars
<1>11. CASE StopAborts
  BY <1>11 DEF StopAborts, loopVars, logVars
<1>12. CASE StopReturns
  BY <1>12 DEF StopReturns, loopVars, logVars
<1>13. CASE ReleaseResources
  BY <1>13 DEF ReleaseResources, logVars
<1>14. CASE UNCHANGED vars
  BY <1>14 DEF vars, loopVars, logVars
<1> QED
  BY <1>1, <1>2, <1>3, <1>4, <1>5, <1>6, <1>7, <1>8, <1>9, <1>10, <1>11, <1>12, <1>13,
     <1>14 DEF Next, Enable

(* Every step keeps driver, family and queues in agreement.                *)
LEMMA AgreesStep ==
  ASSUME TypeOK, TeardownOrder, InterfaceAgrees, [Next]_vars
  PROVE  InterfaceAgrees'
<1> USE DEF InterfaceAgrees
<1>1. ASSUME NEW o \in Outcome, ReadEnds(o)
      PROVE  InterfaceAgrees'
  BY <1>1 DEF ReadEnds, loopVars, familyVars
<1>2. CASE CompletionDropped
  BY <1>2 DEF CompletionDropped, loopVars, familyVars
<1>3. CASE TimerFires
  BY <1>3 DEF TimerFires, loopVars, familyVars
<1>4. CASE RxComplete
  <2>1. UNCHANGED <<stopping, rxRunning, rxObjects, familyUp, enabled, undoFailed>>
    BY <1>4 DEF RxComplete, familyVars
  <2> QED
    BY <2>1
<1>5. CASE RxBackoffExpired
  BY <1>5 DEF RxBackoffExpired, familyVars
<1>6. CASE EnableSucceeds
  BY <1>6 DEF EnableSucceeds
<1>7. CASE EnableFailsEarly
  <2>1. PICK k \in 0 .. 4 : Unwind(k)
    BY <1>7 DEF EnableFailsEarly
  <2>2. /\ enabled' \subseteq Queues /\ enabled \subseteq enabled'
        /\ ~undoFailed' => ~undoFailed /\ ~familyUp' /\ enabled' = enabled
    BY <2>1, UnwindEffect
  <2>3. UNCHANGED <<stopping, rxRunning, rxObjects>>
    BY <1>7 DEF EnableFailsEarly, loopVars
  <2>4. rxRunning /\ rxObjects => enabled' = Queues
    BY <2>2
  <2> QED
    BY <2>2, <2>3, <2>4
<1>8. CASE EnableFailsToArm
  <2>1. Unwind(4) /\ ~rxRunning' /\ rxObjects' = rxObjects
    BY <1>8 DEF EnableFailsToArm
  <2>2. ~undoFailed' => ~familyUp' /\ enabled' = enabled
    BY <2>1, UnwindEffect
  <2>3. enabled = {}
    BY <1>8 DEF EnableFailsToArm, EnablesQueues, TypeOK, Queues
  <2> QED
    BY <2>1, <2>2, <2>3
<1>9. CASE Disable
  BY <1>9 DEF Disable, DisablesQueues, TypeOK
<1>10. CASE StopClosesGate
  BY <1>10 DEF StopClosesGate, LatchStopping, familyVars
<1>11. CASE StopAborts
  BY <1>11 DEF StopAborts, loopVars, familyVars
<1>12. CASE StopReturns
  BY <1>12 DEF StopReturns, loopVars, familyVars
<1>13. CASE ReleaseResources
  BY <1>13 DEF ReleaseResources
<1>14. CASE UNCHANGED vars
  BY <1>14 DEF vars, loopVars, familyVars
<1> QED
  BY <1>1, <1>2, <1>3, <1>4, <1>5, <1>6, <1>7, <1>8, <1>9, <1>10, <1>11, <1>12, <1>13,
     <1>14 DEF Next, Enable

-----------------------------------------------------------------------------
(* The theorems.                                                           *)

(* Nothing is outstanding on an interface not yet enabled.                 *)
LEMMA InitInv == Init => IInv
<1> SUFFICES ASSUME Init
             PROVE  IInv
  OBVIOUS
<1>1. TypeOK
  <2>1. 0 \in 0 .. IdleLimit + 1
    BY RxAssumption
  <2>2. inDone \in Seq(Outcome)
    BY DEF Init
  <2>3. enabled \subseteq Queues /\ inBusy \in 0 .. 1 /\ spin \in Nat
    BY DEF Init
  <2> QED
    BY <2>1, <2>2, <2>3 DEF Init, TypeOK
<1>2. TeardownOrder /\ NeverSilentlyDeaf /\ InterfaceAgrees
  BY DEF Init, TeardownOrder, NeverSilentlyDeaf, InterfaceAgrees
<1>3. OneRead /\ SpinBounded /\ ArmedBelowLimit
  BY RxAssumption DEF Init, OneRead, SpinBounded, ArmedBelowLimit
<1> QED
  BY <1>1, <1>2, <1>3 DEF IInv

(* Every reachable state of the receive half satisfies the inductive       *)
(* invariant.                                                              *)
THEOREM Invariance == Spec => []IInv
<1>1. IInv /\ [Next]_vars => IInv'
  BY TypeStep, TeardownStep, OneReadStep, NeverDeafStep, SpinStep, AgreesStep DEF IInv
<1> QED
  BY <1>1, InitInv, PTL DEF Spec

(* Type correctness of the receive half.                                   *)
THEOREM TypeCorrect == Spec => []TypeOK
<1>1. IInv => TypeOK
  BY DEF IInv
<1> QED
  BY <1>1, Invariance, PTL

(* One buffer, one read: armRxRead never submits into a buffer the         *)
(* controller still writes, and rxArmed never lies before teardown.        *)
THEOREM OneReadHolds == Spec => []OneRead
<1>1. IInv => OneRead
  BY DEF IInv
<1> QED
  BY <1>1, Invariance, PTL

(* No fault of the stack, the timer or the arming call silences a running  *)
(* receive path without the log saying so.                                 *)
THEOREM NeverDeaf == Spec => []NeverSilentlyDeaf
<1>1. IInv => NeverSilentlyDeaf
  BY DEF IInv
<1> QED
  BY <1>1, Invariance, PTL

(* Whatever the threshold, the backoff cuts the busy loop off right there. *)
THEOREM BackoffBoundsTheLoop == Spec => []SpinBounded
<1>1. IInv => SpinBounded
  BY DEF IInv
<1> QED
  BY <1>1, Invariance, PTL

(* Enables and disables in any order, half-made and half-undone, never     *)
(* leave a running path over queues that are not all enabled, and, while   *)
(* the undos succeed, no queue enabled and no family up over a dead path.  *)
THEOREM EnableIsAllOrNothing == Spec => []InterfaceAgrees
<1>1. IInv => InterfaceAgrees
  BY DEF IInv
<1> QED
  BY <1>1, Invariance, PTL

(* A step taken during teardown submits no read and asks for no wakeup:    *)
(* the handlers find rxRunning down, and armRxRead itself finds stopping.  *)
LEMMA QuietStep ==
  ASSUME IInv, [Next]_vars, TearingDown
  PROVE  inBusy' <= inBusy /\ (wakeSet' => wakeSet)
<1>0. stopping /\ ~rxRunning /\ inBusy \in Nat
  BY DEF IInv, TypeOK, TeardownOrder, TearingDown
<1>1. ASSUME NEW o \in Outcome, ReadEnds(o)
      PROVE  inBusy' <= inBusy /\ (wakeSet' => wakeSet)
  BY <1>0, <1>1 DEF ReadEnds, timerVars
<1>2. CASE CompletionDropped
  BY <1>0, <1>2 DEF CompletionDropped, timerVars
<1>3. CASE TimerFires
  BY <1>0, <1>3 DEF TimerFires, usbVars
<1>4. CASE RxComplete
  BY <1>0, <1>4, CompleteEffect DEF IInv
<1>5. CASE RxBackoffExpired
  BY <1>0, <1>5 DEF RxBackoffExpired
<1>6. CASE EnableSucceeds
  BY <1>0, <1>6 DEF EnableSucceeds
<1>7. CASE EnableFailsEarly
  BY <1>0, <1>7 DEF EnableFailsEarly
<1>8. CASE EnableFailsToArm
  BY <1>0, <1>8 DEF EnableFailsToArm
<1>9. CASE Disable
  BY <1>0, <1>9 DEF Disable, timerVars, usbVars
<1>10. CASE StopClosesGate
  BY <1>0, <1>10 DEF StopClosesGate
<1>11. CASE StopAborts
  BY <1>0, <1>11 DEF StopAborts, timerVars
<1>12. CASE StopReturns
  BY <1>0, <1>12 DEF StopReturns, timerVars, usbVars
<1>13. CASE ReleaseResources
  BY <1>0, <1>13 DEF ReleaseResources, usbVars
<1>14. CASE UNCHANGED vars
  BY <1>0, <1>14 DEF vars, timerVars, usbVars
<1> QED
  BY <1>1, <1>2, <1>3, <1>4, <1>5, <1>6, <1>7, <1>8, <1>9, <1>10, <1>11, <1>12, <1>13,
     <1>14 DEF Next, Enable

(* Teardown is quiet: from the first step of Stop on, no completion, no    *)
(* timer and no enable submits a read or sets the timer.                   *)
THEOREM TeardownIsQuiet == Spec => NoReadAfterStop
<1>1. IInv /\ [Next]_vars => [TearingDown => inBusy' <= inBusy /\ (wakeSet' => wakeSet)]_vars
  BY QuietStep
<1> QED
  BY <1>1, Invariance, PTL DEF Spec, NoReadAfterStop
===============================================================================
