--------------------------- MODULE Lifecycle_proofs ---------------------------
(***************************************************************************)
(* Attach and teardown: the countdown is honest, nothing outlives          *)
(* super::Stop, and no object is released under a callback unless a failed *)
(* registration and a failed Cancel meet in one life, for every set of     *)
(* faults, because of the inductive invariant IInv.                        *)
(***************************************************************************)
EXTENDS Lifecycle, FiniteSetTheorems, SequenceTheorems, TLAPS

(* What Start's thread has done says what the others can have begun.       *)
StartOrder ==
  /\ startPc \in {"entered", "acquiring", "failing"} => ~familyKnows
  /\ startPc \in {"entered", "acquiring", "failing", "registering"} => teardown = "none"
  /\ startPc = "entered" => held = {} /\ startAt = 1
  /\ startPc = "acquiring" => startAt <= Len(StartSteps)
  /\ startPc = "returned" /\ ~familyKnows => held = {}
  /\ startPc = "tearing" =>
       /\ teardown # "none"
       /\ familyKnows => "registerFails" \in faults
       /\ ~familyKnows => by = "start" /\ teardown \in {"releasing", "super"}

(* The stages of the teardown, and who is in them: the thread that         *)
(* finished the countdown stays in Stop, in its handler or in Start.       *)
TeardownOrder ==
  /\ stopping <=> teardown # "none"
  /\ teardown = "none" => toCancel = {} /\ cancelling = {} /\ pending = 0 /\ ~retained
  /\ teardown \in {"none", "cancelling"} => by = "nobody" /\ releaseAt = 1
  /\ teardown \in {"releasing", "super"} => by \in {"queue", "start"}
  /\ teardown = "releasing" => releaseAt <= Len(ReleaseOrder)
  /\ teardown \in {"super", "stopped"} => releaseAt = Len(ReleaseOrder) + 1
  /\ superStops = 1 <=> teardown = "stopped"
  /\ teardown = "stopped" => ~retained

QueueOrderly ==
  /\ queue \notin Handlers => uses = {}
  /\ ~familyKnows => queue = "idle" /\ teardown # "cancelling"
  /\ queue = "stop" => startPc = "returned" /\ teardown # "none"
  /\ teardown = "cancelling" /\ toCancel # {} => queue = "stop" \/ startPc = "tearing"
  /\ by = "queue" /\ teardown \in {"releasing", "super"} => queue \in {"stop", "finalize"}
  /\ queue = "finalize" => by = "queue" /\ teardown \in {"releasing", "super"}
  /\ by = "start" /\ teardown \in {"releasing", "super"} =>
       startPc = "tearing" /\ (familyKnows => "cancelFails" \in faults)

(* Each Cancel to be issued or answered is owed one decrement, and the     *)
(* countdown is over when no more is owed.                                 *)
Countdown ==
  /\ toCancel \cap cancelling = {}
  /\ pending = Cardinality(toCancel \cup cancelling)
  /\ teardown \in {"releasing", "super", "stopped"} => toCancel = {} /\ cancelling = {}

(* What is held once the release has begun is what it has not come to.     *)
ReleaseInOrder ==
  teardown \in {"releasing", "super", "stopped"} =>
    held \subseteq {ReleaseOrder[i] : i \in releaseAt .. Len(ReleaseOrder)}

(* The one way to release beside a callback takes two failures.            *)
BothFail == {"registerFails", "cancelFails"} \subseteq faults

UsesHeld == uses \subseteq held \/ BothFail

IInv == /\ TypeOK /\ StartOrder /\ TeardownOrder /\ QueueOrderly
        /\ Countdown /\ ReleaseInOrder /\ UsesHeld

-----------------------------------------------------------------------------
(* Types, in two parts, and the constant sequences.                        *)

ThreadsTyped ==
  /\ faults \in FaultSets
  /\ startPc \in {"entered", "acquiring", "failing", "registering", "tearing", "returned"}
  /\ startAt \in 1 .. Len(StartSteps) + 1
  /\ held \subseteq Resources
  /\ stopping \in BOOLEAN /\ familyKnows \in BOOLEAN
  /\ queue \in Handlers \cup {"idle", "stop", "finalize"} /\ uses \subseteq Resources
  /\ promisc \in {"out", "checked", "request"}

TeardownTyped ==
  /\ teardown \in {"none", "cancelling", "releasing", "super", "stopped"}
  /\ by \in {"nobody", "start", "queue"}
  /\ toCancel \subseteq ToSet(Sources) /\ cancelling \subseteq ToSet(Sources)
  /\ joined \subseteq ToSet(Sources) /\ pending \in 0 .. Len(Sources)
  /\ retained \in BOOLEAN
  /\ releaseAt \in 1 .. Len(ReleaseOrder) + 1 /\ superStops \in 0 .. 1

(* The parts are TypeOK.                                                   *)
LEMMA TypeParts == TypeOK <=> ThreadsTyped /\ TeardownTyped
  BY Zenon DEF TypeOK, ThreadsTyped, TeardownTyped

Names == {"rxBackoffAction", "rxBackoffTimer", "txDataAvailableAction", "txDataQueue",
          "rxAction", "txAction", "pipeIn", "pipeOut", "rxBuffer", "txBuffer",
          "txSubmit", "rxSubmit", "txComplete", "rxComplete",
          "pool", "interface", "ctrlBuffer", "dispatchQueue"}

(* The order of the release is a sequence.                                 *)
LEMMA ReleaseOrderIsSeq == ReleaseOrder \in Seq(Names) /\ Len(ReleaseOrder) > 0
<1>1. DatapathOrder \in Seq(Names)
  BY DEF DatapathOrder, Names
<1>2. Len(DatapathOrder) = 10
  BY DEF DatapathOrder
<1>3. QueueOrder \in Seq(Names)
  BY DEF QueueOrder, Names
<1> DEFINE rest == <<"pool", "interface", "ctrlBuffer", "dispatchQueue">>
<1>4. rest \in Seq(Names)
  BY DEF Names
<1>5. DatapathOrder \o QueueOrder \in Seq(Names)
  BY <1>1, <1>3, ConcatProperties
<1>6. Len(DatapathOrder \o QueueOrder) = Len(DatapathOrder) + Len(QueueOrder)
  BY <1>1, <1>3, ConcatProperties
<1> HIDE DEF rest
<1>7. (DatapathOrder \o QueueOrder) \o rest \in Seq(Names)
  BY <1>4, <1>5, ConcatProperties
<1>8. Len((DatapathOrder \o QueueOrder) \o rest) = Len(DatapathOrder \o QueueOrder) + Len(rest)
  BY <1>4, <1>5, ConcatProperties
<1>9. Len(QueueOrder) \in Nat /\ Len(rest) \in Nat
  BY <1>3, <1>4, LenProperties
<1> QED
  BY <1>2, <1>6, <1>7, <1>8, <1>9 DEF ReleaseOrder, rest

(* The orders are sequences, none of them empty.                           *)
LEMMA Lengths ==
  /\ Len(StartSteps) \in Nat /\ Len(StartSteps) > 0
  /\ Len(ReleaseOrder) \in Nat /\ Len(ReleaseOrder) > 0
  /\ Len(Sources) = 4
<1>1. Len(StartSteps) = 21
  BY DEF StartSteps
<1>2. Len(Sources) = 4
  BY DEF Sources
<1>3. Len(ReleaseOrder) \in Nat /\ Len(ReleaseOrder) > 0
  BY ReleaseOrderIsSeq
<1> QED
  BY <1>1, <1>2, <1>3

(* What is released is what ReleaseOrder names.                            *)
LEMMA ResourcesAreOrdered == Resources = {ReleaseOrder[i] : i \in 1 .. Len(ReleaseOrder)}
  BY ReleaseOrderIsSeq DEF Resources, ToSet

(* At most four sources owe a handler.                                     *)
LEMMA SourcesAreFour ==
  ASSUME NEW S, S \subseteq ToSet(Sources)
  PROVE  IsFiniteSet(S) /\ Cardinality(S) \in 0 .. Len(Sources)
<1>1. ToSet(Sources) = {Sources[i] : i \in 1 .. 4}
  BY DEF ToSet, Sources
<1> DEFINE f == [i \in 1 .. 4 |-> Sources[i]]
<1>2. f \in Surjection(1 .. 4, ToSet(Sources))
  BY <1>1 DEF Surjection
<1>3. IsFiniteSet(1 .. 4) /\ Cardinality(1 .. 4) = IF 1 > 4 THEN 0 ELSE 4 - 1 + 1
  BY FS_Interval, 1 \in Int, 4 \in Int
<1>4. IsFiniteSet(ToSet(Sources)) /\ Cardinality(ToSet(Sources)) <= 4
  BY <1>2, <1>3, FS_Surjection
<1>5. IsFiniteSet(S) /\ Cardinality(S) <= Cardinality(ToSet(Sources))
  BY <1>4, FS_Subset
<1> QED
  BY <1>4, <1>5, FS_CardinalityType, Lengths

-----------------------------------------------------------------------------
(* The countdown.                                                          *)

Owed == toCancel \cup cancelling

(* One Cancel answered, one decrement less is owed.                        *)
LEMMA OneLessOwed ==
  ASSUME TeardownTyped, Countdown, NEW s \in Owed
  PROVE  /\ pending \in 1 .. Len(Sources)
         /\ Cardinality(Owed \ {s}) = pending - 1
         /\ pending = 1 => Owed = {s}
<1>1. Owed \subseteq ToSet(Sources)
  BY DEF TeardownTyped, Owed
<1>2. IsFiniteSet(Owed) /\ Cardinality(Owed) \in 0 .. Len(Sources)
  BY <1>1, SourcesAreFour
<1>3. Cardinality(Owed \ {s}) = Cardinality(Owed) - 1
  BY <1>2, FS_RemoveElement
<1>4. IsFiniteSet(Owed \ {s}) /\ Cardinality(Owed \ {s}) \in Nat
  BY <1>2, FS_RemoveElement, FS_CardinalityType
<1>5. Cardinality(Owed \ {s}) = 0 => Owed \ {s} = {}
  BY <1>4, FS_EmptySet
<1>6. pending = Cardinality(Owed)
  BY DEF Countdown, Owed
<1> QED
  BY <1>2, <1>3, <1>4, <1>5, <1>6, Lengths

(* The handlers owed after a step that answers the Cancel of s.            *)
LEMMA FinalizeEffect ==
  ASSUME TeardownTyped, Countdown, NEW s \in Owed, NEW thread, Finalize(thread),
         teardown = "cancelling", Owed' = Owed \ {s}
  PROVE  /\ pending' = Cardinality(Owed')
         /\ pending' \in 0 .. Len(Sources)
         /\ teardown' \in {"cancelling", "releasing"}
         /\ teardown' = "releasing" => Owed' = {} /\ by' = thread
         /\ teardown' = "cancelling" => by' = by
<1>1. /\ pending \in 1 .. Len(Sources)
      /\ Cardinality(Owed \ {s}) = pending - 1
      /\ pending = 1 => Owed = {s}
  BY OneLessOwed
<1>2. pending' \in 0 .. Len(Sources)
  BY <1>1, Lengths DEF Finalize
<1> QED
  BY <1>1, <1>2 DEF Finalize

(* Every step keeps the types of the threads' state.                       *)
LEMMA ThreadsTypedStep ==
  ASSUME IInv, [Next]_vars
  PROVE  ThreadsTyped'
<1> USE DEF ThreadsTyped, Handlers, StartOrder
<1>0. ThreadsTyped /\ TeardownTyped /\ StartOrder /\ TeardownOrder /\ QueueOrderly /\ Countdown
  BY TypeParts DEF IInv
<1>a. Len(StartSteps) \in Nat /\ Len(StartSteps) > 0
  BY Lengths
<1>1. CASE StartSuper
  BY <1>0, <1>a, <1>1 DEF StartSuper, queueVars
<1>2. CASE Acquire
  BY <1>0, <1>a, <1>2 DEF Acquire, queueVars
<1>3. CASE AcquireFails
  BY <1>0, <1>a, <1>3 DEF AcquireFails, queueVars
<1>4. CASE FailsSynchronously
  BY <1>0, <1>a, <1>4 DEF FailsSynchronously, queueVars
<1>5. CASE RegisterBegins
  BY <1>0, <1>a, <1>5 DEF RegisterBegins, startVars, queueVars
<1>6. CASE RegisterSucceeds
  BY <1>0, <1>a, <1>6 DEF RegisterSucceeds, queueVars
<1>7. CASE RegisterFails
  BY <1>0, <1>a, <1>7 DEF RegisterFails, BeginFinishStop, queueVars
<1>8. CASE Stop
  BY <1>0, <1>a, <1>8 DEF Stop, BeginFinishStop, startVars
<1>9. ASSUME NEW s \in ToSet(Sources), CancelAccepted(s)
      PROVE  ThreadsTyped'
  BY <1>0, <1>a, <1>9 DEF CancelAccepted, startVars, queueVars
<1>10. ASSUME NEW s \in ToSet(Sources), CancelFails(s)
      PROVE  ThreadsTyped'
  BY <1>0, <1>a, <1>10 DEF CancelFails, startVars, queueVars
<1>11. CASE FinishStopReturns
  BY <1>0, <1>a, <1>11 DEF FinishStopReturns, LeaveFinishStop
<1>12. CASE ReleaseNext
  BY <1>0, <1>a, <1>12 DEF ReleaseNext, startVars, queueVars
<1>13. CASE SuperStop
  BY <1>0, <1>a, <1>13 DEF SuperStop
<1>14. CASE PromiscCalled
  BY <1>0, <1>a, <1>14 DEF PromiscCalled, startVars, queueVars
<1>15. CASE RegisterAccess
  BY <1>0, <1>a, <1>15 DEF RegisterAccess, startVars, queueVars
<1>16. CASE RegisterAccessEnds
  BY <1>0, <1>a, <1>16 DEF RegisterAccessEnds, startVars, queueVars
<1>17. ASSUME NEW s \in ToSet(Sources), CancelHandler(s)
      PROVE  ThreadsTyped'
  BY <1>0, <1>a, <1>17 DEF CancelHandler, startVars
<1>18. ASSUME NEW h \in Handlers, HandlerEnters(h)
      PROVE  ThreadsTyped'
  BY <1>0, <1>a, <1>18 DEF HandlerEnters, PastGates, startVars
<1>19. CASE HandlerLeaves
  BY <1>0, <1>a, <1>19 DEF HandlerLeaves, startVars
<1>20. CASE UNCHANGED vars
  BY <1>0, <1>a, <1>20 DEF vars, startVars, queueVars
<1> QED
  BY <1>1, <1>2, <1>3, <1>4, <1>5, <1>6, <1>7, <1>8, <1>9, <1>10, <1>11, <1>12, <1>13,
     <1>14, <1>15, <1>16, <1>17, <1>18, <1>19, <1>20 DEF Next, StartThread, Teardown,
     Family

(* Every step keeps the countdown honest.                                  *)
LEMMA CountdownStep ==
  ASSUME IInv, [Next]_vars
  PROVE  (Countdown /\ pending \in 0 .. Len(Sources))'
<1>0. ThreadsTyped /\ TeardownTyped /\ StartOrder /\ TeardownOrder /\ QueueOrderly /\ Countdown
  BY TypeParts DEF IInv
<1>a. pending \in 0 .. Len(Sources)
  BY <1>0 DEF TeardownTyped
<1>1. CASE StartSuper
  BY <1>0, <1>a, <1>1 DEF Countdown, StartSuper, teardownVars, cancelVars
<1>2. CASE Acquire
  BY <1>0, <1>a, <1>2 DEF Countdown, Acquire, teardownVars, cancelVars
<1>3. CASE AcquireFails
  BY <1>0, <1>a, <1>3 DEF Countdown, AcquireFails, teardownVars, cancelVars
<1>4. CASE FailsSynchronously
  BY <1>0, <1>a, <1>4 DEF Countdown, FailsSynchronously, StartOrder, TeardownOrder, cancelVars
<1>5. CASE RegisterBegins
  BY <1>0, <1>a, <1>5 DEF Countdown, RegisterBegins, teardownVars, cancelVars
<1>6. CASE RegisterSucceeds
  BY <1>0, <1>a, <1>6 DEF Countdown, RegisterSucceeds, teardownVars, cancelVars
<1>7. CASE RegisterFails
  <2>1. toCancel' = LiveSources /\ cancelling' = {} /\ pending' = Cardinality(LiveSources)
    BY <1>0, <1>7 DEF RegisterFails, BeginFinishStop, TeardownOrder
  <2>2. Cardinality(LiveSources) \in 0 .. Len(Sources)
    BY SourcesAreFour DEF LiveSources
  <2>3. teardown' = "cancelling"
    BY <1>7 DEF RegisterFails, BeginFinishStop
  <2> QED
    BY <2>1, <2>2, <2>3 DEF Countdown
<1>8. CASE Stop
  <2>1. toCancel' = LiveSources /\ cancelling' = {} /\ pending' = Cardinality(LiveSources)
    BY <1>0, <1>8 DEF Stop, BeginFinishStop, TeardownOrder
  <2>2. Cardinality(LiveSources) \in 0 .. Len(Sources)
    BY SourcesAreFour DEF LiveSources
  <2>3. teardown' = "cancelling"
    BY <1>8 DEF Stop, BeginFinishStop
  <2> QED
    BY <2>1, <2>2, <2>3 DEF Countdown
<1>9. ASSUME NEW s \in ToSet(Sources), CancelAccepted(s)
      PROVE  (Countdown /\ pending \in 0 .. Len(Sources))'
  <2>1. toCancel' \cup cancelling' = toCancel \cup cancelling /\ pending' = pending
    BY <1>0, <1>9 DEF CancelAccepted, CancelInTurn
  <2>2. toCancel' \cap cancelling' = {} /\ teardown' = "cancelling"
    BY <1>0, <1>9 DEF CancelAccepted, CancelInTurn, Countdown
  <2>3. pending \in 0 .. Len(Sources)
    BY <1>0 DEF TeardownTyped
  <2> QED
    BY <1>0, <2>1, <2>2, <2>3 DEF Countdown
<1>10. ASSUME NEW s \in ToSet(Sources), CancelFails(s)
      PROVE  (Countdown /\ pending \in 0 .. Len(Sources))'
  <2>1. s \in Owed /\ Owed' = Owed \ {s} /\ teardown = "cancelling"
    BY <1>0, <1>10 DEF CancelFails, CancelInTurn, Countdown, TeardownOrder, TeardownTyped, Owed
  <2>2. PICK thread : Finalize(thread)
    BY <1>10 DEF CancelFails
  <2>3. /\ pending' = Cardinality(Owed') /\ pending' \in 0 .. Len(Sources)
        /\ teardown' \in {"cancelling", "releasing"}
        /\ teardown' = "releasing" => Owed' = {}
    BY <1>0, <2>1, <2>2, FinalizeEffect
  <2>4. toCancel' \cap cancelling' = {}
    BY <1>0, <1>10 DEF CancelFails, CancelInTurn, Countdown
  <2> QED
    BY <2>3, <2>4 DEF Countdown, Owed
<1>11. CASE FinishStopReturns
  BY <1>0, <1>a, <1>11 DEF Countdown, FinishStopReturns, LeaveFinishStop, teardownVars, cancelVars
<1>12. CASE ReleaseNext
  BY <1>0, <1>a, <1>12 DEF Countdown, ReleaseNext, cancelVars
<1>13. CASE SuperStop
  BY <1>0, <1>a, <1>13 DEF Countdown, SuperStop
<1>14. CASE PromiscCalled
  BY <1>0, <1>a, <1>14 DEF Countdown, PromiscCalled, teardownVars, cancelVars
<1>15. CASE RegisterAccess
  BY <1>0, <1>a, <1>15 DEF Countdown, RegisterAccess, teardownVars, cancelVars
<1>16. CASE RegisterAccessEnds
  BY <1>0, <1>a, <1>16 DEF Countdown, RegisterAccessEnds, teardownVars, cancelVars
<1>17. ASSUME NEW s \in ToSet(Sources), CancelHandler(s)
      PROVE  (Countdown /\ pending \in 0 .. Len(Sources))'
  <2>1. s \in Owed /\ Owed' = Owed \ {s} /\ teardown = "cancelling"
    BY <1>0, <1>17 DEF CancelHandler, Countdown, TeardownOrder, TeardownTyped, Owed
  <2>2. PICK thread : Finalize(thread)
    BY <1>17 DEF CancelHandler
  <2>3. /\ pending' = Cardinality(Owed') /\ pending' \in 0 .. Len(Sources)
        /\ teardown' \in {"cancelling", "releasing"}
        /\ teardown' = "releasing" => Owed' = {}
    BY <1>0, <2>1, <2>2, FinalizeEffect
  <2>4. toCancel' \cap cancelling' = {}
    BY <1>0, <1>17 DEF CancelHandler, Countdown
  <2> QED
    BY <2>3, <2>4 DEF Countdown, Owed
<1>18. ASSUME NEW h \in Handlers, HandlerEnters(h)
      PROVE  (Countdown /\ pending \in 0 .. Len(Sources))'
  BY <1>0, <1>a, <1>18 DEF Countdown, HandlerEnters, teardownVars, cancelVars
<1>19. CASE HandlerLeaves
  BY <1>0, <1>a, <1>19 DEF Countdown, HandlerLeaves, teardownVars, cancelVars
<1>20. CASE UNCHANGED vars
  BY <1>0, <1>a, <1>20 DEF Countdown, vars, teardownVars, cancelVars
<1> QED
  BY <1>1, <1>2, <1>3, <1>4, <1>5, <1>6, <1>7, <1>8, <1>9, <1>10, <1>11, <1>12, <1>13,
     <1>14, <1>15, <1>16, <1>17, <1>18, <1>19, <1>20 DEF Next, StartThread, Teardown,
     Family


-----------------------------------------------------------------------------
(* The order of the stages.                                                *)

(* Past the end of ReleaseOrder nothing is held.                           *)
LEMMA NothingLeft ==
  ASSUME IInv, teardown \in {"super", "stopped"}
  PROVE  held = {} /\ releaseAt = Len(ReleaseOrder) + 1
<1>1. releaseAt = Len(ReleaseOrder) + 1
  BY DEF IInv, TeardownOrder
<1>2. releaseAt .. Len(ReleaseOrder) = {}
  BY <1>1, Lengths
<1> QED
  BY <1>1, <1>2 DEF IInv, ReleaseInOrder

(* A Cancel that fails is completed by the thread that issued it.          *)
LEMMA CancelFailsEffect ==
  ASSUME IInv, NEW s \in ToSet(Sources), CancelFails(s)
  PROVE  /\ teardown = "cancelling" /\ toCancel # {} /\ "cancelFails" \in faults
         /\ teardown' \in {"cancelling", "releasing"}
         /\ teardown' = "releasing" => toCancel' = {} /\ cancelling' = {} /\ by' = Canceller
         /\ teardown' = "cancelling" => by' = by
<1>0. TeardownTyped /\ Countdown
  BY TypeParts DEF IInv
<1>1. teardown = "cancelling" /\ toCancel # {} /\ "cancelFails" \in faults
  BY DEF CancelFails, CancelInTurn
<1>2. s \in Owed /\ Owed' = Owed \ {s}
  BY <1>0 DEF CancelFails, CancelInTurn, Countdown, Owed
<1>3. Finalize(Canceller)
  BY DEF CancelFails
<1> HIDE DEF Canceller
<1> QED
  BY <1>0, <1>1, <1>2, <1>3, FinalizeEffect DEF Owed

(* A cancellation handler: the last one goes on to release, on the queue.  *)
LEMMA CancelHandlerEffect ==
  ASSUME IInv, NEW s \in ToSet(Sources), CancelHandler(s)
  PROVE  /\ teardown = "cancelling" /\ queue = "idle"
         /\ \/ teardown' = "cancelling" /\ queue' = "idle" /\ by' = by
            \/ /\ teardown' = "releasing" /\ toCancel' = {} /\ cancelling' = {}
               /\ queue' = "finalize" /\ by' = "queue"
<1>0. TeardownTyped /\ Countdown /\ TeardownOrder
  BY TypeParts DEF IInv
<1>1. teardown = "cancelling" /\ queue = "idle"
  BY <1>0 DEF CancelHandler, Countdown, TeardownOrder, TeardownTyped
<1>2. s \in Owed /\ Owed' = Owed \ {s}
  BY <1>0 DEF CancelHandler, Countdown, Owed
<1>3. Finalize("queue")
  BY DEF CancelHandler
<1>4. /\ teardown' \in {"cancelling", "releasing"}
      /\ teardown' = "releasing" => Owed' = {} /\ by' = "queue"
      /\ teardown' = "cancelling" => by' = by
  BY <1>0, <1>1, <1>2, <1>3, FinalizeEffect
<1>5. queue' = IF teardown' = "releasing" THEN "finalize" ELSE "idle"
  BY <1>1, <1>3 DEF CancelHandler, Finalize
<1> QED
  BY <1>1, <1>4, <1>5 DEF Owed

(* Every step keeps the types of the teardown's state.                     *)
LEMMA TeardownTypedStep ==
  ASSUME IInv, [Next]_vars
  PROVE  TeardownTyped'
<1> USE DEF TeardownTyped, TeardownOrder, LiveSources
<1>0. ThreadsTyped /\ TeardownTyped /\ StartOrder /\ TeardownOrder /\ QueueOrderly /\ Countdown
  BY TypeParts DEF IInv
<1>a. pending' \in 0 .. Len(Sources)
  BY CountdownStep
<1>b. Len(ReleaseOrder) \in Nat /\ Len(ReleaseOrder) > 0
  BY Lengths
<1>1. CASE StartSuper
  BY <1>0, <1>a, <1>b, <1>1 DEF StartSuper, teardownVars, cancelVars
<1>2. CASE Acquire
  BY <1>0, <1>a, <1>b, <1>2 DEF Acquire, teardownVars, cancelVars
<1>3. CASE AcquireFails
  BY <1>0, <1>a, <1>b, <1>3 DEF AcquireFails, teardownVars, cancelVars
<1>4. CASE FailsSynchronously
  BY <1>0, <1>a, <1>b, <1>4 DEF FailsSynchronously, cancelVars
<1>5. CASE RegisterBegins
  BY <1>0, <1>a, <1>b, <1>5 DEF RegisterBegins, teardownVars, cancelVars
<1>6. CASE RegisterSucceeds
  BY <1>0, <1>a, <1>b, <1>6 DEF RegisterSucceeds, teardownVars, cancelVars
<1>7. CASE RegisterFails
  BY <1>0, <1>a, <1>b, <1>7 DEF RegisterFails, BeginFinishStop
<1>8. CASE Stop
  BY <1>0, <1>a, <1>b, <1>8 DEF Stop, BeginFinishStop
<1>9. ASSUME NEW s \in ToSet(Sources), CancelAccepted(s)
      PROVE  TeardownTyped'
  BY <1>0, <1>a, <1>b, <1>9 DEF CancelAccepted, CancelInTurn
<1>10. ASSUME NEW s \in ToSet(Sources), CancelFails(s)
      PROVE  TeardownTyped'
  BY <1>0, <1>a, <1>10, CancelFailsEffect DEF CancelFails, CancelInTurn, Canceller
<1>11. CASE FinishStopReturns
  BY <1>0, <1>a, <1>b, <1>11 DEF FinishStopReturns, LeaveFinishStop, teardownVars, cancelVars
<1>12. CASE ReleaseNext
  BY <1>0, <1>a, <1>b, <1>12 DEF ReleaseNext, cancelVars
<1>13. CASE SuperStop
  <2>1. superStops = 0
    BY <1>0, <1>13 DEF SuperStop
  <2>2. superStops' \in 0 .. 1
    BY <1>13, <2>1 DEF SuperStop
  <2> QED
    BY <1>0, <1>13, <2>2 DEF SuperStop
<1>14. CASE PromiscCalled
  BY <1>0, <1>a, <1>b, <1>14 DEF PromiscCalled, teardownVars, cancelVars
<1>15. CASE RegisterAccess
  BY <1>0, <1>a, <1>b, <1>15 DEF RegisterAccess, teardownVars, cancelVars
<1>16. CASE RegisterAccessEnds
  BY <1>0, <1>a, <1>b, <1>16 DEF RegisterAccessEnds, teardownVars, cancelVars
<1>17. ASSUME NEW s \in ToSet(Sources), CancelHandler(s)
      PROVE  TeardownTyped'
  BY <1>0, <1>a, <1>17, CancelHandlerEffect DEF CancelHandler
<1>18. ASSUME NEW h \in Handlers, HandlerEnters(h)
      PROVE  TeardownTyped'
  BY <1>0, <1>a, <1>b, <1>18 DEF HandlerEnters, teardownVars, cancelVars
<1>19. CASE HandlerLeaves
  BY <1>0, <1>a, <1>b, <1>19 DEF HandlerLeaves, teardownVars, cancelVars
<1>20. CASE UNCHANGED vars
  BY <1>0, <1>a, <1>b, <1>20 DEF vars, teardownVars, cancelVars
<1> QED
  BY <1>1, <1>2, <1>3, <1>4, <1>5, <1>6, <1>7, <1>8, <1>9, <1>10, <1>11, <1>12, <1>13,
     <1>14, <1>15, <1>16, <1>17, <1>18, <1>19, <1>20 DEF Next, StartThread, Teardown,
     Family

(* Every step keeps the order of the stages.                               *)
LEMMA TeardownStep ==
  ASSUME IInv, [Next]_vars
  PROVE  TeardownOrder'
<1> USE DEF TeardownOrder, TeardownTyped
<1>0. ThreadsTyped /\ TeardownTyped /\ StartOrder /\ TeardownOrder /\ QueueOrderly /\ Countdown
  BY TypeParts DEF IInv
<1>a. Len(ReleaseOrder) \in Nat /\ Len(ReleaseOrder) > 0
  BY Lengths
<1>1. CASE StartSuper
  BY <1>0, <1>a, <1>1 DEF StartSuper, teardownVars, cancelVars
<1>2. CASE Acquire
  BY <1>0, <1>a, <1>2 DEF Acquire, teardownVars, cancelVars
<1>3. CASE AcquireFails
  BY <1>0, <1>a, <1>3 DEF AcquireFails, teardownVars, cancelVars
<1>4. CASE FailsSynchronously
  BY <1>0, <1>a, <1>4 DEF FailsSynchronously, StartOrder, cancelVars
<1>5. CASE RegisterBegins
  BY <1>0, <1>a, <1>5 DEF RegisterBegins, teardownVars, cancelVars
<1>6. CASE RegisterSucceeds
  BY <1>0, <1>a, <1>6 DEF RegisterSucceeds, teardownVars, cancelVars
<1>7. CASE RegisterFails
  BY <1>0, <1>a, <1>7 DEF RegisterFails, BeginFinishStop
<1>8. CASE Stop
  BY <1>0, <1>a, <1>8 DEF Stop, BeginFinishStop
<1>9. ASSUME NEW s \in ToSet(Sources), CancelAccepted(s)
      PROVE  TeardownOrder'
  BY <1>0, <1>a, <1>9 DEF CancelAccepted, CancelInTurn
<1>10. ASSUME NEW s \in ToSet(Sources), CancelFails(s)
      PROVE  TeardownOrder'
  BY <1>0, <1>a, <1>10, CancelFailsEffect DEF CancelFails, CancelInTurn, Canceller
<1>11. CASE FinishStopReturns
  BY <1>0, <1>a, <1>11 DEF FinishStopReturns, LeaveFinishStop, teardownVars, cancelVars
<1>12. CASE ReleaseNext
  BY <1>0, <1>a, <1>12 DEF ReleaseNext, cancelVars
<1>13. CASE SuperStop
  BY <1>0, <1>a, <1>13 DEF SuperStop
<1>14. CASE PromiscCalled
  BY <1>0, <1>a, <1>14 DEF PromiscCalled, teardownVars, cancelVars
<1>15. CASE RegisterAccess
  BY <1>0, <1>a, <1>15 DEF RegisterAccess, teardownVars, cancelVars
<1>16. CASE RegisterAccessEnds
  BY <1>0, <1>a, <1>16 DEF RegisterAccessEnds, teardownVars, cancelVars
<1>17. ASSUME NEW s \in ToSet(Sources), CancelHandler(s)
      PROVE  TeardownOrder'
  BY <1>0, <1>a, <1>17, CancelHandlerEffect DEF CancelHandler
<1>18. ASSUME NEW h \in Handlers, HandlerEnters(h)
      PROVE  TeardownOrder'
  BY <1>0, <1>a, <1>18 DEF HandlerEnters, teardownVars, cancelVars
<1>19. CASE HandlerLeaves
  BY <1>0, <1>a, <1>19 DEF HandlerLeaves, teardownVars, cancelVars
<1>20. CASE UNCHANGED vars
  BY <1>0, <1>a, <1>20 DEF vars, teardownVars, cancelVars
<1> QED
  BY <1>1, <1>2, <1>3, <1>4, <1>5, <1>6, <1>7, <1>8, <1>9, <1>10, <1>11, <1>12, <1>13,
     <1>14, <1>15, <1>16, <1>17, <1>18, <1>19, <1>20 DEF Next, StartThread, Teardown,
     Family

(* Every step keeps Start and the teardown in step.                        *)
LEMMA StartStep ==
  ASSUME IInv, [Next]_vars
  PROVE  StartOrder'
<1> USE DEF StartOrder, ThreadsTyped
<1>0. ThreadsTyped /\ TeardownTyped /\ StartOrder /\ TeardownOrder /\ QueueOrderly /\ Countdown
  BY TypeParts DEF IInv
<1>a. Len(StartSteps) \in Nat /\ Len(StartSteps) > 0
  BY Lengths
<1>1. CASE StartSuper
  BY <1>0, <1>a, <1>1 DEF StartSuper, teardownVars
<1>2. CASE Acquire
  BY <1>0, <1>a, <1>2 DEF Acquire, teardownVars
<1>3. CASE AcquireFails
  BY <1>0, <1>a, <1>3 DEF AcquireFails, teardownVars
<1>4. CASE FailsSynchronously
  BY <1>0, <1>a, <1>4 DEF FailsSynchronously
<1>5. CASE RegisterBegins
  BY <1>0, <1>a, <1>5 DEF RegisterBegins, startVars, teardownVars
<1>6. CASE RegisterSucceeds
  BY <1>0, <1>a, <1>6 DEF RegisterSucceeds, teardownVars
<1>7. CASE RegisterFails
  BY <1>0, <1>a, <1>7 DEF RegisterFails, BeginFinishStop
<1>8. CASE Stop
  BY <1>0, <1>a, <1>8 DEF Stop, BeginFinishStop, startVars
<1>9. ASSUME NEW s \in ToSet(Sources), CancelAccepted(s)
      PROVE  StartOrder'
  BY <1>0, <1>a, <1>9 DEF CancelAccepted, CancelInTurn, startVars
<1>10. ASSUME NEW s \in ToSet(Sources), CancelFails(s)
      PROVE  StartOrder'
  BY <1>0, <1>10, CancelFailsEffect
  DEF CancelFails, CancelInTurn, Canceller, QueueOrderly, startVars
<1>11. CASE FinishStopReturns
  BY <1>0, <1>11 DEF FinishStopReturns, Canceller, LeaveFinishStop, QueueOrderly, teardownVars
<1>12. CASE ReleaseNext
  BY <1>0, <1>a, <1>12 DEF ReleaseNext, startVars
<1>13. CASE SuperStop
  BY <1>0, <1>a, <1>13, NothingLeft DEF SuperStop, QueueOrderly
<1>14. CASE PromiscCalled
  BY <1>0, <1>a, <1>14 DEF PromiscCalled, startVars, teardownVars
<1>15. CASE RegisterAccess
  BY <1>0, <1>a, <1>15 DEF RegisterAccess, startVars, teardownVars
<1>16. CASE RegisterAccessEnds
  BY <1>0, <1>a, <1>16 DEF RegisterAccessEnds, startVars, teardownVars
<1>17. ASSUME NEW s \in ToSet(Sources), CancelHandler(s)
      PROVE  StartOrder'
  BY <1>0, <1>17, CancelHandlerEffect DEF CancelHandler, QueueOrderly, startVars
<1>18. ASSUME NEW h \in Handlers, HandlerEnters(h)
      PROVE  StartOrder'
  BY <1>0, <1>a, <1>18 DEF HandlerEnters, startVars, teardownVars
<1>19. CASE HandlerLeaves
  BY <1>0, <1>a, <1>19 DEF HandlerLeaves, startVars, teardownVars
<1>20. CASE UNCHANGED vars
  BY <1>0, <1>a, <1>20 DEF vars, startVars, teardownVars
<1> QED
  BY <1>1, <1>2, <1>3, <1>4, <1>5, <1>6, <1>7, <1>8, <1>9, <1>10, <1>11, <1>12, <1>13,
     <1>14, <1>15, <1>16, <1>17, <1>18, <1>19, <1>20 DEF Next, StartThread, Teardown,
     Family

(* Every step keeps the queue and the releasing thread in step.            *)
LEMMA QueueStep ==
  ASSUME IInv, [Next]_vars
  PROVE  QueueOrderly'
<1> USE DEF QueueOrderly, Handlers
<1>0. ThreadsTyped /\ TeardownTyped /\ StartOrder /\ TeardownOrder /\ QueueOrderly /\ Countdown
  BY TypeParts DEF IInv
<1>1. CASE StartSuper
  BY <1>0, <1>1 DEF StartSuper, queueVars, teardownVars, cancelVars
<1>2. CASE Acquire
  BY <1>0, <1>2 DEF Acquire, queueVars, teardownVars, cancelVars
<1>3. CASE AcquireFails
  BY <1>0, <1>3 DEF AcquireFails, queueVars, teardownVars, cancelVars
<1>4. CASE FailsSynchronously
  BY <1>0, <1>4 DEF FailsSynchronously, StartOrder, queueVars, cancelVars
<1>5. CASE RegisterBegins
  BY <1>0, <1>5 DEF RegisterBegins, startVars, queueVars, teardownVars, cancelVars
<1>6. CASE RegisterSucceeds
  BY <1>0, <1>6 DEF RegisterSucceeds, queueVars, teardownVars, cancelVars
<1>7. CASE RegisterFails
  BY <1>0, <1>7 DEF RegisterFails, BeginFinishStop, queueVars
<1>8. CASE Stop
  BY <1>0, <1>8 DEF Stop, BeginFinishStop, startVars
<1>9. ASSUME NEW s \in ToSet(Sources), CancelAccepted(s)
      PROVE  QueueOrderly'
  BY <1>0, <1>9 DEF CancelAccepted, CancelInTurn, startVars, queueVars
<1>10. ASSUME NEW s \in ToSet(Sources), CancelFails(s)
      PROVE  QueueOrderly'
  BY <1>0, <1>10, CancelFailsEffect
  DEF CancelFails, CancelInTurn, Canceller, startVars, queueVars, TeardownOrder, StartOrder
<1>11. CASE FinishStopReturns
  BY <1>0, <1>11 DEF FinishStopReturns, Canceller, LeaveFinishStop, teardownVars, cancelVars
<1>12. CASE ReleaseNext
  BY <1>0, <1>12 DEF ReleaseNext, startVars, queueVars, cancelVars
<1>13. CASE SuperStop
  BY <1>0, <1>13 DEF SuperStop
<1>14. CASE PromiscCalled
  BY <1>0, <1>14 DEF PromiscCalled, startVars, queueVars, teardownVars, cancelVars
<1>15. CASE RegisterAccess
  BY <1>0, <1>15 DEF RegisterAccess, startVars, queueVars, teardownVars, cancelVars
<1>16. CASE RegisterAccessEnds
  BY <1>0, <1>16 DEF RegisterAccessEnds, startVars, queueVars, teardownVars, cancelVars
<1>17. ASSUME NEW s \in ToSet(Sources), CancelHandler(s)
      PROVE  QueueOrderly'
  BY <1>0, <1>17, CancelHandlerEffect DEF CancelHandler, startVars
<1>18. ASSUME NEW h \in Handlers, HandlerEnters(h)
      PROVE  QueueOrderly'
  BY <1>0, <1>18 DEF HandlerEnters, PastGates, startVars, teardownVars, cancelVars
<1>19. CASE HandlerLeaves
  BY <1>0, <1>19 DEF HandlerLeaves, startVars, teardownVars, cancelVars
<1>20. CASE UNCHANGED vars
  BY <1>0, <1>20 DEF vars, startVars, queueVars, teardownVars, cancelVars
<1> QED
  BY <1>1, <1>2, <1>3, <1>4, <1>5, <1>6, <1>7, <1>8, <1>9, <1>10, <1>11, <1>12, <1>13,
     <1>14, <1>15, <1>16, <1>17, <1>18, <1>19, <1>20 DEF Next, StartThread, Teardown,
     Family


(* Every step keeps the release in order.                                  *)
LEMMA ReleaseStep ==
  ASSUME IInv, [Next]_vars
  PROVE  ReleaseInOrder'
<1> USE DEF ReleaseInOrder, TeardownOrder
<1>0. /\ ReleaseInOrder /\ ThreadsTyped /\ TeardownTyped
      /\ StartOrder /\ TeardownOrder /\ QueueOrderly /\ Countdown
  BY TypeParts DEF IInv
<1>a. Len(ReleaseOrder) \in Nat
  BY Lengths
<1>b. held \subseteq {ReleaseOrder[i] : i \in 1 .. Len(ReleaseOrder)}
  BY <1>0, ResourcesAreOrdered DEF ThreadsTyped
<1>1. CASE StartSuper
  BY <1>0, <1>b, <1>1 DEF StartSuper, teardownVars, cancelVars
<1>2. CASE Acquire
  BY <1>0, <1>2 DEF Acquire, StartOrder, teardownVars
<1>3. CASE AcquireFails
  BY <1>0, <1>b, <1>3 DEF AcquireFails, teardownVars, cancelVars
<1>4. CASE FailsSynchronously
  BY <1>0, <1>b, <1>4 DEF FailsSynchronously, StartOrder, cancelVars
<1>5. CASE RegisterBegins
  BY <1>0, <1>b, <1>5 DEF RegisterBegins, teardownVars, cancelVars
<1>6. CASE RegisterSucceeds
  BY <1>0, <1>b, <1>6 DEF RegisterSucceeds, teardownVars, cancelVars
<1>7. CASE RegisterFails
  BY <1>0, <1>b, <1>7 DEF RegisterFails, BeginFinishStop
<1>8. CASE Stop
  BY <1>0, <1>b, <1>8 DEF Stop, BeginFinishStop
<1>9. ASSUME NEW s \in ToSet(Sources), CancelAccepted(s)
      PROVE  ReleaseInOrder'
  BY <1>0, <1>b, <1>9 DEF CancelAccepted, CancelInTurn
<1>10. ASSUME NEW s \in ToSet(Sources), CancelFails(s)
      PROVE  ReleaseInOrder'
  BY <1>0, <1>b, <1>10, CancelFailsEffect DEF CancelFails, CancelInTurn, Canceller
<1>11. CASE FinishStopReturns
  BY <1>0, <1>b, <1>11 DEF FinishStopReturns, LeaveFinishStop, teardownVars, cancelVars
<1>12. CASE ReleaseNext
  <2>1. releaseAt \in Nat /\ releaseAt' = releaseAt + 1
    BY <1>0, <1>12 DEF ReleaseNext, TeardownTyped
  <2>2. ASSUME NEW x \in held'
        PROVE  \E i \in releaseAt' .. Len(ReleaseOrder) : x = ReleaseOrder[i]
    <3>1. PICK i \in releaseAt .. Len(ReleaseOrder) : x = ReleaseOrder[i]
      BY <1>0, <1>12, <2>2 DEF ReleaseNext
    <3>2. i # releaseAt
      BY <1>12, <2>2, <3>1 DEF ReleaseNext
    <3> QED
      BY <1>a, <2>1, <3>1, <3>2
  <2> QED
    BY <2>2
<1>13. CASE SuperStop
  BY <1>0, <1>13 DEF SuperStop
<1>14. CASE PromiscCalled
  BY <1>0, <1>b, <1>14 DEF PromiscCalled, teardownVars, cancelVars
<1>15. CASE RegisterAccess
  BY <1>0, <1>b, <1>15 DEF RegisterAccess, teardownVars, cancelVars
<1>16. CASE RegisterAccessEnds
  BY <1>0, <1>b, <1>16 DEF RegisterAccessEnds, teardownVars, cancelVars
<1>17. ASSUME NEW s \in ToSet(Sources), CancelHandler(s)
      PROVE  ReleaseInOrder'
  BY <1>0, <1>b, <1>17, CancelHandlerEffect DEF CancelHandler
<1>18. ASSUME NEW h \in Handlers, HandlerEnters(h)
      PROVE  ReleaseInOrder'
  BY <1>0, <1>b, <1>18 DEF HandlerEnters, teardownVars, cancelVars
<1>19. CASE HandlerLeaves
  BY <1>0, <1>b, <1>19 DEF HandlerLeaves, teardownVars, cancelVars
<1>20. CASE UNCHANGED vars
  BY <1>0, <1>b, <1>20 DEF vars, teardownVars, cancelVars
<1> QED
  BY <1>1, <1>2, <1>3, <1>4, <1>5, <1>6, <1>7, <1>8, <1>9, <1>10, <1>11, <1>12, <1>13,
     <1>14, <1>15, <1>16, <1>17, <1>18, <1>19, <1>20 DEF Next, StartThread, Teardown,
     Family

(* Every step keeps what the executing callback uses, short of two faults. *)
LEMMA UsesStep ==
  ASSUME IInv, [Next]_vars
  PROVE  UsesHeld'
<1> USE DEF UsesHeld, BothFail
<1>0. /\ UsesHeld /\ ThreadsTyped /\ TeardownTyped
      /\ StartOrder /\ TeardownOrder /\ QueueOrderly /\ Countdown
  BY TypeParts DEF IInv
<1>1. CASE StartSuper
  BY <1>0, <1>1 DEF StartSuper, queueVars
<1>2. CASE Acquire
  BY <1>0, <1>2 DEF Acquire, queueVars
<1>3. CASE AcquireFails
  BY <1>0, <1>3 DEF AcquireFails, queueVars
<1>4. CASE FailsSynchronously
  BY <1>0, <1>4 DEF FailsSynchronously, queueVars
<1>5. CASE RegisterBegins
  BY <1>0, <1>5 DEF RegisterBegins, queueVars
<1>6. CASE RegisterSucceeds
  BY <1>0, <1>6 DEF RegisterSucceeds, queueVars
<1>7. CASE RegisterFails
  BY <1>0, <1>7 DEF RegisterFails, BeginFinishStop, queueVars
<1>8. CASE Stop
  BY <1>0, <1>8 DEF Stop, BeginFinishStop
<1>9. ASSUME NEW s \in ToSet(Sources), CancelAccepted(s)
      PROVE  UsesHeld'
  BY <1>0, <1>9 DEF CancelAccepted, queueVars
<1>10. ASSUME NEW s \in ToSet(Sources), CancelFails(s)
      PROVE  UsesHeld'
  BY <1>0, <1>10 DEF CancelFails, queueVars
<1>11. CASE FinishStopReturns
  BY <1>0, <1>11 DEF FinishStopReturns, LeaveFinishStop
<1>12. CASE ReleaseNext
  BY <1>0, <1>12 DEF ReleaseNext, TeardownOrder, QueueOrderly, StartOrder, Handlers, queueVars
<1>13. CASE SuperStop
  BY <1>0, <1>13 DEF SuperStop
<1>14. CASE PromiscCalled
  BY <1>0, <1>14 DEF PromiscCalled, queueVars
<1>15. CASE RegisterAccess
  BY <1>0, <1>15 DEF RegisterAccess, queueVars
<1>16. CASE RegisterAccessEnds
  BY <1>0, <1>16 DEF RegisterAccessEnds, queueVars
<1>17. ASSUME NEW s \in ToSet(Sources), CancelHandler(s)
      PROVE  UsesHeld'
  BY <1>0, <1>17 DEF CancelHandler
<1>18. ASSUME NEW h \in Handlers, HandlerEnters(h)
      PROVE  UsesHeld'
  BY <1>0, <1>18 DEF HandlerEnters
<1>19. CASE HandlerLeaves
  BY <1>0, <1>19 DEF HandlerLeaves
<1>20. CASE UNCHANGED vars
  BY <1>0, <1>20 DEF vars, queueVars
<1> QED
  BY <1>1, <1>2, <1>3, <1>4, <1>5, <1>6, <1>7, <1>8, <1>9, <1>10, <1>11, <1>12, <1>13,
     <1>14, <1>15, <1>16, <1>17, <1>18, <1>19, <1>20 DEF Next, StartThread, Teardown,
     Family


-----------------------------------------------------------------------------
(* The theorems.                                                           *)

(* Start is entered with nothing acquired.                                 *)
LEMMA InitInv == Init => IInv
<1> SUFFICES ASSUME Init
             PROVE  IInv
  OBVIOUS
<1>1. ThreadsTyped
  <2>1. startAt \in 1 .. Len(StartSteps) + 1
    BY Lengths DEF Init
  <2> QED
    BY <2>1 DEF Init, ThreadsTyped
<1>2. TeardownTyped
  <2>1. releaseAt \in 1 .. Len(ReleaseOrder) + 1 /\ pending \in 0 .. Len(Sources)
    BY Lengths DEF Init
  <2>2. superStops \in 0 .. 1
    BY DEF Init
  <2> QED
    BY <2>1, <2>2 DEF Init, TeardownTyped
<1>3. StartOrder /\ QueueOrderly
  BY DEF Init, StartOrder, QueueOrderly
<1>4. TeardownOrder
  BY DEF Init, TeardownOrder
<1>5. Countdown
  BY FS_EmptySet DEF Init, Countdown
<1>6. ReleaseInOrder /\ UsesHeld
  BY DEF Init, ReleaseInOrder, UsesHeld
<1> QED
  BY <1>1, <1>2, <1>3, <1>4, <1>5, <1>6, TypeParts DEF IInv

(* Every reachable state satisfies the inductive invariant.                *)
THEOREM Invariance == Spec => []IInv
<1>1. ASSUME IInv, [Next]_vars
      PROVE  IInv'
  <2>1. ThreadsTyped' /\ TeardownTyped'
    BY <1>1, ThreadsTypedStep, TeardownTypedStep
  <2>2. TypeOK'
    BY <2>1, Zenon DEF TypeOK, ThreadsTyped, TeardownTyped
  <2>3. StartOrder' /\ TeardownOrder' /\ QueueOrderly'
    BY <1>1, StartStep, TeardownStep, QueueStep
  <2>4. Countdown' /\ ReleaseInOrder' /\ UsesHeld'
    BY <1>1, CountdownStep, ReleaseStep, UsesStep
  <2> QED
    BY <2>2, <2>3, <2>4 DEF IInv
<1> QED
  BY <1>1, InitInv, PTL DEF Spec

(* Type correctness; with it super::Stop is called once at most, and the   *)
(* countdown never goes below zero.                                        *)
THEOREM TypeCorrect == Spec => []TypeOK
<1>1. IInv => TypeOK
  BY DEF IInv
<1> QED
  BY <1>1, Invariance, PTL

(* The countdown owes one decrement per Cancel to be issued or answered.   *)
THEOREM CountdownStaysHonest == Spec => []CountdownHonest
<1>1. ASSUME IInv
      PROVE  CountdownHonest
  <2>1. toCancel \subseteq ToSet(Sources) /\ cancelling \subseteq ToSet(Sources)
    BY <1>1, TypeParts DEF IInv, TeardownTyped
  <2>2. IsFiniteSet(toCancel) /\ IsFiniteSet(cancelling)
    BY <2>1, SourcesAreFour
  <2>3. /\ Cardinality(toCancel \cup cancelling) =
             Cardinality(toCancel) + Cardinality(cancelling)
               - Cardinality(toCancel \cap cancelling)
        /\ Cardinality(toCancel) \in Nat /\ Cardinality(cancelling) \in Nat
    BY <2>2, FS_Union, FS_CardinalityType
  <2>4. Cardinality(toCancel \cap cancelling) = 0
    BY <1>1, FS_EmptySet DEF IInv, Countdown
  <2>5. pending = Cardinality(toCancel \cup cancelling)
    BY <1>1 DEF IInv, Countdown
  <2> QED
    BY <2>3, <2>4, <2>5 DEF CountdownHonest
<1> QED
  BY <1>1, Invariance, PTL

(* When super::Stop has been called nothing is held, owed or retained, and *)
(* a Start that came to nothing leaves nothing behind.                     *)
THEOREM NothingIsLeftBehind == Spec => []NothingOutlivesStop
<1>1. ASSUME IInv
      PROVE  NothingOutlivesStop
  <2>1. superStops = 1 => teardown = "stopped" /\ ~retained
    BY <1>1 DEF IInv, TeardownOrder
  <2>2. superStops = 1 => held = {}
    BY <1>1, <2>1, NothingLeft
  <2>3. superStops = 1 => cancelling = {} /\ toCancel = {}
    BY <1>1, <2>1 DEF IInv, Countdown
  <2>4. startPc = "returned" /\ ~familyKnows => held = {}
    BY <1>1 DEF IInv, StartOrder
  <2> QED
    BY <2>1, <2>2, <2>3, <2>4 DEF NothingOutlivesStop
<1> QED
  BY <1>1, Invariance, PTL

(* Where no life has both a failed registration and a failed Cancel, no    *)
(* object is released under the callback that dereferences it.  With both  *)
(* TLC finds it released (the run of LifecycleCancel.cfg).                 *)
THEOREM NothingReleasedUnderHandler ==
  ASSUME \A fs \in FaultSets : ~({"registerFails", "cancelFails"} \subseteq fs)
  PROVE  Spec => []NoReleaseUnderHandler
<1>1. ASSUME IInv
      PROVE  NoReleaseUnderHandler
  <2>1. faults \in FaultSets
    BY <1>1, TypeParts DEF IInv, ThreadsTyped
  <2> QED
    BY <1>1, <2>1 DEF IInv, UsesHeld, BothFail, NoReleaseUnderHandler
<1> QED
  BY <1>1, Invariance, PTL
===============================================================================
