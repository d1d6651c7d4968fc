---------------------------- MODULE TxPath_proofs ----------------------------
(***************************************************************************)
(* The transmit half's safety properties, for every pool, every counter    *)
(* width above the pool's size and every set of faults: they follow from   *)
(* the inductive invariant IInv.                                           *)
(***************************************************************************)
EXTENDS TxPath, FiniteSetTheorems, SequenceTheorems, TLAPS

(* The teardown order: the gate closes before anything is released, and a  *)
(* released datapath has no transfer on its books.                         *)
TeardownOrder ==
  /\ txObjects <=> txQueues
  /\ txDatapathReady => txObjects
  /\ onQueue = "drain" => txDatapathReady
  /\ onQueue \in {"stop", "abort"} => ~txDatapathReady /\ txObjects
  /\ ~txObjects => ~txInFlight

IInv ==
  /\ TypeOK
  /\ TeardownOrder
  /\ OneTransfer
  /\ OneOwner
  /\ TxAccounting
  /\ LostAreCounted

Distinct(s) == \A i, j \in 1 .. Len(s) : s[i] = s[j] => i = j

-----------------------------------------------------------------------------
(* The submission queue as a set of packets.                               *)

(* An empty queue holds nothing.                                           *)
LEMMA ElementsEmpty == Elements(<<>>) = {}
  BY DEF Elements

(* Submitting a packet adds it and nothing else; a fresh one stays unique. *)
LEMMA ElementsAppend ==
  ASSUME NEW S, NEW s \in Seq(S), NEW x \in S
  PROVE  /\ Elements(Append(s, x)) = Elements(s) \cup {x}
         /\ Distinct(s) /\ x \notin Elements(s) => Distinct(Append(s, x))
<1> DEFINE t == Append(s, x)
<1>1. /\ Len(s) \in Nat /\ t \in Seq(S) /\ Len(t) = Len(s) + 1
      /\ \A i \in 1 .. Len(s) : t[i] = s[i]
      /\ t[Len(s) + 1] = x
  OBVIOUS
<1> HIDE DEF t
<1>2. 1 .. Len(t) = (1 .. Len(s)) \cup {Len(s) + 1}
  BY <1>1
<1>3. Elements(t) = Elements(s) \cup {x}
  BY <1>1, <1>2 DEF Elements
<1>4. ASSUME Distinct(s), x \notin Elements(s),
             NEW i \in 1 .. Len(t), NEW j \in 1 .. Len(t), t[i] = t[j]
      PROVE  i = j
  BY <1>1, <1>2, <1>4 DEF Elements, Distinct
<1> QED
  BY <1>3, <1>4 DEF t, Distinct

(* Taking the head of the queue removes it and nothing else.               *)
LEMMA ElementsTail ==
  ASSUME NEW S, NEW s \in Seq(S), s # <<>>
  PROVE  /\ Head(s) \in S
         /\ Tail(s) \in Seq(S)
         /\ Elements(s) = {Head(s)} \cup Elements(Tail(s))
         /\ Distinct(s) => Distinct(Tail(s)) /\ Head(s) \notin Elements(Tail(s))
<1> DEFINE t == Tail(s)
<1>1. /\ Len(s) \in Nat /\ Len(s) > 0
      /\ t \in Seq(S) /\ Len(t) = Len(s) - 1
      /\ \A i \in 1 .. Len(t) : t[i] = s[i + 1]
      /\ Head(s) = s[1] /\ s[1] \in S
  OBVIOUS
<1> HIDE DEF t
<1>2. ASSUME NEW i \in 1 .. Len(s), i # 1
      PROVE  i - 1 \in 1 .. Len(t) /\ s[i] = t[i - 1]
  BY <1>1, <1>2
<1>3. ASSUME NEW i \in 1 .. Len(t)
      PROVE  i + 1 \in 1 .. Len(s) /\ i + 1 # 1 /\ t[i] = s[i + 1]
  BY <1>1
<1>4. Elements(s) \subseteq {Head(s)} \cup Elements(t)
  BY <1>1, <1>2 DEF Elements
<1>5. {Head(s)} \cup Elements(t) \subseteq Elements(s)
  BY <1>1, <1>3 DEF Elements
<1>6. ASSUME Distinct(s)
      PROVE  Distinct(t) /\ Head(s) \notin Elements(t)
  <2>1. ASSUME NEW i \in 1 .. Len(t), NEW j \in 1 .. Len(t), t[i] = t[j]
        PROVE  i = j
    <3>1. i + 1 = j + 1
      BY <1>3, <1>6, <2>1 DEF Distinct
    <3> QED BY <3>1
  <2>2. ASSUME NEW i \in 1 .. Len(t), t[i] = Head(s)
        PROVE  FALSE
    <3>1. 1 \in 1 .. Len(s)
      BY <1>1
    <3> QED BY <1>1, <1>3, <1>6, <2>2, <3>1 DEF Distinct
  <2> QED BY <2>1, <2>2 DEF Distinct, Elements
<1> QED
  BY <1>1, <1>4, <1>5, <1>6 DEF t
(* The completions a synchronous Abort queues behind those already there.  *)
LEMMA AbortedCompletions ==
  ASSUME NEW s \in Seq(Status), NEW n \in Nat
  PROVE  s \o Aborted(n) \in Seq(Status) /\ Len(s \o Aborted(n)) = Len(s) + n
<1>1. Aborted(n) \in Seq(Status) /\ Len(Aborted(n)) = n
  BY DEF Status, Aborted
<1> QED
  BY <1>1, ConcatProperties

-----------------------------------------------------------------------------
(* Types.                                                                  *)

(* A counter below the modulus stays below it.                             *)
LEMMA IncType ==
  ASSUME NEW c \in 0 .. CounterMod - 1
  PROVE  Inc(c) \in 0 .. CounterMod - 1
  BY TxAssumption DEF Inc

(* The counters start inside their range.                                  *)
LEMMA ZeroIsACounter == 0 \in 0 .. CounterMod - 1
<1>1. Cardinality(Packet) \in Nat
  BY TxAssumption, FS_CardinalityType
<1> QED
  BY <1>1, TxAssumption

(* Handing a packet back keeps the types of what it changes.               *)
LEMMA HandBackType ==
  ASSUME TypeOK, NEW p \in Packet \cup {NoPacket}, HandBack(p)
  PROVE  /\ stackPackets' \subseteq Packet
         /\ txReturned' \in 0 .. CounterMod - 1
         /\ txLost' \in 0 .. CounterMod - 1
  BY IncType DEF TypeOK, HandBack

(* Every step keeps the types; the bound of outBusy needs the drain loop's *)
(* test, and what the flag it looks at stands for.                         *)
LEMMA TypeStep ==
  ASSUME TypeOK, TeardownOrder, OneTransfer, [Next]_vars
  PROVE  TypeOK'
<1>1. ASSUME NEW p \in Packet, StackSubmits(p)
      PROVE  TypeOK'
  BY <1>1 DEF TypeOK, StackSubmits, counterVars, stateVars, objectVars, usbVars
<1>2. ASSUME NEW s \in Status, TransferEnds(s)
      PROVE  TypeOK'
  BY <1>2 DEF TypeOK, TransferEnds, custodyVars, counterVars, stateVars, objectVars
<1>3. CASE CompletionDropped
  BY <1>3 DEF TypeOK, CompletionDropped, custodyVars, counterVars, stateVars, objectVars
<1>4. CASE DrainSubmits
  <2>1. /\ Head(submitQ) \in Packet /\ Tail(submitQ) \in Seq(Packet)
        /\ Inc(txDequeued) \in 0 .. CounterMod - 1
    BY <1>4, ElementsTail, IncType DEF TypeOK, DrainSubmits
  <2>2. txDatapathReady /\ ~txInFlight
    BY <1>4 DEF DrainSubmits, DrainContinues, TeardownOrder
  <2>3. outBusy = 0
    <3>1. outBusy \in 0 .. 1 /\ Len(outDone) \in Nat
      BY DEF TypeOK
    <3> QED
      BY <2>2, <3>1 DEF OneTransfer
  <2> QED
    BY <1>4, <2>1, <2>3 DEF TypeOK, DrainSubmits, objectVars
<1>5. CASE DrainRefuses
  <2>1. /\ Head(submitQ) \in Packet /\ Tail(submitQ) \in Seq(Packet)
        /\ Inc(txDequeued) \in 0 .. CounterMod - 1
    BY <1>5, ElementsTail, IncType DEF TypeOK, DrainRefuses
  <2>2. /\ stackPackets' \subseteq Packet
        /\ txReturned' \in 0 .. CounterMod - 1
        /\ txLost' \in 0 .. CounterMod - 1
    BY <1>5, <2>1, HandBackType DEF DrainRefuses
  <2> QED
    BY <1>5, <2>1, <2>2 DEF TypeOK, DrainRefuses, stateVars, objectVars, usbVars
<1>6. CASE DrainEnds
  BY <1>6 DEF TypeOK, DrainEnds, custodyVars, counterVars, stateVars, objectVars, usbVars
<1>7. CASE TxDataAvailable
  BY <1>7 DEF TypeOK, TxDataAvailable, EnterDrain, counterVars, stateVars, objectVars, usbVars
<1>8. CASE TxComplete
  <2>1. /\ stackPackets' \subseteq Packet
        /\ txReturned' \in 0 .. CounterMod - 1
        /\ txLost' \in 0 .. CounterMod - 1
    BY <1>8, HandBackType DEF TypeOK, TxComplete
  <2>2. onQueue' \in {"idle", "drain", "stop", "abort"}
    BY <1>8 DEF TypeOK, TxComplete, DrainAfterCompletion, EnterDrain
  <2>3. outPipe' \in {"ok", "halted", "stuck"}
    BY <1>8 DEF TypeOK, TxComplete, RecoverPipe
  <2>4. outDone' \in Seq(Status)
    BY <1>8, ElementsTail DEF TypeOK, TxComplete
  <2>5. txInFlight' = FALSE /\ txPacket' = NoPacket
    BY <1>8 DEF TxComplete, ForgetTransfer
  <2>6. UNCHANGED <<submitQ, doorbell, txDequeued, objectVars, outBusy>>
    BY <1>8 DEF TxComplete
  <2> QED
    BY <2>1, <2>2, <2>3, <2>4, <2>5, <2>6 DEF TypeOK, objectVars
<1>9. CASE StopClosesGate
  BY <1>9 DEF TypeOK, StopClosesGate, custodyVars, counterVars, stateVars, usbVars
<1>10. CASE StopAborts
  <2>1. outBusy \in Nat /\ outDone \in Seq(Status)
    BY DEF TypeOK
  <2> DEFINE both == outDone \o Aborted(outBusy)
  <2>2. both \in Seq(Status)
    BY <2>1, AbortedCompletions
  <2>3. \/ outBusy' = 0 /\ outDone' = both
        \/ UNCHANGED <<outBusy, outDone>>
    BY <1>10 DEF StopAborts
  <2>4. onQueue' = "abort" /\ UNCHANGED <<custodyVars, counterVars, stateVars, objectVars, outPipe>>
    BY <1>10 DEF StopAborts
  <2> HIDE DEF both
  <2> QED
    BY <2>2, <2>3, <2>4 DEF TypeOK, custodyVars, counterVars, stateVars, objectVars
<1>11. CASE StopReturns
  BY <1>11 DEF TypeOK, StopReturns, custodyVars, counterVars, stateVars, objectVars, usbVars
<1>12. CASE ReleaseResources
  <2>1. /\ stackPackets' \subseteq Packet
        /\ txReturned' \in 0 .. CounterMod - 1
        /\ txLost' \in 0 .. CounterMod - 1
    BY <1>12, HandBackType, IncType DEF TypeOK, ReleaseResources, ReclaimInFlight
  <2> QED
    BY <1>12, <2>1 DEF TypeOK, ReleaseResources, ReclaimInFlight, ForgetTransfer, usbVars
<1>13. CASE UNCHANGED vars
  BY <1>13 DEF TypeOK, vars, custodyVars, counterVars, stateVars, objectVars, usbVars
<1> QED
  BY <1>1, <1>2, <1>3, <1>4, <1>5, <1>6, <1>7, <1>8, <1>9, <1>10, <1>11, <1>12, <1>13
  DEF Next, Drain, Stop

-----------------------------------------------------------------------------
(* Control: the teardown order and the one transfer.                       *)

(* Every step keeps the teardown order.                                    *)
LEMMA TeardownStep ==
  ASSUME TypeOK, TeardownOrder, [Next]_vars
  PROVE  TeardownOrder'
<1> USE DEF TeardownOrder
<1>1. ASSUME NEW p \in Packet, StackSubmits(p)
      PROVE  TeardownOrder'
  BY <1>1 DEF StackSubmits, stateVars, objectVars
<1>2. ASSUME NEW s \in Status, TransferEnds(s)
      PROVE  TeardownOrder'
  BY <1>2 DEF TransferEnds, stateVars, objectVars
<1>3. CASE CompletionDropped
  BY <1>3 DEF CompletionDropped, stateVars, objectVars
<1>4. CASE DrainSubmits
  BY <1>4 DEF DrainSubmits, objectVars
<1>5. CASE DrainRefuses
  BY <1>5 DEF DrainRefuses, stateVars, objectVars
<1>6. CASE DrainEnds
  BY <1>6 DEF DrainEnds, stateVars, objectVars
<1>7. CASE TxDataAvailable
  BY <1>7 DEF TxDataAvailable, EnterDrain, DrainGate, stateVars, objectVars
<1>8. CASE TxComplete
  <2>1. ~txInFlight' /\ UNCHANGED objectVars
    BY <1>8 DEF TxComplete, ForgetTransfer
  <2>2. onQueue' = IF txQueues /\ txDatapathReady THEN "drain" ELSE onQueue
    BY <1>8 DEF TxComplete, DrainAfterCompletion, EnterDrain, DrainGate
  <2>3. onQueue \in {"idle", "abort"}
    BY <1>8 DEF TxComplete
  <2> QED
    BY <2>1, <2>2, <2>3 DEF objectVars
<1>9. CASE StopClosesGate
  BY <1>9 DEF StopClosesGate, stateVars
<1>10. CASE StopAborts
  <2>1. onQueue = "stop" /\ onQueue' = "abort" /\ UNCHANGED <<stateVars, objectVars>>
    BY <1>10 DEF StopAborts
  <2> QED
    BY <2>1 DEF stateVars, objectVars
<1>11. CASE StopReturns
  BY <1>11 DEF StopReturns, stateVars, objectVars
<1>12. CASE ReleaseResources
  <2>1. ~txInFlight' /\ UNCHANGED <<onQueue, txDatapathReady>>
    BY <1>12 DEF ReleaseResources, ReclaimInFlight, ForgetTransfer
  <2> QED
    BY <1>12, <2>1 DEF ReleaseResources
<1>13. CASE UNCHANGED vars
  BY <1>13 DEF vars, stateVars, objectVars
<1> QED
  BY <1>1, <1>2, <1>3, <1>4, <1>5, <1>6, <1>7, <1>8, <1>9, <1>10, <1>11, <1>12, <1>13
  DEF Next, Drain, Stop

(* Every step keeps the transfers outstanding at one at most.              *)
LEMMA OneTransferStep ==
  ASSUME TypeOK, TeardownOrder, OneTransfer, [Next]_vars
  PROVE  OneTransfer'
<1> USE DEF OneTransfer
<1>0. outBusy \in Nat /\ outDone \in Seq(Status) /\ Len(outDone) \in Nat
  BY DEF TypeOK
<1>1. ASSUME NEW p \in Packet, StackSubmits(p)
      PROVE  OneTransfer'
  BY <1>1 DEF StackSubmits, stateVars, objectVars, usbVars
<1>2. ASSUME NEW s \in Status, TransferEnds(s)
      PROVE  OneTransfer'
  <2>1. Len(outDone') = Len(outDone) + 1 /\ outBusy' = outBusy - 1
    BY <1>0, <1>2 DEF TransferEnds
  <2>2. UNCHANGED <<txInFlight, txPacket, txDatapathReady>>
    BY <1>2 DEF TransferEnds, stateVars, objectVars
  <2>3. outBusy' + Len(outDone') = outBusy + Len(outDone)
    BY <1>0, <2>1
  <2> QED
    BY <2>2, <2>3
<1>3. CASE CompletionDropped
  <2>1. Len(outDone') + 1 = Len(outDone) /\ Len(outDone') \in Nat
    BY <1>0, <1>3 DEF CompletionDropped
  <2> QED
    BY <1>0, <1>3, <2>1 DEF CompletionDropped, stateVars, objectVars
<1>4. CASE DrainSubmits
  <2>1. Head(submitQ) \in Packet
    BY <1>4, ElementsTail DEF TypeOK, DrainSubmits
  <2>2. txDatapathReady /\ ~txInFlight
    BY <1>4 DEF DrainSubmits, DrainContinues, TeardownOrder
  <2>3. outBusy + Len(outDone) = 0
    BY <1>0, <2>2
  <2>4. txPacket' # NoPacket /\ txInFlight'
    <3>1. txPacket' = Head(submitQ) /\ txInFlight' = TRUE
      BY <1>4 DEF DrainSubmits
    <3> QED
      BY <2>1, <3>1, TxAssumption
  <2>5. outBusy' = outBusy + 1 /\ outDone' = outDone
    BY <1>4 DEF DrainSubmits
  <2> QED
    BY <1>0, <2>3, <2>4, <2>5
<1>5. CASE DrainRefuses
  BY <1>5 DEF DrainRefuses, stateVars, objectVars, usbVars
<1>6. CASE DrainEnds
  BY <1>6 DEF DrainEnds, stateVars, objectVars, usbVars
<1>7. CASE TxDataAvailable
  BY <1>7 DEF TxDataAvailable, stateVars, objectVars, usbVars
<1>8. CASE TxComplete
  <2>1. Len(outDone') + 1 = Len(outDone) /\ Len(outDone') \in Nat
    BY <1>0, <1>8 DEF TxComplete
  <2>2. outBusy' = outBusy /\ ~txInFlight' /\ txPacket' = NoPacket
    BY <1>8 DEF TxComplete, ForgetTransfer
  <2> QED
    BY <1>0, <2>1, <2>2
<1>9. CASE StopClosesGate
  BY <1>9 DEF StopClosesGate, stateVars, usbVars
<1>10. CASE StopAborts
  <2>1. ~txDatapathReady' /\ UNCHANGED stateVars
    BY <1>10 DEF StopAborts, TeardownOrder, objectVars
  <2> DEFINE both == outDone \o Aborted(outBusy)
  <2>2. Len(both) = Len(outDone) + outBusy
    BY <1>0, AbortedCompletions
  <2>3. \/ outBusy' = 0 /\ outDone' = both
        \/ UNCHANGED <<outBusy, outDone>>
    BY <1>10 DEF StopAborts
  <2> HIDE DEF both
  <2> QED
    BY <1>0, <2>1, <2>2, <2>3 DEF stateVars
<1>11. CASE StopReturns
  BY <1>11 DEF StopReturns, stateVars, objectVars, usbVars
<1>12. CASE ReleaseResources
  <2>1. ~txDatapathReady' /\ ~txInFlight' /\ txPacket' = NoPacket /\ UNCHANGED usbVars
    BY <1>12 DEF ReleaseResources, ReclaimInFlight, ForgetTransfer
  <2> QED
    BY <2>1 DEF usbVars
<1>13. CASE UNCHANGED vars
  BY <1>13 DEF vars, stateVars, objectVars, usbVars
<1> QED
  BY <1>1, <1>2, <1>3, <1>4, <1>5, <1>6, <1>7, <1>8, <1>9, <1>10, <1>11, <1>12, <1>13
  DEF Next, Drain, Stop
-----------------------------------------------------------------------------
(* Custody: who has each packet.                                           *)

(* The lost packets are some of the pool's, so their number fits txLost.   *)
LEMMA GoneFinite ==
  /\ IsFiniteSet(Gone) /\ Cardinality(Gone) \in Nat
  /\ \A p \in Packet \ Gone : Cardinality(Gone \cup {p}) = Cardinality(Gone) + 1
                            /\ Cardinality(Gone) + 1 < CounterMod
<1>1. Gone \in SUBSET Packet
  BY DEF Gone
<1>2. IsFiniteSet(Gone) /\ Cardinality(Gone) \in Nat
  BY <1>1, TxAssumption, FS_Subset, FS_CardinalityType
<1>3. ASSUME NEW p \in Packet \ Gone
      PROVE  Cardinality(Gone \cup {p}) = Cardinality(Gone) + 1
             /\ Cardinality(Gone) + 1 < CounterMod
  <2>1. Cardinality(Gone \cup {p}) = Cardinality(Gone) + 1
    BY <1>2, FS_AddElement
  <2>2. Gone \cup {p} \in SUBSET Packet
    BY <1>1
  <2>3. Cardinality(Gone \cup {p}) <= Cardinality(Packet) /\ Cardinality(Packet) \in Nat
    BY <2>2, TxAssumption, FS_Subset, FS_CardinalityType
  <2> QED
    BY <1>2, <2>1, <2>3, TxAssumption
<1> QED
  BY <1>2, <1>3

(* A packet the driver has in hand, p, that is handed back or lost stays   *)
(* in one place and is counted when it is lost.                            *)
LEMMA HandBackCustody ==
  ASSUME TypeOK, OneOwner, LostAreCounted,
         NEW p \in Packet, p \in Queued \cup Held, HandBack(p),
         Queued' \cup Held' = (Queued \cup Held) \ {p}
  PROVE  /\ LostAreCounted'
         /\ stackPackets' \cap (Queued' \cup Held') = {}
         /\ \/ Gone' = Gone /\ stackPackets' = stackPackets \cup {p}
            \/ Gone' = Gone \cup {p} /\ stackPackets' = stackPackets
<1>1. p # NoPacket /\ p \notin stackPackets /\ p \notin Gone
  BY TxAssumption DEF OneOwner, Gone
<1>2. stackPackets \cap (Queued \cup Held) = {}
  BY DEF OneOwner
<1>3. CASE stackPackets' = stackPackets \cup {p} /\ txLost' = txLost
  <2>1. Gone' = Gone
    BY <1>3 DEF Gone
  <2> QED
    BY <1>2, <1>3, <2>1 DEF LostAreCounted
<1>4. CASE txLost' = Inc(txLost) /\ stackPackets' = stackPackets
  <2>1. Gone' = Gone \cup {p}
    BY <1>1, <1>4 DEF Gone
  <2>2. Cardinality(Gone \cup {p}) = txLost + 1 /\ txLost + 1 < CounterMod
    BY <1>1, GoneFinite DEF LostAreCounted
  <2>3. txLost' = Cardinality(Gone')
    <3>1. txLost \in Nat /\ CounterMod \in Nat
      BY TxAssumption DEF TypeOK
    <3>2. Inc(txLost) = txLost + 1
      BY <2>2, <3>1 DEF Inc
    <3> QED
      BY <1>4, <2>1, <2>2, <3>2
  <2> QED
    BY <1>2, <1>4, <2>1, <2>3 DEF LostAreCounted
<1> QED
  BY <1>1, <1>3, <1>4 DEF HandBack
(* The three handlers that dispose of a packet, and which one it is.       *)
LEMMA RefusedCustody ==
  ASSUME TypeOK, OneTransfer, OneOwner, LostAreCounted, DrainRefuses
  PROVE  /\ LostAreCounted' /\ OneOwner' /\ Held' = Held /\ Held = {}
         /\ \/ Gone' = Gone /\ stackPackets' = stackPackets \cup {Head(submitQ)}
            \/ Gone' = Gone \cup {Head(submitQ)} /\ stackPackets' = stackPackets
<1> DEFINE p == Head(submitQ)
<1>1. /\ p \in Packet /\ Queued = {p} \cup Elements(Tail(submitQ))
      /\ Distinct(Tail(submitQ)) /\ p \notin Elements(Tail(submitQ))
  BY ElementsTail DEF TypeOK, DrainRefuses, OneOwner, Queued, Distinct
<1>2. submitQ' = Tail(submitQ) /\ HandBack(p) /\ txPacket' = txPacket
  BY DEF DrainRefuses, stateVars
<1>3. Queued' = Elements(Tail(submitQ)) /\ Held' = Held
  BY <1>2 DEF Queued, Held
<1>4. Held = {}
  BY DEF DrainRefuses, DrainContinues, OneTransfer, Held
<1> HIDE DEF p
<1>5. Queued' \cup Held' = (Queued \cup Held) \ {p} /\ p \in Queued \cup Held
  BY <1>1, <1>3, <1>4
<1>6. /\ LostAreCounted'
      /\ stackPackets' \cap (Queued' \cup Held') = {}
      /\ \/ Gone' = Gone /\ stackPackets' = stackPackets \cup {p}
         \/ Gone' = Gone \cup {p} /\ stackPackets' = stackPackets
  BY <1>1, <1>2, <1>5, HandBackCustody
<1>7. OneOwner'
  BY <1>1, <1>2, <1>3, <1>4, <1>6 DEF OneOwner, Distinct
<1> QED
  BY <1>3, <1>4, <1>6, <1>7 DEF p

(* A transfer that ends, through its completion or through the release.    *)
LEMMA EndedCustody ==
  ASSUME TypeOK, OneOwner, LostAreCounted, HandBack(txPacket),
         txPacket' = NoPacket, submitQ' = submitQ
  PROVE  /\ LostAreCounted' /\ OneOwner' /\ Held' = {}
         /\ \/ txPacket = NoPacket /\ Gone' = Gone /\ stackPackets' = stackPackets
            \/ txPacket # NoPacket /\ Gone' = Gone /\ stackPackets' = stackPackets \cup {txPacket}
            \/ txPacket # NoPacket /\ Gone' = Gone \cup {txPacket} /\ stackPackets' = stackPackets
<1>1. Queued' = Queued /\ Held' = {}
  BY DEF Queued, Held
<1>2. CASE txPacket = NoPacket
  <2>1. stackPackets' = stackPackets /\ txLost' = txLost /\ Held = {}
    BY <1>2 DEF HandBack, Held
  <2>2. Gone' = Gone
    BY <1>1, <2>1 DEF Gone
  <2> QED
    BY <1>1, <1>2, <2>1, <2>2 DEF LostAreCounted, OneOwner
<1>3. CASE txPacket # NoPacket
  <2>1. txPacket \in Packet /\ Held = {txPacket}
    BY <1>3 DEF TypeOK, Held
  <2>2. Queued' \cup Held' = (Queued \cup Held) \ {txPacket}
    BY <1>1, <2>1 DEF OneOwner
  <2>3. /\ LostAreCounted'
        /\ stackPackets' \cap (Queued' \cup Held') = {}
        /\ \/ Gone' = Gone /\ stackPackets' = stackPackets \cup {txPacket}
           \/ Gone' = Gone \cup {txPacket} /\ stackPackets' = stackPackets
    BY <2>1, <2>2, HandBackCustody
  <2> QED
    BY <1>1, <1>3, <2>3 DEF OneOwner
<1> QED
  BY <1>2, <1>3

(* A packet given to a transfer moves from the queue to the driver's hand. *)
LEMMA SubmittedCustody ==
  ASSUME TypeOK, OneTransfer, OneOwner, LostAreCounted, DrainSubmits
  PROVE  /\ LostAreCounted' /\ OneOwner'
         /\ Held = {} /\ Held' = {Head(submitQ)} /\ Gone' = Gone
<1> DEFINE p == Head(submitQ)
<1>1. /\ p \in Packet /\ Queued = {p} \cup Elements(Tail(submitQ))
      /\ Distinct(Tail(submitQ)) /\ p \notin Elements(Tail(submitQ))
  BY ElementsTail DEF TypeOK, DrainSubmits, OneOwner, Queued, Distinct
<1>2. /\ submitQ' = Tail(submitQ) /\ txPacket' = p
      /\ stackPackets' = stackPackets /\ txLost' = txLost
  BY DEF DrainSubmits
<1>3. Held = {}
  BY DEF DrainSubmits, DrainContinues, OneTransfer, Held
<1> HIDE DEF p
<1>4. Queued' = Elements(Tail(submitQ)) /\ Held' = {p}
  BY <1>1, <1>2, TxAssumption DEF Queued, Held
<1>5. Gone' = Gone
  BY <1>1, <1>2, <1>3, <1>4 DEF Gone
<1>6. OneOwner'
  BY <1>1, <1>2, <1>4 DEF OneOwner, Distinct
<1> QED
  BY <1>2, <1>3, <1>4, <1>5, <1>6 DEF LostAreCounted, p

(* A packet the stack submits leaves the stack for the queue.              *)
LEMMA StackCustody ==
  ASSUME TypeOK, OneOwner, LostAreCounted, NEW p \in Packet, StackSubmits(p)
  PROVE  LostAreCounted' /\ OneOwner' /\ Gone' = Gone /\ Held' = Held
<1>1. /\ p \in stackPackets /\ stackPackets' = stackPackets \ {p}
      /\ submitQ' = Append(submitQ, p) /\ txPacket' = txPacket /\ txLost' = txLost
  BY DEF StackSubmits, stateVars, counterVars
<1>2. p \notin Queued /\ p \notin Held
  BY <1>1 DEF OneOwner
<1>3. Queued' = Queued \cup {p} /\ Distinct(submitQ')
  BY <1>1, <1>2, ElementsAppend DEF TypeOK, Queued, OneOwner, Distinct
<1>4. Held' = Held
  BY <1>1 DEF Held
<1>5. Gone' = Gone
  BY <1>1, <1>3, <1>4 DEF Gone
<1>6. OneOwner'
  BY <1>1, <1>2, <1>3, <1>4 DEF OneOwner, Distinct
<1> QED
  BY <1>1, <1>4, <1>5, <1>6 DEF LostAreCounted

(* A step that moves no packet changes no custody.                         *)
LEMMA SameCustody ==
  ASSUME OneOwner, LostAreCounted, UNCHANGED <<stackPackets, submitQ, txPacket, txLost>>
  PROVE  LostAreCounted' /\ OneOwner' /\ Gone' = Gone /\ Held' = Held
<1>1. Queued' = Queued /\ Held' = Held
  BY DEF Queued, Held
<1>2. Gone' = Gone
  BY <1>1 DEF Gone
<1> QED
  BY <1>1, <1>2 DEF LostAreCounted, OneOwner

(* Every step keeps one owner per packet and counts what it loses.         *)
LEMMA CustodyStep ==
  ASSUME TypeOK, OneTransfer, OneOwner, LostAreCounted, [Next]_vars
  PROVE  OneOwner' /\ LostAreCounted'
<1>1. ASSUME NEW p \in Packet, StackSubmits(p)
      PROVE  OneOwner' /\ LostAreCounted'
  BY <1>1, StackCustody
<1>2. CASE DrainSubmits
  BY <1>2, SubmittedCustody
<1>3. CASE DrainRefuses
  BY <1>3, RefusedCustody
<1>4. CASE TxComplete
  BY <1>4, EndedCustody DEF TxComplete, ForgetTransfer
<1>5. CASE ReleaseResources
  <2>1. HandBack(txPacket) /\ txPacket' = NoPacket /\ submitQ' = submitQ
    BY <1>5 DEF ReleaseResources, ReclaimInFlight, ForgetTransfer, OneTransfer
  <2> QED
    BY <2>1, EndedCustody
<1>6. ASSUME UNCHANGED <<stackPackets, submitQ, txPacket, txLost>>
      PROVE  OneOwner' /\ LostAreCounted'
  BY <1>6, SameCustody
<1>7. ASSUME NEW s \in Status, TransferEnds(s)
      PROVE  UNCHANGED <<stackPackets, submitQ, txPacket, txLost>>
  BY <1>7 DEF TransferEnds, custodyVars, counterVars, stateVars
<1>8. CompletionDropped \/ DrainEnds \/ StopAborts \/ StopReturns \/ UNCHANGED vars
      => UNCHANGED <<stackPackets, submitQ, txPacket, txLost>>
  BY DEF CompletionDropped, DrainEnds, StopAborts, StopReturns, vars,
         custodyVars, counterVars, stateVars
<1>9. TxDataAvailable \/ StopClosesGate
      => UNCHANGED <<stackPackets, submitQ, txPacket, txLost>>
  BY DEF TxDataAvailable, StopClosesGate, custodyVars, counterVars, stateVars
<1> QED
  BY <1>1, <1>2, <1>3, <1>4, <1>5, <1>6, <1>7, <1>8, <1>9 DEF Next, Drain, Stop
-----------------------------------------------------------------------------
(* The accounting rule.                                                    *)

(* The rule as arithmetic: d dequeued, a and b on the other side, n in     *)
(* flight.                                                                 *)
Balanced(d, a, b, n) == a + b + n \in {d, d + CounterMod}

(* The rule survives a packet taken into flight, one that comes back to    *)
(* either counter, and one that is taken and comes back at once.           *)
LEMMA BalanceKept ==
  ASSUME NEW d \in 0 .. CounterMod - 1, NEW a \in 0 .. CounterMod - 1,
         NEW b \in 0 .. CounterMod - 1
  PROVE  /\ Balanced(d, a, b, 0) => Balanced(Inc(d), a, b, 1)
         /\ Balanced(d, a, b, 1) => Balanced(d, Inc(a), b, 0) /\ Balanced(d, a, Inc(b), 0)
         /\ Balanced(d, a, b, 0) => Balanced(Inc(d), Inc(a), b, 0) /\ Balanced(Inc(d), a, Inc(b), 0)
<1>1. CounterMod \in Nat
  BY TxAssumption
<1>2. Balanced(d, a, b, 0) => Balanced(Inc(d), a, b, 1)
  BY <1>1 DEF Balanced, Inc
<1>3. Balanced(d, a, b, 1) => Balanced(d, Inc(a), b, 0) /\ Balanced(d, a, Inc(b), 0)
  BY <1>1 DEF Balanced, Inc
<1>4. Balanced(d, a, b, 0) => Balanced(Inc(d), Inc(a), b, 0) /\ Balanced(Inc(d), a, Inc(b), 0)
  BY <1>1 DEF Balanced, Inc
<1> QED
  BY <1>2, <1>3, <1>4

(* Every step keeps the accounting rule.                                   *)
LEMMA AccountingStep ==
  ASSUME TypeOK, OneTransfer, TxAccounting, [Next]_vars
  PROVE  TxAccounting'
<1> DEFINE n == IF txInFlight THEN 1 ELSE 0
<1>1. /\ txDequeued \in 0 .. CounterMod - 1
      /\ txReturned \in 0 .. CounterMod - 1 /\ txLost \in 0 .. CounterMod - 1
      /\ Balanced(txDequeued, txReturned, txLost, n)
  BY DEF TypeOK, TxAccounting, Balanced
<1>2. SUFFICES Balanced(txDequeued', txReturned', txLost', n')
  BY DEF TxAccounting, Balanced
<1>3. CASE DrainSubmits
  <2>1. n = 0 /\ n' = 1
    BY <1>3 DEF DrainSubmits, DrainContinues
  <2>2. txDequeued' = Inc(txDequeued) /\ txReturned' = txReturned /\ txLost' = txLost
    BY <1>3 DEF DrainSubmits
  <2> QED
    BY <1>1, <2>1, <2>2, BalanceKept
<1>4. CASE DrainRefuses
  <2>1. n = 0 /\ n' = 0
    BY <1>4 DEF DrainRefuses, DrainContinues, stateVars
  <2>2. Head(submitQ) # NoPacket
    BY <1>4, ElementsTail, TxAssumption DEF TypeOK, DrainRefuses
  <2>3. /\ txDequeued' = Inc(txDequeued)
        /\ \/ txReturned' = Inc(txReturned) /\ txLost' = txLost
           \/ txReturned' = txReturned /\ txLost' = Inc(txLost)
    BY <1>4, <2>2 DEF DrainRefuses, HandBack
  <2> QED
    BY <1>1, <2>1, <2>3, BalanceKept
<1>5. ASSUME HandBack(txPacket), ForgetTransfer, txDequeued' = txDequeued
      PROVE  Balanced(txDequeued', txReturned', txLost', n')
  <2>1. n' = 0
    BY <1>5 DEF ForgetTransfer
  <2>2. CASE txPacket = NoPacket
    <3>1. n = 0 /\ txReturned' = txReturned /\ txLost' = txLost
      BY <1>5, <2>2 DEF HandBack, OneTransfer
    <3> QED
      BY <1>1, <1>5, <2>1, <3>1
  <2>3. CASE txPacket # NoPacket
    <3>1. n = 1
      BY <2>3 DEF OneTransfer
    <3>2. \/ txReturned' = Inc(txReturned) /\ txLost' = txLost
          \/ txReturned' = txReturned /\ txLost' = Inc(txLost)
      BY <1>5, <2>3 DEF HandBack
    <3> QED
      BY <1>1, <1>5, <2>1, <3>1, <3>2, BalanceKept
  <2> QED
    BY <2>2, <2>3
<1>6. CASE TxComplete
  BY <1>5, <1>6 DEF TxComplete
<1>7. CASE ReleaseResources
  <2>1. HandBack(txPacket) /\ ForgetTransfer /\ txDequeued' = txDequeued
    BY <1>7 DEF ReleaseResources, ReclaimInFlight, OneTransfer
  <2> QED
    BY <1>5, <2>1
<1>8. ASSUME UNCHANGED <<counterVars, txInFlight>>
      PROVE  Balanced(txDequeued', txReturned', txLost', n')
  BY <1>1, <1>8 DEF counterVars
<1>9. /\ \A p \in Packet : StackSubmits(p) => UNCHANGED <<counterVars, txInFlight>>
      /\ \A s \in Status : TransferEnds(s) => UNCHANGED <<counterVars, txInFlight>>
      /\ CompletionDropped => UNCHANGED <<counterVars, txInFlight>>
  BY DEF StackSubmits, TransferEnds, CompletionDropped, counterVars, stateVars
<1>10. /\ DrainEnds \/ TxDataAvailable => UNCHANGED <<counterVars, txInFlight>>
       /\ StopClosesGate \/ StopAborts => UNCHANGED <<counterVars, txInFlight>>
       /\ StopReturns \/ UNCHANGED vars => UNCHANGED <<counterVars, txInFlight>>
  BY DEF DrainEnds, TxDataAvailable, StopClosesGate, StopAborts, StopReturns, vars,
         counterVars, stateVars
<1> QED
  BY <1>3, <1>4, <1>6, <1>7, <1>8, <1>9, <1>10 DEF Next, Drain, Stop

-----------------------------------------------------------------------------
(* The theorems.                                                           *)

(* IInv is inductive: it holds at the start and every step keeps it.       *)
LEMMA Invariance == Spec => []IInv
<1>1. Init => IInv
  <2> SUFFICES ASSUME Init
               PROVE  IInv
    OBVIOUS
  <2>1. submitQ \in Seq(Packet) /\ outDone \in Seq(Status)
        /\ Len(submitQ) = 0 /\ Len(outDone) = 0
    BY DEF Init
  <2>2. TypeOK
    <3>1. outBusy \in 0 .. 1
      BY DEF Init
    <3> QED
      BY <2>1, <3>1, ZeroIsACounter DEF Init, TypeOK
  <2>3. TeardownOrder
    BY DEF Init, TeardownOrder
  <2>4. OneTransfer
    BY <2>1 DEF Init, OneTransfer
  <2>5. Queued = {} /\ Held = {} /\ stackPackets = Packet
    BY ElementsEmpty DEF Init, Queued, Held
  <2>6. OneOwner
    BY <2>1, <2>5 DEF OneOwner
  <2>7. TxAccounting
    BY DEF Init, TxAccounting
  <2>8. LostAreCounted
    BY <2>5, FS_EmptySet DEF Init, LostAreCounted, Gone
  <2> QED
    BY <2>2, <2>3, <2>4, <2>6, <2>7, <2>8 DEF IInv
<1>2. IInv /\ [Next]_vars => IInv'
  BY TypeStep, TeardownStep, OneTransferStep, CustodyStep, AccountingStep DEF IInv
<1> QED
  BY <1>1, <1>2, PTL DEF Spec

(* Type correctness of the whole transmit half: among the rest, the        *)
(* controller never executes a second bulk OUT transfer.                   *)
THEOREM TypeCorrect == Spec => []TypeOK
  BY Invariance, PTL DEF IInv

(* "Every packet DequeuePackets yields is handed back EXACTLY ONCE": what  *)
(* was dequeued was returned, counted as lost, or is in flight, whatever   *)
(* order the stack, the completions, the aborts and the release come in.   *)
THEOREM Accounting == Spec => []TxAccounting
  BY Invariance, PTL DEF IInv

(* No packet leaves the pool without txLost saying so.                     *)
THEOREM LossesAreCounted == Spec => []LostAreCounted
  BY Invariance, PTL DEF IInv

(* The driver never points at a packet it has handed back, and never hands *)
(* back one it did not take.                                               *)
THEOREM SingleOwner == Spec => []OneOwner
  BY Invariance, PTL DEF IInv

(* Never two transfers over the one scratch buffer.                        *)
THEOREM SingleTransfer == Spec => []OneTransfer
  BY Invariance, PTL DEF IInv
-----------------------------------------------------------------------------
(* A stall is not overlooked.                                              *)

(* Every step keeps the halted endpoint's completion in sight.             *)
LEMMA StallStep ==
  ASSUME IInv, StallIsCleared, [Next]_vars
  PROVE  StallIsCleared'
<1>0. outBusy \in Nat /\ outDone \in Seq(Status) /\ outBusy + Len(outDone) <= 1
  BY DEF IInv, TypeOK, OneTransfer
<1> SUFFICES ASSUME txDatapathReady', outPipe' = "halted"
             PROVE  outDone' = <<"stalled">>
  BY DEF StallIsCleared
<1>1. ASSUME UNCHANGED <<outPipe, outDone, txDatapathReady>>
      PROVE  outDone' = <<"stalled">>
  BY <1>1 DEF StallIsCleared
<1>2. ASSUME NEW s \in Status, TransferEnds(s)
      PROVE  outDone' = <<"stalled">>
  <2>1. outDone = <<>>
    BY <1>0, <1>2 DEF TransferEnds
  <2>2. txDatapathReady
    BY <1>2 DEF TransferEnds, objectVars
  <2>3. s = "stalled"
    BY <1>2, <2>1, <2>2 DEF TransferEnds, StallIsCleared
  <2> QED
    BY <1>2, <2>1, <2>3 DEF TransferEnds
<1>3. ASSUME TxComplete
      PROVE  FALSE
  <2>1. txDatapathReady /\ txObjects
    BY <1>3 DEF TxComplete, objectVars, IInv, TeardownOrder
  <2>2. RecoverPipe(Head(outDone))
    BY <1>3 DEF TxComplete
  <2>3. CASE Head(outDone) = "stalled"
    BY <2>1, <2>2, <2>3 DEF RecoverPipe
  <2>4. CASE Head(outDone) # "stalled"
    <3>1. outPipe = "halted"
      BY <2>2, <2>4 DEF RecoverPipe
    <3>2. outDone = <<"stalled">>
      BY <2>1, <3>1 DEF StallIsCleared
    <3> QED
      BY <2>4, <3>2
  <2> QED
    BY <2>3, <2>4
<1>4. ~(CompletionDropped \/ StopClosesGate \/ StopAborts \/ ReleaseResources)
  BY DEF CompletionDropped, StopClosesGate, StopAborts, ReleaseResources, objectVars,
         IInv, TeardownOrder
<1>5. /\ \A p \in Packet :
            StackSubmits(p) => UNCHANGED <<outPipe, outDone, txDatapathReady>>
      /\ DrainSubmits \/ DrainRefuses \/ DrainEnds =>
            UNCHANGED <<outPipe, outDone, txDatapathReady>>
      /\ TxDataAvailable \/ StopReturns => UNCHANGED <<outPipe, outDone, txDatapathReady>>
      /\ UNCHANGED vars => UNCHANGED <<outPipe, outDone, txDatapathReady>>
  BY DEF StackSubmits, DrainSubmits, DrainRefuses, DrainEnds, TxDataAvailable, StopReturns,
         vars, objectVars, usbVars
<1> QED
  BY <1>1, <1>2, <1>3, <1>4, <1>5 DEF Next, Drain, Stop

(* A stalled endpoint is cleared by the completion that reports it: no     *)
(* schedule leaves it halted with nothing to clear it.                     *)
THEOREM StallsAreCleared == Spec => []StallIsCleared
<1>1. Init => StallIsCleared
  BY DEF Init, StallIsCleared
<1> QED
  BY <1>1, Invariance, StallStep, PTL DEF Spec

-----------------------------------------------------------------------------
(* The refinement.                                                         *)

(* Every step is a step of PacketCustody, or changes nothing it sees.      *)
LEMMA CustodySimulation ==
  ASSUME IInv, [Next]_vars
  PROVE  [Custody!Next]_(Custody!vars)
<1>0. TypeOK /\ TeardownOrder /\ OneTransfer /\ OneOwner /\ LostAreCounted
  BY DEF IInv
<1>1. ASSUME NEW p \in Packet, StackSubmits(p)
      PROVE  Custody!Submit(p)
  <2>1. Gone' = Gone /\ Held' = Held
    BY <1>0, <1>1, StackCustody
  <2> QED
    BY <1>1, <2>1 DEF StackSubmits, objectVars, Custody!Submit
<1>2. ASSUME DrainSubmits
      PROVE  Custody!Transmit
  <2>1. Held = {} /\ Held' = {Head(submitQ)} /\ Gone' = Gone
    BY <1>0, <1>2, SubmittedCustody
  <2> QED
    BY <1>0, <1>2, <2>1 DEF DrainSubmits, TeardownOrder, objectVars, Custody!Transmit
<1>3. ASSUME DrainRefuses
      PROVE  Custody!Refuse
  <2>1. /\ Held' = Held /\ Held = {}
        /\ \/ Gone' = Gone /\ stackPackets' = stackPackets \cup {Head(submitQ)}
           \/ Gone' = Gone \cup {Head(submitQ)} /\ stackPackets' = stackPackets
    BY <1>0, <1>3, RefusedCustody
  <2>2. Custody!Settle(Head(submitQ))
    BY <2>1 DEF Custody!Settle
  <2> QED
    BY <1>0, <1>3, <2>1, <2>2 DEF DrainRefuses, TeardownOrder, objectVars, Custody!Refuse
<1>4. ASSUME HandBack(txPacket), txPacket' = NoPacket,
             UNCHANGED <<submitQ, txDatapathReady>>
      PROVE  Custody!Finish \/ UNCHANGED Custody!vars
  <2>1. /\ Held' = {}
        /\ \/ txPacket = NoPacket /\ Gone' = Gone /\ stackPackets' = stackPackets
           \/ txPacket # NoPacket /\ Gone' = Gone /\ stackPackets' = stackPackets \cup {txPacket}
           \/ txPacket # NoPacket /\ Gone' = Gone \cup {txPacket} /\ stackPackets' = stackPackets
    BY <1>0, <1>4, EndedCustody
  <2>2. CASE txPacket = NoPacket
    <3>1. Held = {}
      BY <2>2 DEF Held
    <3> QED
      BY <1>4, <2>1, <2>2, <3>1 DEF Custody!vars
  <2>3. CASE txPacket # NoPacket
    <3>1. txPacket \in Held
      BY <2>3 DEF Held
    <3>2. Custody!Settle(txPacket)
      BY <2>1, <2>3 DEF Custody!Settle
    <3> QED
      BY <1>4, <2>1, <3>1, <3>2 DEF Custody!Finish
  <2> QED
    BY <2>2, <2>3
<1>5. TxComplete => Custody!Finish \/ UNCHANGED Custody!vars
  BY <1>4 DEF TxComplete, ForgetTransfer, objectVars
<1>6. ASSUME ReleaseResources
      PROVE  Custody!Finish \/ UNCHANGED Custody!vars
  <2>1. HandBack(txPacket) /\ txPacket' = NoPacket /\ UNCHANGED <<submitQ, txDatapathReady>>
    BY <1>0, <1>6 DEF ReleaseResources, ReclaimInFlight, ForgetTransfer, OneTransfer
  <2> QED
    BY <1>4, <2>1
<1>7. ASSUME UNCHANGED <<stackPackets, submitQ, txPacket, txLost>>
      PROVE  Gone' = Gone /\ Held' = Held
  BY <1>0, <1>7, SameCustody
<1>8. StopClosesGate => Custody!Close
  <2>1. StopClosesGate => UNCHANGED <<stackPackets, submitQ, txPacket, txLost>>
    BY DEF StopClosesGate, custodyVars, counterVars, stateVars
  <2> QED
    BY <1>7, <2>1 DEF StopClosesGate, Custody!Close
<1>9. ASSUME UNCHANGED <<stackPackets, submitQ, txPacket, txLost, txDatapathReady>>
      PROVE  UNCHANGED Custody!vars
  BY <1>7, <1>9 DEF Custody!vars
<1>10. ASSUME NEW s \in Status, TransferEnds(s)
       PROVE  UNCHANGED <<stackPackets, submitQ, txPacket, txLost, txDatapathReady>>
  BY <1>10 DEF TransferEnds, custodyVars, counterVars, stateVars, objectVars
<1>11. CompletionDropped \/ DrainEnds \/ StopAborts \/ StopReturns \/ UNCHANGED vars
       => UNCHANGED <<stackPackets, submitQ, txPacket, txLost, txDatapathReady>>
  BY DEF CompletionDropped, DrainEnds, StopAborts, StopReturns, vars,
         custodyVars, counterVars, stateVars, objectVars
<1>12. TxDataAvailable
       => UNCHANGED <<stackPackets, submitQ, txPacket, txLost, txDatapathReady>>
  BY DEF TxDataAvailable, counterVars, stateVars, objectVars
<1> QED
  BY <1>1, <1>2, <1>3, <1>5, <1>6, <1>8, <1>9, <1>10, <1>11, <1>12
  DEF Next, Drain, Stop, Custody!Next

(* The transmit half keeps PacketCustody's promise to the network stack:   *)
(* taken in order, handed back once, nothing taken after the gate closes.  *)
THEOREM KeepsCustody == Spec => RefinesCustody
<1>1. Init => Custody!Init
  <2>1. ASSUME Init
        PROVE  Held = {} /\ Gone = {}
    <3>1. Held = {} /\ Queued = {} /\ stackPackets = Packet
      BY <2>1, ElementsEmpty DEF Init, Held, Queued
    <3> QED
      BY <3>1 DEF Gone
  <2> QED
    BY <2>1 DEF Init, Custody!Init
<1>2. IInv /\ [Next]_vars => [Custody!Next]_(Custody!vars)
  BY CustodySimulation
<1> QED
  BY <1>1, <1>2, Invariance, PTL DEF Spec, RefinesCustody, Custody!Spec
=============================================================================
