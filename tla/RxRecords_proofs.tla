-------------------------- MODULE RxRecords_proofs --------------------------
(***************************************************************************)
(* The safety properties of the record walk, for every transfer length,    *)
(* every length field, every data offset, every pool and every counter     *)
(* width above the pool's size: they follow from the inductive invariant   *)
(* IInv.                                                                   *)
(***************************************************************************)
EXTENDS RxRecords, TLAPS

(* A packet is in one place at most, and a lost one in none.               *)
Custody == rxSubmit + poolFree + withStack + InHand + rxLost <= PoolSize

(* The two rejects that ignore deallocatePacket's result are the only way  *)
(* to lose a packet uncounted.                                             *)
LostByRejectsOnly == "rejectDeallocFails" \notin WalkFaults => LeaksAreCounted

IInv ==
  /\ TypeOK
  /\ Custody
  /\ LostByRejectsOnly
  /\ FrameInsideTransfer
  /\ RxAccounting

-----------------------------------------------------------------------------
(* The operators of the walk.                                              *)

(* smsc95xx_rx_next always moves past the whole record it decoded: at      *)
(* least its status word, its frame, and up to three bytes of padding.     *)
LEMMA NextOffsetIsPast ==
  ASSUME NEW at \in Nat, NEW field \in Nat
  PROVE  /\ NextOffset(at, field) \in Nat
         /\ at + HeaderLen + field <= NextOffset(at, field)
         /\ NextOffset(at, field) <= at + HeaderLen + field + 3
<1> DEFINE pad == (4 - ((HeaderLen + field) % 4)) % 4
<1>1. pad \in 0 .. 3
  BY DEF HeaderLen
<1> QED
  BY <1>1 DEF NextOffset, HeaderLen

(* The padding ends on a 4-byte boundary of the record's start.            *)
LEMMA NextOffsetIsAligned ==
  ASSUME NEW at \in Nat, NEW field \in Nat
  PROVE  (NextOffset(at, field) - at) % 4 = 0
  BY DEF NextOffset, HeaderLen

(* A decoded record lies inside the transfer and behind the new offset.    *)
LEMMA RecordEffect ==
  ASSUME TypeOK, RecordNext
  PROVE  /\ frameAt' \in Nat /\ frameLen' \in Nat /\ offset' \in Nat
         /\ frameAt' + frameLen' <= actualByteCount
         /\ frameAt' + frameLen' <= offset'
<1>1. PICK field \in FieldLens :
        /\ ~RecordsEnd(field)
        /\ frameAt' = offset + HeaderLen /\ frameLen' = field
        /\ offset' = NextOffset(offset, field)
  BY DEF RecordNext
<1>2. field \in Nat /\ offset \in Nat /\ actualByteCount \in Nat
  BY WalkAssumption DEF TypeOK
<1>3. offset + HeaderLen + field <= actualByteCount
  BY <1>1 DEF RecordsEnd, Fits
<1> QED
  BY <1>1, <1>2, <1>3, NextOffsetIsPast DEF HeaderLen

(* Inc keeps a counter in its range, and only wraps at the modulus.        *)
LEMMA IncType ==
  ASSUME NEW c \in Counter
  PROVE  /\ Inc(c) \in Counter
         /\ c < PoolSize => Inc(c) = c + 1
  BY WalkAssumption DEF Inc, Counter

-----------------------------------------------------------------------------
(* What a step may do to the packets.                                      *)

Held == rxSubmit + poolFree + withStack + InHand

(* No step makes a packet: the packets held are as many as before, or one  *)
(* less that is counted as lost, or one less after an unchecked reject.    *)
LEMMA PacketMoves ==
  ASSUME TypeOK, [Next]_vars
  PROVE  /\ rxSubmit' \in Nat /\ poolFree' \in Nat /\ withStack' \in Nat /\ Held' \in Nat
         /\ \/ Held' = Held /\ rxLost' = rxLost
            \/ Held' = Held - 1 /\ rxLost' = Inc(rxLost)
            \/ /\ Held' = Held - 1 /\ rxLost' = rxLost
               /\ "rejectDeallocFails" \in WalkFaults
<1> USE DEF Held, InHand
<1>0. /\ rxSubmit \in Nat /\ poolFree \in Nat /\ withStack \in Nat
  BY WalkAssumption DEF TypeOK
<1>1. CASE StackSupplies
  BY <1>0, <1>1 DEF StackSupplies
<1>2. CASE StackFrees
  BY <1>0, <1>2 DEF StackFrees
<1>3. CASE TransferArrives
  BY <1>0, <1>3 DEF TransferArrives, packetVars
<1>4. CASE WalkEnds
  BY <1>0, <1>4 DEF WalkEnds, packetVars
<1>5. CASE RecordNext
  BY <1>0, <1>5 DEF RecordNext, packetVars
<1>6. CASE DropErrSum
  BY <1>0, <1>6 DEF DropErrSum, packetVars
<1>7. CASE DropShort
  BY <1>0, <1>7 DEF DropShort, packetVars
<1>8. CASE DropOversize
  BY <1>0, <1>8 DEF DropOversize, packetVars
<1>9. CASE TakeFromSubmitQueue
  BY <1>0, <1>9 DEF TakeFromSubmitQueue
<1>10. CASE SubmitQueueEmpty
  BY <1>0, <1>10 DEF SubmitQueueEmpty, packetVars
<1>11. CASE AllocateFromPool
  BY <1>0, <1>11 DEF AllocateFromPool
<1>12. CASE DropNoBuffer
  BY <1>0, <1>12 DEF DropNoBuffer, packetVars
<1>13. CASE DropBadAddr
  BY <1>0, <1>13 DEF DropBadAddr, DeallocateUnchecked
<1>14. CASE DropBadFit
  BY <1>0, <1>14 DEF DropBadFit, DeallocateUnchecked
<1>15. CASE DropSetLen
  BY <1>0, <1>15 DEF DropSetLen, Deallocate
<1>16. CASE DropEnqueue
  BY <1>0, <1>16 DEF DropEnqueue, Deallocate
<1>17. CASE Deliver
  BY <1>0, <1>17 DEF Deliver
<1>18. CASE UNCHANGED vars
  BY <1>0, <1>18 DEF vars, packetVars
<1> QED
  BY <1>1, <1>2, <1>3, <1>4, <1>5, <1>6, <1>7, <1>8, <1>9, <1>10, <1>11, <1>12, <1>13,
     <1>14, <1>15, <1>16, <1>17, <1>18
     DEF Next, Check, Acquire, Dispose

(* Every step keeps the packets and the lost ones within the pool, and     *)
(* without unchecked rejects the loss exactly counted.                     *)
LEMMA CustodyStep ==
  ASSUME TypeOK, Custody, LostByRejectsOnly, [Next]_vars
  PROVE  Custody' /\ LostByRejectsOnly'
<1>1. /\ Held \in Nat /\ rxLost \in Nat /\ rxLost \in Counter /\ PoolSize \in Nat
      /\ Held + rxLost <= PoolSize
  BY WalkAssumption DEF TypeOK, Counter, Custody, Held, InHand
<1>2. "rejectDeallocFails" \notin WalkFaults => PoolSize - Held = rxLost
  BY DEF LostByRejectsOnly, LeaksAreCounted, Held
<1>3. Held' \in Nat
  BY PacketMoves
<1>4. CASE Held' = Held /\ rxLost' = rxLost
  <2>1. Held' + rxLost' <= PoolSize
    BY <1>1, <1>4
  <2>2. "rejectDeallocFails" \notin WalkFaults => PoolSize - Held' = rxLost'
    BY <1>2, <1>4
  <2> QED
    BY <2>1, <2>2 DEF Custody, LostByRejectsOnly, LeaksAreCounted, Held
<1>5. CASE Held' = Held - 1 /\ rxLost' = Inc(rxLost)
  <2>1. rxLost' = rxLost + 1
    BY <1>1, <1>3, <1>5, IncType
  <2>2. Held' + rxLost' <= PoolSize
    BY <1>1, <1>5, <2>1
  <2>3. "rejectDeallocFails" \notin WalkFaults => PoolSize - Held' = rxLost'
    BY <1>1, <1>2, <1>5, <2>1
  <2> QED
    BY <2>2, <2>3 DEF Custody, LostByRejectsOnly, LeaksAreCounted, Held
<1>6. CASE /\ Held' = Held - 1 /\ rxLost' = rxLost
           /\ "rejectDeallocFails" \in WalkFaults
  <2>1. Held' + rxLost' <= PoolSize
    BY <1>1, <1>6
  <2> QED
    BY <1>6, <2>1 DEF Custody, LostByRejectsOnly, Held
<1> QED
  BY <1>4, <1>5, <1>6, PacketMoves

-----------------------------------------------------------------------------
(* The counters.                                                           *)

(* Every step keeps the counters' identities, through every wrap: the walk *)
(* counts a record when it decodes it, and each way out of the loop's body *)
(* settles that record in one total, and a drop under one reason.          *)
LEMMA AccountingStep ==
  ASSUME TypeOK, RxAccounting, [Next]_vars
  PROVE  /\ RxAccounting'
         /\ rxRecords' \in Counter /\ rxFrames' \in Counter
         /\ rxDropped' \in Counter /\ rxDropReasons' \in Counter
<1> USE DEF RxAccounting, Undecided
<1>0. /\ rxRecords \in Counter /\ rxFrames \in Counter /\ rxDropped \in Counter
      /\ rxDropReasons \in Counter /\ CounterMod \in Nat /\ CounterMod > 0
  BY WalkAssumption DEF TypeOK
<1>1. CASE StackSupplies
  BY <1>0, <1>1 DEF StackSupplies, counterVars
<1>2. CASE StackFrees
  BY <1>0, <1>2 DEF StackFrees, counterVars
<1>3. CASE TransferArrives
  BY <1>0, <1>3 DEF TransferArrives, counterVars
<1>4. CASE WalkEnds
  BY <1>0, <1>4 DEF WalkEnds, counterVars
<1>5. CASE RecordNext
  BY <1>0, <1>5 DEF RecordNext, Inc, Counter
<1>6. CASE DropErrSum
  BY <1>0, <1>6 DEF DropErrSum, Inc, Counter
<1>7. CASE DropShort
  BY <1>0, <1>7 DEF DropShort, Inc, Counter
<1>8. CASE DropOversize
  BY <1>0, <1>8 DEF DropOversize, Inc, Counter
<1>9. CASE TakeFromSubmitQueue
  BY <1>0, <1>9 DEF TakeFromSubmitQueue, counterVars
<1>10. CASE SubmitQueueEmpty
  BY <1>0, <1>10 DEF SubmitQueueEmpty, counterVars
<1>11. CASE AllocateFromPool
  BY <1>0, <1>11 DEF AllocateFromPool, counterVars
<1>12. CASE DropNoBuffer
  BY <1>0, <1>12 DEF DropNoBuffer, Inc, Counter
<1>13. CASE DropBadAddr
  BY <1>0, <1>13 DEF DropBadAddr, Inc, Counter
<1>14. CASE DropBadFit
  BY <1>0, <1>14 DEF DropBadFit, Inc, Counter
<1>15. CASE DropSetLen
  BY <1>0, <1>15 DEF DropSetLen, Inc, Counter
<1>16. CASE DropEnqueue
  BY <1>0, <1>16 DEF DropEnqueue, Inc, Counter
<1>17. CASE Deliver
  BY <1>0, <1>17 DEF Deliver, Inc, Counter
<1>18. CASE UNCHANGED vars
  BY <1>0, <1>18 DEF vars, counterVars
<1> QED
  BY <1>1, <1>2, <1>3, <1>4, <1>5, <1>6, <1>7, <1>8, <1>9, <1>10, <1>11, <1>12, <1>13,
     <1>14, <1>15, <1>16, <1>17, <1>18
     DEF Next, Check, Acquire, Dispose

-----------------------------------------------------------------------------
(* The walk.                                                               *)

(* What a step does to the walk: it starts over, it decodes one record of  *)
(* the same transfer, or it leaves the offsets alone.                      *)
LEMMA Walking ==
  ASSUME TypeOK, [Next]_vars
  PROVE  /\ walk' \in WalkStates /\ fromSubmitQueue' \in BOOLEAN
         /\ \/ /\ actualByteCount' \in TransferLens
               /\ offset' = 0 /\ frameAt' = 0 /\ frameLen' = 0
            \/ actualByteCount' = actualByteCount /\ RecordNext
            \/ UNCHANGED walkVars
<1> USE DEF WalkStates
<1>0. walk \in WalkStates /\ fromSubmitQueue \in BOOLEAN
  BY DEF TypeOK
<1>1. CASE StackSupplies
  BY <1>0, <1>1 DEF StackSupplies
<1>2. CASE StackFrees
  BY <1>0, <1>2 DEF StackFrees
<1>3. CASE TransferArrives
  BY <1>0, <1>3 DEF TransferArrives
<1>4. CASE WalkEnds
  BY <1>0, <1>4 DEF WalkEnds
<1>5. CASE RecordNext
  BY <1>0, <1>5 DEF RecordNext
<1>6. CASE DropErrSum
  BY <1>0, <1>6 DEF DropErrSum
<1>7. CASE DropShort
  BY <1>0, <1>7 DEF DropShort
<1>8. CASE DropOversize
  BY <1>0, <1>8 DEF DropOversize
<1>9. CASE TakeFromSubmitQueue
  BY <1>0, <1>9 DEF TakeFromSubmitQueue
<1>10. CASE SubmitQueueEmpty
  BY <1>0, <1>10 DEF SubmitQueueEmpty
<1>11. CASE AllocateFromPool
  BY <1>0, <1>11 DEF AllocateFromPool
<1>12. CASE DropNoBuffer
  BY <1>0, <1>12 DEF DropNoBuffer
<1>13. CASE DropBadAddr
  BY <1>0, <1>13 DEF DropBadAddr
<1>14. CASE DropBadFit
  BY <1>0, <1>14 DEF DropBadFit
<1>15. CASE DropSetLen
  BY <1>0, <1>15 DEF DropSetLen
<1>16. CASE DropEnqueue
  BY <1>0, <1>16 DEF DropEnqueue
<1>17. CASE Deliver
  BY <1>0, <1>17 DEF Deliver
<1>18. CASE UNCHANGED vars
  BY <1>0, <1>18 DEF vars
<1> QED
  BY <1>1, <1>2, <1>3, <1>4, <1>5, <1>6, <1>7, <1>8, <1>9, <1>10, <1>11, <1>12, <1>13,
     <1>14, <1>15, <1>16, <1>17, <1>18
     DEF Next, Check, Acquire, Dispose

(* Every step keeps the frame inside the transfer and behind the offset,   *)
(* and the walk's types.                                                   *)
LEMMA BoundsStep ==
  ASSUME TypeOK, FrameInsideTransfer, [Next]_vars
  PROVE  /\ FrameInsideTransfer'
         /\ actualByteCount' \in Nat /\ offset' \in Nat /\ frameAt' \in Nat /\ frameLen' \in Nat
<1> USE DEF FrameInsideTransfer
<1>1. CASE /\ actualByteCount' \in TransferLens
           /\ offset' = 0 /\ frameAt' = 0 /\ frameLen' = 0
  BY <1>1, WalkAssumption
<1>2. CASE actualByteCount' = actualByteCount /\ RecordNext
  BY <1>2, RecordEffect DEF TypeOK
<1>3. CASE UNCHANGED walkVars
  BY <1>3 DEF walkVars, TypeOK
<1> QED
  BY <1>1, <1>2, <1>3, Walking

(* Every step keeps the types; that no count leaves the pool's size behind *)
(* is Custody's doing.                                                     *)
LEMMA TypeStep ==
  ASSUME IInv, [Next]_vars
  PROVE  TypeOK'
<1> USE DEF IInv
<1>1. rxLost' \in Counter
  BY PacketMoves, IncType DEF TypeOK
<1>2. rxSubmit' \in 0 .. PoolSize /\ poolFree' \in 0 .. PoolSize /\ withStack' \in 0 .. PoolSize
  <2>1. rxSubmit' + poolFree' + withStack' + InHand' + rxLost' <= PoolSize
    BY CustodyStep DEF Custody
  <2>2. InHand' \in 0 .. 1
    BY DEF InHand
  <2> QED
    BY <1>1, <2>1, <2>2, PacketMoves, WalkAssumption DEF Counter
<1> QED
  BY <1>1, <1>2, Walking, BoundsStep, AccountingStep DEF TypeOK

-----------------------------------------------------------------------------
(* The theorems.                                                           *)

(* A walk starts with every packet in the pool and nothing counted.        *)
LEMMA InitInv == Init => IInv
<1> SUFFICES ASSUME Init
             PROVE  IInv
  OBVIOUS
<1>1. 0 \in Counter /\ 0 \in 0 .. PoolSize /\ PoolSize \in 0 .. PoolSize
  BY WalkAssumption DEF Counter
<1>2. TypeOK
  BY <1>1 DEF Init, TypeOK, WalkStates
<1>3. Custody /\ LostByRejectsOnly /\ RxAccounting
  BY WalkAssumption
     DEF Init, Custody, LostByRejectsOnly, LeaksAreCounted, RxAccounting, Undecided, InHand
<1>4. FrameInsideTransfer
  BY DEF Init, FrameInsideTransfer
<1> QED
  BY <1>2, <1>3, <1>4 DEF IInv

(* Every reachable state of the walk satisfies the inductive invariant.    *)
THEOREM Invariance == Spec => []IInv
<1>1. IInv /\ [Next]_vars => IInv'
  BY TypeStep, CustodyStep, AccountingStep, BoundsStep DEF IInv
<1> QED
  BY <1>1, InitInv, PTL DEF Spec

(* Type correctness of the walk.                                           *)
THEOREM TypeCorrect == Spec => []TypeOK
<1>1. IInv => TypeOK
  BY DEF IInv
<1> QED
  BY <1>1, Invariance, PTL

(* Whatever the status words say, rx_next hands on no byte outside the     *)
(* transfer and none twice.                                                *)
THEOREM NoFrameOutside == Spec => []FrameInsideTransfer
<1>1. IInv => FrameInsideTransfer
  BY DEF IInv
<1> QED
  BY <1>1, Invariance, PTL

(* records == frames + dropped but for the record in hand, and the reasons *)
(* sum to dropped, whichever of the nine ways out of the loop's body each  *)
(* record takes, and through every wrap of every counter.                  *)
THEOREM RecordsAddUp == Spec => []RxAccounting
<1>1. IInv => RxAccounting
  BY DEF IInv
<1> QED
  BY <1>1, Invariance, PTL

(* rxLost never counts a packet that is not lost, whichever calls fail.    *)
THEOREM NothingIsOvercounted == Spec => []Custody
<1>1. IInv => Custody
  BY DEF IInv
<1> QED
  BY <1>1, Invariance, PTL

(* As long as the deallocation that the two address rejects do not check   *)
(* succeeds, rxLost counts every packet lost, and no way out of the loop's *)
(* body keeps one; RxRecordsLeak shows that the hypothesis is needed.      *)
THEOREM LeaksCounted ==
  ASSUME "rejectDeallocFails" \notin WalkFaults
  PROVE  Spec => []LeaksAreCounted
<1>1. IInv => LeaksAreCounted
  BY DEF IInv, LostByRejectsOnly
<1> QED
  BY <1>1, Invariance, PTL
===============================================================================
