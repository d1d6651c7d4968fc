------------------------------- MODULE RxRecords -------------------------------
(***************************************************************************)
(* What RxComplete does with a transfer that carried data (its exit 6,     *)
(* SMSC95xxDriver_datapath.cpp): smsc95xx_rx_next walks the records, and   *)
(* each frame is copied into a packet and delivered, or dropped.           *)
(*                                                                         *)
(* The bytes are abstracted to what the walk branches on: the length field *)
(* of each status word and whether it flags an error.  The network stack   *)
(* runs concurrently: it supplies packets and frees delivered ones.        *)
(***************************************************************************)
EXTENDS Naturals

CONSTANTS TransferLens,   \* the byte counts a transfer may report
          FieldLens,      \* the values of a status word's length field
          DataOffsets,    \* where a packet's data may start in its buffer
          MaxPayload,     \* SMSC95XX_RX_MAX_PAYLOAD
          BufferSize,     \* SMSC95XX_POOL_BUFFER_SIZE
          PoolSize,       \* SMSC95XX_POOL_PACKET_COUNT
          CounterMod,     \* the counters wrap here (2^64 in the code)
          WalkFaults      \* which calls to the libraries may fail

WalkFaultKinds == {"unmapped", "setLenFails", "enqueueFails", "allocFails",
                   "deallocFails", "rejectDeallocFails"}

HeaderLen == 4   \* SMSC95XX_RX_HEADER_LEN
CrcLen    == 4   \* SMSC95XX_RX_CRC_LEN

ASSUME WalkAssumption ==
  /\ TransferLens \subseteq Nat \ {0}
  /\ FieldLens \subseteq Nat /\ DataOffsets \subseteq Nat
  /\ MaxPayload \in Nat /\ BufferSize \in Nat
  /\ PoolSize \in Nat \ {0} /\ CounterMod \in Nat /\ CounterMod > PoolSize
  /\ WalkFaults \subseteq WalkFaultKinds

VARIABLES
  walk,             \* where RxComplete is in the record loop
  actualByteCount, offset,
  frameAt, frameLen,
  fromSubmitQueue,  \* the packet in hand came off the submission queue
  rxSubmit,         \* packets on the RX submission queue
  poolFree,         \* packets free in the pool
  withStack,        \* packets the stack owns
  rxRecords, rxFrames, rxDropped,
  rxDropReasons,    \* the sum of the eight per-reason drop counters
  rxLost

walkVars    == <<actualByteCount, offset, frameAt, frameLen>>
packetVars  == <<rxSubmit, poolFree, withStack, rxLost>>
counterVars == <<rxRecords, rxFrames, rxDropped, rxDropReasons>>
vars == <<walk, fromSubmitQueue, walkVars, packetVars, counterVars>>

(* "next" before rx_next, "record" with a decoded record, "fallback" once  *)
(* the submission queue gave nothing, "packet" with a packet in hand.      *)
WalkStates == {"idle", "next", "record", "fallback", "packet"}

Counter == 0 .. CounterMod - 1
Inc(counter) == IF counter + 1 = CounterMod THEN 0 ELSE counter + 1

TypeOK ==
  /\ walk \in WalkStates /\ fromSubmitQueue \in BOOLEAN
  /\ actualByteCount \in Nat /\ offset \in Nat
  /\ frameAt \in Nat /\ frameLen \in Nat
  /\ rxSubmit \in 0 .. PoolSize /\ poolFree \in 0 .. PoolSize /\ withStack \in 0 .. PoolSize
  /\ rxRecords \in Counter /\ rxFrames \in Counter /\ rxDropped \in Counter
  /\ rxDropReasons \in Counter /\ rxLost \in Counter

Init ==
  /\ walk = "idle" /\ fromSubmitQueue = FALSE
  /\ actualByteCount = 0 /\ offset = 0 /\ frameAt = 0 /\ frameLen = 0
  /\ rxSubmit = 0 /\ poolFree = PoolSize /\ withStack = 0
  /\ rxRecords = 0 /\ rxFrames = 0 /\ rxDropped = 0 /\ rxDropReasons = 0 /\ rxLost = 0

-----------------------------------------------------------------------------
(* The network stack.                                                      *)

StackSupplies ==
  /\ poolFree > 0
  /\ poolFree' = poolFree - 1 /\ rxSubmit' = rxSubmit + 1
  /\ UNCHANGED <<walk, fromSubmitQueue, walkVars, withStack, rxLost, counterVars>>

StackFrees ==
  /\ withStack > 0
  /\ withStack' = withStack - 1 /\ poolFree' = poolFree + 1
  /\ UNCHANGED <<walk, fromSubmitQueue, walkVars, rxSubmit, rxLost, counterVars>>

-----------------------------------------------------------------------------
(* smsc95xx_rx_next.                                                       *)

FitsOffByHeader(at, field) == field >= CrcLen /\ at + field <= actualByteCount

(* The record at `at`, whose length field is `field`, can be decoded.      *)
Fits(at, field) == field >= CrcLen /\ at + HeaderLen + field <= actualByteCount

(* Past the record, to the next 4-byte boundary.                           *)
NextOffset(at, field) ==
  LET used == HeaderLen + field
  IN  at + used + ((4 - (used % 4)) % 4)

RecordsEnd(field) ==
  \/ offset + HeaderLen > actualByteCount
  \/ ~Fits(offset, field)

(* A completion with data: rx_next starts at the head of the buffer.       *)
TransferArrives ==
  /\ walk = "idle" /\ walk' = "next"
  /\ actualByteCount' \in TransferLens
  /\ offset' = 0 /\ frameAt' = 0 /\ frameLen' = 0
  /\ UNCHANGED <<fromSubmitQueue, packetVars, counterVars>>

(* rx_next returns false; RxComplete re-arms and returns.                  *)
WalkEnds ==
  /\ walk = "next" /\ walk' = "idle"
  /\ \E field \in FieldLens : RecordsEnd(field)
  /\ UNCHANGED <<fromSubmitQueue, walkVars, packetVars, counterVars>>

NextLoses ==
  /\ walk = "next" /\ walk' = "record"
  /\ \E field \in FieldLens :
       /\ ~RecordsEnd(field)
       /\ frameAt' = offset + HeaderLen /\ frameLen' = field
  /\ rxRecords' = Inc(rxRecords)
  /\ UNCHANGED <<fromSubmitQueue, actualByteCount, offset, packetVars,
                 rxFrames, rxDropped, rxDropReasons>>

(* A decoded record: where its frame is, and where the next one starts.    *)
RecordNext ==
  /\ walk = "next" /\ walk' = "record"
  /\ \E field \in FieldLens :
       /\ ~RecordsEnd(field)
       /\ frameAt' = offset + HeaderLen /\ frameLen' = field
       /\ offset' = NextOffset(offset, field)
  /\ rxRecords' = Inc(rxRecords)
  /\ UNCHANGED <<fromSubmitQueue, actualByteCount, packetVars,
                 rxFrames, rxDropped, rxDropReasons>>

-----------------------------------------------------------------------------
(* The three checks on a decoded record.                                   *)

(* The status word flags an error or a filter failure.                     *)
DropErrSum ==
  /\ walk = "record" /\ walk' = "next"
  /\ rxDropped' = Inc(rxDropped) /\ rxDropReasons' = Inc(rxDropReasons)
  /\ UNCHANGED <<fromSubmitQueue, walkVars, packetVars, rxRecords, rxFrames>>

DropShort ==
  /\ walk = "record" /\ walk' = "next"
  /\ frameLen <= CrcLen
  /\ rxDropped' = Inc(rxDropped) /\ rxDropReasons' = Inc(rxDropReasons)
  /\ UNCHANGED <<fromSubmitQueue, walkVars, packetVars, rxRecords, rxFrames>>

payloadLen == frameLen - CrcLen

DropOversize ==
  /\ walk = "record" /\ walk' = "next"
  /\ frameLen > CrcLen /\ payloadLen > MaxPayload
  /\ rxDropped' = Inc(rxDropped) /\ rxDropReasons' = Inc(rxDropReasons)
  /\ UNCHANGED <<fromSubmitQueue, walkVars, packetVars, rxRecords, rxFrames>>

-----------------------------------------------------------------------------
(* rxAcquirePacket: the RX submission queue first, the pool as a fallback. *)
(* The stack may fill the one and empty the other between the two looks.   *)

GoodRecord == frameLen > CrcLen /\ payloadLen <= MaxPayload

TakeFromSubmitQueue ==
  /\ walk = "record" /\ walk' = "packet"
  /\ GoodRecord
  /\ rxSubmit > 0 /\ rxSubmit' = rxSubmit - 1
  /\ fromSubmitQueue' = TRUE
  /\ UNCHANGED <<walkVars, poolFree, withStack, rxLost, counterVars>>

SubmitQueueEmpty ==
  /\ walk = "record" /\ walk' = "fallback"
  /\ GoodRecord
  /\ rxSubmit = 0
  /\ fromSubmitQueue' = FALSE
  /\ UNCHANGED <<walkVars, packetVars, counterVars>>

AllocateFromPool ==
  /\ walk = "fallback" /\ walk' = "packet"
  /\ poolFree > 0 /\ poolFree' = poolFree - 1
  /\ UNCHANGED <<fromSubmitQueue, walkVars, rxSubmit, withStack, rxLost, counterVars>>

DropNoBufferUncounted ==
  /\ walk = "fallback" /\ walk' = "idle"
  /\ poolFree = 0 \/ "allocFails" \in WalkFaults
  /\ rxDropReasons' = Inc(rxDropReasons)
  /\ UNCHANGED <<fromSubmitQueue, walkVars, packetVars, rxRecords, rxFrames, rxDropped>>

(* No packet from either source: the rest of the transfer is abandoned.    *)
DropNoBuffer ==
  /\ walk = "fallback" /\ walk' = "idle"
  /\ poolFree = 0 \/ "allocFails" \in WalkFaults
  /\ rxDropped' = Inc(rxDropped) /\ rxDropReasons' = Inc(rxDropReasons)
  /\ UNCHANGED <<fromSubmitQueue, walkVars, packetVars, rxRecords, rxFrames>>

-----------------------------------------------------------------------------
(* What becomes of the packet in hand.                                     *)

DeallocateTwice ==
  /\ poolFree' = poolFree + 2
  /\ UNCHANGED <<rxSubmit, withStack, rxLost>>

DeallocateForgotten == UNCHANGED packetVars

(* deallocatePacket with its result checked: a failure is a lost packet.   *)
Deallocate ==
  /\ UNCHANGED <<rxSubmit, withStack>>
  /\ \/ poolFree' = poolFree + 1 /\ UNCHANGED rxLost
     \/ "deallocFails" \in WalkFaults /\ UNCHANGED poolFree /\ rxLost' = Inc(rxLost)

(* deallocatePacket with its result ignored, on the two address checks.    *)
DeallocateUnchecked ==
  /\ UNCHANGED <<rxSubmit, withStack, rxLost>>
  /\ \/ poolFree' = poolFree + 1
     \/ "rejectDeallocFails" \in WalkFaults /\ UNCHANGED poolFree

(* The packet's address is not mapped: abandon the transfer.               *)
DropBadAddr ==
  /\ walk = "packet" /\ walk' = "idle"
  /\ "unmapped" \in WalkFaults
  /\ rxDropped' = Inc(rxDropped) /\ rxDropReasons' = Inc(rxDropReasons)
  /\ DeallocateUnchecked
  /\ UNCHANGED <<fromSubmitQueue, walkVars, rxRecords, rxFrames>>

(* The payload fits behind some data offset, or does not behind some other.*)
MayFit     == \E dataOff \in DataOffsets : dataOff + payloadLen <= BufferSize
MayNotFit  == \E dataOff \in DataOffsets : dataOff + payloadLen > BufferSize

DropBadFit ==
  /\ walk = "packet" /\ walk' = "next"
  /\ MayNotFit
  /\ rxDropped' = Inc(rxDropped) /\ rxDropReasons' = Inc(rxDropReasons)
  /\ DeallocateUnchecked
  /\ UNCHANGED <<fromSubmitQueue, walkVars, rxRecords, rxFrames>>

DropSetLen ==
  /\ walk = "packet" /\ walk' = "next"
  /\ MayFit /\ "setLenFails" \in WalkFaults
  /\ rxDropped' = Inc(rxDropped) /\ rxDropReasons' = Inc(rxDropReasons)
  /\ Deallocate
  /\ UNCHANGED <<fromSubmitQueue, walkVars, rxRecords, rxFrames>>

(* enqueuePackets refuses it, as it must a packet from the pool, which has *)
(* no submission to complete against.                                      *)
DropEnqueue ==
  /\ walk = "packet" /\ walk' = "next"
  /\ MayFit /\ (fromSubmitQueue => "enqueueFails" \in WalkFaults)
  /\ Deallocate
  /\ rxDropped' = Inc(rxDropped) /\ rxDropReasons' = Inc(rxDropReasons)
  /\ UNCHANGED <<fromSubmitQueue, walkVars, rxRecords, rxFrames>>

(* The stack takes the packet.                                             *)
Deliver ==
  /\ walk = "packet" /\ walk' = "next"
  /\ MayFit /\ fromSubmitQueue
  /\ withStack' = withStack + 1
  /\ rxFrames' = Inc(rxFrames)
  /\ UNCHANGED <<fromSubmitQueue, walkVars, rxSubmit, poolFree, rxLost,
                 rxRecords, rxDropped, rxDropReasons>>

-----------------------------------------------------------------------------
Check   == DropErrSum \/ DropShort \/ DropOversize
Acquire == TakeFromSubmitQueue \/ SubmitQueueEmpty \/ AllocateFromPool \/ DropNoBuffer
Dispose == DropBadAddr \/ DropBadFit \/ DropSetLen \/ DropEnqueue \/ Deliver

Next ==
  \/ StackSupplies
  \/ StackFrees
  \/ TransferArrives
  \/ WalkEnds
  \/ RecordNext
  \/ Check
  \/ Acquire
  \/ Dispose

Spec == Init /\ [][Next]_vars

(* The handler runs to its end; the stack and the device owe nothing.      *)
FairSpec == Spec /\ WF_vars(WalkEnds \/ RecordNext \/ Check \/ Acquire \/ Dispose)

-----------------------------------------------------------------------------
(* Properties.                                                             *)

(* The frame handed on lies inside the bytes the transfer delivered, and   *)
(* behind it the walk goes on, so no byte is read twice.                   *)
FrameInsideTransfer ==
  frameAt + frameLen <= actualByteCount /\ frameAt + frameLen <= offset

(* The record counted by the loop whose fate is not decided yet.           *)
Undecided == IF walk \in {"record", "fallback", "packet"} THEN 1 ELSE 0

(* "records == frames + dropped", up to a wrap and to the record in hand,  *)
(* and the reasons sum to the dropped total: each of the nine ways out of  *)
(* the loop's body counts its record once in each place.                   *)
RxAccounting ==
  /\ rxFrames + rxDropped + Undecided \in {rxRecords, rxRecords + CounterMod}
  /\ rxDropReasons = rxDropped

InHand == IF walk = "packet" THEN 1 ELSE 0

(* rxLost counts the "packets neither delivered nor freed": what is on no  *)
(* queue, not free, not with the stack and not in RxComplete's hands.      *)
LeaksAreCounted == PoolSize - (rxSubmit + poolFree + withStack + InHand) = rxLost

(* Every transfer is decoded to its end, whatever its bytes say.           *)
WalkTerminates == walk # "idle" ~> walk = "idle"
===============================================================================
