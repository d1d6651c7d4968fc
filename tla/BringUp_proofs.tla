---------------------------- MODULE BringUp_proofs ----------------------------
(***************************************************************************)
(* Bring-up: only the EEPROM's own address is believed, a PHY that can     *)
(* negotiate is left unclaimed, and a chip that is up is configured, for   *)
(* any address length, EEPROM and poll bound, because of IInv.             *)
(***************************************************************************)
EXTENDS BringUp, SequenceTheorems, TLAPS

Reading == pc \in {"idlePoll", "command", "poll", "data"}

Initialising == pc \in {"reset", "resetPoll", "write", "pmRead", "pmWrite", "up", "crWrite"}

(* Where Start is.                                                         *)
Places ==
  /\ Reading => at <= LastRead
  /\ pc = "autoload" => at = SigRead
  /\ pc = "reset" => at = LastRead
  /\ pc = "resetPoll" => at = 1
  /\ pc = "write" => at <= Len(InitWrites)
  /\ pc \in {"pmRead", "pmWrite"} => at = Len(InitWrites) + 1

Datum == IF Engine = "mii" THEN phyAutoneg[command.mii] ELSE eeprom[command.e2p]

(* The engine Start uses is its own: idle when a command is written, and   *)
(* retired with that command's datum when the datum is read.               *)
EngineOwned ==
  /\ pc \in {"command", "data"} => ~busy[Engine]
  /\ pc \in {"poll", "data"} => command[Engine] = Address
  /\ pc = "poll" /\ ~busy[Engine] /\ ~NoEeprom => data[Engine] = Datum
  /\ pc = "data" => data[Engine] = Datum

(* What Start has made sure of by the time it is where it is.              *)
GatesPassed ==
  /\ (Reading /\ at > BmsrRead) \/ pc = "autoload" \/ Initialising => ~phyAutoneg[BmsrRead]
  /\ Reading /\ at >= SigRead => e2pLoaded
  /\ Reading /\ at >= MacRead =>
       /\ eeprom[0] = Signature
       /\ Len(mac) = at - MacRead
       /\ \A i \in 1 .. at - MacRead : mac[i] = eeprom[i]
  /\ (Reading /\ at < MacRead) \/ pc = "autoload" => mac = <<>>

(* The registers hold the first n - 1 writes of the sequence, of each      *)
(* register the last.                                                      *)
Written(n) ==
  /\ DOMAIN regs = {InitWrites[i].reg : i \in 1 .. n - 1}
  /\ \A i \in 1 .. n - 1 :
       (\A j \in i + 1 .. n - 1 : InitWrites[j].reg # InitWrites[i].reg) =>
         regs[InitWrites[i].reg] = InitWrites[i].val

(* The chip follows the sequence, its reset over before the first write.   *)
ChipFollows ==
  /\ pc \in {"write", "pmRead", "pmWrite", "up", "crWrite"} => ~resetting
  /\ pc = "resetPoll" => Written(1)
  /\ pc \in {"write", "pmRead", "pmWrite"} => Written(at)
  /\ "DEVICE" \in pmCtrl
  /\ pc = "pmWrite" => "DEVICE" \in pm
  /\ pc = "crWrite" => newCr \ {"PRMS"} = regs["MAC_CR"] \ {"PRMS"}

IInv == /\ TypeOK /\ Places /\ EngineOwned /\ GatesPassed /\ ChipFollows
        /\ MacIsTheEeproms /\ UpIsConfigured

-----------------------------------------------------------------------------
(* Types, in three parts.                                                  *)

EngineTyped ==
  /\ busy \in [Engines -> BOOLEAN] /\ timedOut \in BOOLEAN
  /\ command \in [mii : 1 .. BmsrRead, e2p : 0 .. MacLen]
  /\ data \in [mii : BOOLEAN, e2p : 0 .. 255]

ChipTyped ==
  /\ eeprom \in Eeproms /\ e2pLoaded \in BOOLEAN
  /\ phyAutoneg \in [1 .. BmsrRead -> BOOLEAN]
  /\ resetting \in BOOLEAN /\ DOMAIN regs \subseteq RegNames
  /\ pmCtrl \subseteq {"DEVICE", "PHY_RST"} /\ pm \subseteq pmCtrl
  /\ macValid \in BOOLEAN /\ macAddress \in Seq(0 .. 255)
  /\ pc = "crWrite" => newCr \subseteq regs["MAC_CR"] \cup {"PRMS"}

LocalsTyped ==
  /\ pc \in Working \cup {"up", "crWrite", "failed"}
  /\ at \in 1 .. LastRead \cup 1 .. Len(InitWrites) + 1 /\ polls \in 0 .. Polls - 1
  /\ mac \in Seq(0 .. 255) /\ Len(mac) <= MacLen

(* The parts are TypeOK.                                                   *)
LEMMA TypeParts == TypeOK <=> EngineTyped /\ ChipTyped /\ LocalsTyped
  BY Zenon DEF TypeOK, EngineTyped, ChipTyped, LocalsTyped

(* The reads in order.                                                     *)
LEMMA Reads ==
  /\ BmsrRead = 3 /\ SigRead = 4 /\ MacRead = 5 /\ LastRead = MacLen + 4
  /\ MacLen \in Nat /\ MacLen >= 1
<1>1. BmsrRead = 3
  BY DEF BmsrRead, PhyRegs
<1>2. MacLen \in Nat /\ MacLen >= 1
  BY BringUpAssumption
<1> QED
  BY <1>1, <1>2 DEF SigRead, MacRead, LastRead

-----------------------------------------------------------------------------
(* The sequence of the writes.                                             *)

(* A write that is not of a bit the promiscuous mode changes.              *)
Plain(w) == w.reg = "MAC_CR" => "PRMS" \notin w.val

Regs(s) == {s[i].reg : i \in 1 .. Len(s)}

(* What is so of two sequences' writes is so of the longer one's.          *)
LEMMA Joined ==
  ASSUME NEW S, NEW s \in Seq(S), NEW t \in Seq(S)
  PROVE  /\ s \o t \in Seq(S)
         /\ Len(s \o t) = Len(s) + Len(t)
         /\ Len(s) \in Nat /\ Len(t) \in Nat
         /\ Regs(s \o t) = Regs(s) \cup Regs(t)
<1>1. /\ s \o t \in Seq(S)
      /\ Len(s \o t) = Len(s) + Len(t)
      /\ \A i \in 1 .. Len(s) + Len(t) :
           (s \o t)[i] = IF i <= Len(s) THEN s[i] ELSE t[i - Len(s)]
  BY ConcatProperties
<1>2. Len(s) \in Nat /\ Len(t) \in Nat
  BY LenProperties
<1>3. ASSUME NEW i \in 1 .. Len(s \o t)
      PROVE  (s \o t)[i].reg \in Regs(s) \cup Regs(t)
  <2>1. CASE i <= Len(s)
    BY <1>1, <1>2, <1>3, <2>1 DEF Regs
  <2>2. CASE i > Len(s)
    <3>1. i - Len(s) \in 1 .. Len(t) /\ (s \o t)[i] = t[i - Len(s)]
      BY <1>1, <1>2, <1>3, <2>2
    <3> QED
      BY <3>1 DEF Regs
  <2> QED
    BY <1>1, <1>2, <1>3, <2>1, <2>2
<1>4. ASSUME NEW i \in 1 .. Len(s)
      PROVE  s[i].reg \in Regs(s \o t)
  <2>1. i \in 1 .. Len(s \o t) /\ (s \o t)[i] = s[i]
    BY <1>1, <1>2
  <2> QED
    BY <2>1 DEF Regs
<1>5. ASSUME NEW i \in 1 .. Len(t)
      PROVE  t[i].reg \in Regs(s \o t)
  <2>1. i + Len(s) \in 1 .. Len(s \o t) /\ (s \o t)[i + Len(s)] = t[i]
    BY <1>1, <1>2
  <2> QED
    BY <2>1 DEF Regs
<1>6. Regs(s \o t) \subseteq Regs(s) \cup Regs(t)
  BY <1>3 DEF Regs
<1>7. Regs(s) \subseteq Regs(s \o t) /\ Regs(t) \subseteq Regs(s \o t)
  BY <1>4, <1>5 DEF Regs
<1> QED
  BY <1>1, <1>2, <1>6, <1>7

(* What a sequence of register writes writes.                             *)
WritesOf(s) == {s[i] : i \in 1 .. Len(s)}

(***************************************************************************)
(* The first two writes of smsc95xx_init_seq carry the station address, to *)
(* ADDRL and ADDRH and nowhere else.                                       *)
(***************************************************************************)
LEMMA AddressSeq ==
  /\ AddressWrites \in Seq(WritesOf(AddressWrites)) /\ Len(AddressWrites) = 2
  /\ Regs(AddressWrites) = {"ADDRL", "ADDRH"}
<1>1. Len(AddressWrites) = 2
  BY DEF AddressWrites
<1>2. AddressWrites[1] = W("ADDRL", SubSeq(macAddress, 1, LowLen))
  BY DEF AddressWrites
<1>3. AddressWrites[2] = W("ADDRH", SubSeq(macAddress, LowLen + 1, MacLen))
  BY DEF AddressWrites
<1>4. AddressWrites[1].reg = "ADDRL" /\ AddressWrites[2].reg = "ADDRH"
  BY <1>2, <1>3 DEF W
<1>5. AddressWrites \in Seq({AddressWrites[1], AddressWrites[2]})
  BY <1>2, <1>3 DEF AddressWrites
<1>6. 1 .. 2 = {1, 2}
  OBVIOUS
<1> QED
  BY <1>1, <1>4, <1>5, <1>6 DEF Regs, WritesOf

(***************************************************************************)
(* The eleven writes between the address and the datapath.                 *)
(***************************************************************************)
LEMMA ModeSeq == Len(ModeWrites) = 11 /\ ModeWrites \in Seq(WritesOf(ModeWrites))
<1>1. Len(ModeWrites) = 11
  BY DEF ModeWrites
<1> QED
  BY <1>1 DEF ModeWrites, WritesOf

(***************************************************************************)
(* The five writes that open the chip's datapath, MAC_CR's among them.     *)
(***************************************************************************)
LEMMA DatapathSeq ==
  /\ Len(DatapathWrites) = 5
  /\ DatapathWrites \in Seq(WritesOf(DatapathWrites))
<1>1. Len(DatapathWrites) = 5
  BY DEF DatapathWrites
<1> QED
  BY <1>1 DEF DatapathWrites, WritesOf

(* The addresses, the modes, the datapath.                                 *)
Shape ==
  /\ Len(InitWrites) = 18 /\ DOMAIN InitWrites = 1 .. 18
  /\ RegNames = {"ADDRL", "ADDRH"} \cup Regs(ModeWrites) \cup Regs(DatapathWrites)
  /\ \A i \in 1 .. 18 : Plain(InitWrites[i])

(***************************************************************************)
(* The whole of smsc95xx_init_seq: eighteen plain writes, to the registers *)
(* RegNames lists.                                                         *)
(***************************************************************************)
LEMMA InitWritesShape == Shape
<1> DEFINE S == WritesOf(AddressWrites) \cup WritesOf(ModeWrites) \cup WritesOf(DatapathWrites)
<1>1. /\ AddressWrites \in Seq(S) /\ ModeWrites \in Seq(S) /\ DatapathWrites \in Seq(S)
  BY AddressSeq, ModeSeq, DatapathSeq, SeqMonotonic
<1>2. \A w \in S : Plain(w)
  <2>1. \A i \in 1 .. 2 : Plain(AddressWrites[i])
    BY DEF AddressWrites, W, Plain
  <2>2. \A i \in 1 .. 11 : Plain(ModeWrites[i])
    BY DEF ModeWrites, W, Plain
  <2>3. \A i \in 1 .. 5 : Plain(DatapathWrites[i])
    BY DEF DatapathWrites, FullMacCr, W, Plain
  <2> QED
    BY <2>1, <2>2, <2>3, AddressSeq, ModeSeq, DatapathSeq DEF WritesOf
<1> HIDE DEF S
<1> DEFINE start == AddressWrites \o ModeWrites
<1>3. /\ start \in Seq(S)
      /\ Len(start) = Len(AddressWrites) + Len(ModeWrites)
      /\ Regs(start) = Regs(AddressWrites) \cup Regs(ModeWrites)
  BY <1>1, Joined
<1> HIDE DEF start
<1>4. /\ start \o DatapathWrites \in Seq(S)
      /\ Len(start \o DatapathWrites) = Len(start) + Len(DatapathWrites)
      /\ Regs(start \o DatapathWrites) = Regs(start) \cup Regs(DatapathWrites)
  <2>1. start \in Seq(S) /\ DatapathWrites \in Seq(S)
    BY <1>1, <1>3
  <2> QED
    BY <2>1, Joined
<1>5. InitWrites = start \o DatapathWrites
  BY DEF InitWrites, start
<1>6. Len(InitWrites) = 18
  BY <1>3, <1>4, <1>5, AddressSeq, ModeSeq, DatapathSeq
<1>7. DOMAIN InitWrites = 1 .. 18 /\ \A i \in 1 .. 18 : InitWrites[i] \in S
  BY <1>4, <1>5, <1>6, LenProperties
<1>8. RegNames = Regs(InitWrites)
  BY <1>7, <1>6 DEF RegNames, Regs
<1> QED
  BY <1>2, <1>3, <1>4, <1>7, <1>8, <1>5, <1>6, AddressSeq DEF Shape

(* ... after a step too.                                                   *)
LEMMA InitWritesShapeNext == Shape'
  BY InitWritesShape, PTL

-----------------------------------------------------------------------------
(* Types.                                                                  *)

(* The engine's address is one the adapter has.                            *)
LEMMA AddressTyped ==
  ASSUME LocalsTyped, Places, Reading
  PROVE  /\ Engine \in Engines
         /\ Engine = "mii" => Address \in 1 .. BmsrRead
         /\ Engine = "e2p" => Address \in 0 .. MacLen
<1>1. at \in Nat /\ at >= 1 /\ at <= LastRead
  BY Reads, InitWritesShape DEF LocalsTyped, Places, Shape
<1> QED
  BY <1>1, Reads DEF Engine, Engines, Address

(* The contents of an EEPROM are bytes.                                    *)
LEMMA BytesTyped == eeprom \in Eeproms => eeprom \in [0 .. MacLen -> 0 .. 255]
  BY BringUpAssumption

(* While the sequence is written, at is the place of a write in it.        *)
LEMMA WriteInTurn ==
  ASSUME IInv, WriteNext
  PROVE  /\ at \in 1 .. Len(InitWrites) /\ at \in DOMAIN InitWrites
         /\ Len(InitWrites) = 18 /\ at' = at + 1
         /\ pc' = IF at = 18 THEN "pmRead" ELSE "write"
<1>1. LocalsTyped /\ Places
  BY TypeParts DEF IInv
<1>2. Len(InitWrites) = 18 /\ DOMAIN InitWrites = 1 .. 18
  BY InitWritesShape DEF Shape
<1>3. /\ pc = "write" /\ at' = at + 1
      /\ pc' = IF at = 18 THEN "pmRead" ELSE "write"
  BY <1>2 DEF WriteNext
<1>4. at <= 18
  BY <1>1, <1>2, <1>3 DEF Places
<1>5. at \in Nat /\ 1 <= at
  BY <1>1, <1>2, Reads DEF LocalsTyped
<1> QED
  BY <1>2, <1>3, <1>4, <1>5

(* Every step keeps the types of the engines.                              *)
LEMMA EngineTypedStep ==
  ASSUME IInv, [Next]_vars
  PROVE  EngineTyped'
<1> USE DEF EngineTyped
<1>0. EngineTyped /\ ChipTyped /\ LocalsTyped /\ Places
  BY TypeParts DEF IInv
<1>1. CASE PollIdle
  BY <1>0, <1>1 DEF PollIdle, engineVars
<1>2. CASE Command
  <2>1. Reading
    BY <1>2 DEF Command, Reading
  <2>2. CASE busy[Engine]
    BY <1>0, <1>2, <2>2 DEF Command, engineVars
  <2>3. CASE ~busy[Engine]
    <3>1. Engine \in Engines /\ busy' \in [Engines -> BOOLEAN]
      BY <1>0, <2>1, <2>3, <1>2, AddressTyped DEF Command
    <3>2. command' = [command EXCEPT ![Engine] = Address]
      BY <1>2, <2>3 DEF Command
    <3>3. command' \in [mii : 1 .. BmsrRead, e2p : 0 .. MacLen]
      BY <1>0, <2>1, <3>1, <3>2, AddressTyped DEF Engines
    <3>4. timedOut' \in BOOLEAN /\ data' = data
      BY <1>2, <2>3 DEF Command
    <3> QED
      BY <1>0, <3>1, <3>3, <3>4
  <2> QED
    BY <2>2, <2>3
<1>3. CASE PollRetired
  BY <1>0, <1>3 DEF PollRetired, engineVars
<1>4. CASE ReadPhy
  BY <1>0, <1>4 DEF ReadPhy, engineVars
<1>5. CASE CheckAutoload
  BY <1>0, <1>5 DEF CheckAutoload, engineVars
<1>6. CASE ReadSignature
  BY <1>0, <1>6 DEF ReadSignature, engineVars
<1>7. CASE ReadMacByte
  BY <1>0, <1>7 DEF ReadMacByte, engineVars
<1>8. CASE WriteReset
  BY <1>0, <1>8 DEF WriteReset, engineVars
<1>9. CASE PollReset
  BY <1>0, <1>9 DEF PollReset, engineVars
<1>10. CASE WriteNext
  BY <1>0, <1>10 DEF WriteNext, engineVars
<1>11. CASE ReadPmCtrl
  BY <1>0, <1>11 DEF ReadPmCtrl, engineVars
<1>12. CASE WritePmCtrl
  BY <1>0, <1>12 DEF WritePmCtrl, engineVars
<1>13. CASE AccessFails
  BY <1>0, <1>13 DEF AccessFails, engineVars
<1>14. ASSUME NEW e \in Engines, EngineRetires(e)
      PROVE  EngineTyped'
  <2>1. busy' \in [Engines -> BOOLEAN]
    BY <1>0, <1>14 DEF EngineRetires
  <2>2. eeprom[command.e2p] \in 0 .. 255 /\ phyAutoneg[command.mii] \in BOOLEAN
    BY <1>0, BytesTyped DEF ChipTyped
  <2>3. data' \in [mii : BOOLEAN, e2p : 0 .. 255]
    BY <1>0, <1>14, <2>2 DEF EngineRetires, Engines
  <2>4. timedOut' \in BOOLEAN /\ command' = command
    BY <1>0, <1>14 DEF EngineRetires
  <2> QED
    BY <1>0, <2>1, <2>3, <2>4
<1>15. CASE ResetEnds
  BY <1>0, <1>15 DEF ResetEnds, engineVars
<1>16. ASSUME NEW enable \in BOOLEAN, ReadMacCr(enable)
      PROVE  EngineTyped'
  BY <1>0, <1>16 DEF ReadMacCr, Go, engineVars
<1>17. CASE WriteMacCr
  BY <1>0, <1>17 DEF WriteMacCr, Go, engineVars
<1>18. CASE WriteMacCrFails
  BY <1>0, <1>18 DEF WriteMacCrFails, Go, engineVars
<1>19. CASE Reattach
  BY <1>0, <1>19 DEF Reattach, engineVars
<1>20. CASE UNCHANGED vars
  BY <1>0, <1>20 DEF vars, engineVars
<1> QED
  BY <1>1, <1>2, <1>3, <1>4, <1>5, <1>6, <1>7, <1>8, <1>9, <1>10, <1>11, <1>12, <1>13,
     <1>14, <1>15, <1>16, <1>17, <1>18, <1>19, <1>20 DEF Next, Start

(* Every step keeps the types of the adapter and the chip.                 *)
LEMMA ChipTypedStep ==
  ASSUME IInv, [Next]_vars
  PROVE  ChipTyped'
<1> USE DEF ChipTyped
<1>0. EngineTyped /\ ChipTyped /\ LocalsTyped /\ Places
  BY TypeParts DEF IInv
<1>a. RegNames' = RegNames
  BY InitWritesShape, InitWritesShapeNext DEF Shape, Regs, ModeWrites, DatapathWrites, W
<1>1. CASE PollIdle
  BY <1>0, <1>a, <1>1 DEF PollIdle, Poll, Fail, Ends, adapter, chipVars, macVars
<1>2. CASE Command
  BY <1>0, <1>a, <1>2 DEF Command, Go, adapter, chipVars, macVars
<1>3. CASE PollRetired
  BY <1>0, <1>a, <1>3 DEF PollRetired, Poll, Fail, Ends, adapter, chipVars, macVars
<1>4. CASE ReadPhy
  BY <1>0, <1>a, <1>4 DEF ReadPhy, NextRead, Fail, Ends, adapter, chipVars, macVars
<1>5. CASE CheckAutoload
  BY <1>0, <1>a, <1>5 DEF CheckAutoload, Go, Fail, Ends, adapter, chipVars, macVars
<1>6. CASE ReadSignature
  BY <1>0, <1>a, <1>6 DEF ReadSignature, NextRead, Fail, Ends, adapter, chipVars, macVars
<1>7. CASE ReadMacByte
  <2>1. Append(mac, data.e2p) \in Seq(0 .. 255)
    BY <1>0 DEF LocalsTyped, EngineTyped
  <2>2. macValid' \in BOOLEAN /\ macAddress' \in Seq(0 .. 255)
    BY <1>0, <1>7, <2>1 DEF ReadMacByte, macVars
  <2>3. pm' \subseteq pmCtrl' /\ pc' # "crWrite"
    BY <1>0, <1>7 DEF ReadMacByte, NextRead, Go, Fail, Ends, chipVars
  <2> QED
    BY <1>0, <1>a, <1>7, <2>2, <2>3 DEF ReadMacByte, adapter, chipVars
<1>8. CASE WriteReset
  BY <1>0, <1>a, <1>8 DEF WriteReset, adapter, macVars
<1>9. CASE PollReset
  BY <1>0, <1>a, <1>9 DEF PollReset, Poll, Fail, Ends, adapter, chipVars, macVars
<1>10. CASE WriteNext
  <2>1. at \in DOMAIN InitWrites
    BY <1>10, WriteInTurn
  <2>2. DOMAIN regs' \subseteq RegNames
    BY <1>0, <1>10, <2>1 DEF WriteNext, RegNames
  <2> QED
    BY <1>0, <1>a, <1>10, <2>2 DEF WriteNext, adapter, macVars
<1>11. CASE ReadPmCtrl
  BY <1>0, <1>a, <1>11 DEF ReadPmCtrl, adapter, chipVars, macVars
<1>12. CASE WritePmCtrl
  BY <1>0, <1>a, <1>12 DEF WritePmCtrl, Ends, adapter, macVars
<1>13. CASE AccessFails
  BY <1>0, <1>a, <1>13 DEF AccessFails, Fail, Ends, adapter, chipVars, macVars
<1>14. ASSUME NEW e \in Engines, EngineRetires(e)
      PROVE  ChipTyped'
  BY <1>0, <1>a, <1>14 DEF EngineRetires, adapter, chipVars, localVars, macVars
<1>15. CASE ResetEnds
  BY <1>0, <1>a, <1>15 DEF ResetEnds, adapter, localVars, macVars
<1>16. ASSUME NEW enable \in BOOLEAN, ReadMacCr(enable)
      PROVE  ChipTyped'
  BY <1>0, <1>a, <1>16 DEF ReadMacCr, chipVars, PromiscuousCr, Go, adapter, macVars
<1>17. CASE WriteMacCr
  BY <1>0, <1>a, <1>17 DEF WriteMacCr, Go, adapter, macVars
<1>18. CASE WriteMacCrFails
  BY <1>0, <1>a, <1>18 DEF WriteMacCrFails, chipVars, Go, adapter, macVars
<1>19. CASE Reattach
  <2>1. NoAddress \in Seq(0 .. 255)
    BY Reads, SeqDef DEF NoAddress
  <2> QED
    BY <1>0, <1>a, <1>19, <2>1 DEF Reattach, Ends, adapter, chipVars
<1>20. CASE UNCHANGED vars
  BY <1>0, <1>a, <1>20 DEF vars, adapter, chipVars, localVars, macVars
<1> QED
  BY <1>1, <1>2, <1>3, <1>4, <1>5, <1>6, <1>7, <1>8, <1>9, <1>10, <1>11, <1>12, <1>13,
     <1>14, <1>15, <1>16, <1>17, <1>18, <1>19, <1>20 DEF Next, Start

(* Start's locals are gone when it returns.                                *)
LEMMA EndsTyped ==
  ASSUME NEW result \in {"idlePoll", "up", "failed"}, Ends(result)
  PROVE  LocalsTyped'
<1>1. at' \in 1 .. LastRead \cup 1 .. Len(InitWrites)' + 1
  BY InitWritesShapeNext DEF Ends, Shape
<1>2. polls' \in 0 .. Polls - 1
  BY BringUpAssumption DEF Ends
<1>3. mac' \in Seq(0 .. 255) /\ Len(mac') <= MacLen
  BY Reads DEF Ends
<1>4. pc' \in Working \cup {"up", "crWrite", "failed"}
  BY DEF Ends, Working
<1> QED
  BY <1>1, <1>2, <1>3, <1>4 DEF LocalsTyped

(* A poll leaves the read where it is.                                     *)
LEMMA PollTyped ==
  ASSUME LocalsTyped, NEW next \in Working,
         \/ pc' = next /\ polls' = 0 /\ UNCHANGED <<at, mac, pm>>
         \/ polls + 1 < Polls /\ polls' = polls + 1 /\ UNCHANGED <<pc, at, mac, pm>>
         \/ Fail
  PROVE  LocalsTyped'
<1>1. CASE Fail
  BY <1>1, EndsTyped DEF Fail
<1>2. CASE ~Fail
  <2>1. at' \in 1 .. LastRead \cup 1 .. Len(InitWrites)' + 1
    BY <1>2, InitWritesShape, InitWritesShapeNext DEF LocalsTyped, Shape
  <2>2. polls' \in 0 .. Polls - 1
    BY <1>2, BringUpAssumption DEF LocalsTyped
  <2>3. mac' = mac /\ pc' \in Working \cup {"up", "crWrite", "failed"}
    BY <1>2 DEF LocalsTyped
  <2> QED
    BY <2>1, <2>2, <2>3 DEF LocalsTyped
<1> QED
  BY <1>1, <1>2

(* The next read is one of Start's.                                        *)
LEMMA NextReadTyped ==
  ASSUME LocalsTyped, NEW first \in Working, NextRead(first), at < LastRead,
         mac' \in Seq(0 .. 255), Len(mac') <= MacLen
  PROVE  LocalsTyped'
<1>1. at' \in 1 .. LastRead
  BY Reads, InitWritesShape DEF NextRead, LocalsTyped, Shape
<1> QED
  BY <1>1 DEF NextRead, LocalsTyped

(* Every step keeps the types of Start's locals.                           *)
LEMMA LocalsTypedStep ==
  ASSUME IInv, [Next]_vars
  PROVE  LocalsTyped'
<1>0. EngineTyped /\ ChipTyped /\ LocalsTyped /\ Places /\ GatesPassed
  BY TypeParts DEF IInv
<1>a. /\ BmsrRead = 3 /\ SigRead = 4 /\ MacRead = 5 /\ LastRead = MacLen + 4
      /\ MacLen \in Nat /\ MacLen >= 1
  BY Reads
<1>b. Len(InitWrites) = 18 /\ Len(InitWrites)' = 18
  BY InitWritesShape, InitWritesShapeNext DEF Shape
<1>1. CASE PollIdle
  <2>1. \/ pc' = "command" /\ polls' = 0 /\ UNCHANGED <<at, mac, pm>>
        \/ polls + 1 < Polls /\ polls' = polls + 1 /\ UNCHANGED <<pc, at, mac, pm>>
        \/ Fail
    BY <1>1 DEF PollIdle, Poll
  <2>2. "command" \in Working
    BY DEF Working
  <2> QED
    BY <1>0, <2>1, <2>2, PollTyped
<1>2. CASE Command
  BY <1>0, <1>b, <1>2 DEF LocalsTyped, Working, Command, Go
<1>3. CASE PollRetired
  <2>1. \/ pc' = "data" /\ polls' = 0 /\ UNCHANGED <<at, mac, pm>>
        \/ polls + 1 < Polls /\ polls' = polls + 1 /\ UNCHANGED <<pc, at, mac, pm>>
        \/ Fail
    BY <1>3 DEF PollRetired, Poll
  <2>2. "data" \in Working
    BY DEF Working
  <2> QED
    BY <1>0, <2>1, <2>2, PollTyped
<1>4. CASE ReadPhy
  <2>1. CASE Fail
    BY <2>1, EndsTyped DEF Fail
  <2>2. CASE NextRead("idlePoll") /\ mac' = mac
    <3>1. at < LastRead /\ "idlePoll" \in Working
      BY <1>0, <1>a, <1>b, <1>4 DEF ReadPhy, LocalsTyped, Working
    <3>2. mac' \in Seq(0 .. 255) /\ Len(mac') <= MacLen
      BY <1>0, <2>2 DEF LocalsTyped
    <3> QED
      BY <1>0, <2>2, <3>1, <3>2, NextReadTyped
  <2>3. CASE NextRead("autoload") /\ mac' = mac
    <3>1. at < LastRead /\ "autoload" \in Working
      BY <1>0, <1>a, <1>b, <1>4 DEF ReadPhy, LocalsTyped, Working
    <3>2. mac' \in Seq(0 .. 255) /\ Len(mac') <= MacLen
      BY <1>0, <2>3 DEF LocalsTyped
    <3> QED
      BY <1>0, <2>3, <3>1, <3>2, NextReadTyped
  <2> QED
    BY <1>4, <2>1, <2>2, <2>3 DEF ReadPhy
<1>5. CASE CheckAutoload
  <2>1. CASE Fail
    BY <2>1, EndsTyped DEF Fail
  <2>2. CASE Go("idlePoll")
    BY <1>0, <1>b, <2>2 DEF Go, LocalsTyped, Working
  <2> QED
    BY <1>5, <2>1, <2>2 DEF CheckAutoload
<1>6. CASE ReadSignature
  <2>1. CASE Fail
    BY <2>1, EndsTyped DEF Fail
  <2>2. CASE NextRead("idlePoll") /\ mac' = mac
    <3>1. at < LastRead /\ "idlePoll" \in Working
      BY <1>0, <1>a, <1>b, <1>6 DEF ReadSignature, LocalsTyped, Working
    <3>2. mac' \in Seq(0 .. 255) /\ Len(mac') <= MacLen
      BY <1>0, <2>2 DEF LocalsTyped
    <3> QED
      BY <1>0, <2>2, <3>1, <3>2, NextReadTyped
  <2> QED
    BY <1>6, <2>1, <2>2 DEF ReadSignature
<1>7. CASE ReadMacByte
  <2>1. CASE Fail
    BY <2>1, EndsTyped DEF Fail
  <2>2. CASE NextRead("command") /\ mac' = Append(mac, data.e2p)
    <3>1. at < LastRead /\ at >= MacRead /\ "command" \in Working
      BY <1>a, <1>7, <2>2 DEF ReadMacByte, NextRead, Fail, Ends, Go, Working
    <3>2. mac' \in Seq(0 .. 255) /\ Len(mac') <= MacLen
      BY <1>0, <1>a, <2>2, <1>7, <3>1
    DEF ReadMacByte, LocalsTyped, EngineTyped, GatesPassed, Reading
    <3> QED
      BY <1>0, <2>2, <3>1, <3>2, NextReadTyped
  <2>3. CASE Go("reset")
    BY <1>0, <1>b, <2>3 DEF Go, LocalsTyped, Working
  <2> QED
    BY <1>7, <2>1, <2>2, <2>3 DEF ReadMacByte
<1>8. CASE WriteReset
  <2>1. at' \in 1 .. LastRead /\ mac' \in Seq(0 .. 255) /\ Len(mac') = 0
    BY <1>a, <1>8 DEF WriteReset
  <2> QED
    BY <1>0, <1>a, <1>8, <2>1 DEF WriteReset, LocalsTyped, Working
<1>9. CASE PollReset
  <2>1. \/ pc' = "write" /\ polls' = 0 /\ UNCHANGED <<at, mac, pm>>
        \/ polls + 1 < Polls /\ polls' = polls + 1 /\ UNCHANGED <<pc, at, mac, pm>>
        \/ Fail
    BY <1>9 DEF PollReset, Poll
  <2>2. "write" \in Working
    BY DEF Working
  <2> QED
    BY <1>0, <2>1, <2>2, PollTyped
<1>10. CASE WriteNext
  <2>1. at' \in 1 .. Len(InitWrites)' + 1
    BY <1>b, <1>10, WriteInTurn
  <2>2. pc' \in Working
    BY <1>10 DEF WriteNext, Working
  <2> QED
    BY <1>0, <1>10, <2>1, <2>2 DEF WriteNext, LocalsTyped
<1>11. CASE ReadPmCtrl
  BY <1>0, <1>b, <1>11 DEF LocalsTyped, Working, ReadPmCtrl
<1>12. CASE WritePmCtrl
  BY <1>0, <1>b, <1>12, EndsTyped DEF WritePmCtrl
<1>13. CASE AccessFails
  BY <1>0, <1>b, <1>13, EndsTyped DEF AccessFails, Fail
<1>14. ASSUME NEW e \in Engines, EngineRetires(e)
      PROVE  LocalsTyped'
  BY <1>0, <1>b, <1>14 DEF LocalsTyped, Working, EngineRetires, localVars
<1>15. CASE ResetEnds
  BY <1>0, <1>b, <1>15 DEF LocalsTyped, Working, ResetEnds, localVars
<1>16. ASSUME NEW enable \in BOOLEAN, ReadMacCr(enable)
      PROVE  LocalsTyped'
  BY <1>0, <1>b, <1>16 DEF LocalsTyped, Working, ReadMacCr, Go
<1>17. CASE WriteMacCr
  BY <1>0, <1>b, <1>17 DEF LocalsTyped, Working, WriteMacCr, Go
<1>18. CASE WriteMacCrFails
  BY <1>0, <1>b, <1>18 DEF LocalsTyped, Working, WriteMacCrFails, Go
<1>19. CASE Reattach
  BY <1>0, <1>b, <1>19, EndsTyped DEF Reattach
<1>20. CASE UNCHANGED vars
  BY <1>0, <1>b, <1>20 DEF LocalsTyped, Working, vars, localVars
<1> QED
  BY <1>1, <1>2, <1>3, <1>4, <1>5, <1>6, <1>7, <1>8, <1>9, <1>10, <1>11, <1>12, <1>13,
     <1>14, <1>15, <1>16, <1>17, <1>18, <1>19, <1>20 DEF Next, Start

-----------------------------------------------------------------------------
(* Where Start is, and what it knows.                                      *)

(* Every step leaves Start in one of its places.                           *)
LEMMA PlacesStep ==
  ASSUME IInv, [Next]_vars
  PROVE  Places'
<1> USE DEF Places, Reading
<1>0. EngineTyped /\ ChipTyped /\ LocalsTyped /\ Places /\ ChipFollows
  BY TypeParts DEF IInv
<1>a. /\ BmsrRead = 3 /\ SigRead = 4 /\ MacRead = 5 /\ LastRead = MacLen + 4
      /\ MacLen \in Nat /\ MacLen >= 1
  BY Reads
<1>b. Len(InitWrites) = 18 /\ Len(InitWrites)' = 18
  BY InitWritesShape, InitWritesShapeNext DEF Shape
<1>1. CASE PollIdle
  BY <1>0, <1>a, <1>b, <1>1 DEF LocalsTyped, PollIdle, Poll, Fail, Ends
<1>2. CASE Command
  BY <1>0, <1>a, <1>b, <1>2 DEF LocalsTyped, Command, Go
<1>3. CASE PollRetired
  BY <1>0, <1>a, <1>b, <1>3 DEF LocalsTyped, PollRetired, Poll, Fail, Ends
<1>4. CASE ReadPhy
  BY <1>0, <1>a, <1>b, <1>4 DEF LocalsTyped, ReadPhy, NextRead, Fail, Ends
<1>5. CASE CheckAutoload
  BY <1>0, <1>a, <1>b, <1>5 DEF LocalsTyped, CheckAutoload, Go, Fail, Ends
<1>6. CASE ReadSignature
  BY <1>0, <1>a, <1>b, <1>6 DEF LocalsTyped, ReadSignature, NextRead, Fail, Ends
<1>7. CASE ReadMacByte
  BY <1>0, <1>a, <1>b, <1>7 DEF LocalsTyped, ReadMacByte, NextRead, Go, Fail, Ends
<1>8. CASE WriteReset
  BY <1>0, <1>a, <1>b, <1>8 DEF LocalsTyped, WriteReset
<1>9. CASE PollReset
  BY <1>0, <1>a, <1>b, <1>9 DEF LocalsTyped, PollReset, Poll, Fail, Ends
<1>10. CASE WriteNext
  <2>1. /\ at \in 1 .. 18 /\ at' = at + 1
        /\ pc' = IF at = 18 THEN "pmRead" ELSE "write"
    BY <1>b, <1>10, WriteInTurn
  <2> QED
    BY <1>a, <1>b, <2>1
<1>11. CASE ReadPmCtrl
  BY <1>0, <1>a, <1>b, <1>11 DEF LocalsTyped, ReadPmCtrl
<1>12. CASE WritePmCtrl
  BY <1>0, <1>a, <1>b, <1>12 DEF LocalsTyped, WritePmCtrl, Ends
<1>13. CASE AccessFails
  BY <1>0, <1>a, <1>b, <1>13 DEF LocalsTyped, AccessFails, Fail, Ends
<1>14. ASSUME NEW e \in Engines, EngineRetires(e)
      PROVE  Places'
  BY <1>0, <1>a, <1>b, <1>14 DEF LocalsTyped, EngineRetires, localVars
<1>15. CASE ResetEnds
  BY <1>0, <1>a, <1>b, <1>15 DEF LocalsTyped, ResetEnds, localVars
<1>16. ASSUME NEW enable \in BOOLEAN, ReadMacCr(enable)
      PROVE  Places'
  BY <1>0, <1>a, <1>b, <1>16 DEF LocalsTyped, ReadMacCr, Go
<1>17. CASE WriteMacCr
  BY <1>0, <1>a, <1>b, <1>17 DEF LocalsTyped, WriteMacCr, Go
<1>18. CASE WriteMacCrFails
  BY <1>0, <1>a, <1>b, <1>18 DEF LocalsTyped, WriteMacCrFails, Go
<1>19. CASE Reattach
  BY <1>0, <1>a, <1>b, <1>19 DEF LocalsTyped, Reattach, Ends
<1>20. CASE UNCHANGED vars
  BY <1>0, <1>a, <1>b, <1>20 DEF LocalsTyped, vars, localVars
<1> QED
  BY <1>1, <1>2, <1>3, <1>4, <1>5, <1>6, <1>7, <1>8, <1>9, <1>10, <1>11, <1>12, <1>13,
     <1>14, <1>15, <1>16, <1>17, <1>18, <1>19, <1>20 DEF Next, Start

(* Every step leaves Start the owner of its engine.                        *)
LEMMA EngineStep ==
  ASSUME IInv, [Next]_vars
  PROVE  EngineOwned'
<1> USE DEF EngineOwned, Engine, Address, NoEeprom, Datum
<1>0. EngineTyped /\ ChipTyped /\ LocalsTyped /\ Places /\ EngineOwned
  BY TypeParts DEF IInv
<1>a. /\ BmsrRead = 3 /\ SigRead = 4 /\ MacRead = 5 /\ LastRead = MacLen + 4
      /\ MacLen \in Nat /\ MacLen >= 1
  BY Reads
<1>b. Len(InitWrites) = 18 /\ Len(InitWrites)' = 18
  BY InitWritesShape, InitWritesShapeNext DEF Shape
<1>1. CASE PollIdle
  BY <1>0, <1>a, <1>b, <1>1 DEF PollIdle, Poll, Fail, Ends, adapter, engineVars
<1>2. CASE Command
  <2>1. Reading /\ ~busy[Engine]
    BY <1>0, <1>2 DEF Command, Reading
  <2>2. Engine \in Engines
    BY <1>0, <2>1, AddressTyped
  <2>3. busy' = [busy EXCEPT ![Engine] = TRUE] /\ command' = [command EXCEPT ![Engine] = Address]
    BY <1>2, <2>1 DEF Command
  <2>4. Engine' = Engine /\ Address' = Address /\ pc' = "poll"
    BY <1>2 DEF Command, Go
  <2> HIDE DEF Engine, Address
  <2>5. busy'[Engine] /\ command'[Engine] = Address
    BY <1>0, <2>2, <2>3 DEF EngineTyped, Engines
  <2> QED
    BY <2>4, <2>5
<1>3. CASE PollRetired
  BY <1>0, <1>a, <1>b, <1>3 DEF PollRetired, Poll, Fail, Ends, adapter, engineVars
<1>4. CASE ReadPhy
  BY <1>0, <1>a, <1>b, <1>4 DEF ReadPhy, NextRead, Fail, Ends, adapter, engineVars
<1>5. CASE CheckAutoload
  BY <1>0, <1>a, <1>b, <1>5 DEF CheckAutoload, Go, Fail, Ends, adapter, engineVars
<1>6. CASE ReadSignature
  BY <1>0, <1>a, <1>b, <1>6 DEF ReadSignature, NextRead, Fail, Ends, adapter, engineVars
<1>7. CASE ReadMacByte
  <2>a. pc = "data" /\ at >= 5
    BY <1>a, <1>7 DEF ReadMacByte
  <2>b. at \in Nat /\ at > 3
    BY <1>0, <1>a, <1>b, <2>a DEF LocalsTyped
  <2>c. Engine = "e2p"
    BY <1>a, <2>b
  <2>d. ~busy["e2p"]
    BY <1>0, <2>a, <2>c
  <2>1. at \in Nat /\ at > 3 /\ ~busy["e2p"]
    BY <2>b, <2>d
  <2>2. busy' = busy /\ (pc' = "command" => at' = at + 1) /\ pc' \in {"command", "reset", "failed"}
    BY <1>7 DEF ReadMacByte, NextRead, Go, Fail, Ends, engineVars
  <2>3. CASE pc' = "command"
    <3>1. Engine' = "e2p"
      BY <1>a, <2>1, <2>2, <2>3
    <3> QED
      BY <2>1, <2>2, <2>3, <3>1
  <2>4. CASE pc' # "command"
    BY <2>2, <2>4
  <2> QED
    BY <2>3, <2>4
<1>8. CASE WriteReset
  BY <1>0, <1>a, <1>b, <1>8 DEF WriteReset, adapter, engineVars
<1>9. CASE PollReset
  BY <1>0, <1>a, <1>b, <1>9 DEF PollReset, Poll, Fail, Ends, adapter, engineVars
<1>10. CASE WriteNext
  BY <1>0, <1>a, <1>b, <1>10 DEF WriteNext, adapter, engineVars
<1>11. CASE ReadPmCtrl
  BY <1>0, <1>a, <1>b, <1>11 DEF ReadPmCtrl, adapter, engineVars
<1>12. CASE WritePmCtrl
  BY <1>0, <1>a, <1>b, <1>12 DEF WritePmCtrl, Ends, adapter, engineVars
<1>13. CASE AccessFails
  BY <1>0, <1>a, <1>b, <1>13 DEF AccessFails, Fail, Ends, adapter, engineVars
<1>14. ASSUME NEW e \in Engines, EngineRetires(e)
      PROVE  EngineOwned'
  <2>1. UNCHANGED <<at, pc, command, eeprom, phyAutoneg>>
    BY <1>14 DEF EngineRetires, adapter, localVars
  <2>2. busy' = [busy EXCEPT ![e] = FALSE] /\ busy[e]
    BY <1>14 DEF EngineRetires
  <2>3. Engine \in Engines
    BY DEF Engines
  <2>4. CASE e # Engine
    <3>1. busy'[Engine] = busy[Engine]
      BY <1>0, <2>2, <2>3, <2>4 DEF EngineTyped
    <3>2. data'[Engine] = data[Engine] /\ (Engine = "e2p" => timedOut' = timedOut)
      BY <1>0, <1>14, <2>3, <2>4 DEF EngineRetires, EngineTyped, Engines
    <3> QED
      BY <1>0, <2>1, <3>1, <3>2, <2>3 DEF Engines
  <2>5. CASE e = Engine
    <3>1. pc \notin {"command", "data"}
      BY <1>0, <2>2, <2>5
    <3>2. \/ data' = [data EXCEPT ![e] = IF e = "mii" THEN phyAutoneg[command[e]]
                                                      ELSE eeprom[command[e]]]
          \/ e = "e2p" /\ timedOut'
      BY <1>14 DEF EngineRetires
    <3>3. busy'["e2p"] = FALSE \/ Engine = "mii"
      BY <1>0, <2>2, <2>3, <2>5 DEF EngineTyped, Engines
    <3>4. data'[Engine] = Datum' \/ NoEeprom'
      BY <1>0, <2>1, <2>3, <2>5, <3>2, <3>3 DEF EngineTyped, Engines
    <3> QED
      BY <1>0, <2>1, <3>1, <3>4
  <2> QED
    BY <2>4, <2>5
<1>15. CASE ResetEnds
  BY <1>0, <1>a, <1>b, <1>15 DEF ResetEnds, adapter, engineVars, localVars
<1>16. ASSUME NEW enable \in BOOLEAN, ReadMacCr(enable)
      PROVE  EngineOwned'
  BY <1>0, <1>a, <1>b, <1>16 DEF ReadMacCr, Go, adapter, engineVars
<1>17. CASE WriteMacCr
  BY <1>0, <1>a, <1>b, <1>17 DEF WriteMacCr, Go, adapter, engineVars
<1>18. CASE WriteMacCrFails
  BY <1>0, <1>a, <1>b, <1>18 DEF WriteMacCrFails, Go, adapter, engineVars
<1>19. CASE Reattach
  BY <1>0, <1>a, <1>b, <1>19 DEF Reattach, Ends, adapter, engineVars
<1>20. CASE UNCHANGED vars
  BY <1>0, <1>a, <1>b, <1>20 DEF vars, adapter, engineVars, localVars
<1> QED
  BY <1>1, <1>2, <1>3, <1>4, <1>5, <1>6, <1>7, <1>8, <1>9, <1>10, <1>11, <1>12, <1>13,
     <1>14, <1>15, <1>16, <1>17, <1>18, <1>19, <1>20 DEF Next, Start

(* What Start has read at "data" is the datum of its own command.          *)
LEMMA DatumRead ==
  ASSUME IInv, pc = "data"
  PROVE  /\ at <= BmsrRead => data.mii = phyAutoneg[at]
         /\ ~(at <= BmsrRead) => data.e2p = eeprom[at - SigRead]
<1>1. data[Engine] = Datum /\ command[Engine] = Address
  BY DEF IInv, EngineOwned
<1>2. CASE at <= BmsrRead
  <2>1. Engine = "mii" /\ Address = at
    BY <1>2 DEF Engine, Address
  <2> QED
    BY <1>1, <1>2, <2>1, Reads, InitWritesShape, TypeParts DEF Datum, IInv, LocalsTyped, Shape
<1>3. CASE ~(at <= BmsrRead)
  <2>1. Engine = "e2p" /\ Address = at - SigRead
    BY <1>3 DEF Engine, Address
  <2> QED
    BY <1>1, <1>3, <2>1 DEF Datum
<1> QED
  BY <1>2, <1>3

(* Every step leaves the gates passed.                                     *)
LEMMA GatesStep ==
  ASSUME IInv, [Next]_vars
  PROVE  GatesPassed'
<1> USE DEF GatesPassed, Reading, Initialising
<1>0. EngineTyped /\ ChipTyped /\ LocalsTyped /\ Places /\ EngineOwned /\ GatesPassed
  BY TypeParts DEF IInv
<1>a. /\ BmsrRead = 3 /\ SigRead = 4 /\ MacRead = 5 /\ LastRead = MacLen + 4
      /\ MacLen \in Nat /\ MacLen >= 1
  BY Reads
<1>b. Len(InitWrites) = 18 /\ Len(InitWrites)' = 18
  BY InitWritesShape, InitWritesShapeNext DEF Shape
<1>c. at \in Nat /\ at >= 1
  BY <1>0, <1>a, <1>b DEF LocalsTyped
<1>1. CASE PollIdle
  BY <1>0, <1>a, <1>c, <1>1 DEF PollIdle, Poll, Fail, Ends, adapter
<1>2. CASE Command
  BY <1>0, <1>a, <1>c, <1>2 DEF Command, Go, adapter
<1>3. CASE PollRetired
  BY <1>0, <1>a, <1>c, <1>3 DEF PollRetired, Poll, Fail, Ends, adapter
<1>4. CASE ReadPhy
  <2>1. pc = "data" /\ at <= BmsrRead /\ UNCHANGED <<eeprom, e2pLoaded, phyAutoneg>>
    BY <1>4 DEF ReadPhy, adapter
  <2>2. data.mii = phyAutoneg[at]
    BY <2>1, DatumRead
  <2> QED
    BY <1>0, <1>a, <1>c, <1>4, <2>1, <2>2 DEF ReadPhy, NextRead, Fail, Ends
<1>5. CASE CheckAutoload
  BY <1>0, <1>a, <1>5 DEF CheckAutoload, Go, Fail, Ends, Places, adapter
<1>6. CASE ReadSignature
  <2>1. data.e2p = eeprom[0]
    BY <1>a, <1>6, DatumRead DEF ReadSignature
  <2>2. e2pLoaded /\ ~phyAutoneg[BmsrRead] /\ mac = <<>>
    BY <1>0, <1>a, <1>6 DEF ReadSignature
  <2> QED
    BY <1>a, <1>6, <2>1, <2>2 DEF ReadSignature, NextRead, Fail, Ends, adapter
<1>7. CASE ReadMacByte
  <2>1. /\ at >= MacRead /\ at <= LastRead /\ e2pLoaded /\ ~phyAutoneg[BmsrRead]
        /\ UNCHANGED <<eeprom, e2pLoaded, phyAutoneg>>
    BY <1>0, <1>a, <1>c, <1>7 DEF ReadMacByte, Places, adapter
  <2>2. ASSUME pc' = "command", at' = at + 1, mac' = Append(mac, data.e2p)
        PROVE  /\ eeprom[0] = Signature /\ Len(mac') = at' - MacRead
               /\ \A i \in 1 .. at' - MacRead : mac'[i] = eeprom[i]
    <3>1. /\ Len(mac) = at - MacRead /\ eeprom[0] = Signature
          /\ \A i \in 1 .. at - MacRead : mac[i] = eeprom[i]
      BY <1>0, <2>1, <1>7 DEF ReadMacByte
    <3>2. data.e2p = eeprom[at - SigRead]
      BY <1>a, <1>c, <2>1, <1>7, DatumRead DEF ReadMacByte
    <3> QED
      BY <1>0, <1>a, <1>c, <2>1, <2>2, <3>1, <3>2 DEF LocalsTyped
  <2>3. \/ pc' = "command" /\ at' = at + 1 /\ mac' = Append(mac, data.e2p)
        \/ pc' \in {"reset", "failed"}
    BY <1>7 DEF ReadMacByte, NextRead, Go, Fail, Ends
  <2> QED
    BY <1>a, <1>c, <2>1, <2>2, <2>3
<1>8. CASE WriteReset
  BY <1>0, <1>a, <1>c, <1>8 DEF WriteReset, adapter
<1>9. CASE PollReset
  BY <1>0, <1>a, <1>c, <1>9 DEF PollReset, Poll, Fail, Ends, adapter
<1>10. CASE WriteNext
  BY <1>0, <1>a, <1>c, <1>10 DEF WriteNext, adapter
<1>11. CASE ReadPmCtrl
  BY <1>0, <1>a, <1>c, <1>11 DEF ReadPmCtrl, adapter
<1>12. CASE WritePmCtrl
  BY <1>0, <1>a, <1>c, <1>12 DEF WritePmCtrl, Ends, adapter
<1>13. CASE AccessFails
  BY <1>0, <1>a, <1>c, <1>13 DEF AccessFails, Fail, Ends, adapter
<1>14. ASSUME NEW e \in Engines, EngineRetires(e)
      PROVE  GatesPassed'
  BY <1>0, <1>a, <1>c, <1>14 DEF EngineRetires, adapter, localVars
<1>15. CASE ResetEnds
  BY <1>0, <1>a, <1>c, <1>15 DEF ResetEnds, adapter, localVars
<1>16. ASSUME NEW enable \in BOOLEAN, ReadMacCr(enable)
      PROVE  GatesPassed'
  BY <1>0, <1>a, <1>c, <1>16 DEF ReadMacCr, Go, adapter
<1>17. CASE WriteMacCr
  BY <1>0, <1>a, <1>c, <1>17 DEF WriteMacCr, Go, adapter
<1>18. CASE WriteMacCrFails
  BY <1>0, <1>a, <1>c, <1>18 DEF WriteMacCrFails, Go, adapter
<1>19. CASE Reattach
  BY <1>0, <1>a, <1>c, <1>19 DEF Reattach, Ends, adapter
<1>20. CASE UNCHANGED vars
  BY <1>0, <1>a, <1>c, <1>20 DEF vars, adapter, localVars
<1> QED
  BY <1>1, <1>2, <1>3, <1>4, <1>5, <1>6, <1>7, <1>8, <1>9, <1>10, <1>11, <1>12, <1>13,
     <1>14, <1>15, <1>16, <1>17, <1>18, <1>19, <1>20 DEF Next, Start

(* Every step leaves the address the EEPROM's own.                         *)
LEMMA MacStep ==
  ASSUME IInv, [Next]_vars
  PROVE  MacIsTheEeproms'
<1> USE DEF MacIsTheEeproms
<1>0. EngineTyped /\ ChipTyped /\ LocalsTyped /\ Places /\ GatesPassed /\ MacIsTheEeproms
  BY TypeParts DEF IInv
<1>a. /\ BmsrRead = 3 /\ SigRead = 4 /\ MacRead = 5 /\ LastRead = MacLen + 4
      /\ MacLen \in Nat /\ MacLen >= 1
  BY Reads
<1>b. Len(InitWrites) = 18 /\ Len(InitWrites)' = 18
  BY InitWritesShape, InitWritesShapeNext DEF Shape
<1>1. CASE PollIdle
  BY <1>0, <1>1 DEF PollIdle, Poll, Fail, Ends, adapter, macVars
<1>2. CASE Command
  BY <1>0, <1>2 DEF Command, Go, adapter, macVars
<1>3. CASE PollRetired
  BY <1>0, <1>3 DEF PollRetired, Poll, Fail, Ends, adapter, macVars
<1>4. CASE ReadPhy
  BY <1>0, <1>4 DEF ReadPhy, NextRead, Fail, Ends, adapter, macVars
<1>5. CASE CheckAutoload
  BY <1>0, <1>5 DEF CheckAutoload, Go, Fail, Ends, adapter, macVars
<1>6. CASE ReadSignature
  BY <1>0, <1>6 DEF ReadSignature, NextRead, Fail, Ends, adapter, macVars
<1>7. CASE ReadMacByte
  <2>1. CASE UNCHANGED macVars
    BY <1>0, <1>7, <2>1 DEF ReadMacByte, adapter, macVars
  <2>2. CASE ~UNCHANGED macVars
    <3> DEFINE read == Append(mac, data.e2p)
    <3>1. /\ at = LastRead /\ Plausible(read) /\ macAddress' = read
          /\ pc = "data" /\ UNCHANGED <<eeprom, e2pLoaded>>
      BY <1>7, <2>2 DEF ReadMacByte, adapter
    <3>2. /\ Len(mac) = MacLen - 1 /\ e2pLoaded /\ eeprom[0] = Signature
          /\ \A i \in 1 .. MacLen - 1 : mac[i] = eeprom[i]
      BY <1>0, <1>a, <3>1 DEF GatesPassed, Reading
    <3>3. data.e2p = eeprom[MacLen]
      BY <1>a, <3>1, DatumRead
    <3>4. /\ Len(read) = MacLen /\ \A i \in 1 .. MacLen : read[i] = eeprom[i]
          /\ read \in Seq(0 .. 255)
      BY <1>0, <1>a, <3>2, <3>3 DEF LocalsTyped, EngineTyped
    <3>5. read = [i \in 1 .. MacLen |-> eeprom[i]]
      BY <3>4, LenProperties
    <3> HIDE DEF read
    <3> QED
      BY <3>1, <3>2, <3>5
  <2> QED
    BY <2>1, <2>2
<1>8. CASE WriteReset
  BY <1>0, <1>8 DEF WriteReset, adapter, macVars
<1>9. CASE PollReset
  BY <1>0, <1>9 DEF PollReset, Poll, Fail, Ends, adapter, macVars
<1>10. CASE WriteNext
  BY <1>0, <1>10 DEF WriteNext, adapter, macVars
<1>11. CASE ReadPmCtrl
  BY <1>0, <1>11 DEF ReadPmCtrl, adapter, macVars
<1>12. CASE WritePmCtrl
  BY <1>0, <1>12 DEF WritePmCtrl, Ends, adapter, macVars
<1>13. CASE AccessFails
  BY <1>0, <1>13 DEF AccessFails, Fail, Ends, adapter, macVars
<1>14. ASSUME NEW e \in Engines, EngineRetires(e)
      PROVE  MacIsTheEeproms'
  BY <1>0, <1>14 DEF EngineRetires, adapter, localVars, macVars
<1>15. CASE ResetEnds
  BY <1>0, <1>15 DEF ResetEnds, adapter, localVars, macVars
<1>16. ASSUME NEW enable \in BOOLEAN, ReadMacCr(enable)
      PROVE  MacIsTheEeproms'
  BY <1>0, <1>16 DEF ReadMacCr, Go, adapter, macVars
<1>17. CASE WriteMacCr
  BY <1>0, <1>17 DEF WriteMacCr, Go, adapter, macVars
<1>18. CASE WriteMacCrFails
  BY <1>0, <1>18 DEF WriteMacCrFails, Go, adapter, macVars
<1>19. CASE Reattach
  BY <1>0, <1>19 DEF Reattach, Ends, adapter
<1>20. CASE UNCHANGED vars
  BY <1>0, <1>20 DEF vars, adapter, localVars, macVars
<1> QED
  BY <1>1, <1>2, <1>3, <1>4, <1>5, <1>6, <1>7, <1>8, <1>9, <1>10, <1>11, <1>12, <1>13,
     <1>14, <1>15, <1>16, <1>17, <1>18, <1>19, <1>20 DEF Next, Start

-----------------------------------------------------------------------------
(* The chip.                                                               *)

(* While the address stays, so do the writes.                              *)
LEMMA SameWrites ==
  ASSUME macAddress' = macAddress
  PROVE  InitWrites' = InitWrites
BY DEF InitWrites, AddressWrites, ModeWrites, DatapathWrites, FullMacCr, W

(* ... and what has been written of them, as long as nothing is.           *)
LEMMA WrittenStays ==
  ASSUME macAddress' = macAddress, regs' = regs, at' = at
  PROVE  /\ Written(at) => Written(at)'
         /\ Written(1) => Written(1)'
BY SameWrites DEF Written

(* The next write takes effect, and of a register only the last one is     *)
(* left.                                                                   *)
LEMMA WriteTakesEffect ==
  ASSUME IInv, WriteNext
  PROVE  Written(at)' /\ at' = at + 1 /\ at \in 1 .. Len(InitWrites)
<1> DEFINE w == InitWrites[at]
<1>1. /\ pc = "write" /\ ~resetting /\ Written(at)
      /\ macAddress' = macAddress /\ at' = at + 1
  BY DEF IInv, ChipFollows, WriteNext, macVars
<1>2. at \in 1 .. Len(InitWrites) /\ Len(InitWrites) = 18
  BY WriteInTurn
<1>3. regs' = [r \in DOMAIN regs \cup {w.reg} |-> IF r = w.reg THEN w.val ELSE regs[r]]
  BY <1>1 DEF WriteNext
<1>4. InitWrites' = InitWrites
  BY <1>1, SameWrites
<1> HIDE DEF w
<1>5. DOMAIN regs' = {InitWrites[i].reg : i \in 1 .. at}
  BY <1>1, <1>2, <1>3 DEF Written, w
<1>6. ASSUME NEW i \in 1 .. at,
             \A j \in i + 1 .. at : InitWrites[j].reg # InitWrites[i].reg
      PROVE  regs'[InitWrites[i].reg] = InitWrites[i].val
  <2>1. CASE i = at
    BY <1>3, <2>1 DEF w
  <2>2. CASE i # at
    <3>1. i \in 1 .. at - 1 /\ at \in i + 1 .. at
      BY <1>2, <1>6, <2>2
    <3>2. w.reg # InitWrites[i].reg
      BY <1>6, <3>1 DEF w
    <3>3. \A j \in i + 1 .. at - 1 : InitWrites[j].reg # InitWrites[i].reg
      BY <1>2, <1>6
    <3>4. InitWrites[i].reg \in DOMAIN regs /\ regs[InitWrites[i].reg] = InitWrites[i].val
      BY <1>1, <3>1, <3>3 DEF Written
    <3> QED
      BY <1>3, <3>2, <3>4
  <2> QED
    BY <2>1, <2>2
<1>7. at' - 1 = at
  BY <1>1, <1>2
<1>8. Written(at)'
  BY <1>4, <1>5, <1>6, <1>7 DEF Written
<1> QED
  BY <1>1, <1>2, <1>8

(* Every step keeps the chip in step with the sequence.                    *)
LEMMA ChipStep ==
  ASSUME IInv, [Next]_vars
  PROVE  ChipFollows'
<1> USE DEF ChipFollows
<1>0. EngineTyped /\ ChipTyped /\ LocalsTyped /\ Places /\ ChipFollows
  BY TypeParts DEF IInv
<1>a. /\ BmsrRead = 3 /\ SigRead = 4 /\ MacRead = 5 /\ LastRead = MacLen + 4
      /\ MacLen \in Nat /\ MacLen >= 1
  BY Reads
<1>b. Len(InitWrites) = 18 /\ Len(InitWrites)' = 18
  BY InitWritesShape, InitWritesShapeNext DEF Shape
<1>1. CASE PollIdle
  BY <1>0, WrittenStays, <1>1 DEF PollIdle, Poll, Fail, Ends, chipVars, macVars
<1>2. CASE Command
  BY <1>0, WrittenStays, <1>2 DEF Command, Go, chipVars, macVars
<1>3. CASE PollRetired
  BY <1>0, WrittenStays, <1>3 DEF PollRetired, Poll, Fail, Ends, chipVars, macVars
<1>4. CASE ReadPhy
  BY <1>0, WrittenStays, <1>4 DEF ReadPhy, NextRead, Fail, Ends, chipVars, macVars
<1>5. CASE CheckAutoload
  BY <1>0, WrittenStays, <1>5 DEF CheckAutoload, Go, Fail, Ends, chipVars, macVars
<1>6. CASE ReadSignature
  BY <1>0, WrittenStays, <1>6 DEF ReadSignature, NextRead, Fail, Ends, chipVars, macVars
<1>7. CASE ReadMacByte
  BY <1>0, WrittenStays, <1>7 DEF ReadMacByte, NextRead, Go, Fail, Ends, chipVars, macVars
<1>8. CASE WriteReset
  <2>1. DOMAIN regs' = {} /\ 1 .. 1 - 1 = {}
    BY <1>8 DEF WriteReset
  <2> QED
    BY <1>0, <1>8, <2>1 DEF WriteReset, Written
<1>9. CASE PollReset
  <2>1. /\ pc = "resetPoll" /\ at = 1 /\ Written(at)
        /\ UNCHANGED <<regs, macAddress, pmCtrl, resetting>>
    BY <1>0, <1>9 DEF PollReset, Places, chipVars, macVars
  <2>2. \/ pc' = "write" /\ at' = at /\ ~resetting
        \/ pc' = "resetPoll" /\ at' = at
        \/ pc' = "failed"
    BY <2>1, <1>9 DEF PollReset, Poll, Fail, Ends
  <2>3. at' = at => Written(at)' /\ Written(1)'
    BY <1>0, <2>1, WrittenStays
  <2> QED
    BY <1>0, <2>1, <2>2, <2>3
<1>10. CASE WriteNext
  <2>1. Written(at)' /\ ~resetting /\ pc' \in {"write", "pmRead"}
    BY <1>0, <1>10, WriteTakesEffect DEF WriteNext
  <2> QED
    BY <1>0, <1>10, <2>1 DEF WriteNext
<1>11. CASE ReadPmCtrl
  BY <1>0, WrittenStays, <1>11 DEF ReadPmCtrl, chipVars, macVars
<1>12. CASE WritePmCtrl
  BY <1>0, WrittenStays, <1>12 DEF WritePmCtrl, Ends, macVars
<1>13. CASE AccessFails
  BY <1>0, WrittenStays, <1>13 DEF AccessFails, Fail, Ends, chipVars, macVars
<1>14. ASSUME NEW e \in Engines, EngineRetires(e)
      PROVE  ChipFollows'
  BY <1>0, WrittenStays, <1>14 DEF EngineRetires, chipVars, localVars, macVars
<1>15. CASE ResetEnds
  BY <1>0, WrittenStays, <1>15 DEF ResetEnds, localVars, macVars
<1>16. ASSUME NEW enable \in BOOLEAN, ReadMacCr(enable)
      PROVE  ChipFollows'
  BY <1>0, WrittenStays, <1>16 DEF ReadMacCr, PromiscuousCr, chipVars, Go, macVars
<1>17. CASE WriteMacCr
  BY <1>0, WrittenStays, <1>17 DEF WriteMacCr, Go, macVars
<1>18. CASE WriteMacCrFails
  BY <1>0, WrittenStays, <1>18 DEF WriteMacCrFails, chipVars, Go, macVars
<1>19. CASE Reattach
  BY <1>0, WrittenStays, <1>19 DEF Reattach, Ends, chipVars
<1>20. CASE UNCHANGED vars
  BY <1>0, WrittenStays, <1>20 DEF vars, chipVars, localVars, macVars
<1> QED
  BY <1>1, <1>2, <1>3, <1>4, <1>5, <1>6, <1>7, <1>8, <1>9, <1>10, <1>11, <1>12, <1>13,
     <1>14, <1>15, <1>16, <1>17, <1>18, <1>19, <1>20 DEF Next, Start

(* The last write done, the chip is configured.                            *)
LEMMA WrittenIsConfigured ==
  ASSUME Written(Len(InitWrites) + 1), TypeOK, NEW i \in DOMAIN InitWrites,
         \A j \in i + 1 .. Len(InitWrites) : InitWrites[j].reg # InitWrites[i].reg
  PROVE  IF InitWrites[i].reg = "MAC_CR"
         THEN regs["MAC_CR"] \ {"PRMS"} = InitWrites[i].val
         ELSE regs[InitWrites[i].reg] = InitWrites[i].val
<1>1. Len(InitWrites) = 18 /\ DOMAIN InitWrites = 1 .. 18 /\ Plain(InitWrites[i])
  BY InitWritesShape DEF Shape
<1>2. regs[InitWrites[i].reg] = InitWrites[i].val
  BY <1>1 DEF Written
<1> QED
  BY <1>1, <1>2 DEF Plain

(* Every step leaves a chip that is up configured.                         *)
LEMMA UpStep ==
  ASSUME IInv, [Next]_vars
  PROVE  UpIsConfigured'
<1> USE DEF UpIsConfigured
<1>0. EngineTyped /\ ChipTyped /\ LocalsTyped /\ Places /\ ChipFollows /\ UpIsConfigured
  BY TypeParts DEF IInv
<1>c. ASSUME macAddress' = macAddress
      PROVE  InitWrites' = InitWrites /\ RegNames' = RegNames
  BY <1>c, SameWrites DEF RegNames
<1>1. CASE PollIdle
  BY <1>0, <1>1 DEF PollIdle, Poll, Fail, Ends, chipVars, macVars
<1>2. CASE Command
  BY <1>0, <1>2 DEF Command, Go, chipVars, macVars
<1>3. CASE PollRetired
  BY <1>0, <1>3 DEF PollRetired, Poll, Fail, Ends, chipVars, macVars
<1>4. CASE ReadPhy
  BY <1>0, <1>4 DEF ReadPhy, NextRead, Fail, Ends, chipVars, macVars
<1>5. CASE CheckAutoload
  BY <1>0, <1>5 DEF CheckAutoload, Go, Fail, Ends, chipVars, macVars
<1>6. CASE ReadSignature
  BY <1>0, <1>6 DEF ReadSignature, NextRead, Fail, Ends, chipVars, macVars
<1>7. CASE ReadMacByte
  BY <1>0, <1>7 DEF ReadMacByte, NextRead, Go, Fail, Ends, chipVars, macVars
<1>8. CASE WriteReset
  BY <1>0, <1>8 DEF WriteReset, macVars
<1>9. CASE PollReset
  BY <1>0, <1>9 DEF PollReset, Poll, Fail, Ends, chipVars, macVars
<1>10. CASE WriteNext
  BY <1>0, <1>10 DEF WriteNext, macVars
<1>11. CASE ReadPmCtrl
  BY <1>0, <1>11 DEF ReadPmCtrl, chipVars, macVars
<1>12. CASE WritePmCtrl
  <2>1. /\ Written(Len(InitWrites) + 1) /\ "DEVICE" \in pm /\ TypeOK
        /\ macAddress' = macAddress /\ regs' = regs
    BY <1>0, <1>12, TypeParts DEF WritePmCtrl, ChipFollows, Places, macVars
  <2>2. DOMAIN regs = RegNames
    BY <2>1, InitWritesShape DEF Written, RegNames, Shape
  <2>3. {"DEVICE", "PHY_RST"} \subseteq pmCtrl'
    BY <2>1, <1>12 DEF WritePmCtrl
  <2> QED
    BY <1>c, <2>1, <2>2, <2>3, WrittenIsConfigured
<1>13. CASE AccessFails
  BY <1>0, <1>13 DEF AccessFails, Fail, Ends, chipVars, macVars
<1>14. ASSUME NEW e \in Engines, EngineRetires(e)
      PROVE  UpIsConfigured'
  <2>1. UNCHANGED <<macAddress, regs, pmCtrl>> /\ pc' = pc
    BY <1>14 DEF EngineRetires, chipVars, localVars, macVars
  <2> QED
    BY <1>0, <1>c, <2>1
<1>15. CASE ResetEnds
  <2>1. UNCHANGED <<macAddress, regs, pmCtrl>> /\ pc' = pc
    BY <1>15 DEF ResetEnds, localVars, macVars
  <2> QED
    BY <1>0, <1>c, <2>1
<1>16. ASSUME NEW enable \in BOOLEAN, ReadMacCr(enable)
      PROVE  UpIsConfigured'
  <2>1. pc = "up" /\ UNCHANGED <<macAddress, regs, pmCtrl>>
    BY <1>16 DEF ReadMacCr, chipVars
  <2> QED
    BY <1>0, <1>c, <2>1
<1>17. CASE WriteMacCr
  <2>1. /\ pc = "crWrite" /\ UNCHANGED <<macAddress, pmCtrl>>
        /\ regs' = [regs EXCEPT !["MAC_CR"] = newCr]
    BY <1>17 DEF WriteMacCr
  <2>2. DOMAIN regs' = RegNames
    BY <1>0, <2>1
  <2>3. newCr \ {"PRMS"} = regs["MAC_CR"] \ {"PRMS"}
    BY <1>0, <2>1 DEF ChipFollows
  <2>4. ASSUME NEW i \in DOMAIN InitWrites,
               \A j \in i + 1 .. Len(InitWrites) : InitWrites[j].reg # InitWrites[i].reg
        PROVE  IF InitWrites[i].reg = "MAC_CR"
               THEN regs'["MAC_CR"] \ {"PRMS"} = InitWrites[i].val
               ELSE regs'[InitWrites[i].reg] = InitWrites[i].val
    <3>1. InitWrites[i].reg \in DOMAIN regs
      BY <1>0, <2>1 DEF RegNames
    <3>2. IF InitWrites[i].reg = "MAC_CR"
          THEN regs["MAC_CR"] \ {"PRMS"} = InitWrites[i].val
          ELSE regs[InitWrites[i].reg] = InitWrites[i].val
      BY <1>0, <2>1, <2>4
    <3> QED
      BY <2>1, <2>3, <3>1, <3>2
  <2> QED
    BY <1>0, <1>c, <2>1, <2>2, <2>4
<1>18. CASE WriteMacCrFails
  <2>1. pc = "crWrite" /\ UNCHANGED <<macAddress, regs, pmCtrl>>
    BY <1>18 DEF WriteMacCrFails, chipVars
  <2> QED
    BY <1>0, <1>c, <2>1
<1>19. CASE Reattach
  BY <1>0, <1>19 DEF Reattach, Ends, chipVars
<1>20. CASE UNCHANGED vars
  <2>1. UNCHANGED <<macAddress, regs, pmCtrl>> /\ pc' = pc
    BY <1>20 DEF vars, chipVars, localVars, macVars
  <2> QED
    BY <1>0, <1>c, <2>1
<1> QED
  BY <1>1, <1>2, <1>3, <1>4, <1>5, <1>6, <1>7, <1>8, <1>9, <1>10, <1>11, <1>12, <1>13,
     <1>14, <1>15, <1>16, <1>17, <1>18, <1>19, <1>20 DEF Next, Start

-----------------------------------------------------------------------------
(* The theorems.                                                           *)

(* A chip powered on, a Start that begins.                                 *)
LEMMA InitInv == Init => IInv
<1> SUFFICES ASSUME Init
             PROVE  IInv
  OBVIOUS
<1>1. EngineTyped
  <2>1. command \in [mii : 1 .. BmsrRead, e2p : 0 .. MacLen]
    BY Reads DEF Init
  <2>2. data \in [mii : BOOLEAN, e2p : 0 .. 255]
    BY DEF Init
  <2>3. busy \in [Engines -> BOOLEAN] /\ timedOut \in BOOLEAN
    BY DEF Init
  <2> QED
    BY <2>1, <2>2, <2>3 DEF EngineTyped
<1>2. ChipTyped
  <2>1. NoAddress \in Seq(0 .. 255)
    BY Reads, SeqDef DEF NoAddress
  <2> QED
    BY <2>1 DEF Init, ChipTyped
<1>3. LocalsTyped
  <2>1. at \in 1 .. LastRead /\ polls \in 0 .. Polls - 1 /\ mac \in Seq(0 .. 255)
    BY Reads, BringUpAssumption DEF Init
  <2> QED
    BY <2>1, Reads DEF Init, LocalsTyped, Working
<1>4. Places /\ EngineOwned /\ GatesPassed
  BY Reads DEF Init, Places, EngineOwned, GatesPassed, Reading, Initialising
<1>5. ChipFollows /\ MacIsTheEeproms /\ UpIsConfigured
  BY DEF Init, ChipFollows, MacIsTheEeproms, UpIsConfigured
<1> QED
  BY <1>1, <1>2, <1>3, <1>4, <1>5, TypeParts DEF IInv

(* Every reachable state satisfies the inductive invariant.                *)
THEOREM Invariance == Spec => []IInv
<1>1. ASSUME IInv, [Next]_vars
      PROVE  IInv'
  <2>1. EngineTyped' /\ ChipTyped' /\ LocalsTyped'
    BY <1>1, EngineTypedStep, ChipTypedStep, LocalsTypedStep
  <2>2. TypeOK'
    BY <2>1, Zenon DEF TypeOK, EngineTyped, ChipTyped, LocalsTyped
  <2>3. Places' /\ EngineOwned' /\ GatesPassed' /\ ChipFollows'
    BY <1>1, PlacesStep, EngineStep, GatesStep, ChipStep
  <2>4. MacIsTheEeproms' /\ UpIsConfigured'
    BY <1>1, MacStep, UpStep
  <2> QED
    BY <2>2, <2>3, <2>4 DEF IInv
<1> QED
  BY <1>1, InitInv, PTL DEF Spec

(* Type correctness; with it no poll outlives its bound.                   *)
THEOREM TypeCorrect == Spec => []TypeOK
<1>1. IInv => TypeOK
  BY DEF IInv
<1> QED
  BY <1>1, Invariance, PTL

(* The station address is the EEPROM's own, byte for byte, behind every    *)
(* provenance check.                                                       *)
THEOREM OnlyTheEepromsMac == Spec => []MacIsTheEeproms
<1>1. IInv => MacIsTheEeproms
  BY DEF IInv
<1> QED
  BY <1>1, Invariance, PTL

(* No adapter whose PHY can negotiate is initialised.                      *)
THEOREM AutonegIsLeftAlone == Spec => []AutonegUnclaimed
<1>1. IInv => AutonegUnclaimed
  BY DEF IInv, GatesPassed, Initialising, AutonegUnclaimed
<1> QED
  BY <1>1, Invariance, PTL

(* A chip that is up has the whole sequence in its registers.              *)
THEOREM ConfiguredWhenUp == Spec => []UpIsConfigured
<1>1. IInv => UpIsConfigured
  BY DEF IInv
<1> QED
  BY <1>1, Invariance, PTL
===============================================================================
