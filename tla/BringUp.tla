------------------------------- MODULE BringUp -------------------------------
(***************************************************************************)
(* Start's conversation with the chip: the PHY reads through the MII       *)
(* engine, the station address through the EEPROM engine and the gates it  *)
(* has to pass, and the initialisation sequence (miiRead and Start in      *)
(* SMSC95xxDriver.cpp, smsc95xx_init.c), with setPromiscuousModeEnable's   *)
(* read-modify-write afterwards.                                           *)
(*                                                                         *)
(* One step per register access.  The chip acts between them: an engine    *)
(* takes its time over a command, the lite reset clears its own bit.  Any  *)
(* access can fail, and the driver can be started again on a chip that an  *)
(* earlier attempt left half way.                                          *)
(***************************************************************************)
EXTENDS Naturals, Sequences, FiniteSets

CONSTANTS MacLen,   \* SMSC95XX_MAC_LEN
          LowLen,   \* how many bytes of the address ADDRL holds
          Eeproms,  \* what the adapters' EEPROMs hold, from address 0
          Polls     \* POLL_ATTEMPTS and SMSC95XX_INIT_*_POLLS

ASSUME BringUpAssumption ==
  /\ LowLen \in Nat /\ MacLen \in Nat /\ LowLen < MacLen
  /\ Eeproms \subseteq [0 .. MacLen -> 0 .. 255]
  /\ Polls \in Nat \ {0}

Signature == 165   \* SMSC95XX_EEPROM_SIGNATURE

PhyRegs == <<"PHYID1", "PHYID2", "BMSR">>

(* The reads of Start in order: the three PHY registers, then the EEPROM's *)
(* signature and the bytes of the address.                                 *)
BmsrRead  == Len(PhyRegs)
SigRead   == BmsrRead + 1
MacRead   == SigRead + 1
LastRead  == SigRead + MacLen

VARIABLES
  eeprom, e2pLoaded, phyAutoneg,   \* the adapter; of a PHY register its bit 3
  busy, command, data, timedOut,   \* the two engines
  resetting, regs, pmCtrl,         \* the chip's registers
  pc, at, polls, mac, pm,          \* Start's locals
  macValid, macAddress,            \* ivars
  newCr                            \* setPromiscuousModeEnable's local

adapter    == <<eeprom, e2pLoaded, phyAutoneg>>
engineVars == <<busy, command, data, timedOut>>
chipVars   == <<resetting, regs, pmCtrl>>
localVars  == <<pc, at, polls, mac, pm>>
macVars    == <<macValid, macAddress, newCr>>
vars == <<adapter, engineVars, chipVars, localVars, macVars>>

Engines == {"mii", "e2p"}

Engine == IF at <= BmsrRead THEN "mii" ELSE "e2p"

Address == IF at <= BmsrRead THEN at ELSE at - SigRead

Working == {"idlePoll", "command", "poll", "data", "autoload", "reset", "resetPoll",
            "write", "pmRead", "pmWrite"}

(* The ivars are allocated zeroed.                                         *)
NoAddress == [i \in 1 .. MacLen |-> 0]

(* After a power-on: Start has its control buffer and begins.              *)
Init ==
  /\ eeprom \in Eeproms
  /\ e2pLoaded \in BOOLEAN
  /\ phyAutoneg \in [1 .. BmsrRead -> BOOLEAN]
  /\ busy = [e \in Engines |-> FALSE]
  /\ command = [mii |-> 1, e2p |-> 0]
  /\ data = [mii |-> FALSE, e2p |-> 0]
  /\ timedOut = FALSE
  /\ resetting = FALSE /\ pmCtrl = {"DEVICE"}
  /\ regs = [r \in {} |-> <<>>]
  /\ pc = "idlePoll" /\ at = 1 /\ polls = 0 /\ mac = <<>> /\ pm = {}
  /\ macValid = FALSE /\ macAddress = NoAddress /\ newCr = {}

-----------------------------------------------------------------------------
(* The chip.                                                               *)

(* A command retires with its datum, or with TIMEOUT when no EEPROM        *)
(* answers; the data register then keeps what it held.                     *)
EngineRetires(e) ==
  /\ busy[e]
  /\ busy' = [busy EXCEPT ![e] = FALSE]
  /\ \/ /\ data' = [data EXCEPT ![e] = IF e = "mii" THEN phyAutoneg[command[e]]
                                                     ELSE eeprom[command[e]]]
        /\ UNCHANGED timedOut
     \/ e = "e2p" /\ timedOut' = TRUE /\ UNCHANGED data
  /\ UNCHANGED <<adapter, command, chipVars, localVars, macVars>>

ResetEnds ==
  /\ resetting
  /\ resetting' = FALSE
  /\ UNCHANGED <<adapter, engineVars, regs, pmCtrl, localVars, macVars>>

-----------------------------------------------------------------------------
(* One read through an engine: wait_clear and miiRead, smsc95xx_eeprom_read.*)

Go(next) == pc' = next /\ UNCHANGED <<at, polls, mac, pm>>

(* Start returns, and its locals with it.                                  *)
Ends(result) == pc' = result /\ at' = 1 /\ polls' = 0 /\ mac' = <<>> /\ pm' = {}

Fail == Ends("failed")

(* A poll that gives up only when the chip does.                           *)
PollUnbounded(isBusy, next) ==
  \/ ~isBusy /\ pc' = next /\ polls' = 0 /\ UNCHANGED <<at, mac, pm>>
  \/ isBusy /\ UNCHANGED localVars

(* One that does not look.                                                 *)
PollNever(isBusy, next) == Go(next)

(* One status read too many.                                               *)
PollOneMore(isBusy, next) ==
  \/ ~isBusy /\ pc' = next /\ polls' = 0 /\ UNCHANGED <<at, mac, pm>>
  \/ isBusy /\ polls < Polls /\ polls' = polls + 1 /\ UNCHANGED <<pc, at, mac, pm>>
  \/ isBusy /\ polls >= Polls /\ Fail

(* At most Polls reads of the status, each of which may find it clear.     *)
Poll(isBusy, next) ==
  \/ ~isBusy /\ pc' = next /\ polls' = 0 /\ UNCHANGED <<at, mac, pm>>
  \/ isBusy /\ polls + 1 < Polls /\ polls' = polls + 1 /\ UNCHANGED <<pc, at, mac, pm>>
  \/ isBusy /\ polls + 1 >= Polls /\ Fail

PollIdle ==
  /\ pc = "idlePoll"
  /\ Poll(busy[Engine], "command")
  /\ UNCHANGED <<adapter, engineVars, chipVars, macVars>>

(* An engine that is still busy does not take the command.                 *)
Command ==
  /\ pc = "command"
  /\ Go("poll")
  /\ IF busy[Engine]
     THEN UNCHANGED engineVars
     ELSE /\ busy' = [busy EXCEPT ![Engine] = TRUE]
          /\ command' = [command EXCEPT ![Engine] = Address]
          /\ timedOut' = (timedOut /\ Engine # "e2p")
          /\ UNCHANGED data
  /\ UNCHANGED <<adapter, chipVars, macVars>>

(* TIMEOUT in the status that ends the poll.                               *)
NoEeprom == Engine = "e2p" /\ ~busy["e2p"] /\ timedOut

(* The datum fetched as soon as the command is written.                    *)
PollRetiredSkipped ==
  /\ pc = "poll"
  /\ Go("data")
  /\ UNCHANGED <<adapter, engineVars, chipVars, macVars>>

PollRetired ==
  /\ pc = "poll"
  /\ \/ ~NoEeprom /\ Poll(busy[Engine], "data")
     \/ NoEeprom /\ Fail
  /\ UNCHANGED <<adapter, engineVars, chipVars, macVars>>

-----------------------------------------------------------------------------
(* What Start does with the datum.                                         *)

Plausible(m) ==
  /\ \E i \in DOMAIN m : m[i] # 0
  /\ \E i \in DOMAIN m : m[i] # 255
  /\ m[1] % 2 = 0

NextRead(first) == at' = at + 1 /\ pc' = first /\ UNCHANGED <<polls, pm>>

ReadPhy ==
  /\ pc = "data" /\ at <= BmsrRead
  /\ \/ at < BmsrRead /\ NextRead("idlePoll") /\ UNCHANGED mac
     \/ at = BmsrRead /\ ~data.mii /\ NextRead("autoload") /\ UNCHANGED mac
     \/ at = BmsrRead /\ data.mii /\ Fail
  /\ UNCHANGED <<adapter, engineVars, chipVars, macVars>>

CheckAutoload ==
  /\ pc = "autoload"
  /\ \/ e2pLoaded /\ Go("idlePoll")
     \/ ~e2pLoaded /\ Fail
  /\ UNCHANGED <<adapter, engineVars, chipVars, macVars>>

ReadSignature ==
  /\ pc = "data" /\ at = SigRead
  /\ \/ data.e2p = Signature /\ NextRead("idlePoll") /\ UNCHANGED mac
     \/ data.e2p # Signature /\ Fail
  /\ UNCHANGED <<adapter, engineVars, chipVars, macVars>>

(* The bytes of one smsc95xx_eeprom_read follow each other without an idle *)
(* poll; only a whole address that looks like one is believed.             *)
ReadMacByte ==
  LET read == Append(mac, data.e2p)
  IN  /\ pc = "data" /\ at >= MacRead
      /\ \/ at < LastRead /\ NextRead("command") /\ mac' = read /\ UNCHANGED macVars
         \/ /\ at = LastRead /\ Plausible(read)
            /\ macValid' = TRUE /\ macAddress' = read /\ UNCHANGED newCr
            /\ Go("reset")
         \/ at = LastRead /\ ~Plausible(read) /\ Fail /\ UNCHANGED macVars
      /\ UNCHANGED <<adapter, engineVars, chipVars>>

-----------------------------------------------------------------------------
(* smsc95xx_init_seq.                                                      *)

W(r, v) == [reg |-> r, val |-> v]

AddressWrites == <<W("ADDRL", SubSeq(macAddress, 1, LowLen)),
                   W("ADDRH", SubSeq(macAddress, LowLen + 1, MacLen))>>

ModeWrites == <<
  W("HW_CFG", <<"INIT_1">>), W("BURST_CAP", <<"INIT">>), W("BULK_IN_DLY", <<"INIT">>),
  W("HW_CFG", <<"INIT_2">>), W("INT_STS", <<"CLEAR_ALL">>), W("LED_GPIO_CFG", <<"INIT">>),
  W("FLOW", <<"0">>), W("AFC_CFG", <<"INIT">>), W("VLAN1", <<"INIT">>),
  W("HASHH", <<"0">>), W("HASHL", <<"0">>)>>

FullMacCr == {"TXEN", "RXEN", "RCVOWN"}

(* The transmitter, then its datapath, then the receiver.                  *)
DatapathWrites == <<
  W("MAC_CR", {}), W("MAC_CR", {"TXEN"}), W("TX_CFG", <<"ON">>), W("MAC_CR", FullMacCr),
  W("AFC_CFG", <<"INIT", "HALF_DUPLEX">>)>>

InitWrites == AddressWrites \o ModeWrites \o DatapathWrites

(* The lite reset brings every register back to its default, the power     *)
(* control register aside.                                                 *)
WriteReset ==
  /\ pc = "reset"
  /\ pc' = "resetPoll" /\ at' = 1 /\ mac' = <<>>
  /\ resetting' = TRUE /\ regs' = [r \in {} |-> <<>>]
  /\ UNCHANGED <<adapter, engineVars, pmCtrl, polls, pm, macVars>>

PollReset ==
  /\ pc = "resetPoll"
  /\ Poll(resetting, "write")
  /\ UNCHANGED <<adapter, engineVars, chipVars, macVars>>

(* A write to a chip still in its reset is lost.                           *)
WriteNext ==
  LET w == InitWrites[at]
  IN  /\ pc = "write"
      /\ regs' = IF resetting THEN regs
                 ELSE [r \in DOMAIN regs \cup {w.reg} |-> IF r = w.reg THEN w.val ELSE regs[r]]
      /\ at' = at + 1
      /\ pc' = IF at = Len(InitWrites) THEN "pmRead" ELSE "write"
      /\ UNCHANGED <<adapter, engineVars, resetting, pmCtrl, polls, mac, pm, macVars>>

ReadPmCtrl ==
  /\ pc = "pmRead"
  /\ pc' = "pmWrite" /\ pm' = pmCtrl
  /\ UNCHANGED <<adapter, engineVars, chipVars, at, polls, mac, macVars>>

WritePmCtrl ==
  /\ pc = "pmWrite"
  /\ Ends("up")
  /\ pmCtrl' = pm \cup {"PHY_RST"}
  /\ UNCHANGED <<adapter, engineVars, resetting, regs, macVars>>

-----------------------------------------------------------------------------
(* setPromiscuousModeEnable, on a chip that is up.                         *)

(* A PRMS write that forgets the bits around it.                           *)
PromiscuousAlone(enable) == IF enable THEN {"PRMS"} ELSE {}

PromiscuousCr(enable) ==
  IF enable THEN regs["MAC_CR"] \cup {"PRMS"} ELSE regs["MAC_CR"] \ {"PRMS"}

(* When the bit is as it should be, or the read fails, the call returns.   *)
ReadMacCr(enable) ==
  /\ pc = "up"
  /\ PromiscuousCr(enable) # regs["MAC_CR"]
  /\ Go("crWrite")
  /\ newCr' = PromiscuousCr(enable)
  /\ UNCHANGED <<adapter, engineVars, chipVars, macValid, macAddress>>

WriteMacCr ==
  /\ pc = "crWrite"
  /\ Go("up")
  /\ regs' = [regs EXCEPT !["MAC_CR"] = newCr]
  /\ newCr' = {}
  /\ UNCHANGED <<adapter, engineVars, resetting, pmCtrl, macValid, macAddress>>

WriteMacCrFails ==
  /\ pc = "crWrite"
  /\ Go("up")
  /\ newCr' = {}
  /\ UNCHANGED <<adapter, engineVars, chipVars, macValid, macAddress>>

-----------------------------------------------------------------------------

(* Any register access of Start's can fail, and fails Start.               *)
AccessFails ==
  /\ pc \in Working
  /\ Fail
  /\ UNCHANGED <<adapter, engineVars, chipVars, macVars>>

(* A new driver instance is started on the chip as it is.                  *)
Reattach ==
  /\ pc \in {"up", "crWrite", "failed"}
  /\ Ends("idlePoll")
  /\ macValid' = FALSE /\ macAddress' = NoAddress /\ newCr' = {}
  /\ UNCHANGED <<adapter, engineVars, chipVars>>

Start ==
  \/ PollIdle \/ Command \/ PollRetired
  \/ ReadPhy \/ CheckAutoload \/ ReadSignature \/ ReadMacByte
  \/ WriteReset \/ PollReset \/ WriteNext \/ ReadPmCtrl \/ WritePmCtrl

Next ==
  \/ Start
  \/ AccessFails
  \/ \E e \in Engines : EngineRetires(e)
  \/ ResetEnds
  \/ \E enable \in BOOLEAN : ReadMacCr(enable)
  \/ WriteMacCr
  \/ WriteMacCrFails
  \/ Reattach

Spec == Init /\ [][Next]_vars

(* Start's thread runs on, without counting on an access to fail.  Nothing *)
(* is asked of the chip.                                                   *)
FairSpec == Spec /\ WF_vars(Start)

-----------------------------------------------------------------------------

RegNames == {InitWrites[i].reg : i \in DOMAIN InitWrites}

TypeOK ==
  /\ eeprom \in Eeproms /\ e2pLoaded \in BOOLEAN
  /\ phyAutoneg \in [1 .. BmsrRead -> BOOLEAN]
  /\ busy \in [Engines -> BOOLEAN] /\ timedOut \in BOOLEAN
  /\ command \in [mii : 1 .. BmsrRead, e2p : 0 .. MacLen]
  /\ data \in [mii : BOOLEAN, e2p : 0 .. 255]
  /\ resetting \in BOOLEAN /\ DOMAIN regs \subseteq RegNames
  /\ pmCtrl \subseteq {"DEVICE", "PHY_RST"} /\ pm \subseteq pmCtrl
  /\ pc \in Working \cup {"up", "crWrite", "failed"}
  /\ at \in 1 .. LastRead \cup 1 .. Len(InitWrites) + 1 /\ polls \in 0 .. Polls - 1
  /\ mac \in Seq(0 .. 255) /\ Len(mac) <= MacLen
  /\ macValid \in BOOLEAN /\ macAddress \in Seq(0 .. 255)
  /\ pc = "crWrite" => newCr \subseteq regs["MAC_CR"] \cup {"PRMS"}

(* "ivars->macAddress can only hold a MAC that passed every provenance     *)
(* check" (Start), byte for byte the adapter's own: no byte of an earlier  *)
(* command, of an earlier attempt or of an engine that timed out.          *)
MacIsTheEeproms ==
  macValid => /\ e2pLoaded /\ eeprom[0] = Signature
              /\ macAddress = [i \in 1 .. MacLen |-> eeprom[i]]
              /\ Plausible(macAddress)

(* An adapter whose PHY can negotiate is never initialised (Start:         *)
(* "Leave it unclaimed rather than bringing up a link we cannot            *)
(* negotiate"), whatever the MII data register held before.                *)
AutonegUnclaimed ==
  pc \in {"autoload", "reset", "resetPoll", "write", "pmRead", "pmWrite", "up", "crWrite"} =>
    ~phyAutoneg[BmsrRead]

(* A chip that is up has every register as smsc95xx_init_seq leaves it,    *)
(* none of the writes lost to the reset, and keeps it through every        *)
(* promiscuous change, PRMS aside; the device's own bits of PM_CTRL stay.  *)
UpIsConfigured ==
  pc \in {"up", "crWrite"} =>
    /\ DOMAIN regs = RegNames
    /\ \A i \in DOMAIN InitWrites :
         (\A j \in i + 1 .. Len(InitWrites) : InitWrites[j].reg # InitWrites[i].reg) =>
           IF InitWrites[i].reg = "MAC_CR"
           THEN regs["MAC_CR"] \ {"PRMS"} = InitWrites[i].val
           ELSE regs[InitWrites[i].reg] = InitWrites[i].val
    /\ {"DEVICE", "PHY_RST"} \subseteq pmCtrl

(* However long the chip stays busy or in reset, Start ends (the poll      *)
(* bounds: "only keeps broken hardware from hanging the caller").          *)
BringUpEnds == pc \in Working ~> pc \in {"up", "failed"}
=============================================================================
