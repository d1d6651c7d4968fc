---------------------------- MODULE DeviceSessions ----------------------------
(***************************************************************************)
(* Who holds the adapter: SMSC95xxUSBDevice (the device nub, selects the   *)
(* configuration), SMSC95xxDriver (the interface) and the command line     *)
(* tool smsc95xx-probe (the device, and the interface for some commands).  *)
(*                                                                         *)
(* They are three processes: a step is one call into the USB family, and   *)
(* the calls of the three interleave.  The family keeps the sessions: a    *)
(* device and an interface have one opener each, and SET_CONFIGURATION     *)
(* creates the interface nodes the driver is matched to and terminates the *)
(* ones that exist.  A client that has ended may come again: a re-match, a *)
(* new version of the extension, another run of the tool.                  *)
(***************************************************************************)
EXTENDS Integers, FiniteSets

CONSTANT SessionFaults   \* the calls that may fail for a reason of their own

SessionFaultKinds == {"openFails", "lookFails", "configureFails", "pipesMissing"}

ASSUME SessionAssumption == SessionFaults \subseteq SessionFaultKinds

VARIABLES
  configured,        \* a configuration is selected and interface nodes exist
  deviceOpens,       \* the family's opener accounting of the device ...
  interfaceOpens,    \* ... and of its interface, per client
  chip,              \* whose init sequence the chip runs, or "reset"
  eepromEngine,      \* whose command E2P_DATA answers
  usbDevice,         \* where SMSC95xxUSBDevice is
  ivarsDevice,       \* its ivars->device is not null
  iteratorFailed,    \* history: its look for an interface failed
  driver,            \* where SMSC95xxDriver is
  interfaceOpened,
  probe, command,    \* where the tool is, in which subcommand
  iface,             \* its d->iface is not NULL
  mixed              \* history: the clients that read another's EEPROM byte

familyVars == <<deviceOpens, interfaceOpens>>
chipVars   == <<chip, eepromEngine, mixed>>
nubVars    == <<usbDevice, ivarsDevice, iteratorFailed>>
driverVars == <<driver, interfaceOpened>>
probeVars  == <<probe, command, iface>>
vars == <<configured, familyVars, chipVars, nubVars, driverVars, probeVars>>

Clients  == {"usbDevice", "driver", "probe"}
Commands == {"id", "eeprom", "init", "tx", "rx"}

TypeOK ==
  /\ configured \in BOOLEAN
  /\ deviceOpens \in [Clients -> 0 .. 1] /\ interfaceOpens \in [Clients -> 0 .. 1]
  /\ chip \in {"reset", "driver", "probe"}
  /\ eepromEngine \in {"nobody", "driver", "probe"} /\ mixed \subseteq Clients
  /\ usbDevice \in {"absent", "open", "look", "configure", "running", "failed"}
  /\ ivarsDevice \in BOOLEAN /\ iteratorFailed \in BOOLEAN
  /\ driver \in {"absent", "open", "read", "fetch", "reset", "configure", "running",
                 "failing", "severed"}
  /\ interfaceOpened \in BOOLEAN
  /\ probe \in {"absent", "open", "look", "configure", "read", "fetch", "claim", "claimed",
                "reset", "initialise", "bulk", "close"}
  /\ command \in Commands /\ iface \in BOOLEAN

(* macOS configures the device in some states and not in others.           *)
Init ==
  /\ configured \in BOOLEAN
  /\ deviceOpens = [c \in Clients |-> 0] /\ interfaceOpens = [c \in Clients |-> 0]
  /\ chip = "reset" /\ eepromEngine = "nobody" /\ mixed = {}
  /\ usbDevice = "absent" /\ ivarsDevice = FALSE /\ iteratorFailed = FALSE
  /\ driver = "absent" /\ interfaceOpened = FALSE
  /\ probe = "absent" /\ command = "id" /\ iface = FALSE

-----------------------------------------------------------------------------
(* The USB family.                                                         *)

NobodyHas(opens) == \A c \in Clients : opens[c] <= 0

Opened(opens, c) == [opens EXCEPT ![c] = @ + 1]

Closed(opens, c) == [opens EXCEPT ![c] = @ - 1]

(* Open is exclusive.                                                      *)
OpenSucceeds(opens) == NobodyHas(opens)
OpenFails(opens)    == ~NobodyHas(opens) \/ "openFails" \in SessionFaults

(* SetConfiguration(1): on a configured device it terminates the           *)
(* interfaces, and the driver matched to one with them.                    *)
SetConfiguration ==
  /\ configured' = TRUE
  /\ IF configured
     THEN /\ interfaceOpens' = [c \in Clients |-> 0]
          /\ driver' = IF driver = "absent" THEN "absent" ELSE "severed"
          /\ interfaceOpened' = FALSE
     ELSE UNCHANGED <<interfaceOpens, driverVars>>

-----------------------------------------------------------------------------
(* SMSC95xxUSBDevice.                                                      *)

(* Start: super, and the provider is a device.                             *)
NubStarts ==
  /\ usbDevice = "absent"
  /\ usbDevice' = "open" /\ ivarsDevice' = TRUE /\ iteratorFailed' = FALSE
  /\ UNCHANGED <<configured, familyVars, chipVars, driverVars, probeVars>>

NubOpens ==
  /\ usbDevice = "open" /\ OpenSucceeds(deviceOpens)
  /\ deviceOpens' = Opened(deviceOpens, "usbDevice")
  /\ usbDevice' = "look"
  /\ UNCHANGED <<configured, interfaceOpens, chipVars, ivarsDevice, iteratorFailed,
                 driverVars, probeVars>>

ForgetDeviceNever == UNCHANGED ivarsDevice

(* "Null before Stop: ivars->device non-null is what tells Stop to Close". *)
ForgetDevice == ivarsDevice' = FALSE

NubOpenFails ==
  /\ usbDevice = "open" /\ OpenFails(deviceOpens)
  /\ ForgetDevice
  /\ usbDevice' = "failed"
  /\ UNCHANGED <<configured, familyVars, chipVars, iteratorFailed, driverVars, probeVars>>

(* CopyFirstInterface: a configured device has an interface node.  A look  *)
(* that fails is taken for one that found none.                            *)
NubLooks ==
  /\ usbDevice = "look"
  /\ \/ /\ usbDevice' = IF configured THEN "running" ELSE "configure"
        /\ UNCHANGED iteratorFailed
     \/ /\ "lookFails" \in SessionFaults
        /\ usbDevice' = "configure" /\ iteratorFailed' = TRUE
  /\ UNCHANGED <<configured, familyVars, chipVars, ivarsDevice, driverVars, probeVars>>

NubConfigures ==
  /\ usbDevice = "configure"
  /\ SetConfiguration
  /\ usbDevice' = "running"
  /\ UNCHANGED <<deviceOpens, chipVars, ivarsDevice, iteratorFailed, probeVars>>

NubConfigureFails ==
  /\ usbDevice = "configure" /\ "configureFails" \in SessionFaults
  /\ deviceOpens' = Closed(deviceOpens, "usbDevice")
  /\ ForgetDevice
  /\ usbDevice' = "failed"
  /\ UNCHANGED <<configured, interfaceOpens, chipVars, iteratorFailed, driverVars, probeVars>>

(* Stop, also of a Start that failed.                                      *)
NubStops ==
  /\ usbDevice \in {"running", "failed"}
  /\ deviceOpens' = IF ivarsDevice THEN Closed(deviceOpens, "usbDevice") ELSE deviceOpens
  /\ ivarsDevice' = FALSE
  /\ usbDevice' = "absent"
  /\ UNCHANGED <<configured, interfaceOpens, chipVars, iteratorFailed, driverVars, probeVars>>

-----------------------------------------------------------------------------
(* SMSC95xxDriver, as the holder of the interface: see Lifecycle and       *)
(* BringUp for what it does with it.                                       *)

DriverMatches ==
  /\ driver = "absent" /\ configured
  /\ driver' = "open"
  /\ UNCHANGED <<configured, familyVars, chipVars, nubVars, interfaceOpened, probeVars>>

DriverOpens ==
  /\ driver = "open" /\ OpenSucceeds(interfaceOpens)
  /\ interfaceOpens' = Opened(interfaceOpens, "driver") /\ interfaceOpened' = TRUE
  /\ driver' = "read"
  /\ UNCHANGED <<configured, deviceOpens, chipVars, nubVars, probeVars>>

DriverOpenFails ==
  /\ driver = "open" /\ OpenFails(interfaceOpens)
  /\ driver' = "failing"
  /\ UNCHANGED <<configured, familyVars, chipVars, nubVars, interfaceOpened, probeVars>>

(* One byte of the EEPROM: the command, and when it has retired the data.  *)
IssuesCommand(c) == eepromEngine' = c /\ UNCHANGED <<chip, mixed>>

Fetches(c) ==
  /\ mixed' = IF eepromEngine = c THEN mixed ELSE mixed \cup {c}
  /\ UNCHANGED <<chip, eepromEngine>>

DriverCommands ==
  /\ driver = "read" /\ driver' = "fetch"
  /\ IssuesCommand("driver")
  /\ UNCHANGED <<configured, familyVars, nubVars, interfaceOpened, probeVars>>

(* The next byte, the end of the address, or a check it does not pass.     *)
DriverFetches ==
  /\ driver = "fetch" /\ driver' \in {"read", "reset", "failing"}
  /\ Fetches("driver")
  /\ UNCHANGED <<configured, familyVars, nubVars, interfaceOpened, probeVars>>

(* The init sequence: the lite reset, then the registers.                  *)
DriverResets ==
  /\ driver = "reset" /\ driver' = "configure"
  /\ chip' = "reset"
  /\ UNCHANGED <<configured, familyVars, eepromEngine, mixed, nubVars, interfaceOpened,
                 probeVars>>

DriverConfigures ==
  /\ driver = "configure" /\ driver' = "running"
  /\ chip' = "driver"
  /\ UNCHANGED <<configured, familyVars, eepromEngine, mixed, nubVars, interfaceOpened,
                 probeVars>>

(* An access that fails, before the reset or after.                        *)
DriverInitFails ==
  /\ driver \in {"reset", "configure"} /\ driver' = "failing"
  /\ UNCHANGED <<configured, familyVars, chipVars, nubVars, interfaceOpened, probeVars>>

(* Stop, the label fail, or the end of a terminated interface: the Close   *)
(* of ReleaseResources is for an interface that was opened.                *)
DriverStops ==
  /\ driver \in {"running", "failing", "severed"}
  /\ interfaceOpens' = IF interfaceOpened THEN Closed(interfaceOpens, "driver")
                       ELSE interfaceOpens
  /\ interfaceOpened' = FALSE
  /\ driver' = "absent"
  /\ UNCHANGED <<configured, deviceOpens, chipVars, nubVars, probeVars>>

-----------------------------------------------------------------------------
(* smsc95xx-probe.                                                         *)

ProbeRuns(c) ==
  /\ probe = "absent"
  /\ probe' = "open" /\ command' = c
  /\ UNCHANGED <<configured, familyVars, chipVars, nubVars, driverVars, iface>>

(* usb_open_id.                                                            *)
ProbeOpens ==
  /\ probe = "open" /\ OpenSucceeds(deviceOpens)
  /\ deviceOpens' = Opened(deviceOpens, "probe")
  /\ probe' = "look"
  /\ UNCHANGED <<configured, interfaceOpens, chipVars, nubVars, driverVars, command, iface>>

ProbeOpenFails ==
  /\ probe = "open" /\ OpenFails(deviceOpens)
  /\ probe' = "absent"
  /\ UNCHANGED <<configured, familyVars, chipVars, nubVars, driverVars, command, iface>>

(* A command reads the EEPROM, unless it is id or has the address from     *)
(* --mac; init, tx and rx then claim the interface.  Here phy is as id,    *)
(* and all as eeprom.                                                      *)
FirstStep == CASE command = "id"     -> {"close"}
               [] command = "eeprom" -> {"read"}
               [] OTHER              -> {"read", "claim"}

(* GetConfiguration, which may fail and then nothing is selected.          *)
ProbeLooks ==
  /\ probe = "look"
  /\ \/ ~configured /\ probe' = "configure"
     \/ /\ configured \/ "lookFails" \in SessionFaults
        /\ probe' \in FirstStep
  /\ UNCHANGED <<configured, familyVars, chipVars, nubVars, driverVars, command, iface>>

ProbeConfigures ==
  /\ probe = "configure"
  /\ SetConfiguration
  /\ probe' \in FirstStep
  /\ UNCHANGED <<deviceOpens, chipVars, nubVars, command, iface>>

ProbeConfigureFails ==
  /\ probe = "configure" /\ "configureFails" \in SessionFaults
  /\ deviceOpens' = Closed(deviceOpens, "probe")
  /\ probe' = "absent"
  /\ UNCHANGED <<configured, interfaceOpens, chipVars, nubVars, driverVars, command, iface>>

ProbeCommands ==
  /\ probe = "read" /\ probe' = "fetch"
  /\ IssuesCommand("probe")
  /\ UNCHANGED <<configured, familyVars, nubVars, driverVars, command, iface>>

ProbeFetches ==
  /\ probe = "fetch"
  /\ probe' \in {"read", "close"} \cup (IF command = "eeprom" THEN {} ELSE {"claim"})
  /\ Fetches("probe")
  /\ UNCHANGED <<configured, familyVars, nubVars, driverVars, command, iface>>

(* The control path needs no claim, so the sequence runs without one.      *)
ProbeClaimIgnored ==
  /\ probe = "claim" /\ probe' = "reset"
  /\ UNCHANGED <<interfaceOpens, iface>>

(* usb_claim_interface, before anything is written to the chip.            *)
ClaimInterface ==
  /\ probe = "claim" /\ configured /\ OpenSucceeds(interfaceOpens)
  /\ interfaceOpens' = Opened(interfaceOpens, "probe") /\ iface' = TRUE
  /\ probe' = "claimed"

ProbeClaims ==
  /\ ClaimInterface
  /\ UNCHANGED <<configured, deviceOpens, chipVars, nubVars, driverVars, command>>

(* No node, somebody has it; init refuses an autonegotiating adapter first.*)
ProbeClaimFails ==
  /\ probe = "claim"
  /\ ~configured \/ OpenFails(interfaceOpens) \/ command = "init"
  /\ probe' = "close"
  /\ UNCHANGED <<configured, familyVars, chipVars, nubVars, driverVars, command, iface>>

PutBackKeepsPointer ==
  /\ interfaceOpens' = Closed(interfaceOpens, "probe")
  /\ UNCHANGED iface

PutBack == interfaceOpens' = Closed(interfaceOpens, "probe") /\ iface' = FALSE

(* find_bulk_pipes: both, or the interface is put back.                    *)
ProbeFindsPipes ==
  /\ probe = "claimed" /\ probe' = "reset"
  /\ UNCHANGED <<configured, familyVars, chipVars, nubVars, driverVars, command, iface>>

ProbePutsBack ==
  /\ probe = "claimed" /\ "pipesMissing" \in SessionFaults
  /\ PutBack
  /\ probe' = "close"
  /\ UNCHANGED <<configured, deviceOpens, chipVars, nubVars, driverVars, command>>

ProbeResets ==
  /\ probe = "reset" /\ probe' = "initialise"
  /\ chip' = "reset"
  /\ UNCHANGED <<configured, familyVars, eepromEngine, mixed, nubVars, driverVars, command,
                 iface>>

ProbeInitialises ==
  /\ probe = "initialise"
  /\ chip' = "probe"
  /\ probe' = IF command = "init" THEN "close" ELSE "bulk"
  /\ UNCHANGED <<configured, familyVars, eepromEngine, mixed, nubVars, driverVars, command,
                 iface>>

(* The init sequence fails, or the bulk transfers of tx and rx are over.   *)
ProbeEnds ==
  /\ probe \in {"reset", "initialise", "bulk"} /\ probe' = "close"
  /\ UNCHANGED <<configured, familyVars, chipVars, nubVars, driverVars, command, iface>>

(* usb_close; or the tool is killed and the system closes what it held.    *)
ProbeCloses ==
  /\ probe \notin {"absent", "open"}
  /\ interfaceOpens' = IF iface THEN Closed(interfaceOpens, "probe") ELSE interfaceOpens
  /\ deviceOpens' = Closed(deviceOpens, "probe")
  /\ iface' = FALSE
  /\ probe' = "absent"
  /\ UNCHANGED <<configured, chipVars, nubVars, driverVars, command>>

-----------------------------------------------------------------------------
Nub    == \/ NubStarts \/ NubOpens \/ NubOpenFails \/ NubLooks
          \/ NubConfigures \/ NubConfigureFails \/ NubStops
Driver == \/ DriverMatches \/ DriverOpens \/ DriverOpenFails
          \/ DriverCommands \/ DriverFetches \/ DriverResets
          \/ DriverConfigures \/ DriverInitFails \/ DriverStops
Probe  == \/ \E c \in Commands : ProbeRuns(c)
          \/ ProbeOpens \/ ProbeOpenFails \/ ProbeLooks
          \/ ProbeConfigures \/ ProbeConfigureFails
          \/ ProbeCommands \/ ProbeFetches
          \/ ProbeClaims \/ ProbeClaimFails \/ ProbeFindsPipes \/ ProbePutsBack
          \/ ProbeResets \/ ProbeInitialises \/ ProbeEnds \/ ProbeCloses

Next == Nub \/ Driver \/ Probe

Spec == Init /\ [][Next]_vars

-----------------------------------------------------------------------------
(* Properties.                                                             *)

HasDevice    == {c \in Clients : deviceOpens[c] # 0}
HasInterface == {c \in Clients : interfaceOpens[c] # 0}

(* Every Close answers one successful Open, on every path of failure: a    *)
(* client that has ended, however, holds nothing, one that runs holds what *)
(* its own flags say, and nothing has two holders ("closing a device that  *)
(* was never opened unbalances the opener accounting").                    *)
SessionsBalance ==
  /\ Cardinality(HasDevice) <= 1 /\ Cardinality(HasInterface) <= 1
  /\ ivarsDevice /\ usbDevice # "open" <=> "usbDevice" \in HasDevice
  /\ interfaceOpened <=> "driver" \in HasInterface
  /\ iface <=> "probe" \in HasInterface
  /\ probe \in {"absent", "open"} <=> "probe" \notin HasDevice

(* A client that runs on the chip is not disturbed by the two others: it   *)
(* keeps the interface, and the chip runs its own init sequence; and no    *)
(* SET_CONFIGURATION takes the interface from a driver ("only do it when   *)
(* none were found"), but for the one issued when looking for an interface *)
(* failed.                                                                 *)
Undisturbed ==
  /\ [](driver = "running" => "driver" \in HasInterface /\ chip = "driver")
  /\ [](probe = "bulk" => "probe" \in HasInterface /\ chip = "probe")
  /\ [][driver # "severed" /\ driver' = "severed" => iteratorFailed]_vars

(* The tool's control transfers "coexist with any bound driver": each      *)
(* client reads the EEPROM bytes it asked for.                             *)
ReadsItsOwnByte == mixed = {}
===============================================================================
