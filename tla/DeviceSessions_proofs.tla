------------------------ MODULE DeviceSessions_proofs ------------------------
(***************************************************************************)
(* The three clients' sessions, for every set of faults: the opener        *)
(* accounting balances and no running client is disturbed, because of the  *)
(* inductive invariant IInv.                                               *)
(***************************************************************************)
EXTENDS DeviceSessions, FiniteSetTheorems, TLAPS

(* Who has opened what, by where the clients are.                          *)
HoldsDevice(c) ==
  \/ c = "usbDevice" /\ usbDevice \in {"look", "configure", "running"}
  \/ c = "probe" /\ probe \notin {"absent", "open"}
HoldsInterface(c) ==
  \/ c = "driver" /\ interfaceOpened
  \/ c = "probe" /\ iface

(* The family's accounting is exactly that, ...                            *)
Books ==
  \A c \in Clients : /\ deviceOpens[c] = IF HoldsDevice(c) THEN 1 ELSE 0
                     /\ interfaceOpens[c] = IF HoldsInterface(c) THEN 1 ELSE 0

(* ... and the two possible holders of each exclude each other.            *)
OneHolder ==
  /\ ~(HoldsDevice("usbDevice") /\ HoldsDevice("probe"))
  /\ ~(HoldsInterface("driver") /\ HoldsInterface("probe"))

(* The flags that tell a client what to close, by where it is.             *)
FlagsFollow ==
  /\ ivarsDevice <=> usbDevice \in {"open", "look", "configure", "running"}
  /\ driver \in {"read", "fetch", "reset", "configure", "running"} => interfaceOpened
  /\ interfaceOpened => driver \notin {"absent", "open", "severed"}
  /\ probe \in {"claimed", "reset", "initialise", "bulk"} => iface
  /\ iface => probe \in {"claimed", "reset", "initialise", "bulk", "close"}

(* The chip runs the init sequence of the client that runs on it.          *)
ChipFollows ==
  /\ driver = "running" => chip = "driver"
  /\ probe = "bulk" => chip = "probe"

(* Between its look and its SET_CONFIGURATION a client has the device, so  *)
(* nobody else configures it.                                              *)
LookStillHolds ==
  /\ usbDevice = "configure" /\ configured => iteratorFailed
  /\ probe = "configure" => ~configured

Control == FlagsFollow /\ ChipFollows /\ LookStillHolds

IInv == TypeOK /\ Books /\ OneHolder /\ Control

-----------------------------------------------------------------------------
(* Types, in three parts.                                                  *)

Opens == [Clients -> 0 .. 1]

OpensTyped == deviceOpens \in Opens /\ interfaceOpens \in Opens

DriversTyped ==
  /\ usbDevice \in {"absent", "open", "look", "configure", "running", "failed"}
  /\ ivarsDevice \in BOOLEAN /\ iteratorFailed \in BOOLEAN
  /\ driver \in {"absent", "open", "read", "fetch", "reset", "configure", "running",
                 "failing", "severed"}
  /\ interfaceOpened \in BOOLEAN

ProbeAndChipTyped ==
  /\ configured \in BOOLEAN
  /\ chip \in {"reset", "driver", "probe"}
  /\ eepromEngine \in {"nobody", "driver", "probe"} /\ mixed \subseteq Clients
  /\ probe \in {"absent", "open", "look", "configure", "read", "fetch", "claim", "claimed",
                "reset", "initialise", "bulk", "close"}
  /\ command \in Commands /\ iface \in BOOLEAN

(* The three parts are TypeOK.                                             *)
LEMMA TypeParts == TypeOK <=> OpensTyped /\ DriversTyped /\ ProbeAndChipTyped
  BY Zenon DEF TypeOK, OpensTyped, DriversTyped, ProbeAndChipTyped, Opens

-----------------------------------------------------------------------------
(* Opening and closing.                                                    *)

(* An exclusive open finds no opener and makes one.                        *)
LEMMA OpenEffect ==
  ASSUME NEW opens \in Opens, NEW c \in Clients, OpenSucceeds(opens)
  PROVE  /\ Opened(opens, c) \in Opens
         /\ \A d \in Clients : opens[d] = 0 /\ Opened(opens, c)[d] = IF d = c THEN 1 ELSE 0
<1>1. \A d \in Clients : opens[d] = 0
  BY DEF Opens, OpenSucceeds, NobodyHas
<1> QED
  BY <1>1 DEF Opens, Opened

(* Closing takes back the one open of the client that closes.              *)
LEMMA CloseEffect ==
  ASSUME NEW opens \in Opens, NEW c \in Clients, opens[c] = 1
  PROVE  /\ Closed(opens, c) \in Opens
         /\ \A d \in Clients : Closed(opens, c)[d] = IF d = c THEN 0 ELSE opens[d]
  BY DEF Opens, Closed

(* SET_CONFIGURATION of a configured device takes its interface from all;  *)
(* of an unconfigured one it takes nothing.                                *)
LEMMA ConfigureEffect ==
  ASSUME TypeOK, SetConfiguration
  PROVE  /\ configured' = TRUE
         /\ configured => /\ interfaceOpens' = [c \in Clients |-> 0]
                          /\ ~interfaceOpened' /\ interfaceOpened' \in BOOLEAN
                          /\ driver' = IF driver = "absent" THEN "absent" ELSE "severed"
         /\ ~configured => UNCHANGED <<interfaceOpens, driverVars>>
  BY DEF TypeOK, SetConfiguration

-----------------------------------------------------------------------------
(* Every part of the invariant, step by step.                              *)

(* Every step keeps the types of the two drivers' state.                   *)
LEMMA DriversTypedStep ==
  ASSUME TypeOK, [Next]_vars
  PROVE  DriversTyped'
<1> USE TypeParts DEF DriversTyped
<1>1. CASE NubStarts
  BY <1>1 DEF NubStarts, driverVars
<1>2. CASE NubOpens
  BY <1>2 DEF NubOpens, driverVars
<1>3. CASE NubOpenFails
  BY <1>3 DEF NubOpenFails, ForgetDevice, driverVars
<1>4. CASE NubLooks
  BY <1>4 DEF NubLooks, driverVars
<1>5. CASE NubConfigures
  BY <1>5 DEF NubConfigures, SetConfiguration, driverVars
<1>6. CASE NubConfigureFails
  BY <1>6 DEF NubConfigureFails, ForgetDevice, driverVars
<1>7. CASE NubStops
  BY <1>7 DEF NubStops, driverVars
<1>8. CASE DriverMatches
  BY <1>8 DEF DriverMatches, nubVars
<1>9. CASE DriverOpens
  BY <1>9 DEF DriverOpens, nubVars
<1>10. CASE DriverOpenFails
  BY <1>10 DEF DriverOpenFails, nubVars
<1>11. CASE DriverCommands
  BY <1>11 DEF DriverCommands, nubVars
<1>12. CASE DriverFetches
  BY <1>12 DEF DriverFetches, nubVars
<1>13. CASE DriverResets
  BY <1>13 DEF DriverResets, nubVars
<1>14. CASE DriverConfigures
  BY <1>14 DEF DriverConfigures, nubVars
<1>15. CASE DriverInitFails
  BY <1>15 DEF DriverInitFails, nubVars
<1>16. CASE DriverStops
  BY <1>16 DEF DriverStops, nubVars
<1>17. ASSUME NEW c \in Commands, ProbeRuns(c)
      PROVE  DriversTyped'
  BY <1>17 DEF ProbeRuns, nubVars, driverVars
<1>18. CASE ProbeOpens
  BY <1>18 DEF ProbeOpens, nubVars, driverVars
<1>19. CASE ProbeOpenFails
  BY <1>19 DEF ProbeOpenFails, nubVars, driverVars
<1>20. CASE ProbeLooks
  BY <1>20 DEF ProbeLooks, nubVars, driverVars
<1>21. CASE ProbeConfigures
  BY <1>21 DEF ProbeConfigures, SetConfiguration, nubVars, driverVars
<1>22. CASE ProbeConfigureFails
  BY <1>22 DEF ProbeConfigureFails, nubVars, driverVars
<1>23. CASE ProbeCommands
  BY <1>23 DEF ProbeCommands, nubVars, driverVars
<1>24. CASE ProbeFetches
  BY <1>24 DEF ProbeFetches, nubVars, driverVars
<1>25. CASE ProbeClaims
  BY <1>25 DEF ProbeClaims, nubVars, driverVars
<1>26. CASE ProbeClaimFails
  BY <1>26 DEF ProbeClaimFails, nubVars, driverVars
<1>27. CASE ProbeFindsPipes
  BY <1>27 DEF ProbeFindsPipes, nubVars, driverVars
<1>28. CASE ProbePutsBack
  BY <1>28 DEF ProbePutsBack, nubVars, driverVars
<1>29. CASE ProbeResets
  BY <1>29 DEF ProbeResets, nubVars, driverVars
<1>30. CASE ProbeInitialises
  BY <1>30 DEF ProbeInitialises, nubVars, driverVars
<1>31. CASE ProbeEnds
  BY <1>31 DEF ProbeEnds, nubVars, driverVars
<1>32. CASE ProbeCloses
  BY <1>32 DEF ProbeCloses, nubVars, driverVars
<1>33. CASE UNCHANGED vars
  BY <1>33 DEF vars, nubVars, driverVars
<1> QED
  BY <1>1, <1>2, <1>3, <1>4, <1>5, <1>6, <1>7, <1>8, <1>9, <1>10, <1>11, <1>12, <1>13,
     <1>14, <1>15, <1>16, <1>17, <1>18, <1>19, <1>20, <1>21, <1>22, <1>23, <1>24, <1>25,
     <1>26, <1>27, <1>28, <1>29, <1>30, <1>31, <1>32, <1>33 DEF Next, Nub, Driver, Probe

(* Every step keeps the types of the probe's state and the chip's.         *)
LEMMA ProbeAndChipTypedStep ==
  ASSUME TypeOK, [Next]_vars
  PROVE  ProbeAndChipTyped'
<1> USE TypeParts DEF ProbeAndChipTyped
<1>1. CASE NubStarts
  BY <1>1 DEF NubStarts, chipVars, probeVars
<1>2. CASE NubOpens
  BY <1>2 DEF NubOpens, chipVars, probeVars
<1>3. CASE NubOpenFails
  BY <1>3 DEF NubOpenFails, chipVars, probeVars
<1>4. CASE NubLooks
  BY <1>4 DEF NubLooks, chipVars, probeVars
<1>5. CASE NubConfigures
  BY <1>5 DEF NubConfigures, SetConfiguration, chipVars, probeVars
<1>6. CASE NubConfigureFails
  BY <1>6 DEF NubConfigureFails, chipVars, probeVars
<1>7. CASE NubStops
  BY <1>7 DEF NubStops, chipVars, probeVars
<1>8. CASE DriverMatches
  BY <1>8 DEF DriverMatches, chipVars, probeVars
<1>9. CASE DriverOpens
  BY <1>9 DEF DriverOpens, chipVars, probeVars
<1>10. CASE DriverOpenFails
  BY <1>10 DEF DriverOpenFails, chipVars, probeVars
<1>11. CASE DriverCommands
  BY <1>11 DEF DriverCommands, IssuesCommand, probeVars
<1>12. CASE DriverFetches
  BY <1>12 DEF DriverFetches, Fetches, probeVars, Clients
<1>13. CASE DriverResets
  BY <1>13 DEF DriverResets, probeVars
<1>14. CASE DriverConfigures
  BY <1>14 DEF DriverConfigures, probeVars
<1>15. CASE DriverInitFails
  BY <1>15 DEF DriverInitFails, chipVars, probeVars
<1>16. CASE DriverStops
  BY <1>16 DEF DriverStops, chipVars, probeVars
<1>17. ASSUME NEW c \in Commands, ProbeRuns(c)
      PROVE  ProbeAndChipTyped'
  BY <1>17 DEF ProbeRuns, chipVars
<1>18. CASE ProbeOpens
  BY <1>18 DEF ProbeOpens, chipVars
<1>19. CASE ProbeOpenFails
  BY <1>19 DEF ProbeOpenFails, chipVars
<1>20. CASE ProbeLooks
  BY <1>20 DEF ProbeLooks, FirstStep, chipVars
<1>21. CASE ProbeConfigures
  BY <1>21 DEF ProbeConfigures, FirstStep, SetConfiguration, chipVars
<1>22. CASE ProbeConfigureFails
  BY <1>22 DEF ProbeConfigureFails, chipVars
<1>23. CASE ProbeCommands
  BY <1>23 DEF ProbeCommands, IssuesCommand
<1>24. CASE ProbeFetches
  BY <1>24 DEF ProbeFetches, Fetches, Clients
<1>25. CASE ProbeClaims
  BY <1>25 DEF ProbeClaims, ClaimInterface, chipVars
<1>26. CASE ProbeClaimFails
  BY <1>26 DEF ProbeClaimFails, chipVars
<1>27. CASE ProbeFindsPipes
  BY <1>27 DEF ProbeFindsPipes, chipVars
<1>28. CASE ProbePutsBack
  BY <1>28 DEF ProbePutsBack, PutBack, chipVars
<1>29. CASE ProbeResets
  BY <1>29 DEF ProbeResets
<1>30. CASE ProbeInitialises
  BY <1>30 DEF ProbeInitialises
<1>31. CASE ProbeEnds
  BY <1>31 DEF ProbeEnds, chipVars
<1>32. CASE ProbeCloses
  BY <1>32 DEF ProbeCloses, chipVars
<1>33. CASE UNCHANGED vars
  BY <1>33 DEF vars, chipVars, probeVars
<1> QED
  BY <1>1, <1>2, <1>3, <1>4, <1>5, <1>6, <1>7, <1>8, <1>9, <1>10, <1>11, <1>12, <1>13,
     <1>14, <1>15, <1>16, <1>17, <1>18, <1>19, <1>20, <1>21, <1>22, <1>23, <1>24, <1>25,
     <1>26, <1>27, <1>28, <1>29, <1>30, <1>31, <1>32, <1>33 DEF Next, Nub, Driver, Probe

(* Every step keeps the accounting's types: each close answers an open of  *)
(* the same client.                                                        *)
LEMMA OpensTypedStep ==
  ASSUME IInv, [Next]_vars
  PROVE  OpensTyped'
<1> USE DEF OpensTyped
<1>0. TypeOK /\ OpensTyped
  BY TypeParts DEF IInv
<1>1. CASE NubStarts
  BY <1>0, <1>1 DEF NubStarts, familyVars
<1>2. CASE NubOpens
  BY <1>0, <1>2, OpenEffect DEF NubOpens, Clients
<1>3. CASE NubOpenFails
  BY <1>0, <1>3 DEF NubOpenFails, familyVars
<1>4. CASE NubLooks
  BY <1>0, <1>4 DEF NubLooks, familyVars
<1>5. CASE NubConfigures
  BY <1>0, <1>5 DEF NubConfigures, SetConfiguration, Opens
<1>6. CASE NubConfigureFails
  <2>1. deviceOpens["usbDevice"] = 1
    BY <1>6 DEF NubConfigureFails, IInv, Books, HoldsDevice, Clients
  <2> QED
    BY <1>0, <1>6, <2>1, CloseEffect DEF NubConfigureFails, Clients
<1>7. CASE NubStops
  <2>1. ivarsDevice => deviceOpens["usbDevice"] = 1
    BY <1>7 DEF NubStops, IInv, Books, HoldsDevice, Control, FlagsFollow, Clients
  <2> QED
    BY <1>0, <1>7, <2>1, CloseEffect DEF NubStops, Clients
<1>8. CASE DriverMatches
  BY <1>0, <1>8 DEF DriverMatches, familyVars
<1>9. CASE DriverOpens
  BY <1>0, <1>9, OpenEffect DEF DriverOpens, Clients
<1>10. CASE DriverOpenFails
  BY <1>0, <1>10 DEF DriverOpenFails, familyVars
<1>11. CASE DriverCommands
  BY <1>0, <1>11 DEF DriverCommands, familyVars
<1>12. CASE DriverFetches
  BY <1>0, <1>12 DEF DriverFetches, familyVars
<1>13. CASE DriverResets
  BY <1>0, <1>13 DEF DriverResets, familyVars
<1>14. CASE DriverConfigures
  BY <1>0, <1>14 DEF DriverConfigures, familyVars
<1>15. CASE DriverInitFails
  BY <1>0, <1>15 DEF DriverInitFails, familyVars
<1>16. CASE DriverStops
  <2>1. interfaceOpened => interfaceOpens["driver"] = 1
    BY <1>16 DEF DriverStops, IInv, Books, HoldsInterface, Clients
  <2> QED
    BY <1>0, <1>16, <2>1, CloseEffect DEF DriverStops, Clients
<1>17. ASSUME NEW c \in Commands, ProbeRuns(c)
      PROVE  OpensTyped'
  BY <1>0, <1>17 DEF ProbeRuns, familyVars
<1>18. CASE ProbeOpens
  BY <1>0, <1>18, OpenEffect DEF ProbeOpens, Clients
<1>19. CASE ProbeOpenFails
  BY <1>0, <1>19 DEF ProbeOpenFails, familyVars
<1>20. CASE ProbeLooks
  BY <1>0, <1>20 DEF ProbeLooks, familyVars
<1>21. CASE ProbeConfigures
  BY <1>0, <1>21 DEF ProbeConfigures, SetConfiguration, Opens
<1>22. CASE ProbeConfigureFails
  <2>1. deviceOpens["probe"] = 1
    BY <1>22 DEF ProbeConfigureFails, IInv, Books, HoldsDevice, Clients
  <2> QED
    BY <1>0, <1>22, <2>1, CloseEffect DEF ProbeConfigureFails, Clients
<1>23. CASE ProbeCommands
  BY <1>0, <1>23 DEF ProbeCommands, familyVars
<1>24. CASE ProbeFetches
  BY <1>0, <1>24 DEF ProbeFetches, familyVars
<1>25. CASE ProbeClaims
  BY <1>0, <1>25, OpenEffect DEF ProbeClaims, ClaimInterface, Clients
<1>26. CASE ProbeClaimFails
  BY <1>0, <1>26 DEF ProbeClaimFails, familyVars
<1>27. CASE ProbeFindsPipes
  BY <1>0, <1>27 DEF ProbeFindsPipes, familyVars
<1>28. CASE ProbePutsBack
  <2>1. interfaceOpens["probe"] = 1
    BY <1>28 DEF ProbePutsBack, PutBack, IInv, Books, HoldsInterface, FlagsFollow, Control, Clients
  <2> QED
    BY <1>0, <1>28, <2>1, CloseEffect DEF ProbePutsBack, PutBack, Clients
<1>29. CASE ProbeResets
  BY <1>0, <1>29 DEF ProbeResets, familyVars
<1>30. CASE ProbeInitialises
  BY <1>0, <1>30 DEF ProbeInitialises, familyVars
<1>31. CASE ProbeEnds
  BY <1>0, <1>31 DEF ProbeEnds, familyVars
<1>32. CASE ProbeCloses
  <2>1. deviceOpens["probe"] = 1 /\ (iface => interfaceOpens["probe"] = 1)
    BY <1>32 DEF ProbeCloses, IInv, Books, HoldsDevice, HoldsInterface, Clients
  <2> QED
    BY <1>0, <1>32, <2>1, CloseEffect DEF ProbeCloses, Clients
<1>33. CASE UNCHANGED vars
  BY <1>0, <1>33 DEF vars, familyVars
<1> QED
  BY <1>1, <1>2, <1>3, <1>4, <1>5, <1>6, <1>7, <1>8, <1>9, <1>10, <1>11, <1>12, <1>13,
     <1>14, <1>15, <1>16, <1>17, <1>18, <1>19, <1>20, <1>21, <1>22, <1>23, <1>24, <1>25,
     <1>26, <1>27, <1>28, <1>29, <1>30, <1>31, <1>32, <1>33 DEF Next, Nub, Driver, Probe

(* Every step keeps the books, and one holder of each.                     *)
LEMMA BooksStep ==
  ASSUME IInv, [Next]_vars
  PROVE  (Books /\ OneHolder)'
<1> USE DEF IInv, Control, FlagsFollow, LookStillHolds, OneHolder, Books,
            HoldsDevice, HoldsInterface, Clients
<1>0. TypeOK /\ deviceOpens \in Opens /\ interfaceOpens \in Opens
  BY TypeParts DEF OpensTyped
<1>1. CASE NubStarts
  BY <1>1 DEF NubStarts, familyVars, driverVars, probeVars
<1>2. CASE NubOpens
  <2>1. \A d \in Clients : deviceOpens[d] = 0 /\ deviceOpens'[d] = IF d = "usbDevice" THEN 1 ELSE 0
    BY <1>0, <1>2, OpenEffect DEF NubOpens
  <2>2. usbDevice' = "look" /\ UNCHANGED <<interfaceOpens, interfaceOpened, probe, iface>>
    BY <1>2 DEF NubOpens, driverVars, probeVars
  <2> QED
    BY <2>1, <2>2
<1>3. CASE NubOpenFails
  BY <1>3 DEF NubOpenFails, familyVars, driverVars, probeVars
<1>4. CASE NubLooks
  BY <1>4 DEF NubLooks, familyVars, driverVars, probeVars
<1>5. CASE NubConfigures
  <2>1. /\ usbDevice = "configure" /\ usbDevice' = "running" /\ ~iface
        /\ UNCHANGED <<deviceOpens, probe, iface>>
    BY <1>5 DEF NubConfigures, probeVars
  <2>2. CASE configured
    BY <1>0, <1>5, <2>1, <2>2, ConfigureEffect DEF NubConfigures
  <2>3. CASE ~configured
    BY <1>0, <1>5, <2>1, <2>3, ConfigureEffect DEF NubConfigures, driverVars
  <2> QED
    BY <2>2, <2>3
<1>6. CASE NubConfigureFails
  <2>1. deviceOpens["usbDevice"] = 1
    BY <1>6 DEF NubConfigureFails
  <2>2. \A d \in Clients : deviceOpens'[d] = IF d = "usbDevice" THEN 0 ELSE deviceOpens[d]
    BY <1>0, <1>6, <2>1, CloseEffect DEF NubConfigureFails
  <2>3. usbDevice' = "failed" /\ UNCHANGED <<interfaceOpens, interfaceOpened, probe, iface>>
    BY <1>6 DEF NubConfigureFails, driverVars, probeVars
  <2> QED
    BY <2>2, <2>3
<1>7. CASE NubStops
  <2>1. /\ usbDevice' = "absent" /\ usbDevice \in {"running", "failed"}
        /\ UNCHANGED <<interfaceOpens, interfaceOpened, probe, iface>>
    BY <1>7 DEF NubStops, driverVars, probeVars
  <2>2. CASE ivarsDevice
    <3>1. deviceOpens["usbDevice"] = 1
      BY <2>1, <2>2
    <3>2. \A d \in Clients : deviceOpens'[d] = IF d = "usbDevice" THEN 0 ELSE deviceOpens[d]
      BY <1>0, <1>7, <2>2, <3>1, CloseEffect DEF NubStops
    <3> QED
      BY <2>1, <3>2
  <2>3. CASE ~ivarsDevice
    BY <1>7, <2>1, <2>3 DEF NubStops
  <2> QED
    BY <2>2, <2>3
<1>8. CASE DriverMatches
  BY <1>8 DEF DriverMatches, familyVars, nubVars, probeVars
<1>9. CASE DriverOpens
  <2>1. \A d \in Clients :
           interfaceOpens[d] = 0 /\ interfaceOpens'[d] = IF d = "driver" THEN 1 ELSE 0
    BY <1>0, <1>9, OpenEffect DEF DriverOpens
  <2>2. interfaceOpened' = TRUE /\ UNCHANGED <<deviceOpens, usbDevice, probe, iface>>
    BY <1>9 DEF DriverOpens, nubVars, probeVars
  <2> QED
    BY <2>1, <2>2
<1>10. CASE DriverOpenFails
  BY <1>10 DEF DriverOpenFails, familyVars, nubVars, probeVars
<1>11. CASE DriverCommands
  BY <1>11 DEF DriverCommands, familyVars, nubVars, probeVars
<1>12. CASE DriverFetches
  BY <1>12 DEF DriverFetches, familyVars, nubVars, probeVars
<1>13. CASE DriverResets
  BY <1>13 DEF DriverResets, familyVars, nubVars, probeVars
<1>14. CASE DriverConfigures
  BY <1>14 DEF DriverConfigures, familyVars, nubVars, probeVars
<1>15. CASE DriverInitFails
  BY <1>15 DEF DriverInitFails, familyVars, nubVars, probeVars
<1>16. CASE DriverStops
  <2>1. interfaceOpened' = FALSE /\ UNCHANGED <<deviceOpens, usbDevice, probe, iface>>
    BY <1>16 DEF DriverStops, nubVars, probeVars
  <2>2. CASE interfaceOpened
    <3>1. interfaceOpens["driver"] = 1
      BY <2>2
    <3>2. \A d \in Clients : interfaceOpens'[d] = IF d = "driver" THEN 0 ELSE interfaceOpens[d]
      BY <1>0, <1>16, <2>2, <3>1, CloseEffect DEF DriverStops
    <3> QED
      BY <2>1, <3>2
  <2>3. CASE ~interfaceOpened
    BY <1>16, <2>1, <2>3 DEF DriverStops
  <2> QED
    BY <2>2, <2>3
<1>17. ASSUME NEW c \in Commands, ProbeRuns(c)
      PROVE  (Books /\ OneHolder)'
  BY <1>17 DEF ProbeRuns, familyVars, nubVars, driverVars
<1>18. CASE ProbeOpens
  <2>1. \A d \in Clients : deviceOpens[d] = 0 /\ deviceOpens'[d] = IF d = "probe" THEN 1 ELSE 0
    BY <1>0, <1>18, OpenEffect DEF ProbeOpens
  <2>2. /\ probe = "open" /\ probe' = "look"
        /\ UNCHANGED <<interfaceOpens, interfaceOpened, usbDevice, iface>>
    BY <1>18 DEF ProbeOpens, driverVars, nubVars
  <2> QED
    BY <2>1, <2>2
<1>19. CASE ProbeOpenFails
  BY <1>19 DEF ProbeOpenFails, familyVars, nubVars, driverVars
<1>20. CASE ProbeLooks
  BY <1>20 DEF ProbeLooks, FirstStep, familyVars, nubVars, driverVars
<1>21. CASE ProbeConfigures
  <2>1. /\ probe = "configure" /\ probe' \in {"read", "claim", "close"} /\ ~configured
        /\ UNCHANGED <<deviceOpens, usbDevice, iface>>
    BY <1>21 DEF ProbeConfigures, FirstStep, nubVars
  <2>2. UNCHANGED <<interfaceOpens, interfaceOpened>>
    BY <1>0, <1>21, <2>1, ConfigureEffect DEF ProbeConfigures, driverVars
  <2> QED
    BY <2>1, <2>2
<1>22. CASE ProbeConfigureFails
  <2>1. deviceOpens["probe"] = 1
    BY <1>22 DEF ProbeConfigureFails
  <2>2. \A d \in Clients : deviceOpens'[d] = IF d = "probe" THEN 0 ELSE deviceOpens[d]
    BY <1>0, <1>22, <2>1, CloseEffect DEF ProbeConfigureFails
  <2>3. probe' = "absent" /\ UNCHANGED <<interfaceOpens, interfaceOpened, usbDevice, iface>>
    BY <1>22 DEF ProbeConfigureFails, driverVars, nubVars
  <2> QED
    BY <2>2, <2>3
<1>23. CASE ProbeCommands
  BY <1>23 DEF ProbeCommands, familyVars, nubVars, driverVars
<1>24. CASE ProbeFetches
  BY <1>24 DEF ProbeFetches, familyVars, nubVars, driverVars
<1>25. CASE ProbeClaims
  <2>1. \A d \in Clients :
           interfaceOpens[d] = 0 /\ interfaceOpens'[d] = IF d = "probe" THEN 1 ELSE 0
    BY <1>0, <1>25, OpenEffect DEF ProbeClaims, ClaimInterface
  <2>2. /\ probe = "claim" /\ probe' = "claimed" /\ iface' = TRUE
        /\ UNCHANGED <<deviceOpens, usbDevice, interfaceOpened>>
    BY <1>25 DEF ProbeClaims, ClaimInterface, nubVars, driverVars
  <2> QED
    BY <2>1, <2>2
<1>26. CASE ProbeClaimFails
  BY <1>26 DEF ProbeClaimFails, familyVars, nubVars, driverVars
<1>27. CASE ProbeFindsPipes
  BY <1>27 DEF ProbeFindsPipes, familyVars, nubVars, driverVars
<1>28. CASE ProbePutsBack
  <2>1. interfaceOpens["probe"] = 1
    BY <1>28 DEF ProbePutsBack, PutBack
  <2>2. \A d \in Clients : interfaceOpens'[d] = IF d = "probe" THEN 0 ELSE interfaceOpens[d]
    BY <1>0, <1>28, <2>1, CloseEffect DEF ProbePutsBack, PutBack
  <2>3. /\ probe = "claimed" /\ probe' = "close" /\ iface' = FALSE
        /\ UNCHANGED <<deviceOpens, usbDevice, interfaceOpened>>
    BY <1>28 DEF ProbePutsBack, PutBack, driverVars, nubVars
  <2> QED
    BY <2>2, <2>3
<1>29. CASE ProbeResets
  BY <1>29 DEF ProbeResets, familyVars, nubVars, driverVars
<1>30. CASE ProbeInitialises
  BY <1>30 DEF ProbeInitialises, familyVars, nubVars, driverVars
<1>31. CASE ProbeEnds
  BY <1>31 DEF ProbeEnds, familyVars, nubVars, driverVars
<1>32. CASE ProbeCloses
  <2>1. /\ probe \notin {"absent", "open"} /\ probe' = "absent" /\ iface' = FALSE
        /\ UNCHANGED <<usbDevice, interfaceOpened>>
    BY <1>32 DEF ProbeCloses, nubVars, driverVars
  <2>2. deviceOpens["probe"] = 1
    BY <2>1
  <2>3. \A d \in Clients : deviceOpens'[d] = IF d = "probe" THEN 0 ELSE deviceOpens[d]
    BY <1>0, <1>32, <2>2, CloseEffect DEF ProbeCloses
  <2>4. \A d \in Clients : interfaceOpens'[d] = IF d = "probe" THEN 0 ELSE interfaceOpens[d]
    <3>1. CASE iface
      <4>1. interfaceOpens["probe"] = 1
        BY <3>1
      <4> QED
        BY <1>0, <1>32, <3>1, <4>1, CloseEffect DEF ProbeCloses
    <3>2. CASE ~iface
      BY <1>32, <3>2 DEF ProbeCloses
    <3> QED
      BY <3>1, <3>2
  <2> QED
    BY <2>1, <2>3, <2>4
<1>33. CASE UNCHANGED vars
  BY <1>33 DEF vars, familyVars, nubVars, driverVars, probeVars
<1> QED
  BY <1>1, <1>2, <1>3, <1>4, <1>5, <1>6, <1>7, <1>8, <1>9, <1>10, <1>11, <1>12, <1>13,
     <1>14, <1>15, <1>16, <1>17, <1>18, <1>19, <1>20, <1>21, <1>22, <1>23, <1>24, <1>25,
     <1>26, <1>27, <1>28, <1>29, <1>30, <1>31, <1>32, <1>33 DEF Next, Nub, Driver, Probe

(* Every step keeps the flags, the chip and the last look true.            *)
LEMMA ControlStep ==
  ASSUME IInv, [Next]_vars
  PROVE  Control'
<1> USE DEF TypeOK, IInv, Control, FlagsFollow, ChipFollows, LookStillHolds, OneHolder,
            HoldsDevice, HoldsInterface
<1>1. CASE NubStarts
  BY <1>1 DEF NubStarts, familyVars, chipVars, driverVars, probeVars
<1>2. CASE NubOpens
  BY <1>2 DEF NubOpens, chipVars, driverVars, probeVars
<1>3. CASE NubOpenFails
  BY <1>3 DEF NubOpenFails, ForgetDevice, familyVars, chipVars, driverVars, probeVars
<1>4. CASE NubLooks
  BY <1>4 DEF NubLooks, familyVars, chipVars, driverVars, probeVars
<1>5. CASE NubConfigures
  BY <1>5 DEF NubConfigures, SetConfiguration, chipVars, driverVars, probeVars
<1>6. CASE NubConfigureFails
  BY <1>6 DEF NubConfigureFails, ForgetDevice, chipVars, driverVars, probeVars
<1>7. CASE NubStops
  BY <1>7 DEF NubStops, chipVars, driverVars, probeVars
<1>8. CASE DriverMatches
  BY <1>8 DEF DriverMatches, familyVars, chipVars, nubVars, probeVars
<1>9. CASE DriverOpens
  BY <1>9 DEF DriverOpens, chipVars, nubVars, probeVars
<1>10. CASE DriverOpenFails
  BY <1>10 DEF DriverOpenFails, familyVars, chipVars, nubVars, probeVars
<1>11. CASE DriverCommands
  BY <1>11 DEF DriverCommands, IssuesCommand, familyVars, nubVars, probeVars
<1>12. CASE DriverFetches
  BY <1>12 DEF DriverFetches, Fetches, familyVars, nubVars, probeVars
<1>13. CASE DriverResets
  BY <1>13 DEF DriverResets, familyVars, nubVars, probeVars
<1>14. CASE DriverConfigures
  BY <1>14 DEF DriverConfigures, familyVars, nubVars, probeVars
<1>15. CASE DriverInitFails
  BY <1>15 DEF DriverInitFails, familyVars, chipVars, nubVars, probeVars
<1>16. CASE DriverStops
  BY <1>16 DEF DriverStops, chipVars, nubVars, probeVars
<1>17. ASSUME NEW c \in Commands, ProbeRuns(c)
      PROVE  Control'
  BY <1>17 DEF ProbeRuns, familyVars, chipVars, nubVars, driverVars
<1>18. CASE ProbeOpens
  BY <1>18 DEF ProbeOpens, chipVars, nubVars, driverVars
<1>19. CASE ProbeOpenFails
  BY <1>19 DEF ProbeOpenFails, familyVars, chipVars, nubVars, driverVars
<1>20. CASE ProbeLooks
  BY <1>20 DEF ProbeLooks, FirstStep, familyVars, chipVars, nubVars, driverVars
<1>21. CASE ProbeConfigures
  BY <1>21 DEF ProbeConfigures, FirstStep, SetConfiguration, chipVars, nubVars,
     driverVars
<1>22. CASE ProbeConfigureFails
  BY <1>22 DEF ProbeConfigureFails, chipVars, nubVars, driverVars
<1>23. CASE ProbeCommands
  BY <1>23 DEF ProbeCommands, IssuesCommand, familyVars, nubVars, driverVars
<1>24. CASE ProbeFetches
  BY <1>24 DEF ProbeFetches, Fetches, familyVars, nubVars, driverVars
<1>25. CASE ProbeClaims
  BY <1>25 DEF ProbeClaims, ClaimInterface, chipVars, nubVars, driverVars
<1>26. CASE ProbeClaimFails
  BY <1>26 DEF ProbeClaimFails, familyVars, chipVars, nubVars, driverVars
<1>27. CASE ProbeFindsPipes
  BY <1>27 DEF ProbeFindsPipes, familyVars, chipVars, nubVars, driverVars
<1>28. CASE ProbePutsBack
  BY <1>28 DEF ProbePutsBack, PutBack, chipVars, nubVars, driverVars
<1>29. CASE ProbeResets
  BY <1>29 DEF ProbeResets, familyVars, nubVars, driverVars
<1>30. CASE ProbeInitialises
  BY <1>30 DEF ProbeInitialises, familyVars, nubVars, driverVars
<1>31. CASE ProbeEnds
  BY <1>31 DEF ProbeEnds, familyVars, chipVars, nubVars, driverVars
<1>32. CASE ProbeCloses
  BY <1>32 DEF ProbeCloses, chipVars, nubVars, driverVars
<1>33. CASE UNCHANGED vars
  BY <1>33 DEF vars, familyVars, chipVars, nubVars, driverVars, probeVars
<1> QED
  BY <1>1, <1>2, <1>3, <1>4, <1>5, <1>6, <1>7, <1>8, <1>9, <1>10, <1>11, <1>12, <1>13,
     <1>14, <1>15, <1>16, <1>17, <1>18, <1>19, <1>20, <1>21, <1>22, <1>23, <1>24, <1>25,
     <1>26, <1>27, <1>28, <1>29, <1>30, <1>31, <1>32, <1>33 DEF Next, Nub, Driver, Probe

-----------------------------------------------------------------------------
(* The theorems.                                                           *)

(* Nobody holds anything yet.                                              *)
LEMMA InitInv == Init => IInv
<1> SUFFICES ASSUME Init
             PROVE  IInv
  OBVIOUS
<1>1. OpensTyped
  BY DEF Init, OpensTyped, Opens
<1>2. DriversTyped
  BY DEF Init, DriversTyped
<1>3. ProbeAndChipTyped
  BY DEF Init, ProbeAndChipTyped, Commands
<1>4. Books /\ OneHolder
  BY DEF Init, Books, OneHolder, HoldsDevice, HoldsInterface
<1>5. Control
  BY DEF Init, Control, FlagsFollow, ChipFollows, LookStillHolds
<1> QED
  BY <1>1, <1>2, <1>3, <1>4, <1>5, TypeParts DEF IInv

(* Every reachable state of the three clients satisfies the inductive      *)
(* invariant.                                                              *)
THEOREM Invariance == Spec => []IInv
<1>1. ASSUME IInv, [Next]_vars
      PROVE  IInv'
  <2>1. TypeOK'
    <3>1. OpensTyped'
      BY <1>1, OpensTypedStep
    <3>2. DriversTyped' /\ ProbeAndChipTyped'
      BY <1>1, DriversTypedStep, ProbeAndChipTypedStep DEF IInv
    <3> QED
      BY <3>1, <3>2, Zenon DEF TypeOK, OpensTyped, DriversTyped, ProbeAndChipTyped, Opens
  <2>2. Books' /\ OneHolder' /\ Control'
    BY <1>1, BooksStep, ControlStep
  <2> QED
    BY <2>1, <2>2 DEF IInv
<1> QED
  BY <1>1, InitInv, PTL DEF Spec

(* Type correctness of the three clients and the family's accounting.      *)
THEOREM TypeCorrect == Spec => []TypeOK
<1>1. IInv => TypeOK
  BY DEF IInv
<1> QED
  BY <1>1, Invariance, PTL

(* A set whose members are all one has one member at most.                 *)
LEMMA AtMostOne ==
  ASSUME NEW S, \A x, y \in S : x = y
  PROVE  Cardinality(S) <= 1
<1>1. CASE S = {}
  BY <1>1, FS_EmptySet
<1>2. CASE S # {}
  <2>1. PICK x \in S : TRUE
    BY <1>2
  <2>2. S = {x}
    BY <2>1
  <2> QED
    BY <2>2, FS_Singleton
<1> QED
  BY <1>1, <1>2

(* No client closes what it did not open or keeps what it should have      *)
(* closed, and nothing has two holders, on any path of failure and in any  *)
(* interleaving of the three.                                              *)
THEOREM SessionsAlwaysBalance == Spec => []SessionsBalance
<1>1. ASSUME IInv
      PROVE  SessionsBalance
  <2> USE DEF IInv, Books, OneHolder, HoldsDevice, HoldsInterface, HasDevice, HasInterface, Clients
  <2>1. Cardinality(HasDevice) <= 1
    <3>1. \A c, d \in HasDevice : c = d
      BY <1>1
    <3> QED
      BY <3>1, AtMostOne
  <2>2. Cardinality(HasInterface) <= 1
    <3>1. \A c, d \in HasInterface : c = d
      BY <1>1
    <3> QED
      BY <3>1, AtMostOne
  <2>3. /\ ivarsDevice /\ usbDevice # "open" <=> "usbDevice" \in HasDevice
        /\ interfaceOpened <=> "driver" \in HasInterface
        /\ iface <=> "probe" \in HasInterface
        /\ probe \in {"absent", "open"} <=> "probe" \notin HasDevice
    BY <1>1 DEF Control, FlagsFollow
  <2> QED
    BY <2>1, <2>2, <2>3 DEF SessionsBalance
<1> QED
  BY <1>1, Invariance, PTL

(* Who runs on the chip has the interface and its own init sequence there. *)
LEMMA RunningHoldsBoth ==
  ASSUME IInv
  PROVE  /\ driver = "running" => "driver" \in HasInterface /\ chip = "driver"
         /\ probe = "bulk" => "probe" \in HasInterface /\ chip = "probe"
<1>1. driver = "running" => interfaceOpened /\ chip = "driver"
  BY DEF IInv, Control, FlagsFollow, ChipFollows
<1>2. probe = "bulk" => iface /\ chip = "probe"
  BY DEF IInv, Control, FlagsFollow, ChipFollows
<1>3. /\ interfaceOpened => "driver" \in HasInterface
      /\ iface => "probe" \in HasInterface
  BY DEF IInv, Books, HoldsInterface, HasInterface, Clients
<1> QED
  BY <1>1, <1>2, <1>3

(* No step severs the driver but a SET_CONFIGURATION after a failed look.  *)
LEMMA SeveredStep ==
  ASSUME IInv, [Next]_vars, driver # "severed", driver' = "severed"
  PROVE  iteratorFailed
<1>1. CASE NubStarts
  BY <1>1 DEF NubStarts, driverVars
<1>2. CASE NubOpens
  BY <1>2 DEF NubOpens, driverVars
<1>3. CASE NubOpenFails
  BY <1>3 DEF NubOpenFails, driverVars
<1>4. CASE NubLooks
  BY <1>4 DEF NubLooks, driverVars
<1>5. CASE NubConfigures
  BY <1>5 DEF NubConfigures, SetConfiguration, IInv, Control, LookStillHolds, driverVars
<1>6. CASE NubConfigureFails
  BY <1>6 DEF NubConfigureFails, driverVars
<1>7. CASE NubStops
  BY <1>7 DEF NubStops, driverVars
<1>8. CASE DriverMatches
  BY <1>8 DEF DriverMatches
<1>9. CASE DriverOpens
  BY <1>9 DEF DriverOpens
<1>10. CASE DriverOpenFails
  BY <1>10 DEF DriverOpenFails
<1>11. CASE DriverCommands
  BY <1>11 DEF DriverCommands
<1>12. CASE DriverFetches
  BY <1>12 DEF DriverFetches
<1>13. CASE DriverResets
  BY <1>13 DEF DriverResets
<1>14. CASE DriverConfigures
  BY <1>14 DEF DriverConfigures
<1>15. CASE DriverInitFails
  BY <1>15 DEF DriverInitFails
<1>16. CASE DriverStops
  BY <1>16 DEF DriverStops
<1>17. ASSUME NEW c \in Commands, ProbeRuns(c)
      PROVE  iteratorFailed
  BY <1>17 DEF ProbeRuns, driverVars
<1>18. CASE ProbeOpens
  BY <1>18 DEF ProbeOpens, driverVars
<1>19. CASE ProbeOpenFails
  BY <1>19 DEF ProbeOpenFails, driverVars
<1>20. CASE ProbeLooks
  BY <1>20 DEF ProbeLooks, driverVars
<1>21. CASE ProbeConfigures
  BY <1>21 DEF ProbeConfigures, SetConfiguration, IInv, Control, LookStillHolds, driverVars
<1>22. CASE ProbeConfigureFails
  BY <1>22 DEF ProbeConfigureFails, driverVars
<1>23. CASE ProbeCommands
  BY <1>23 DEF ProbeCommands, driverVars
<1>24. CASE ProbeFetches
  BY <1>24 DEF ProbeFetches, driverVars
<1>25. CASE ProbeClaims
  BY <1>25 DEF ProbeClaims, driverVars
<1>26. CASE ProbeClaimFails
  BY <1>26 DEF ProbeClaimFails, driverVars
<1>27. CASE ProbeFindsPipes
  BY <1>27 DEF ProbeFindsPipes, driverVars
<1>28. CASE ProbePutsBack
  BY <1>28 DEF ProbePutsBack, driverVars
<1>29. CASE ProbeResets
  BY <1>29 DEF ProbeResets, driverVars
<1>30. CASE ProbeInitialises
  BY <1>30 DEF ProbeInitialises, driverVars
<1>31. CASE ProbeEnds
  BY <1>31 DEF ProbeEnds, driverVars
<1>32. CASE ProbeCloses
  BY <1>32 DEF ProbeCloses, driverVars
<1>33. CASE UNCHANGED vars
  BY <1>33 DEF vars, driverVars
<1> QED
  BY <1>1, <1>2, <1>3, <1>4, <1>5, <1>6, <1>7, <1>8, <1>9, <1>10, <1>11, <1>12, <1>13,
     <1>14, <1>15, <1>16, <1>17, <1>18, <1>19, <1>20, <1>21, <1>22, <1>23, <1>24, <1>25,
     <1>26, <1>27, <1>28, <1>29, <1>30, <1>31, <1>32, <1>33 DEF Next, Nub, Driver, Probe

(* No client that runs on the chip is disturbed by the two others, in any  *)
(* interleaving of any number of their lives.                              *)
THEOREM NobodyIsDisturbed == Spec => Undisturbed
<1>1. IInv => (driver = "running" => "driver" \in HasInterface /\ chip = "driver")
  BY RunningHoldsBoth
<1>2. IInv => (probe = "bulk" => "probe" \in HasInterface /\ chip = "probe")
  BY RunningHoldsBoth
<1>3. IInv /\ [Next]_vars => [driver # "severed" /\ driver' = "severed" => iteratorFailed]_vars
  BY SeveredStep
<1> QED
  BY <1>1, <1>2, <1>3, Invariance, PTL DEF Spec, Undisturbed
===============================================================================
