------------------------------ MODULE MCBringUp ------------------------------
(* Adapters for BringUp with an address of two bytes: good ones whose bytes *)
(* differ from each other and from what the EEPROM engine may have held     *)
(* before, and one for each gate an address can fail.                       *)
EXTENDS BringUp

Contents(sig, first, second) == [i \in 0 .. 2 |-> <<sig, first, second>>[i + 1]]

MCEeproms == {Contents(Signature, 2, 255), Contents(Signature, 0, 4),
              Contents(0, 2, 4),           Contents(Signature, 0, 0),
              Contents(Signature, 255, 255), Contents(Signature, 1, 2)}
=============================================================================
