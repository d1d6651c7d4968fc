---------------------------- MODULE PacketCustody ----------------------------
(***************************************************************************)
(* What the transmit path promises the network stack, without saying how:  *)
(* a packet submitted is taken in order and handed back exactly once,      *)
(* through at most one transfer, or lost for good; once the driver has     *)
(* closed, nothing more is taken.                                          *)
(***************************************************************************)
EXTENDS Sequences, Naturals

CONSTANT Packet

VARIABLES home,     \* packets the stack owns
          queue,    \* packets submitted, in order
          out,      \* the packet of the transfer in flight
          lost,     \* packets that will never come back
          closed

vars == <<home, queue, out, lost, closed>>

Init ==
  /\ home = Packet /\ queue = <<>> /\ out = {} /\ lost = {}
  /\ closed = FALSE

Submit(p) ==
  /\ p \in home
  /\ home' = home \ {p} /\ queue' = Append(queue, p)
  /\ UNCHANGED <<out, lost, closed>>

(* The packet leaves the driver's hands: it goes home, or it is lost.      *)
Settle(p) ==
  \/ home' = home \cup {p} /\ UNCHANGED lost
  \/ lost' = lost \cup {p} /\ UNCHANGED home

Transmit ==
  /\ ~closed /\ queue # <<>> /\ out = {}
  /\ out' = {Head(queue)} /\ queue' = Tail(queue)
  /\ UNCHANGED <<home, lost, closed>>

Refuse ==
  /\ ~closed /\ queue # <<>> /\ out = {}
  /\ queue' = Tail(queue)
  /\ Settle(Head(queue))
  /\ UNCHANGED <<out, closed>>

Finish ==
  /\ out' = {}
  /\ \E p \in out : Settle(p)
  /\ UNCHANGED <<queue, closed>>

Close ==
  /\ closed' = TRUE
  /\ UNCHANGED <<home, queue, out, lost>>

Next == (\E p \in Packet : Submit(p)) \/ Transmit \/ Refuse \/ Finish \/ Close

Spec == Init /\ [][Next]_vars
===============================================================================
