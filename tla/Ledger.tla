------------------------------- MODULE Ledger -------------------------------
(***************************************************************************)
(* What metering promises, with every mechanism left out: bytes are        *)
(* metered, and a byte that has been metered is billed at most once.       *)
(***************************************************************************)
EXTENDS Integers

VARIABLES metered, billed

Init == metered = 0 /\ billed = 0

Meter == metered' = metered + 1 /\ UNCHANGED billed

Bill ==
  /\ billed' \in Nat
  /\ billed < billed' /\ billed' <= metered
  /\ UNCHANGED metered

Next == Meter \/ Bill

Spec == Init /\ [][Next]_<<metered, billed>>

=============================================================================
