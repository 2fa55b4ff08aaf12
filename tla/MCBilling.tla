------------------------------ MODULE MCBilling ------------------------------
(***************************************************************************)
(* Two accounts, and two nodes with an inbound each.                       *)
(***************************************************************************)
EXTENDS Billing

TwoNodes == <<"n1", "n2">>
AnnAndBob == <<"ann", "bob">>

=============================================================================
