----------------------------- MODULE MCPayments -----------------------------
(* A small instance of Payments for TLC.                                   *)
EXTENDS Payments, TLC

\* Buyers are interchangeable.
BuyerSymmetry == Permutations(Buyers)
=============================================================================
