----------------------------- MODULE MCChannel -----------------------------
(* Small instances of Channel for TLC.                                     *)
EXTENDS Channel, TLC

\* Requests are interchangeable until they start.
RequestSymmetry == Permutations(Requests)
============================================================================
