---------------------------- MODULE MCSignaling ----------------------------
(* Small instances of Signaling for TLC.                                   *)
EXTENDS Signaling, TLC

\* Handlers of connections with the same slug and role are interchangeable.
ConnSymmetry == Permutations(Conns)
============================================================================
