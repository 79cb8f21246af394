----------------------------- MODULE MCTransfer -----------------------------
(* Small instances of Transfer for TLC.                                    *)
EXTENDS Transfer

\* A file that needs two chunks, then a file of one.
TwoFiles == <<2, 1>>

\* The last chunk of the first is small, the second fills its only chunk.
LastChunks == <<0, 1>>
=============================================================================
