---------------------------- MODULE MCChangeBatch ----------------------------
(* Small instances of ChangeBatch for TLC. *)
EXTENDS ChangeBatch, TLC

\* Devices are interchangeable.
BatchSymmetry == Permutations(Device)
=============================================================================
