---------------------------- MODULE MCUnitOfWork ----------------------------
(* Small instances of UnitOfWork for TLC.                                  *)
EXTENDS UnitOfWork, TLC

Symmetry == Permutations(Txs) \cup Permutations(Units)
=============================================================================
