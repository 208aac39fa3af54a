------------------------------ MODULE MC_TxDetail ------------------------------
(***************************************************************************)
(* Model-checking instance of TxDetail: three hashes as model values.      *)
(***************************************************************************)
EXTENDS TxDetail, TLC

CONSTANTS t1, t2, t3

MCHashes == {t1, t2, t3}

\* No property names a particular hash.
MCSymmetry == Permutations(MCHashes)
=============================================================================
