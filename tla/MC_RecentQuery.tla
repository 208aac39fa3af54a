---------------------------- MODULE MC_RecentQuery ----------------------------
(***************************************************************************)
(* Model-checking instance of RecentQuery: three hashes as model values.   *)
(***************************************************************************)
EXTENDS RecentQuery, TLC

CONSTANTS h1, h2, h3

MCHashes == {h1, h2, h3}

\* Every property is stated without naming a particular hash.
MCSymmetry == Permutations(MCHashes)
=============================================================================
