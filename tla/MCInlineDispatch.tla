-------------------------- MODULE MCInlineDispatch --------------------------
(* Instances of InlineDispatch for TLC: three calls of one process.            *)
EXTENDS InlineDispatch, TLC

CONSTANTS c1, c2, c3
Symmetry == Permutations({c1, c2, c3})
=============================================================================
