------------------------- MODULE MCResilientRequest -------------------------
EXTENDS ResilientRequest, TLC

Symmetry == Permutations(Calls)
=============================================================================
