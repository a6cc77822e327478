--------------------------- MODULE MCFailedBlocks ---------------------------
EXTENDS FailedBlocks, TLC

CONSTANTS b1, b2

Symmetry == Permutations(Failing)
=============================================================================
