--------------------------- MODULE MCMissingBlocks ---------------------------
EXTENDS MissingBlocks, TLC

CONSTANTS w1, w2
=============================================================================
