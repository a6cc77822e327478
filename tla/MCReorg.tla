------------------------------- MODULE MCReorg -------------------------------
EXTENDS Reorg
=============================================================================
