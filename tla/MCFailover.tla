------------------------------ MODULE MCFailover ------------------------------
EXTENDS Failover, TLC

CONSTANTS c1, c2
=============================================================================
