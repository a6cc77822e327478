------------------------------- MODULE MCScan -------------------------------
EXTENDS Scan
=============================================================================
