---------------------------- MODULE MCAddressWatch ----------------------------
EXTENDS AddressWatch, TLC

CONSTANTS n1, n2, o1, c1, c2, sui, evm

SuiFirst == <<sui, evm>>
=============================================================================
