---------------------------- MODULE MCPhoneKeyApp ---------------------------
EXTENDS PhoneKeyAppProperties, TLC
CONSTANTS v1, v2
Symmetry == Permutations({v1, v2})
=============================================================================
