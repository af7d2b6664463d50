--------------------------- MODULE MCPhoneKeyCore ---------------------------
EXTENDS PhoneKeyCoreProperties, TLC
CONSTANTS a, b, v1, v2
Symmetry == Permutations({a, b}) \cup Permutations({v1, v2})
=============================================================================
