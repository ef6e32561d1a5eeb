---------------------------- MODULE MCVerification ----------------------------
EXTENDS Verification, TLC

CONSTANTS c1, c2, p1, v1, v2

MCSymmetry == Permutations({v1, v2})
===============================================================================
