----------------------------- MODULE MCCorrections -----------------------------
EXTENDS Corrections, TLC

CONSTANTS c1, c2, w1, w2, t1, t2, t3

MCSymmetry == Permutations({w1, w2}) \union Permutations({t1, t2, t3})
===============================================================================
