------------------------- MODULE MCStatusListPublisher -------------------------
EXTENDS StatusListPublisher, TLC

CONSTANTS c1, c2, p1, p2

MCSymmetry == Permutations({c1, c2}) \union Permutations({p1, p2})
===============================================================================
