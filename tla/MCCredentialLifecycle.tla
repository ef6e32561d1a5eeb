------------------------- MODULE MCCredentialLifecycle -------------------------
EXTENDS CredentialLifecycle

CONSTANTS c1, c2, w1, w2, t1, t2, t3
===============================================================================
