---------------------------- MODULE MCFatxLocks ----------------------------
EXTENDS FatxLocks, TLC
CONSTANTS t1, t2, t3
=============================================================================
