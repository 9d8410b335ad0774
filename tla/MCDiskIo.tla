----------------------------- MODULE MCDiskIo -----------------------------
EXTENDS DiskIo, TLC
CONSTANTS ta, tb, ia, ib
=============================================================================
