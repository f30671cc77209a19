---------------------------- MODULE MCNifiLease ----------------------------
EXTENDS NifiLease

CONSTANTS t1, t2, l1, l2, l3, l4
=============================================================================
