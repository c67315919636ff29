------------------------------ MODULE MCMDBTxn ------------------------------
EXTENDS MDBTxn, TLC

CONSTANTS p1, p2, root, leaf, freeDB

Symmetry == Permutations(Procs)
=============================================================================
