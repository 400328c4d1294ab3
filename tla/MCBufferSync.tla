---------------------------- MODULE MCBufferSync ----------------------------
EXTENDS BufferSync, TLC
CONSTANTS t1, t2
Symmetry == Permutations(Texts)
=============================================================================
