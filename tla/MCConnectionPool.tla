-------------------------- MODULE MCConnectionPool --------------------------
EXTENDS ConnectionPool, TLC
Symmetry == Permutations(Conns)
=============================================================================
