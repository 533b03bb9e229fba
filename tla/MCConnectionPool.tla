-------------------------- MODULE MCConnectionPool --------------------------
EXTENDS ConnectionPool, TLC

Sym == Permutations(Conns) \cup Permutations(Keys)

=============================================================================
