------------------------------ MODULE MCQLock ------------------------------
EXTENDS QLock, TLC

NoTry == AllOps \ {"lock_W_try"}

Symmetry == Permutations(Thread)
=============================================================================
