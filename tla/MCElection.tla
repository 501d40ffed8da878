----------------------------- MODULE MCElection -----------------------------
EXTENDS Election, TLC

Symmetry == Permutations(Electable)

\* bound: behaviours are followed up to a restart within a lease.
LeasesKept == ~forgotten
=============================================================================
