----------------------------- MODULE MCDistLock -----------------------------
EXTENDS DistLock, TLC

Symmetry == Permutations(Proc)

\* ExclusiveUnlessOpened promises nothing once a document has been opened
\* beside an attempt: those states need not be followed.
NotOpened == ~opened

\* The bound on three IDs and a failed request together: behaviours are followed
\* with a third ID or with an error.
ErrorOrThirdID == errors = 0 \/ owner[MaxTs] = NoProc
=============================================================================
