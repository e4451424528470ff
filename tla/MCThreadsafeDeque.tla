-------------------------- MODULE MCThreadsafeDeque --------------------------
\* Model values for the runs of ThreadsafeDeque.  The threads of one kind are
\* interchangeable, so the safety run is checked up to their permutation.
EXTENDS ThreadsafeDeque, TLC

CONSTANTS p1, p2, c1, c2, c3

MCSymmetry == Permutations({p1, p2}) \cup Permutations({c1, c2, c3})
=============================================================================
