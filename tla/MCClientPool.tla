---------------------------- MODULE MCClientPool ----------------------------
EXTENDS ClientPool, TLC

\* Session objects, loops and callers are interchangeable.
Interchangeable == Permutations(Slots) \cup Permutations(Loops) \cup Permutations(Runners)
=============================================================================
