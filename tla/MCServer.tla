------------------------------ MODULE MCServer ------------------------------
EXTENDS Server, TLC

\* Close calls are interchangeable, and so are requests.
Interchangeable == Permutations(Closers) \cup Permutations(Handlers)
=============================================================================
