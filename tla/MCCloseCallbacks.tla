-------------------------- MODULE MCCloseCallbacks --------------------------
EXTENDS CloseCallbacks, TLC

\* Users, nodes, functions and comparable keys are interchangeable.
Interchangeable ==
    Permutations(Users) \cup Permutations(Nodes) \cup Permutations(Calls)
        \cup Permutations(Comparable)
=============================================================================
