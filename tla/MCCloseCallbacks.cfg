SPECIFICATION Spec
CONSTANTS
    Users = {u1, u2}
    Keys = {k1, k2, k3, slice}
    Comparable = {k1, k2, k3}
    Calls = {f, g}
    Nodes = {n1, n2, n3}
    u1 = u1
    u2 = u2
    k1 = k1
    k2 = k2
    k3 = k3
    slice = slice
    f = f
    g = g
    n1 = n1
    n2 = n2
    n3 = n3
SYMMETRY Interchangeable
INVARIANTS
    ListSound
PROPERTY
    RefinesRegistry
