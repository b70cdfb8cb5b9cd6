SPECIFICATION Spec
CONSTANTS
    c1 = c1
    c2 = c2
    Contexts = {c1, c2, c3, c4, c5, c6, c7}
    PidOf <- ReusedPid
    Priorities = {0, 1}
    PriorityChanges = {1}
    MaxSeq = 6
    MaxRekey = 3
    None = None
SYMMETRY Interchangeable
INVARIANTS HeapOrdered
PROPERTIES ImplementsContract
