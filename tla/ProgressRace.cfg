SPECIFICATION Spec
CONSTANTS
    w1 = w1
    w2 = w2
    Workers = {w1, w2}
    Total = 5
    Size <- MCSize
    Buckets = 3
SYMMETRY Symmetry
INVARIANT
    SafeForConcurrentUse
