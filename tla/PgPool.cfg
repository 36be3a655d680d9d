\* Three threads and two outages: the enhanced pool just has room for all, and the
\* standard pool for no more than it may lose.
CONSTANTS
    Requests = {r1, r2, r3}
    MinEnh = 1
    MaxEnh = 4
    MinStd = 1
    MaxStd = 12
    MaxOutages = 2
SPECIFICATION Spec
SYMMETRY Symmetry
INVARIANTS
    NoEnhancedLoss
    StandardLossBounded
    NeverExhausted
