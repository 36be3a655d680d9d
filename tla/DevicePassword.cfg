\* Two overlapping requests and three resets of the first password.
CONSTANTS
    Requests = {r1, r2}
    MaxPasswords = 4
    TokenLife = 2
    MaxResets = 1
    Window = 2
    NoTtl = NoTtl
SPECIFICATION Spec
SYMMETRY Symmetry
INVARIANTS
    UsedTokenRefused
    ViewsBounded
    ResetTakesEffect
    ResetsBounded
PROPERTIES
    StaysGuarded
