\* Two overlapping requests, two codes, one of them put back, and three passwords;
\* the system may stop, as a deleted user has nothing left to ask for.
CONSTANTS
    Requests = {r1, r2}
    MaxCodes = 2
    MaxReturned = 1
    MaxAccepted = 3
    MaxPasswords = 3
SPECIFICATION Spec
SYMMETRY Symmetry
CHECK_DEADLOCK FALSE
INVARIANTS
    UsedSessionRefused
    SessionUsesBounded
    GrantsNeedCodes
    ActiveIsVerified
    ReplacedIsRefused
PROPERTY
    KeepsRegister
