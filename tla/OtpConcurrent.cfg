CONSTANTS
    Requests = {r1, r2}
    Codes = {c1, c2}
    NoOtp = NoOtp
    MaxAttempts = 2
    OtpWindow = 2
    Cooldown = 1
    UserLimit = 1
    RateWindow = 1
    MaxTime = 2
    RedisErrors = TRUE
SPECIFICATION Spec
SYMMETRY Symmetry
INVARIANTS
    NoEarlyLockout
    AcceptsBounded
CHECK_DEADLOCK FALSE
PROPERTY
    KeepsRegister
