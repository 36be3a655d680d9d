\* Two overlapping requests, two tokens; Redis fails and comes back, and the
\* shipped time zone is east of UTC.  Two logins go without a look at the counter.
CONSTANTS
    Requests = {r1, r2}
    Tokens = {t1, t2}
    MaxAttempts = 1
    Window = 2
    TokenLife = 4
    MaxSession = 4
    UtcOffset = 2
    NoTtl = NoTtl
    RedisFails = TRUE
    CallsFail = TRUE
    MaxBlind = 2
SPECIFICATION Spec
INVARIANTS
    RevokedTokenRefused
    SessionsEnd
    GuessesBounded
PROPERTIES
    LockoutEnds
