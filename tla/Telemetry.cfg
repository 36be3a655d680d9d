\* Two overlapping requests, a retry, and an entry under either name of the
\* device; liveness, so without symmetry.
CONSTANTS
    Requests = {r1, r2}
    Keys = {byId, byObjectId}
    DeviceKeys = {byId}
    MaxReadings = 2
    MaxAttempts = 2
    Ttl = 2
    NoKey = NoKey
SPECIFICATION Spec
INVARIANTS
    StaleHasCause
    CopiesBounded
PROPERTIES
    EventuallyShown
    EventuallyForgotten
