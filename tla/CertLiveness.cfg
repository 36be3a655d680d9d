\* Fair CRL refresh, two certificates, and a Vault whose device-cert role
\* issues keys, so that the legacy renewal runs to its end.
CONSTANTS
    Workers = {w1, w2}
    Serials = {s1, s2}
    NoSerial = NoSerial
    LegacyRoleIssues = TRUE
SPECIFICATION FairSpec
PROPERTIES
    KeepsPromise
    VaultRevocationReachesBroker
CHECK_DEADLOCK FALSE
