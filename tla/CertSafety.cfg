\* Two requests at once, three certificates, roles as shipped.
CONSTANTS
    Workers = {w1, w2}
    Serials = {s1, s2, s3}
    NoSerial = NoSerial
    LegacyRoleIssues = FALSE
SPECIFICATION Spec
SYMMETRY Symmetry
INVARIANTS
    TypeOK
    LoggedRevocationsHold
    HttpDeniesLogged
    AutoRevokeSparesCurrent
PROPERTIES
    ValidAgainOnlyWithFreshCert
CHECK_DEADLOCK FALSE
