\* Two workers, two claimants and an administrator of the environment, whose user
\* name a claimant may choose; every count and every read of the flag may fail.
CONSTANTS
    Workers = {w1, w2}
    Claimants = {e1, e2}
    EnvAdmins = {e3}
    WizardNames = {n1, n2}
    EnvName = n1
    NoPassword = NoPassword
    FlagFails = TRUE
    CountFails = TRUE
SPECIFICATION Spec
SYMMETRY Symmetry
INVARIANTS
    ClaimsPerPerson
    UnownedFlagIsMisjudged
    OwnersCanLogIn
