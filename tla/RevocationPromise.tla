-------------------------- MODULE RevocationPromise --------------------------
(***************************************************************************)
(* What the revocation endpoint promises about certificates, leaving out   *)
(* records, requests and failures: a serial is revoked for good, only a    *)
(* revoked serial is ever reported as revoked, and the broker eventually   *)
(* refuses every revoked serial.                                           *)
(***************************************************************************)
CONSTANT Serials

VARIABLES
    revoked,        \* revoked in Vault
    reported,       \* reported as revoked in Vault
    enforced        \* refused by the broker

pvars == <<revoked, reported, enforced>>

Init == revoked = {} /\ reported = {} /\ enforced = {}

Revoke(s) ==
    /\ revoked' = revoked \union {s}
    /\ UNCHANGED <<reported, enforced>>

Report(s) ==
    /\ s \in revoked
    /\ reported' = reported \union {s}
    /\ UNCHANGED <<revoked, enforced>>

Enforce ==
    /\ enforced' = revoked
    /\ UNCHANGED <<revoked, reported>>

Next == Enforce \/ \E s \in Serials : Revoke(s) \/ Report(s)

SafeSpec == Init /\ [][Next]_pvars

Spec == SafeSpec /\ WF_pvars(Enforce)
=============================================================================
