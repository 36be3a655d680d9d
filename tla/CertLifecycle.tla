---------------------------- MODULE CertLifecycle ----------------------------
(***************************************************************************)
(* The certificate record of ONE device, and the API requests that change  *)
(* it concurrently: revoke, bulk revoke, issue, legacy renew and CSR       *)
(* signing.  Every request reads the record once, talks to Vault and then  *)
(* writes the record by _id; each of those calls is a step of its own, so  *)
(* any two requests can interleave between them.                           *)
(*                                                                         *)
(* Two gates read what the requests write: the broker with its auth        *)
(* webhook (its cached CRL, then certificate_status) and the HTTPS mTLS    *)
(* check (certificate_status, then the pinned serial).                     *)
(***************************************************************************)
EXTENDS Integers, FiniteSets

CONSTANTS
    Workers,            \* API requests in flight at the same time
    Serials,            \* certificate serial numbers
    NoSerial,           \* the record has no certificate_serial
    LegacyRoleIssues    \* whether Vault lets role device-cert issue keys

ASSUME NoSerialAssumption == NoSerial \notin Serials
ASSUME LegacyRoleAssumption == LegacyRoleIssues \in BOOLEAN

VARIABLES
    minted,         \* serials of every certificate ever made
    issued,         \* serials of the certificates Vault has issued
    vaultRevoked,   \* serials revoked in Vault's pki-int mount
    crl,            \* the broker's cached copy of Vault's CRL
    serial,         \* devices.certificate_serial
    status,         \* devices.certificate_status
    hasPem,         \* devices.certificate_info.certificate is non-empty
    revocationLog,  \* collection certificate_revocation_log
    superseded,     \* history: serials replaced by a revoke_old signing
    pc,             \* the next call of each request
    old,            \* the serial a request read when it started
    new,            \* the serial Vault (or the local CA) gave a request
    auto            \* whether a signing request revokes the old serial

record == <<serial, status, hasPem>>
vault == <<minted, issued, vaultRevoked>>
locals == <<pc, old, new, auto>>
vars == <<vault, crl, record, revocationLog, superseded, locals>>

SerialOrNone == Serials \union {NoSerial}

PCs == {"idle", "revoke_vault", "revoke_flip", "revoke_log",
        "bulk_flip", "bulk_log", "issue", "issue_store",
        "renew", "renew_info", "renew_summary",
        "sign", "sign_store", "sign_log", "sign_revoke"}

TypeOK ==
    /\ minted \subseteq Serials
    /\ issued \subseteq minted
    /\ vaultRevoked \subseteq issued
    /\ crl \subseteq vaultRevoked
    /\ serial \in SerialOrNone
    /\ status \in {"pending", "valid", "revoked"}
    /\ hasPem \in BOOLEAN
    /\ revocationLog \subseteq [serial : SerialOrNone, vault : BOOLEAN]
    /\ superseded \subseteq Serials
    /\ pc \in [Workers -> PCs]
    /\ old \in [Workers -> SerialOrNone]
    /\ new \in [Workers -> SerialOrNone]
    /\ auto \in [Workers -> BOOLEAN]

Init ==
    /\ minted = {} /\ issued = {} /\ vaultRevoked = {} /\ crl = {}
    /\ serial = NoSerial /\ status = "pending" /\ hasPem = FALSE
    /\ revocationLog = {}
    /\ superseded = {}
    /\ pc = [w \in Workers |-> "idle"]
    /\ old = [w \in Workers |-> NoSerial]
    /\ new = [w \in Workers |-> NoSerial]
    /\ auto = [w \in Workers |-> FALSE]

-----------------------------------------------------------------------------
(* Steps shared by the requests.                                            *)

GoTo(w, from, to) == pc[w] = from /\ pc' = [pc EXCEPT ![w] = to]

\* The request returns (or raises) and its local variables are gone.
Ends(w) ==
    /\ pc' = [pc EXCEPT ![w] = "idle"]
    /\ old' = [old EXCEPT ![w] = NoSerial]
    /\ new' = [new EXCEPT ![w] = NoSerial]
    /\ auto' = [auto EXCEPT ![w] = FALSE]

\* What find_one saw of the record, kept in a local variable of the request.
Remember(w, s) == old' = [old EXCEPT ![w] = s]

\* pki-int/issue or pki-int/sign answers with a certificate never seen before.
VaultIssues(w, s) ==
    /\ s \in Serials \ minted
    /\ minted' = minted \union {s}
    /\ issued' = issued \union {s}
    /\ new' = [new EXCEPT ![w] = s]
    /\ UNCHANGED vaultRevoked

\* pki-int/revoke: refuses a serial Vault never issued, accepts one already
\* revoked; crl/rotate is best effort, so when the CRL shows it is RefreshCrl's.
RevokeSerialInVault(s) ==
    /\ s \in issued
    /\ vaultRevoked' = vaultRevoked \union {s}
    /\ UNCHANGED <<minted, issued>>

\* Mutant: the write uses the wording of the API's answer for the status.
StoreCertificate_AnswerStatus(w, pem) ==
    serial' = new[w] /\ status' = "active" /\ hasPem' = pem

\* Mutant: an in-place renewal that extends dates and keeps the serial.
StoreCertificate_InPlace(w, pem) ==
    UNCHANGED serial /\ status' = "valid" /\ hasPem' = pem

\* devices.update_one({_id}, {$set: serial, status valid, certificate_info}).
StoreCertificate(w, pem) ==
    /\ serial' = new[w]
    /\ status' = "valid"
    /\ hasPem' = pem

\* devices.update_one({_id}, {$set: {certificate_status: revoked, ...}}).
FlipRecord ==
    /\ status' = "revoked"
    /\ UNCHANGED <<serial, hasPem>>

-----------------------------------------------------------------------------
(* revoke_device_certificate: Vault first, then the record, then the log.   *)

\* Mutant: without a Vault client the revocation falls back to the record only.
StartRevoke_RecordOnly(w) ==
    /\ serial # NoSerial
    /\ \E next \in {"revoke_vault", "revoke_flip"} : GoTo(w, "idle", next)
    /\ Remember(w, serial)
    /\ UNCHANGED <<vault, crl, record, revocationLog, superseded, new, auto>>

StartRevoke(w) ==
    /\ serial # NoSerial
    /\ GoTo(w, "idle", "revoke_vault")
    /\ Remember(w, serial)
    /\ UNCHANGED <<vault, crl, record, revocationLog, superseded, new, auto>>

\* Mutant: a Vault error is logged and the revocation goes on.
RevokeInVault_FailsOpen(w) ==
    /\ GoTo(w, "revoke_vault", "revoke_flip")
    /\ \/ RevokeSerialInVault(old[w])
       \/ UNCHANGED vault
    /\ UNCHANGED <<crl, record, revocationLog, superseded, old, new, auto>>

RevokeInVault(w) ==
    /\ GoTo(w, "revoke_vault", "revoke_flip")
    /\ RevokeSerialInVault(old[w])
    /\ UNCHANGED <<crl, record, revocationLog, superseded, old, new, auto>>

FlipStatus(w) ==
    /\ GoTo(w, "revoke_flip", "revoke_log")
    /\ FlipRecord
    /\ UNCHANGED <<vault, crl, revocationLog, superseded, old, new, auto>>

LogRevocation(w) ==
    /\ pc[w] = "revoke_log" /\ Ends(w)
    /\ revocationLog' = revocationLog \union {[serial |-> old[w], vault |-> TRUE]}
    /\ UNCHANGED <<vault, crl, record, superseded>>

-----------------------------------------------------------------------------
(* perform_bulk_operation('revoke'): the record and the log, never Vault.   *)

StartBulkRevoke(w) ==
    /\ GoTo(w, "idle", "bulk_flip")
    /\ Remember(w, serial)
    /\ UNCHANGED <<vault, crl, record, revocationLog, superseded, new, auto>>

BulkFlip(w) ==
    /\ GoTo(w, "bulk_flip", "bulk_log")
    /\ FlipRecord
    /\ UNCHANGED <<vault, crl, revocationLog, superseded, old, new, auto>>

BulkLog(w) ==
    /\ pc[w] = "bulk_log" /\ Ends(w)
    /\ revocationLog' = revocationLog \union {[serial |-> old[w], vault |-> FALSE]}
    /\ UNCHANGED <<vault, crl, record, superseded>>

-----------------------------------------------------------------------------
(* issue_device_certificate, also the first choice of the renew endpoint.   *)

StartIssue(w) ==
    /\ GoTo(w, "idle", "issue")
    /\ UNCHANGED <<vault, crl, record, revocationLog, superseded, old, new, auto>>

IssueInVault(w) ==
    /\ GoTo(w, "issue", "issue_store")
    /\ \E s \in Serials : VaultIssues(w, s)
    /\ UNCHANGED <<crl, record, revocationLog, superseded, old, auto>>

\* No Vault client: a local CA makes the certificate, Vault never hears of it.
IssueLocally(w) ==
    /\ GoTo(w, "issue", "issue_store")
    /\ \E s \in Serials \ minted :
          /\ minted' = minted \union {s}
          /\ new' = [new EXCEPT ![w] = s]
    /\ UNCHANGED <<issued, vaultRevoked, crl, record, revocationLog,
                   superseded, old, auto>>

IssueStore(w) ==
    /\ pc[w] = "issue_store" /\ Ends(w)
    /\ StoreCertificate(w, FALSE)
    /\ UNCHANGED <<vault, crl, revocationLog, superseded>>

\* The renew endpoint answers an issue error with the legacy renewal.
FallBackToRenew(w) ==
    /\ pc[w] \in {"issue", "issue_store"}
    /\ pc' = [pc EXCEPT ![w] = "renew"]
    /\ new' = [new EXCEPT ![w] = NoSerial]
    /\ UNCHANGED <<vault, crl, record, revocationLog, superseded, old, auto>>

-----------------------------------------------------------------------------
(* renew_device_certificate: the PKI service writes the record, then the    *)
(* caller writes it again with the same serial.                             *)

RenewIssue(w) ==
    /\ LegacyRoleIssues
    /\ GoTo(w, "renew", "renew_info")
    /\ \E s \in Serials : VaultIssues(w, s)
    /\ UNCHANGED <<crl, record, revocationLog, superseded, old, auto>>

\* _store_certificate_info swallows every error, so the write may not happen.
RenewStoreInfo(w) ==
    /\ GoTo(w, "renew_info", "renew_summary")
    /\ \/ StoreCertificate(w, hasPem)
       \/ UNCHANGED record
    /\ UNCHANGED <<vault, crl, revocationLog, superseded, old, new, auto>>

RenewStoreSummary(w) ==
    /\ pc[w] = "renew_summary" /\ Ends(w)
    /\ StoreCertificate(w, FALSE)
    /\ UNCHANGED <<vault, crl, revocationLog, superseded>>

-----------------------------------------------------------------------------
(* sign_device_csr: sign, store, log, and revoke the old serial last.       *)

StartSign(w) ==
    /\ GoTo(w, "idle", "sign")
    /\ Remember(w, IF hasPem THEN serial ELSE NoSerial)
    /\ \E revokeOld \in BOOLEAN : auto' = [auto EXCEPT ![w] = revokeOld]
    /\ UNCHANGED <<vault, crl, record, revocationLog, superseded, new>>

SignInVault(w) ==
    /\ GoTo(w, "sign", "sign_store")
    /\ \E s \in Serials : VaultIssues(w, s)
    /\ UNCHANGED <<crl, record, revocationLog, superseded, old, auto>>

\* Mutant: the old serial is read again after the record was replaced.
SignStore_RereadsOld(w) ==
    /\ GoTo(w, "sign_store", "sign_log")
    /\ StoreCertificate(w, TRUE)
    /\ Remember(w, serial')
    /\ superseded' = superseded \union
          IF auto[w] /\ serial # NoSerial THEN {serial} ELSE {}
    /\ UNCHANGED <<vault, crl, revocationLog, new, auto>>

SignStore(w) ==
    /\ GoTo(w, "sign_store", "sign_log")
    /\ StoreCertificate(w, TRUE)
    /\ superseded' = superseded \union
          IF auto[w] /\ serial # NoSerial THEN {serial} ELSE {}
    /\ UNCHANGED <<vault, crl, revocationLog, old, new, auto>>

SignLog(w) ==
    /\ \/ /\ auto[w] /\ old[w] # NoSerial
          /\ GoTo(w, "sign_log", "sign_revoke")
          /\ UNCHANGED <<old, new, auto>>
       \/ /\ ~(auto[w] /\ old[w] # NoSerial)
          /\ pc[w] = "sign_log" /\ Ends(w)
    /\ UNCHANGED <<vault, crl, record, revocationLog, superseded>>

SignRevokeOld(w) ==
    /\ pc[w] = "sign_revoke" /\ Ends(w)
    /\ RevokeSerialInVault(old[w])
    /\ UNCHANGED <<crl, record, revocationLog, superseded>>

-----------------------------------------------------------------------------
(* Vault issued, but the answer was lost or refused: the request tries the  *)
(* next attempt or role (or fails), and the certificate is recorded nowhere. *)

AnswerLost(w) ==
    /\ \/ pc[w] \in {"issue", "sign"}
       \/ pc[w] = "renew" /\ LegacyRoleIssues
    /\ \E s \in Serials \ minted :
          /\ minted' = minted \union {s}
          /\ issued' = issued \union {s}
    /\ UNCHANGED <<vaultRevoked, crl, record, revocationLog,
                   superseded, locals>>

(* A call of the request fails (Vault or MongoDB error, or the process      *)
(* dies): the request ends where it is and nothing it did is undone.        *)

RequestFails(w) ==
    /\ pc[w] # "idle" /\ Ends(w)
    /\ UNCHANGED <<vault, crl, record, revocationLog, superseded>>

(* Vault rebuilds its CRL (at once or on schedule) and the broker's refresh *)
(* timer fetches it.                                                        *)

RefreshCrl ==
    /\ crl' = vaultRevoked
    /\ UNCHANGED <<vault, record, revocationLog, superseded, locals>>

Request(w) ==
    \/ StartRevoke(w) \/ RevokeInVault(w) \/ FlipStatus(w) \/ LogRevocation(w)
    \/ StartBulkRevoke(w) \/ BulkFlip(w) \/ BulkLog(w)
    \/ StartIssue(w) \/ IssueInVault(w) \/ AnswerLost(w)
    \/ IssueLocally(w) \/ IssueStore(w) \/ FallBackToRenew(w)
    \/ RenewIssue(w) \/ RenewStoreInfo(w) \/ RenewStoreSummary(w)
    \/ StartSign(w) \/ SignInVault(w) \/ SignStore(w) \/ SignLog(w)
    \/ SignRevokeOld(w)
    \/ RequestFails(w)

Next == RefreshCrl \/ \E w \in Workers : Request(w)

Spec == Init /\ [][Next]_vars

\* The broker's refresh timer (15 minutes) keeps running; no request is ever
\* obliged to finish.
FairSpec == Spec /\ WF_vars(RefreshCrl)

-----------------------------------------------------------------------------
(* The gates.                                                               *)

\* Mutant: a listener with CRL checking switched off.
MqttAccepts_NoCrl(s) == s \in issued /\ status # "revoked"

\* The broker's TLS handshake (chain and cached CRL), then the auth webhook:
\* status first, then the common name only - no serial is compared.
MqttAccepts(s) == s \in issued \ crl /\ status # "revoked"

\* Mutant: the serial of the record is not compared.
HttpAccepts_NoPin(s) == s \in issued /\ status # "revoked"

\* nginx verifies the chain without a CRL; the API then compares status and
\* the pinned serial, the latter only when the record has one.
HttpAccepts(s) ==
    /\ s \in issued
    /\ status # "revoked"
    /\ serial \in {s, NoSerial}

-----------------------------------------------------------------------------
(* Properties.                                                              *)

\* A log entry that says vault_revoked is about a serial Vault has revoked:
\* no interleaving or failure makes revoke_device_certificate log a
\* revocation that is enforced nowhere.
LoggedRevocationsHold ==
    \A e \in revocationLog : e.vault => e.serial \in vaultRevoked

\* Once any revocation of a serial is on record (single or bulk), the HTTPS
\* gate refuses that serial, whatever is issued, signed or revoked around it.
HttpDeniesLogged ==
    \A e \in revocationLog : e.serial \in Serials => ~HttpAccepts(e.serial)

\* A signing request about to revoke the serial it superseded never names the
\* serial the record now carries, even when signings of the device overlap.
AutoRevokeSparesCurrent ==
    \A w \in Workers : pc[w] = "sign_revoke" => old[w] # serial

\* A revoked record becomes valid again only together with a certificate that
\* is not the revoked one and that Vault has not revoked.
ValidAgainOnlyWithFreshCert ==
    [][status = "revoked" /\ status' = "valid" =>
          serial' # serial /\ serial' \notin vaultRevoked']_vars

\* A revocation logged as done in Vault is eventually enforced by the broker
\* itself, even for a record that was made valid again meanwhile.
VaultRevocationReachesBroker ==
    \A s \in Serials :
        [serial |-> s, vault |-> TRUE] \in revocationLog ~> [](~MqttAccepts(s))

(* The inductive invariant behind the last four, for the shipped roles.     *)

\* The serial a request holds between Vault's answer and its write of the
\* record is known to nobody else: not in the record, not read by a request,
\* not held by another one, not revoked and not in the log.
Pending(w) == pc[w] \in {"issue_store", "sign_store"}

PendingIsFresh(w) ==
    /\ new[w] \in minted \ ({serial} \union vaultRevoked)
    /\ \A v \in Workers : old[v] # new[w] /\ (Pending(v) /\ v # w => new[v] # new[w])
    /\ \A e \in revocationLog : e.serial # new[w]

\* A serial a request or the log remembers was once in the record.
WasRecorded(s) == s \in Serials => s \in minted /\ serial # NoSerial

\* A serial that is gone from the record or revoked there stays refused.
Retired(s) == s \in Serials => status = "revoked" \/ serial # s

CertInv ==
    /\ \A w \in Workers : pc[w] \notin {"renew_info", "renew_summary"}
    /\ serial \in Serials => serial \in minted
    /\ \A w \in Workers :
          /\ WasRecorded(old[w])
          /\ Pending(w) => PendingIsFresh(w)
          /\ pc[w] \in {"revoke_log", "bulk_log"} => Retired(old[w])
          /\ pc[w] \in {"sign_log", "sign_revoke"} /\ old[w] \in Serials
                => serial # old[w]
          /\ pc[w] = "sign_revoke" => old[w] \in Serials
    /\ \A e \in revocationLog : WasRecorded(e.serial) /\ Retired(e.serial)

\* The requests and the broker together keep the promise of the revocation
\* endpoint: Vault's set is "revoked", the log entries marked vault_revoked
\* are "reported" and the broker's cached CRL is "enforced".
Promise == INSTANCE RevocationPromise WITH
    revoked <- vaultRevoked,
    reported <- {e.serial : e \in {x \in revocationLog : x.vault}},
    enforced <- crl

KeepsPromise == Promise!Spec

-----------------------------------------------------------------------------
(* What comments of the code claim and the code does not do.                *)

\* "a superseded cert must not survive in Vault": when no request is running,
\* every serial a revoke_old signing replaced is revoked.  Nothing has to fail for
\* it to be broken: an issued certificate has no PEM where the signing looks for
\* one, so it takes no old serial, revokes nothing and succeeds.
SupersededRevoked ==
    (\A w \in Workers : pc[w] = "idle") => superseded \subseteq vaultRevoked

\* "a device whose certificate has been revoked must NEVER authenticate even
\* if the CRL has not yet refreshed", for the certificate that was revoked.
RevokedNeverAuthenticates ==
    \A e \in revocationLog : ~MqttAccepts(e.serial)
=============================================================================
