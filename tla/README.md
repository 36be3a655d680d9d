# TLA+ models of the TESAIoT Community Edition

Specifications, TLC runs and machine-checked proofs for the parts of the
platform whose correctness depends on the order in which requests, processes
and failing services take their steps. `PROJECT.json` maps every definition to
the lines it models and lists the runs, mutants, findings, hazards and theorems.
Paths below are relative to `src/`; `api/` stands for `services/api/api/`.

    tlc -config CertSafety.cfg MCCertLifecycle.tla     # one run
    tlapm CertLifecycleProofs.tla                      # one proof module

## 1. Inventory

The API is a Flask application under gunicorn: 4 worker processes of 2 threads
each (`services/api/Dockerfile:72-81`), so up to eight requests are in flight
and no Python lock spans them. Its state is in MongoDB (records), Redis (OTPs,
caches, blacklists), TimescaleDB (telemetry) and Vault (PKI, passwords).
MongoDB is used without transactions: what a request does in several calls,
other requests can come between, and a request that fails half-way leaves what
it has done. Devices reach the system through EMQX (MQTT over mTLS or
password) and APISIX/nginx (HTTPS).

| Component | State | Operations | Talks to | What is hard | What must hold |
|---|---|---|---|---|---|
| Device certificates (`api/services/certificate_service.py`, `device_service.py`, `pki_provisioning_service.py`) | `devices.certificate_*`, revocation log, Vault's PKI | revoke, bulk revoke, issue, renew, sign CSR | Vault, MongoDB | several calls per request, lost answers, overlapping requests | a reported revocation is enforced; the current certificate is never revoked by mistake |
| MQTT auth webhook (`api/services/mqtt_auth_service.py`) | reads the above | connect, ACL | EMQX | stale CRL in the broker | revoked devices stay out |
| HTTPS auth (`api/core/auth.py`) | reads the above; token blacklist | mTLS, JWT, API key | nginx | record changes under a check | revoked serials stay out |
| OTP service (`api/services/otp_service.py`) | Redis keys: OTP, cooldown, rate limits | generate, resend, verify | Redis, mail | read-modify-write over Redis, expiry, errors that fail open | used once, bounded guesses, no early lockout |
| OTP endpoints (`api/controllers/otp_auth.py`) | OTP session, users | send, verify, set, reset | OTP service, Vault | OTP consumed before later checks fail | a rejected password costs nothing; a session is used once |
| First-run setup (`api/controllers/setup.py`, `api/services/setup_state.py`, boot code in `database_init_service.py`) | users, Vault passwords, completion flag | claim, seed, backfill | MongoDB, Vault | concurrent claims, crash between calls, reads that fail | nobody claims twice; owners can log in; closed without one only by a misjudged boot |
| MQTT bridge (`services/mqtt-bridge/mqtt_telemetry_bridge.py`) | connection, token, statistics | login, connect, forward, reload | EMQX, API | 401 retries, lost answers, reconnects, signals | nothing twice, everything accounted for, comes back |
| Device records and passwords (`device_service.py`) | devices | create, update, delete, password reset, one-time retrieval | MongoDB, Redis | lost updates, non-atomic one-time token | a reset password is shown once |
| Telemetry ingestion and cache (`device_service.py`, `telemetry_cache_service.py`) | TimescaleDB, MongoDB, cache | ingest, query, delete | both | retries, stale set after invalidate | copies bounded by retries; the cache stale only for a reason, and never for longer than its life |
| CSR workflow (`csr_workflow_service.py`, `emqx_events_webhook.py`) | workflow documents | start, update step | EMQX events | late or repeated events | a finished workflow stays finished |
| Sessions, users, API keys (`core/auth.py`, `user_service.py`) | tokens, lockout counters | login, logout, refresh | Redis, Vault | blacklist reads that fail open or closed | a logged-out token stays out |
| Pools and circuit breakers (`core/database.py`, `connection_pool.py`, `tolerance_methods/retry.py`) | connections, fallback flag, breaker state | acquire, release, health check | PostgreSQL | outages, slow connections, slots lost on error paths | the enhanced pool loses no slot and is never exhausted; what the standard pool loses is bounded |
| Audit, notifications, reports; admin UI; deployment files | – | – | – | write-only, presentation, configuration | not modelled |
| Dormant modules (bulk operations service, fault tolerance service, worker pool) | – | – | – | no route reaches them | not modelled |

## 2. Modules

| Module | Role |
|---|---|
| `CertLifecycle` | one device's certificate record, the five kinds of request that change it, Vault, the broker's CRL, and the two gates that read them |
| `RevocationPromise` | what the revocation endpoint promises, without records, requests or failures; `CertLifecycle` implements it (`KeepsPromise`) |
| `OTPService` | one identifier's Redis keys and the OTP requests that use them, with a clock |
| `OtpRegister` | the one-time code as its users know it, without clock, counters and limits; `OTPService` and `OtpLogin` implement it (`KeepsRegister`) |
| `MqttBridge` | the bridge process, its network thread, the signal handler and the restart |
| `SetupClaim` | the API workers from boot to the end of a wizard claim |
| `OtpLogin` | one invited user's codes, OTP session and password writes, up to the login |
| `UserSessions` | one user's lockout counter, bearer tokens and blacklist |
| `DevicePassword` | one device's password: resets, one-time tokens, migration at login |
| `TelemetryStore` | one device's readings in MongoDB and in the query cache |
| `PgPool` | the two PostgreSQL pools of one worker process |
| `MC...` | symmetry for TLC; `...Proofs`: the theorems |

### CertLifecycle

One device is enough: no request touches two records in a way that relates
them (bulk revoke loops over devices, one write each). A *worker* is a request
in flight; `pc` is its next external call and `old`, `new`, `auto` are its local
variables. Each Vault or MongoDB call is one action; Python between two calls
belongs to the action before it.

* **revoke** (`device_service.py:1994`): `StartRevoke` reads the serial,
  `RevokeInVault` must succeed, then `FlipStatus`, `LogRevocation`.
* **bulk revoke** (`certificate_service.py:3203`): `BulkFlip`, `BulkLog`, no Vault.
* **issue** (`certificate_service.py:711`): `IssueInVault`, or `IssueLocally`
  when there is no Vault client, then `IssueStore`; the renew endpoint falls
  back to `FallBackToRenew` on an error.
* **legacy renew** (`pki_provisioning_service.py:54`, `device_service.py:1759`):
  writes the record twice. The shipped role `device-cert` has key type "any",
  for which Vault refuses to generate keys, hence `LegacyRoleIssues = FALSE` is
  the shipped configuration; `TRUE` is checked in `cert_liveness`.
* **sign CSR** (`certificate_service.py:3831`): sign, store, log and only then
  revoke the old serial, which was read first, and only if `certificate_info` held a
  PEM (`hasPem`); an issue stores the PEM in another field.
* `AnswerLost`: Vault issued, the client never learned the serial.
  `RequestFails`: any call fails or the process dies; nothing is undone.
* `RefreshCrl`: Vault's rebuild and the broker's fetch in one step.

`superseded` is a history variable. The gates are predicates of the state:
`MqttAccepts` (broker chain and CRL, then `certificate_status`; no serial is
compared) and `HttpAccepts` (chain, status, pinned serial; no CRL).

### OTPService

Every Redis call is an action. `Tick` is one second, in which Redis drops
expired keys. Codes are drawn without repetition (two equal random codes in a
row are left out). The limits per IP and per platform run the code of the
user limit on other keys and are a free choice to refuse. An exception leaves
at most the calls already made; where the code catches it and goes on, so does the
model (`SkipUserLimit`, `DropFails`, `SetCooldown`). `sent`, `accepted` and `tries`
are history variables; a code is `sent` when it is stored, and its mail may fail
afterwards. Seen as `OtpRegister`, the pending code is the key while its
status is "pending" (`Held`), a right guess is held between get and delete
(`Right`), and a wrong one holds the record it will write back (`Copies`).

### MqttBridge

`phase` is where `start_bridge` is; `thread`, `kind`, `logins`, `posts` belong to
paho's network thread, which handles one message at a time. `Restart` is the
container's restart policy. `link = "closed"` is a connection closed by
`disconnect()`: paho's loop thread then ends. The shipped compose file runs no
vault agent beside the bridge; with `config/vault-agent/mqtt-bridge-vault-agent.hcl`
(lines 40 and 48 send SIGHUP) `CertReloads` is `TRUE`. Sessions are clean, so a
message in hand at a crash is lost, and `AtMostOnce` is about one process life.

### SetupClaim

A worker boots (`BootReadFlag`, `BootCountAdmins`, seeding, `RecheckAdmins`,
backfill) and then serves claims (`StartClaim` ... `MarkCompleted`). The seeder
and the wizard share the calls that look for the email, write the Vault
credential and insert the user; `seeding` says who is making them. A password
is known by whose it is. `FlagFails` says whether reading the flag may fail,
which counts as a flag that is not set; `CountFails` says whether counting the
administrators may fail during a boot, which counts as an administrator that is
there (`AdminSeen`). Both may in the run. In a claim a failing count only refuses
(`StepRaises`). `claims` and `misjudged` are history variables: how often each
person was told that the instance is his, and whether a boot took a failing count
for an administrator where there was none.

### OtpLogin

The endpoints of `api/controllers/otp_auth.py` use what `OTPService` models, so
here the OTP record is only what they see of it: the code that is live, and
whether a verification under way still holds it (`ReadCode`, `GuessWrong`;
`CountGuess` writes the record back, `DeleteCode`). `MailCode` does not ask for the
user: `resend_otp` does not either. `returned`, `accepted`, `uses`, `resets`, `dead`
and `newest` are history variables. That this is a use of the code
which `OTPService` allows is the property `KeepsRegister`, in both modules. A success marks
the user verified and opens a session (`MarkVerified`, `OpenSession`), or resets the
password at once. `set-password` reads the session, finds the user, stores the
password and deletes the session last (`ReadSession` ... `CloseSession`). 
`useVault` says whether passwords go to Vault first; the shipped compose file sets
no `ENVIRONMENT`, which means development and bcrypt hashes in the user document.
`Accepts` is the login's check of the result (`api/controllers/auth.py:206`).

### UserSessions

A tick is half a second, because `blacklist_token` truncates the entry's life to
whole seconds, and the container's time zone (`docker-compose.yml:281`,
Asia/Bangkok) shifts what `utcnow().timestamp()` means: `UtcOffset`. `age` is what
a token claims (`session_start`), `lived` is the truth. `Peek` looks at the
lockout counter, `Record` counts after the password check, `ArmExpiry` is the
EXPIRE that follows the first INCR. Two settings exempt a user (`bypass`):
`ADMIN_BYPASS_RATE_LIMIT`, on as shipped (`docker-compose.yml:293`), leaves `Peek` out
for the administrator of the environment (`controllers/auth.py:182`), whose failures
are still recorded; `RATE_LIMIT_EMERGENCY_BYPASS` (`utils/validation.py:55`, off as
shipped) switches looking and counting off for all. Without Redis the checks are
skipped, and a process counts attempts in its own memory; the model takes that
memory to be empty. Logins that are let in for one of these reasons are counted in
`blind`, and bounded by `MaxBlind` for TLC.

### DevicePassword

Passwords are numbers in the order they are made. A reset stores a token in
Redis, then the hash, then an audit entry, counts itself and answers the token
(`PutToken` ... `AnswerToken`); a bundle (`server_tls_bundle.py:131`) goes on to
retrieve the password itself. `FindToken`, `DeleteToken`, `AnswerPassword` are the
retrieval; `StartDirect`, `WriteDirect` the reset that answers the password;
`PlainLogin`, `Migrate` the webhook's conversion of a plaintext password. A
device created for mTLS has no password, and switched to server TLS it lets
everybody in; that is an initial state, and `StaysGuarded` is about the others.

### TelemetryStore

A reading is a number. An ingestion may be retried as a whole (`Retry`), and
each attempt that reached the insert leaves a copy. A query looks into the
cache, reads MongoDB on a miss and stores what it read; an invalidation is a SCAN
and one DEL per key found. Redis errors are swallowed there and the ingestion is
answered as ever (`InvalidationFails`). `Expire` is the index that removes a reading
thirty days after its timestamp (`database_init_service.py:108`), which may be at
once, because the direct endpoints take the timestamp from the device. `answered`
and `behind` are history variables: readings whose ingestion was answered with
success, and entries that were out of date when they were put or that a failed
invalidation left so. The cache has entries under the device's identifier,
which the invalidation matches, and under its `_id`, which it does not.

### PgPool

A pool is the numbers of its idle, dead and lent connections. `Enter` takes from
the enhanced pool, `EndEnhanced` returns to it. An entry fails when there is no
connection to be had, and also when getting one took more than five seconds
(`connection_pool.py:233`; connecting may take ten): `BackOut` gives that one back.
Either flips the worker to the standard pool (`Flip`) for good, with PostgreSQL there
all the time in the second case. `Outage` breaks all connections, `Notice` is a
request learning that its own is broken. psycopg2's pools and PostgreSQL are
external definitions; the pool's order is abstracted to "an idle or a dead one".

## 3. Runs

| Run | Expect | Question | Bounds, and why they are enough |
|---|---|---|---|
| `cert_safety` | pass | Does any overlap or failure of requests break what the log and the gates promise? | 2 requests, 3 serials: a request reads one serial, replaces another and holds a third; requests are reusable, so histories are long. 3 million states |
| `cert_liveness` | pass | Is the abstract promise implemented, with liveness, also with `LegacyRoleIssues`? | 2 requests, 2 serials |
| `cert_superseded`, `cert_revoked_connects` | violation | Findings 1, 2: is a superseded certificate always revoked in Vault, does a revoked one never connect? | as `cert_safety` |
| `otp_concurrent` | pass | Are lost updates of the counter only ever lenient, how often can a code be accepted, and is the service the register its users take it for? | 2 requests, 2 codes, 2 attempts, a window of 2 and 2 ticks, failing Redis: a verification of a replaced code and an expiry between its calls both occur. 2.0 million states |
| `otp_login` | pass | What are codes exchanged for when verifications overlap or a code is put back, is a used session or an old password revived, and do the endpoints use the code as the service allows? | 2 requests, 2 codes of which 1 may be put back (`MaxReturned`), 3 accepted verifications before the last requests, 3 passwords: one code accepted twice, again after it was put back, and a session used twice next to a reset. 1.6 million states |
| `user_sessions` | pass | Does a barred token stay out, a session end, a lockout hold and end? | 2 requests, 2 tokens (a refresh needs two), an offset of one second, 2 logins without a look at the counter, with and without the bypasses; lives of one and two seconds, so that truncation matters. 1.9 million states |
| `device_password` | pass | Does an answered reset take effect, is a used token refused, is a guarded device ever open? | 2 requests, passwords for two overlapping resets after the first one |
| `telemetry` | pass | When is the cache stale and for how long; how many copies does a reading have? | 2 requests, 2 readings, 2 attempts, 2 cache keys, a life of 2 ticks: a late reader and a failed invalidation next to an ingestion |
| `pg_pool` | pass | Which slots are lost, and is the enhanced pool ever given up for being exhausted? | 3 threads and the health check, 2 outages and any number of slow connections, 4 connections in the enhanced pool (room for all, as the code's 50 for 2 threads) and 12 in the standard one, more than it may lose: 3 + 2 (1 + 3) |
| `bridge` | pass | Is everything counted, nothing sent twice or without a token, does every message end and a broken link come back? | the code's 3 logins and 2 posts, 4 messages per process life, any number of lives, with certificate reloads |
| `setup_overlap` | pass | Is anybody told twice that the instance is his, what sets the flag without an administrator, and what keeps an administrator from logging in? | 2 workers, 2 claimants, 1 administrator of the environment, 2 user names, one of them that of the environment; reading the flag and counting may fail. Two claimants on two workers, and either with a seeding boot |

The run of `CertLifecycle` checks `TypeOK`; for the other modules the theorems of
section 5 do, for all constants. The inductive invariants of section 5 are not in
the runs either: they are proved.

`CHECK_DEADLOCK FALSE` is set where requests stop because serials, codes,
passwords or readings are used up, or a deleted user or device has nothing left
to ask for. Where it is not set deadlock is checked.

### Fairness

* `WF(RefreshCrl)`: the broker refetches the CRL on a timer (15 minutes),
  independently of the API. No request of `CertLifecycle` is assumed to finish.
* `WF(Login \/ Post)`: every HTTP call of the bridge has a timeout, so its
  thread always gets an answer or an exception.
* `WF(OnConnect)`: paho's loop reconnects with a backoff of 1 to 30 seconds and
  the broker accepts in the end.
* `WF(Tick)` of `UserSessions` and `TelemetryStore`: time passes, and Redis drops
  keys in time. Of the requests of `UserSessions` nothing is assumed.
* `WF(Put \/ Dies)` at "put", for each request of `TelemetryStore`: a query that has
  its answer stores it or ends without. One that held an old answer for ever could
  put it at any time; the one call to Redis that is left has a socket timeout of
  five seconds (`api/core/database.py:236`). No other request is assumed to finish.

## 4. Findings and known departures

Each finding is a "violation" run; `PROJECT.json` quotes the contradicted text.

1. A signing that was told to revoke the old certificate replaces one that was issued
   and leaves it valid in Vault (`cert_superseded`). `issue_device_certificate` stores
   the PEM outside of `certificate_info`, where `sign_device_csr` looks for it before it
   takes the old serial (`certificate_service.py:3899-3901`); without that serial it
   revokes nothing (4290) and answers success. No call has to fail. The same promise
   ("a superseded cert must not survive in Vault", 4314) is broken in two more ways,
   when the signing fails after its write and when another request replaced the record
   in between; `ForgottenThreeWays` proves that these are all.
2. A certificate revoked in bulk passes the broker again after the next renewal
   (`cert_revoked_connects`).

Known departures, which the models contain but no run states, because one or two
steps show them:

* Two verifications that read before either deletes both accept one OTP, whatever
  "one-time use" (`otp_service.py:112`) says, and open two sessions with it; `AcceptsBounded`
  and `GrantsNeedCodes` say how often. So one mailed code can be worth as many grants as
  there are requests in flight, and as many again each time it is written back.
* A wrong guess at the moment of expiry gives an OTP a new window
  (`otp_service.py:210`, against the comment at 482), and one that was slower than
  the right guess brings the consumed code back (611).
* Overlapping wrong guesses of an OTP are counted once (`WriteAttempts`); OTP
  requests of the same second are one entry of the rate limit, and a refused one
  takes that entry out (`CheckUserLimit`, `DropHit`).
* After SIGHUP the bridge disconnects for good while its process lives on
  (`mqtt_telemetry_bridge.py:206`).
* Two people's overlapping setup claims both succeed and both get a 201, although the
  endpoint is to "Atomically claim the instance" (`setup.py:146`, 151); if they use one
  user name the second replaces the first one's password. A failing count at boot marks
  an unowned instance as set up (`setup_state.py:34-38`, `database_init_service.py:633`),
  which closes the wizard for good. All of it is in the run `setup_overlap`, whose
  properties say how far it goes: once for each person, by a shared name only, and
  after such a boot only.
* The lockout does not apply to the administrator of the environment while
  `ADMIN_BYPASS_RATE_LIMIT` is on, as it is in `docker-compose.yml:293`, nor to anybody
  under `RATE_LIMIT_EMERGENCY_BYPASS`; guesses at such a password are then not bounded
  (the limit per IP address has the same exemption). `GuessesBounded` is about the guesses that are looked at.
* A connection that took more than five seconds makes a worker give up the enhanced pool
  for good although PostgreSQL was never away (`connection_pool.py:233`,
  `database.py:718`); the pool's `connect_timeout` is ten.
* A failed invalidation is only logged (`telemetry_cache_service.py:220`), and the ingestion
  answers success over a stale entry, which lives on for its five minutes.
* Without a Vault client `IssueLocally` records a certificate no CRL can name.
* With Vault, the password set after an OTP is stored where the login does not
  look (`otp_auth.py:333`); the ticket flow always ends with a refusal (526).
* A counter whose EXPIRE was lost locks the account, or the resets of a device,
  for good (`utils/validation.py:307`, `devices.py:2998`).
* The last failing attempt of an ingestion may have stored the reading
  (`device_service.py:1719`); an ingestion in flight outlives a deletion (1644).
* A workflow step can be set back by a late event (`csr_workflow_service.py:525`).

## 5. Proofs

For every value of the constants that satisfies the named assumptions:

* `CertLifecycleProofs`. `TypeCorrect`. `LoggedRevocationsAreHeld` rests on
  `RevocationInv`: a request past its Vault call holds a serial in
  `vaultRevoked`, which only grows. `PromiseIsKept`: the same invariant shows
  that every step is a step of `RevocationPromise` or a stutter (safety part).
  `RefreshEnforces`: a refresh of the CRL refuses all that was logged by then, and
  what it refuses stays refused; with the timer that is
  `VaultRevocationReachesBroker`.
  `LoggedAreDenied`, `CurrentIsSpared`, `ValidAgainIsFresh` and
  `BrokerGapIsReissue` follow from `CertInv`, under `~LegacyRoleIssues`: a serial
  between Vault's answer and the record write is known to nobody else
  (`PendingIsFresh`), and a serial gone from the record or revoked there never
  comes back (`Retired`). With `LegacyRoleIssues` the renewal's second write can
  undo a bulk revocation made between its writes, so the assumption is needed.
  `BrokerGapIsReissue` is what is true instead of finding 2: a logged serial gets
  past the broker only while the device has another certificate.
  `ForgottenThreeWays` and `OthersAreRevoked` are what is true instead of finding 1:
  a signing leaves the old certificate valid only if it fails before its last call
  (`FailsInCharge`), its first read found no PEM in `certificate_info` (`ReadNone`, the
  one TLC shows) or the record was replaced between that read and its write
  (`ReadAnother`); where none of these happens, every superseded certificate is
  revoked or about to be (`InCharge`).
* `OTPServiceProofs`. `TypeCorrect`; `GuessesAreCounted` and
  `NobodyLockedOutEarly`: neither the stored counter nor a copy about to be
  written back runs ahead of the wrong guesses of its code.
  `AcceptancesArePaidFor`: the verifications that are about to accept count in
  (`AcceptInv`), a code can come back only by a wrong guess, and only as many
  verifications as there are requests can hold it each time.
  `ServiceKeepsRegister`: every step is a step of `OtpRegister` or a stutter.
* `OtpLoginProofs`. `LoginKeepsRegister`, the same refinement from the side of the
  users: the login endpoints take of the code nothing that `OTPService` does not
  give. `TypeCorrect`, and the other properties of the run, from
  `LoginInv`: accepted verifications pay for the ones in progress, the sessions and
  the resets (`CodesInv`), and each code that was mailed or put back pays for one
  verification of every request, none of them used while it is pending (`PaidInv`, from
  which `GrantsArePaidFor`); a session is known only after it was opened, and
  used only while it is there (`SessionsInv`); sessions and setups come after a
  verification (`VerifiedInv`); what was replaced is not the hash in the document,
  unless Vault has the newer password (`EffectInv`).
* `SetupClaimProofs`. `TypeCorrect`, and the properties of the run for any number of
  workers and claimants and whether or not reads of the flag and counts can fail.
  `UnownedFlagsAreMisjudged` from `MarkInv`: whoever is about to write the flag has seen
  an administrator, or has misjudged a failing count. `EachClaimsOnce` from `ClaimInv`:
  the unique index lets each person's e-mail address in once, so a claim about to be
  answered is the first one of that person. `OwnersLogInUnlessReplaced` from `PasswordInv`:
  the credential precedes the user, and a password is only ever replaced by another
  one. `OwnersLogInUnlessShared`, from `CredentialInv`: owners can log in, without that
  exception, as long as no two people chose one name (`NoSharedNames`).
  `SeparateOwnersLogIn` discharges that hypothesis for one claimant and one
  environment administrator of another name (`NamesInv`).
* `UserSessionsProofs`. `TypeCorrect`. `SessionsAreFinite`, for a time zone that is
  not west of UTC, from `AgeInv` (`ClaimsAreOldEnough`): a token claims at least
  its true age, and refreshes carry the claim. `LogoutHolds`, at least a second
  east of UTC, from `BlacklistInv` (`EntriesOutliveTokens`): the offset outweighs
  the truncation. With `UtcOffset = 0` it fails, by less than a second.
  `LockoutIsTight`: the logins between look and count are in the bound, and so are those
  let in without a look (`blind`), which under a bypass are not bounded by anything.
  `LockoutRunsOut`: what is left of a lockout that has an expiry, with a window for
  each EXPIRE still to come (`Rest`), is lessened by every tick and grows by no
  step; with the clock that is `LockoutEnds`.
* `DevicePasswordProofs`. `TypeCorrect`, and the five properties of the run, from
  `PasswordInv` (`Inductive`): nothing above the counter is known (`MadeInv`), a
  password still to be written is nowhere else (`PendingInv`), a used token is
  gone (`TokenInv`), and what was replaced is not in the document (`EffectInv`).
  `ViewsAreBounded` and `ResetsAreBounded` count the requests in flight; the
  first needs `TokenInv`, since a token that was used cannot be found again.
* `TelemetryProofs`, the way of a reading: it extends the bridge and the store,
  which share no names. For the bridge `BridgeTypeCorrect`, `StatisticsAddUp`,
  `NothingTwice` and `TokenFirst`, all from `BridgeInv` (`BridgeIsSound`): a message
  in hand is not yet taken by the API, and nothing is counted before the bridge
  runs. `MessageBudget` is the variant of `MessageEnds`: a message in hand has a
  budget of requests which every answer of the API shrinks and nothing else
  touches. For the store `StoreTypeCorrect`, `StaleEntriesHaveACause` and
  `CopiesAreBounded` from `StoreInv`: an attempt has left at most one copy
  (`CopiesSoFar`), nothing shows a reading that was not made (`OnlyMade`), and the keys
  an invalidation under way has already deleted lack none of its readings, unless
  put late or left by a failed invalidation (`ClearedSoFar`). `VisibleStayShown` and
  `GoneStayForgotten` are the safety halves of `EventuallyShown` and
  `EventuallyForgotten`: what all entries show, or have forgotten, stays so.
* `PgPoolProofs`. `TypeCorrect`, for which the slots in use must cover what gives
  them back (`SlotsThere`); `EnhancedKeepsItsSlots`. `ExhaustionIsNoReason`: since the
  slots in use are those of requests and of the check, a pool with room for all of
  them (`Roomy`; in the code 50 connections for the two threads of a worker,
  `services/api/Dockerfile:80`) has one for whoever enters. `StandardLossIsBounded` from
  `LossInv`: the slots lost, the requests that may still drop one (`Falling`) and the
  connections that are broken (`Broken`) are together within the bound, to which each
  outage adds its share, the first one as well.

Model-checked only: the liveness properties (`VaultRevocationReachesBroker`,
the liveness part of `KeepsPromise`, `MessageEnds`, `BrokenLinkComesBack`,
`LockoutEnds`, `EventuallyShown`, `EventuallyForgotten`), because fairness and
`ENABLED` are out of the prover's reach. For all but
`BrokenLinkComesBack` (which needs only that the message in hand ends, and the fair
step `OnConnect`) the safety argument behind them is proved: `RefreshEnforces`, `MessageBudget`, `LockoutRunsOut`,
`VisibleStayShown`, `GoneStayForgotten`. `TypeOK` of a module is proved wherever
it is stated; `CertLifecycle`'s is checked by its run as well.

## 6. Not modelled

* The modular issuance behind the feature flag `modular_certificates` (off by
  default), the `ca_only` status of server-TLS devices, ACME, downloads, CSR
  validation, `sign_device_csr_internal` (as `sign` with `revoke_old` false),
  and deletion of the device record.
* The OTP administrator bypass and the truncation of times to whole seconds
  below one second.
* The bridge's health file: it is reported, and nothing restarts on it.
* Removal of administrators and `scripts/reset-setup.sh`; the two further
  administrators that `ensure_admin_users` can seed; bcrypt failing.
* The e-mail-link reset (it fails on every
  call, `controllers/auth.py:822`), API keys, roles, organizations and user
  administration: look-ups and single writes.
* The TimescaleDB copy of the readings, its aggregates, and the latest-value hash.
* The CSR workflow: `update_step` sets whatever step it is told,
  `validate_step_transition` has no caller, a second writer
  (`controllers/device_logs.py:227`) uses another document shape, and no decision
  reads the step, so there is no invariant the code keeps.
* The circuit breaker and the pool statistics: unlocked counters that delay an
  opening by one failure or are displayed.
* Listing and reporting of certificates, dashboard, logs, analytics,
  notifications, configuration scripts: read-only or write-only with respect to
  the modelled state. They are most of the code by lines.

## 7. Plan

What is left:

* The converse of `KeepsRegister`, that the endpoints see every behaviour
  `OTPService` has: the register is a bound from above for both.
* An interface between the bridge and the store, so that `NothingTwice` and
  `CopiesAreBounded` together bound the copies of one MQTT message. Both theorems are
  there for it; the API's handler between them is the ingestion of `TelemetryStore`.
* `ForgottenThreeWays` names three paths; in the code a list of serials to revoke, kept
  in the record, would close all of them, and the model would then be the place to
  show it.
* The disagreement of `setup_overlap` with "Atomically claim the instance"
  (`setup.py:146`) as a run and a finding of its own.
