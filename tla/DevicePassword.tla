--------------------------- MODULE DevicePassword ---------------------------
(***************************************************************************)
(* The password of one server-TLS device: the resets that replace it, the  *)
(* one-time tokens under which a reset leaves the new one in Redis, and    *)
(* the MQTT logins that use it, one of which (a plaintext password without *)
(* a hash) writes it back as a hash.  A password is a number: every reset  *)
(* makes the next one, and the token made with it has the same number.     *)
(***************************************************************************)
EXTENDS Integers, FiniteSets

CONSTANTS
    Requests,       \* requests in flight: threads of the API workers
    MaxPasswords,   \* bound: passwords ever made
    TokenLife,      \* life of a token: 300 s
    MaxResets,      \* resets by the endpoint in one window: 3
    Window,         \* the window of that limit: 3600 s
    NoTtl           \* a counter without an expiry

ASSUME PasswordConstants ==
    /\ MaxPasswords \in Nat \ {0}
    /\ TokenLife \in Nat \ {0}
    /\ MaxResets \in Nat \ {0} /\ Window \in Nat \ {0}
    /\ NoTtl \notin Nat

ASSUME RequestsFinite == IsFiniteSet(Requests)

None == 0

\* The password the device was created with.
First == 1

Passwords == 1..MaxPasswords

VARIABLES
    device,         \* the device document
    left,           \* token_reset_token:<n> in Redis: the life left, 0 is no key
    count, ttl,     \* password_reset:<device_id>; count = 0 is no key
    made,           \* the last password that was made
    pc, kind,       \* next call of each request, and who called the reset
    hand, old,      \* its new password, and the one it found in the document
    told,           \* tokens that were answered to an administrator
    known,          \* passwords that were answered, to be put in the device
    dead,           \* history: passwords that an answered reset has replaced
    views,          \* history: how often each token gave its password away
    migrated        \* history: a login has hashed a plaintext password

limit == <<count, ttl>>
locals == <<pc, kind, hand, old>>
answers == <<told, known, dead, views>>
vars == <<device, left, limit, made, locals, answers, migrated>>

\* hash and plain: password_hash and mqtt_password of the document.
Device == [exists : BOOLEAN, tls : BOOLEAN,
           hash : Passwords \union {None}, plain : Passwords \union {None}]

PCs == {"idle", "setex", "hash", "audit", "incr", "expire",
        "view", "delete", "record", "direct", "migrate"}

TypeOK ==
    /\ device \in Device
    /\ left \in [Passwords -> 0..TokenLife]
    /\ count \in Nat /\ ttl \in Nat \union {NoTtl}
    /\ made \in Passwords
    /\ pc \in [Requests -> PCs]
    /\ kind \in [Requests -> {"endpoint", "bundle"}]
    /\ hand \in [Requests -> Passwords \union {None}]
    /\ old \in [Requests -> Passwords \union {None}]
    /\ told \subseteq Passwords /\ known \subseteq Passwords
    /\ dead \subseteq Passwords
    /\ views \in [Passwords -> Nat]
    /\ migrated \in BOOLEAN

\* create_device stores the hash of a server-TLS device's password and, because
\* the response is built from the same document, the plaintext; an old device
\* has the plaintext alone, and one created for mTLS has neither.
Init ==
    /\ device \in {[exists |-> TRUE, tls |-> TRUE, hash |-> First, plain |-> First],
                   [exists |-> TRUE, tls |-> TRUE, hash |-> None, plain |-> First],
                   [exists |-> TRUE, tls |-> FALSE, hash |-> None, plain |-> None]}
    /\ known = IF device.plain = None THEN {} ELSE {First}
    /\ left = [n \in Passwords |-> 0]
    /\ count = 0 /\ ttl = 0
    /\ made = First
    /\ pc = [r \in Requests |-> "idle"]
    /\ kind = [r \in Requests |-> "endpoint"]
    /\ hand = [r \in Requests |-> None] /\ old = [r \in Requests |-> None]
    /\ told = {} /\ dead = {}
    /\ views = [n \in Passwords |-> 0]
    /\ migrated = FALSE

-----------------------------------------------------------------------------
GoTo(r, from, to) == pc[r] = from /\ pc' = [pc EXCEPT ![r] = to]

Ends(r) ==
    /\ pc' = [pc EXCEPT ![r] = "idle"]
    /\ kind' = [kind EXCEPT ![r] = "endpoint"]
    /\ hand' = [hand EXCEPT ![r] = None]
    /\ old' = [old EXCEPT ![r] = None]

\* The password that the document accepts.
Current == IF device.hash # None THEN device.hash ELSE device.plain

\* A request that found the device in server-TLS mode makes a password.
MakesPassword(r, to) ==
    /\ device.exists /\ device.tls
    /\ made < MaxPasswords
    /\ made' = made + 1
    /\ GoTo(r, "idle", to)
    /\ hand' = [hand EXCEPT ![r] = made + 1]
    /\ old' = [old EXCEPT ![r] = Current]

\* update_one: the hash is set and the plaintext unset in one write.
StoresHash(n) == device' = [device EXCEPT !.hash = n, !.plain = None]

\* The old password is history once the reset has been answered.
Replaced(r) == dead' = dead \union ({old[r]} \ {None})

-----------------------------------------------------------------------------
(* reset_device_password, for its endpoint or for a bundle with a password. *)

\* Mutant: the limit is tested with > instead of >=.
StartReset_OffByOne(r) ==
    /\ \E k \in {"endpoint", "bundle"} :
          /\ k = "endpoint" => count <= MaxResets
          /\ kind' = [kind EXCEPT ![r] = k]
    /\ MakesPassword(r, "setex")
    /\ UNCHANGED <<device, left, limit, answers, migrated>>

\* The endpoint looks at the counter; the bundles have no limit.
StartReset(r) ==
    /\ \E k \in {"endpoint", "bundle"} :
          /\ k = "endpoint" => count < MaxResets
          /\ kind' = [kind EXCEPT ![r] = k]
    /\ MakesPassword(r, "setex")
    /\ UNCHANGED <<device, left, limit, answers, migrated>>

PutToken(r) ==
    /\ GoTo(r, "setex", "hash")
    /\ left' = [left EXCEPT ![hand[r]] = TokenLife]
    /\ UNCHANGED <<device, limit, made, kind, hand, old, answers, migrated>>

\* Mutant: the update is two calls, and the first one unsets what there was.
WriteHash_InTwo(r) ==
    /\ pc[r] = "hash" /\ device.exists
    /\ \/ /\ Current # None
          /\ device' = [device EXCEPT !.hash = None, !.plain = None]
          /\ UNCHANGED <<left, locals>>
       \/ /\ Current = None
          /\ GoTo(r, "hash", "audit")
          /\ StoresHash(hand[r])
          /\ UNCHANGED <<left, kind, hand, old>>
    /\ UNCHANGED <<limit, made, answers, migrated>>

\* Mutant: a hash that is there already is kept.
WriteHash_FirstOnly(r) ==
    /\ GoTo(r, "hash", "audit")
    /\ device.exists
    /\ IF device.hash = None THEN StoresHash(hand[r]) ELSE UNCHANGED device
    /\ UNCHANGED <<left, limit, made, kind, hand, old, answers, migrated>>

\* Nothing is modified when the device was deleted meanwhile.
WriteHash(r) ==
    /\ \/ /\ device.exists
          /\ GoTo(r, "hash", "audit")
          /\ StoresHash(hand[r])
          /\ UNCHANGED <<left, kind, hand, old>>
       \/ /\ ~device.exists
          /\ pc[r] = "hash" /\ Ends(r)
          /\ left' = [left EXCEPT ![hand[r]] = 0]
          /\ UNCHANGED device
    /\ UNCHANGED <<limit, made, answers, migrated>>

AuditReset(r) ==
    /\ GoTo(r, "audit", IF kind[r] = "bundle" THEN "view" ELSE "incr")
    /\ UNCHANGED <<device, left, limit, made, kind, hand, old, answers, migrated>>

\* INCR keeps the expiry that a key has, and gives a new key none.
CountReset(r) ==
    /\ GoTo(r, "incr", "expire")
    /\ count' = count + 1
    /\ ttl' = IF count = 0 THEN NoTtl ELSE ttl
    /\ UNCHANGED <<device, left, made, kind, hand, old, answers, migrated>>

\* EXPIRE, and the answer: the token.
AnswerToken(r) ==
    /\ pc[r] = "expire"
    /\ ttl' = IF count > 0 THEN Window ELSE ttl
    /\ told' = told \union {hand[r]}
    /\ Replaced(r) /\ Ends(r)
    /\ UNCHANGED <<device, left, count, made, known, views, migrated>>

-----------------------------------------------------------------------------
(* retrieve_reset_password, by a bundle in the same request or by anybody   *)
(* of the organization who was given the token.                             *)

TokenValid(n) == left[n] > 0 /\ device.exists

FindToken(r) ==
    /\ \/ /\ GoTo(r, "view", "delete")
          /\ TokenValid(hand[r]) /\ UNCHANGED hand
       \/ /\ GoTo(r, "idle", "delete")
          /\ \E n \in told : TokenValid(n) /\ hand' = [hand EXCEPT ![r] = n]
    /\ UNCHANGED <<device, left, limit, made, kind, old, answers, migrated>>

\* Mutant: the token is left to its expiry.
DeleteToken_Kept(r) ==
    /\ GoTo(r, "delete", "record")
    /\ UNCHANGED <<device, left, limit, made, kind, hand, old, answers, migrated>>

DeleteToken(r) ==
    /\ GoTo(r, "delete", "record")
    /\ left' = [left EXCEPT ![hand[r]] = 0]
    /\ UNCHANGED <<device, limit, made, kind, hand, old, answers, migrated>>

\* The audit entry, and the answer: the password.
AnswerPassword(r) ==
    /\ pc[r] = "record"
    /\ known' = known \union {hand[r]}
    /\ views' = [views EXCEPT ![hand[r]] = @ + 1]
    /\ Replaced(r) /\ Ends(r)
    /\ UNCHANGED <<device, left, limit, made, told, migrated>>

-----------------------------------------------------------------------------
(* reset_mqtt_password answers the password itself.                         *)
StartDirect(r) ==
    /\ MakesPassword(r, "direct")
    /\ UNCHANGED <<device, left, limit, kind, answers, migrated>>

WriteDirect(r) ==
    /\ pc[r] = "direct" /\ Ends(r)
    /\ \/ /\ device.exists
          /\ StoresHash(hand[r])
          /\ known' = known \union {hand[r]}
          /\ Replaced(r)
       \/ ~device.exists /\ UNCHANGED <<device, known, dead>>
    /\ UNCHANGED <<left, limit, made, told, views, migrated>>

-----------------------------------------------------------------------------
(* The device connects.                                                     *)

\* validate_mqtt_auth: the plaintext counts only where there is no hash, and a
\* device with neither is let in.
Accepts(p) ==
    /\ device.exists /\ device.tls
    /\ \/ device.hash # None /\ p = device.hash
       \/ device.hash = None /\ device.plain \in {p, None}

\* Of the logins only that with a plaintext password changes anything.
PlainLogin(r) ==
    /\ GoTo(r, "idle", "migrate")
    /\ device.hash = None
    /\ \E p \in known : /\ p = device.plain /\ Accepts(p)
                        /\ hand' = [hand EXCEPT ![r] = p]
    /\ UNCHANGED <<device, left, limit, made, kind, old, answers, migrated>>

\* _migrate_password_to_hash: whatever the document says by now.
Migrate(r) ==
    /\ pc[r] = "migrate" /\ Ends(r)
    /\ \/ device.exists /\ StoresHash(hand[r]) /\ migrated' = TRUE
       \/ ~device.exists /\ UNCHANGED <<device, migrated>>
    /\ UNCHANGED <<left, limit, made, answers>>

-----------------------------------------------------------------------------
\* update_device sets auth_mode and leaves the passwords alone.
SwitchMode ==
    /\ device.exists
    /\ device' = [device EXCEPT !.tls = ~device.tls]
    /\ UNCHANGED <<left, limit, made, locals, answers, migrated>>

DeleteDevice ==
    /\ device.exists
    /\ device' = [device EXCEPT !.exists = FALSE, !.hash = None, !.plain = None]
    /\ UNCHANGED <<left, limit, made, locals, answers, migrated>>

\* A call raises, or a bundle's token is not valid any more, and the answer has
\* no password; or the worker dies.
Dies(r) ==
    /\ pc[r] # "idle" /\ Ends(r)
    /\ UNCHANGED <<device, left, limit, made, answers, migrated>>

LimitExpires == ttl # NoTtl /\ ttl <= 1

Tick ==
    /\ left' = [n \in Passwords |-> IF left[n] = 0 THEN 0 ELSE left[n] - 1]
    /\ count' = IF LimitExpires THEN 0 ELSE count
    /\ ttl' = IF ttl = NoTtl THEN NoTtl ELSE IF LimitExpires THEN 0 ELSE ttl - 1
    /\ UNCHANGED <<device, made, locals, answers, migrated>>

Request(r) ==
    \/ StartReset(r) \/ PutToken(r) \/ WriteHash(r) \/ AuditReset(r)
    \/ CountReset(r) \/ AnswerToken(r)
    \/ FindToken(r) \/ DeleteToken(r) \/ AnswerPassword(r)
    \/ StartDirect(r) \/ WriteDirect(r)
    \/ PlainLogin(r) \/ Migrate(r) \/ Dies(r)

Next == (\E r \in Requests : Request(r)) \/ SwitchMode \/ DeleteDevice \/ Tick

Spec == Init /\ [][Next]_vars

-----------------------------------------------------------------------------
(* Properties.                                                              *)

\* "After first use" the token is worth nothing: once it has given its password
\* to anybody it is gone, whoever else was asking at the time.
UsedTokenRefused ==
    \A n \in Passwords : views[n] > 0 => ~TokenValid(n)

Viewing(n) == {r \in Requests : hand[r] = n /\ pc[r] \in {"delete", "record"}}

\* The token is read and deleted in two calls, so overlapping views may all get
\* the password; but no more of them than there can be requests in flight (one,
\* for a single worker thread), over the whole life of the token.
ViewsBounded ==
    \A n \in Passwords :
        views[n] + Cardinality(Viewing(n)) <= Cardinality(Requests)

Guarded == device.hash # None \/ device.plain # None

\* A device with a password always has one: no reset, migration, switch of mode
\* or failure between two calls opens it to anybody.
StaysGuarded == [][Guarded /\ device'.exists => Guarded']_vars

\* A password that an answered reset has replaced is refused from then on, also
\* when resets overlap and when their writes come in another order; only a
\* login that was just hashing the first password can bring that one back.
ResetTakesEffect ==
    \A p \in dead : Accepts(p) => p = First /\ migrated

Resetting ==
    {r \in Requests : kind[r] = "endpoint" /\ pc[r] \in {"setex", "hash", "audit", "incr"}}

\* Overlapping resets pass the look at the counter before any of them counts;
\* they exceed the limit by no more than the requests in flight.
ResetsBounded ==
    count + Cardinality(Resetting) <= MaxResets - 1 + Cardinality(Requests)
=============================================================================
