----------------------------- MODULE OTPService -----------------------------
(***************************************************************************)
(* The one-time password of ONE identifier: the Redis keys of OTPService   *)
(* and the requests that use them (generate, resend, verify).  The API     *)
(* runs several worker processes and threads, and every Redis call of a    *)
(* request is a step of its own.  Time is a clock in seconds; Redis drops  *)
(* a key when its time to live is over.                                    *)
(***************************************************************************)
EXTENDS Integers, FiniteSets

CONSTANTS
    Requests,       \* requests in flight at the same time
    Codes,          \* codes that can be drawn; never drawn twice
    NoOtp,          \* the OTP key does not exist
    MaxAttempts,    \* OTP_MAX_ATTEMPTS
    OtpWindow,      \* OTP_EXPIRE_MINUTES, in clock ticks
    Cooldown,       \* OTP_COOLDOWN_SECONDS
    UserLimit,      \* OTP_RATE_LIMIT_PER_USER_HOUR
    RateWindow,     \* the hour of that limit
    MaxTime,        \* bound of the clock
    RedisErrors     \* whether a Redis call may fail

ASSUME OtpNumbers ==
    /\ MaxAttempts \in Nat \ {0} /\ OtpWindow \in Nat \ {0}
    /\ Cooldown \in Nat /\ UserLimit \in Nat
    /\ RateWindow \in Nat \ {0} /\ MaxTime \in Nat
    /\ RedisErrors \in BOOLEAN

ASSUME RequestsFinite == IsFiniteSet(Requests)

ASSUME NoOtpAssumption == NoOtp \notin [code : Codes, attempts : 0 .. MaxAttempts,
                                         status : {"pending", "exhausted"}]

VARIABLES
    now,            \* the clock
    otp,            \* the OTP key: code, attempts and status, or NoOtp
    expires,        \* when Redis drops the OTP key
    cooldown,       \* until when the cooldown key blocks a new OTP
    hits,           \* scores in the sorted set of the user's rate limit
    pc,             \* the next Redis call of each request
    seen,           \* the OTP record a verification read
    stamp,          \* the second in which a generation entered its hit
    left,           \* the time to live a verification is about to write
    sent,           \* history: codes stored; the mail of one may fail afterwards
    accepted,       \* history: how often each code was accepted
    tries           \* history: wrong guesses answered for each code

keys == <<otp, expires, cooldown, hits>>
locals == <<pc, seen, stamp, left>>
history == <<sent, accepted, tries>>
vars == <<now, keys, locals, history>>

OtpRecord == [code : Codes, attempts : 0 .. MaxAttempts,
              status : {"pending", "exhausted"}]

PCs == {"idle", "cooldown", "limit", "drop", "others", "store", "cool",
        "delete", "ttl", "write"}

TypeOK ==
    /\ now \in 0 .. MaxTime
    /\ otp \in OtpRecord \union {NoOtp}
    /\ otp # NoOtp => expires > now
    /\ expires \in Nat /\ cooldown \in Nat
    /\ hits \subseteq 0 .. MaxTime
    /\ pc \in [Requests -> PCs]
    /\ seen \in [Requests -> OtpRecord \union {NoOtp}]
    /\ stamp \in [Requests -> 0 .. MaxTime]
    /\ left \in [Requests -> 0 .. OtpWindow]
    /\ sent \subseteq Codes
    /\ accepted \in [Codes -> Nat]
    /\ tries \in [Codes -> Nat]

Init ==
    /\ now = 0
    /\ otp = NoOtp /\ expires = 0 /\ cooldown = 0 /\ hits = {}
    /\ pc = [r \in Requests |-> "idle"]
    /\ seen = [r \in Requests |-> NoOtp]
    /\ stamp = [r \in Requests |-> 0]
    /\ left = [r \in Requests |-> 0]
    /\ sent = {}
    /\ accepted = [c \in Codes |-> 0]
    /\ tries = [c \in Codes |-> 0]

-----------------------------------------------------------------------------
GoTo(r, from, to) == pc[r] = from /\ pc' = [pc EXCEPT ![r] = to]

\* The request answers and its local variables are gone.
Ends(r) ==
    /\ pc' = [pc EXCEPT ![r] = "idle"]
    /\ seen' = [seen EXCEPT ![r] = NoOtp]
    /\ stamp' = [stamp EXCEPT ![r] = 0]
    /\ left' = [left EXCEPT ![r] = 0]

-----------------------------------------------------------------------------
(* resend_otp: delete whatever OTP there is, then generate.                 *)

StartResend(r) ==
    /\ GoTo(r, "idle", "cooldown")
    /\ otp' = NoOtp
    /\ UNCHANGED <<now, expires, cooldown, hits, seen, stamp, left, history>>

(* generate_otp: cooldown, rate limits, store, set the cooldown.            *)

\* The cooldown key is read; a Redis error counts as no cooldown.
PassCooldown(r) ==
    /\ pc[r] \in {"idle", "cooldown"}
    /\ now >= cooldown \/ RedisErrors
    /\ pc' = [pc EXCEPT ![r] = "limit"]
    /\ UNCHANGED <<now, keys, seen, stamp, left, history>>

RefuseCooldown(r) ==
    /\ pc[r] = "cooldown" /\ now < cooldown /\ Ends(r)
    /\ UNCHANGED <<now, keys, history>>

\* Hits of the user still inside the sliding window.
RecentHits == {t \in hits : t > now - RateWindow}

\* One pipeline: prune, count, add this second, expire.  The member added is
\* the second itself, so hits of the same second are one entry.
CheckUserLimit(r) ==
    /\ GoTo(r, "limit", IF Cardinality(RecentHits) >= UserLimit
                           THEN "drop" ELSE "others")
    /\ hits' = RecentHits \union {now}
    /\ stamp' = [stamp EXCEPT ![r] = now]
    /\ UNCHANGED <<now, otp, expires, cooldown, seen, left, history>>

\* The rate limit fails open.
SkipUserLimit(r) ==
    /\ RedisErrors
    /\ GoTo(r, "limit", "others")
    /\ UNCHANGED <<now, keys, seen, stamp, left, history>>

\* Over the limit: take this second out again and refuse.
DropHit(r) ==
    /\ pc[r] = "drop" /\ Ends(r)
    /\ hits' = hits \ {stamp[r]}
    /\ UNCHANGED <<now, otp, expires, cooldown, history>>

\* An error of that call fails open as well, and the request goes on.
DropFails(r) ==
    /\ RedisErrors
    /\ GoTo(r, "drop", "others")
    /\ hits' \in {hits, hits \ {stamp[r]}}
    /\ UNCHANGED <<now, otp, expires, cooldown, seen, stamp, left, history>>

\* The limits per IP and of the platform, checked after the user's.
PassOtherLimits(r) ==
    /\ GoTo(r, "others", "store")
    /\ UNCHANGED <<now, keys, seen, stamp, left, history>>

RefuseOtherLimits(r) ==
    /\ pc[r] = "others" /\ Ends(r)
    /\ UNCHANGED <<now, keys, history>>

\* setex of the new OTP.  The attempts key deleted next has no reader.
StoreOtp(r) ==
    /\ GoTo(r, "store", "cool")
    /\ \E c \in Codes \ sent :
          /\ otp' = [code |-> c, attempts |-> 0, status |-> "pending"]
          /\ sent' = sent \union {c}
    /\ expires' = now + OtpWindow
    /\ UNCHANGED <<now, cooldown, hits, seen, stamp, left, accepted, tries>>

SetCooldown(r) ==
    /\ pc[r] = "cool" /\ Ends(r)
    /\ \/ cooldown' = now + Cooldown
       \/ RedisErrors /\ UNCHANGED cooldown
    /\ UNCHANGED <<now, otp, expires, hits, history>>

-----------------------------------------------------------------------------
(* verify_otp: get; then delete, or ttl and setex.                          *)

\* Mutant: a record that was exhausted is verified like any other.
ReadOtp_Exhausted(r) ==
    /\ otp # NoOtp
    /\ \/ GoTo(r, "idle", "delete")
       \/ GoTo(r, "idle", "ttl")
    /\ seen' = [seen EXCEPT ![r] = otp]
    /\ UNCHANGED <<now, keys, stamp, left, history>>

\* The record is pending; the guess is right or wrong.
ReadOtp(r) ==
    /\ otp # NoOtp /\ otp.status = "pending"
    /\ \/ GoTo(r, "idle", "delete")
       \/ GoTo(r, "idle", "ttl")
    /\ seen' = [seen EXCEPT ![r] = otp]
    /\ UNCHANGED <<now, keys, stamp, left, history>>

\* Mutant: the record is left to its expiry.
AcceptCode_Keeps(r) ==
    /\ pc[r] = "delete" /\ Ends(r)
    /\ accepted' = [accepted EXCEPT ![seen[r].code] = @ + 1]
    /\ UNCHANGED <<now, keys, sent, tries>>

\* Right: whatever record the key has by now is deleted, and the answer is yes.
AcceptCode(r) ==
    /\ pc[r] = "delete" /\ Ends(r)
    /\ otp' = NoOtp
    /\ accepted' = [accepted EXCEPT ![seen[r].code] = @ + 1]
    /\ UNCHANGED <<now, expires, cooldown, hits, sent, tries>>

\* Wrong: _remaining_ttl, the whole window when the key is gone.
ReadTtl(r) ==
    /\ GoTo(r, "ttl", "write")
    /\ \/ /\ otp # NoOtp
          /\ left' = [left EXCEPT ![r] = expires - now]
       \/ /\ otp = NoOtp \/ RedisErrors
          /\ left' = [left EXCEPT ![r] = OtpWindow]
    /\ UNCHANGED <<now, keys, seen, stamp, history>>

\* The record read, with one attempt more, exhausted at the last one.
OneMore(rec) ==
    [code |-> rec.code,
     attempts |-> rec.attempts + 1,
     status |-> IF rec.attempts + 1 >= MaxAttempts THEN "exhausted" ELSE "pending"]

\* Mutant: the attempt is counted twice, on reading and on writing.
WriteAttempts_Twice(r) ==
    /\ pc[r] = "write" /\ Ends(r)
    /\ otp' = IF OneMore(seen[r]).status = "exhausted" THEN OneMore(seen[r])
              ELSE OneMore(OneMore(seen[r]))
    /\ expires' = now + left[r]
    /\ tries' = [tries EXCEPT ![seen[r].code] = @ + 1]
    /\ UNCHANGED <<now, cooldown, hits, sent, accepted>>

\* setex of the record that was read, over whatever the key has by now.
WriteAttempts(r) ==
    /\ pc[r] = "write" /\ Ends(r)
    /\ otp' = OneMore(seen[r])
    /\ expires' = now + left[r]
    /\ tries' = [tries EXCEPT ![seen[r].code] = @ + 1]
    /\ UNCHANGED <<now, cooldown, hits, sent, accepted>>

-----------------------------------------------------------------------------
\* A call that is not caught close by fails, or the process dies.
RequestFails(r) ==
    /\ RedisErrors
    /\ pc[r] # "idle" /\ Ends(r)
    /\ UNCHANGED <<now, keys, history>>

\* A second passes and Redis drops what has expired.
Tick ==
    /\ now < MaxTime
    /\ now' = now + 1
    /\ otp' = IF expires <= now' THEN NoOtp ELSE otp
    /\ UNCHANGED <<expires, cooldown, hits, locals, history>>

Request(r) ==
    \/ StartResend(r) \/ PassCooldown(r) \/ RefuseCooldown(r)
    \/ CheckUserLimit(r) \/ SkipUserLimit(r) \/ DropHit(r) \/ DropFails(r)
    \/ PassOtherLimits(r) \/ RefuseOtherLimits(r)
    \/ StoreOtp(r) \/ SetCooldown(r)
    \/ ReadOtp(r) \/ AcceptCode(r) \/ ReadTtl(r) \/ WriteAttempts(r)
    \/ RequestFails(r)

Next == Tick \/ \E r \in Requests : Request(r)

Spec == Init /\ [][Next]_vars

-----------------------------------------------------------------------------
(* Properties.                                                              *)

\* A user is never locked out early: an exhausted record has seen MaxAttempts
\* wrong guesses of that very code, whatever writes overlapped.
NoEarlyLockout ==
    otp # NoOtp /\ otp.status = "exhausted" => tries[otp.code] >= MaxAttempts

\* Why: the counter of a record never runs ahead of the wrong guesses of its
\* code, neither in Redis nor in the copy a verification is about to write
\* back, and a verification only ever holds a record with attempts to spare.
CountedHonestly(rec) == rec.attempts <= tries[rec.code]

CountInv ==
    /\ otp # NoOtp =>
          /\ CountedHonestly(otp)
          /\ expires <= now + OtpWindow
          /\ (otp.status = "exhausted") <=> (otp.attempts = MaxAttempts)
    /\ \A r \in Requests : pc[r] \in {"delete", "ttl", "write"} =>
          /\ seen[r] \in OtpRecord
          /\ CountedHonestly(seen[r])
          /\ seen[r].attempts < MaxAttempts
    /\ \A r \in Requests : pc[r] = "write" => left[r] > 0

\* "one-time use", as far as get and delete in two calls can keep it: a code is
\* accepted again only by verifications that overlap, each once until a wrong
\* guess writes the record back.
Accepting(c) == {r \in Requests : pc[r] = "delete" /\ seen[r].code = c}

AcceptsBounded ==
    \A c \in Codes :
        accepted[c] + Cardinality(Accepting(c)) <= Cardinality(Requests) * (tries[c] + 1)

\* Why: while a record is there, all earlier acceptances of its code are paid for
\* by the wrong guesses that wrote it back, and only a code that was sent is
\* ever stored, read or accepted.
AcceptInv ==
    /\ AcceptsBounded
    /\ otp # NoOtp =>
          /\ otp.code \in sent
          /\ accepted[otp.code] <= Cardinality(Requests) * tries[otp.code]
    /\ \A r \in Requests : pc[r] \in {"delete", "ttl", "write"} => seen[r].code \in sent
    /\ \A c \in Codes \ sent : accepted[c] = 0

\* What the endpoints see of all this is a register that holds a pending code: the
\* key while its status is pending, the verifications between get and delete, and
\* the records that are about to be written back.
Held == IF otp # NoOtp /\ otp.status = "pending" THEN {otp.code} ELSE {}

Right == {r \in Requests : pc[r] = "delete"}

Copies == [r \in Requests |-> IF pc[r] \in {"ttl", "write"} THEN {seen[r].code} ELSE {}]

Register == INSTANCE OtpRegister WITH held <- Held, right <- Right, copy <- Copies

KeepsRegister == Register!Spec
=============================================================================
