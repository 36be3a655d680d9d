---------------------------- MODULE UserSessions ----------------------------
(***************************************************************************)
(* One user's logins: the lockout counter, the bearer tokens, and the      *)
(* blacklist that a logout or a refresh writes.  A token carries the start *)
(* of its session through every refresh.  Counter and blacklist are Redis  *)
(* keys with a life of their own; when Redis cannot be reached both checks *)
(* are skipped.  A tick is half a second, because the code truncates the   *)
(* times it writes to whole seconds.  The environment may exempt the user  *)
(* from the lockout.                                                       *)
(***************************************************************************)
EXTENDS Integers, FiniteSets

CONSTANTS
    Requests,       \* requests in flight: threads of the API workers
    Tokens,         \* identities of tokens (their jti)
    MaxAttempts,    \* MAX_LOGIN_ATTEMPTS
    Window,         \* LOCKOUT_DURATION, in ticks
    TokenLife,      \* TOKEN_EXPIRATION_HOURS, in ticks
    MaxSession,     \* MAX_SESSION_LIFETIME_HOURS, in ticks
    UtcOffset,      \* how far the time zone TZ is east of UTC, in ticks
    NoTtl,          \* a counter without an expiry
    RedisFails,     \* whether Redis may become unreachable, and come back
    CallsFail,      \* whether a request may die between two calls
    MaxBlind        \* bound: logins let in without a look at the counter

Second == 2

ASSUME SessionConstants ==
    /\ MaxAttempts \in Nat \ {0}
    /\ Window \in Nat \ {0}
    /\ TokenLife \in Nat /\ TokenLife >= Second
    /\ MaxSession \in Nat
    /\ UtcOffset \in Int
    /\ NoTtl \notin Nat
    /\ MaxBlind \in Nat
    /\ RedisFails \in BOOLEAN /\ CallsFail \in BOOLEAN

ASSUME RequestsFinite == IsFiniteSet(Requests)

VARIABLES
    count, ttl,     \* the key login_lock:<email>; count = 0 is no key
    token,          \* what each token says; left = 0 is no token
    barred,         \* how long the blacklist still holds each token
    out,            \* history: tokens the blacklist was written for
    phase,          \* ticks since the last whole second
    redisUp,
    bypass,         \* what the environment exempts the user from
    blind,          \* history: logins let in without a look at the counter
    pc, hand        \* next call of each request, and the token it came with

lock == <<count, ttl>>
sessions == <<token, barred, out>>
clock == <<phase, redisUp>>
locals == <<pc, hand>>
vars == <<lock, sessions, clock, bypass, blind, locals>>

\* Ages stop counting at the Horizon, where every check has failed.
Horizon == MaxSession + TokenLife + 1

\* left: ticks to exp; age: since the claim session_start; lived: since the login.
Token == [left : 0..TokenLife, age : Int, lived : Nat]

NoToken == [left |-> 0, age |-> 0, lived |-> 0]

\* ADMIN_BYPASS_RATE_LIMIT, for the administrator named in the environment: a
\* login is not looked at, its failure is counted.  RATE_LIMIT_EMERGENCY_BYPASS,
\* for all: no counter is looked at or written.
Bypasses == {"none", "admin", "all"}

PCs == {"idle", "test", "expire", "reset", "user", "bar"}

TypeOK ==
    /\ count \in Nat
    /\ ttl \in Nat \union {NoTtl}
    /\ token \in [Tokens -> Token]
    /\ barred \in [Tokens -> Nat]
    /\ out \subseteq Tokens
    /\ redisUp \in BOOLEAN
    /\ phase \in 0..(Second - 1)
    /\ bypass \in Bypasses
    /\ blind \in Nat
    /\ pc \in [Requests -> PCs]
    /\ hand \in [Requests -> SUBSET Tokens]

Init ==
    /\ count = 0 /\ ttl = 0
    /\ token = [t \in Tokens |-> NoToken]
    /\ barred = [t \in Tokens |-> 0]
    /\ out = {}
    /\ redisUp = TRUE /\ phase = 0 /\ blind = 0
    /\ bypass \in Bypasses
    /\ pc = [r \in Requests |-> "idle"]
    /\ hand = [r \in Requests |-> {}]

-----------------------------------------------------------------------------
GoTo(r, from, to) == pc[r] = from /\ pc' = [pc EXCEPT ![r] = to]

Ends(r) ==
    /\ pc' = [pc EXCEPT ![r] = "idle"]
    /\ hand' = [hand EXCEPT ![r] = {}]

\* A token that nobody holds any more; its jti stands for a new one.
Unused(t) == token[t].left = 0 /\ \A r \in Requests : t \notin hand[r]

\* exp is a whole second.  The blacklist knows nothing of a new jti.
Issue(t, age, lived) ==
    /\ token' = [token EXCEPT ![t] =
          [left |-> TokenLife - phase, age |-> age, lived |-> lived]]
    /\ barred' = [barred EXCEPT ![t] = 0]
    /\ out' = out \ {t}

-----------------------------------------------------------------------------
(* login.                                                                   *)

\* Nothing is known of the counter: it is not asked, or Redis does not answer and
\* each process has a counter in its own memory, here one that is still empty.
Unseen == bypass # "none" \/ ~redisUp

\* Mutant: the limit is tested with > instead of >=.
Peek_OffByOne(r) ==
    /\ GoTo(r, "idle", "test")
    /\ \/ ~Unseen /\ count <= MaxAttempts /\ UNCHANGED blind
       \/ Unseen /\ blind < MaxBlind /\ blind' = blind + 1
    /\ UNCHANGED <<lock, sessions, clock, bypass, hand>>

\* Mutant: a refused attempt is recorded as well, and starts the window again.
Peek_Extending(r) ==
    /\ \/ /\ GoTo(r, "idle", "test") /\ UNCHANGED lock
          /\ \/ ~Unseen /\ count < MaxAttempts /\ UNCHANGED blind
             \/ Unseen /\ blind < MaxBlind /\ blind' = blind + 1
       \/ /\ pc[r] = "idle" /\ ~Unseen /\ count >= MaxAttempts
          /\ ttl' = Window /\ UNCHANGED <<pc, count, blind>>
    /\ UNCHANGED <<sessions, clock, bypass, hand>>

\* is_rate_limited: a look at the counter that records nothing, left out for the
\* administrator with the bypass and always passed in an emergency.
Peek(r) ==
    /\ GoTo(r, "idle", "test")
    /\ \/ ~Unseen /\ count < MaxAttempts /\ UNCHANGED blind
       \/ Unseen /\ blind < MaxBlind /\ blind' = blind + 1
    /\ UNCHANGED <<lock, sessions, clock, bypass, hand>>

\* The right password of an inactive account is neither granted nor recorded.
\* An administrator may switch the account at any time, so this may happen in
\* any login (and below, Refused in any request).
InactiveAccount(r) ==
    /\ pc[r] = "test" /\ Ends(r)
    /\ UNCHANGED <<lock, sessions, clock, bypass, blind>>

\* session_start is read from a naive UTC time as if it were local time.
RightPassword(r) ==
    /\ GoTo(r, "test", "reset")
    /\ \E t \in Tokens :
          /\ Unused(t)
          /\ Issue(t, UtcOffset + phase, 0)
    /\ UNCHANGED <<lock, clock, hand, bypass, blind>>

\* The wrong password; check_rate_limit_status: INCR; over the limit a key
\* without expiry gets one.  Without Redis this process remembers the attempt, and
\* in an emergency nobody does.
Record(r) ==
    /\ pc[r] = "test"
    /\ \/ /\ redisUp /\ bypass # "all"
          /\ count' = count + 1
          /\ ttl' = CASE count = 0 -> NoTtl
                      [] count >= MaxAttempts /\ ttl = NoTtl -> Window
                      [] OTHER -> ttl
          /\ pc' = [pc EXCEPT ![r] = IF count = 0 THEN "expire" ELSE "idle"]
       \/ /\ ~redisUp \/ bypass = "all"
          /\ pc' = [pc EXCEPT ![r] = "idle"]
          /\ UNCHANGED lock
    /\ UNCHANGED <<sessions, clock, hand, bypass, blind>>

\* EXPIRE, by the request whose INCR made the key.
ArmExpiry(r) ==
    /\ GoTo(r, "expire", "idle")
    /\ redisUp
    /\ ttl' = IF count > 0 THEN Window ELSE ttl
    /\ UNCHANGED <<count, sessions, clock, hand, bypass, blind>>

\* reset_rate_limit swallows its errors; then the login is answered.
ResetCounter(r) ==
    /\ GoTo(r, "reset", "idle")
    /\ \/ redisUp /\ count' = 0 /\ ttl' = 0
       \/ ~redisUp /\ UNCHANGED lock
    /\ UNCHANGED <<sessions, clock, hand, bypass, blind>>

-----------------------------------------------------------------------------
(* logout and refresh, behind require_auth.                                 *)

\* The first half of verify_token: signature, exp and blacklist.
PassesBlacklist(t) == token[t].left > 0 /\ (redisUp => barred[t] = 0)

CheckBlacklist(r) ==
    /\ GoTo(r, "idle", "user")
    /\ \E t \in Tokens : PassesBlacklist(t) /\ hand' = [hand EXCEPT ![r] = {t}]
    /\ UNCHANGED <<lock, sessions, clock, bypass, blind>>

\* Mutant: the lifetime of the session is not looked at.
RefreshIssues_Forever(r) ==
    /\ GoTo(r, "user", "bar")
    /\ \E old \in hand[r], t \in Tokens :
          /\ Unused(t)
          /\ Issue(t, token[old].age, token[old].lived)
    /\ UNCHANGED <<lock, clock, bypass, blind, hand>>

\* The second half: the account exists and is active (or see Refused).  A
\* refresh then makes the new token: session_start is carried over, and a
\* session that is too old is refused.
RefreshIssues(r) ==
    /\ GoTo(r, "user", "bar")
    /\ \E old \in hand[r], t \in Tokens :
          /\ token[old].age <= MaxSession
          /\ Unused(t)
          /\ Issue(t, token[old].age, token[old].lived)
    /\ UNCHANGED <<lock, clock, bypass, blind, hand>>

\* Mutant: the clock is read correctly, and the truncation is not made up for.
BlacklistTtl_RightClock(t) == token[t].left - (token[t].left % Second)

\* The time to exp is taken from the same misread clock, then truncated.
BlacklistTtl(t) ==
    LET left == token[t].left + UtcOffset IN left - (left % Second)

\* blacklist_token, called by a logout once the account is found and by a refresh
\* at its end, and the answer: 200, whatever becomes of the entry.  An expired
\* token and a life below one second are errors that are swallowed.
Bar(r) ==
    /\ pc[r] \in {"user", "bar"} /\ Ends(r)
    /\ \E t \in hand[r] :
          \/ /\ redisUp /\ token[t].left > 0 /\ BlacklistTtl(t) > 0
             /\ barred' = [barred EXCEPT ![t] = BlacklistTtl(t)]
             /\ out' = out \union {t}
          \/ /\ ~redisUp \/ token[t].left = 0 \/ BlacklistTtl(t) <= 0
             /\ UNCHANGED <<barred, out>>
    /\ UNCHANGED <<lock, token, clock, bypass, blind>>

-----------------------------------------------------------------------------
\* A refusal (401) after the blacklist check, or a token that was not made.
Refused(r) ==
    /\ pc[r] = "user" /\ Ends(r)
    /\ UNCHANGED <<lock, sessions, clock, bypass, blind>>

\* A call raises or the process dies; the keys stay as they are.
Dies(r) ==
    /\ CallsFail \/ (pc[r] = "expire" /\ ~redisUp)
    /\ pc[r] # "idle" /\ Ends(r)
    /\ UNCHANGED <<lock, sessions, clock, bypass, blind>>

SwitchRedis ==
    /\ RedisFails
    /\ redisUp' = ~redisUp
    /\ UNCHANGED <<lock, sessions, phase, bypass, blind, locals>>

Aged(n) == IF n >= Horizon THEN n ELSE n + 1

\* The token expires in nobody's hands: no request can come with it again.
Gone(t) == token[t].left <= 1 /\ \A r \in Requests : t \notin hand[r]

Older(t) ==
    IF Gone(t) THEN NoToken
    ELSE [left |-> IF token[t].left = 0 THEN 0 ELSE token[t].left - 1,
          age |-> Aged(token[t].age), lived |-> Aged(token[t].lived)]

KeyExpires == ttl # NoTtl /\ ttl <= 1

\* Half a second: tokens and keys come closer to their end.  The entry of a
\* token that is gone runs on, but nobody will ask for it, so it is left out.
Tick ==
    /\ phase' = (phase + 1) % Second
    /\ count' = IF KeyExpires THEN 0 ELSE count
    /\ ttl' = IF ttl = NoTtl THEN NoTtl ELSE IF KeyExpires THEN 0 ELSE ttl - 1
    /\ token' = [t \in Tokens |-> Older(t)]
    /\ barred' = [t \in Tokens |->
                    IF Gone(t) \/ barred[t] = 0 THEN 0 ELSE barred[t] - 1]
    /\ out' = {t \in out : ~Gone(t)}
    /\ UNCHANGED <<redisUp, bypass, blind, locals>>

Step(r) ==
    \/ InactiveAccount(r) \/ RightPassword(r) \/ ResetCounter(r)
    \/ Record(r) \/ ArmExpiry(r)
    \/ RefreshIssues(r) \/ Bar(r) \/ Refused(r) \/ Dies(r)

Request(r) == Peek(r) \/ CheckBlacklist(r) \/ Step(r)

Next == (\E r \in Requests : Request(r)) \/ SwitchRedis \/ Tick

\* Time passes; of the requests nothing is needed.
Fairness == WF_vars(Tick)

Spec == Init /\ [][Next]_vars /\ Fairness

-----------------------------------------------------------------------------
(* Properties.                                                              *)

\* "Logout successful": while Redis answers, a token that the blacklist was
\* written for is refused for as long as it would have lived, although the
\* entry's life is computed from another clock and truncated.
RevokedTokenRefused ==
    redisUp => \A t \in out : ~PassesBlacklist(t)

\* Why: the entry outlives the token.
BlacklistInv ==
    \A t \in out : token[t].left > 0 => barred[t] >= token[t].left

\* "Refresh can no longer extend a session forever": nobody holds a live token
\* longer than the session's lifetime and one token's life after the login,
\* through however many refreshes.
SessionsEnd ==
    \A t \in Tokens :
        token[t].left > 0 => token[t].lived <= MaxSession + TokenLife

\* Why: the claimed age is never less than the true one.
AgeInv ==
    \A t \in Tokens :
        /\ token[t].lived <= token[t].age
        /\ token[t].left > 0 => token[t].lived + token[t].left <= MaxSession + TokenLife

Guessing == {r \in Requests : pc[r] = "test"}

\* Overlapping logins all pass the look at the counter before any of them is
\* recorded; even so the attempts of a window exceed the limit by no more than
\* the requests that can be in flight, plus those let in without a look: while
\* Redis did not answer, or, without limit, by a bypass (the administrator's is on
\* as shipped).
GuessesBounded ==
    count + Cardinality(Guessing) <= MaxAttempts - 1 + Cardinality(Requests) + blind

Locked == count >= MaxAttempts

\* A lockout with an expiry ends, whoever keeps trying meanwhile.  (One whose
\* EXPIRE was lost does not: login looks at the counter before the branch of
\* Record that would repair it, unless a bypass lets it in.)
LockoutEnds == (Locked /\ ttl # NoTtl) ~> ~Locked
=============================================================================
