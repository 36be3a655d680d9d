------------------------- MODULE UserSessionsProofs -------------------------
(***************************************************************************)
(* Theorems about UserSessions for every number of requests and tokens,    *)
(* any limits and lifetimes.  What the misread clock does to them is in    *)
(* the assumptions on UtcOffset: a time zone that is not west of UTC keeps *)
(* the end of sessions, one that is a second east keeps the blacklist.     *)
(***************************************************************************)
EXTENDS UserSessions, FiniteSetTheorems, TLAPS

\* A new token is a token, and lives no longer than TokenLife.
LEMMA IssueType ==
    ASSUME TypeOK, NEW t \in Tokens, NEW age \in Int, NEW lived \in Nat,
           Issue(t, age, lived)
    PROVE  /\ token' \in [Tokens -> Token] /\ barred' \in [Tokens -> Nat]
           /\ out' = out \ {t} /\ barred'[t] = 0
           /\ token'[t] = [left |-> TokenLife - phase, age |-> age, lived |-> lived]
           /\ \A u \in Tokens \ {t} : token'[u] = token[u] /\ barred'[u] = barred[u]
<1>1. TokenLife - phase \in 0..TokenLife
  BY SessionConstants DEF TypeOK, Second
<1>2. [left |-> TokenLife - phase, age |-> age, lived |-> lived] \in Token
  BY <1>1 DEF Token
<1> QED
  BY <1>2 DEF TypeOK, Issue

\* A token that gets older is a token.
LEMMA OlderType ==
    ASSUME TypeOK, NEW t \in Tokens
    PROVE  /\ Older(t) \in Token /\ token[t] \in Token
           /\ Older(t).left = (IF Gone(t) \/ token[t].left = 0 THEN 0 ELSE token[t].left - 1)
           /\ ~Gone(t) => /\ Older(t).age = Aged(token[t].age)
                          /\ Older(t).lived = Aged(token[t].lived)
           /\ Gone(t) => Older(t) = NoToken
<1>1. token[t] \in Token
  BY DEF TypeOK
<1>2. /\ token[t].left \in 0..TokenLife /\ token[t].age \in Int /\ token[t].lived \in Nat
  BY <1>1 DEF Token
<1>3. Aged(token[t].age) \in Int /\ Aged(token[t].lived) \in Nat
  BY <1>2, SessionConstants DEF Aged, Horizon
<1>4. NoToken \in Token /\ NoToken.left = 0
  BY SessionConstants DEF NoToken, Token
<1>5. (IF token[t].left = 0 THEN 0 ELSE token[t].left - 1) \in 0..TokenLife
  BY <1>2, SessionConstants
<1> QED
  BY <1>1, <1>3, <1>4, <1>5 DEF Older, Token

\* The life of a blacklist entry is a number of whole seconds.
LEMMA BlacklistTtlType ==
    ASSUME TypeOK, NEW t \in Tokens
    PROVE  /\ BlacklistTtl(t) \in Int /\ token[t].left \in Nat
           /\ UtcOffset >= Second => BlacklistTtl(t) >= token[t].left
  BY SessionConstants DEF TypeOK, Token, BlacklistTtl, Second

LEMMA InitTypeOK == Init => TypeOK
<1> SUFFICES ASSUME Init PROVE TypeOK
  OBVIOUS
<1>1. NoToken \in Token
  BY SessionConstants DEF NoToken, Token
<1> QED
  BY <1>1 DEF Init, TypeOK, PCs, Bypasses, Second

\* Every step keeps the types.
LEMMA StepTypeOK == TypeOK /\ [Next]_vars => TypeOK'
<1> SUFFICES ASSUME TypeOK, [Next]_vars PROVE TypeOK'
  OBVIOUS
<1> USE SessionConstants DEF PCs, Bypasses, lock, sessions, clock, locals
<1>1. CASE UNCHANGED vars
  BY <1>1 DEF vars, TypeOK
<1>2. CASE SwitchRedis
  BY <1>2 DEF SwitchRedis, TypeOK
<1>3. CASE Tick
  <2>1. token' \in [Tokens -> Token]
    BY <1>3, OlderType DEF Tick
  <2>2. barred' \in [Tokens -> Nat]
    BY <1>3 DEF Tick, TypeOK
  <2>3. count' \in Nat /\ ttl' \in Nat \union {NoTtl}
    BY <1>3 DEF Tick, TypeOK, KeyExpires
  <2>4. phase' \in 0..(Second - 1)
    BY <1>3 DEF Tick, TypeOK, Second
  <2> QED
    BY <1>3, <2>1, <2>2, <2>3, <2>4 DEF Tick, TypeOK
<1>4. ASSUME NEW r \in Requests, Request(r) PROVE TypeOK'
  <2>1. CASE Peek(r)
    BY <2>1 DEF Peek, GoTo, TypeOK
  <2>2. CASE CheckBlacklist(r)
    BY <2>2 DEF CheckBlacklist, GoTo, TypeOK
  <2>3. CASE InactiveAccount(r) \/ Refused(r) \/ Dies(r)
    BY <2>3 DEF InactiveAccount, Refused, Dies, Ends, TypeOK
  <2>4. CASE RightPassword(r)
    <3>1. PICK t \in Tokens : Issue(t, UtcOffset + phase, 0)
      BY <2>4 DEF RightPassword
    <3>2. UtcOffset + phase \in Int
      BY DEF TypeOK
    <3> QED
      BY <2>4, <3>1, <3>2, IssueType DEF RightPassword, GoTo, TypeOK
  <2>5. CASE Record(r)
    BY <2>5 DEF Record, TypeOK
  <2>6. CASE ArmExpiry(r) \/ ResetCounter(r)
    BY <2>6 DEF ArmExpiry, ResetCounter, GoTo, TypeOK
  <2>7. CASE RefreshIssues(r)
    <3>1. PICK old \in hand[r], t \in Tokens :
             Issue(t, token[old].age, token[old].lived)
      BY <2>7 DEF RefreshIssues
    <3>2. token[old].age \in Int /\ token[old].lived \in Nat
      BY DEF TypeOK, Token
    <3> QED
      BY <2>7, <3>1, <3>2, IssueType DEF RefreshIssues, GoTo, TypeOK
  <2>8. CASE Bar(r)
    <3>1. PICK t \in hand[r] :
             \/ /\ BlacklistTtl(t) > 0
                /\ barred' = [barred EXCEPT ![t] = BlacklistTtl(t)]
                /\ out' = out \union {t}
             \/ UNCHANGED <<barred, out>>
      BY <2>8 DEF Bar
    <3>2. t \in Tokens
      BY DEF TypeOK
    <3>3. barred' \in [Tokens -> Nat] /\ out' \subseteq Tokens
      BY <3>1, <3>2, BlacklistTtlType DEF TypeOK
    <3> QED
      BY <2>8, <3>3 DEF Bar, Ends, TypeOK
  <2> QED
    BY <1>4, <2>1, <2>2, <2>3, <2>4, <2>5, <2>6, <2>7, <2>8 DEF Request, Step
<1> QED
  BY <1>1, <1>2, <1>3, <1>4 DEF Next

\* Every reachable state is well typed, whatever the time zone.
THEOREM TypeCorrect == Spec => []TypeOK
<1> QED
  BY InitTypeOK, StepTypeOK, PTL DEF Spec

-----------------------------------------------------------------------------
(* Sessions end.                                                            *)

\* A step that issues nothing and lets no time pass leaves the tokens alone.
LEMMA TokensStay ==
    ASSUME NEW r \in Requests, Request(r), ~RightPassword(r), ~RefreshIssues(r)
    PROVE  token' = token
  BY DEF Request, Step, Peek, CheckBlacklist, InactiveAccount, Record, ArmExpiry,
         ResetCounter, Bar, Refused, Dies, sessions

\* The claim is never younger than the session, and a token that is issued leaves
\* room for its own life.
LEMMA StepAgeInv ==
    ASSUME UtcOffset >= 0, TypeOK, AgeInv, [Next]_vars
    PROVE  AgeInv'
<1> USE SessionConstants DEF AgeInv
<1>1. CASE UNCHANGED vars \/ SwitchRedis
  BY <1>1 DEF vars, SwitchRedis, sessions
<1>2. CASE Tick
  <2>1. ASSUME NEW t \in Tokens
        PROVE  /\ token'[t].lived <= token'[t].age
               /\ token'[t].left > 0 =>
                      token'[t].lived + token'[t].left <= MaxSession + TokenLife
    <3>1. token'[t] = Older(t)
      BY <1>2 DEF Tick
    <3>2. CASE Gone(t)
      BY <3>1, <3>2, OlderType DEF NoToken
    <3>3. CASE ~Gone(t)
      <4>1. /\ token'[t].left = (IF token[t].left = 0 THEN 0 ELSE token[t].left - 1)
            /\ token'[t].age = Aged(token[t].age) /\ token'[t].lived = Aged(token[t].lived)
            /\ token[t].left \in 0..TokenLife /\ token[t].age \in Int /\ token[t].lived \in Nat
        BY <3>1, <3>3, OlderType DEF Token
      <4>2. Aged(token[t].lived) <= Aged(token[t].age)
            /\ Aged(token[t].lived) <= token[t].lived + 1 /\ Aged(token[t].lived) \in Nat
        BY <4>1 DEF Aged, Horizon
      <4> QED
        BY <4>1, <4>2
    <3> QED
      BY <3>2, <3>3
  <2> QED
    BY <2>1
<1>3. ASSUME NEW r \in Requests, Request(r) PROVE AgeInv'
  <2>1. ASSUME NEW t \in Tokens, NEW age \in Int, NEW lived \in Nat, Issue(t, age, lived),
               lived <= age, lived <= MaxSession
        PROVE  AgeInv'
    <3>1. /\ token'[t].left = TokenLife - phase /\ token'[t].age = age
          /\ token'[t].lived = lived
          /\ \A u \in Tokens \ {t} : token'[u] = token[u]
      <4>1. token'[t] = [left |-> TokenLife - phase, age |-> age, lived |-> lived]
        BY <2>1, IssueType
      <4>2. \A u \in Tokens \ {t} : token'[u] = token[u]
        BY <2>1, IssueType
      <4> QED
        BY <4>1, <4>2
    <3>2. TokenLife - phase <= TokenLife /\ TokenLife - phase \in Int
      BY DEF TypeOK, Second
    <3> QED
      BY <2>1, <3>1, <3>2
  <2>2. CASE RightPassword(r)
    <3>1. UtcOffset + phase \in Int /\ 0 <= UtcOffset + phase
      BY DEF TypeOK, Second
    <3> QED
      BY <2>1, <2>2, <3>1 DEF RightPassword
  <2>3. CASE RefreshIssues(r)
    <3>1. PICK old \in hand[r], t \in Tokens :
             token[old].age <= MaxSession /\ Issue(t, token[old].age, token[old].lived)
      BY <2>3 DEF RefreshIssues
    <3>2. /\ old \in Tokens /\ token[old].age \in Int /\ token[old].lived \in Nat
          /\ token[old].lived <= token[old].age
      BY DEF TypeOK, Token
    <3>3. token[old].lived <= MaxSession
      BY <3>1, <3>2
    <3> QED
      BY <2>1, <3>1, <3>2, <3>3
  <2>4. CASE token' = token
    BY <2>4
  <2> QED
    BY <1>3, <2>2, <2>3, <2>4, TokensStay
<1> QED
  BY <1>1, <1>2, <1>3 DEF Next

\* The claim of every token is at least as old as its session, in a time zone that
\* is not west of UTC.
THEOREM ClaimsAreOldEnough == ASSUME UtcOffset >= 0 PROVE Spec => []AgeInv
<1>1. Init => AgeInv
  BY SessionConstants DEF Init, AgeInv, NoToken
<1>2. TypeOK /\ AgeInv /\ [Next]_vars => AgeInv'
  BY StepAgeInv
<1> QED
  BY <1>1, <1>2, TypeCorrect, PTL DEF Spec

\* No session outlives its lifetime by more than the life of one token, through
\* any number of overlapping refreshes.
THEOREM SessionsAreFinite == ASSUME UtcOffset >= 0 PROVE Spec => []SessionsEnd
<1>1. TypeOK /\ AgeInv => SessionsEnd
  BY SessionConstants DEF TypeOK, Token, AgeInv, SessionsEnd
<1> QED
  BY <1>1, TypeCorrect, ClaimsAreOldEnough, PTL

-----------------------------------------------------------------------------
(* A logout holds.                                                          *)

\* The entry outlives its token: it is written for at least as long, and both
\* grow older together.
LEMMA StepBlacklistInv ==
    ASSUME UtcOffset >= Second, TypeOK, BlacklistInv, [Next]_vars
    PROVE  BlacklistInv'
<1> USE SessionConstants DEF BlacklistInv
<1>1. CASE UNCHANGED vars \/ SwitchRedis
  BY <1>1 DEF vars, SwitchRedis, sessions
<1>2. CASE Tick
  <2>1. ASSUME NEW t \in out', token'[t].left > 0 PROVE barred'[t] >= token'[t].left
    <3>1. t \in Tokens /\ t \in out /\ ~Gone(t)
      BY <1>2, <2>1 DEF Tick, TypeOK
    <3>2. /\ token[t].left \in Nat /\ barred[t] \in Nat /\ token'[t] = Older(t)
          /\ barred'[t] = IF barred[t] = 0 THEN 0 ELSE barred[t] - 1
      BY <1>2, <3>1 DEF Tick, TypeOK, Token
    <3>3. token'[t].left = IF token[t].left = 0 THEN 0 ELSE token[t].left - 1
      BY <3>1, <3>2, OlderType
    <3> QED
      BY <2>1, <3>1, <3>2, <3>3
  <2> QED
    BY <2>1
<1>3. ASSUME NEW r \in Requests, Request(r) PROVE BlacklistInv'
  <2>1. ASSUME NEW t \in Tokens, NEW age \in Int, NEW lived \in Nat, Issue(t, age, lived)
        PROVE  BlacklistInv'
    BY <2>1, IssueType DEF TypeOK
  <2>2. CASE RightPassword(r)
    <3>1. UtcOffset + phase \in Int /\ 0 \in Nat
      BY DEF TypeOK
    <3> QED
      BY <2>1, <2>2, <3>1 DEF RightPassword
  <2>3. CASE RefreshIssues(r)
    <3>1. PICK old \in hand[r], t \in Tokens : Issue(t, token[old].age, token[old].lived)
      BY <2>3 DEF RefreshIssues
    <3>2. token[old].age \in Int /\ token[old].lived \in Nat
      BY DEF TypeOK, Token
    <3> QED
      BY <2>1, <3>1, <3>2
  <2>4. CASE Bar(r)
    <3>1. PICK t \in hand[r] :
             \/ /\ barred' = [barred EXCEPT ![t] = BlacklistTtl(t)]
                /\ out' = out \union {t}
             \/ UNCHANGED <<barred, out>>
      BY <2>4 DEF Bar
    <3>2. t \in Tokens /\ BlacklistTtl(t) >= token[t].left /\ token' = token
      BY <2>4, BlacklistTtlType DEF Bar, TypeOK
    <3> QED
      BY <3>1, <3>2 DEF TypeOK
  <2>5. CASE UNCHANGED sessions
    BY <2>5 DEF sessions
  <2> QED
    BY <1>3, <2>2, <2>3, <2>4, <2>5
       DEF Request, Step, Peek, CheckBlacklist, InactiveAccount, Record, ArmExpiry,
           ResetCounter, Refused, Dies
<1> QED
  BY <1>1, <1>2, <1>3 DEF Next

\* Where the clock is misread by a second or more to the east, as it is in the
\* shipped configuration, the blacklist entry outlives the token it bars.
THEOREM EntriesOutliveTokens == ASSUME UtcOffset >= Second PROVE Spec => []BlacklistInv
<1>1. Init => BlacklistInv
  BY DEF Init, BlacklistInv
<1>2. TypeOK /\ BlacklistInv /\ [Next]_vars => BlacklistInv'
  BY StepBlacklistInv
<1> QED
  BY <1>1, <1>2, TypeCorrect, PTL DEF Spec

\* There a token that was barred never passes the check again while Redis answers.
THEOREM LogoutHolds == ASSUME UtcOffset >= Second PROVE Spec => []RevokedTokenRefused
<1>1. TypeOK /\ BlacklistInv => RevokedTokenRefused
  BY DEF TypeOK, Token, BlacklistInv, RevokedTokenRefused, PassesBlacklist
<1> QED
  BY <1>1, TypeCorrect, EntriesOutliveTokens, PTL

-----------------------------------------------------------------------------
(* The lockout.                                                             *)

LEMMA GuessingSize ==
    /\ IsFiniteSet(Guessing) /\ Cardinality(Guessing) \in Nat
    /\ Cardinality(Requests) \in Nat
    /\ Cardinality(Guessing) <= Cardinality(Requests)
  BY RequestsFinite, FS_Subset, FS_CardinalityType DEF Guessing

\* Whoever is in flight has been paid for: by the look at the counter, or by a
\* blind login.
LEMMA StepGuesses ==
    ASSUME TypeOK, GuessesBounded, [Next]_vars
    PROVE  GuessesBounded'
<1> USE SessionConstants DEF lock, sessions, clock, locals
<1> DEFINE N == Cardinality(Requests)
<1>0. /\ count \in Nat /\ blind \in Nat /\ N \in Nat /\ Cardinality(Guessing) \in Nat
      /\ count + Cardinality(Guessing) <= MaxAttempts - 1 + N + blind
  BY GuessingSize DEF TypeOK, GuessesBounded
<1>1. Guessing' \subseteq Requests
  BY DEF Guessing
<1>2. Cardinality(Guessing') \in Nat /\ Cardinality(Guessing') <= N
  BY <1>1, RequestsFinite, FS_Subset, FS_CardinalityType
<1>3. CASE /\ UNCHANGED blind /\ count' \in {0, count}
           /\ Guessing' \subseteq Guessing
  <2>1. Cardinality(Guessing') <= Cardinality(Guessing)
    BY <1>3, GuessingSize, FS_Subset
  <2> HIDE DEF N
  <2>2. count' + Cardinality(Guessing') <= MaxAttempts - 1 + N + blind'
    BY <1>0, <1>2, <1>3, <2>1
  <2> QED
    BY <2>2 DEF GuessesBounded, N
<1>4. CASE UNCHANGED vars \/ SwitchRedis \/ Tick
  BY <1>3, <1>4 DEF vars, SwitchRedis, Tick, Guessing
<1>5. ASSUME NEW r \in Requests, Request(r) PROVE GuessesBounded'
  <2>1. CASE Peek(r)
    <3>1. Guessing' = Guessing \union {r} /\ r \notin Guessing /\ count' = count
      BY <2>1 DEF Peek, GoTo, Guessing, TypeOK
    <3>2. Cardinality(Guessing') = Cardinality(Guessing) + 1
      BY <3>1, GuessingSize, FS_AddElement
    <3>3. \/ count < MaxAttempts /\ blind' = blind
          \/ blind' = blind + 1
      BY <2>1 DEF Peek
    <3> HIDE DEF N
    <3>4. count' + Cardinality(Guessing') <= MaxAttempts - 1 + N + blind'
      BY <1>0, <1>2, <3>1, <3>2, <3>3
    <3> QED
      BY <3>4 DEF GuessesBounded, N
  <2>2. CASE Record(r)
    <3>1. Guessing' = Guessing \ {r} /\ r \in Guessing /\ blind' = blind
      BY <2>2 DEF Record, Guessing, TypeOK
    <3>2. Cardinality(Guessing') = Cardinality(Guessing) - 1
      BY <3>1, GuessingSize, FS_RemoveElement
    <3>3. count' \in {count, count + 1}
      BY <2>2 DEF Record
    <3> HIDE DEF N
    <3>4. count' + Cardinality(Guessing') <= MaxAttempts - 1 + N + blind'
      BY <1>0, <1>2, <3>1, <3>2, <3>3
    <3> QED
      BY <3>4 DEF GuessesBounded, N
  <2>3. CASE RightPassword(r) \/ InactiveAccount(r) \/ ArmExpiry(r) \/ ResetCounter(r)
             \/ CheckBlacklist(r) \/ RefreshIssues(r) \/ Bar(r) \/ Refused(r) \/ Dies(r)
    <3>1. /\ UNCHANGED blind /\ count' \in {0, count}
          /\ pc'[r] # "test" /\ \A q \in Requests \ {r} : pc'[q] = pc[q]
      BY <2>3 DEF RightPassword, InactiveAccount, ArmExpiry, ResetCounter, CheckBlacklist,
         RefreshIssues, Bar, Refused, Dies, GoTo, Ends, TypeOK
    <3>2. Guessing' \subseteq Guessing
      BY <3>1 DEF Guessing
    <3> QED
      BY <1>3, <3>1, <3>2
  <2> QED
    BY <1>5, <2>1, <2>2, <2>3 DEF Request, Step
<1> QED
  BY <1>4, <1>5 DEF Next

\* The attempts of one window never exceed the limit by more than the requests
\* in flight, less one, and the logins that were let in without a look: while Redis was
\* away, or by a bypass of the environment.
THEOREM LockoutIsTight == Spec => []GuessesBounded
<1>1. Init => GuessesBounded
  <2> SUFFICES ASSUME Init PROVE GuessesBounded
    OBVIOUS
  <2>1. Guessing = {} /\ count = 0 /\ blind = 0
    BY DEF Init, Guessing
  <2>2. Cardinality(Guessing) = 0
    BY <2>1, FS_EmptySet
  <2> QED
    BY <2>1, <2>2, GuessingSize, SessionConstants DEF GuessesBounded
<1> QED
  BY <1>1, StepGuesses, TypeCorrect, PTL DEF Spec

-----------------------------------------------------------------------------
(* What the end of a lockout rests on.                                      *)

Arming == {r \in Requests : pc[r] = "expire"}

\* The ticks a lockout with an expiry can still last: what the key has left, and a
\* window for each login that made the key of an earlier count and has yet to set
\* its expiry.
Rest == ttl + Window * Cardinality(Arming)

Timed == Locked /\ ttl # NoTtl

\* No attempt prolongs a lockout or takes its expiry away, and a tick shortens it.
LockoutShrinks ==
    Timed /\ Locked' => Timed' /\ Rest' \in Nat /\ Rest' <= Rest /\ (Tick => Rest' < Rest)

LEMMA Distributes ==
    ASSUME NEW w \in Nat, NEW n \in Nat, NEW k \in Nat
    PROVE  w * (n + k) = w * n + w * k /\ w * n \in Nat /\ w * k \in Nat
  OBVIOUS

\* Fewer logins before their EXPIRE leave less of the lockout.
LEMMA FewerArming ==
    ASSUME NEW R \in SUBSET Requests, NEW Q \in SUBSET R
    PROVE  /\ Window * Cardinality(Q) \in Nat /\ Window * Cardinality(R) \in Nat
           /\ Window * Cardinality(Q) <= Window * Cardinality(R)
           /\ Q # R => Window * Cardinality(Q) + Window <= Window * Cardinality(R)
<1>1. /\ IsFiniteSet(R) /\ Cardinality(R) \in Nat /\ Cardinality(Q) \in Nat
      /\ Cardinality(Q) <= Cardinality(R)
      /\ Q # R => Cardinality(Q) < Cardinality(R)
  BY RequestsFinite, FS_Subset, FS_CardinalityType
<1> DEFINE q == Cardinality(Q)
           k == Cardinality(R) - Cardinality(Q)
<1>2. /\ Window \in Nat /\ q \in Nat /\ k \in Nat /\ Cardinality(R) = q + k
      /\ Q # R => k - 1 \in Nat /\ k = 1 + (k - 1)
  BY <1>1, SessionConstants
<1> HIDE DEF q, k
<1>3. /\ Window * Cardinality(R) = Window * q + Window * k
      /\ Window * q \in Nat /\ Window * k \in Nat
  BY <1>2, Distributes
<1>4. ASSUME Q # R PROVE Window * k >= Window
  <2>1. Window * (1 + (k - 1)) = Window * 1 + Window * (k - 1) /\ Window * (k - 1) \in Nat
    BY <1>2, <1>4, Distributes
  <2> QED
    BY <1>2, <1>4, <2>1
<1> QED
  BY <1>2, <1>3, <1>4 DEF q

LEMMA StepLockout ==
    ASSUME TypeOK, [Next]_vars, Timed, Locked'
    PROVE  Timed' /\ Rest' \in Nat /\ Rest' <= Rest /\ (Tick => Rest' < Rest)
<1> USE SessionConstants DEF Timed, lock, sessions, clock, locals
<1>1. /\ Arming \subseteq Requests /\ Arming' \subseteq Requests
      /\ ttl \in Nat /\ Window \in Nat \ {0} /\ count >= 1 /\ count \in Nat
  BY DEF Arming, TypeOK, Locked
<1>2. CASE ttl' = ttl /\ Arming' \subseteq Arming /\ ~Tick
  <2>1. /\ Window * Cardinality(Arming') \in Nat /\ Window * Cardinality(Arming) \in Nat
        /\ Window * Cardinality(Arming') <= Window * Cardinality(Arming)
    BY <1>1, <1>2, FewerArming
  <2> QED
    BY <1>1, <1>2, <2>1 DEF Rest
<1>3. CASE Tick
  <2>1. ttl' = ttl - 1 /\ ttl > 1 /\ Arming' = Arming
    BY <1>1, <1>3 DEF Tick, KeyExpires, Arming, Locked
  <2>2. Window * Cardinality(Arming) \in Nat
    BY <1>1, FewerArming
  <2> QED
    BY <1>1, <2>1, <2>2 DEF Rest
<1>4. ASSUME NEW r \in Requests, ArmExpiry(r), ~Tick
      PROVE  Timed' /\ Rest' \in Nat /\ Rest' <= Rest
  <2>1. ttl' = Window /\ r \in Arming /\ Arming' = Arming \ {r}
    BY <1>1, <1>4 DEF ArmExpiry, GoTo, Arming, TypeOK
  <2>2. /\ Window * Cardinality(Arming') \in Nat /\ Window * Cardinality(Arming) \in Nat
        /\ Window * Cardinality(Arming') + Window <= Window * Cardinality(Arming)
    BY <1>1, <2>1, FewerArming
  <2> QED
    BY <1>1, <2>1, <2>2 DEF Rest
<1>5. ASSUME NEW r \in Requests, Request(r), ~ArmExpiry(r)
      PROVE  ttl' = ttl /\ Arming' \subseteq Arming
  <2>1. CASE Record(r)
    <3>1. ttl' = ttl /\ pc'[r] = "idle" /\ \A q \in Requests \ {r} : pc'[q] = pc[q]
      BY <1>1, <2>1 DEF Record, TypeOK
    <3> QED
      BY <3>1 DEF Arming
  <2>2. CASE ResetCounter(r)
    <3>1. ttl' = ttl /\ pc'[r] = "idle" /\ \A q \in Requests \ {r} : pc'[q] = pc[q]
      BY <1>1, <2>2 DEF ResetCounter, GoTo, TypeOK, Locked
    <3> QED
      BY <3>1 DEF Arming
  <2>3. CASE ~Record(r) /\ ~ResetCounter(r)
    <3>1. /\ ttl' = ttl /\ pc'[r] # "expire"
          /\ \A q \in Requests \ {r} : pc'[q] = pc[q]
      BY <1>5, <2>3 DEF Request, Step, Peek, InactiveAccount, RightPassword,
         CheckBlacklist, RefreshIssues, Bar, Refused, Dies, GoTo, Ends, TypeOK
    <3> QED
      BY <3>1 DEF Arming
  <2> QED
    BY <2>1, <2>2, <2>3
<1>6. CASE SwitchRedis \/ UNCHANGED vars
  <2>1. ttl' = ttl /\ Arming' = Arming
    BY <1>6 DEF SwitchRedis, vars, Arming
  <2> QED
    BY <1>2, <1>3, <2>1
<1> QED
  BY <1>2, <1>3, <1>4, <1>5, <1>6 DEF Next

\* A lockout whose key has an expiry runs out: each tick takes from it, and whatever
\* attempts, resets, outages and deaths of requests happen meanwhile add nothing.
\* With time passing (the fairness of Spec) that is LockoutEnds.
THEOREM LockoutRunsOut == Spec => [][LockoutShrinks]_vars
<1>1. TypeOK /\ [Next]_vars => [LockoutShrinks]_vars
  BY StepLockout DEF LockoutShrinks
<1> QED
  BY <1>1, TypeCorrect, PTL DEF Spec
=============================================================================
