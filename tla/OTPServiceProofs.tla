-------------------------- MODULE OTPServiceProofs --------------------------
(***************************************************************************)
(* Theorems about OTPService for every number of requests, codes and       *)
(* attempts, any windows and any clock.                                    *)
(***************************************************************************)
EXTENDS OTPService, FiniteSetTheorems, TLAPS

\* There is no OTP and no request: the counters are honest.
LEMMA InitInv == Init => TypeOK /\ CountInv
  BY OtpNumbers DEF Init, TypeOK, CountInv, PCs

\* The registers keep their types when a request answers.
LEMMA EndsType ==
    ASSUME TypeOK, NEW r \in Requests, Ends(r)
    PROVE  /\ pc' \in [Requests -> PCs]
           /\ seen' \in [Requests -> OtpRecord \union {NoOtp}]
           /\ stamp' \in [Requests -> 0 .. MaxTime]
           /\ left' \in [Requests -> 0 .. OtpWindow]
  BY OtpNumbers DEF TypeOK, Ends, PCs

\* One more attempt makes a well-formed record that is exhausted exactly when
\* no attempt is left.
LEMMA OneMoreType ==
    ASSUME NEW rec \in OtpRecord, rec.attempts < MaxAttempts
    PROVE  /\ OneMore(rec) \in OtpRecord
           /\ OneMore(rec).code = rec.code
           /\ OneMore(rec).attempts = rec.attempts + 1
           /\ (OneMore(rec).status = "exhausted") <=> (OneMore(rec).attempts = MaxAttempts)
<1> DEFINE last == rec.attempts + 1 >= MaxAttempts
<1>1. rec.code \in Codes /\ rec.attempts \in 0 .. MaxAttempts
  BY DEF OtpRecord
<1>2. /\ rec.attempts + 1 \in 0 .. MaxAttempts
      /\ last <=> (rec.attempts + 1 = MaxAttempts)
  BY <1>1, OtpNumbers
<1>3. OneMore(rec) = [code |-> rec.code, attempts |-> rec.attempts + 1,
                      status |-> IF last THEN "exhausted" ELSE "pending"]
  BY DEF OneMore
<1> HIDE DEF last
<1> QED
  BY <1>1, <1>2, <1>3 DEF OtpRecord

\* Honest counting is inductive: a stale copy can only be behind the guesses.
LEMMA StepInv == TypeOK /\ CountInv /\ [Next]_vars => TypeOK' /\ CountInv'
<1> SUFFICES ASSUME TypeOK, CountInv, [Next]_vars PROVE TypeOK' /\ CountInv'
  OBVIOUS
<1> USE OtpNumbers, NoOtpAssumption
    DEF TypeOK, CountInv, CountedHonestly, keys, history
<1>1. CASE Tick
  BY <1>1 DEF Tick, locals
<1>2. ASSUME NEW r \in Requests, Request(r) PROVE TypeOK' /\ CountInv'
  <2>1. CASE StartResend(r)
    BY <2>1 DEF StartResend, GoTo, PCs
  <2>2. CASE PassCooldown(r)
    BY <2>2 DEF PassCooldown, PCs
  <2>3. CASE RefuseCooldown(r)
    BY <2>3, EndsType DEF RefuseCooldown, Ends
  <2>4. CASE CheckUserLimit(r)
    BY <2>4 DEF CheckUserLimit, GoTo, RecentHits, PCs
  <2>5. CASE SkipUserLimit(r)
    BY <2>5 DEF SkipUserLimit, GoTo, PCs
  <2>6. CASE DropHit(r)
    BY <2>6, EndsType DEF DropHit, Ends
  <2>16. CASE DropFails(r)
    BY <2>16 DEF DropFails, GoTo, PCs
  <2>7. CASE PassOtherLimits(r)
    BY <2>7 DEF PassOtherLimits, GoTo, PCs
  <2>8. CASE RefuseOtherLimits(r)
    BY <2>8, EndsType DEF RefuseOtherLimits, Ends
  <2>9. CASE StoreOtp(r)
    <3>1. PICK c \in Codes \ sent :
             /\ otp' = [code |-> c, attempts |-> 0, status |-> "pending"]
             /\ sent' = sent \union {c}
      BY <2>9 DEF StoreOtp
    <3>2. otp' \in OtpRecord /\ otp'.attempts = 0 /\ otp'.status # "exhausted"
      BY <3>1 DEF OtpRecord
    <3>3. sent' \subseteq Codes
      BY <3>1
    <3>4. expires' = now + OtpWindow /\ expires' \in Nat /\ expires' > now
      BY <2>9 DEF StoreOtp
    <3>5. TypeOK'
      BY <2>9, <3>2, <3>3, <3>4 DEF StoreOtp, GoTo, PCs
    <3>6. CountedHonestly(otp)'
      BY <2>9, <3>1, <3>2 DEF StoreOtp
    <3> QED
      BY <2>9, <3>2, <3>4, <3>5, <3>6 DEF StoreOtp, GoTo, PCs
  <2>10. CASE SetCooldown(r)
    <3>1. cooldown' \in Nat
      BY <2>10 DEF SetCooldown
    <3>2. TypeOK'
      BY <2>10, <3>1, EndsType DEF SetCooldown
    <3> QED
      BY <2>10, <3>2 DEF SetCooldown, Ends
  <2>11. CASE ReadOtp(r)
    <3>1. /\ otp \in OtpRecord /\ otp.status = "pending"
          /\ seen' = [seen EXCEPT ![r] = otp]
          /\ pc' \in {[pc EXCEPT ![r] = "delete"], [pc EXCEPT ![r] = "ttl"]}
          /\ UNCHANGED <<now, keys, stamp, left, history>>
      BY <2>11 DEF ReadOtp, GoTo
    <3>2. otp.attempts \in 0 .. MaxAttempts /\ otp.attempts # MaxAttempts
      BY <3>1 DEF OtpRecord
    <3>3. otp.attempts < MaxAttempts
      BY <3>2
    <3>4. TypeOK'
      BY <3>1 DEF PCs
    <3>5. ASSUME NEW q \in Requests, pc'[q] \in {"delete", "ttl", "write"}
          PROVE  /\ seen'[q] \in OtpRecord
                 /\ CountedHonestly(seen[q])'
                 /\ seen'[q].attempts < MaxAttempts
      <4>1. CASE q = r
        <5>1. seen'[q] = otp /\ tries' = tries
          BY <3>1, <4>1
        <5>2. otp.attempts <= tries[otp.code]
          BY <2>11 DEF ReadOtp
        <5> QED
          BY <3>1, <3>3, <5>1, <5>2
      <4>2. CASE q # r
        BY <3>1, <3>5, <4>2
      <4> QED
        BY <4>1, <4>2
    <3>6. ASSUME NEW q \in Requests, pc'[q] = "write"
          PROVE  left'[q] > 0
      BY <3>1, <3>6
    <3> QED
      BY <3>1, <3>4, <3>5, <3>6
  <2>12. CASE AcceptCode(r)
    <3>1. seen[r].code \in Codes
      BY <2>12 DEF AcceptCode, OtpRecord
    <3>2. accepted' \in [Codes -> Nat]
      BY <2>12, <3>1 DEF AcceptCode
    <3>3. TypeOK'
      BY <2>12, <3>2, EndsType DEF AcceptCode
    <3> QED
      BY <2>12, <3>3 DEF AcceptCode, Ends
  <2>13. CASE ReadTtl(r)
    BY <2>13 DEF ReadTtl, GoTo, PCs
  <2>14. CASE WriteAttempts(r)
    <3>1. /\ seen[r] \in OtpRecord /\ seen[r].code \in Codes
          /\ seen[r].attempts \in Nat /\ seen[r].attempts < MaxAttempts
          /\ seen[r].attempts <= tries[seen[r].code]
          /\ left[r] \in 1 .. OtpWindow
      BY <2>14 DEF WriteAttempts, OtpRecord
    <3>2. /\ otp' = OneMore(seen[r]) /\ otp' \in OtpRecord
          /\ otp'.code = seen[r].code
          /\ otp'.attempts = seen[r].attempts + 1
          /\ (otp'.status = "exhausted") <=> (otp'.attempts = MaxAttempts)
      BY <2>14, <3>1, OneMoreType DEF WriteAttempts
    <3>3. /\ tries' \in [Codes -> Nat] /\ tries[seen[r].code] \in Nat
          /\ tries'[seen[r].code] = tries[seen[r].code] + 1
          /\ \A c \in Codes : tries[c] <= tries'[c]
      BY <2>14, <3>1 DEF WriteAttempts
    <3>4. expires' = now + left[r] /\ UNCHANGED <<now, cooldown, hits, sent, accepted>>
      BY <2>14 DEF WriteAttempts
    <3>5. TypeOK'
      BY <2>14, <3>1, <3>2, <3>3, <3>4, EndsType DEF WriteAttempts
    <3>6. otp'.attempts <= tries'[otp'.code]
      BY <3>1, <3>2, <3>3
    <3>7. ASSUME NEW q \in Requests, pc'[q] \in {"delete", "ttl", "write"}
          PROVE  /\ q # r /\ pc'[q] = pc[q] /\ seen'[q] = seen[q] /\ left'[q] = left[q]
                 /\ seen'[q] \in OtpRecord
                 /\ seen'[q].attempts <= tries'[seen'[q].code]
                 /\ seen'[q].attempts < MaxAttempts
      <4>1. q # r /\ pc'[q] = pc[q] /\ seen'[q] = seen[q] /\ left'[q] = left[q]
        BY <2>14, <3>7 DEF WriteAttempts, Ends
      <4>2. seen[q].code \in Codes /\ seen[q].attempts \in Nat
        BY <3>7, <4>1 DEF OtpRecord
      <4> QED
        BY <3>3, <3>7, <4>1, <4>2
    <3> QED
      BY <3>1, <3>2, <3>4, <3>5, <3>6, <3>7
  <2>15. CASE RequestFails(r)
    BY <2>15, EndsType DEF RequestFails, Ends
  <2> QED
    BY <1>2, <2>1, <2>2, <2>3, <2>4, <2>5, <2>6, <2>7, <2>8, <2>9, <2>10,
       <2>11, <2>12, <2>13, <2>14, <2>15, <2>16 DEF Request
<1>3. CASE UNCHANGED vars
  BY <1>3 DEF vars, locals
<1> QED
  BY <1>1, <1>2, <1>3 DEF Next

\* At most all requests are about to accept a code.
LEMMA AcceptingSize ==
    ASSUME NEW c
    PROVE  /\ IsFiniteSet(Accepting(c)) /\ Cardinality(Accepting(c)) \in Nat
           /\ Cardinality(Requests) \in Nat
           /\ Cardinality(Accepting(c)) <= Cardinality(Requests)
  BY RequestsFinite, FS_Subset, FS_CardinalityType DEF Accepting

\* One more guess pays for one more acceptance of every request.
LEMMA OneMoreRound ==
    ASSUME NEW n \in Nat, NEW t \in Nat
    PROVE  /\ n * (t + 1) = n * t + n /\ n * t \in Nat
           /\ n * (t + 1) \in Nat /\ n * t <= n * (t + 1)
  OBVIOUS

\* A step that accepts nothing, stores nothing and begins no verification.
LEMMA QuietAccept ==
    ASSUME TypeOK, AcceptInv, UNCHANGED <<accepted, tries, sent>>,
           otp' = otp \/ otp' = NoOtp,
           \A q \in Requests : pc'[q] \in {"delete", "ttl", "write"} =>
               /\ pc[q] \in {"delete", "ttl", "write"} /\ seen'[q] = seen[q]
               /\ pc'[q] = "delete" => pc[q] = "delete"
    PROVE  AcceptInv'
<1>1. ASSUME NEW c \in Codes
      PROVE  accepted'[c] + Cardinality(Accepting(c)')
                 <= Cardinality(Requests) * (tries'[c] + 1)
  <2>1. Accepting(c)' \subseteq Accepting(c)
    BY DEF Accepting
  <2>2. Cardinality(Accepting(c)') \in Nat
        /\ Cardinality(Accepting(c)') <= Cardinality(Accepting(c))
    BY <2>1, AcceptingSize, FS_Subset, FS_CardinalityType
  <2>3. accepted[c] + Cardinality(Accepting(c)) <= Cardinality(Requests) * (tries[c] + 1)
    BY DEF AcceptInv, AcceptsBounded
  <2>4. accepted'[c] = accepted[c] /\ tries'[c] = tries[c] /\ accepted[c] \in Nat
    BY DEF TypeOK
  <2>5. Cardinality(Requests) * (tries[c] + 1) \in Nat
    BY AcceptingSize, OneMoreRound DEF TypeOK
  <2> QED
    BY <2>2, <2>3, <2>4, <2>5, AcceptingSize
<1> QED
  BY <1>1, NoOtpAssumption DEF AcceptInv, AcceptsBounded

\* The bound on acceptances is inductive.
LEMMA StepAccept == TypeOK /\ CountInv /\ AcceptInv /\ [Next]_vars => AcceptInv'
<1> SUFFICES ASSUME TypeOK, CountInv, AcceptInv, [Next]_vars PROVE AcceptInv'
  OBVIOUS
<1> DEFINE N == Cardinality(Requests)
<1>n. N \in Nat
  BY RequestsFinite, FS_CardinalityType
<1>1. CASE Tick
  BY <1>1, QuietAccept DEF Tick, locals, history
<1>2. ASSUME NEW r \in Requests, Request(r) PROVE AcceptInv'
  <2> USE DEF keys, history
  <2>1. CASE StartResend(r)
    BY <2>1, QuietAccept DEF StartResend, GoTo, TypeOK
  <2>2. CASE PassCooldown(r)
    BY <2>2, QuietAccept DEF PassCooldown, TypeOK
  <2>3. CASE RefuseCooldown(r) \/ DropHit(r) \/ RefuseOtherLimits(r)
             \/ SetCooldown(r) \/ RequestFails(r)
    BY <2>3, QuietAccept DEF RefuseCooldown, DropHit, RefuseOtherLimits, SetCooldown,
       RequestFails, Ends, TypeOK
  <2>4. CASE CheckUserLimit(r)
    BY <2>4, QuietAccept DEF CheckUserLimit, GoTo, TypeOK
  <2>5. CASE SkipUserLimit(r) \/ DropFails(r) \/ PassOtherLimits(r)
    BY <2>5, QuietAccept DEF SkipUserLimit, DropFails, PassOtherLimits, GoTo, TypeOK
  <2>6. CASE ReadTtl(r)
    BY <2>6, QuietAccept DEF ReadTtl, GoTo, TypeOK
  <2>7. CASE StoreOtp(r)
    <3>1. PICK c \in Codes \ sent :
             /\ otp' = [code |-> c, attempts |-> 0, status |-> "pending"]
             /\ sent' = sent \union {c}
      BY <2>7 DEF StoreOtp
    <3>2. /\ pc' = [pc EXCEPT ![r] = "cool"]
          /\ UNCHANGED <<seen, accepted, tries>>
      BY <2>7 DEF StoreOtp, GoTo
    <3>3. \A q \in Requests : pc'[q] \in {"delete", "ttl", "write"} =>
              pc[q] \in {"delete", "ttl", "write"} /\ pc'[q] = pc[q]
      BY <3>2 DEF TypeOK
    <3>4. \A d \in Codes : Accepting(d)' = Accepting(d)
      BY <2>7, <3>2 DEF Accepting, StoreOtp, GoTo, TypeOK
    <3>5. AcceptsBounded'
      BY <3>2, <3>4 DEF AcceptInv, AcceptsBounded
    <3>6. otp'.code = c /\ accepted'[c] = 0 /\ tries'[c] \in Nat
      BY <3>1, <3>2 DEF AcceptInv, TypeOK
    <3>7. accepted'[otp'.code] <= N * tries'[otp'.code]
      BY <3>6, <1>n, OneMoreRound
    <3> QED
      BY <3>1, <3>2, <3>3, <3>5, <3>6, <3>7 DEF AcceptInv
  <2>8. CASE ReadOtp(r)
    <3>1. /\ otp \in OtpRecord /\ otp.code \in Codes
          /\ otp.code \in sent /\ accepted[otp.code] <= N * tries[otp.code]
          /\ seen' = [seen EXCEPT ![r] = otp] /\ pc[r] = "idle"
          /\ pc' \in {[pc EXCEPT ![r] = "delete"], [pc EXCEPT ![r] = "ttl"]}
          /\ UNCHANGED <<otp, accepted, tries, sent>>
      BY <2>8 DEF ReadOtp, GoTo, AcceptInv, TypeOK, OtpRecord
    <3>2. ASSUME NEW c \in Codes
          PROVE  accepted'[c] + Cardinality(Accepting(c)') <= N * (tries'[c] + 1)
      <4>1. CASE c = otp.code
        <5>1. Cardinality(Accepting(c)') \in Nat /\ Cardinality(Accepting(c)') <= N
          BY RequestsFinite, FS_Subset, FS_CardinalityType DEF Accepting
        <5>2. accepted'[c] \in Nat /\ tries'[c] \in Nat /\ accepted'[c] <= N * tries'[c]
          BY <3>1, <4>1 DEF TypeOK
        <5>3. N * (tries'[c] + 1) = N * tries'[c] + N /\ N * tries'[c] \in Nat
          BY <5>2, <1>n, OneMoreRound
        <5> HIDE DEF N
        <5> QED
          BY <5>1, <5>2, <5>3, <1>n
      <4>2. CASE c # otp.code
        <5>1. Accepting(c)' = Accepting(c)
          BY <3>1, <4>2 DEF Accepting, TypeOK
        <5> QED
          BY <3>1, <5>1 DEF AcceptInv, AcceptsBounded
      <4> QED
        BY <4>1, <4>2
    <3>3. \A q \in Requests : pc'[q] \in {"delete", "ttl", "write"} => seen'[q].code \in sent
      BY <3>1 DEF AcceptInv, TypeOK
    <3> QED
      BY <3>1, <3>2, <3>3 DEF AcceptInv, AcceptsBounded
  <2>9. CASE AcceptCode(r)
    <3> DEFINE c == seen[r].code
    <3>1. /\ c \in Codes /\ c \in sent /\ pc[r] = "delete" /\ r \in Accepting(c)
          /\ pc' = [pc EXCEPT ![r] = "idle"] /\ seen' = [seen EXCEPT ![r] = NoOtp]
          /\ otp' = NoOtp /\ accepted' = [accepted EXCEPT ![c] = @ + 1]
          /\ UNCHANGED <<sent, tries>>
      BY <2>9 DEF AcceptCode, Ends, AcceptInv, CountInv, OtpRecord, Accepting
    <3>2. ASSUME NEW d \in Codes
          PROVE  accepted'[d] + Cardinality(Accepting(d)') <= N * (tries'[d] + 1)
      <4>1. /\ accepted[d] + Cardinality(Accepting(d)) <= N * (tries[d] + 1)
            /\ accepted[d] \in Nat /\ N * (tries[d] + 1) \in Nat /\ tries'[d] = tries[d]
        BY <3>1, <1>n, OneMoreRound DEF AcceptInv, AcceptsBounded, TypeOK
      <4>2. CASE d = c
        <5>1. Accepting(d)' = Accepting(d) \ {r}
          BY <3>1, <4>2 DEF Accepting, TypeOK
        <5>2. Cardinality(Accepting(d)') = Cardinality(Accepting(d)) - 1
          BY <3>1, <4>2, <5>1, AcceptingSize, FS_RemoveElement
        <5>3. accepted'[d] = accepted[d] + 1
          BY <3>1, <4>2 DEF TypeOK
        <5> HIDE DEF N
        <5> QED
          BY <4>1, <5>2, <5>3, AcceptingSize
      <4>3. CASE d # c
        <5>1. Accepting(d)' = Accepting(d) /\ accepted'[d] = accepted[d]
          BY <3>1, <4>3 DEF Accepting, TypeOK
        <5> QED
          BY <4>1, <5>1
      <4> QED
        BY <4>2, <4>3
    <3>3. \A q \in Requests : pc'[q] \in {"delete", "ttl", "write"} => seen'[q].code \in sent
      BY <3>1 DEF AcceptInv, TypeOK
    <3>4. \A d \in Codes \ sent : accepted'[d] = 0
      BY <3>1 DEF AcceptInv, TypeOK
    <3> QED
      BY <3>1, <3>2, <3>3, <3>4 DEF AcceptInv, AcceptsBounded
  <2>10. CASE WriteAttempts(r)
    <3> DEFINE c == seen[r].code
    <3>1. /\ seen[r] \in OtpRecord /\ seen[r].attempts < MaxAttempts
          /\ c \in Codes /\ c \in sent /\ otp' = OneMore(seen[r])
          /\ pc[r] = "write"
          /\ pc' = [pc EXCEPT ![r] = "idle"] /\ seen' = [seen EXCEPT ![r] = NoOtp]
          /\ tries' = [tries EXCEPT ![c] = @ + 1]
          /\ UNCHANGED <<sent, accepted>>
      BY <2>10 DEF WriteAttempts, Ends, AcceptInv, CountInv, OtpRecord
    <3>2. otp'.code = c
      BY <3>1, OneMoreType
    <3>3. ASSUME NEW d \in Codes
          PROVE  /\ accepted'[d] + Cardinality(Accepting(d)') <= N * (tries'[d] + 1)
                 /\ d = c => accepted'[d] <= N * tries'[d]
      <4>1. Accepting(d)' = Accepting(d)
        BY <3>1 DEF Accepting, TypeOK
      <4>2. /\ accepted[d] + Cardinality(Accepting(d)) <= N * (tries[d] + 1)
            /\ accepted[d] \in Nat /\ tries[d] \in Nat /\ accepted'[d] = accepted[d]
        BY <3>1 DEF AcceptInv, AcceptsBounded, TypeOK
      <4>3. tries'[d] = IF d = c THEN tries[d] + 1 ELSE tries[d]
        BY <3>1 DEF TypeOK
      <4>4. /\ N * (tries[d] + 1) \in Nat
            /\ N * (tries[d] + 1) <= N * ((tries[d] + 1) + 1)
            /\ N * ((tries[d] + 1) + 1) \in Nat
        <5> DEFINE t == tries[d] + 1
        <5>1. t \in Nat
          BY <4>2
        <5> HIDE DEF N, t
        <5>2. N * t \in Nat /\ N * t <= N * (t + 1) /\ N * (t + 1) \in Nat
          BY <5>1, <1>n, OneMoreRound
        <5> QED
          BY <5>2 DEF t
      <4> HIDE DEF N, c
      <4> QED
        BY <4>1, <4>2, <4>3, <4>4, AcceptingSize
    <3>4. \A q \in Requests : pc'[q] \in {"delete", "ttl", "write"} => seen'[q].code \in sent
      BY <3>1 DEF AcceptInv, TypeOK
    <3> QED
      BY <3>1, <3>2, <3>3, <3>4 DEF AcceptInv, AcceptsBounded
  <2> QED
    BY <1>2, <2>1, <2>2, <2>3, <2>4, <2>5, <2>6, <2>7, <2>8, <2>9, <2>10 DEF Request
<1>3. CASE UNCHANGED vars
  BY <1>3, QuietAccept DEF vars, locals, keys, history
<1> QED
  BY <1>1, <1>2, <1>3 DEF Next

\* Nothing is stored, read or accepted to begin with.
LEMMA InitAccept == Init => AcceptInv
<1> SUFFICES ASSUME Init PROVE AcceptInv
  OBVIOUS
<1>1. ASSUME NEW c \in Codes
      PROVE  accepted[c] + Cardinality(Accepting(c)) <= Cardinality(Requests) * (tries[c] + 1)
  <2>1. Accepting(c) = {}
    BY DEF Init, Accepting
  <2>2. Cardinality(Accepting(c)) = 0 /\ accepted[c] = 0 /\ tries[c] = 0
    BY <2>1, FS_EmptySet DEF Init
  <2> QED
    BY <2>2, AcceptingSize
<1> QED
  BY <1>1 DEF Init, AcceptInv, AcceptsBounded

\* Every reachable state is well typed: a record in Redis has not expired, and
\* the time to live a verification writes never exceeds the window.
THEOREM TypeCorrect == Spec => []TypeOK
<1> QED
  BY InitInv, StepInv, PTL DEF Spec

\* No user is locked out before MaxAttempts wrong guesses of the code that is
\* stored, however the requests overlap and whichever Redis calls fail.
THEOREM NobodyLockedOutEarly == Spec => []NoEarlyLockout
<1>1. TypeOK /\ CountInv => NoEarlyLockout
  BY DEF TypeOK, CountInv, CountedHonestly, NoEarlyLockout, OtpRecord
<1> QED
  BY <1>1, InitInv, StepInv, PTL DEF Spec

\* The counter never runs ahead of the guesses, in Redis or in a request's hands.
THEOREM GuessesAreCounted == Spec => []CountInv
<1> QED
  BY InitInv, StepInv, PTL DEF Spec

\* A code is accepted once for each request that overlaps and each wrong guess
\* that writes it back, and no more: this is what is left of its one-time use.
THEOREM AcceptancesArePaidFor == Spec => []AcceptsBounded
<1>1. AcceptInv => AcceptsBounded
  BY DEF AcceptInv
<1> QED
  BY <1>1, InitInv, StepInv, InitAccept, StepAccept, PTL DEF Spec

\* The strengthening that shows it holds as well.
THEOREM AcceptancesAreSound == Spec => []AcceptInv
<1> QED
  BY InitInv, StepInv, InitAccept, StepAccept, PTL DEF Spec

-----------------------------------------------------------------------------
(***************************************************************************)
(* OTPService implements the register that the endpoints see.              *)
(***************************************************************************)
\* A request that verifies nothing, before and after its step, is not seen.
LEMMA QuietRegister ==
    ASSUME TypeOK, NEW r \in Requests,
           pc[r] \notin {"delete", "ttl", "write"}, pc'[r] \notin {"delete", "ttl", "write"},
           \A q \in Requests \ {r} : pc'[q] = pc[q] /\ seen'[q] = seen[q]
    PROVE  Right' = Right /\ Copies' = Copies
<1>1. Right' = Right
  BY DEF Right
<1>2. \A q \in Requests :
          (IF pc'[q] \in {"ttl", "write"} THEN {seen'[q].code} ELSE {})
              = IF pc[q] \in {"ttl", "write"} THEN {seen[q].code} ELSE {}
  OBVIOUS
<1> QED
  BY <1>1, <1>2 DEF Copies

\* A verification that ends is out of the hands of the register.
LEMMA EndsRegister ==
    ASSUME TypeOK, NEW r \in Requests, Ends(r)
    PROVE  Right' = Right \ {r} /\ Copies' = [Copies EXCEPT ![r] = {}]
<1>1. /\ pc'[r] = "idle"
      /\ \A q \in Requests \ {r} : pc'[q] = pc[q] /\ seen'[q] = seen[q]
  BY DEF Ends, TypeOK
<1>2. Right' = Right \ {r}
  BY <1>1 DEF Right
<1>3. \A q \in Requests : Copies'[q] = IF q = r THEN {} ELSE Copies[q]
  BY <1>1 DEF Copies
<1> QED
  BY <1>2, <1>3 DEF Copies

\* The same for one that does not end yet, and the record it holds.
LEMMA ReadRegister ==
    ASSUME TypeOK, NEW r \in Requests, NEW p \in PCs, pc' = [pc EXCEPT ![r] = p],
           \A q \in Requests \ {r} : seen'[q] = seen[q]
    PROVE  /\ p = "delete" => Right' = Right \union {r}
           /\ p \in {"ttl", "write"} /\ pc[r] # "delete" =>
                  Right' = Right /\ Copies' = [Copies EXCEPT ![r] = {seen'[r].code}]
           /\ p = "delete" /\ pc[r] = "idle" => Copies' = Copies
<1>1. pc'[r] = p /\ \A q \in Requests \ {r} : pc'[q] = pc[q] /\ seen'[q] = seen[q]
  BY DEF TypeOK
<1>2. p = "delete" => Right' = Right \union {r}
  BY <1>1 DEF Right
<1>3. p \in {"ttl", "write"} /\ pc[r] # "delete" => Right' = Right
  BY <1>1 DEF Right
<1>4. ASSUME p \in {"ttl", "write"}
      PROVE  Copies' = [Copies EXCEPT ![r] = {seen'[r].code}]
  <2>1. \A q \in Requests : Copies'[q] = IF q = r THEN {seen'[r].code} ELSE Copies[q]
    BY <1>1, <1>4 DEF Copies
  <2> QED
    BY <2>1 DEF Copies
<1>5. ASSUME p = "delete", pc[r] = "idle" PROVE Copies' = Copies
  <2>1. \A q \in Requests : Copies'[q] = Copies[q]
    BY <1>1, <1>5 DEF Copies
  <2> QED
    BY <2>1 DEF Copies
<1> QED
  BY <1>2, <1>3, <1>4, <1>5

\* Every step of the service is a step of the register, or none of its business.
LEMMA StepRegister ==
    ASSUME TypeOK, CountInv, TypeOK', [Next]_vars
    PROVE  [Register!Next]_(Register!rvars)
<1> USE NoOtpAssumption DEF Register!rvars, keys, history
<1>1. CASE Tick
  <2>1. Right' = Right /\ Copies' = Copies /\ sent' = sent
    BY <1>1 DEF Tick, locals, Right, Copies
  <2>2. Held' \in {Held, {}}
    BY <1>1 DEF Tick, Held
  <2> QED
    BY <2>1, <2>2 DEF Register!Next, Register!Gone
<1>2. ASSUME NEW r \in Requests, Request(r) PROVE [Register!Next]_(Register!rvars)
  <2>1. CASE StartResend(r)
    <3>1. Right' = Right /\ Copies' = Copies
      BY <2>1, QuietRegister DEF StartResend, GoTo, TypeOK
    <3>2. Held' = {} /\ sent' = sent
      BY <2>1 DEF StartResend, Held
    <3> QED
      BY <3>1, <3>2 DEF Register!Next, Register!Gone
  <2>2. CASE PassCooldown(r) \/ CheckUserLimit(r) \/ SkipUserLimit(r) \/ DropFails(r)
             \/ PassOtherLimits(r)
    <3>1. Right' = Right /\ Copies' = Copies
      BY <2>2, QuietRegister
         DEF PassCooldown, CheckUserLimit, SkipUserLimit, DropFails, PassOtherLimits,
             GoTo, TypeOK
    <3>2. UNCHANGED <<otp, sent>>
      BY <2>2 DEF PassCooldown, CheckUserLimit, SkipUserLimit, DropFails, PassOtherLimits
    <3> QED
      BY <3>1, <3>2 DEF Held
  <2>3. CASE RefuseCooldown(r) \/ DropHit(r) \/ RefuseOtherLimits(r) \/ SetCooldown(r)
             \/ RequestFails(r)
    <3>1. Ends(r) /\ UNCHANGED <<otp, sent>>
      BY <2>3 DEF RefuseCooldown, DropHit, RefuseOtherLimits, SetCooldown, RequestFails
    <3>2. Held' = Held
      BY <3>1 DEF Held
    <3> QED
      BY <3>1, <3>2, EndsRegister DEF Register!Next, Register!GiveUp
  <2>4. CASE StoreOtp(r)
    <3>1. Right' = Right /\ Copies' = Copies
      BY <2>4, QuietRegister DEF StoreOtp, GoTo, TypeOK
    <3>2. PICK c \in Codes \ sent :
              /\ otp' = [code |-> c, attempts |-> 0, status |-> "pending"]
              /\ sent' = sent \union {c}
      BY <2>4 DEF StoreOtp
    <3>3. otp' # NoOtp
      BY <3>2, OtpNumbers
    <3>4. Held' = {c}
      BY <3>2, <3>3 DEF Held
    <3> QED
      BY <3>1, <3>2, <3>4 DEF Register!Next, Register!Make
  <2>5. CASE ReadOtp(r)
    <3>1. /\ pc[r] = "idle" /\ UNCHANGED <<otp, sent>>
          /\ otp # NoOtp /\ otp.status = "pending" /\ seen'[r] = otp
          /\ \A q \in Requests \ {r} : seen'[q] = seen[q]
      BY <2>5 DEF ReadOtp, GoTo, TypeOK
    <3>2. Held = {otp.code} /\ Held' = Held
      BY <3>1 DEF Held
    <3>3. r \notin Right /\ Copies[r] = {}
      BY <3>1 DEF Right, Copies
    <3>4. CASE pc' = [pc EXCEPT ![r] = "delete"]
      <4>1. Right' = Right \union {r} /\ Copies' = Copies
        BY <3>1, <3>4, ReadRegister DEF PCs
      <4> QED
        BY <3>1, <3>2, <3>3, <4>1 DEF Register!Next, Register!ReadRight, Register!Free
    <3>5. CASE pc' = [pc EXCEPT ![r] = "ttl"]
      <4>1. Right' = Right /\ Copies' = [Copies EXCEPT ![r] = {otp.code}]
        BY <3>1, <3>5, ReadRegister DEF PCs
      <4> QED
        BY <3>1, <3>2, <3>3, <4>1 DEF Register!Next, Register!ReadWrong, Register!Free
    <3> QED
      BY <2>5, <3>4, <3>5 DEF ReadOtp, GoTo
  <2>6. CASE AcceptCode(r)
    <3>1. Ends(r) /\ pc[r] = "delete" /\ Held' = {} /\ sent' = sent
      BY <2>6 DEF AcceptCode, Held
    <3>2. Copies[r] = {} /\ r \in Right
      BY <3>1 DEF Copies, Right
    <3>3. [Copies EXCEPT ![r] = {}] = Copies
      BY <3>2 DEF Copies
    <3>4. Register!Accept(r)
      BY <3>1, <3>2, <3>3, EndsRegister DEF Register!Accept
    <3> QED
      BY <3>4 DEF Register!Next
  <2>7. CASE ReadTtl(r)
    <3>1. /\ pc[r] = "ttl" /\ pc' = [pc EXCEPT ![r] = "write"]
          /\ UNCHANGED <<otp, sent, seen>>
      BY <2>7 DEF ReadTtl, GoTo
    <3>2. Right' = Right /\ Copies' = [Copies EXCEPT ![r] = {seen[r].code}]
      BY <3>1, ReadRegister DEF PCs
    <3>3. [Copies EXCEPT ![r] = {seen[r].code}] = Copies
      BY <3>1 DEF Copies
    <3> QED
      BY <3>1, <3>2, <3>3 DEF Held
  <2>8. CASE WriteAttempts(r)
    <3>1. /\ Ends(r) /\ pc[r] = "write" /\ otp' = OneMore(seen[r]) /\ sent' = sent
      BY <2>8 DEF WriteAttempts
    <3>2. seen[r] \in OtpRecord /\ seen[r].attempts < MaxAttempts
      BY <3>1 DEF CountInv
    <3>3. otp'.code = seen[r].code
      BY <3>1, <3>2, OneMoreType
    <3>4. Held' \in {{seen[r].code}, {}}
      BY <3>3 DEF Held
    <3>5. Copies[r] = {seen[r].code} /\ r \notin Right
      BY <3>1 DEF Copies, Right
    <3>6. Register!PutBack(r)
      BY <3>1, <3>4, <3>5, EndsRegister DEF Register!PutBack
    <3> QED
      BY <3>6 DEF Register!Next
  <2> QED
    BY <1>2, <2>1, <2>2, <2>3, <2>4, <2>5, <2>6, <2>7, <2>8 DEF Request
<1>3. CASE UNCHANGED vars
  BY <1>3 DEF vars, locals, Held, Right, Copies
<1> QED
  BY <1>1, <1>2, <1>3 DEF Next

\* OTPService is the register that the endpoints rely on: a code becomes pending
\* only when it is made or when a wrong guess that read it puts it back, and is
\* accepted only by a request that has read it.
THEOREM ServiceKeepsRegister == Spec => KeepsRegister
<1>1. Init => Register!Init
  <2> SUFFICES ASSUME Init PROVE Register!Init
    OBVIOUS
  <2>1. Held = {} /\ sent = {} /\ Right = {}
    BY DEF Init, Held, Right
  <2>2. Copies = [r \in Requests |-> {}]
    BY DEF Init, Copies
  <2> QED
    BY <2>1, <2>2 DEF Register!Init
<1> QED
  BY <1>1, InitInv, StepInv, StepRegister, PTL DEF Spec, KeepsRegister, Register!Spec
=============================================================================
