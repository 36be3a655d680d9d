------------------------ MODULE DevicePasswordProofs ------------------------
(***************************************************************************)
(* Theorems about DevicePassword for every number of requests, passwords   *)
(* and limits.                                                             *)
(***************************************************************************)
EXTENDS DevicePassword, FiniteSetTheorems, TLAPS

\* A reset that has not written its password yet, and one that has.
Pending(r) == pc[r] \in {"setex", "hash", "direct"}
Wrote(r) == pc[r] \in {"audit", "incr", "expire", "view", "delete", "record"}

\* Nothing is known of a password that was not made, and a request that does
\* something has one in hand.
MadeInv ==
    /\ \A r \in Requests :
          /\ hand[r] <= made /\ old[r] <= made
          /\ pc[r] # "idle" => hand[r] # None
          /\ pc[r] = "idle" => old[r] = None
          /\ pc[r] = "incr" => kind[r] = "endpoint"
          /\ pc[r] = "migrate" => hand[r] = First
    /\ \A n \in told \union known \union dead : n <= made
    /\ device.hash <= made /\ device.plain \in {None, First}
    /\ \A n \in Passwords : n > made => views[n] = 0

\* A password that is still to be written is nowhere else.
PendingInv ==
    \A r \in Requests : Pending(r) =>
        /\ hand[r] # First /\ hand[r] # device.hash /\ hand[r] \notin dead
        /\ \A q \in Requests : old[q] # hand[r]
        /\ \A q \in Requests \ {r} : Pending(q) => hand[q] # hand[r]

\* The token of a reset that is still to be put is in nobody's hands.
TokenInv ==
    /\ \A r \in Requests : pc[r] = "setex" =>
          /\ hand[r] \notin told \union known /\ views[hand[r]] = 0
          /\ \A q \in Requests \ {r} : hand[q] # hand[r]
    /\ \A r \in Requests : pc[r] = "record" => left[hand[r]] = 0
    /\ \A n \in Passwords : views[n] > 0 => left[n] = 0

\* What a reset has replaced is not what the document says, unless a login was
\* just hashing it.
Overwritten(p) ==
    device.exists => device.hash # None /\ (device.hash = p => p = First /\ migrated)

EffectInv ==
    /\ \A p \in dead : Overwritten(p)
    /\ \A r \in Requests : Wrote(r) /\ old[r] # None => Overwritten(old[r])

PasswordInv == MadeInv /\ PendingInv /\ TokenInv /\ EffectInv

\* The first password is one, and nothing else is made.
LEMMA InitInv == Init => TypeOK /\ PasswordInv
<1> SUFFICES ASSUME Init PROVE TypeOK /\ PasswordInv
  OBVIOUS
<1> USE PasswordConstants DEF None, First, Passwords
<1>1. device \in Device /\ device.hash \in {None, First} /\ device.plain \in {None, First}
  <2>1. First \in Passwords
    OBVIOUS
  <2>2. CASE device = [exists |-> TRUE, tls |-> TRUE, hash |-> First, plain |-> First]
    BY <2>1, <2>2 DEF Device
  <2>3. CASE device = [exists |-> TRUE, tls |-> TRUE, hash |-> None, plain |-> First]
    BY <2>1, <2>3 DEF Device
  <2>4. CASE device = [exists |-> TRUE, tls |-> FALSE, hash |-> None, plain |-> None]
    BY <2>1, <2>4 DEF Device
  <2> QED
    BY <2>2, <2>3, <2>4 DEF Init
<1>2. TypeOK
  <2>1. left \in [Passwords -> 0..TokenLife] /\ views \in [Passwords -> Nat]
    BY DEF Init
  <2>2. /\ pc \in [Requests -> PCs] /\ kind \in [Requests -> {"endpoint", "bundle"}]
        /\ hand \in [Requests -> Passwords \union {None}]
        /\ old \in [Requests -> Passwords \union {None}]
    BY DEF Init, PCs
  <2>3. known \subseteq Passwords /\ told \subseteq Passwords /\ dead \subseteq Passwords
    <3>1. known \subseteq {First} /\ {First} \subseteq Passwords
      BY DEF Init
    <3> QED
      BY <3>1 DEF Init
  <2>4. made \in Passwords /\ count \in Nat /\ ttl \in Nat
    BY DEF Init
  <2>5. migrated \in BOOLEAN
    BY Zenon DEF Init
  <2> QED
    BY <1>1, <2>1, <2>2, <2>3, <2>4, <2>5 DEF TypeOK
<1>3. MadeInv
  <2>1. known \subseteq {First} /\ told = {} /\ dead = {}
    BY DEF Init
  <2>2. \A n \in told \union known \union dead : n <= made
    BY <2>1 DEF Init
  <2>3. device.hash <= made /\ device.plain \in {None, First}
    BY <1>1 DEF Init
  <2>4. \A r \in Requests :
           /\ pc[r] = "idle" /\ hand[r] = 0 /\ old[r] = 0 /\ kind[r] = "endpoint"
    BY DEF Init
  <2>5. \A n \in Passwords : views[n] = 0
    BY DEF Init
  <2>6. made = 1
    BY DEF Init
  <2> QED
    BY <2>2, <2>3, <2>4, <2>5, <2>6 DEF MadeInv
<1>4. PendingInv /\ EffectInv
  BY DEF Init, PendingInv, EffectInv, Pending, Wrote
<1>5. TokenInv
  BY DEF Init, TokenInv
<1> QED
  BY <1>2, <1>3, <1>4, <1>5 DEF PasswordInv

\* The registers keep their types when a request answers.
LEMMA EndsType ==
    ASSUME TypeOK, NEW r \in Requests, Ends(r)
    PROVE  /\ pc' \in [Requests -> PCs] /\ kind' \in [Requests -> {"endpoint", "bundle"}]
           /\ hand' \in [Requests -> Passwords \union {None}]
           /\ old' \in [Requests -> Passwords \union {None}]
           /\ pc'[r] = "idle" /\ hand'[r] = None /\ old'[r] = None
           /\ \A q \in Requests \ {r} :
                 /\ pc'[q] = pc[q] /\ kind'[q] = kind[q]
                 /\ hand'[q] = hand[q] /\ old'[q] = old[q]
  BY DEF TypeOK, Ends, PCs

\* A document that gets a hash is a document.
LEMMA StoresType ==
    ASSUME TypeOK, NEW n \in Passwords, StoresHash(n)
    PROVE  /\ device' \in Device /\ device'.hash = n /\ device'.plain = None
           /\ device'.exists = device.exists /\ device'.tls = device.tls
  BY DEF TypeOK, Device, StoresHash

\* A change of mode or a deletion gives the document no other password.
LEMMA DocType ==
    ASSUME TypeOK, SwitchMode \/ DeleteDevice
    PROVE  /\ device'.exists => device.exists /\ device'.hash = device.hash
                               /\ device'.plain = device.plain
           /\ device'.hash \in {device.hash, None}
           /\ device'.plain \in {device.plain, None}
           /\ device' \in Device
<1>1. CASE SwitchMode
  BY <1>1 DEF TypeOK, Device, SwitchMode
<1>2. CASE DeleteDevice
  BY <1>2 DEF TypeOK, Device, DeleteDevice
<1> QED
  BY <1>1, <1>2

LEMMA HandType ==
    ASSUME TypeOK, MadeInv, NEW r \in Requests, pc[r] # "idle"
    PROVE  hand[r] \in Passwords
  BY DEF TypeOK, MadeInv

LEMMA Numbers ==
    ASSUME TypeOK
    PROVE  /\ \A q \in Requests : hand[q] \in Nat /\ old[q] \in Nat
           /\ device.hash \in Nat
<1>1. Passwords \union {None} \subseteq Nat
  BY PasswordConstants DEF Passwords, None
<1>2. /\ \A q \in Requests : /\ hand[q] \in Passwords \union {None}
                             /\ old[q] \in Passwords \union {None}
      /\ device.hash \in Passwords \union {None}
  BY DEF TypeOK, Device
<1> QED
  BY <1>1, <1>2

\* A new password is one more than any there is.
LEMMA MakesType ==
    ASSUME TypeOK, NEW r \in Requests, NEW to \in PCs, MakesPassword(r, to)
    PROVE  /\ made \in Passwords /\ made' = made + 1 /\ made' \in Passwords
           /\ pc[r] = "idle" /\ pc' = [pc EXCEPT ![r] = to] /\ pc' \in [Requests -> PCs]
           /\ hand' = [hand EXCEPT ![r] = made'] /\ old' = [old EXCEPT ![r] = Current]
           /\ hand' \in [Requests -> Passwords \union {None}]
           /\ old' \in [Requests -> Passwords \union {None}]
           /\ Current \in Passwords \union {None} /\ Current \in {device.hash, device.plain}
<1>1. made \in Passwords /\ made' = made + 1 /\ made' \in Passwords
  BY PasswordConstants DEF TypeOK, MakesPassword, Passwords
<1>2. Current \in Passwords \union {None} /\ Current \in {device.hash, device.plain}
  BY DEF TypeOK, Current, Device
<1>3. pc[r] = "idle" /\ pc' = [pc EXCEPT ![r] = to] /\ pc' \in [Requests -> PCs]
  BY DEF TypeOK, MakesPassword, GoTo
<1>4. /\ hand' = [hand EXCEPT ![r] = made'] /\ old' = [old EXCEPT ![r] = Current]
      /\ hand' \in [Requests -> Passwords \union {None}]
      /\ old' \in [Requests -> Passwords \union {None}]
  BY <1>1, <1>2 DEF TypeOK, MakesPassword
<1> QED
  BY <1>1, <1>2, <1>3, <1>4

LEMMA StepTypeOK == TypeOK /\ MadeInv /\ [Next]_vars => TypeOK'
<1> SUFFICES ASSUME TypeOK, MadeInv, [Next]_vars PROVE TypeOK'
  OBVIOUS
<1> USE PasswordConstants DEF PCs, limit, locals, answers
<1>1. CASE UNCHANGED vars
  BY <1>1 DEF vars, TypeOK
<1>2. CASE SwitchMode \/ DeleteDevice
  <2>1. device' \in Device
    BY <1>2 DEF SwitchMode, DeleteDevice, TypeOK, Device
  <2> QED
    BY <1>2, <2>1 DEF SwitchMode, DeleteDevice, TypeOK
<1>3. CASE Tick
  <2>1. left' \in [Passwords -> 0..TokenLife]
    BY <1>3 DEF Tick, TypeOK
  <2>2. count' \in Nat /\ ttl' \in Nat \union {NoTtl}
    BY <1>3 DEF Tick, TypeOK, LimitExpires
  <2> QED
    BY <1>3, <2>1, <2>2 DEF Tick, TypeOK
<1>4. ASSUME NEW r \in Requests, Request(r) PROVE TypeOK'
  <2>1. CASE StartReset(r)
    BY <2>1, MakesType DEF StartReset, TypeOK
  <2>2. CASE StartDirect(r)
    BY <2>2, MakesType DEF StartDirect, TypeOK
  <2>3. CASE PutToken(r)
    <3>0. TokenLife \in 0..TokenLife
      OBVIOUS
    <3>1. left' \in [Passwords -> 0..TokenLife]
      BY <2>3, <3>0 DEF PutToken, TypeOK
    <3> QED
      BY <2>3, <3>1 DEF PutToken, GoTo, TypeOK
  <2>4. CASE WriteHash(r)
    <3>1. hand[r] \in Passwords
      BY <2>4, HandType DEF WriteHash, GoTo
    <3>2. CASE device.exists
      BY <2>4, <3>1, <3>2, StoresType DEF WriteHash, GoTo, TypeOK
    <3>3. CASE ~device.exists
      <4>1. left' \in [Passwords -> 0..TokenLife]
        BY <2>4, <3>3 DEF WriteHash, TypeOK
      <4> QED
        BY <2>4, <3>3, <4>1, EndsType DEF WriteHash, GoTo, TypeOK
    <3> QED
      BY <3>2, <3>3
  <2>5. CASE AuditReset(r) \/ DeleteToken(r)
    BY <2>5 DEF AuditReset, DeleteToken, GoTo, TypeOK
  <2>6. CASE CountReset(r)
    BY <2>6 DEF CountReset, GoTo, TypeOK
  <2>7. CASE AnswerToken(r)
    <3>1. hand[r] \in Passwords
      BY <2>7, HandType DEF AnswerToken
    <3> QED
      BY <2>7, <3>1, EndsType DEF AnswerToken, Replaced, TypeOK
  <2>8. CASE FindToken(r)
    BY <2>8 DEF FindToken, GoTo, TypeOK
  <2>9. CASE AnswerPassword(r)
    <3>1. hand[r] \in Passwords
      BY <2>9, HandType DEF AnswerPassword
    <3> QED
      BY <2>9, <3>1, EndsType DEF AnswerPassword, Replaced, TypeOK
  <2>10. CASE WriteDirect(r)
    <3>1. hand[r] \in Passwords
      BY <2>10, HandType DEF WriteDirect
    <3>2. CASE device.exists
      <4>1. old[r] \in Passwords \union {None} /\ StoresHash(hand[r]) /\ Ends(r)
        BY <2>10, <3>2 DEF WriteDirect, TypeOK
      <4>2. device' \in Device
        BY <3>1, <4>1, StoresType
      <4>3. known' \subseteq Passwords /\ dead' \subseteq Passwords
        BY <2>10, <3>1, <3>2, <4>1 DEF WriteDirect, Replaced, TypeOK, None
      <4> QED
        BY <2>10, <4>1, <4>2, <4>3, EndsType DEF WriteDirect, TypeOK
    <3>3. CASE ~device.exists
      BY <2>10, <3>3, EndsType DEF WriteDirect, TypeOK
    <3> QED
      BY <3>2, <3>3
  <2>11. CASE PlainLogin(r)
    BY <2>11 DEF PlainLogin, GoTo, TypeOK
  <2>12. CASE Migrate(r)
    <3>1. hand[r] \in Passwords
      BY <2>12, HandType DEF Migrate
    <3> QED
      BY <2>12, <3>1, EndsType, StoresType DEF Migrate, TypeOK
  <2>13. CASE Dies(r)
    BY <2>13, EndsType DEF Dies, TypeOK
  <2> QED
    BY <1>4, <2>1, <2>2, <2>3, <2>4, <2>5, <2>6, <2>7, <2>8, <2>9, <2>10, <2>11,
       <2>12, <2>13 DEF Request
<1> QED
  BY <1>1, <1>2, <1>3, <1>4 DEF Next

\* A request that ends without an answer leaves less in hand.
LEMMA EndsMade ==
    ASSUME TypeOK, MadeInv, NEW r \in Requests, Ends(r),
           UNCHANGED <<device, made, told, known, dead, views>>
    PROVE  MadeInv'
<1>1. /\ pc'[r] = "idle" /\ hand'[r] = None /\ old'[r] = None
      /\ \A q \in Requests \ {r} :
            /\ pc'[q] = pc[q] /\ kind'[q] = kind[q]
            /\ hand'[q] = hand[q] /\ old'[q] = old[q]
  BY EndsType
<1>2. made \in Nat
  BY DEF TypeOK, Passwords
<1>3. \A q \in Requests :
         /\ hand'[q] <= made' /\ old'[q] <= made'
         /\ pc'[q] # "idle" => hand'[q] # None
         /\ pc'[q] = "idle" => old'[q] = None
         /\ pc'[q] = "incr" => kind'[q] = "endpoint"
         /\ pc'[q] = "migrate" => hand'[q] = First
  BY <1>1, <1>2 DEF MadeInv, None
<1> QED
  BY <1>3 DEF MadeInv

\* What is made, known or in hand stays below the counter.
LEMMA StepMade ==
    ASSUME TypeOK, TypeOK', MadeInv, [Next]_vars
    PROVE  MadeInv'
<1> USE PasswordConstants DEF limit, locals, answers
<1>1. CASE UNCHANGED vars
  BY <1>1 DEF vars, MadeInv, None, First, Passwords
<1>2. CASE SwitchMode \/ DeleteDevice
  <2>1. UNCHANGED <<left, limit, made, locals, answers, migrated>>
    BY <1>2 DEF SwitchMode, DeleteDevice
  <2>2. /\ device'.exists => device.exists /\ device'.hash = device.hash
        /\ device'.hash \in {device.hash, None}
        /\ device'.plain \in {device.plain, None}
    BY <1>2, DocType
  <2> QED
    BY <2>1, <2>2 DEF MadeInv, None, First, Passwords, TypeOK
<1>3. CASE Tick
  BY <1>3 DEF Tick, MadeInv, None, First, Passwords, TypeOK
<1>4. ASSUME NEW r \in Requests, Request(r) PROVE MadeInv'
  <2>1. CASE StartReset(r)
    <3>1. /\ MakesPassword(r, "setex")
          /\ UNCHANGED <<device, told, known, dead, views>>
      BY <2>1 DEF StartReset
    <3>2. made \in Nat /\ made' = made + 1 /\ Current \in Nat /\ Current <= made
      <4>1. made' = made + 1 /\ made \in Nat /\ made > 0
        BY <3>1 DEF MakesPassword, TypeOK, Passwords
      <4>2. device.hash \in Nat /\ device.hash <= made /\ device.plain \in {None, First}
        BY Numbers DEF MadeInv
      <4> QED
        BY <4>1, <4>2 DEF Current, None, First
    <3>3. /\ pc'[r] = "setex" /\ hand'[r] = made + 1 /\ old'[r] = Current
          /\ \A q \in Requests \ {r} :
                pc'[q] = pc[q] /\ hand'[q] = hand[q] /\ old'[q] = old[q] /\ kind'[q] = kind[q]
      BY <2>1, <3>1 DEF StartReset, MakesPassword, GoTo, TypeOK
    <3>4. \A q \in Requests : hand[q] \in Nat /\ old[q] \in Nat
      BY Numbers
    <3>5. \A q \in Requests :
             /\ hand'[q] <= made' /\ old'[q] <= made'
             /\ pc'[q] # "idle" => hand'[q] # None
             /\ pc'[q] = "idle" => old'[q] = None
             /\ pc'[q] = "incr" => kind'[q] = "endpoint"
             /\ pc'[q] = "migrate" => hand'[q] = First
      <4>1. ASSUME NEW q \in Requests \ {r}
            PROVE  /\ hand'[q] <= made' /\ old'[q] <= made'
                   /\ pc'[q] # "idle" => hand'[q] # None
                   /\ pc'[q] = "idle" => old'[q] = None
                   /\ pc'[q] = "incr" => kind'[q] = "endpoint"
                   /\ pc'[q] = "migrate" => hand'[q] = First
        BY <3>2, <3>3, <3>4 DEF MadeInv
      <4>2. hand'[r] <= made' /\ old'[r] <= made' /\ hand'[r] # None
        BY <3>2, <3>3 DEF None
      <4> QED
        BY <3>3, <4>1, <4>2
    <3>6. /\ \A n \in told \union known \union dead : n <= made'
          /\ device.hash <= made' /\ device.plain \in {None, First}
          /\ \A n \in Passwords : n > made' => views[n] = 0
      <4>1. \A n \in Passwords : n \in Nat /\ (n <= made => n <= made')
        BY <3>2 DEF Passwords
      <4>2. \A n \in told \union known \union dead : n \in Passwords /\ n <= made
        BY DEF MadeInv, TypeOK
      <4>3. device.hash <= made' /\ device.plain \in {None, First}
        BY <3>2, Numbers DEF MadeInv
      <4>4. \A n \in Passwords : n > made' => views[n] = 0
        BY <3>2, <4>1 DEF MadeInv
      <4> QED
        BY <4>1, <4>2, <4>3, <4>4
    <3> QED
      BY <3>1, <3>5, <3>6 DEF MadeInv
  <2>2. CASE PutToken(r)
    BY <2>2 DEF PutToken, GoTo, MadeInv, None, First, Passwords, TypeOK, Device
  <2>3. CASE WriteHash(r)
    <3>1. hand[r] \in Passwords /\ pc[r] = "hash"
      BY <2>3, HandType DEF WriteHash, GoTo
    <3>2. CASE device.exists
      <4>1. StoresHash(hand[r]) /\ pc' = [pc EXCEPT ![r] = "audit"]
        BY <2>3, <3>2 DEF WriteHash, GoTo
      <4>2. /\ device'.hash = hand[r] /\ device'.plain = None
            /\ device'.exists = device.exists
        BY <3>1, <4>1, StoresType
      <4> QED
        BY <2>3, <3>1, <3>2, <4>1, <4>2 DEF WriteHash, MadeInv, None, First, Passwords, TypeOK
    <3>3. CASE ~device.exists
      <4>1. /\ Ends(r)
            /\ UNCHANGED <<device, made, told, known, dead, views>>
        BY <2>3, <3>3 DEF WriteHash
      <4> QED
        BY <3>1, <4>1, EndsMade
    <3> QED
      BY <3>2, <3>3
  <2>4. CASE AuditReset(r)
    BY <2>4 DEF AuditReset, GoTo, MadeInv, None, First, Passwords, TypeOK, Device
  <2>5. CASE CountReset(r)
    BY <2>5 DEF CountReset, GoTo, MadeInv, None, First, Passwords, TypeOK, Device
  <2>6. CASE AnswerToken(r)
    BY <2>6 DEF AnswerToken, Ends, Replaced, MadeInv, None, First, Passwords, TypeOK, Device
  <2>7. CASE FindToken(r)
    <3>1. UNCHANGED <<device, made, told, known, dead, views, kind, old>>
      BY <2>7 DEF FindToken
    <3>2. /\ pc[r] \in {"view", "idle"} /\ pc' = [pc EXCEPT ![r] = "delete"]
          /\ pc[r] = "idle" => \E n \in told : hand' = [hand EXCEPT ![r] = n]
          /\ pc[r] # "idle" => hand' = hand
      BY <2>7 DEF FindToken, GoTo
    <3>3. \A n \in told : n \in Nat /\ n # None /\ n <= made
      BY DEF MadeInv, TypeOK, Passwords, None
    <3>4. \A q \in Requests : hand'[q] <= made' /\ (pc'[q] # "idle" => hand'[q] # None)
      BY <3>1, <3>2, <3>3 DEF MadeInv, TypeOK
    <3>5. \A q \in Requests :
             /\ old'[q] <= made'
             /\ pc'[q] = "idle" => old'[q] = None
             /\ pc'[q] = "incr" => kind'[q] = "endpoint"
             /\ pc'[q] = "migrate" => hand'[q] = First
      BY <3>1, <3>2 DEF MadeInv, TypeOK
    <3> QED
      BY <3>1, <3>4, <3>5 DEF MadeInv
  <2>8. CASE DeleteToken(r)
    BY <2>8 DEF DeleteToken, GoTo, MadeInv, None, First, Passwords, TypeOK, Device
  <2>9. CASE AnswerPassword(r)
    BY <2>9 DEF AnswerPassword, Ends, Replaced, MadeInv, None, First, Passwords, TypeOK, Device
  <2>10. CASE StartDirect(r)
    <3>1. /\ MakesPassword(r, "direct")
          /\ UNCHANGED <<device, told, known, dead, views>>
      BY <2>10 DEF StartDirect
    <3>2. made \in Nat /\ made' = made + 1 /\ Current \in Nat /\ Current <= made
      <4>1. made' = made + 1 /\ made \in Nat /\ made > 0
        BY <3>1 DEF MakesPassword, TypeOK, Passwords
      <4>2. device.hash \in Nat /\ device.hash <= made /\ device.plain \in {None, First}
        BY Numbers DEF MadeInv
      <4> QED
        BY <4>1, <4>2 DEF Current, None, First
    <3>3. /\ pc'[r] = "direct" /\ hand'[r] = made + 1 /\ old'[r] = Current
          /\ \A q \in Requests \ {r} :
                pc'[q] = pc[q] /\ hand'[q] = hand[q] /\ old'[q] = old[q] /\ kind'[q] = kind[q]
      BY <2>10, <3>1 DEF StartDirect, MakesPassword, GoTo, TypeOK
    <3>4. \A q \in Requests : hand[q] \in Nat /\ old[q] \in Nat
      BY Numbers
    <3>5. \A q \in Requests :
             /\ hand'[q] <= made' /\ old'[q] <= made'
             /\ pc'[q] # "idle" => hand'[q] # None
             /\ pc'[q] = "idle" => old'[q] = None
             /\ pc'[q] = "incr" => kind'[q] = "endpoint"
             /\ pc'[q] = "migrate" => hand'[q] = First
      <4>1. ASSUME NEW q \in Requests \ {r}
            PROVE  /\ hand'[q] <= made' /\ old'[q] <= made'
                   /\ pc'[q] # "idle" => hand'[q] # None
                   /\ pc'[q] = "idle" => old'[q] = None
                   /\ pc'[q] = "incr" => kind'[q] = "endpoint"
                   /\ pc'[q] = "migrate" => hand'[q] = First
        BY <3>2, <3>3, <3>4 DEF MadeInv
      <4>2. hand'[r] <= made' /\ old'[r] <= made' /\ hand'[r] # None
        BY <3>2, <3>3 DEF None
      <4> QED
        BY <3>3, <4>1, <4>2
    <3>6. /\ \A n \in told \union known \union dead : n <= made'
          /\ device.hash <= made' /\ device.plain \in {None, First}
          /\ \A n \in Passwords : n > made' => views[n] = 0
      <4>1. \A n \in Passwords : n \in Nat /\ (n <= made => n <= made')
        BY <3>2 DEF Passwords
      <4>2. \A n \in told \union known \union dead : n \in Passwords /\ n <= made
        BY DEF MadeInv, TypeOK
      <4>3. device.hash <= made' /\ device.plain \in {None, First}
        BY <3>2, Numbers DEF MadeInv
      <4>4. \A n \in Passwords : n > made' => views[n] = 0
        BY <3>2, <4>1 DEF MadeInv
      <4> QED
        BY <4>1, <4>2, <4>3, <4>4
    <3> QED
      BY <3>1, <3>5, <3>6 DEF MadeInv
  <2>11. CASE WriteDirect(r)
    <3>1. hand[r] \in Passwords /\ pc[r] = "direct"
      BY <2>11, HandType DEF WriteDirect
    <3>2. CASE device.exists
      <4>1. StoresHash(hand[r]) /\ Ends(r)
        BY <2>11, <3>2 DEF WriteDirect
      <4>2. /\ device'.hash = hand[r] /\ device'.plain = None
            /\ device'.exists = device.exists
        BY <3>1, <4>1, StoresType
      <4>3. /\ pc'[r] = "idle" /\ hand'[r] = None /\ old'[r] = None
            /\ \A q \in Requests \ {r} :
                  /\ pc'[q] = pc[q] /\ kind'[q] = kind[q]
                  /\ hand'[q] = hand[q] /\ old'[q] = old[q]
        BY <4>1, EndsType
      <4>4. /\ known' = known \union {hand[r]} /\ dead' = dead \union ({old[r]} \ {None})
            /\ UNCHANGED <<left, made, told, views, migrated>>
        BY <2>11, <3>2 DEF WriteDirect, Replaced
      <4> QED
        BY SMTT(60), <3>1, <3>2, <4>2, <4>3, <4>4 DEF MadeInv, None, First, Passwords, TypeOK
    <3>3. CASE ~device.exists
      <4>1. /\ Ends(r)
            /\ UNCHANGED <<device, made, told, known, dead, views>>
        BY <2>11, <3>3 DEF WriteDirect
      <4> QED
        BY <3>1, <4>1, EndsMade
    <3> QED
      BY <3>2, <3>3
  <2>12. CASE PlainLogin(r)
    BY <2>12 DEF PlainLogin, GoTo, MadeInv, None, First, Passwords, TypeOK, Device
  <2>13. CASE Migrate(r)
    <3>1. hand[r] \in Passwords /\ pc[r] = "migrate"
      BY <2>13, HandType DEF Migrate
    <3>2. CASE device.exists
      <4>1. StoresHash(hand[r]) /\ Ends(r)
        BY <2>13, <3>2 DEF Migrate
      <4>2. /\ device'.hash = hand[r] /\ device'.plain = None
            /\ device'.exists = device.exists
        BY <3>1, <4>1, StoresType
      <4>3. /\ pc'[r] = "idle" /\ hand'[r] = None /\ old'[r] = None
            /\ \A q \in Requests \ {r} :
                  /\ pc'[q] = pc[q] /\ kind'[q] = kind[q]
                  /\ hand'[q] = hand[q] /\ old'[q] = old[q]
        BY <4>1, EndsType
      <4>4. /\ migrated' = TRUE /\ UNCHANGED <<left, made, told>>
            /\ UNCHANGED <<known, dead, views>>
        BY <2>13, <3>2 DEF Migrate
      <4> QED
        BY SMTT(60), <3>1, <3>2, <4>2, <4>3, <4>4 DEF MadeInv, None, First, Passwords, TypeOK
    <3>3. CASE ~device.exists
      <4>1. /\ Ends(r)
            /\ UNCHANGED <<device, made, told, known, dead, views>>
        BY <2>13, <3>3 DEF Migrate
      <4> QED
        BY <3>1, <4>1, EndsMade
    <3> QED
      BY <3>2, <3>3
  <2>14. CASE Dies(r)
    BY <2>14 DEF Dies, Ends, MadeInv, None, First, Passwords, TypeOK, Device
  <2> QED
    BY <1>4, <2>1, <2>2, <2>3, <2>4, <2>5, <2>6, <2>7, <2>8, <2>9, <2>10, <2>11, <2>12, <2>13, <2>14 DEF Request
<1> QED
  BY <1>1, <1>2, <1>3, <1>4 DEF Next

\* Nor does it take anything from the others' pending passwords.
LEMMA EndsPending ==
    ASSUME TypeOK, MadeInv, PendingInv, NEW r \in Requests, Ends(r), UNCHANGED <<device, dead>>
    PROVE  PendingInv'
<1>1. /\ pc'[r] = "idle" /\ hand'[r] = None /\ old'[r] = None
      /\ \A q \in Requests \ {r} :
            /\ pc'[q] = pc[q] /\ kind'[q] = kind[q]
            /\ hand'[q] = hand[q] /\ old'[q] = old[q]
  BY EndsType
<1> SUFFICES ASSUME NEW q \in Requests, Pending(q)'
             PROVE  /\ hand'[q] # First /\ hand'[q] # device'.hash /\ hand'[q] \notin dead'
                    /\ \A p \in Requests : old'[p] # hand'[q]
                    /\ \A p \in Requests \ {q} : Pending(p)' => hand'[p] # hand'[q]
  BY DEF PendingInv
<1>2. q # r /\ Pending(q) /\ hand'[q] = hand[q] /\ hand[q] # None
  BY <1>1, HandType DEF Pending, Passwords, None
<1> QED
  BY <1>1, <1>2 DEF PendingInv, Pending

\* A pending password stays unknown to everybody else.
LEMMA StepPending ==
    ASSUME TypeOK, TypeOK', MadeInv, PendingInv, [Next]_vars
    PROVE  PendingInv'
<1> USE PasswordConstants DEF limit, locals, answers
<1>1. CASE UNCHANGED vars
  BY <1>1 DEF vars, MadeInv, PendingInv, Pending, None, First, Passwords
<1>2. CASE SwitchMode \/ DeleteDevice
  <2>1. UNCHANGED <<left, limit, made, locals, answers, migrated>>
    BY <1>2 DEF SwitchMode, DeleteDevice
  <2>2. /\ device'.exists => device.exists /\ device'.hash = device.hash
        /\ device'.hash \in {device.hash, None}
        /\ device'.plain \in {device.plain, None}
    BY <1>2, DocType
  <2> QED
    BY <2>1, <2>2 DEF MadeInv, PendingInv, Pending, None, First, Passwords, TypeOK, Device
<1>3. CASE Tick
  BY <1>3 DEF Tick, MadeInv, PendingInv, Pending, None, First, Passwords, TypeOK
<1>4. ASSUME NEW r \in Requests, Request(r) PROVE PendingInv'
  <2>1. CASE StartReset(r)
    BY <2>1 DEF StartReset, MakesPassword, GoTo, Current, MadeInv, PendingInv, Pending, None, First, Passwords, TypeOK, Device
  <2>2. CASE PutToken(r)
    BY <2>2 DEF PutToken, GoTo, MadeInv, PendingInv, Pending, None, First, Passwords, TypeOK, Device
  <2>3. CASE WriteHash(r)
    <3>1. hand[r] \in Passwords /\ pc[r] = "hash"
      BY <2>3, HandType DEF WriteHash, GoTo
    <3>2. CASE device.exists
      <4>1. StoresHash(hand[r]) /\ pc' = [pc EXCEPT ![r] = "audit"]
        BY <2>3, <3>2 DEF WriteHash, GoTo
      <4>2. /\ device'.hash = hand[r] /\ device'.plain = None
            /\ device'.exists = device.exists
        BY <3>1, <4>1, StoresType
      <4> QED
        BY <2>3, <3>1, <3>2, <4>1, <4>2 DEF WriteHash, MadeInv, PendingInv, Pending, None, First, Passwords, TypeOK
    <3>3. CASE ~device.exists
      <4>1. Ends(r) /\ UNCHANGED <<device, dead>>
        BY <2>3, <3>3 DEF WriteHash
      <4> QED
        BY <3>1, <4>1, EndsPending
    <3> QED
      BY <3>2, <3>3
  <2>4. CASE AuditReset(r)
    BY <2>4 DEF AuditReset, GoTo, MadeInv, PendingInv, Pending, None, First, Passwords, TypeOK, Device
  <2>5. CASE CountReset(r)
    BY <2>5 DEF CountReset, GoTo, MadeInv, PendingInv, Pending, None, First, Passwords, TypeOK, Device
  <2>6. CASE AnswerToken(r)
    BY <2>6 DEF AnswerToken, Ends, Replaced, MadeInv, PendingInv, Pending, None, First, Passwords, TypeOK, Device
  <2>7. CASE FindToken(r)
    <3>1. pc' = [pc EXCEPT ![r] = "delete"] /\ UNCHANGED <<device, dead, old>>
      BY <2>7 DEF FindToken, GoTo
    <3>2. \A q \in Requests \ {r} : hand'[q] = hand[q]
      BY <2>7 DEF FindToken, TypeOK
    <3> QED
      BY <3>1, <3>2 DEF PendingInv, Pending, TypeOK
  <2>8. CASE DeleteToken(r)
    BY <2>8 DEF DeleteToken, GoTo, MadeInv, PendingInv, Pending, None, First, Passwords, TypeOK, Device
  <2>9. CASE AnswerPassword(r)
    BY <2>9 DEF AnswerPassword, Ends, Replaced, MadeInv, PendingInv, Pending, None, First, Passwords, TypeOK, Device
  <2>10. CASE StartDirect(r)
    BY <2>10 DEF StartDirect, MakesPassword, GoTo, Current, MadeInv, PendingInv, Pending, None, First, Passwords, TypeOK, Device
  <2>11. CASE WriteDirect(r)
    <3>1. hand[r] \in Passwords /\ pc[r] = "direct"
      BY <2>11, HandType DEF WriteDirect
    <3>2. CASE device.exists
      <4>1. StoresHash(hand[r]) /\ Ends(r)
        BY <2>11, <3>2 DEF WriteDirect
      <4>2. /\ device'.hash = hand[r] /\ device'.plain = None
            /\ device'.exists = device.exists
        BY <3>1, <4>1, StoresType
      <4>3. /\ pc'[r] = "idle" /\ hand'[r] = None /\ old'[r] = None
            /\ \A q \in Requests \ {r} :
                  /\ pc'[q] = pc[q] /\ kind'[q] = kind[q]
                  /\ hand'[q] = hand[q] /\ old'[q] = old[q]
        BY <4>1, EndsType
      <4>4. /\ known' = known \union {hand[r]} /\ dead' = dead \union ({old[r]} \ {None})
            /\ UNCHANGED <<left, made, told, views, migrated>>
        BY <2>11, <3>2 DEF WriteDirect, Replaced
      <4> QED
        BY SMTT(60), <3>1, <3>2, <4>2, <4>3, <4>4 DEF MadeInv, PendingInv, Pending, None, First, Passwords, TypeOK
    <3>3. CASE ~device.exists
      <4>1. Ends(r) /\ UNCHANGED <<device, dead>>
        BY <2>11, <3>3 DEF WriteDirect
      <4> QED
        BY <3>1, <4>1, EndsPending
    <3> QED
      BY <3>2, <3>3
  <2>12. CASE PlainLogin(r)
    BY <2>12 DEF PlainLogin, GoTo, MadeInv, PendingInv, Pending, None, First, Passwords, TypeOK, Device
  <2>13. CASE Migrate(r)
    <3>1. hand[r] \in Passwords /\ pc[r] = "migrate"
      BY <2>13, HandType DEF Migrate
    <3>2. CASE device.exists
      <4>1. StoresHash(hand[r]) /\ Ends(r)
        BY <2>13, <3>2 DEF Migrate
      <4>2. /\ device'.hash = hand[r] /\ device'.plain = None
            /\ device'.exists = device.exists
        BY <3>1, <4>1, StoresType
      <4>3. /\ pc'[r] = "idle" /\ hand'[r] = None /\ old'[r] = None
            /\ \A q \in Requests \ {r} :
                  /\ pc'[q] = pc[q] /\ kind'[q] = kind[q]
                  /\ hand'[q] = hand[q] /\ old'[q] = old[q]
        BY <4>1, EndsType
      <4>4. /\ migrated' = TRUE /\ UNCHANGED <<left, made, told>>
            /\ UNCHANGED <<known, dead, views>>
        BY <2>13, <3>2 DEF Migrate
      <4> QED
        BY SMTT(60), <3>1, <3>2, <4>2, <4>3, <4>4 DEF MadeInv, PendingInv, Pending, None, First, Passwords, TypeOK
    <3>3. CASE ~device.exists
      <4>1. Ends(r) /\ UNCHANGED <<device, dead>>
        BY <2>13, <3>3 DEF Migrate
      <4> QED
        BY <3>1, <4>1, EndsPending
    <3> QED
      BY <3>2, <3>3
  <2>14. CASE Dies(r)
    BY <2>14 DEF Dies, Ends, MadeInv, PendingInv, Pending, None, First, Passwords, TypeOK, Device
  <2> QED
    BY <1>4, <2>1, <2>2, <2>3, <2>4, <2>5, <2>6, <2>7, <2>8, <2>9, <2>10, <2>11, <2>12, <2>13, <2>14 DEF Request
<1> QED
  BY <1>1, <1>2, <1>3, <1>4 DEF Next

\* Its token is left alone, or deleted with it.
LEMMA EndsToken ==
    ASSUME TypeOK, MadeInv, TokenInv, NEW r \in Requests, Ends(r), hand[r] \in Passwords,
           left' \in {left, [left EXCEPT ![hand[r]] = 0]},
           UNCHANGED <<told, known, views>>
    PROVE  TokenInv'
<1>1. /\ pc'[r] = "idle" /\ hand'[r] = None /\ old'[r] = None
      /\ \A q \in Requests \ {r} :
            /\ pc'[q] = pc[q] /\ kind'[q] = kind[q]
            /\ hand'[q] = hand[q] /\ old'[q] = old[q]
  BY EndsType
<1>2. \A n \in Passwords : left[n] = 0 => left'[n] = 0
  BY DEF TypeOK
<1>3. ASSUME NEW q \in Requests, pc'[q] \in {"setex", "record"}
      PROVE  /\ q # r /\ pc'[q] = pc[q] /\ hand'[q] = hand[q]
             /\ hand[q] \in Passwords
  BY <1>1, <1>3, HandType
<1>4. \A q \in Requests : pc'[q] = "setex" => \A p \in Requests \ {q} : hand'[p] # hand'[q]
  BY <1>1, <1>3 DEF TokenInv, Passwords, None
<1> QED
  BY <1>2, <1>3, <1>4 DEF TokenInv

\* A used token stays used.
LEMMA StepToken ==
    ASSUME TypeOK, TypeOK', MadeInv, PendingInv, TokenInv, [Next]_vars
    PROVE  TokenInv'
<1> USE PasswordConstants DEF limit, locals, answers
<1>1. CASE UNCHANGED vars
  BY <1>1 DEF vars, MadeInv, TokenInv, None, First, Passwords
<1>2. CASE SwitchMode \/ DeleteDevice
  <2>1. UNCHANGED <<left, pc, hand, told, known, views>>
    BY <1>2 DEF SwitchMode, DeleteDevice
  <2> QED
    BY <2>1 DEF TokenInv
<1>3. CASE Tick
  BY <1>3 DEF Tick, MadeInv, TokenInv, None, First, Passwords, TypeOK
<1>4. ASSUME NEW r \in Requests, Request(r) PROVE TokenInv'
  <2>1. CASE StartReset(r)
    BY <2>1 DEF StartReset, MakesPassword, GoTo, Current, MadeInv, TokenInv, None, First, Passwords, TypeOK, Device
  <2>2. CASE PutToken(r)
    BY <2>2 DEF PutToken, GoTo, MadeInv, TokenInv, None, First, Passwords, TypeOK, Device
  <2>3. CASE WriteHash(r)
    <3>1. hand[r] \in Passwords /\ pc[r] = "hash"
      BY <2>3, HandType DEF WriteHash, GoTo
    <3>2. CASE device.exists
      <4>1. StoresHash(hand[r]) /\ pc' = [pc EXCEPT ![r] = "audit"]
        BY <2>3, <3>2 DEF WriteHash, GoTo
      <4>2. /\ device'.hash = hand[r] /\ device'.plain = None
            /\ device'.exists = device.exists
        BY <3>1, <4>1, StoresType
      <4> QED
        BY <2>3, <3>1, <3>2, <4>1, <4>2 DEF WriteHash, MadeInv, TokenInv, None, First, Passwords, TypeOK
    <3>3. CASE ~device.exists
      <4>1. /\ Ends(r)
            /\ UNCHANGED <<told, known, views>>
            /\ left' \in {left, [left EXCEPT ![hand[r]] = 0]}
        BY <2>3, <3>3 DEF WriteHash
      <4> QED
        BY <3>1, <4>1, EndsToken
    <3> QED
      BY <3>2, <3>3
  <2>4. CASE AuditReset(r)
    BY <2>4 DEF AuditReset, GoTo, MadeInv, TokenInv, None, First, Passwords, TypeOK, Device
  <2>5. CASE CountReset(r)
    BY <2>5 DEF CountReset, GoTo, MadeInv, TokenInv, None, First, Passwords, TypeOK, Device
  <2>6. CASE AnswerToken(r)
    BY <2>6 DEF AnswerToken, Ends, Replaced, MadeInv, TokenInv, None, First, Passwords, TypeOK, Device
  <2>7. CASE FindToken(r)
    BY <2>7 DEF FindToken, GoTo, TokenValid, MadeInv, TokenInv, None, First, Passwords, TypeOK, Device
  <2>8. CASE DeleteToken(r)
    BY <2>8 DEF DeleteToken, GoTo, MadeInv, TokenInv, None, First, Passwords, TypeOK, Device
  <2>9. CASE AnswerPassword(r)
    BY <2>9 DEF AnswerPassword, Ends, Replaced, MadeInv, TokenInv, None, First, Passwords, TypeOK, Device
  <2>10. CASE StartDirect(r)
    BY <2>10 DEF StartDirect, MakesPassword, GoTo, Current, MadeInv, TokenInv, None, First, Passwords, TypeOK, Device
  <2>11. CASE WriteDirect(r)
    <3>1. hand[r] \in Passwords /\ pc[r] = "direct"
      BY <2>11, HandType DEF WriteDirect
    <3>2. CASE device.exists
      <4>1. StoresHash(hand[r]) /\ Ends(r)
        BY <2>11, <3>2 DEF WriteDirect
      <4>2. /\ device'.hash = hand[r] /\ device'.plain = None
            /\ device'.exists = device.exists
        BY <3>1, <4>1, StoresType
      <4>3. /\ pc'[r] = "idle" /\ hand'[r] = None /\ old'[r] = None
            /\ \A q \in Requests \ {r} :
                  /\ pc'[q] = pc[q] /\ kind'[q] = kind[q]
                  /\ hand'[q] = hand[q] /\ old'[q] = old[q]
        BY <4>1, EndsType
      <4>4. /\ known' = known \union {hand[r]} /\ dead' = dead \union ({old[r]} \ {None})
            /\ UNCHANGED <<left, made, told, views, migrated>>
        BY <2>11, <3>2 DEF WriteDirect, Replaced
      <4> QED
        BY SMTT(60), <3>1, <3>2, <4>2, <4>3, <4>4 DEF MadeInv, TokenInv, None, First, Passwords, TypeOK
    <3>3. CASE ~device.exists
      <4>1. /\ Ends(r)
            /\ UNCHANGED <<told, known, views>>
            /\ left' \in {left, [left EXCEPT ![hand[r]] = 0]}
        BY <2>11, <3>3 DEF WriteDirect
      <4> QED
        BY <3>1, <4>1, EndsToken
    <3> QED
      BY <3>2, <3>3
  <2>12. CASE PlainLogin(r)
    BY <2>12 DEF PlainLogin, GoTo, MadeInv, TokenInv, None, First, Passwords, TypeOK, Device
  <2>13. CASE Migrate(r)
    BY <2>13 DEF Migrate, Ends, StoresHash, MadeInv, TokenInv, None, First, Passwords, TypeOK, Device
  <2>14. CASE Dies(r)
    BY <2>14 DEF Dies, Ends, MadeInv, TokenInv, None, First, Passwords, TypeOK, Device
  <2> QED
    BY <1>4, <2>1, <2>2, <2>3, <2>4, <2>5, <2>6, <2>7, <2>8, <2>9, <2>10, <2>11, <2>12, <2>13, <2>14 DEF Request
<1> QED
  BY <1>1, <1>2, <1>3, <1>4 DEF Next

\* What was replaced stays replaced.
LEMMA StepEffect ==
    ASSUME TypeOK, TypeOK', MadeInv, PendingInv, EffectInv, [Next]_vars
    PROVE  EffectInv'
<1> USE PasswordConstants DEF limit, locals, answers
<1>1. CASE UNCHANGED vars
  BY <1>1 DEF vars, MadeInv, PendingInv, EffectInv, Pending, Wrote, Overwritten, None, First, Passwords
<1>2. CASE SwitchMode \/ DeleteDevice
  <2>1. UNCHANGED <<left, limit, made, locals, answers, migrated>>
    BY <1>2 DEF SwitchMode, DeleteDevice
  <2>2. /\ device'.exists => device.exists /\ device'.hash = device.hash
        /\ device'.hash \in {device.hash, None}
        /\ device'.plain \in {device.plain, None}
    BY <1>2, DocType
  <2> QED
    BY <2>1, <2>2 DEF MadeInv, PendingInv, EffectInv, Pending, Wrote, Overwritten, None, First, Passwords, TypeOK, Device
<1>3. CASE Tick
  BY <1>3 DEF Tick, MadeInv, PendingInv, EffectInv, Pending, Wrote, Overwritten, None, First, Passwords, TypeOK
<1>4. ASSUME NEW r \in Requests, Request(r) PROVE EffectInv'
  <2>1. CASE StartReset(r)
    BY <2>1 DEF StartReset, MakesPassword, GoTo, Current, MadeInv, PendingInv, EffectInv, Pending, Wrote, Overwritten, None, First, Passwords, TypeOK, Device
  <2>2. CASE PutToken(r)
    BY <2>2 DEF PutToken, GoTo, MadeInv, PendingInv, EffectInv, Pending, Wrote, Overwritten, None, First, Passwords, TypeOK, Device
  <2>3. CASE WriteHash(r)
    <3>1. hand[r] \in Passwords /\ pc[r] = "hash"
      BY <2>3, HandType DEF WriteHash, GoTo
    <3>2. CASE device.exists
      <4>1. StoresHash(hand[r]) /\ pc' = [pc EXCEPT ![r] = "audit"]
        BY <2>3, <3>2 DEF WriteHash, GoTo
      <4>2. /\ device'.hash = hand[r] /\ device'.plain = None
            /\ device'.exists = device.exists
        BY <3>1, <4>1, StoresType
      <4> QED
        BY <2>3, <3>1, <3>2, <4>1, <4>2 DEF WriteHash, MadeInv, PendingInv, EffectInv, Pending, Wrote, Overwritten, None, First, Passwords, TypeOK
    <3>3. CASE ~device.exists
      <4>1. Ends(r)
        BY <2>3, <3>3 DEF WriteHash
      <4>2. /\ pc'[r] = "idle" /\ hand'[r] = None /\ old'[r] = None
            /\ \A q \in Requests \ {r} :
                  /\ pc'[q] = pc[q] /\ kind'[q] = kind[q]
                  /\ hand'[q] = hand[q] /\ old'[q] = old[q]
        BY <4>1, EndsType
      <4>3. /\ UNCHANGED <<device, made, answers, migrated>>
            /\ left' = [left EXCEPT ![hand[r]] = 0]
        BY <2>3, <3>3 DEF WriteHash
      <4> QED
        BY <3>1, <3>3, <4>2, <4>3 DEF MadeInv, PendingInv, EffectInv, Pending, Wrote, Overwritten, None, First, Passwords, TypeOK
    <3> QED
      BY <3>2, <3>3
  <2>4. CASE AuditReset(r)
    BY <2>4 DEF AuditReset, GoTo, MadeInv, PendingInv, EffectInv, Pending, Wrote, Overwritten, None, First, Passwords, TypeOK, Device
  <2>5. CASE CountReset(r)
    BY <2>5 DEF CountReset, GoTo, MadeInv, PendingInv, EffectInv, Pending, Wrote, Overwritten, None, First, Passwords, TypeOK, Device
  <2>6. CASE AnswerToken(r)
    BY <2>6 DEF AnswerToken, Ends, Replaced, MadeInv, PendingInv, EffectInv, Pending, Wrote, Overwritten, None, First, Passwords, TypeOK, Device
  <2>7. CASE FindToken(r)
    BY <2>7 DEF FindToken, GoTo, TokenValid, MadeInv, PendingInv, EffectInv, Pending, Wrote, Overwritten, None, First, Passwords, TypeOK, Device
  <2>8. CASE DeleteToken(r)
    BY <2>8 DEF DeleteToken, GoTo, MadeInv, PendingInv, EffectInv, Pending, Wrote, Overwritten, None, First, Passwords, TypeOK, Device
  <2>9. CASE AnswerPassword(r)
    BY <2>9 DEF AnswerPassword, Ends, Replaced, MadeInv, PendingInv, EffectInv, Pending, Wrote, Overwritten, None, First, Passwords, TypeOK, Device
  <2>10. CASE StartDirect(r)
    BY <2>10 DEF StartDirect, MakesPassword, GoTo, Current, MadeInv, PendingInv, EffectInv, Pending, Wrote, Overwritten, None, First, Passwords, TypeOK, Device
  <2>11. CASE WriteDirect(r)
    <3>1. hand[r] \in Passwords /\ pc[r] = "direct"
      BY <2>11, HandType DEF WriteDirect
    <3>2. CASE device.exists
      <4>1. StoresHash(hand[r]) /\ Ends(r)
        BY <2>11, <3>2 DEF WriteDirect
      <4>2. /\ device'.hash = hand[r] /\ device'.plain = None
            /\ device'.exists = device.exists
        BY <3>1, <4>1, StoresType
      <4>3. /\ pc'[r] = "idle" /\ hand'[r] = None /\ old'[r] = None
            /\ \A q \in Requests \ {r} :
                  /\ pc'[q] = pc[q] /\ kind'[q] = kind[q]
                  /\ hand'[q] = hand[q] /\ old'[q] = old[q]
        BY <4>1, EndsType
      <4>4. /\ known' = known \union {hand[r]} /\ dead' = dead \union ({old[r]} \ {None})
            /\ UNCHANGED <<left, made, told, views, migrated>>
        BY <2>11, <3>2 DEF WriteDirect, Replaced
      <4> QED
        BY <3>1, <3>2, <4>2, <4>3, <4>4 DEF MadeInv, PendingInv, EffectInv, Pending, Wrote, Overwritten, None, First, Passwords, TypeOK
    <3>3. CASE ~device.exists
      <4>1. Ends(r)
        BY <2>11, <3>3 DEF WriteDirect
      <4>2. /\ pc'[r] = "idle" /\ hand'[r] = None /\ old'[r] = None
            /\ \A q \in Requests \ {r} :
                  /\ pc'[q] = pc[q] /\ kind'[q] = kind[q]
                  /\ hand'[q] = hand[q] /\ old'[q] = old[q]
        BY <4>1, EndsType
      <4>3. /\ UNCHANGED <<device, made, left, told>>
            /\ UNCHANGED <<known, dead, views, migrated>>
        BY <2>11, <3>3 DEF WriteDirect
      <4> QED
        BY <3>1, <3>3, <4>2, <4>3 DEF MadeInv, PendingInv, EffectInv, Pending, Wrote, Overwritten, None, First, Passwords, TypeOK
    <3> QED
      BY <3>2, <3>3
  <2>12. CASE PlainLogin(r)
    BY <2>12 DEF PlainLogin, GoTo, MadeInv, PendingInv, EffectInv, Pending, Wrote, Overwritten, None, First, Passwords, TypeOK, Device
  <2>13. CASE Migrate(r)
    <3>1. hand[r] \in Passwords /\ pc[r] = "migrate"
      BY <2>13, HandType DEF Migrate
    <3>2. CASE device.exists
      <4>1. StoresHash(hand[r]) /\ Ends(r)
        BY <2>13, <3>2 DEF Migrate
      <4>2. /\ device'.hash = hand[r] /\ device'.plain = None
            /\ device'.exists = device.exists
        BY <3>1, <4>1, StoresType
      <4>3. /\ pc'[r] = "idle" /\ hand'[r] = None /\ old'[r] = None
            /\ \A q \in Requests \ {r} :
                  /\ pc'[q] = pc[q] /\ kind'[q] = kind[q]
                  /\ hand'[q] = hand[q] /\ old'[q] = old[q]
        BY <4>1, EndsType
      <4>4. /\ migrated' = TRUE /\ UNCHANGED <<left, made, told>>
            /\ UNCHANGED <<known, dead, views>>
        BY <2>13, <3>2 DEF Migrate
      <4> QED
        BY <3>1, <3>2, <4>2, <4>3, <4>4 DEF MadeInv, PendingInv, EffectInv, Pending, Wrote, Overwritten, None, First, Passwords, TypeOK
    <3>3. CASE ~device.exists
      <4>1. Ends(r)
        BY <2>13, <3>3 DEF Migrate
      <4>2. /\ pc'[r] = "idle" /\ hand'[r] = None /\ old'[r] = None
            /\ \A q \in Requests \ {r} :
                  /\ pc'[q] = pc[q] /\ kind'[q] = kind[q]
                  /\ hand'[q] = hand[q] /\ old'[q] = old[q]
        BY <4>1, EndsType
      <4>3. /\ UNCHANGED <<device, made, left, told>>
            /\ UNCHANGED <<known, dead, views, migrated>>
        BY <2>13, <3>3 DEF Migrate
      <4> QED
        BY <3>1, <3>3, <4>2, <4>3 DEF MadeInv, PendingInv, EffectInv, Pending, Wrote, Overwritten, None, First, Passwords, TypeOK
    <3> QED
      BY <3>2, <3>3
  <2>14. CASE Dies(r)
    BY <2>14 DEF Dies, Ends, MadeInv, PendingInv, EffectInv, Pending, Wrote, Overwritten, None, First, Passwords, TypeOK, Device
  <2> QED
    BY <1>4, <2>1, <2>2, <2>3, <2>4, <2>5, <2>6, <2>7, <2>8, <2>9, <2>10, <2>11, <2>12, <2>13, <2>14 DEF Request
<1> QED
  BY <1>1, <1>2, <1>3, <1>4 DEF Next

IInv == TypeOK /\ PasswordInv

THEOREM Inductive == Spec => []IInv
<1>1. Init => IInv
  BY InitInv DEF IInv
<1>2. IInv /\ [Next]_vars => IInv'
  <2> SUFFICES ASSUME IInv, [Next]_vars PROVE IInv'
    OBVIOUS
  <2>1. TypeOK /\ MadeInv /\ PendingInv /\ TokenInv /\ EffectInv
    BY DEF IInv, PasswordInv
  <2>2. TypeOK'
    BY <2>1, StepTypeOK
  <2>3. MadeInv' /\ PendingInv' /\ TokenInv' /\ EffectInv'
    BY <2>1, <2>2, StepMade, StepPending, StepToken, StepEffect
  <2> QED
    BY <2>2, <2>3 DEF IInv, PasswordInv
<1> QED
  BY <1>1, <1>2, PTL DEF Spec

\* The model of the device's password keeps its types, for every number of
\* requests, passwords and limits.
THEOREM TypeCorrect == Spec => []TypeOK
<1>1. IInv => TypeOK
  BY DEF IInv
<1> QED
  BY <1>1, Inductive, PTL

\* The token under which retrieve_reset_password has given a password away is
\* never valid again, whatever retrievals overlap.
THEOREM UsedTokensStayUsed == Spec => []UsedTokenRefused
<1>1. IInv => UsedTokenRefused
  BY DEF IInv, PasswordInv, TokenInv, UsedTokenRefused, TokenValid
<1> QED
  BY <1>1, Inductive, PTL

\* What an answered reset has replaced validate_mqtt_auth refuses from then on,
\* except the first password that a login was just hashing.
THEOREM ResetsTakeEffect == Spec => []ResetTakesEffect
<1>1. IInv => ResetTakesEffect
  BY DEF IInv, PasswordInv, EffectInv, Overwritten, ResetTakesEffect, Accepts
<1> QED
  BY <1>1, Inductive, PTL

\* No step of a reset, a migration, a switch of mode or a failure leaves a device
\* that had a password without one.
THEOREM DevicesStayGuarded == Spec => StaysGuarded
<1>1. IInv /\ [Next]_vars => [Guarded /\ device'.exists => Guarded']_vars
  <2> SUFFICES ASSUME IInv, [Next]_vars, Guarded, device'.exists PROVE Guarded'
    OBVIOUS
  <2>1. TypeOK /\ MadeInv
    BY DEF IInv, PasswordInv
  <2>2. CASE UNCHANGED device
    BY <2>2 DEF Guarded
  <2>3. CASE SwitchMode \/ DeleteDevice
    BY <2>1, <2>3, DocType DEF Guarded
  <2>4. ASSUME NEW r \in Requests, pc[r] # "idle", StoresHash(hand[r]) PROVE Guarded'
    <3>1. hand[r] \in Passwords
      BY <2>1, <2>4, HandType
    <3>2. device'.hash = hand[r]
      BY <2>1, <2>4, <3>1, StoresType
    <3> QED
      BY <3>1, <3>2 DEF Guarded, Passwords, None
  <2>5. ASSUME NEW r \in Requests, Request(r)
        PROVE  UNCHANGED device \/ (pc[r] # "idle" /\ StoresHash(hand[r]))
    BY <2>5 DEF Request, StartReset, PutToken, WriteHash, AuditReset, CountReset,
       AnswerToken, FindToken, DeleteToken, AnswerPassword, StartDirect, WriteDirect,
       PlainLogin, Migrate, Dies, GoTo
  <2> QED
    BY <2>2, <2>3, <2>4, <2>5 DEF Next, Tick, vars
<1> QED
  BY <1>1, Inductive, PTL DEF Spec, StaysGuarded

-----------------------------------------------------------------------------
(* Counting the requests in flight.                                         *)

\* Sets of requests are finite, and their sizes follow inclusion.
LEMMA Counting ==
    ASSUME NEW R \in SUBSET Requests, NEW Q \in SUBSET R
    PROVE  /\ IsFiniteSet(R) /\ IsFiniteSet(Q)
           /\ Cardinality(R) \in Nat /\ Cardinality(Q) \in Nat
           /\ Cardinality(Requests) \in Nat
           /\ Cardinality(Q) <= Cardinality(R)
           /\ Cardinality(R) <= Cardinality(Requests)
<1>1. IsFiniteSet(R) /\ IsFiniteSet(Q)
  BY RequestsFinite, FS_Subset
<1> QED
  BY <1>1, RequestsFinite, FS_Subset, FS_CardinalityType

\* Only a retrieval that finds its token begins to view, and only the answer
\* ends a view with the password.
LEMMA ViewingSteps ==
    ASSUME TypeOK, [Next]_vars, NEW n \in Passwords
    PROVE  \/ Viewing(n)' \subseteq Viewing(n) /\ views'[n] = views[n]
           \/ TokenValid(n) /\ views'[n] = views[n]
           \/ \E r \in Viewing(n) :
                 views'[n] = views[n] + 1 /\ Viewing(n)' \subseteq Viewing(n) \ {r}
<1> USE DEF limit, locals, answers
<1>1. CASE UNCHANGED vars \/ SwitchMode \/ DeleteDevice \/ Tick
  BY <1>1 DEF vars, SwitchMode, DeleteDevice, Tick, Viewing
<1>2. ASSUME NEW r \in Requests, Request(r)
      PROVE  \/ Viewing(n)' \subseteq Viewing(n) /\ views'[n] = views[n]
             \/ TokenValid(n) /\ views'[n] = views[n]
             \/ \E q \in Viewing(n) :
                   views'[n] = views[n] + 1 /\ Viewing(n)' \subseteq Viewing(n) \ {q}
  <2>1. CASE StartReset(r)
    BY <2>1 DEF StartReset, MakesPassword, GoTo, Viewing, TypeOK
  <2>2. CASE PutToken(r)
    BY <2>2 DEF PutToken, GoTo, Viewing, TypeOK
  <2>3. CASE WriteHash(r)
    BY <2>3 DEF WriteHash, GoTo, Ends, Viewing, TypeOK
  <2>4. CASE AuditReset(r)
    BY <2>4 DEF AuditReset, GoTo, Viewing, TypeOK
  <2>5. CASE CountReset(r)
    BY <2>5 DEF CountReset, GoTo, Viewing, TypeOK
  <2>6. CASE AnswerToken(r)
    BY <2>6 DEF AnswerToken, Ends, Viewing, TypeOK
  <2>7. CASE FindToken(r)
    BY <2>7 DEF FindToken, GoTo, Viewing, TypeOK
  <2>8. CASE DeleteToken(r)
    BY <2>8 DEF DeleteToken, GoTo, Viewing, TypeOK
  <2>9. CASE AnswerPassword(r)
    BY <2>9 DEF AnswerPassword, Ends, Viewing, TypeOK
  <2>10. CASE StartDirect(r)
    BY <2>10 DEF StartDirect, MakesPassword, GoTo, Viewing, TypeOK
  <2>11. CASE WriteDirect(r)
    BY <2>11 DEF WriteDirect, Ends, Viewing, TypeOK
  <2>12. CASE PlainLogin(r)
    BY <2>12 DEF PlainLogin, GoTo, Viewing, TypeOK
  <2>13. CASE Migrate(r)
    BY <2>13 DEF Migrate, Ends, Viewing, TypeOK
  <2>14. CASE Dies(r)
    BY <2>14 DEF Dies, Ends, Viewing, TypeOK
  <2> QED
    BY <1>2, <2>1, <2>2, <2>3, <2>4, <2>5, <2>6, <2>7,
       <2>8, <2>9, <2>10, <2>11, <2>12, <2>13, <2>14 DEF Request
<1> QED
  BY <1>1, <1>2 DEF Next

\* One life of a token gives its password away no more often than there can be
\* requests in flight.
THEOREM ViewsAreBounded == Spec => []ViewsBounded
<1>1. Init => ViewsBounded
  <2> SUFFICES ASSUME Init, NEW n \in Passwords
               PROVE  views[n] + Cardinality(Viewing(n)) <= Cardinality(Requests)
    BY DEF ViewsBounded
  <2>1. Viewing(n) \subseteq Requests /\ views[n] = 0
    BY DEF Init, Viewing
  <2> QED
    BY <2>1, Counting
<1>2. IInv /\ ViewsBounded /\ [Next]_vars => ViewsBounded'
  <2> SUFFICES ASSUME IInv, ViewsBounded, [Next]_vars, NEW n \in Passwords
               PROVE  views'[n] + Cardinality(Viewing(n)') <= Cardinality(Requests)
    BY DEF ViewsBounded
  <2>1. TypeOK /\ TokenInv /\ views[n] \in Nat
    BY DEF IInv, PasswordInv, TypeOK
  <2>2. views[n] + Cardinality(Viewing(n)) <= Cardinality(Requests)
    BY DEF ViewsBounded
  <2>3. Viewing(n) \subseteq Requests /\ Viewing(n)' \subseteq Requests
    BY DEF Viewing
  <2>4. CASE Viewing(n)' \subseteq Viewing(n) /\ views'[n] = views[n]
    BY <2>1, <2>2, <2>3, <2>4, Counting
  <2>5. CASE TokenValid(n) /\ views'[n] = views[n]
    <3>1. views[n] = 0
      BY <2>1, <2>5 DEF TokenInv, TokenValid
    <3> QED
      BY <2>3, <2>5, <3>1, Counting
  <2>6. ASSUME NEW r \in Viewing(n), views'[n] = views[n] + 1,
               Viewing(n)' \subseteq Viewing(n) \ {r}
        PROVE  views'[n] + Cardinality(Viewing(n)') <= Cardinality(Requests)
    <3>1. Cardinality(Viewing(n) \ {r}) = Cardinality(Viewing(n)) - 1
      BY <2>3, Counting, FS_RemoveElement
    <3>2. Cardinality(Viewing(n)') <= Cardinality(Viewing(n) \ {r})
      BY <2>3, <2>6, Counting
    <3> QED
      BY <2>1, <2>2, <2>3, <2>6, <3>1, <3>2, Counting
  <2> QED
    BY <2>1, <2>4, <2>5, <2>6, ViewingSteps
<1> QED
  BY <1>1, <1>2, Inductive, PTL DEF Spec

\* A reset begins below the limit or through a bundle, and is in the bound until
\* it counts itself.
LEMMA ResettingSteps ==
    ASSUME TypeOK, MadeInv, [Next]_vars
    PROVE  \/ Resetting' \subseteq Resetting /\ count' <= count
           \/ count < MaxResets /\ count' = count
           \/ \E r \in Resetting :
                 count' = count + 1 /\ Resetting' \subseteq Resetting \ {r}
<1> USE DEF limit, locals, answers
<1>1. CASE UNCHANGED vars \/ SwitchMode \/ DeleteDevice \/ Tick
  BY <1>1 DEF vars, SwitchMode, DeleteDevice, Tick, Resetting, TypeOK
<1>2. ASSUME NEW r \in Requests, Request(r)
      PROVE  \/ Resetting' \subseteq Resetting /\ count' <= count
             \/ count < MaxResets /\ count' = count
             \/ \E q \in Resetting :
                   count' = count + 1 /\ Resetting' \subseteq Resetting \ {q}
  <2>1. CASE StartReset(r)
    BY <2>1 DEF StartReset, MakesPassword, GoTo, Resetting, TypeOK
  <2>2. CASE PutToken(r)
    BY <2>2 DEF PutToken, GoTo, Resetting, TypeOK
  <2>3. CASE WriteHash(r)
    BY <2>3 DEF WriteHash, GoTo, Ends, Resetting, TypeOK
  <2>4. CASE AuditReset(r)
    BY <2>4 DEF AuditReset, GoTo, Resetting, TypeOK
  <2>5. CASE CountReset(r)
    BY <2>5 DEF CountReset, GoTo, Resetting, TypeOK, MadeInv
  <2>6. CASE AnswerToken(r)
    BY <2>6 DEF AnswerToken, Ends, Resetting, TypeOK
  <2>7. CASE FindToken(r)
    BY <2>7 DEF FindToken, GoTo, Resetting, TypeOK
  <2>8. CASE DeleteToken(r)
    BY <2>8 DEF DeleteToken, GoTo, Resetting, TypeOK
  <2>9. CASE AnswerPassword(r)
    BY <2>9 DEF AnswerPassword, Ends, Resetting, TypeOK
  <2>10. CASE StartDirect(r)
    BY <2>10 DEF StartDirect, MakesPassword, GoTo, Resetting, TypeOK
  <2>11. CASE WriteDirect(r)
    BY <2>11 DEF WriteDirect, Ends, Resetting, TypeOK
  <2>12. CASE PlainLogin(r)
    BY <2>12 DEF PlainLogin, GoTo, Resetting, TypeOK
  <2>13. CASE Migrate(r)
    BY <2>13 DEF Migrate, Ends, Resetting, TypeOK
  <2>14. CASE Dies(r)
    BY <2>14 DEF Dies, Ends, Resetting, TypeOK
  <2> QED
    BY <1>2, <2>1, <2>2, <2>3, <2>4, <2>5, <2>6, <2>7,
       <2>8, <2>9, <2>10, <2>11, <2>12, <2>13, <2>14 DEF Request
<1> QED
  BY <1>1, <1>2 DEF Next

\* Overlapping resets exceed the limit by no more than the requests in flight.
THEOREM ResetsAreBounded == Spec => []ResetsBounded
<1>1. Init => ResetsBounded
  <2> SUFFICES ASSUME Init PROVE ResetsBounded
    OBVIOUS
  <2>1. Resetting \subseteq Requests /\ count = 0
    BY DEF Init, Resetting
  <2> QED
    BY <2>1, Counting, PasswordConstants DEF ResetsBounded
<1>2. IInv /\ ResetsBounded /\ [Next]_vars => ResetsBounded'
  <2> SUFFICES ASSUME IInv, ResetsBounded, [Next]_vars PROVE ResetsBounded'
    OBVIOUS
  <2>1. TypeOK /\ MadeInv /\ count \in Nat /\ count' \in Nat
    BY StepTypeOK DEF IInv, PasswordInv, TypeOK
  <2>2. Resetting \subseteq Requests /\ Resetting' \subseteq Requests
    BY DEF Resetting
  <2>3. CASE Resetting' \subseteq Resetting /\ count' <= count
    BY <2>1, <2>2, <2>3, Counting, PasswordConstants DEF ResetsBounded
  <2>4. CASE count < MaxResets /\ count' = count
    BY <2>1, <2>2, <2>4, Counting, PasswordConstants DEF ResetsBounded
  <2>5. ASSUME NEW r \in Resetting, count' = count + 1,
               Resetting' \subseteq Resetting \ {r}
        PROVE  ResetsBounded'
    <3>1. Cardinality(Resetting \ {r}) = Cardinality(Resetting) - 1
      BY <2>2, Counting, FS_RemoveElement
    <3>2. Cardinality(Resetting') <= Cardinality(Resetting \ {r})
      BY <2>2, <2>5, Counting
    <3> QED
      BY <2>1, <2>2, <2>5, <3>1, <3>2, Counting, PasswordConstants DEF ResetsBounded
  <2> QED
    BY <2>1, <2>3, <2>4, <2>5, ResettingSteps
<1> QED
  BY <1>1, <1>2, Inductive, PTL DEF Spec
=============================================================================
