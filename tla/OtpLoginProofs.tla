--------------------------- MODULE OtpLoginProofs ---------------------------
(***************************************************************************)
(* Theorems about OtpLogin for every number of requests, codes, sessions   *)
(* and passwords.                                                          *)
(***************************************************************************)
EXTENDS OtpLogin, FiniteSetTheorems, TLAPS

\* A password that has not been written yet.
Pending(r) == pc[r] \in {"store", "write"}

Deleting == {r \in Requests : pc[r] = "delete"}

Verifying == {r \in Requests : pc[r] \in {"mark", "open", "find"}}

\* Accepted verifications pay for the sessions, and both have room for every request.
CodesInv ==
    /\ opened + resets + Cardinality(Verifying) <= accepted
    /\ accepted + Cardinality(Deleting) <= MaxSessions

\* What the codes that were mailed or put back are good for: a verification of
\* every request for each.  While one of them is pending none has used it yet.
Credit == Cardinality(Requests) * (mailed + returned)

PaidInv ==
    /\ accepted + Cardinality(Deleting) <= Credit
    /\ code # None => accepted + Cardinality(Requests) <= Credit

\* A session is known only after it was opened.
SessionsInv ==
    /\ \A s \in sessions : s <= opened /\ uses[s] = 0
    /\ \A r \in Requests : session[r] <= opened
    /\ \A r \in Requests : pc[r] = "close" => session[r] # None
    /\ \A r \in Requests : Pending(r) /\ kind[r] = "setup" => session[r] # None
    /\ \A s \in Sessions : uses[s] > 0 => s <= opened

\* Sessions, and what is done with them, come after a verification.
VerifiedInv ==
    /\ active => verified
    /\ sessions # {} => verified
    /\ \A r \in Requests : pc[r] \in {"open", "close"} => verified
    /\ \A r \in Requests : Pending(r) /\ kind[r] = "setup" => verified

\* Nothing is known of a password that was not sent.
MadeInv ==
    /\ hash <= made
    /\ \A n \in dead : n <= made
    /\ \A r \in Requests : hand[r] <= made /\ \A n \in old[r] : n <= made
    /\ \A r \in Requests : Pending(r) => hand[r] # None

\* A password that is still to be written is nowhere else.
PendingInv ==
    \A r \in Requests : Pending(r) =>
        /\ hand[r] # hash /\ hand[r] \notin dead
        /\ \A q \in Requests : hand[r] \notin old[q]
        /\ \A q \in Requests \ {r} : Pending(q) => hand[q] # hand[r]

\* What a change replaces is not in the document, unless Vault has the new one.
Overwritten(p) == p # hash \/ (useVault /\ newest = "vault")

Wrote(r) == pc[r] = "close" \/ (pc[r] = "write" /\ ~tohash[r])

EffectInv ==
    /\ \A p \in dead : Overwritten(p)
    /\ \A r \in Requests : Wrote(r) => \A p \in old[r] : Overwritten(p)

\* A deleted user has no hash, and None is no password.
GoneInv == ~exists => hash = None

LoginInv ==
    /\ GoneInv /\ CodesInv /\ PaidInv /\ SessionsInv /\ VerifiedInv
    /\ MadeInv /\ PendingInv /\ EffectInv

\* Sets of requests are finite, and their sizes follow inclusion.
LEMMA Counting ==
    ASSUME NEW R \in SUBSET Requests, NEW Q \in SUBSET R
    PROVE  /\ IsFiniteSet(R) /\ IsFiniteSet(Q)
           /\ Cardinality(R) \in Nat /\ Cardinality(Q) \in Nat
           /\ Cardinality(Requests) \in Nat
           /\ Cardinality(Q) <= Cardinality(R)
           /\ Cardinality(R) <= Cardinality(Requests)
<1>1. IsFiniteSet(R) /\ IsFiniteSet(Q)
  BY LoginConstants, FS_Subset
<1> QED
  BY <1>1, LoginConstants, FS_Subset, FS_CardinalityType

LEMMA Removing ==
    ASSUME NEW R \in SUBSET Requests, NEW r \in R, NEW Q \in SUBSET (R \ {r})
    PROVE  Cardinality(Q) <= Cardinality(R) - 1
<1>1. Cardinality(R \ {r}) = Cardinality(R) - 1
  BY Counting, FS_RemoveElement
<1>2. Cardinality(Q) <= Cardinality(R \ {r})
  BY Counting
<1> QED
  BY <1>1, <1>2

LEMMA Adding ==
    ASSUME NEW R \in SUBSET Requests, NEW r \in Requests, NEW Q \in SUBSET (R \union {r})
    PROVE  Cardinality(Q) <= Cardinality(R) + 1
<1>1. Cardinality(R \union {r}) <= Cardinality(R) + 1 /\ Cardinality(R) \in Nat
  BY Counting, FS_AddElement
<1>2. R \union {r} \subseteq Requests
  OBVIOUS
<1>3. Cardinality(Q) <= Cardinality(R \union {r})
  BY <1>2, Counting
<1>4. Cardinality(Q) \in Nat /\ Cardinality(R \union {r}) \in Nat
  BY <1>2, Counting
<1> QED
  BY <1>1, <1>3, <1>4

LEMMA BoundsType == MaxSessions \in Nat /\ Cardinality(Requests) \in Nat
<1>1. Cardinality(Requests) \in Nat
  BY LoginConstants, FS_CardinalityType
<1> QED
  BY <1>1, LoginConstants DEF MaxSessions

LEMMA InitInv == Init => TypeOK /\ LoginInv
<1> SUFFICES ASSUME Init PROVE TypeOK /\ LoginInv
  OBVIOUS
<1>1. MaxSessions \in Nat /\ Cardinality(Requests) \in Nat
  BY BoundsType
<1>2. TypeOK
  <2>1. uses \in [Sessions -> Nat] /\ sessions \subseteq Sessions /\ opened \in 0..MaxSessions
    BY <1>1 DEF Init
  <2>2. /\ pc \in [Requests -> PCs] /\ kind \in [Requests -> Kinds]
        /\ saw \in [Requests -> 0..MaxCodes]
        /\ hand \in [Requests -> Passwords \union {None}]
        /\ session \in [Requests -> Sessions \union {None}]
        /\ tohash \in [Requests -> BOOLEAN] /\ old \in [Requests -> SUBSET Passwords]
    BY LoginConstants DEF Init, PCs, Kinds, None
  <2>3. /\ code \in 0..MaxCodes /\ mailed \in 0..MaxCodes /\ returned \in Nat /\ accepted \in Nat
        /\ resets \in Nat /\ hash \in Passwords \union {None}
        /\ made \in Passwords \union {None} /\ dead \subseteq Passwords
        /\ newest \in {"hash", "vault"}
    BY LoginConstants DEF Init, None
  <2>4. useVault \in BOOLEAN /\ exists \in BOOLEAN /\ verified \in BOOLEAN /\ active \in BOOLEAN
    BY Zenon DEF Init
  <2> QED
    BY <2>1, <2>2, <2>3, <2>4 DEF TypeOK
<1>3. CodesInv /\ PaidInv
  <2>1. Verifying = {} /\ Deleting = {}
    BY DEF Init, Verifying, Deleting
  <2>2. accepted = 0 /\ opened = 0 /\ resets = 0 /\ code = None /\ mailed + returned = 0
    BY DEF Init
  <2>3. Credit = 0
    BY <1>1, <2>2 DEF Credit
  <2> QED
    BY <1>1, <2>1, <2>2, <2>3, FS_EmptySet DEF CodesInv, PaidInv
<1>4. SessionsInv /\ VerifiedInv
  BY DEF Init, SessionsInv, VerifiedInv, Pending, None
<1>6. GoneInv
  BY DEF Init, GoneInv
<1>5. MadeInv /\ PendingInv /\ EffectInv
  BY DEF Init, MadeInv, PendingInv, EffectInv, Pending, Wrote, None
<1> QED
  BY <1>2, <1>3, <1>4, <1>5, <1>6 DEF LoginInv

\* The registers keep their types when a request ends.
LEMMA EndsType ==
    ASSUME TypeOK, NEW r \in Requests, Ends(r)
    PROVE  /\ pc' \in [Requests -> PCs] /\ kind' \in [Requests -> Kinds]
           /\ saw' \in [Requests -> 0..MaxCodes]
           /\ hand' \in [Requests -> Passwords \union {None}]
           /\ session' \in [Requests -> Sessions \union {None}]
           /\ tohash' \in [Requests -> BOOLEAN] /\ old' \in [Requests -> SUBSET Passwords]
           /\ pc'[r] = "idle" /\ hand'[r] = None /\ session'[r] = None /\ old'[r] = {}
           /\ \A q \in Requests \ {r} :
                 /\ pc'[q] = pc[q] /\ kind'[q] = kind[q] /\ hand'[q] = hand[q]
                 /\ session'[q] = session[q] /\ old'[q] = old[q] /\ tohash'[q] = tohash[q]
<1>1. None \in 0..MaxCodes
  BY LoginConstants DEF None
<1> QED
  BY <1>1 DEF TypeOK, Ends, PCs, Kinds

\* Every step keeps the types; a session has a number of its own because it was
\* paid for with a code.
LEMMA StepTypeOK ==
    ASSUME TypeOK, CodesInv, [Next]_vars
    PROVE  TypeOK'
<1> USE LoginConstants DEF user, stores, grants, codes, locals, answers
<1>1. CASE UNCHANGED vars
  BY <1>1 DEF vars, TypeOK, PCs, Kinds, None
<1>2. CASE MailCode \/ CodeGone \/ DeleteUser
  <2>1. CASE MailCode
    BY <2>1 DEF MailCode, TypeOK, PCs, Kinds, None
  <2>2. CASE CodeGone
    BY <2>2 DEF CodeGone, TypeOK, PCs, Kinds, None
  <2>3. CASE DeleteUser
    BY <2>3 DEF DeleteUser, TypeOK, PCs, Kinds, None
  <2> QED
    BY <1>2, <2>1, <2>2, <2>3
<1>3. ASSUME NEW r \in Requests, Request(r)
    PROVE  TypeOK'
  <2>1. CASE ReadCode(r)
    BY <2>1 DEF ReadCode, At, Step, TypeOK, PCs, Kinds, None
  <2>2. CASE DeleteCode(r)
    <3>1. code' \in 0..MaxCodes /\ accepted' \in Nat
      BY <2>2 DEF DeleteCode, TypeOK, None
    <3> QED
      BY <2>2, <3>1 DEF DeleteCode, Step, At, TypeOK, PCs
  <2>3. CASE GuessWrong(r)
    BY <2>3 DEF GuessWrong, At, Step, TypeOK, PCs, Kinds, None
  <2>4. CASE CountGuess(r)
    <3>1. None \in 0..MaxCodes
      BY DEF None
    <3>2. code' \in 0..MaxCodes /\ returned' \in Nat
      BY <2>4, <3>1 DEF CountGuess, TypeOK
    <3> QED
      BY <2>4, <3>2, EndsType DEF CountGuess, TypeOK
  <2>5. CASE MarkVerified(r)
    <3>1. CASE exists /\ Step(r, "mark", "open")
      BY <2>5, <3>1 DEF MarkVerified, Step, At, Ends, TypeOK, PCs, Kinds
    <3>2. CASE ~exists /\ Ends(r)
      BY <2>5, <3>2, EndsType DEF MarkVerified, TypeOK
    <3> QED
      BY <2>5, <3>1, <3>2 DEF MarkVerified
  <2>6. CASE OpenSession(r)
    <3>1. opened < MaxSessions
      <4>1. r \in Verifying /\ Verifying \subseteq Requests
        BY <2>6 DEF OpenSession, At, Verifying
      <4>2. Cardinality(Verifying) >= 1
        BY <4>1, Counting, Removing, FS_EmptySet, BoundsType
      <4>3. Cardinality(Deleting) \in Nat
        BY Counting DEF Deleting
      <4> QED
        <5>1. opened \in Int /\ resets \in Nat /\ accepted \in Nat /\ Cardinality(Verifying) \in Nat
          BY <4>1, Counting, BoundsType DEF TypeOK
        <5>2. /\ opened + resets + Cardinality(Verifying) <= accepted
              /\ accepted + Cardinality(Deleting) <= MaxSessions
          BY DEF CodesInv
        <5> QED
          BY <4>2, <4>3, <5>1, <5>2, BoundsType
    <3>2. opened' \in 0..MaxSessions /\ sessions' \subseteq Sessions
      <4>1. opened \in Nat /\ opened + 1 \in Sessions /\ opened + 1 \in 0..MaxSessions
        BY <3>1, BoundsType DEF TypeOK, Sessions
      <4> QED
        BY <2>6, <4>1 DEF OpenSession, TypeOK
    <3> QED
      BY <2>6, <3>2, EndsType DEF OpenSession, TypeOK
  <2>7. CASE ReadSession(r)
    <3>1. made' \in Passwords /\ made' = made + 1
      BY <2>7 DEF ReadSession, Sends, TypeOK, Passwords, None
    <3>2. hand' \in [Requests -> Passwords \union {None}] /\ old' \in [Requests -> SUBSET Passwords]
      BY <2>7, <3>1 DEF ReadSession, Sends, TypeOK
    <3> QED
      BY <2>7, <3>1, <3>2 DEF ReadSession, Step, At, TypeOK, PCs, Kinds
  <2>8. CASE FindUser(r)
    <3>1. made' \in Passwords /\ made' = made + 1
      BY <2>8 DEF FindUser, Sends, TypeOK, Passwords, None
    <3>2. hand' \in [Requests -> Passwords \union {None}] /\ old' \in [Requests -> SUBSET Passwords]
      BY <2>8, <3>1 DEF FindUser, Sends, TypeOK
    <3>3. resets' \in Nat
      BY <2>8 DEF FindUser, TypeOK
    <3> QED
      BY <2>8, <3>1, <3>2, <3>3 DEF FindUser, Step, At, TypeOK, PCs, Kinds
  <2>9. CASE GiveTicket(r)
    BY <2>9, EndsType DEF GiveTicket, At, TypeOK
  <2>10. CASE StorePassword(r)
    BY <2>10 DEF StorePassword, At, Step, TypeOK, PCs, Kinds, None
  <2>11. CASE WriteUser(r)
    <3>1. hash' \in Passwords \union {None} /\ newest' \in {"hash", "vault"}
      BY <2>11 DEF WriteUser, Stored, TypeOK
    <3>2. CASE kind[r] = "setup"
      <4>1. active' \in BOOLEAN
        BY <2>11, <3>2 DEF WriteUser, TypeOK
      <4> QED
        BY <2>11, <3>1, <3>2, <4>1 DEF WriteUser, Step, At, TypeOK, PCs
    <3>3. CASE kind[r] # "setup"
      <4>1. dead' \subseteq Passwords
        BY <2>11, <3>3 DEF WriteUser, TypeOK
      <4> QED
        BY <2>11, <3>1, <3>3, <4>1, EndsType DEF WriteUser, TypeOK
    <3> QED
      BY <3>2, <3>3
  <2>12. CASE CloseSession(r)
    <3>1. uses' \in [Sessions -> Nat]
      <4>1. \A s \in Sessions : uses[s] \in Nat /\ uses[s] + 1 \in Nat
        BY DEF TypeOK
      <4> QED
        BY <2>12, <4>1 DEF CloseSession, TypeOK
    <3>2. dead' \subseteq Passwords /\ sessions' \subseteq Sessions
      BY <2>12 DEF CloseSession, TypeOK
    <3> QED
      BY <2>12, <3>1, <3>2, EndsType DEF CloseSession, TypeOK
  <2>13. CASE Dies(r)
    BY <2>13, EndsType DEF Dies, At, TypeOK
  <2> QED
    BY <1>3, <2>1, <2>2, <2>3, <2>4, <2>5, <2>6, <2>7, <2>8, <2>9, <2>10, <2>11, <2>12, <2>13
       DEF Request
<1> QED
  BY <1>1, <1>2, <1>3 DEF Next

\* A deleted user stays deleted.
LEMMA StepGone ==
    ASSUME GoneInv, [Next]_vars
    PROVE  GoneInv'
<1> USE LoginConstants DEF user, stores, grants, codes, locals, answers
<1>1. CASE UNCHANGED vars
  BY <1>1 DEF vars, GoneInv
<1>2. CASE MailCode \/ CodeGone \/ DeleteUser
  <2>1. CASE MailCode
    BY <2>1 DEF MailCode, GoneInv
  <2>2. CASE CodeGone
    BY <2>2 DEF CodeGone, GoneInv
  <2>3. CASE DeleteUser
    BY <2>3 DEF DeleteUser, GoneInv
  <2> QED
    BY <1>2, <2>1, <2>2, <2>3
<1>3. ASSUME NEW r \in Requests, Request(r)
    PROVE  GoneInv'
  <2>1. CASE ReadCode(r)
    BY <2>1 DEF ReadCode, At, Step, GoneInv
  <2>2. CASE DeleteCode(r)
    BY <2>2 DEF DeleteCode, At, Step, GoneInv
  <2>3. CASE GuessWrong(r)
    BY <2>3 DEF GuessWrong, At, Step, GoneInv
  <2>4. CASE CountGuess(r)
    BY <2>4 DEF CountGuess, At, Ends, GoneInv
  <2>5. CASE MarkVerified(r)
    BY <2>5 DEF MarkVerified, At, Step, Ends, GoneInv
  <2>6. CASE OpenSession(r)
    BY <2>6 DEF OpenSession, At, Ends, GoneInv
  <2>7. CASE ReadSession(r)
    BY <2>7 DEF ReadSession, At, Step, Sends, GoneInv
  <2>8. CASE FindUser(r)
    BY <2>8 DEF FindUser, At, Step, Sends, GoneInv
  <2>9. CASE GiveTicket(r)
    BY <2>9 DEF GiveTicket, At, Ends, GoneInv
  <2>10. CASE StorePassword(r)
    BY <2>10 DEF StorePassword, At, Step, GoneInv
  <2>11. CASE WriteUser(r)
    BY <2>11 DEF WriteUser, At, Step, Ends, Stored, GoneInv
  <2>12. CASE CloseSession(r)
    BY <2>12 DEF CloseSession, At, Ends, GoneInv
  <2>13. CASE Dies(r)
    BY <2>13 DEF Dies, At, Ends, GoneInv
  <2> QED
    BY <1>3, <2>1, <2>2, <2>3, <2>4, <2>5, <2>6, <2>7, <2>8, <2>9, <2>10, <2>11, <2>12, <2>13
       DEF Request
<1> QED
  BY <1>1, <1>2, <1>3 DEF Next

\* A used session stays used.
LEMMA StepSessions ==
    ASSUME TypeOK, TypeOK', SessionsInv, [Next]_vars
    PROVE  SessionsInv'
<1> USE LoginConstants DEF user, stores, grants, codes, locals, answers
<1>1. CASE UNCHANGED vars
  BY <1>1 DEF vars, SessionsInv, Pending, TypeOK, None, Sessions, Passwords
<1>2. CASE MailCode \/ CodeGone \/ DeleteUser
  <2>1. CASE MailCode
    BY <2>1 DEF MailCode, SessionsInv, Pending, TypeOK, None, Sessions, Passwords
  <2>2. CASE CodeGone
    BY <2>2 DEF CodeGone, SessionsInv, Pending, TypeOK, None, Sessions, Passwords
  <2>3. CASE DeleteUser
    BY <2>3 DEF DeleteUser, SessionsInv, Pending, TypeOK, None, Sessions, Passwords
  <2> QED
    BY <1>2, <2>1, <2>2, <2>3
<1>3. ASSUME NEW r \in Requests, Request(r)
    PROVE  SessionsInv'
  <2>1. CASE ReadCode(r)
    BY <2>1 DEF ReadCode, At, Step, SessionsInv, Pending, TypeOK, None, Sessions, Passwords
  <2>2. CASE DeleteCode(r)
    BY <2>2 DEF DeleteCode, At, Step, SessionsInv, Pending, TypeOK, None, Sessions, Passwords
  <2>3. CASE GuessWrong(r)
    BY <2>3 DEF GuessWrong, At, Step, SessionsInv, Pending, TypeOK, None, Sessions, Passwords
  <2>4. CASE CountGuess(r)
    BY <2>4 DEF CountGuess, At, Ends, SessionsInv, Pending, TypeOK, None, Sessions, Passwords
  <2>5. CASE MarkVerified(r)
    <3>1. CASE exists /\ Step(r, "mark", "open")
      BY <2>5, <3>1 DEF MarkVerified, Step, At, Ends, SessionsInv, Pending, TypeOK
    <3>2. CASE Ends(r)
      BY <2>5, <3>2, EndsType DEF MarkVerified, SessionsInv, Pending, TypeOK, None
    <3> QED
      BY <2>5, <3>1, <3>2 DEF MarkVerified
  <2>6. CASE OpenSession(r)
    <3>1. Ends(r) /\ UNCHANGED uses
      BY <2>6 DEF OpenSession
    <3>2. opened' \in {opened, opened + 1} /\ sessions' \subseteq sessions \union {opened'}
      BY <2>6 DEF OpenSession
    <3>3. sessions' \subseteq sessions \/ opened' = opened + 1
      BY <2>6 DEF OpenSession
    <3>4. opened \in Nat /\ sessions \subseteq Sessions /\ sessions' \subseteq Sessions
      BY BoundsType DEF TypeOK
    <3>5. \A s \in sessions' : s <= opened' /\ uses'[s] = 0
      <4> SUFFICES ASSUME NEW s \in sessions' PROVE s <= opened' /\ uses[s] = 0
        BY <3>1
      <4>1. s \in Sessions /\ uses[s] \in Nat /\ s \in Nat
        <5>1. s \in Sessions
          BY <3>4
        <5>2. uses[s] \in Nat
          BY <5>1 DEF TypeOK
        <5> QED
          BY <5>1, <5>2 DEF Sessions
      <4>2. CASE s \in sessions
        BY <3>2, <3>4, <4>1, <4>2 DEF SessionsInv
      <4>3. CASE s \notin sessions
        <5>1. opened' = opened + 1 /\ s = opened + 1
          BY <3>2, <3>3, <4>3
        <5> QED
          BY <3>4, <4>1, <5>1 DEF SessionsInv
      <4> QED
        BY <4>2, <4>3
    <3>6. \A q \in Requests : session'[q] <= opened'
      <4>1. session' = [session EXCEPT ![r] = None]
        BY <3>1 DEF Ends
      <4>2. \A q \in Requests : session[q] \in Nat /\ session[q] <= opened
        BY DEF SessionsInv, TypeOK, Sessions, None
      <4>3. \A q \in Requests : session'[q] \in {session[q], None}
        BY <4>1 DEF TypeOK
      <4> QED
        BY <3>2, <3>4, <4>2, <4>3 DEF None
    <3>7. \A q \in Requests :
             /\ pc'[q] = "close" => session'[q] # None
             /\ Pending(q)' /\ kind'[q] = "setup" => session'[q] # None
      BY <3>1, EndsType DEF SessionsInv, Pending
    <3>8. \A s \in Sessions : uses'[s] > 0 => s <= opened'
      BY <3>1, <3>2, <3>4 DEF SessionsInv, Sessions
    <3> QED
      BY <3>5, <3>6, <3>7, <3>8 DEF SessionsInv
  <2>7. CASE ReadSession(r)
    BY <2>7 DEF ReadSession, At, Step, Sends, SessionsInv, Pending, TypeOK, None, Sessions, Passwords
  <2>8. CASE FindUser(r)
    BY <2>8 DEF FindUser, At, Step, Sends, SessionsInv, Pending, TypeOK, None, Sessions, Passwords
  <2>9. CASE GiveTicket(r)
    BY <2>9 DEF GiveTicket, At, Ends, SessionsInv, Pending, TypeOK, None, Sessions, Passwords
  <2>10. CASE StorePassword(r)
    BY <2>10 DEF StorePassword, At, Step, SessionsInv, Pending, TypeOK, None, Sessions, Passwords
  <2>11. CASE WriteUser(r)
    <3>1. CASE kind[r] = "setup"
      BY <2>11, <3>1 DEF WriteUser, Step, At, SessionsInv, Pending, TypeOK
    <3>2. CASE kind[r] # "setup"
      <4>1. Ends(r) /\ UNCHANGED <<sessions, opened, uses>>
        BY <2>11, <3>2 DEF WriteUser
      <4> QED
        BY <4>1, EndsType DEF SessionsInv, Pending, TypeOK, None
    <3> QED
      BY <3>1, <3>2
  <2>12. CASE CloseSession(r)
    BY <2>12 DEF CloseSession, At, Ends, SessionsInv, Pending, TypeOK, None, Sessions, Passwords
  <2>13. CASE Dies(r)
    BY <2>13 DEF Dies, At, Ends, SessionsInv, Pending, TypeOK, None, Sessions, Passwords
  <2> QED
    BY <1>3, <2>1, <2>2, <2>3, <2>4, <2>5, <2>6, <2>7, <2>8, <2>9, <2>10, <2>11, <2>12, <2>13
       DEF Request
<1> QED
  BY <1>1, <1>2, <1>3 DEF Next

\* Sessions are opened and used after the verification.
LEMMA StepVerified ==
    ASSUME TypeOK, TypeOK', VerifiedInv, [Next]_vars
    PROVE  VerifiedInv'
<1> USE LoginConstants DEF user, stores, grants, codes, locals, answers
<1>1. CASE UNCHANGED vars
  BY <1>1 DEF vars, VerifiedInv, Pending, TypeOK
<1>2. CASE MailCode \/ CodeGone \/ DeleteUser
  <2>1. CASE MailCode
    BY <2>1 DEF MailCode, VerifiedInv, Pending, TypeOK
  <2>2. CASE CodeGone
    BY <2>2 DEF CodeGone, VerifiedInv, Pending, TypeOK
  <2>3. CASE DeleteUser
    BY <2>3 DEF DeleteUser, VerifiedInv, Pending, TypeOK
  <2> QED
    BY <1>2, <2>1, <2>2, <2>3
<1>3. ASSUME NEW r \in Requests, Request(r)
    PROVE  VerifiedInv'
  <2>1. CASE ReadCode(r)
    BY <2>1 DEF ReadCode, At, Step, VerifiedInv, Pending, TypeOK
  <2>2. CASE DeleteCode(r)
    BY <2>2 DEF DeleteCode, At, Step, VerifiedInv, Pending, TypeOK
  <2>3. CASE GuessWrong(r)
    BY <2>3 DEF GuessWrong, At, Step, VerifiedInv, Pending, TypeOK
  <2>4. CASE CountGuess(r)
    BY <2>4 DEF CountGuess, At, Ends, VerifiedInv, Pending, TypeOK
  <2>5. CASE MarkVerified(r)
    BY <2>5 DEF MarkVerified, At, Step, Ends, VerifiedInv, Pending, TypeOK
  <2>6. CASE OpenSession(r)
    BY <2>6 DEF OpenSession, At, Ends, VerifiedInv, Pending, TypeOK
  <2>7. CASE ReadSession(r)
    BY <2>7 DEF ReadSession, At, Step, Sends, VerifiedInv, Pending, TypeOK
  <2>8. CASE FindUser(r)
    BY <2>8 DEF FindUser, At, Step, Sends, VerifiedInv, Pending, TypeOK
  <2>9. CASE GiveTicket(r)
    BY <2>9 DEF GiveTicket, At, Ends, VerifiedInv, Pending, TypeOK
  <2>10. CASE StorePassword(r)
    BY <2>10 DEF StorePassword, At, Step, VerifiedInv, Pending, TypeOK
  <2>11. CASE WriteUser(r)
    BY <2>11 DEF WriteUser, At, Step, Ends, Stored, VerifiedInv, Pending, TypeOK
  <2>12. CASE CloseSession(r)
    BY <2>12 DEF CloseSession, At, Ends, VerifiedInv, Pending, TypeOK
  <2>13. CASE Dies(r)
    BY <2>13 DEF Dies, At, Ends, VerifiedInv, Pending, TypeOK
  <2> QED
    BY <1>3, <2>1, <2>2, <2>3, <2>4, <2>5, <2>6, <2>7, <2>8, <2>9, <2>10, <2>11, <2>12, <2>13
       DEF Request
<1> QED
  BY <1>1, <1>2, <1>3 DEF Next

\* What is in hand or known was sent.
LEMMA StepMade ==
    ASSUME TypeOK, TypeOK', MadeInv, [Next]_vars
    PROVE  MadeInv'
<1> USE LoginConstants DEF user, stores, grants, codes, locals, answers
<1>1. CASE UNCHANGED vars
  BY <1>1 DEF vars, MadeInv, Pending, TypeOK, None, Passwords
<1>2. CASE MailCode \/ CodeGone \/ DeleteUser
  <2>1. CASE MailCode
    BY <2>1 DEF MailCode, MadeInv, Pending, TypeOK, None, Passwords
  <2>2. CASE CodeGone
    BY <2>2 DEF CodeGone, MadeInv, Pending, TypeOK, None, Passwords
  <2>3. CASE DeleteUser
    BY <2>3 DEF DeleteUser, MadeInv, Pending, TypeOK, None, Passwords
  <2> QED
    BY <1>2, <2>1, <2>2, <2>3
<1>3. ASSUME NEW r \in Requests, Request(r)
    PROVE  MadeInv'
  <2>1. CASE ReadCode(r)
    BY <2>1 DEF ReadCode, At, Step, MadeInv, Pending, TypeOK, None, Passwords
  <2>2. CASE DeleteCode(r)
    BY <2>2 DEF DeleteCode, At, Step, MadeInv, Pending, TypeOK, None, Passwords
  <2>3. CASE GuessWrong(r)
    BY <2>3 DEF GuessWrong, At, Step, MadeInv, Pending, TypeOK, None, Passwords
  <2>4. CASE CountGuess(r)
    BY <2>4 DEF CountGuess, At, Ends, MadeInv, Pending, TypeOK, None, Passwords
  <2>5. CASE MarkVerified(r)
    BY <2>5 DEF MarkVerified, At, Step, Ends, MadeInv, Pending, TypeOK, None, Passwords
  <2>6. CASE OpenSession(r)
    BY <2>6 DEF OpenSession, At, Ends, MadeInv, Pending, TypeOK, None, Passwords
  <2>7. CASE ReadSession(r)
    BY <2>7 DEF ReadSession, At, Step, Sends, MadeInv, Pending, TypeOK, None, Passwords
  <2>8. CASE FindUser(r)
    BY <2>8 DEF FindUser, At, Step, Sends, MadeInv, Pending, TypeOK, None, Passwords
  <2>9. CASE GiveTicket(r)
    BY <2>9 DEF GiveTicket, At, Ends, MadeInv, Pending, TypeOK, None, Passwords
  <2>10. CASE StorePassword(r)
    BY <2>10 DEF StorePassword, At, Step, MadeInv, Pending, TypeOK, None, Passwords
  <2>11. CASE WriteUser(r)
    BY <2>11 DEF WriteUser, At, Step, Ends, Stored, MadeInv, Pending, TypeOK, None, Passwords
  <2>12. CASE CloseSession(r)
    BY <2>12 DEF CloseSession, At, Ends, MadeInv, Pending, TypeOK, None, Passwords
  <2>13. CASE Dies(r)
    BY <2>13 DEF Dies, At, Ends, MadeInv, Pending, TypeOK, None, Passwords
  <2> QED
    BY <1>3, <2>1, <2>2, <2>3, <2>4, <2>5, <2>6, <2>7, <2>8, <2>9, <2>10, <2>11, <2>12, <2>13
       DEF Request
<1> QED
  BY <1>1, <1>2, <1>3 DEF Next

\* A pending password stays unknown to everybody else.
LEMMA StepPending ==
    ASSUME TypeOK, TypeOK', MadeInv, PendingInv, [Next]_vars
    PROVE  PendingInv'
<1> USE LoginConstants DEF user, stores, grants, codes, locals, answers
<1>1. CASE UNCHANGED vars
  BY <1>1 DEF vars, MadeInv, PendingInv, Pending, TypeOK, None, Passwords
<1>2. CASE MailCode \/ CodeGone \/ DeleteUser
  <2>1. CASE MailCode
    BY <2>1 DEF MailCode, MadeInv, PendingInv, Pending, TypeOK, None, Passwords
  <2>2. CASE CodeGone
    BY <2>2 DEF CodeGone, MadeInv, PendingInv, Pending, TypeOK, None, Passwords
  <2>3. CASE DeleteUser
    BY <2>3 DEF DeleteUser, MadeInv, PendingInv, Pending, TypeOK, None, Passwords
  <2> QED
    BY <1>2, <2>1, <2>2, <2>3
<1>3. ASSUME NEW r \in Requests, Request(r)
    PROVE  PendingInv'
  <2>1. CASE ReadCode(r)
    BY <2>1 DEF ReadCode, At, Step, MadeInv, PendingInv, Pending, TypeOK, None, Passwords
  <2>2. CASE DeleteCode(r)
    BY <2>2 DEF DeleteCode, At, Step, MadeInv, PendingInv, Pending, TypeOK, None, Passwords
  <2>3. CASE GuessWrong(r)
    BY <2>3 DEF GuessWrong, At, Step, MadeInv, PendingInv, Pending, TypeOK, None, Passwords
  <2>4. CASE CountGuess(r)
    BY <2>4 DEF CountGuess, At, Ends, MadeInv, PendingInv, Pending, TypeOK, None, Passwords
  <2>5. CASE MarkVerified(r)
    BY <2>5 DEF MarkVerified, At, Step, Ends, MadeInv, PendingInv, Pending, TypeOK, None, Passwords
  <2>6. CASE OpenSession(r)
    BY <2>6 DEF OpenSession, At, Ends, MadeInv, PendingInv, Pending, TypeOK, None, Passwords
  <2>7. CASE ReadSession(r)
    BY <2>7 DEF ReadSession, At, Step, Sends, MadeInv, PendingInv, Pending, TypeOK, None, Passwords
  <2>8. CASE FindUser(r)
    BY <2>8 DEF FindUser, At, Step, Sends, MadeInv, PendingInv, Pending, TypeOK, None, Passwords
  <2>9. CASE GiveTicket(r)
    BY <2>9 DEF GiveTicket, At, Ends, MadeInv, PendingInv, Pending, TypeOK, None, Passwords
  <2>10. CASE StorePassword(r)
    BY <2>10 DEF StorePassword, At, Step, MadeInv, PendingInv, Pending, TypeOK, None, Passwords
  <2>11. CASE WriteUser(r)
    BY <2>11 DEF WriteUser, At, Step, Ends, Stored, MadeInv, PendingInv, Pending, TypeOK, None, Passwords
  <2>12. CASE CloseSession(r)
    BY <2>12 DEF CloseSession, At, Ends, MadeInv, PendingInv, Pending, TypeOK, None, Passwords
  <2>13. CASE Dies(r)
    BY <2>13 DEF Dies, At, Ends, MadeInv, PendingInv, Pending, TypeOK, None, Passwords
  <2> QED
    BY <1>3, <2>1, <2>2, <2>3, <2>4, <2>5, <2>6, <2>7, <2>8, <2>9, <2>10, <2>11, <2>12, <2>13
       DEF Request
<1> QED
  BY <1>1, <1>2, <1>3 DEF Next

\* What was replaced stays replaced.
LEMMA StepEffect ==
    ASSUME TypeOK, TypeOK', GoneInv, MadeInv, PendingInv, EffectInv, [Next]_vars
    PROVE  EffectInv'
<1> USE LoginConstants DEF user, stores, grants, codes, locals, answers
<1>1. CASE UNCHANGED vars
  BY <1>1 DEF vars, MadeInv, PendingInv, EffectInv, Pending, Wrote, Overwritten, TypeOK, None, Passwords
<1>2. CASE MailCode \/ CodeGone \/ DeleteUser
  <2>1. CASE MailCode
    BY <2>1 DEF MailCode, MadeInv, PendingInv, EffectInv, Pending, Wrote, Overwritten, TypeOK, None, Passwords
  <2>2. CASE CodeGone
    BY <2>2 DEF CodeGone, MadeInv, PendingInv, EffectInv, Pending, Wrote, Overwritten, TypeOK, None, Passwords
  <2>3. CASE DeleteUser
    BY <2>3 DEF DeleteUser, MadeInv, PendingInv, EffectInv, Pending, Wrote, Overwritten, TypeOK, None, Passwords
  <2> QED
    BY <1>2, <2>1, <2>2, <2>3
<1>3. ASSUME NEW r \in Requests, Request(r)
    PROVE  EffectInv'
  <2>1. CASE ReadCode(r)
    BY <2>1 DEF ReadCode, At, Step, MadeInv, PendingInv, EffectInv, Pending, Wrote, Overwritten, TypeOK, None, Passwords
  <2>2. CASE DeleteCode(r)
    BY <2>2 DEF DeleteCode, At, Step, MadeInv, PendingInv, EffectInv, Pending, Wrote, Overwritten, TypeOK, None, Passwords
  <2>3. CASE GuessWrong(r)
    BY <2>3 DEF GuessWrong, At, Step, MadeInv, PendingInv, EffectInv, Pending, Wrote, Overwritten, TypeOK, None, Passwords
  <2>4. CASE CountGuess(r)
    BY <2>4 DEF CountGuess, At, Ends, MadeInv, PendingInv, EffectInv, Pending, Wrote, Overwritten, TypeOK, None, Passwords
  <2>5. CASE MarkVerified(r)
    BY <2>5 DEF MarkVerified, At, Step, Ends, MadeInv, PendingInv, EffectInv, Pending, Wrote, Overwritten, TypeOK, None, Passwords
  <2>6. CASE OpenSession(r)
    BY <2>6 DEF OpenSession, At, Ends, MadeInv, PendingInv, EffectInv, Pending, Wrote, Overwritten, TypeOK, None, Passwords
  <2>7. CASE ReadSession(r)
    BY <2>7 DEF ReadSession, At, Step, Sends, MadeInv, PendingInv, EffectInv, Pending, Wrote, Overwritten, TypeOK, None, Passwords
  <2>8. CASE FindUser(r)
    BY <2>8 DEF FindUser, At, Step, Sends, MadeInv, PendingInv, EffectInv, Pending, Wrote, Overwritten, TypeOK, None, Passwords
  <2>9. CASE GiveTicket(r)
    BY <2>9 DEF GiveTicket, At, Ends, MadeInv, PendingInv, EffectInv, Pending, Wrote, Overwritten, TypeOK, None, Passwords
  <2>10. CASE StorePassword(r)
    BY <2>10 DEF StorePassword, At, Step, MadeInv, PendingInv, EffectInv, Pending, Wrote, Overwritten, TypeOK, None, Passwords
  <2>11. CASE WriteUser(r)
    <3>1. pc[r] = "write" /\ UNCHANGED useVault
      BY <2>11 DEF WriteUser, Step, At
    <3>2. \/ tohash[r] /\ hash' = hand[r]
          \/ UNCHANGED <<hash, newest>>
      BY <2>11 DEF WriteUser, Stored
    <3>3. ~tohash[r] => UNCHANGED <<hash, newest>>
      BY <2>11 DEF WriteUser, Stored
    <3>4. \A p \in dead : Overwritten(p)'
      BY <3>1, <3>2 DEF EffectInv, Overwritten, PendingInv, Pending
    <3>5. ASSUME NEW q \in Requests \ {r}, Wrote(q), NEW p \in old[q]
          PROVE  Overwritten(p)'
      BY <3>1, <3>2, <3>5 DEF EffectInv, Overwritten, PendingInv, Pending
    <3>6. \/ exists /\ tohash[r] /\ hash' = hand[r]
          \/ ~exists /\ UNCHANGED <<hash, newest>>
          \/ ~tohash[r] /\ UNCHANGED <<hash, newest>>
      BY <2>11 DEF WriteUser, Stored
    <3>7. \A p \in old[r] : Overwritten(p)'
      BY <3>1, <3>6 DEF EffectInv, Overwritten, PendingInv, Pending, Wrote,
         GoneInv, TypeOK, None, Passwords
    <3>8. CASE kind[r] = "setup"
      <4>1. pc' = [pc EXCEPT ![r] = "close"] /\ UNCHANGED <<tohash, old, dead>>
        BY <2>11, <3>8 DEF WriteUser, Step
      <4> QED
        BY <3>4, <3>5, <3>7, <4>1 DEF EffectInv, Wrote, TypeOK
    <3>9. CASE kind[r] # "setup"
      <4>1. Ends(r) /\ dead' = dead \union old[r]
        BY <2>11, <3>9 DEF WriteUser
      <4>2. /\ pc'[r] = "idle"
            /\ \A q \in Requests \ {r} :
                  pc'[q] = pc[q] /\ old'[q] = old[q] /\ tohash'[q] = tohash[q]
        BY <4>1, EndsType
      <4> QED
        BY <3>4, <3>5, <3>7, <4>1, <4>2 DEF EffectInv, Wrote
    <3> QED
      BY <3>8, <3>9
  <2>12. CASE CloseSession(r)
    BY <2>12 DEF CloseSession, At, Ends, MadeInv, PendingInv, EffectInv, Pending, Wrote, Overwritten, TypeOK, None, Passwords
  <2>13. CASE Dies(r)
    BY <2>13 DEF Dies, At, Ends, MadeInv, PendingInv, EffectInv, Pending, Wrote, Overwritten, TypeOK, None, Passwords
  <2> QED
    BY <1>3, <2>1, <2>2, <2>3, <2>4, <2>5, <2>6, <2>7, <2>8, <2>9, <2>10, <2>11, <2>12, <2>13
       DEF Request
<1> QED
  BY <1>1, <1>2, <1>3 DEF Next

\* A grant takes one verification, and a verification takes one code.
LEMMA GrantSteps ==
    ASSUME TypeOK, [Next]_vars
    PROVE  \/ /\ Verifying' \subseteq Verifying /\ accepted' = accepted
              /\ opened' = opened /\ resets' = resets
           \/ \E q \in Requests :
                 /\ Verifying' \subseteq Verifying \union {q} /\ accepted' = accepted + 1
                 /\ opened' = opened /\ resets' = resets
           \/ \E q \in Verifying :
                 /\ Verifying' \subseteq Verifying \ {q} /\ accepted' = accepted
                 /\ \/ opened' = opened + 1 /\ resets' = resets
                    \/ opened' = opened /\ resets' = resets + 1
<1> USE LoginConstants DEF user, stores, grants, codes, locals, answers
<1>1. CASE UNCHANGED vars
  BY <1>1 DEF vars, Verifying, TypeOK
<1>2. CASE MailCode \/ CodeGone \/ DeleteUser
  <2>1. CASE MailCode
    BY <2>1 DEF MailCode, Verifying, TypeOK
  <2>2. CASE CodeGone
    BY <2>2 DEF CodeGone, Verifying, TypeOK
  <2>3. CASE DeleteUser
    BY <2>3 DEF DeleteUser, Verifying, TypeOK
  <2> QED
    BY <1>2, <2>1, <2>2, <2>3
<1>3. ASSUME NEW r \in Requests, Request(r)
    PROVE  \/ /\ Verifying' \subseteq Verifying /\ accepted' = accepted
              /\ opened' = opened /\ resets' = resets
           \/ \E q \in Requests :
                 /\ Verifying' \subseteq Verifying \union {q} /\ accepted' = accepted + 1
                 /\ opened' = opened /\ resets' = resets
           \/ \E q \in Verifying :
                 /\ Verifying' \subseteq Verifying \ {q} /\ accepted' = accepted
                 /\ \/ opened' = opened + 1 /\ resets' = resets
                    \/ opened' = opened /\ resets' = resets + 1
  <2>1. CASE ReadCode(r)
    BY <2>1 DEF ReadCode, At, Step, Verifying, TypeOK
  <2>2. CASE DeleteCode(r)
    BY <2>2 DEF DeleteCode, At, Step, Verifying, TypeOK
  <2>3. CASE GuessWrong(r)
    BY <2>3 DEF GuessWrong, At, Step, Verifying, TypeOK
  <2>4. CASE CountGuess(r)
    BY <2>4 DEF CountGuess, At, Ends, Verifying, TypeOK
  <2>5. CASE MarkVerified(r)
    BY <2>5 DEF MarkVerified, At, Step, Ends, Verifying, TypeOK
  <2>6. CASE OpenSession(r)
    BY <2>6 DEF OpenSession, At, Ends, Verifying, TypeOK
  <2>7. CASE ReadSession(r)
    BY <2>7 DEF ReadSession, At, Step, Sends, Verifying, TypeOK
  <2>8. CASE FindUser(r)
    BY <2>8 DEF FindUser, At, Step, Sends, Verifying, TypeOK
  <2>9. CASE GiveTicket(r)
    BY <2>9 DEF GiveTicket, At, Ends, Verifying, TypeOK
  <2>10. CASE StorePassword(r)
    BY <2>10 DEF StorePassword, At, Step, Verifying, TypeOK
  <2>11. CASE WriteUser(r)
    BY <2>11 DEF WriteUser, At, Step, Ends, Stored, Verifying, TypeOK
  <2>12. CASE CloseSession(r)
    BY <2>12 DEF CloseSession, At, Ends, Verifying, TypeOK
  <2>13. CASE Dies(r)
    BY <2>13 DEF Dies, At, Ends, Verifying, TypeOK
  <2> QED
    BY <1>3, <2>1, <2>2, <2>3, <2>4, <2>5, <2>6, <2>7, <2>8, <2>9, <2>10, <2>11, <2>12, <2>13
       DEF Request
<1> QED
  BY <1>1, <1>2, <1>3 DEF Next

\* A code is accepted once for each request that read it.
LEMMA DeletingSteps ==
    ASSUME TypeOK, [Next]_vars
    PROVE  \/ Deleting' \subseteq Deleting /\ accepted' = accepted
           \/ /\ accepted < MaxAccepted /\ accepted' = accepted
              /\ code # None /\ UNCHANGED <<code, mailed, returned>>
           \/ \E q \in Deleting :
                 /\ Deleting' \subseteq Deleting \ {q} /\ accepted' = accepted + 1
                 /\ code' = None /\ UNCHANGED <<mailed, returned>>
<1> USE LoginConstants DEF user, stores, grants, codes, locals, answers
<1>1. CASE UNCHANGED vars
  BY <1>1 DEF vars, Deleting, TypeOK
<1>2. CASE MailCode \/ CodeGone \/ DeleteUser
  <2>1. CASE MailCode
    BY <2>1 DEF MailCode, Deleting, TypeOK
  <2>2. CASE CodeGone
    BY <2>2 DEF CodeGone, Deleting, TypeOK
  <2>3. CASE DeleteUser
    BY <2>3 DEF DeleteUser, Deleting, TypeOK
  <2> QED
    BY <1>2, <2>1, <2>2, <2>3
<1>3. ASSUME NEW r \in Requests, Request(r)
    PROVE  \/ Deleting' \subseteq Deleting /\ accepted' = accepted
           \/ /\ accepted < MaxAccepted /\ accepted' = accepted
              /\ code # None /\ UNCHANGED <<code, mailed, returned>>
           \/ \E q \in Deleting :
                 /\ Deleting' \subseteq Deleting \ {q} /\ accepted' = accepted + 1
                 /\ code' = None /\ UNCHANGED <<mailed, returned>>
  <2>1. CASE ReadCode(r)
    BY <2>1 DEF ReadCode, At, Step, Deleting, TypeOK
  <2>2. CASE DeleteCode(r)
    BY <2>2 DEF DeleteCode, At, Step, Deleting, TypeOK
  <2>3. CASE GuessWrong(r)
    BY <2>3 DEF GuessWrong, At, Step, Deleting, TypeOK
  <2>4. CASE CountGuess(r)
    BY <2>4 DEF CountGuess, At, Ends, Deleting, TypeOK
  <2>5. CASE MarkVerified(r)
    BY <2>5 DEF MarkVerified, At, Step, Ends, Deleting, TypeOK
  <2>6. CASE OpenSession(r)
    BY <2>6 DEF OpenSession, At, Ends, Deleting, TypeOK
  <2>7. CASE ReadSession(r)
    BY <2>7 DEF ReadSession, At, Step, Sends, Deleting, TypeOK
  <2>8. CASE FindUser(r)
    BY <2>8 DEF FindUser, At, Step, Sends, Deleting, TypeOK
  <2>9. CASE GiveTicket(r)
    BY <2>9 DEF GiveTicket, At, Ends, Deleting, TypeOK
  <2>10. CASE StorePassword(r)
    BY <2>10 DEF StorePassword, At, Step, Deleting, TypeOK
  <2>11. CASE WriteUser(r)
    BY <2>11 DEF WriteUser, At, Step, Ends, Stored, Deleting, TypeOK
  <2>12. CASE CloseSession(r)
    BY <2>12 DEF CloseSession, At, Ends, Deleting, TypeOK
  <2>13. CASE Dies(r)
    BY <2>13 DEF Dies, At, Ends, Deleting, TypeOK
  <2> QED
    BY <1>3, <2>1, <2>2, <2>3, <2>4, <2>5, <2>6, <2>7, <2>8, <2>9, <2>10, <2>11, <2>12, <2>13
       DEF Request
<1> QED
  BY <1>1, <1>2, <1>3 DEF Next

\* A session is taken up while it is there and given up with its answer.
LEMMA UsingSteps ==
    ASSUME TypeOK, NEW s \in Sessions, [Next]_vars
    PROVE  \/ Using(s)' \subseteq Using(s) /\ uses'[s] = uses[s]
           \/ s \in sessions /\ uses'[s] = uses[s]
           \/ \E q \in Using(s) :
                 Using(s)' \subseteq Using(s) \ {q} /\ uses'[s] = uses[s] + 1
<1> USE LoginConstants DEF user, stores, grants, codes, locals, answers
<1>1. CASE UNCHANGED vars
  BY <1>1 DEF vars, Using, TypeOK, Sessions, None
<1>2. CASE MailCode \/ CodeGone \/ DeleteUser
  <2>1. CASE MailCode
    BY <2>1 DEF MailCode, Using, TypeOK, Sessions, None
  <2>2. CASE CodeGone
    BY <2>2 DEF CodeGone, Using, TypeOK, Sessions, None
  <2>3. CASE DeleteUser
    BY <2>3 DEF DeleteUser, Using, TypeOK, Sessions, None
  <2> QED
    BY <1>2, <2>1, <2>2, <2>3
<1>3. ASSUME NEW r \in Requests, Request(r)
    PROVE  \/ Using(s)' \subseteq Using(s) /\ uses'[s] = uses[s]
           \/ s \in sessions /\ uses'[s] = uses[s]
           \/ \E q \in Using(s) :
                 Using(s)' \subseteq Using(s) \ {q} /\ uses'[s] = uses[s] + 1
  <2>1. CASE ReadCode(r)
    BY <2>1 DEF ReadCode, At, Step, Using, TypeOK, Sessions, None
  <2>2. CASE DeleteCode(r)
    BY <2>2 DEF DeleteCode, At, Step, Using, TypeOK, Sessions, None
  <2>3. CASE GuessWrong(r)
    BY <2>3 DEF GuessWrong, At, Step, Using, TypeOK, Sessions, None
  <2>4. CASE CountGuess(r)
    BY <2>4 DEF CountGuess, At, Ends, Using, TypeOK, Sessions, None
  <2>5. CASE MarkVerified(r)
    BY <2>5 DEF MarkVerified, At, Step, Ends, Using, TypeOK, Sessions, None
  <2>6. CASE OpenSession(r)
    BY <2>6 DEF OpenSession, At, Ends, Using, TypeOK, Sessions, None
  <2>7. CASE ReadSession(r)
    BY <2>7 DEF ReadSession, At, Step, Sends, Using, TypeOK, Sessions, None
  <2>8. CASE FindUser(r)
    BY <2>8 DEF FindUser, At, Step, Sends, Using, TypeOK, Sessions, None
  <2>9. CASE GiveTicket(r)
    BY <2>9 DEF GiveTicket, At, Ends, Using, TypeOK, Sessions, None
  <2>10. CASE StorePassword(r)
    BY <2>10 DEF StorePassword, At, Step, Using, TypeOK, Sessions, None
  <2>11. CASE WriteUser(r)
    BY <2>11 DEF WriteUser, At, Step, Ends, Stored, Using, TypeOK, Sessions, None
  <2>12. CASE CloseSession(r)
    <3>1. /\ session' = [session EXCEPT ![r] = None]
          /\ uses' = [uses EXCEPT ![session[r]] = @ + 1]
      BY <2>12 DEF CloseSession, Ends
    <3>2. CASE session[r] = s
      <4>1. r \in Using(s) /\ uses'[s] = uses[s] + 1
        BY <3>1, <3>2 DEF Using, TypeOK
      <4>2. Using(s)' \subseteq Using(s) \ {r}
        BY <3>1, <3>2 DEF Using, TypeOK, Sessions, None
      <4> QED
        BY <4>1, <4>2
    <3>3. CASE session[r] # s
      <4>1. uses'[s] = uses[s]
        BY <3>1, <3>3 DEF TypeOK
      <4>2. Using(s)' \subseteq Using(s)
        BY <3>1, <3>3 DEF Using, TypeOK, Sessions, None
      <4> QED
        BY <4>1, <4>2
    <3> QED
      BY <3>2, <3>3
  <2>13. CASE Dies(r)
    BY <2>13 DEF Dies, At, Ends, Using, TypeOK, Sessions, None
  <2> QED
    BY <1>3, <2>1, <2>2, <2>3, <2>4, <2>5, <2>6, <2>7, <2>8, <2>9, <2>10, <2>11, <2>12, <2>13
       DEF Request
<1> QED
  BY <1>1, <1>2, <1>3 DEF Next

IInv == TypeOK /\ LoginInv

\* A code comes to be pending when it is mailed or put back, one at a time.
LEMMA PendingSteps ==
    ASSUME TypeOK, [Next]_vars
    PROVE  \/ code' \in {code, None} /\ UNCHANGED <<mailed, returned>>
           \/ mailed' + returned' = mailed + returned + 1
<1> USE DEF codes, TypeOK
<1>1. CASE MailCode \/ CodeGone \/ DeleteUser
  BY <1>1 DEF MailCode, CodeGone, DeleteUser
<1>2. ASSUME NEW r \in Requests, CountGuess(r) \/ DeleteCode(r)
      PROVE  \/ code' \in {code, None} /\ UNCHANGED <<mailed, returned>>
             \/ mailed' + returned' = mailed + returned + 1
  BY <1>2 DEF CountGuess, DeleteCode
<1>3. CASE UNCHANGED codes
  BY <1>3
<1> QED
  BY <1>1, <1>2, <1>3
     DEF Next, Request, ReadCode, GuessWrong, MarkVerified, OpenSession, ReadSession,
         FindUser, GiveTicket, StorePassword, WriteUser, CloseSession, Dies, vars

\* The credit of the codes is never overdrawn: a verification that is accepted
\* takes the pending code away, so that those that have read it by then are the
\* last it is good for.
LEMMA StepPaid ==
    ASSUME TypeOK, TypeOK', PaidInv, [Next]_vars
    PROVE  PaidInv'
<1> DEFINE n == Cardinality(Requests)
<1>1. /\ n \in Nat /\ accepted \in Nat /\ accepted' \in Nat
      /\ mailed \in Nat /\ mailed' \in Nat /\ returned \in Nat /\ returned' \in Nat
  BY BoundsType, LoginConstants DEF TypeOK
<1>2. /\ Deleting \subseteq Requests /\ Deleting' \subseteq Requests
      /\ Cardinality(Deleting) \in Nat /\ Cardinality(Deleting') \in Nat
      /\ Cardinality(Deleting') <= n
  BY Counting DEF Deleting
<1>3. /\ Credit \in Nat
      /\ UNCHANGED <<mailed, returned>> => Credit' = Credit
      /\ mailed' + returned' = mailed + returned + 1 => Credit' = Credit + n
  <2>1. \A a, b \in Nat : a * b \in Nat /\ a * (b + 1) = a * b + a
    OBVIOUS
  <2>2. mailed + returned \in Nat
    BY <1>1
  <2>3. n * (mailed + returned) \in Nat
        /\ n * ((mailed + returned) + 1) = n * (mailed + returned) + n
    BY <1>1, <2>1, <2>2
  <2> QED
    BY <2>3 DEF Credit
<1>4. accepted + Cardinality(Deleting) <= Credit /\ (code # None => accepted + n <= Credit)
  BY DEF PaidInv
<1> SUFFICES /\ accepted' + Cardinality(Deleting') <= Credit'
             /\ code' # None => accepted' + n <= Credit'
  BY DEF PaidInv
<1> HIDE DEF n
<1>5. CASE Deleting' \subseteq Deleting /\ accepted' = accepted
  <2>1. Cardinality(Deleting') <= Cardinality(Deleting)
    BY <1>2, <1>5, Counting
  <2>2. CASE code' \in {code, None} /\ UNCHANGED <<mailed, returned>>
    <3>1. Credit' = Credit
      BY <1>3, <2>2
    <3> QED
      BY <1>1, <1>2, <1>3, <1>4, <1>5, <2>1, <2>2, <3>1
  <2>3. CASE mailed' + returned' = mailed + returned + 1
    <3>1. Credit' = Credit + n
      BY <1>3, <2>3
    <3> QED
      BY <1>1, <1>2, <1>3, <1>4, <1>5, <2>1, <3>1
  <2> QED
    BY <2>2, <2>3, PendingSteps
<1>6. CASE /\ accepted' = accepted
           /\ code # None /\ UNCHANGED <<code, mailed, returned>>
  <2>1. Credit' = Credit
    BY <1>3, <1>6
  <2> QED
    BY <1>1, <1>2, <1>3, <1>4, <1>6, <2>1
<1>7. ASSUME NEW q \in Deleting, Deleting' \subseteq Deleting \ {q},
             accepted' = accepted + 1, code' = None, UNCHANGED <<mailed, returned>>
      PROVE  /\ accepted' + Cardinality(Deleting') <= Credit'
             /\ code' # None => accepted' + n <= Credit'
  <2>1. Cardinality(Deleting') <= Cardinality(Deleting) - 1
    BY <1>2, <1>7, Removing
  <2>2. Credit' = Credit
    BY <1>3, <1>7
  <2> QED
    BY <1>1, <1>2, <1>3, <1>4, <1>7, <2>1, <2>2
<1> QED
  BY <1>5, <1>6, <1>7, DeletingSteps

LEMMA StepCodes ==
    ASSUME TypeOK, TypeOK', CodesInv, [Next]_vars
    PROVE  CodesInv'
<1>1. /\ Verifying \subseteq Requests /\ Verifying' \subseteq Requests
      /\ Deleting \subseteq Requests /\ Deleting' \subseteq Requests
  BY DEF Verifying, Deleting
<1>2. /\ opened \in Nat /\ resets \in Nat /\ accepted \in Nat
      /\ opened' \in Nat /\ resets' \in Nat /\ accepted' \in Nat
  BY BoundsType DEF TypeOK
<1>3. /\ Cardinality(Verifying) \in Nat /\ Cardinality(Verifying') \in Nat
      /\ Cardinality(Deleting) \in Nat /\ Cardinality(Deleting') \in Nat
  BY <1>1, Counting
<1>4. /\ opened + resets + Cardinality(Verifying) <= accepted
      /\ accepted + Cardinality(Deleting) <= MaxSessions
  BY DEF CodesInv
<1>5. opened' + resets' + Cardinality(Verifying') <= accepted'
  <2>1. CASE /\ Verifying' \subseteq Verifying /\ accepted' = accepted
             /\ opened' = opened /\ resets' = resets
    <3>1. Cardinality(Verifying') <= Cardinality(Verifying)
      BY <1>1, <2>1, Counting
    <3> QED
      BY <1>2, <1>3, <1>4, <2>1, <3>1
  <2>2. ASSUME NEW r \in Requests, Verifying' \subseteq Verifying \union {r},
               accepted' = accepted + 1, opened' = opened, resets' = resets
        PROVE  opened' + resets' + Cardinality(Verifying') <= accepted'
    <3>1. Cardinality(Verifying') <= Cardinality(Verifying) + 1
      BY <1>1, <2>2, Adding
    <3> QED
      BY <1>2, <1>3, <1>4, <2>2, <3>1
  <2>3. ASSUME NEW r \in Verifying, Verifying' \subseteq Verifying \ {r},
               accepted' = accepted,
               \/ opened' = opened + 1 /\ resets' = resets
               \/ opened' = opened /\ resets' = resets + 1
        PROVE  opened' + resets' + Cardinality(Verifying') <= accepted'
    <3>1. Cardinality(Verifying') <= Cardinality(Verifying) - 1
      BY <1>1, <2>3, Removing
    <3> QED
      BY <1>2, <1>3, <1>4, <2>3, <3>1
  <2> QED
    BY <2>1, <2>2, <2>3, GrantSteps
<1>6. accepted' + Cardinality(Deleting') <= MaxSessions
  <2>1. CASE Deleting' \subseteq Deleting /\ accepted' = accepted
    <3>1. Cardinality(Deleting') <= Cardinality(Deleting)
      BY <1>1, <2>1, Counting
    <3> QED
      BY <1>2, <1>3, <1>4, <2>1, <3>1, BoundsType
  <2>2. CASE accepted < MaxAccepted /\ accepted' = accepted
    <3>1. Cardinality(Deleting') <= Cardinality(Requests)
      BY <1>1, Counting
    <3> QED
      BY <1>2, <1>3, <2>2, <3>1, BoundsType, LoginConstants DEF MaxSessions
  <2>3. ASSUME NEW r \in Deleting, Deleting' \subseteq Deleting \ {r},
               accepted' = accepted + 1
        PROVE  accepted' + Cardinality(Deleting') <= MaxSessions
    <3>1. Cardinality(Deleting') <= Cardinality(Deleting) - 1
      BY <1>1, <2>3, Removing
    <3> QED
      BY <1>2, <1>3, <1>4, <2>3, <3>1, BoundsType
  <2> QED
    BY <2>1, <2>2, <2>3, DeletingSteps
<1> QED
  BY <1>5, <1>6 DEF CodesInv

THEOREM Inductive == Spec => []IInv
<1>1. Init => IInv
  BY InitInv DEF IInv
<1>2. IInv /\ [Next]_vars => IInv'
  <2> SUFFICES ASSUME IInv, [Next]_vars PROVE IInv'
    OBVIOUS
  <2>1. /\ TypeOK /\ GoneInv /\ CodesInv /\ PaidInv /\ SessionsInv /\ VerifiedInv
        /\ MadeInv /\ PendingInv /\ EffectInv
    BY DEF IInv, LoginInv
  <2>2. TypeOK'
    BY <2>1, StepTypeOK
  <2>3. GoneInv' /\ CodesInv' /\ PaidInv' /\ SessionsInv' /\ VerifiedInv'
    BY <2>1, <2>2, StepGone, StepCodes, StepPaid, StepSessions, StepVerified
  <2>4. MadeInv' /\ PendingInv' /\ EffectInv'
    BY <2>1, <2>2, StepMade, StepPending, StepEffect
  <2> QED
    BY <2>2, <2>3, <2>4 DEF IInv, LoginInv
<1> QED
  BY <1>1, <1>2, PTL DEF Spec

\* The model of the OTP login keeps its types, for every number of requests,
\* codes and passwords; in particular no more sessions are opened than
\* verifications are accepted.
THEOREM TypeCorrect == Spec => []TypeOK
<1>1. IInv => TypeOK
  BY DEF IInv
<1> QED
  BY <1>1, Inductive, PTL

\* A code that was mailed or put back is exchanged for no more sessions and resets
\* than there are requests in flight, for every number of codes and requests.
THEOREM GrantsArePaidFor == Spec => []GrantsNeedCodes
<1>1. TypeOK /\ CodesInv /\ PaidInv => GrantsNeedCodes
  <2> SUFFICES ASSUME TypeOK, CodesInv, PaidInv PROVE GrantsNeedCodes
    OBVIOUS
  <2>1. /\ Cardinality(Verifying) \in Nat /\ Cardinality(Deleting) \in Nat
    BY Counting DEF Verifying, Deleting
  <2>2. opened \in Nat /\ resets \in Nat /\ accepted \in Nat
    BY BoundsType DEF TypeOK
  <2>3. Credit \in Nat
    <3>1. \A a, b \in Nat : a * b \in Nat
      OBVIOUS
    <3>2. mailed + returned \in Nat
      BY LoginConstants DEF TypeOK
    <3> QED
      BY <3>1, <3>2, BoundsType DEF Credit
  <2>4. /\ opened + resets + Cardinality(Verifying) <= accepted
        /\ accepted + Cardinality(Deleting) <= Credit
    BY DEF CodesInv, PaidInv
  <2>5. opened + resets <= Credit
    BY <2>1, <2>2, <2>3, <2>4
  <2> QED
    BY <2>5 DEF GrantsNeedCodes, Credit
<1> QED
  BY <1>1, Inductive, PTL DEF IInv, LoginInv

\* A session that set-initial-password has answered is in Redis no more.
THEOREM UsedSessionsStayUsed == Spec => []UsedSessionRefused
<1>1. IInv => UsedSessionRefused
  <2> SUFFICES ASSUME IInv, NEW s \in Sessions, uses[s] > 0 PROVE s \notin sessions
    BY DEF UsedSessionRefused
  <2>1. \A n \in sessions : uses[n] = 0
    BY DEF IInv, LoginInv, SessionsInv
  <2> QED
    BY <2>1
<1> QED
  BY <1>1, Inductive, PTL

\* Only a user whose email was verified is active.
THEOREM ActiveAreVerified == Spec => []ActiveIsVerified
<1>1. IInv => ActiveIsVerified
  BY DEF IInv, LoginInv, VerifiedInv, ActiveIsVerified
<1> QED
  BY <1>1, Inductive, PTL

\* What an answered change has replaced the login refuses, but for a hash that
\* a Vault outage left behind.
THEOREM ReplacedAreRefused == Spec => []ReplacedIsRefused
<1>1. IInv => ReplacedIsRefused
  BY DEF IInv, LoginInv, EffectInv, Overwritten, ReplacedIsRefused, Accepts
<1> QED
  BY <1>1, Inductive, PTL

\* One session sets no more passwords than there can be requests in flight.
THEOREM SessionUsesAreBounded == Spec => []SessionUsesBounded
<1>1. Init => SessionUsesBounded
  <2> SUFFICES ASSUME Init, NEW s \in Sessions
               PROVE  uses[s] + Cardinality(Using(s)) <= Cardinality(Requests)
    BY DEF SessionUsesBounded
  <2>1. Using(s) \subseteq Requests /\ uses[s] = 0
    BY DEF Init, Using
  <2> QED
    BY <2>1, Counting
<1>2. IInv /\ SessionUsesBounded /\ [Next]_vars => SessionUsesBounded'
  <2> SUFFICES ASSUME IInv, SessionUsesBounded, [Next]_vars, NEW s \in Sessions
               PROVE  uses'[s] + Cardinality(Using(s)') <= Cardinality(Requests)
    BY DEF SessionUsesBounded
  <2>1. TypeOK /\ SessionsInv /\ uses[s] \in Nat
    BY DEF IInv, LoginInv, TypeOK
  <2>2. uses[s] + Cardinality(Using(s)) <= Cardinality(Requests)
    BY DEF SessionUsesBounded
  <2>3. Using(s) \subseteq Requests /\ Using(s)' \subseteq Requests
    BY DEF Using
  <2>4. CASE Using(s)' \subseteq Using(s) /\ uses'[s] = uses[s]
    BY <2>1, <2>2, <2>3, <2>4, Counting
  <2>5. CASE s \in sessions /\ uses'[s] = uses[s]
    <3>1. uses[s] = 0
      BY <2>1, <2>5 DEF SessionsInv
    <3> QED
      BY <2>3, <2>5, <3>1, Counting
  <2>6. ASSUME NEW r \in Using(s), uses'[s] = uses[s] + 1,
               Using(s)' \subseteq Using(s) \ {r}
        PROVE  uses'[s] + Cardinality(Using(s)') <= Cardinality(Requests)
    <3>1. Cardinality(Using(s)') <= Cardinality(Using(s)) - 1
      BY <2>3, <2>6, Removing
    <3> QED
      BY <2>1, <2>2, <2>3, <2>6, <3>1, Counting
  <2> QED
    BY <2>1, <2>4, <2>5, <2>6, UsingSteps
<1> QED
  BY <1>1, <1>2, Inductive, PTL DEF Spec

-----------------------------------------------------------------------------
(***************************************************************************)
(* The endpoints use the code as the register that OTPService implements.  *)
(***************************************************************************)
\* What the register sees of one request.
LEMMA RegisterStep ==
    ASSUME TypeOK, NEW r \in Requests,
           \A q \in Requests \ {r} : pc'[q] = pc[q] /\ saw'[q] = saw[q]
    PROVE  /\ Right' = IF pc'[r] = "delete" THEN Right \union {r} ELSE Right \ {r}
           /\ Copies' = [Copies EXCEPT ![r] =
                            IF pc'[r] = "count" THEN {saw'[r]} \ {None} ELSE {}]
<1>1. Right' = IF pc'[r] = "delete" THEN Right \union {r} ELSE Right \ {r}
  BY DEF Right
<1>2. \A q \in Requests : Copies'[q] =
          IF q = r THEN IF pc'[r] = "count" THEN {saw'[r]} \ {None} ELSE {}
          ELSE Copies[q]
  BY DEF Copies
<1> QED
  BY <1>1, <1>2 DEF Copies

\* A request that verifies nothing is not seen.
LEMMA NotSeen ==
    ASSUME TypeOK, NEW r \in Requests,
           \A q \in Requests \ {r} : pc'[q] = pc[q] /\ saw'[q] = saw[q],
           pc[r] \notin {"delete", "count"}, pc'[r] \notin {"delete", "count"}
    PROVE  Right' = Right /\ Copies' = Copies
<1>1. r \notin Right /\ Copies[r] = {} /\ [Copies EXCEPT ![r] = {}] = Copies
  BY DEF Right, Copies
<1> QED
  BY <1>1, RegisterStep

\* Every step is a step of the register, or none of its business.
LEMMA StepRegister ==
    ASSUME TypeOK, [Next]_vars
    PROVE  [Register!Next]_(Register!rvars)
<1> USE DEF Register!rvars, codes
<1>1. CASE MailCode
  <2>1. Right' = Right /\ Copies' = Copies
    BY <1>1 DEF MailCode, locals, Right, Copies
  <2>2. mailed + 1 \in 1..MaxCodes /\ mailed + 1 \notin 1..mailed
        /\ 1..mailed' = 1..mailed \union {mailed + 1}
    BY <1>1, LoginConstants DEF MailCode, TypeOK
  <2>3. Held' = {mailed + 1}
    BY <1>1, LoginConstants DEF MailCode, TypeOK, Held, None
  <2>4. Register!Make(mailed + 1)
    BY <2>1, <2>2, <2>3 DEF Register!Make
  <2> QED
    BY <2>2, <2>4 DEF Register!Next
<1>2. CASE CodeGone
  <2>1. Right' = Right /\ Copies' = Copies /\ Held' = {} /\ mailed' = mailed
    BY <1>2 DEF CodeGone, locals, Right, Copies, Held
  <2> QED
    BY <2>1 DEF Register!Next, Register!Gone
<1>3. CASE DeleteUser \/ UNCHANGED vars
  BY <1>3 DEF DeleteUser, vars, locals, Right, Copies, Held
<1>4. ASSUME NEW r \in Requests, Request(r) PROVE [Register!Next]_(Register!rvars)
  <2>1. \A q \in Requests \ {r} : pc'[q] = pc[q] /\ saw'[q] = saw[q]
    BY <1>4 DEF TypeOK, Request, ReadCode, DeleteCode, GuessWrong, CountGuess,
       MarkVerified, OpenSession, ReadSession, FindUser, GiveTicket, StorePassword,
       WriteUser, CloseSession, Dies, Ends, Step, Sends, locals
  <2>2. CASE ReadCode(r)
    <3>1. /\ pc[r] = "idle" /\ pc'[r] = "delete" /\ code # None
          /\ UNCHANGED <<code, mailed>>
      BY <2>2 DEF ReadCode, Step, At, TypeOK
    <3>2. Right' = Right \union {r} /\ Copies' = [Copies EXCEPT ![r] = {}]
      BY <2>1, <3>1, RegisterStep
    <3>3. r \notin Right /\ Copies[r] = {} /\ [Copies EXCEPT ![r] = {}] = Copies
      BY <3>1 DEF Right, Copies
    <3>4. Held # {} /\ Held' = Held
      BY <3>1 DEF Held
    <3> QED
      BY <3>1, <3>2, <3>3, <3>4 DEF Register!Next, Register!ReadRight, Register!Free
  <2>3. CASE GuessWrong(r)
    <3>1. /\ pc[r] = "idle" /\ pc'[r] = "count" /\ code # None /\ saw'[r] = code
          /\ UNCHANGED <<code, mailed>>
      BY <2>3 DEF GuessWrong, Step, At, TypeOK
    <3>2. Held # {} /\ Held' = Held /\ Held = {saw'[r]} \ {None}
      BY <3>1 DEF Held
    <3>3. Right' = Right \ {r} /\ Copies' = [Copies EXCEPT ![r] = Held]
      BY <2>1, <3>1, <3>2, RegisterStep
    <3>4. r \notin Right /\ Copies[r] = {}
      BY <3>1 DEF Right, Copies
    <3> QED
      BY <3>1, <3>2, <3>3, <3>4 DEF Register!Next, Register!ReadWrong, Register!Free
  <2>4. CASE CountGuess(r)
    <3>1. /\ pc[r] = "count" /\ pc'[r] = "idle" /\ code' \in {saw[r], None}
          /\ mailed' = mailed
      BY <2>4 DEF CountGuess, Ends, At, TypeOK
    <3>2. Right' = Right \ {r} /\ Copies' = [Copies EXCEPT ![r] = {}]
      BY <2>1, <3>1, RegisterStep
    <3>3. r \notin Right /\ Copies[r] = {saw[r]} \ {None}
      BY <3>1 DEF Right, Copies
    <3>4. Held' \in {Copies[r], {}}
      BY <3>1, <3>3 DEF Held
    <3>5. CASE Copies[r] # {}
      BY <3>1, <3>2, <3>3, <3>4, <3>5 DEF Register!Next, Register!PutBack
    <3>6. CASE Copies[r] = {}
      <4>1. Copies' = Copies
        BY <3>2, <3>6 DEF Copies
      <4> QED
        BY <3>1, <3>2, <3>3, <3>4, <3>6, <4>1 DEF Register!Next, Register!Gone
    <3> QED
      BY <3>5, <3>6
  <2>5. CASE DeleteCode(r)
    <3>1. /\ pc[r] = "delete" /\ pc'[r] \in {"mark", "find"} /\ code' = None
          /\ mailed' = mailed
      BY <2>5 DEF DeleteCode, Step, At, TypeOK
    <3>2. Right' = Right \ {r} /\ Copies' = [Copies EXCEPT ![r] = {}]
      BY <2>1, <3>1, RegisterStep
    <3>3. r \in Right /\ [Copies EXCEPT ![r] = {}] = Copies /\ Held' = {}
      BY <3>1 DEF Right, Copies, Held
    <3> QED
      BY <3>1, <3>2, <3>3 DEF Register!Next, Register!Accept
  <2>6. CASE Dies(r)
    <3>1. pc'[r] = "idle" /\ UNCHANGED <<code, mailed>>
      BY <2>6 DEF Dies, Ends, TypeOK
    <3>2. Right' = Right \ {r} /\ Copies' = [Copies EXCEPT ![r] = {}]
      BY <2>1, <3>1, RegisterStep
    <3> QED
      BY <3>1, <3>2 DEF Register!Next, Register!GiveUp, Held
  <2>7. CASE MarkVerified(r) \/ OpenSession(r) \/ ReadSession(r) \/ FindUser(r)
             \/ GiveTicket(r) \/ StorePassword(r) \/ WriteUser(r) \/ CloseSession(r)
    <3>1. pc[r] \notin {"delete", "count"} /\ pc'[r] \notin {"delete", "count"}
      BY <2>7 DEF TypeOK, MarkVerified, OpenSession, ReadSession, FindUser, GiveTicket,
         StorePassword, WriteUser, CloseSession, Ends, Step, At
    <3>2. UNCHANGED <<code, mailed>>
      BY <2>7 DEF MarkVerified, OpenSession, ReadSession, FindUser, GiveTicket,
         StorePassword, WriteUser, CloseSession
    <3> QED
      BY <2>1, <3>1, <3>2, NotSeen DEF Held
  <2> QED
    BY <1>4, <2>2, <2>3, <2>4, <2>5, <2>6, <2>7 DEF Request
<1> QED
  BY <1>1, <1>2, <1>3, <1>4 DEF Next

\* The endpoints touch the code only as the register of OTPService allows, whose
\* own steps ServiceKeepsRegister bounds the same way.
THEOREM LoginKeepsRegister == Spec => KeepsRegister
<1>1. Init => Register!Init
  <2> SUFFICES ASSUME Init PROVE Register!Init
    OBVIOUS
  <2>1. Held = {} /\ 1..mailed = {} /\ Right = {}
    BY DEF Init, Held, Right
  <2>2. Copies = [r \in Requests |-> {}]
    BY DEF Init, Copies
  <2> QED
    BY <2>1, <2>2 DEF Register!Init
<1> QED
  BY <1>1, TypeCorrect, StepRegister, PTL DEF Spec, KeepsRegister, Register!Spec
=============================================================================
