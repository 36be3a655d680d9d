-------------------------- MODULE SetupClaimProofs --------------------------
(* Proofs about SetupClaim, for any number of workers, claimants and names.  *)
EXTENDS SetupClaim, TLAPS

\* The document a claim or a seeding starts with, before it has a hash.
LEMMA NewUser ==
  ASSUME NEW e \in Emails, NEW n \in Names
  PROVE  [email |-> e, name |-> n, hashed |-> FALSE] \in User
BY DEF User

\* A document that gets its bcrypt hash is still a document.
LEMMA HashedUser ==
  ASSUME NEW u \in User
  PROVE  [u EXCEPT !.hashed = TRUE] \in User
BY DEF User

\* The type invariant holds in every reachable state (complete_setup and the
\* boot-time seeding on any number of workers).
THEOREM TypeCorrect == Spec => []TypeOK
<1>1. Init => TypeOK
  <2> SUFFICES ASSUME Init PROVE TypeOK
    OBVIOUS
  <2>1. /\ admins \subseteq User /\ flag \in BOOLEAN
        /\ claims \in [Claimants -> Nat] /\ misjudged \in BOOLEAN
    BY DEF Init
  <2>2. vaultPw \in [Names -> Emails \union {NoPassword}]
    BY DEF Init
  <2>3. pc \in [Workers -> PCs] /\ \A w \in Workers : pc[w] = "boot"
    BY DEF Init, PCs
  <2>4. user \in [Workers -> User \union {NoUser}]
    BY DEF Init
  <2>5. seeding \in [Workers -> BOOLEAN]
    BY DEF Init
  <2>. QED
    BY <2>1, <2>2, <2>3, <2>4, <2>5 DEF TypeOK
<1>2. TypeOK /\ [Next]_vars => TypeOK'
  <2> SUFFICES ASSUME TypeOK, [Next]_vars PROVE TypeOK'
    OBVIOUS
  <2> USE SetupConstants DEF TypeOK, PCs, GoTo, history
  <2>1. ASSUME NEW w \in Workers, BootReadFlag(w) PROVE TypeOK'
    BY <2>1 DEF BootReadFlag, Ends
  <2>2. ASSUME NEW w \in Workers, BootCountAdmins(w) PROVE TypeOK'
    <3>1. CASE Ends(w)
      BY <2>2, <3>1 DEF BootCountAdmins, AdminSeen, Ends, Remember
    <3>2. CASE GoTo(w, "boot_count", "boot_mark") /\ UNCHANGED <<user, seeding>>
      BY <2>2, <3>2 DEF BootCountAdmins, AdminSeen
    <3>3. ASSUME NEW e \in EnvAdmins, Remember(w, e, EnvName, TRUE),
                 GoTo(w, "boot_count", "email")
          PROVE  TypeOK'
      BY <2>2, <3>3, NewUser DEF BootCountAdmins, AdminSeen, Remember, Emails, Names
    <3>. QED
      BY <2>2, <3>1, <3>2, <3>3 DEF BootCountAdmins
  <2>3. ASSUME NEW w \in Workers, RecheckAdmins(w) PROVE TypeOK'
    BY <2>3 DEF RecheckAdmins, AdminSeen, Ends
  <2>4. ASSUME NEW w \in Workers, StartClaim(w) PROVE TypeOK'
    BY <2>4, NewUser DEF StartClaim, Remember, Emails, Names
  <2>5. ASSUME NEW w \in Workers, CountAdmins(w) PROVE TypeOK'
    BY <2>5 DEF CountAdmins
  <2>6. ASSUME NEW w \in Workers, EmailFree(w) PROVE TypeOK'
    BY <2>6 DEF EmailFree
  <2>7. ASSUME NEW w \in Workers, CreateCredential(w) PROVE TypeOK'
    <3>1. user[w] \in User /\ user[w].email \in Emails
      BY <2>7 DEF CreateCredential, User
    <3>2. [user[w] EXCEPT !.hashed = TRUE] \in User
      BY <3>1, HashedUser
    <3>3. vaultPw' \in [Names -> Emails \union {NoPassword}]
      BY <2>7, <3>1 DEF CreateCredential
    <3>4. user' \in [Workers -> User \union {NoUser}]
          /\ \A v \in Workers : user[v] \in User => user'[v] \in User
      BY <2>7, <3>2 DEF CreateCredential
    <3>. QED
      BY <2>7, <3>1, <3>3, <3>4 DEF CreateCredential
  <2>8. ASSUME NEW w \in Workers, InsertUser(w) PROVE TypeOK'
    BY <2>8 DEF InsertUser
  <2>9. ASSUME NEW w \in Workers, MarkCompleted(w) PROVE TypeOK'
    <3>1. flag' \in BOOLEAN
      BY <2>9 DEF MarkCompleted
    <3>2. claims' \in [Claimants -> Nat]
      <4>1. CASE claims' = claims
        BY <4>1
      <4>2. CASE claims' = [claims EXCEPT ![user[w].email] = @ + 1]
        <5>1. \A n \in Nat : n + 1 \in Nat
          OBVIOUS
        <5> QED
          BY <4>2, <5>1
      <4> QED
        BY <2>9, <4>1, <4>2 DEF MarkCompleted
    <3>. QED
      BY <2>9, <3>1, <3>2 DEF MarkCompleted, Ends
  <2>10. ASSUME NEW w \in Workers, StepRaises(w) PROVE TypeOK'
    BY <2>10 DEF StepRaises, Raises, Forget, Ends
  <2>11. ASSUME NEW w \in Workers, Crash(w) PROVE TypeOK'
    BY <2>11 DEF Crash, Forget
  <2>12. CASE UNCHANGED vars
    BY <2>12 DEF vars, locals, history
  <2>. QED
    BY <2>1, <2>2, <2>3, <2>4, <2>5, <2>6, <2>7, <2>8, <2>9, <2>10, <2>11,
       <2>12 DEF Next, Step
<1>. QED
  BY <1>1, <1>2, PTL DEF Spec

\* One step keeps MarkInv: administrators stay, and the steps that lead to the
\* flag write have seen one or have taken a failing count for one.
LEMMA MarkStep ==
  ASSUME TypeOK, MarkInv, [Next]_vars
  PROVE  MarkInv'
<1> USE DEF MarkInv, UnownedFlagIsMisjudged, TypeOK, GoTo, history
<1>1. ASSUME NEW w \in Workers, BootReadFlag(w) PROVE MarkInv'
  BY <1>1 DEF BootReadFlag, Ends
<1>2. ASSUME NEW w \in Workers, BootCountAdmins(w) PROVE MarkInv'
  BY <1>2 DEF BootCountAdmins, AdminSeen, Ends
<1>3. ASSUME NEW w \in Workers, RecheckAdmins(w) PROVE MarkInv'
  BY <1>3 DEF RecheckAdmins, AdminSeen, Ends
<1>4. ASSUME NEW w \in Workers, StartClaim(w) PROVE MarkInv'
  BY <1>4 DEF StartClaim
<1>5. ASSUME NEW w \in Workers, CountAdmins(w) PROVE MarkInv'
  BY <1>5 DEF CountAdmins
<1>6. ASSUME NEW w \in Workers, EmailFree(w) PROVE MarkInv'
  BY <1>6 DEF EmailFree
<1>7. ASSUME NEW w \in Workers, CreateCredential(w) PROVE MarkInv'
  BY <1>7 DEF CreateCredential
<1>8. ASSUME NEW w \in Workers, InsertUser(w) PROVE MarkInv'
  BY <1>8 DEF InsertUser
<1>9. ASSUME NEW w \in Workers, MarkCompleted(w) PROVE MarkInv'
  BY <1>9 DEF MarkCompleted, Ends
<1>10. ASSUME NEW w \in Workers, StepRaises(w) PROVE MarkInv'
  BY <1>10 DEF StepRaises, Raises, Forget, Ends
<1>11. ASSUME NEW w \in Workers, Crash(w) PROVE MarkInv'
  BY <1>11 DEF Crash, Forget
<1>12. CASE UNCHANGED vars
  BY <1>12 DEF vars, locals
<1>. QED
  BY <1>1, <1>2, <1>3, <1>4, <1>5, <1>6, <1>7, <1>8, <1>9, <1>10, <1>11,
     <1>12 DEF Next, Step

\* The completion flag is set only on an instance that has an administrator, or
\* after a boot whose count failed while there was none: for any number of workers,
\* and whether or not reading the flag and counting can fail.
THEOREM UnownedFlagsAreMisjudged == Spec => []UnownedFlagIsMisjudged
<1>1. Init => MarkInv
  BY DEF Init, MarkInv, UnownedFlagIsMisjudged
<1>2. TypeOK /\ MarkInv /\ [Next]_vars => MarkInv'
  BY MarkStep
<1>3. MarkInv => UnownedFlagIsMisjudged
  BY DEF MarkInv
<1>. QED
  BY <1>1, <1>2, <1>3, TypeCorrect, PTL DEF Spec

-----------------------------------------------------------------------------
(* Any number of workers: how often the instance is claimed.                *)

\* What a step does to the administrators and to the workers that are about to
\* answer a claim: nobody leaves, and one joins only by an insertion.
LEMMA MarkingStep ==
  ASSUME TypeOK, [Next]_vars
  PROVE  /\ admins \subseteq admins'
         /\ \A v \in Marking' :
               /\ v \in Workers /\ user'[v] = user[v] /\ seeding'[v] = seeding[v]
               /\ \/ v \in Marking
                  \/ /\ pc[v] = "insert" /\ ~seeding[v] /\ user[v] \in admins'
                     /\ ~Taken(user[v].email)
                     /\ Marking' = Marking \union {v}
<1> USE DEF TypeOK, PCs, GoTo, Marking
<1>1. ASSUME NEW w \in Workers, InsertUser(w), NEW v \in Marking'
      PROVE  /\ v \in Workers /\ user'[v] = user[v] /\ seeding'[v] = seeding[v]
             /\ \/ v \in Marking
                \/ /\ pc[v] = "insert" /\ ~seeding[v] /\ user[v] \in admins'
                   /\ ~Taken(user[v].email)
                   /\ Marking' = Marking \union {v}
  <2>1. CASE v # w
    BY <1>1, <2>1 DEF InsertUser
  <2>2. CASE v = w
    <3>1. ~seeding[w] /\ pc' = [pc EXCEPT ![w] = "mark"] /\ pc[w] = "insert"
      BY <1>1, <2>2 DEF InsertUser
    <3>2. Marking' = Marking \union {w}
      BY <3>1
    <3> QED
      BY <1>1, <2>2, <3>1, <3>2 DEF InsertUser
  <2> QED
    BY <2>1, <2>2
<1>2. ASSUME NEW w \in Workers, Step(w), ~InsertUser(w), NEW v \in Marking'
      PROVE  /\ v \in Marking /\ user'[v] = user[v] /\ seeding'[v] = seeding[v]
  <2>1. ASSUME pc'[w] # "mark", \A u \in Workers \ {w} :
                  pc'[u] = pc[u] /\ user'[u] = user[u] /\ seeding'[u] = seeding[u]
        PROVE  v \in Marking /\ user'[v] = user[v] /\ seeding'[v] = seeding[v]
    BY <2>1
  <2>2. CASE BootReadFlag(w)
    BY <2>1, <2>2 DEF BootReadFlag, Ends
  <2>3. CASE BootCountAdmins(w)
    BY <2>1, <2>3 DEF BootCountAdmins, Ends, Remember
  <2>4. CASE RecheckAdmins(w)
    BY <2>1, <2>4 DEF RecheckAdmins, Ends
  <2>5. CASE StartClaim(w) \/ CountAdmins(w) \/ EmailFree(w)
    BY <2>1, <2>5 DEF StartClaim, CountAdmins, EmailFree, Remember
  <2>6. CASE CreateCredential(w)
    BY <2>1, <2>6 DEF CreateCredential
  <2>7. CASE MarkCompleted(w)
    BY <2>1, <2>7 DEF MarkCompleted, Ends
  <2>8. CASE StepRaises(w)
    BY <2>1, <2>8 DEF StepRaises, Raises, Forget, Ends
  <2>9. CASE Crash(w)
    BY <2>1, <2>9 DEF Crash, Forget
  <2> QED
    BY <1>2, <2>2, <2>3, <2>4, <2>5, <2>6, <2>7, <2>8, <2>9 DEF Step
<1>3. admins \subseteq admins'
  BY DEF Next, Step, BootReadFlag, BootCountAdmins, RecheckAdmins, StartClaim,
         CountAdmins, EmailFree, CreateCredential, InsertUser, MarkCompleted,
         StepRaises, Crash, vars
<1>4. CASE UNCHANGED vars
  BY <1>3, <1>4 DEF vars, locals
<1> QED
  BY <1>1, <1>2, <1>3, <1>4 DEF Next

\* A user belongs to the wizard or to the environment from the first step on.
WhoseUser(w) ==
    pc[w] \in {"count", "email", "credential", "insert", "mark"} =>
        IF seeding[w]
        THEN user[w].email \in EnvAdmins /\ user[w].name = EnvName
        ELSE user[w].email \in Claimants /\ user[w].name \in WizardNames

LEMMA WhoseUserStep ==
  ASSUME TypeOK, \A w \in Workers : WhoseUser(w), [Next]_vars
  PROVE  \A w \in Workers : WhoseUser(w)'
<1> SUFFICES ASSUME NEW v \in Workers PROVE WhoseUser(v)'
  OBVIOUS
<1> USE DEF TypeOK, GoTo, WhoseUser
<1>1. ASSUME NEW w \in Workers, Step(w) PROVE WhoseUser(v)'
  <2>1. CASE BootReadFlag(w)
    BY <2>1 DEF BootReadFlag, Ends
  <2>2. CASE BootCountAdmins(w)
    BY <2>2 DEF BootCountAdmins, Ends, Remember
  <2>3. CASE RecheckAdmins(w)
    BY <2>3 DEF RecheckAdmins, Ends
  <2>4. CASE StartClaim(w)
    BY <2>4 DEF StartClaim, Remember
  <2>5. CASE CountAdmins(w) \/ EmailFree(w)
    BY <2>5 DEF CountAdmins, EmailFree
  <2>6. CASE CreateCredential(w)
    <3>1. user[w] \in User
      BY <2>6 DEF CreateCredential
    <3>2. user'[w].email = user[w].email /\ user'[w].name = user[w].name
      BY <2>6, <3>1 DEF CreateCredential, User
    <3>3. \A u \in Workers \ {w} : user'[u] = user[u] /\ pc'[u] = pc[u]
      BY <2>6 DEF CreateCredential
    <3>4. pc[w] = "credential" /\ UNCHANGED seeding
      BY <2>6 DEF CreateCredential
    <3> QED
      BY <3>2, <3>3, <3>4
  <2>7. CASE InsertUser(w)
    BY <2>7 DEF InsertUser
  <2>8. CASE MarkCompleted(w)
    BY <2>8 DEF MarkCompleted, Ends
  <2>9. CASE StepRaises(w)
    BY <2>9 DEF StepRaises, Raises, Forget, Ends
  <2>10. CASE Crash(w)
    BY <2>10 DEF Crash, Forget
  <2> QED
    BY <1>1, <2>1, <2>2, <2>3, <2>4, <2>5, <2>6, <2>7, <2>8, <2>9, <2>10 DEF Step
<1>2. CASE UNCHANGED vars
  BY <1>2 DEF vars, locals
<1> QED
  BY <1>1, <1>2 DEF Next

\* A claim is counted by the step that answers it, and by no other.
LEMMA CountingStep ==
  ASSUME TypeOK, [Next]_vars
  PROVE  \/ claims' = claims
         \/ \E w \in Workers : /\ MarkCompleted(w) /\ pc[w] = "mark"
                              /\ claims' = [claims EXCEPT ![user[w].email] = @ + 1]
  BY DEF Next, Step, BootReadFlag, BootCountAdmins, RecheckAdmins, StartClaim,
         CountAdmins, EmailFree, CreateCredential, InsertUser, MarkCompleted,
         StepRaises, Crash, vars, history

\* One step keeps ClaimInv.
LEMMA ClaimStep ==
  ASSUME TypeOK, ClaimInv, [Next]_vars
  PROVE  ClaimInv'
<1>1. \A w \in Workers : WhoseUser(w)'
  BY WhoseUserStep DEF ClaimInv, WhoseUser
<1>2. Claimed \subseteq Claimed' /\ \A c \in Claimants : Taken(c) => Taken(c)'
  BY MarkingStep DEF Claimed, Taken
<1>3. ASSUME NEW v \in Marking' PROVE user'[v].email \in Claimed'
  <2>1. CASE v \in Marking
    <3>1. user[v].email \in Claimed
      BY <2>1 DEF Marking, ClaimInv
    <3> QED
      BY <1>2, <1>3, <3>1, MarkingStep
  <2>2. CASE pc[v] = "insert" /\ ~seeding[v] /\ user[v] \in admins'
    <3>1. user[v].email \in Claimants
      BY <1>3, <2>2, MarkingStep DEF ClaimInv
    <3>2. user[v].email \in Claimed'
      BY <2>2, <3>1 DEF Claimed, Taken
    <3> QED
      BY <1>3, <3>2, MarkingStep
  <2> QED
    BY <1>3, <2>1, <2>2, MarkingStep
<1>4. ASSUME NEW v \in Marking', NEW w \in Marking', user'[v].email = user'[w].email
      PROVE  v = w
  <2>1. user[v].email = user[w].email
    BY <1>4, MarkingStep
  <2>2. ASSUME NEW x \in Marking PROVE Taken(user[x].email)
    BY <2>2 DEF ClaimInv, Marking, Claimed
  <2>3. CASE v \in Marking /\ w \in Marking
    BY <2>1, <2>3 DEF ClaimInv
  <2>4. CASE v \notin Marking /\ w \notin Marking
    BY <1>4, <2>4, MarkingStep
  <2>5. CASE v \in Marking /\ w \notin Marking
    BY <1>4, <2>1, <2>2, <2>5, MarkingStep
  <2>6. CASE v \notin Marking /\ w \in Marking
    BY <1>4, <2>1, <2>2, <2>6, MarkingStep
  <2> QED
    BY <2>3, <2>4, <2>5, <2>6
\* Who is about to be told has not been told before.
<1>5. ASSUME NEW v \in Marking' PROVE claims[user'[v].email] = 0 /\ user'[v].email \in Claimants
  <2>1. user'[v].email \in Claimants /\ user'[v] = user[v]
    BY <1>3, MarkingStep DEF Claimed
  <2>2. CASE v \in Marking
    BY <2>1, <2>2 DEF Marking, ClaimInv
  <2>3. CASE ~Taken(user[v].email)
    BY <2>1, <2>3 DEF ClaimInv, TypeOK
  <2> QED
    BY <2>1, <2>2, <2>3, MarkingStep
<1>6. CASE claims' = claims
  <2>1. ClaimsPerPerson' /\ \A c \in Claimants : claims'[c] > 0 => Taken(c)'
    BY <1>2, <1>6 DEF ClaimInv, ClaimsPerPerson
  <2>2. \A v \in Marking' : user'[v].email \in Claimed' /\ claims'[user'[v].email] = 0
    BY <1>3, <1>5, <1>6
  <2> QED
    BY <1>1, <1>4, <2>1, <2>2 DEF ClaimInv, WhoseUser, Marking
<1>7. ASSUME NEW w \in Workers, MarkCompleted(w), pc[w] = "mark",
             claims' = [claims EXCEPT ![user[w].email] = @ + 1]
      PROVE  ClaimInv'
  <2> DEFINE e == user[w].email
  <2>1. e \in Claimed /\ e \in Claimants /\ claims[e] = 0 /\ w \in Marking
    BY <1>7 DEF ClaimInv, Marking, Claimed
  <2>2. claims'[e] = 1 /\ \A c \in Claimants \ {e} : claims'[c] = claims[c]
    BY <1>7, <2>1 DEF TypeOK
  <2>3. ClaimsPerPerson' /\ \A c \in Claimants : claims'[c] > 0 => Taken(c)'
    BY <1>2, <2>1, <2>2 DEF ClaimInv, ClaimsPerPerson, Claimed
  <2>4. ASSUME NEW v \in Marking' PROVE user'[v].email # e
    <3>1. v # w
      BY <1>7, <2>4 DEF Marking, MarkCompleted, Ends, TypeOK
    <3>2. CASE v \in Marking
      BY <2>1, <2>4, <3>1, <3>2, MarkingStep DEF ClaimInv
    <3>3. CASE ~Taken(user[v].email)
      BY <2>1, <2>4, <3>3, MarkingStep DEF Claimed
    <3> QED
      BY <2>4, <3>2, <3>3, MarkingStep
  <2>5. \A v \in Marking' : user'[v].email \in Claimed' /\ claims'[user'[v].email] = 0
    BY <1>3, <1>5, <2>2, <2>4
  <2> QED
    BY <1>1, <1>4, <2>3, <2>5 DEF ClaimInv, WhoseUser, Marking
<1> QED
  BY <1>6, <1>7, CountingStep

\* Nobody is told twice that the instance is his, for any number of workers and
\* claimants, whatever fails and wherever a worker crashes.
THEOREM EachClaimsOnce == Spec => []ClaimsPerPerson
<1>1. Init => ClaimInv
  BY DEF Init, ClaimInv, ClaimsPerPerson, Marking
<1>2. TypeOK /\ ClaimInv /\ [Next]_vars => ClaimInv'
  BY ClaimStep
<1>3. ClaimInv => ClaimsPerPerson
  BY DEF ClaimInv
<1>. QED
  BY <1>1, <1>2, <1>3, TypeCorrect, PTL DEF Spec

-----------------------------------------------------------------------------
(* Any number of workers: whether the owners can log in.                    *)

\* A step other than the write of a credential leaves Vault alone, and a worker
\* that is about to insert with the user it has.
LEMMA CredentialsElsewhere ==
  ASSUME TypeOK, NEW w \in Workers, Step(w), ~CreateCredential(w)
  PROVE  /\ UNCHANGED vaultPw
         /\ \A a \in admins' : a \in admins \/ (pc[w] = "insert" /\ a = user[w])
         /\ \A v \in Workers : pc'[v] = "insert" => pc[v] = "insert" /\ user'[v] = user[v]
<1> USE DEF TypeOK, GoTo
<1>1. UNCHANGED vaultPw
  BY DEF Step, BootReadFlag, BootCountAdmins, RecheckAdmins, StartClaim,
         CountAdmins, EmailFree, InsertUser, MarkCompleted, StepRaises, Crash
<1>2. \A a \in admins' : a \in admins \/ (pc[w] = "insert" /\ a = user[w])
  <2>1. CASE InsertUser(w)
    BY <2>1 DEF InsertUser
  <2>2. CASE ~InsertUser(w)
    <3>1. UNCHANGED admins
      BY <2>2
         DEF Step, BootReadFlag, BootCountAdmins, RecheckAdmins, StartClaim,
             CountAdmins, EmailFree, MarkCompleted, StepRaises, Crash
    <3> QED
      BY <3>1
  <2> QED
    BY <2>1, <2>2
<1>3. ASSUME NEW v \in Workers, pc'[v] = "insert"
      PROVE  pc[v] = "insert" /\ user'[v] = user[v]
  <2>1. CASE BootReadFlag(w)
    BY <1>3, <2>1 DEF BootReadFlag, Ends
  <2>2. CASE BootCountAdmins(w)
    BY <1>3, <2>2 DEF BootCountAdmins, Ends, Remember
  <2>3. CASE RecheckAdmins(w)
    BY <1>3, <2>3 DEF RecheckAdmins, Ends
  <2>4. CASE StartClaim(w) \/ CountAdmins(w) \/ EmailFree(w) \/ InsertUser(w)
    BY <1>3, <2>4 DEF StartClaim, Remember, CountAdmins, EmailFree, InsertUser
  <2>5. CASE MarkCompleted(w)
    BY <1>3, <2>5 DEF MarkCompleted, Ends
  <2>6. CASE StepRaises(w)
    BY <1>3, <2>6 DEF StepRaises, Raises, Forget, Ends
  <2>7. CASE Crash(w)
    BY <1>3, <2>7 DEF Crash, Forget
  <2> QED
    BY <2>1, <2>2, <2>3, <2>4, <2>5, <2>6, <2>7 DEF Step
<1> QED
  BY <1>1, <1>2, <1>3

\* One step keeps PasswordInv: a credential that is written replaces a password by
\* another, and a user is inserted after it.
LEMMA PasswordStep ==
  ASSUME TypeOK, PasswordInv, [Next]_vars
  PROVE  PasswordInv'
<1> USE DEF TypeOK, GoTo
<1>1. ASSUME NEW w \in Workers, CreateCredential(w) PROVE PasswordInv'
  <2>1. /\ pc[w] = "credential" /\ pc' = [pc EXCEPT ![w] = "insert"]
        /\ UNCHANGED admins /\ user[w] \in User
    BY <1>1 DEF CreateCredential
  <2>2. user[w].name \in Names /\ user[w].email # NoPassword
    BY <2>1, SetupConstants DEF User
  <2>3. \/ UNCHANGED vaultPw
        \/ vaultPw' = [vaultPw EXCEPT ![user[w].name] = user[w].email]
    BY <1>1 DEF CreateCredential
  <2>4. ASSUME NEW a \in User, HasPassword(a) PROVE HasPassword(a)'
    BY <2>2, <2>3, <2>4 DEF HasPassword, User
  <2>5. ASSUME NEW v \in Workers, v # w, pc'[v] = "insert" PROVE HasPassword(user[v])'
    <3>1. pc[v] = "insert" /\ user'[v] = user[v] /\ user[v] \in User
      BY <1>1, <2>1, <2>5 DEF CreateCredential
    <3>2. HasPassword(user[v])
      BY <3>1 DEF PasswordInv
    <3> QED
      BY <2>4, <3>1, <3>2 DEF HasPassword
  <2>6. HasPassword(user[w])'
    <3>1. CASE UNCHANGED user /\ vaultPw' = [vaultPw EXCEPT ![user[w].name] = user[w].email]
      BY <2>2, <3>1 DEF HasPassword
    <3>2. CASE user' = [user EXCEPT ![w].hashed = TRUE]
      BY <2>1, <3>2 DEF HasPassword, User
    <3> QED
      BY <1>1, <3>1, <3>2 DEF CreateCredential
  <2>7. \A a \in admins : HasPassword(a)'
    BY <2>4 DEF PasswordInv
  <2> QED
    BY <2>1, <2>5, <2>6, <2>7 DEF PasswordInv, HasPassword
<1>2. ASSUME NEW w \in Workers, Step(w), ~CreateCredential(w) PROVE PasswordInv'
  BY <1>2, CredentialsElsewhere DEF PasswordInv, HasPassword
<1>3. CASE UNCHANGED vars
  BY <1>3 DEF vars, locals, PasswordInv, HasPassword
<1> QED
  BY <1>1, <1>2, <1>3 DEF Next

\* Every administrator there is has a password that works, unless somebody else
\* has replaced it under his user name: for any number of workers, claimants and
\* names, whatever Vault answers and wherever a claim or a boot stops.
THEOREM OwnersLogInUnlessReplaced == Spec => []OwnersCanLogIn
<1>1. Init => PasswordInv
  BY DEF Init, PasswordInv
<1>2. TypeOK /\ PasswordInv /\ [Next]_vars => PasswordInv'
  BY PasswordStep
<1>3. TypeOK /\ PasswordInv => OwnersCanLogIn
  <2> SUFFICES ASSUME TypeOK, PasswordInv, NEW a \in admins
               PROVE  CanLogIn(a) \/ Replaced(a)
    BY DEF OwnersCanLogIn
  <2>1. a.name \in Names /\ HasPassword(a)
    BY DEF TypeOK, User, PasswordInv
  <2>2. vaultPw[a.name] \in Emails \union {NoPassword}
    BY <2>1 DEF TypeOK
  <2> QED
    BY <2>1, <2>2 DEF HasPassword, CanLogIn, Replaced
<1>. QED
  BY <1>1, <1>2, <1>3, TypeCorrect, PTL DEF Spec

\* While no user name is shared, a credential that is written replaces only what
\* the same person has written.
LEMMA CredentialStep ==
  ASSUME TypeOK, NoSharedNames, CredentialInv, [Next]_vars
  PROVE  CredentialInv'
<1> USE DEF TypeOK, GoTo
<1>1. ASSUME NEW w \in Workers, CreateCredential(w) PROVE CredentialInv'
  <2>1. /\ pc[w] = "credential" /\ pc' = [pc EXCEPT ![w] = "insert"]
        /\ UNCHANGED admins /\ user[w] \in User /\ user[w] \in Pending
    BY <1>1 DEF CreateCredential, Pending
  <2>2. user[w].name \in Names
    BY <2>1 DEF User
  <2>3. ASSUME NEW a \in User, CanLogIn(a), a.name = user[w].name => a.email = user[w].email
        PROVE  CanLogIn(a)'
    <3>1. CASE UNCHANGED vaultPw
      BY <2>3, <3>1 DEF CanLogIn
    <3>2. CASE vaultPw' = [vaultPw EXCEPT ![user[w].name] = user[w].email]
      BY <2>2, <2>3, <3>2 DEF CanLogIn, User
    <3> QED
      BY <1>1, <3>1, <3>2 DEF CreateCredential
  <2>4. \A a \in admins : CanLogIn(a)'
    BY <2>1, <2>3 DEF NoSharedNames, CredentialInv
  <2>5. ASSUME NEW v \in Workers, v # w, pc'[v] = "insert" PROVE CanLogIn(user[v])'
    <3>1. pc[v] = "insert" /\ user'[v] = user[v]
      BY <1>1, <2>1, <2>5 DEF CreateCredential
    <3>2. user[v] \in User /\ user[v] \in Pending
      BY <3>1 DEF Pending
    <3>3. CanLogIn(user[v])
      BY <3>1 DEF CredentialInv
    <3> QED
      BY <2>1, <2>3, <3>1, <3>2, <3>3 DEF NoSharedNames, CanLogIn
  <2>6. CanLogIn(user[w])'
    <3>1. CASE UNCHANGED user /\ vaultPw' = [vaultPw EXCEPT ![user[w].name] = user[w].email]
      BY <2>2, <3>1 DEF CanLogIn
    <3>2. CASE user' = [user EXCEPT ![w].hashed = TRUE]
      BY <2>1, <3>2 DEF CanLogIn, User
    <3> QED
      BY <1>1, <3>1, <3>2 DEF CreateCredential
  <2> QED
    BY <2>1, <2>4, <2>5, <2>6 DEF CredentialInv
<1>2. ASSUME NEW w \in Workers, Step(w), ~CreateCredential(w) PROVE CredentialInv'
  BY <1>2, CredentialsElsewhere DEF CredentialInv, CanLogIn
<1>3. CASE UNCHANGED vars
  BY <1>3 DEF vars, locals, CredentialInv, CanLogIn
<1> QED
  BY <1>1, <1>2, <1>3 DEF Next

\* As long as no two people choose one user name, no administrator's password is
\* replaced either.
THEOREM OwnersLogInUnlessShared ==
    Spec /\ []NoSharedNames => [](\A a \in admins : CanLogIn(a))
<1>1. Init => CredentialInv
  BY DEF Init, CredentialInv
<1>2. TypeOK /\ NoSharedNames /\ CredentialInv /\ [Next]_vars => CredentialInv'
  BY CredentialStep
<1>3. CredentialInv => \A a \in admins : CanLogIn(a)
  BY DEF CredentialInv
<1>. QED
  BY <1>1, <1>2, <1>3, TypeCorrect, PTL DEF Spec

\* One person, one administrator of the environment, and a user name of the
\* environment that the wizard is not given: then no name is shared.
SeparateNames ==
    /\ EnvName \notin WizardNames
    /\ \A c, d \in Claimants : c = d
    /\ \A c, d \in EnvAdmins : c = d

\* Whose name an administrator or a worker's user has.
OwnName(a) ==
    \/ a.name = EnvName /\ a.email \in EnvAdmins
    \/ a.name \in WizardNames /\ a.email \in Claimants

NamesInv ==
    /\ \A w \in Workers : WhoseUser(w)
    /\ \A a \in admins : OwnName(a)

LEMMA NamesStep ==
  ASSUME TypeOK, NamesInv, [Next]_vars
  PROVE  NamesInv'
<1>1. \A w \in Workers : WhoseUser(w)'
  BY WhoseUserStep DEF NamesInv
<1>2. ASSUME NEW a \in admins', a \notin admins PROVE OwnName(a)
  <2>1. PICK w \in Workers : pc[w] = "insert" /\ a = user[w]
    BY <1>2, CredentialsElsewhere DEF Next, CreateCredential, vars
  <2> QED
    BY <2>1 DEF NamesInv, WhoseUser, OwnName
<1> QED
  BY <1>1, <1>2 DEF NamesInv, OwnName

\* Under SeparateNames the owners can always log in.
THEOREM SeparateOwnersLogIn ==
    SeparateNames => (Spec => [](\A a \in admins : CanLogIn(a)))
<1> SUFFICES ASSUME SeparateNames PROVE Spec => [](\A a \in admins : CanLogIn(a))
  OBVIOUS
<1>1. Init => NamesInv
  BY DEF Init, NamesInv, WhoseUser
<1>2. TypeOK /\ NamesInv /\ [Next]_vars => NamesInv'
  BY NamesStep
<1>3. NamesInv => NoSharedNames
  BY DEF NamesInv, NoSharedNames, Pending, WhoseUser, OwnName, SeparateNames
<1>. QED
  BY <1>1, <1>2, <1>3, TypeCorrect, OwnersLogInUnlessShared, PTL DEF Spec
=============================================================================
