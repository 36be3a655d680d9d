------------------------------ MODULE SetupClaim ------------------------------
(***************************************************************************)
(* The first-run setup: who becomes the administrator of a new instance.   *)
(* Every worker process first boots (database initialization: it may seed  *)
(* an administrator from the environment or backfill the completion flag)  *)
(* and then serves the wizard's /setup/complete.  Both end in the same     *)
(* calls - look for the email, write the Vault credential, insert the      *)
(* user - and each call is a step that other workers may come between.     *)
(***************************************************************************)
EXTENDS Integers, FiniteSets

CONSTANTS
    Workers,        \* API workers, each a process of its own
    Claimants,      \* emails of the people who fill in the wizard
    EnvAdmins,      \* the email given in the environment, if any
    WizardNames,    \* user names that may be typed in the wizard
    EnvName,        \* the user name given in the environment
    NoPassword,     \* Vault has no user of that name
    FlagFails,      \* whether reading the completion flag may fail
    CountFails      \* whether counting the administrators may fail at boot

Emails == Claimants \union EnvAdmins

\* User names in Vault's userpass backend.
Names == WizardNames \union {EnvName}

ASSUME SetupConstants ==
    /\ NoPassword \notin Emails
    /\ Claimants \intersect EnvAdmins = {}
    /\ FlagFails \in BOOLEAN /\ CountFails \in BOOLEAN

VARIABLES
    admins,         \* collection users: the administrators
    vaultPw,        \* whose password Vault holds under each name
    flag,           \* system_config's setup_completed
    pc,             \* the next call of each worker
    user,           \* the user document a worker is about to insert
    seeding,        \* whether it comes from the environment
    claims,         \* history: how often each was told that the instance is his
    misjudged       \* history: a boot took a failing count for an administrator
                    \* where there was none

locals == <<pc, user, seeding>>
history == <<claims, misjudged>>
vars == <<admins, vaultPw, flag, locals, history>>

\* A password is known by whose it is; hashed: the document holds its bcrypt hash.
User == [email : Emails, name : Names, hashed : BOOLEAN]

NoUser == [email |-> NoPassword, name |-> EnvName, hashed |-> FALSE]

PCs == {"boot", "boot_count", "recheck", "boot_mark",
        "idle", "count", "email", "credential", "insert", "mark"}

TypeOK ==
    /\ admins \subseteq User
    /\ vaultPw \in [Names -> Emails \union {NoPassword}]
    /\ flag \in BOOLEAN
    /\ pc \in [Workers -> PCs]
    /\ user \in [Workers -> User \union {NoUser}]
    /\ \A w \in Workers :
          pc[w] \in {"count", "email", "credential", "insert"} => user[w] \in User
    /\ seeding \in [Workers -> BOOLEAN]
    /\ claims \in [Claimants -> Nat] /\ misjudged \in BOOLEAN

Init ==
    /\ admins = {} /\ flag = FALSE
    /\ vaultPw = [n \in Names |-> NoPassword]
    /\ pc = [w \in Workers |-> "boot"]
    /\ user = [w \in Workers |-> NoUser]
    /\ seeding = [w \in Workers |-> FALSE]
    /\ claims = [c \in Claimants |-> 0] /\ misjudged = FALSE

-----------------------------------------------------------------------------
GoTo(w, from, to) == pc[w] = from /\ pc' = [pc EXCEPT ![w] = to]

Remember(w, e, n, env) ==
    /\ user' = [user EXCEPT ![w] = [email |-> e, name |-> n, hashed |-> FALSE]]
    /\ seeding' = [seeding EXCEPT ![w] = env]

\* The request answers, or the boot is over; local variables are gone.
Ends(w) ==
    /\ pc' = [pc EXCEPT ![w] = "idle"]
    /\ user' = [user EXCEPT ![w] = NoUser]
    /\ seeding' = [seeding EXCEPT ![w] = FALSE]

Forget(w) ==
    /\ user' = [user EXCEPT ![w] = NoUser]
    /\ seeding' = [seeding EXCEPT ![w] = FALSE]

\* An exception: the wizard answers 500, the seeder logs it and the boot goes on.
Raises(w) ==
    \/ seeding[w] /\ pc' = [pc EXCEPT ![w] = "recheck"] /\ Forget(w)
    \/ ~seeding[w] /\ Ends(w)

-----------------------------------------------------------------------------
(* _ensure_default_data at boot.                                            *)

\* setup_flag answers {} for a read error, as if nothing were set.
FlagNotSeen == ~flag \/ FlagFails

BootReadFlag(w) ==
    /\ pc[w] = "boot"
    /\ \/ flag /\ Ends(w)
       \/ FlagNotSeen /\ GoTo(w, "boot", "boot_count") /\ UNCHANGED <<user, seeding>>
    /\ UNCHANGED <<admins, vaultPw, flag, history>>

\* admin_exists answers TRUE when the count fails.
AdminSeen ==
    /\ admins # {} \/ CountFails
    /\ misjudged' = (misjudged \/ admins = {})

BootCountAdmins(w) ==
    /\ \/ /\ AdminSeen
          /\ GoTo(w, "boot_count", "boot_mark") /\ UNCHANGED <<user, seeding>>
       \/ /\ admins = {} /\ EnvAdmins = {}
          /\ pc[w] = "boot_count" /\ Ends(w) /\ UNCHANGED misjudged
       \/ /\ admins = {}
          /\ GoTo(w, "boot_count", "email") /\ UNCHANGED misjudged
          /\ \E e \in EnvAdmins : Remember(w, e, EnvName, TRUE)
    /\ UNCHANGED <<admins, vaultPw, flag, claims>>

\* Mutant: the seeding is taken to have worked.
RecheckAdmins_Trusting(w) ==
    /\ GoTo(w, "recheck", "boot_mark")
    /\ UNCHANGED <<admins, vaultPw, flag, user, seeding, history>>

\* After the seeding: the flag is set only if there is an administrator now.
RecheckAdmins(w) ==
    /\ \/ /\ AdminSeen
          /\ GoTo(w, "recheck", "boot_mark") /\ UNCHANGED <<user, seeding>>
       \/ /\ admins = {}
          /\ pc[w] = "recheck" /\ Ends(w) /\ UNCHANGED misjudged
    /\ UNCHANGED <<admins, vaultPw, flag, claims>>

-----------------------------------------------------------------------------
(* complete_setup.                                                          *)

\* is_setup_completed, first half: a flag that is seen refuses the claim.
StartClaim(w) ==
    /\ FlagNotSeen
    /\ GoTo(w, "idle", "count")
    /\ \E e \in Claimants, n \in WizardNames : Remember(w, e, n, FALSE)
    /\ UNCHANGED <<admins, vaultPw, flag, history>>

\* Second half: no administrator may exist.  Token and input are in order.
CountAdmins(w) ==
    /\ admins = {}
    /\ GoTo(w, "count", "email")
    /\ UNCHANGED <<admins, vaultPw, flag, user, seeding, history>>

-----------------------------------------------------------------------------
(* The calls the wizard and the seeder share.                               *)

Taken(e) == \E a \in admins : a.email = e

EmailFree(w) ==
    /\ ~Taken(user[w].email)
    /\ GoTo(w, "email", "credential")
    /\ UNCHANGED <<admins, vaultPw, flag, user, seeding, history>>

\* Mutant: without Vault the document is stored without a hash.
CreateCredential_NoFallback(w) ==
    /\ GoTo(w, "credential", "insert")
    /\ \/ vaultPw' = [vaultPw EXCEPT ![user[w].name] = user[w].email]
       \/ UNCHANGED vaultPw
    /\ UNCHANGED <<admins, flag, user, seeding, history>>

\* create_or_update_user in Vault, which replaces a password that is there;
\* without Vault, or when its answer is lost, a bcrypt hash for the document.
CreateCredential(w) ==
    /\ GoTo(w, "credential", "insert")
    /\ \/ /\ vaultPw' = [vaultPw EXCEPT ![user[w].name] = user[w].email]
          /\ UNCHANGED user
       \/ /\ \/ vaultPw' = [vaultPw EXCEPT ![user[w].name] = user[w].email]
             \/ UNCHANGED vaultPw
          /\ user' = [user EXCEPT ![w].hashed = TRUE]
    /\ UNCHANGED <<admins, flag, seeding, history>>

\* Mutant: the users collection has no unique index on email.
InsertUser_NoIndex(w) ==
    /\ GoTo(w, "insert", IF seeding[w] THEN "recheck" ELSE "mark")
    /\ admins' = admins \union {user[w]}
    /\ UNCHANGED <<vaultPw, flag, user, seeding, history>>

\* insert_one, guarded by the unique index on email.
InsertUser(w) ==
    /\ ~Taken(user[w].email)
    /\ GoTo(w, "insert", IF seeding[w] THEN "recheck" ELSE "mark")
    /\ admins' = admins \union {user[w]}
    /\ UNCHANGED <<vaultPw, flag, user, seeding, history>>

\* mark_setup_completed swallows every error; the wizard then answers 201.
MarkCompleted(w) ==
    /\ pc[w] \in {"mark", "boot_mark"} /\ Ends(w)
    /\ flag' \in {flag, TRUE}
    /\ claims' = IF pc[w] = "mark" THEN [claims EXCEPT ![user[w].email] = @ + 1]
                ELSE claims
    /\ UNCHANGED <<admins, vaultPw, misjudged>>

-----------------------------------------------------------------------------
\* 409 or 410, a wrong token or input, or a database call that fails (the
\* organization is named between "insert" and "mark"; that may fail as well).
StepRaises(w) ==
    /\ pc[w] \in {"count", "email", "credential", "insert", "mark"}
    /\ Raises(w)
    /\ UNCHANGED <<admins, vaultPw, flag, history>>

\* The worker process dies and gunicorn starts another one.
Crash(w) ==
    /\ pc' = [pc EXCEPT ![w] = "boot"]
    /\ Forget(w)
    /\ UNCHANGED <<admins, vaultPw, flag, history>>

Step(w) ==
    \/ BootReadFlag(w) \/ BootCountAdmins(w) \/ RecheckAdmins(w)
    \/ StartClaim(w) \/ CountAdmins(w)
    \/ EmailFree(w) \/ CreateCredential(w) \/ InsertUser(w) \/ MarkCompleted(w)
    \/ StepRaises(w) \/ Crash(w)

Next == \E w \in Workers : Step(w)

Spec == Init /\ [][Next]_vars

-----------------------------------------------------------------------------
(* Properties.                                                              *)

\* What is left of "Atomically claim the instance": the wizard tells nobody twice
\* that the instance is now his, however his repeated requests overlap and
\* wherever a worker crashes.  The look and the insertion are not one step: two
\* people whose claims overlap are both told so.
ClaimsPerPerson == \A c \in Claimants : claims[c] <= 1

\* The completion flag is set on an instance without an administrator (which
\* closes the wizard for good) only after a boot at which the count failed.
UnownedFlagIsMisjudged == flag => admins # {} \/ misjudged

\* Why: whoever is about to set the flag has seen an administrator, or believes
\* so, and administrators stay.
MarkInv ==
    /\ UnownedFlagIsMisjudged
    /\ \A w \in Workers :
          pc[w] \in {"mark", "boot_mark"} => admins # {} \/ misjudged

\* No instance is left to an administrator who cannot log in, whatever Vault
\* answered and wherever an attempt stopped, unless somebody else has chosen his
\* user name and replaced the password that Vault holds under it.
CanLogIn(a) == a.hashed \/ vaultPw[a.name] = a.email

Replaced(a) == vaultPw[a.name] \in Emails \ {a.email}

OwnersCanLogIn == \A a \in admins : CanLogIn(a) \/ Replaced(a)

\* Why nobody is told twice, on any number of workers: a claim about to succeed
\* has inserted its email, which the unique index lets nobody do again.
Claimed == {c \in Claimants : Taken(c)}
Marking == {w \in Workers : pc[w] = "mark"}

ClaimInv ==
    /\ \A w \in Workers :
          /\ pc[w] \in {"count", "email", "credential", "insert", "mark"} =>
                IF seeding[w]
                THEN user[w].email \in EnvAdmins /\ user[w].name = EnvName
                ELSE user[w].email \in Claimants /\ user[w].name \in WizardNames
          /\ pc[w] = "mark" => user[w].email \in Claimed /\ claims[user[w].email] = 0
    /\ \A v, w \in Marking : user[v].email = user[w].email => v = w
    /\ ClaimsPerPerson
    /\ \A c \in Claimants : claims[c] > 0 => Taken(c)

\* Why an owner can log in: the credential comes before the user, and a password
\* is only ever replaced by another one.
HasPassword(a) == a.hashed \/ vaultPw[a.name] # NoPassword

PasswordInv ==
    /\ \A a \in admins : HasPassword(a)
    /\ \A w \in Workers : pc[w] = "insert" => HasPassword(user[w])

\* Two people choose one user name: among the administrators and the users about
\* to become one.
Pending == {user[w] : w \in {v \in Workers : pc[v] \in {"credential", "insert"}}}

NoSharedNames ==
    \A a, b \in admins \union Pending : a.name = b.name => a.email = b.email

\* Without that the owner's own password stays: only he ever replaces it.
CredentialInv ==
    /\ \A a \in admins : CanLogIn(a)
    /\ \A w \in Workers : pc[w] = "insert" => CanLogIn(user[w])
=============================================================================
