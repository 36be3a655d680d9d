------------------------------ MODULE OtpLogin ------------------------------
(***************************************************************************)
(* The OTP endpoints of one user that an administrator has invited: a code *)
(* that was mailed is exchanged for a session to set the first password,   *)
(* or for a reset at once; the password goes to Vault or, hashed, into the *)
(* user's document, which is all that the login looks at.  Of OTPService   *)
(* there is the code that Redis holds, and its verification, which reads   *)
(* it and deletes it or writes it back.  Codes, sessions and passwords are *)
(* numbers in the order they are made.                                     *)
(***************************************************************************)
EXTENDS Integers, FiniteSets

CONSTANTS
    Requests,           \* requests in flight: threads of the API workers
    MaxCodes,           \* bound: codes mailed
    MaxReturned,        \* bound: codes put back before the last requests
    MaxAccepted,        \* bound: verifications accepted before the last requests
    MaxPasswords        \* bound: passwords sent by the user

ASSUME LoginConstants ==
    /\ IsFiniteSet(Requests)
    /\ MaxCodes \in Nat \ {0} /\ MaxReturned \in Nat
    /\ MaxAccepted \in Nat /\ MaxPasswords \in Nat \ {0}

None == 0
Passwords == 1..MaxPasswords
MaxSessions == MaxAccepted + Cardinality(Requests)
Sessions == 1..MaxSessions

VARIABLES
    useVault,           \* Vault is configured and the mode is not development
    code, mailed,       \* the code in Redis, and the last one mailed
    exists, verified, active,   \* the user's document
    hash,               \* its password_hash
    sessions,           \* otp_session:<id> in Redis
    opened,             \* the last session that was opened
    made,               \* the last password that was sent
    pc, kind,           \* next call of each request, and its endpoint
    saw,                \* the code a wrong guess has read
    hand, session,      \* its password, and its session
    tohash,             \* the password is to go into the document
    old,                \* the password that was good when it began
    returned,           \* history: how often a wrong guess has put a code back
    accepted,           \* history: verifications that were accepted
    uses,               \* history: passwords answered for each session
    resets,             \* history: codes exchanged for a reset
    dead,               \* history: passwords an answered change has replaced
    newest              \* history: where the last password was stored

user == <<exists, verified, active>>
stores == <<hash, newest>>
grants == <<sessions, opened>>
codes == <<code, mailed, returned, accepted>>
locals == <<pc, kind, saw, hand, session, tohash, old>>
answers == <<uses, resets, dead>>
vars == <<useVault, codes, user, stores, grants, made, locals, answers>>

PCs == {"idle", "count", "delete", "mark", "open", "find", "store", "write", "close"}
Kinds == {"none", "setup", "ticket", "reset"}

TypeOK ==
    /\ useVault \in BOOLEAN
    /\ code \in 0..MaxCodes /\ mailed \in 0..MaxCodes
    /\ exists \in BOOLEAN /\ verified \in BOOLEAN /\ active \in BOOLEAN
    /\ hash \in Passwords \union {None}
    /\ sessions \subseteq Sessions /\ opened \in 0..MaxSessions
    /\ made \in Passwords \union {None}
    /\ pc \in [Requests -> PCs] /\ kind \in [Requests -> Kinds]
    /\ saw \in [Requests -> 0..MaxCodes]
    /\ hand \in [Requests -> Passwords \union {None}]
    /\ session \in [Requests -> Sessions \union {None}]
    /\ tohash \in [Requests -> BOOLEAN]
    /\ old \in [Requests -> SUBSET Passwords]
    /\ returned \in Nat /\ accepted \in Nat /\ uses \in [Sessions -> Nat] /\ resets \in Nat
    /\ dead \subseteq Passwords /\ newest \in {"hash", "vault"}

\* A user that an administrator has created: no password, not verified.
Init ==
    /\ useVault \in BOOLEAN
    /\ code = None /\ mailed = 0
    /\ exists = TRUE /\ verified = FALSE /\ active = FALSE
    /\ hash = None /\ newest = "hash"
    /\ sessions = {} /\ opened = 0 /\ made = 0
    /\ pc = [r \in Requests |-> "idle"] /\ kind = [r \in Requests |-> "none"]
    /\ saw = [r \in Requests |-> None]
    /\ hand = [r \in Requests |-> None] /\ session = [r \in Requests |-> None]
    /\ tohash = [r \in Requests |-> FALSE] /\ old = [r \in Requests |-> {}]
    /\ returned = 0 /\ accepted = 0 /\ uses = [s \in Sessions |-> 0]
    /\ resets = 0 /\ dead = {}

-----------------------------------------------------------------------------
At(r, p) == pc[r] = p
Step(r, from, to) == At(r, from) /\ pc' = [pc EXCEPT ![r] = to]

Ends(r) ==
    /\ pc' = [pc EXCEPT ![r] = "idle"]
    /\ kind' = [kind EXCEPT ![r] = "none"]
    /\ saw' = [saw EXCEPT ![r] = None]
    /\ hand' = [hand EXCEPT ![r] = None]
    /\ session' = [session EXCEPT ![r] = None]
    /\ tohash' = [tohash EXCEPT ![r] = FALSE]
    /\ old' = [old EXCEPT ![r] = {}]

-----------------------------------------------------------------------------
(* The first code comes with the invitation, the next ones from send_otp and  *)
(* resend_otp, which does not look at the user; a code may be stored whose     *)
(* mail fails afterwards.  Redis drops a code at its expiry.                   *)

MailCode ==
    /\ mailed < MaxCodes
    /\ mailed' = mailed + 1 /\ code' = mailed + 1
    /\ UNCHANGED <<useVault, returned, accepted, user, stores, grants, made, locals, answers>>

CodeGone ==
    /\ code # None /\ code' = None
    /\ UNCHANGED <<useVault, mailed, returned, accepted, user, stores, grants, made, locals,
                   answers>>

(* verify_otp of OTPService: the right code is read, then deleted; after a   *)
(* wrong guess the code is written back, or marked as exhausted, over        *)
(* whatever Redis holds by then.                                             *)

ReadCode(r) ==
    /\ code # None /\ accepted < MaxAccepted
    /\ Step(r, "idle", "delete")
    /\ \E k \in {"setup", "ticket", "reset"} : kind' = [kind EXCEPT ![r] = k]
    /\ UNCHANGED <<useVault, codes, user, stores, grants, made, saw, hand, session,
                   tohash, old, answers>>

GuessWrong(r) ==
    /\ code # None /\ returned < MaxReturned
    /\ Step(r, "idle", "count")
    /\ saw' = [saw EXCEPT ![r] = code]
    /\ UNCHANGED <<useVault, codes, user, stores, grants, made, kind, hand, session,
                   tohash, old, answers>>

\* Mutant: the last code that was mailed is put back instead of the one it read.
CountGuess_Rereads(r) ==
    /\ At(r, "count") /\ Ends(r)
    /\ \/ code' = mailed /\ returned' = returned + 1
       \/ code' = None /\ UNCHANGED returned
    /\ UNCHANGED <<useVault, mailed, accepted, user, stores, grants, made, answers>>

CountGuess(r) ==
    /\ At(r, "count") /\ Ends(r)
    /\ \/ code' = saw[r] /\ returned' = returned + 1
       \/ code' = None /\ UNCHANGED returned
    /\ UNCHANGED <<useVault, mailed, accepted, user, stores, grants, made, answers>>

\* Mutant: the code is left to its expiry.
DeleteCode_Keeps(r) ==
    /\ Step(r, "delete", IF kind[r] = "setup" THEN "mark" ELSE "find")
    /\ accepted' = accepted + 1
    /\ UNCHANGED <<useVault, code, mailed, returned, user, stores, grants, made, kind, saw,
                   hand, session, tohash, old, answers>>

DeleteCode(r) ==
    /\ Step(r, "delete", IF kind[r] = "setup" THEN "mark" ELSE "find")
    /\ code' = None /\ accepted' = accepted + 1
    /\ UNCHANGED <<useVault, mailed, returned, user, stores, grants, made, kind, saw, hand,
                   session, tohash, old, answers>>

-----------------------------------------------------------------------------
(* verify-otp: the email is marked as verified, and a session opened.        *)

\* Mutant: the user is not marked.
MarkVerified_Not(r) ==
    /\ At(r, "mark")
    /\ \/ exists /\ Step(r, "mark", "open") /\ UNCHANGED <<kind, saw, hand, session, tohash, old>>
       \/ ~exists /\ Ends(r)
    /\ UNCHANGED <<useVault, codes, user, stores, grants, made, answers>>

MarkVerified(r) ==
    /\ At(r, "mark")
    /\ \/ /\ exists /\ Step(r, "mark", "open") /\ verified' = TRUE
          /\ UNCHANGED <<kind, saw, hand, session, tohash, old>>
       \/ ~exists /\ Ends(r) /\ UNCHANGED verified
    /\ UNCHANGED <<useVault, codes, exists, active, stores, grants, made, answers>>

\* Stored without an expiry; without Redis the answer has an id of nothing.
OpenSession(r) ==
    /\ At(r, "open") /\ Ends(r)
    /\ \/ opened' = opened + 1 /\ sessions' = sessions \union {opened + 1}
       \/ UNCHANGED <<opened, sessions>>
    /\ UNCHANGED <<useVault, codes, user, stores, made, answers>>

-----------------------------------------------------------------------------
(* set-initial-password and forgot-password/reset.                           *)

\* A password that is long enough; a shorter one ends the request here.
Sends(r) ==
    /\ made < MaxPasswords /\ made' = made + 1
    /\ hand' = [hand EXCEPT ![r] = made + 1]
    /\ old' = [old EXCEPT ![r] = {hash} \ {None}]

ReadSession(r) ==
    /\ Step(r, "idle", "store") /\ exists
    /\ \E s \in sessions : session' = [session EXCEPT ![r] = s]
    /\ kind' = [kind EXCEPT ![r] = "setup"]
    /\ Sends(r)
    /\ UNCHANGED <<useVault, codes, user, stores, grants, saw, tohash, answers>>

\* The code has been used up before the password is looked at.
FindUser(r) ==
    /\ At(r, "find") /\ kind[r] = "reset" /\ exists
    /\ Step(r, "find", "store") /\ Sends(r)
    /\ resets' = resets + 1
    /\ UNCHANGED <<useVault, codes, user, stores, grants, kind, saw, session, tohash,
                   uses, dead>>

\* forgot-password/verify-otp answers with a token that lacks the purpose which
\* forgot-password/reset-password asks for: it opens nothing.
GiveTicket(r) ==
    /\ At(r, "find") /\ kind[r] = "ticket" /\ Ends(r)
    /\ UNCHANGED <<useVault, codes, user, stores, grants, made, answers>>

\* create_user_in_vault: Vault first, and a hash where there is none or it fails.
StorePassword(r) ==
    /\ Step(r, "store", "write")
    /\ \/ useVault /\ newest' = "vault" /\ UNCHANGED tohash
       \/ tohash' = [tohash EXCEPT ![r] = TRUE] /\ UNCHANGED newest
    /\ UNCHANGED <<useVault, codes, user, hash, grants, made, kind, saw, hand, session,
                   old, answers>>

Stored(r) ==
    IF tohash[r] THEN hash' = hand[r] /\ newest' = "hash" ELSE UNCHANGED <<hash, newest>>

\* Mutant: a hash that is there already is kept.
WriteUser_FirstOnly(r) ==
    /\ \/ kind[r] = "setup" /\ Step(r, "write", "close")
          /\ (IF exists THEN active' = TRUE ELSE UNCHANGED active)
          /\ UNCHANGED <<kind, saw, hand, session, tohash, old, dead>>
       \/ /\ kind[r] # "setup" /\ At(r, "write") /\ Ends(r)
          /\ dead' = dead \union old[r] /\ UNCHANGED active
    /\ IF exists /\ hash = None THEN Stored(r) ELSE UNCHANGED <<hash, newest>>
    /\ UNCHANGED <<useVault, codes, exists, verified, grants, made, uses, resets>>

\* The update of the document: the setup activates the user, a reset does not.
WriteUser(r) ==
    /\ \/ kind[r] = "setup" /\ Step(r, "write", "close")
          /\ (IF exists THEN active' = TRUE ELSE UNCHANGED active)
          /\ UNCHANGED <<kind, saw, hand, session, tohash, old, dead>>
       \/ /\ kind[r] # "setup" /\ At(r, "write") /\ Ends(r)
          /\ dead' = dead \union old[r] /\ UNCHANGED active
    /\ IF exists THEN Stored(r) ELSE UNCHANGED <<hash, newest>>
    /\ UNCHANGED <<useVault, codes, exists, verified, grants, made, uses, resets>>

\* Mutant: the session is left for the next time.
CloseSession_Kept(r) ==
    /\ At(r, "close") /\ Ends(r)
    /\ uses' = [uses EXCEPT ![session[r]] = @ + 1]
    /\ dead' = dead \union old[r]
    /\ UNCHANGED <<useVault, codes, user, stores, grants, made, resets>>

CloseSession(r) ==
    /\ At(r, "close") /\ Ends(r)
    /\ sessions' = sessions \ {session[r]}
    /\ uses' = [uses EXCEPT ![session[r]] = @ + 1]
    /\ dead' = dead \union old[r]
    /\ UNCHANGED <<useVault, codes, user, stores, opened, made, resets>>

-----------------------------------------------------------------------------
\* The user is not found, the password is too short, a call raises, or the
\* worker dies.
Dies(r) ==
    /\ ~At(r, "idle") /\ Ends(r)
    /\ UNCHANGED <<useVault, codes, user, stores, grants, made, answers>>

DeleteUser ==
    /\ exists /\ exists' = FALSE
    /\ hash' = None
    /\ UNCHANGED <<useVault, codes, verified, active, newest, grants, made, locals, answers>>

Request(r) ==
    \/ ReadCode(r) \/ DeleteCode(r) \/ GuessWrong(r) \/ CountGuess(r)
    \/ MarkVerified(r) \/ OpenSession(r)
    \/ ReadSession(r) \/ FindUser(r) \/ GiveTicket(r)
    \/ StorePassword(r) \/ WriteUser(r) \/ CloseSession(r) \/ Dies(r)

Next ==
    \/ \E r \in Requests : Request(r)
    \/ MailCode \/ CodeGone \/ DeleteUser

Spec == Init /\ [][Next]_vars

-----------------------------------------------------------------------------
(* Properties.                                                              *)

\* "Session remains valid until password is set": once a session has been
\* answered with a password set, it is worth nothing.
UsedSessionRefused == \A s \in Sessions : uses[s] > 0 => s \notin sessions

Using(s) == {r \in Requests : session[r] = s}

\* The session is read and deleted in two calls, so overlapping requests may all
\* set a password with it, but no more than there are requests in flight.
SessionUsesBounded ==
    \A s \in Sessions : uses[s] + Cardinality(Using(s)) <= Cardinality(Requests)

\* Sessions and resets come from codes: one that was mailed, or that a wrong guess
\* has put back, is exchanged for no more of them than there are requests in
\* flight, which may all have read it before the first one deletes it.
GrantsNeedCodes == opened + resets <= Cardinality(Requests) * (mailed + returned)

\* Only a user whose email was verified is activated, whatever the order in which
\* overlapping verifications, setups and resets reach the document.
ActiveIsVerified == active => verified

\* login: the hash is compared if there is one; an invited user has neither the
\* password field of old nor the vault_user that would have Vault asked.
Accepts(p) == exists /\ hash # None /\ p = hash

\* A password that an answered change has replaced is refused from then on: but
\* for the hash that a Vault outage has left in the document, which later changes
\* in Vault do not reach.  Where there is no Vault it is always refused.
ReplacedIsRefused == \A p \in dead : Accepts(p) => useVault /\ newest = "vault"

\* The endpoints use the code as the register that OTPService implements as well:
\* no step of theirs does to it what OTPService does not do.
Held == {code} \ {None}

Right == {r \in Requests : pc[r] = "delete"}

Copies == [r \in Requests |-> IF pc[r] = "count" THEN {saw[r]} \ {None} ELSE {}]

Register == INSTANCE OtpRegister WITH
    Codes <- 1..MaxCodes, held <- Held, sent <- 1..mailed,
    right <- Right, copy <- Copies

KeepsRegister == Register!Spec
=============================================================================
