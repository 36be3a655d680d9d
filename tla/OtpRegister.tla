----------------------------- MODULE OtpRegister -----------------------------
(***************************************************************************)
(* The one-time code of one user, without its clock, counters and limits:  *)
(* what OTPService promises to the endpoints that use it.  A pending code  *)
(* is there or not; a verification first reads it and then, in a call of   *)
(* its own, either deletes it and accepts, or puts back what it has read.  *)
(***************************************************************************)
CONSTANTS Requests, Codes

VARIABLES
    held,           \* the pending code: no code or one
    sent,           \* codes that were made
    right,          \* requests that have read the code and guessed right
    copy            \* the code a wrong guess has read and will put back

rvars == <<held, sent, right, copy>>

Init ==
    /\ held = {} /\ sent = {} /\ right = {}
    /\ copy = [r \in Requests |-> {}]

Free(r) == r \notin right /\ copy[r] = {}

\* A new code, never drawn before, replaces the one there was.
Make(c) ==
    /\ c \notin sent
    /\ sent' = sent \union {c} /\ held' = {c}
    /\ UNCHANGED <<right, copy>>

\* Expired, or deleted for a new one.
Gone ==
    /\ held' = {}
    /\ UNCHANGED <<sent, right, copy>>

ReadRight(r) ==
    /\ held # {} /\ Free(r)
    /\ right' = right \union {r}
    /\ UNCHANGED <<held, sent, copy>>

ReadWrong(r) ==
    /\ held # {} /\ Free(r)
    /\ copy' = [copy EXCEPT ![r] = held]
    /\ UNCHANGED <<held, sent, right>>

\* Accepted: whatever code there is by now is deleted.
Accept(r) ==
    /\ r \in right /\ right' = right \ {r}
    /\ held' = {}
    /\ UNCHANGED <<sent, copy>>

\* The wrong guess is counted: what it read is pending again, or was exhausted.
PutBack(r) ==
    /\ copy[r] # {} /\ copy' = [copy EXCEPT ![r] = {}]
    /\ held' \in {copy[r], {}}
    /\ UNCHANGED <<sent, right>>

\* The request fails between its two calls.
GiveUp(r) ==
    /\ right' = right \ {r} /\ copy' = [copy EXCEPT ![r] = {}]
    /\ UNCHANGED <<held, sent>>

Next ==
    \/ Gone \/ \E c \in Codes : Make(c)
    \/ \E r \in Requests :
          ReadRight(r) \/ ReadWrong(r) \/ Accept(r) \/ PutBack(r) \/ GiveUp(r)

Spec == Init /\ [][Next]_rvars
=============================================================================
