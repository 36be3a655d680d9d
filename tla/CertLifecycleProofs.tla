------------------------- MODULE CertLifecycleProofs -------------------------
(***************************************************************************)
(* Theorems about CertLifecycle for every number of requests and serials.  *)
(***************************************************************************)
EXTENDS CertLifecycle, TLAPS

(***************************************************************************)
(* Type correctness.  It includes that the broker's CRL holds only revoked *)
(* serials, and Vault revokes only serials it issued.                      *)
(***************************************************************************)
LEMMA InitTypeOK == Init => TypeOK
  BY NoSerialAssumption DEF Init, TypeOK, SerialOrNone, PCs

\* The registers keep their types when a request returns.
LEMMA EndsType ==
    ASSUME TypeOK, NEW w \in Workers, Ends(w)
    PROVE  /\ pc' \in [Workers -> PCs]
           /\ old' \in [Workers -> SerialOrNone]
           /\ new' \in [Workers -> SerialOrNone]
           /\ auto' \in [Workers -> BOOLEAN]
  BY DEF TypeOK, Ends, SerialOrNone, PCs

\* Every step of every request keeps the types, a failing one included.
LEMMA StepTypeOK == TypeOK /\ [Next]_vars => TypeOK'
<1> SUFFICES ASSUME TypeOK, [Next]_vars PROVE TypeOK'
  OBVIOUS
<1> USE DEF TypeOK, record, vault
<1>1. CASE RefreshCrl
  BY <1>1 DEF RefreshCrl, locals
<1>2. ASSUME NEW w \in Workers, Request(w) PROVE TypeOK'
  <2>1. CASE StartRevoke(w)
    BY <2>1 DEF StartRevoke, GoTo, Remember, SerialOrNone, PCs
  <2>2. CASE RevokeInVault(w)
    BY <2>2 DEF RevokeInVault, GoTo, RevokeSerialInVault, PCs
  <2>3. CASE FlipStatus(w)
    BY <2>3 DEF FlipStatus, GoTo, FlipRecord, PCs
  <2>4. CASE LogRevocation(w)
    <3>1. [serial |-> old[w], vault |-> TRUE] \in [serial : SerialOrNone, vault : BOOLEAN]
      OBVIOUS
    <3> QED
      BY <2>4, <3>1, EndsType DEF LogRevocation
  <2>5. CASE StartBulkRevoke(w)
    BY <2>5 DEF StartBulkRevoke, GoTo, Remember, SerialOrNone, PCs
  <2>6. CASE BulkFlip(w)
    BY <2>6 DEF BulkFlip, GoTo, FlipRecord, PCs
  <2>7. CASE BulkLog(w)
    <3>1. [serial |-> old[w], vault |-> FALSE] \in [serial : SerialOrNone, vault : BOOLEAN]
      OBVIOUS
    <3> QED
      BY <2>7, <3>1, EndsType DEF BulkLog
  <2>8. CASE StartIssue(w)
    BY <2>8 DEF StartIssue, GoTo, PCs
  <2>9. CASE IssueInVault(w)
    BY <2>9 DEF IssueInVault, GoTo, VaultIssues, SerialOrNone, PCs
  <2>10. CASE AnswerLost(w)
    BY <2>10 DEF AnswerLost, locals
  <2>11. CASE IssueLocally(w)
    BY <2>11 DEF IssueLocally, GoTo, SerialOrNone, PCs
  <2>12. CASE IssueStore(w)
    BY <2>12, EndsType DEF IssueStore, StoreCertificate
  <2>13. CASE FallBackToRenew(w)
    BY <2>13 DEF FallBackToRenew, SerialOrNone, PCs
  <2>14. CASE RenewIssue(w)
    BY <2>14 DEF RenewIssue, GoTo, VaultIssues, SerialOrNone, PCs
  <2>15. CASE RenewStoreInfo(w)
    BY <2>15 DEF RenewStoreInfo, GoTo, StoreCertificate, PCs
  <2>16. CASE RenewStoreSummary(w)
    BY <2>16, EndsType DEF RenewStoreSummary, StoreCertificate
  <2>17. CASE StartSign(w)
    BY <2>17 DEF StartSign, GoTo, Remember, SerialOrNone, PCs
  <2>18. CASE SignInVault(w)
    BY <2>18 DEF SignInVault, GoTo, VaultIssues, SerialOrNone, PCs
  <2>19. CASE SignStore(w)
    BY <2>19 DEF SignStore, GoTo, StoreCertificate, SerialOrNone, PCs
  <2>20. CASE SignLog(w)
    BY <2>20, EndsType DEF SignLog, GoTo, PCs
  <2>21. CASE SignRevokeOld(w)
    BY <2>21, EndsType DEF SignRevokeOld, RevokeSerialInVault
  <2>22. CASE RequestFails(w)
    BY <2>22, EndsType DEF RequestFails
  <2> QED
    BY <1>2, <2>1, <2>2, <2>3, <2>4, <2>5, <2>6, <2>7, <2>8, <2>9, <2>10,
       <2>11, <2>12, <2>13, <2>14, <2>15, <2>16, <2>17, <2>18, <2>19, <2>20,
       <2>21, <2>22 DEF Request
<1>3. CASE UNCHANGED vars
  BY <1>3 DEF vars, locals
<1> QED
  BY <1>1, <1>2, <1>3 DEF Next

\* Every reachable state is well typed: the gates and the CRL only ever see
\* serials that exist, whatever requests run, fail or overlap.
THEOREM TypeCorrect == Spec => []TypeOK
<1> QED
  BY InitTypeOK, StepTypeOK, PTL DEF Spec
-----------------------------------------------------------------------------
(***************************************************************************)
(* Between Vault's answer and the log entry, the revoke request holds a    *)
(* serial that is revoked already; Vault never un-revokes.                 *)
(***************************************************************************)
RevocationInv ==
    /\ LoggedRevocationsHold
    /\ \A w \in Workers :
          pc[w] \in {"revoke_flip", "revoke_log"} => old[w] \in vaultRevoked

\* RevocationInv is inductive: old[w] does not change between Vault's answer and
\* the log entry, and a revocation in Vault is never undone.
LEMMA StepRevocationInv ==
    TypeOK /\ RevocationInv /\ [Next]_vars => RevocationInv'
<1> SUFFICES ASSUME TypeOK, RevocationInv, [Next]_vars PROVE RevocationInv'
  OBVIOUS
<1> USE DEF TypeOK, RevocationInv, LoggedRevocationsHold, vault
<1>1. CASE RefreshCrl
  BY <1>1 DEF RefreshCrl, locals
<1>2. ASSUME NEW w \in Workers, Request(w) PROVE RevocationInv'
  <2>1. CASE StartRevoke(w)
    BY <2>1 DEF StartRevoke, GoTo, Remember
  <2>2. CASE RevokeInVault(w)
    BY <2>2 DEF RevokeInVault, GoTo, RevokeSerialInVault
  <2>3. CASE FlipStatus(w)
    BY <2>3 DEF FlipStatus, GoTo, FlipRecord
  <2>4. CASE LogRevocation(w)
    BY <2>4 DEF LogRevocation, Ends
  <2>5. CASE StartBulkRevoke(w)
    BY <2>5 DEF StartBulkRevoke, GoTo, Remember
  <2>6. CASE BulkFlip(w)
    BY <2>6 DEF BulkFlip, GoTo, FlipRecord
  <2>7. CASE BulkLog(w)
    BY <2>7 DEF BulkLog, Ends
  <2>8. CASE StartIssue(w)
    BY <2>8 DEF StartIssue, GoTo
  <2>9. CASE IssueInVault(w)
    BY <2>9 DEF IssueInVault, GoTo, VaultIssues
  <2>10. CASE AnswerLost(w)
    BY <2>10 DEF AnswerLost, locals
  <2>11. CASE IssueLocally(w)
    BY <2>11 DEF IssueLocally, GoTo
  <2>12. CASE IssueStore(w)
    BY <2>12 DEF IssueStore, Ends, StoreCertificate
  <2>13. CASE FallBackToRenew(w)
    BY <2>13 DEF FallBackToRenew
  <2>14. CASE RenewIssue(w)
    BY <2>14 DEF RenewIssue, GoTo, VaultIssues
  <2>15. CASE RenewStoreInfo(w)
    BY <2>15 DEF RenewStoreInfo, GoTo, StoreCertificate
  <2>16. CASE RenewStoreSummary(w)
    BY <2>16 DEF RenewStoreSummary, Ends, StoreCertificate
  <2>17. CASE StartSign(w)
    BY <2>17 DEF StartSign, GoTo, Remember
  <2>18. CASE SignInVault(w)
    BY <2>18 DEF SignInVault, GoTo, VaultIssues
  <2>19. CASE SignStore(w)
    BY <2>19 DEF SignStore, GoTo, StoreCertificate
  <2>20. CASE SignLog(w)
    BY <2>20 DEF SignLog, GoTo, Ends
  <2>21. CASE SignRevokeOld(w)
    BY <2>21 DEF SignRevokeOld, Ends, RevokeSerialInVault
  <2>22. CASE RequestFails(w)
    BY <2>22 DEF RequestFails, Ends
  <2> QED
    BY <1>2, <2>1, <2>2, <2>3, <2>4, <2>5, <2>6, <2>7, <2>8, <2>9, <2>10,
       <2>11, <2>12, <2>13, <2>14, <2>15, <2>16, <2>17, <2>18, <2>19, <2>20,
       <2>21, <2>22 DEF Request
<1>3. CASE UNCHANGED vars
  BY <1>3 DEF vars, locals
<1> QED
  BY <1>1, <1>2, <1>3 DEF Next

\* A log entry marked vault_revoked is about a serial that Vault has revoked,
\* for any number of overlapping and failing requests.
THEOREM LoggedRevocationsAreHeld == Spec => []LoggedRevocationsHold
<1>1. Init => RevocationInv
  BY DEF Init, RevocationInv, LoggedRevocationsHold
<1>2. RevocationInv => LoggedRevocationsHold
  BY DEF RevocationInv
<1> QED
  BY <1>1, <1>2, StepRevocationInv, TypeCorrect, PTL DEF Spec
-----------------------------------------------------------------------------
(***************************************************************************)
(* Every step of CertLifecycle is a step of the revocation promise or none *)
(* of its business.                                                        *)
(***************************************************************************)
Reported == {e.serial : e \in {x \in revocationLog : x.vault}}

\* A log entry marked vault_revoked adds its serial, and only it, to the
\* reported ones.
LEMMA ReportedWith ==
    ASSUME NEW log, NEW s
    PROVE  {e.serial : e \in {x \in log \union {[serial |-> s, vault |-> TRUE]} : x.vault}}
             = {e.serial : e \in {x \in log : x.vault}} \union {s}
<1> DEFINE entry == [serial |-> s, vault |-> TRUE]
<1>1. entry.serial = s /\ entry.vault
  OBVIOUS
<1>2. {x \in log \union {entry} : x.vault} = {x \in log : x.vault} \union {entry}
  BY <1>1
<1> HIDE DEF entry
<1>3. {e.serial : e \in {x \in log : x.vault} \union {entry}}
        = {e.serial : e \in {x \in log : x.vault}} \union {entry.serial}
  OBVIOUS
<1> QED
  BY <1>1, <1>2, <1>3 DEF entry

\* Every step is a step of the promise or leaves its three sets as they are.
LEMMA StepKeepsPromise ==
    ASSUME TypeOK, RevocationInv, [Next]_vars
    PROVE  [Promise!Next]_(Promise!pvars)
<1> USE DEF Promise!pvars, vault
<1>1. CASE RefreshCrl
  BY <1>1 DEF RefreshCrl, Promise!Next, Promise!Enforce
<1>2. ASSUME NEW w \in Workers, Request(w)
      PROVE  [Promise!Next]_(Promise!pvars)
  <2>1. CASE RevokeInVault(w) \/ SignRevokeOld(w)
    <3>1. old[w] \in Serials /\ vaultRevoked' = vaultRevoked \union {old[w]}
          /\ UNCHANGED <<crl, revocationLog>>
      BY <2>1 DEF TypeOK, RevokeInVault, SignRevokeOld, RevokeSerialInVault
    <3>2. Promise!Revoke(old[w])
      BY <3>1 DEF Promise!Revoke
    <3> QED
      BY <3>1, <3>2 DEF Promise!Next
  <2>2. CASE LogRevocation(w)
    <3>1. /\ old[w] \in vaultRevoked /\ old[w] \in Serials
          /\ revocationLog' = revocationLog \union {[serial |-> old[w], vault |-> TRUE]}
          /\ UNCHANGED <<vaultRevoked, crl>>
      BY <2>2 DEF TypeOK, RevocationInv, LogRevocation
    <3>2. Reported' = Reported \union {old[w]}
      BY <3>1, ReportedWith DEF Reported
    <3>3. \E s \in Serials : Promise!Report(s)
      BY <3>1, <3>2 DEF Promise!Report, Reported
    <3>4. Promise!Next
      BY <3>3 DEF Promise!Next
    <3> QED
      BY <3>4
  <2>3. CASE BulkLog(w)
    <3>1. /\ revocationLog' = revocationLog \union {[serial |-> old[w], vault |-> FALSE]}
          /\ UNCHANGED <<vaultRevoked, crl>>
      BY <2>3 DEF BulkLog
    <3>2. Reported' = Reported
      BY <3>1 DEF Reported, TypeOK
    <3> QED
      BY <3>1, <3>2 DEF Reported
  <2>4. CASE StartRevoke(w)
    BY <2>4 DEF StartRevoke
  <2>5. CASE FlipStatus(w)
    BY <2>5 DEF FlipStatus
  <2>6. CASE StartBulkRevoke(w)
    BY <2>6 DEF StartBulkRevoke
  <2>7. CASE BulkFlip(w)
    BY <2>7 DEF BulkFlip
  <2>8. CASE StartIssue(w)
    BY <2>8 DEF StartIssue
  <2>9. CASE IssueInVault(w)
    BY <2>9 DEF IssueInVault, VaultIssues
  <2>10. CASE AnswerLost(w)
    BY <2>10 DEF AnswerLost
  <2>11. CASE IssueLocally(w)
    BY <2>11 DEF IssueLocally
  <2>12. CASE IssueStore(w)
    BY <2>12 DEF IssueStore
  <2>13. CASE FallBackToRenew(w)
    BY <2>13 DEF FallBackToRenew
  <2>14. CASE RenewIssue(w)
    BY <2>14 DEF RenewIssue, VaultIssues
  <2>15. CASE RenewStoreInfo(w)
    BY <2>15 DEF RenewStoreInfo
  <2>16. CASE RenewStoreSummary(w)
    BY <2>16 DEF RenewStoreSummary
  <2>17. CASE StartSign(w)
    BY <2>17 DEF StartSign
  <2>18. CASE SignInVault(w)
    BY <2>18 DEF SignInVault, VaultIssues
  <2>19. CASE SignStore(w)
    BY <2>19 DEF SignStore
  <2>20. CASE SignLog(w)
    BY <2>20 DEF SignLog
  <2>21. CASE RequestFails(w)
    BY <2>21 DEF RequestFails
  <2> QED
    BY <1>2, <2>1, <2>2, <2>3, <2>4, <2>5, <2>6, <2>7, <2>8, <2>9, <2>10,
       <2>11, <2>12, <2>13, <2>14, <2>15, <2>16, <2>17, <2>18, <2>19,
       <2>20, <2>21
       DEF Request
<1>3. CASE UNCHANGED vars
  BY <1>3 DEF vars
<1> QED
  BY <1>1, <1>2, <1>3 DEF Next

\* The requests keep the safety part of the revocation promise: Vault's set
\* only grows, a serial is reported only after Vault revoked it, the broker
\* refuses what Vault has revoked and nothing else.
THEOREM PromiseIsKept == Spec => Promise!SafeSpec
<1>1. Init => Promise!Init
  BY DEF Init, Promise!Init
<1>2. Init => RevocationInv
  BY DEF Init, RevocationInv, LoggedRevocationsHold
<1> QED
  BY <1>1, <1>2, StepKeepsPromise, StepRevocationInv, TypeCorrect, PTL
     DEF Spec, Promise!SafeSpec
-----------------------------------------------------------------------------
\* The broker never accepts again what its CRL has refused, and its next refresh
\* refuses everything that was logged as revoked in Vault by then.
EnforcedForGood ==
    /\ crl \subseteq crl' /\ \A s \in crl : ~MqttAccepts(s)'
    /\ RefreshCrl => \A e \in revocationLog : e.vault => ~MqttAccepts(e.serial)'

\* What VaultRevocationReachesBroker rests on, whatever the requests do to the
\* record: with a timer that keeps running, every logged revocation is enforced
\* from some refresh on.
THEOREM RefreshEnforces == Spec => [][EnforcedForGood]_vars
<1>1. TypeOK /\ TypeOK' /\ LoggedRevocationsHold /\ [Next]_vars => [EnforcedForGood]_vars
  <2> SUFFICES ASSUME TypeOK, TypeOK', LoggedRevocationsHold, [Next]_vars
               PROVE  EnforcedForGood
    OBVIOUS
  <2>1. crl' = vaultRevoked \/ crl' = crl
    BY DEF Next, Request, RefreshCrl, StartRevoke, RevokeInVault, FlipStatus,
       LogRevocation, StartBulkRevoke, BulkFlip, BulkLog, StartIssue, IssueInVault,
       AnswerLost, IssueLocally, IssueStore, FallBackToRenew, RenewIssue,
       RenewStoreInfo, RenewStoreSummary, StartSign, SignInVault, SignStore, SignLog,
       SignRevokeOld, RequestFails, vars
  <2>2. crl \subseteq crl'
    BY <2>1 DEF TypeOK
  <2>3. RefreshCrl => \A e \in revocationLog : e.vault => e.serial \in crl'
    BY DEF RefreshCrl, LoggedRevocationsHold
  <2> QED
    BY <2>2, <2>3 DEF EnforcedForGood, MqttAccepts
<1> QED
  BY <1>1, TypeCorrect, LoggedRevocationsAreHeld, PTL DEF Spec
-----------------------------------------------------------------------------
(***************************************************************************)
(* With the roles as shipped the legacy renewal never gets a certificate,  *)
(* every serial is written to the record once, and CertInv is inductive.   *)
(***************************************************************************)
\* CertInv is inductive with the shipped roles.
LEMMA StepCertInv ==
    ASSUME ~LegacyRoleIssues, TypeOK, CertInv, [Next]_vars
    PROVE  CertInv'
<1> USE NoSerialAssumption
    DEF TypeOK, CertInv, Pending, PendingIsFresh, WasRecorded, Retired,
        SerialOrNone, record, vault
<1>1. CASE RefreshCrl
  BY <1>1 DEF RefreshCrl, locals
<1>2. ASSUME NEW w \in Workers, Request(w) PROVE CertInv'
  <2>1. CASE StartRevoke(w)
    BY <2>1 DEF StartRevoke, GoTo, Remember
  <2>2. CASE RevokeInVault(w)
    BY <2>2 DEF RevokeInVault, GoTo, RevokeSerialInVault
  <2>3. CASE FlipStatus(w)
    BY <2>3 DEF FlipStatus, GoTo, FlipRecord
  <2>4. CASE LogRevocation(w)
    BY <2>4 DEF LogRevocation, Ends
  <2>5. CASE StartBulkRevoke(w)
    BY <2>5 DEF StartBulkRevoke, GoTo, Remember
  <2>6. CASE BulkFlip(w)
    BY <2>6 DEF BulkFlip, GoTo, FlipRecord
  <2>7. CASE BulkLog(w)
    BY <2>7 DEF BulkLog, Ends
  <2>8. CASE StartIssue(w)
    BY <2>8 DEF StartIssue, GoTo
  <2>9. CASE IssueInVault(w)
    BY <2>9 DEF IssueInVault, GoTo, VaultIssues
  <2>10. CASE AnswerLost(w)
    BY <2>10 DEF AnswerLost, locals
  <2>11. CASE IssueLocally(w)
    BY <2>11 DEF IssueLocally, GoTo
  <2>12. CASE IssueStore(w)
    BY <2>12 DEF IssueStore, Ends, StoreCertificate
  <2>13. CASE FallBackToRenew(w)
    BY <2>13 DEF FallBackToRenew
  <2>14. CASE RenewIssue(w)
    BY <2>14 DEF RenewIssue, GoTo, VaultIssues
  <2>15. CASE RenewStoreInfo(w)
    BY <2>15 DEF RenewStoreInfo, GoTo, StoreCertificate
  <2>16. CASE RenewStoreSummary(w)
    BY <2>16 DEF RenewStoreSummary, Ends, StoreCertificate
  <2>17. CASE StartSign(w)
    BY <2>17 DEF StartSign, GoTo, Remember
  <2>18. CASE SignInVault(w)
    BY <2>18 DEF SignInVault, GoTo, VaultIssues
  <2>19. CASE SignStore(w)
    BY <2>19 DEF SignStore, GoTo, StoreCertificate
  <2>20. CASE SignLog(w)
    BY <2>20 DEF SignLog, GoTo, Ends
  <2>21. CASE SignRevokeOld(w)
    BY <2>21 DEF SignRevokeOld, Ends, RevokeSerialInVault
  <2>22. CASE RequestFails(w)
    BY <2>22 DEF RequestFails, Ends
  <2> QED
    BY <1>2, <2>1, <2>2, <2>3, <2>4, <2>5, <2>6, <2>7, <2>8, <2>9, <2>10,
       <2>11, <2>12, <2>13, <2>14, <2>15, <2>16, <2>17, <2>18, <2>19, <2>20,
       <2>21, <2>22 DEF Request
<1>3. CASE UNCHANGED vars
  BY <1>3 DEF vars, locals
<1> QED
  BY <1>1, <1>2, <1>3 DEF Next

\* CertInv holds in every reachable state when Vault's device-cert role does
\* not issue keys.
THEOREM CertInvHolds == ASSUME ~LegacyRoleIssues PROVE Spec => []CertInv
<1>1. Init => CertInv
  BY NoSerialAssumption
     DEF Init, CertInv, Pending, WasRecorded, Retired
<1>2. TypeOK /\ CertInv /\ [Next]_vars => CertInv'
  BY StepCertInv
<1> QED
  BY <1>1, <1>2, TypeCorrect, PTL DEF Spec

\* A serial with any revocation on record never passes the HTTPS gate again,
\* for any number of overlapping and failing requests.
THEOREM LoggedAreDenied == ASSUME ~LegacyRoleIssues PROVE Spec => []HttpDeniesLogged
<1>1. CertInv => HttpDeniesLogged
  BY NoSerialAssumption
     DEF CertInv, HttpDeniesLogged, HttpAccepts, WasRecorded, Retired
<1> QED
  BY <1>1, CertInvHolds, PTL

\* A signing request never revokes the certificate the record now carries.
THEOREM CurrentIsSpared == ASSUME ~LegacyRoleIssues PROVE Spec => []AutoRevokeSparesCurrent
<1>1. CertInv => AutoRevokeSparesCurrent
  BY DEF CertInv, AutoRevokeSparesCurrent
<1> QED
  BY <1>1, CertInvHolds, PTL

-----------------------------------------------------------------------------
\* The step that makes a revoked record valid brings a serial of its own.
FreshAgain == status = "revoked" /\ status' = "valid" =>
                  serial' # serial /\ serial' \notin vaultRevoked'

\* The two writes that make a record valid bring a serial nobody else knew.
LEMMA StepFreshAgain ==
    ASSUME TypeOK, CertInv, [Next]_vars
    PROVE  FreshAgain
<1> USE DEF FreshAgain
<1>1. CASE RefreshCrl \/ UNCHANGED vars
  BY <1>1 DEF RefreshCrl, record, vars
<1>2. ASSUME NEW w \in Workers, Request(w) PROVE FreshAgain
  <2>1. CASE IssueStore(w) \/ SignStore(w)
    <3>1. Pending(w) /\ serial' = new[w] /\ vaultRevoked' = vaultRevoked
      BY <2>1 DEF IssueStore, SignStore, StoreCertificate, Pending, GoTo, vault
    <3> QED
      BY <3>1 DEF CertInv, PendingIsFresh
  <2>2. CASE RenewStoreInfo(w) \/ RenewStoreSummary(w)
    BY <2>2 DEF RenewStoreInfo, RenewStoreSummary, GoTo, CertInv
  <2>3. CASE FlipStatus(w) \/ BulkFlip(w)
    BY <2>3 DEF FlipStatus, BulkFlip, FlipRecord
  <2>4. CASE UNCHANGED record
    BY <2>4 DEF record
  <2> QED
    BY <1>2, <2>1, <2>2, <2>3, <2>4
       DEF Request, StartRevoke, RevokeInVault, LogRevocation,
          StartBulkRevoke, BulkLog, StartIssue, IssueInVault,
          AnswerLost, IssueLocally, FallBackToRenew, RenewIssue,
          StartSign, SignInVault, SignLog, SignRevokeOld, RequestFails
<1> QED
  BY <1>1, <1>2 DEF Next

\* A record that was revoked becomes valid again only with a serial that is
\* neither the one revoked nor any other that Vault has revoked.
THEOREM ValidAgainIsFresh ==
    ASSUME ~LegacyRoleIssues PROVE Spec => ValidAgainOnlyWithFreshCert
<1>1. TypeOK /\ CertInv /\ [Next]_vars => [FreshAgain]_vars
  BY StepFreshAgain
<1> QED
  BY <1>1, TypeCorrect, CertInvHolds, PTL
     DEF Spec, ValidAgainOnlyWithFreshCert, FreshAgain

-----------------------------------------------------------------------------
(***************************************************************************)
(* Where the two promises break that the code does not keep.               *)
(***************************************************************************)
\* What a broker that still accepts a serial after its revocation was logged tells
\* of the device: the record carries another certificate by now, and a revocation
\* made in Vault only waits for the broker's next copy of the CRL.
AcceptedAfterLog ==
    \A e \in revocationLog : e.serial \in Serials /\ MqttAccepts(e.serial) =>
        /\ serial # e.serial /\ status # "revoked"
        /\ e.vault => e.serial \in vaultRevoked \ crl

\* A logged serial connects over MQTT only once the device was given a new
\* certificate: without that the record's status keeps it out.
THEOREM BrokerGapIsReissue ==
    ASSUME ~LegacyRoleIssues PROVE Spec => []AcceptedAfterLog
<1>1. CertInv /\ LoggedRevocationsHold => AcceptedAfterLog
  BY NoSerialAssumption
     DEF CertInv, LoggedRevocationsHold, AcceptedAfterLog, MqttAccepts, Retired
<1> QED
  BY <1>1, CertInvHolds, LoggedRevocationsAreHeld, PTL

\* A request has replaced s in the record and is on its way to revoke it.
InCharge(w, s) ==
    auto[w] /\ old[w] = s /\ pc[w] \in {"sign_log", "sign_revoke"}

\* Superseded, not revoked in Vault, and nobody will do it any more.
Forgotten(s) ==
    s \in superseded \ vaultRevoked /\ \A w \in Workers : ~InCharge(w, s)

\* The three ways a superseded certificate is forgotten. The request in charge of
\* it fails: Vault refuses or the process dies after the record was replaced.
FailsInCharge(w, s) == RequestFails(w) /\ InCharge(w, s)

\* The signing that replaces it had read no serial at its start, because certificate_info
\* held no PEM then (as after an issue): it revokes nothing and answers success.
ReadNone(w, s) ==
    SignStore(w) /\ auto[w] /\ serial = s /\ old[w] = NoSerial

\* The signing that replaces it had read another serial at its start, because a
\* request that overlaps it replaced the record since: it revokes that one.
ReadAnother(w, s) ==
    SignStore(w) /\ auto[w] /\ serial = s /\ old[w] \notin {s, NoSerial}

LosesOld(s) ==
    \E w \in Workers : FailsInCharge(w, s) \/ ReadNone(w, s) \/ ReadAnother(w, s)

ForgottenOnlySo == \A s \in Serials : Forgotten(s)' => Forgotten(s) \/ LosesOld(s)

\* Whoever is in charge of a serial stays so, unless it returns.
LEMMA ChargeKept ==
    ASSUME NEW s, NEW v \in Workers, InCharge(v, s),
           UNCHANGED <<pc[v], old[v], auto[v]>>
    PROVE  InCharge(v, s)'
  BY DEF InCharge

\* No other step forgets a superseded certificate.
LEMMA StepForgottenOnlySo ==
    ASSUME TypeOK, [Next]_vars
    PROVE  ForgottenOnlySo
<1> SUFFICES ASSUME NEW s \in Serials, ~Forgotten(s), ~LosesOld(s)
             PROVE  ~Forgotten(s)'
  BY DEF ForgottenOnlySo
<1> USE DEF TypeOK
<1>1. CASE RefreshCrl \/ UNCHANGED vars
  BY <1>1 DEF RefreshCrl, vars, vault, locals, Forgotten, InCharge
<1>2. ASSUME NEW w \in Workers, Request(w) PROVE ~Forgotten(s)'
  <2>1. \A v \in Workers \ {w} :
            pc'[v] = pc[v] /\ old'[v] = old[v] /\ auto'[v] = auto[v]
    BY <1>2 DEF Request, StartRevoke, RevokeInVault, FlipStatus, LogRevocation,
       StartBulkRevoke, BulkFlip, BulkLog, StartIssue, IssueInVault, AnswerLost,
       IssueLocally, IssueStore, FallBackToRenew, RenewIssue, RenewStoreInfo,
       RenewStoreSummary, StartSign, SignInVault, SignStore, SignLog,
       SignRevokeOld, RequestFails, GoTo, Ends, Remember, VaultIssues, locals
  <2>2. vaultRevoked \subseteq vaultRevoked'
    BY <1>2 DEF Request, StartRevoke, RevokeInVault, FlipStatus, LogRevocation,
       StartBulkRevoke, BulkFlip, BulkLog, StartIssue, IssueInVault, AnswerLost,
       IssueLocally, IssueStore, FallBackToRenew, RenewIssue, RenewStoreInfo,
       RenewStoreSummary, StartSign, SignInVault, SignStore, SignLog,
       SignRevokeOld, RequestFails, VaultIssues, RevokeSerialInVault, vault
  <2>3. CASE SignStore(w)
    <3>1. /\ pc'[w] = "sign_log" /\ old'[w] = old[w] /\ auto'[w] = auto[w]
          /\ pc[w] = "sign_store"
          /\ superseded' = superseded \union
                IF auto[w] /\ serial # NoSerial THEN {serial} ELSE {}
      BY <2>3 DEF SignStore, GoTo
    <3>2. CASE s \in superseded
      BY <2>1, <2>2, <3>1, <3>2 DEF Forgotten, InCharge
    <3>3. CASE s \notin superseded /\ auto[w] /\ serial = s
      <4>1. old[w] = s
        BY <2>3, <3>3 DEF LosesOld, ReadNone, ReadAnother
      <4> QED
        BY <3>1, <3>3, <4>1 DEF Forgotten, InCharge
    <3> QED
      BY <3>1, <3>2, <3>3 DEF Forgotten
  <2>4. CASE ~SignStore(w)
    <3>1. superseded' = superseded
      BY <1>2, <2>4 DEF Request, StartRevoke, RevokeInVault, FlipStatus,
         LogRevocation, StartBulkRevoke, BulkFlip, BulkLog, StartIssue,
         IssueInVault, AnswerLost, IssueLocally, IssueStore, FallBackToRenew,
         RenewIssue, RenewStoreInfo, RenewStoreSummary, StartSign, SignInVault,
         SignLog, SignRevokeOld, RequestFails
    <3>2. ASSUME InCharge(w, s) PROVE s \in vaultRevoked' \/ InCharge(w, s)'
      <4>1. CASE SignLog(w)
        BY <3>2, <4>1, NoSerialAssumption DEF SignLog, InCharge, GoTo
      <4>2. CASE SignRevokeOld(w)
        BY <3>2, <4>2 DEF SignRevokeOld, RevokeSerialInVault, InCharge
      <4>3. CASE RequestFails(w)
        BY <3>2, <4>3 DEF LosesOld, FailsInCharge
      <4> QED
        BY <1>2, <2>4, <3>2, <4>1, <4>2, <4>3 DEF Request, StartRevoke, RevokeInVault,
           FlipStatus, LogRevocation, StartBulkRevoke, BulkFlip, BulkLog,
           StartIssue, IssueInVault, AnswerLost, IssueLocally, IssueStore,
           FallBackToRenew, RenewIssue, RenewStoreInfo, RenewStoreSummary,
           StartSign, SignInVault, GoTo, InCharge
    <3> QED
      BY <2>1, <2>2, <3>1, <3>2 DEF Forgotten, InCharge
  <2> QED
    BY <2>3, <2>4
<1> QED
  BY <1>1, <1>2 DEF Next

\* A signing that was told to revoke the old certificate leaves it valid in Vault
\* in three ways only: it fails before its last call, its first read of the record
\* found no PEM in certificate_info, or the record was replaced between that read and its write.
THEOREM ForgottenThreeWays == Spec => [][ForgottenOnlySo]_vars
<1>1. TypeOK /\ [Next]_vars => [ForgottenOnlySo]_vars
  BY StepForgottenOnlySo
<1> QED
  BY <1>1, TypeCorrect, PTL DEF Spec

\* Where none of the three happens, the promise holds: every certificate that was replaced
\* with revoke_old is revoked in Vault, or the request that replaced it is about to;
\* when no request runs, all of them are revoked.
THEOREM OthersAreRevoked ==
    Spec /\ [][\A s \in Serials : ~LosesOld(s)]_vars =>
        [](\A s \in Serials : ~Forgotten(s)) /\ []SupersededRevoked
<1> DEFINE Kept == \A s \in Serials : ~LosesOld(s)
           Good == \A s \in Serials : ~Forgotten(s)
<1>1. Init => Good
  BY DEF Init, Forgotten
<1>2. TypeOK /\ Good /\ [Next]_vars /\ [Kept]_vars => Good'
  <2>1. CASE UNCHANGED vars
    BY <2>1 DEF vars, vault, locals, Forgotten, InCharge
  <2>2. ASSUME TypeOK, Good, [Next]_vars, Kept PROVE Good'
    BY <2>2, StepForgottenOnlySo DEF ForgottenOnlySo
  <2> QED
    BY <2>1, <2>2
<1>3. TypeOK /\ Good => SupersededRevoked
  BY DEF TypeOK, Good, SupersededRevoked, Forgotten, InCharge
<1> HIDE DEF Kept, Good
<1>4. Spec /\ [][Kept]_vars => []Good /\ []SupersededRevoked
  BY <1>1, <1>2, <1>3, TypeCorrect, PTL DEF Spec
<1> QED
  BY <1>4 DEF Kept, Good
=============================================================================
