------------------------- MODULE ReviewRoutesProofs -------------------------
(***************************************************************************)
(* Proofs about ReviewRoutes, for any users, cases, requests and evidence, *)
(* and for overlapping as well as serial requests.                         *)
(*                                                                         *)
(* The handlers write a copy they may have loaded long ago, so what can be *)
(* said of the stored cases is what each effect preserves of the copy it   *)
(* starts from: RecordSound.  It is proved of every effect first, and then *)
(* of the stored cases together with the copies in flight.                 *)
(***************************************************************************)
EXTENDS ReviewRoutes, TLAPS

(* Types of the effects. *)

LEMMA CredentialForType ==
    ASSUME NEW t \in Tiers, NEW r \in ReviewCase
    PROVE  CredentialFor(t, r) \in Credential
<1>1. IssuanceStatus(t, r) \in IssuanceStatuses
  BY DEF IssuanceStatus, IssuanceStatuses
<1>2. r.lifecycle \in Lifecycles
  BY DEF ReviewCase
<1> QED
  BY <1>1, <1>2 DEF CredentialFor, Credential

LEMMA RefreshedType ==
    ASSUME NEW t \in Tiers, NEW r \in ReviewCase
    PROVE  Refreshed(r, t) \in ReviewCase
  BY CredentialForType DEF Refreshed, ReviewCase

LEMMA DecidedType ==
    ASSUME NEW t \in Tiers, NEW r \in ReviewCase
    PROVE  Decided(r, t) \in ReviewCase
<1> DEFINE credential == CredentialFor(t, r)
<1>1. credential \in Credential
  BY CredentialForType
<1>2. StatusFromCredential(credential) \in CaseStatuses
  BY DEF StatusFromCredential, CaseStatuses
<1> HIDE DEF credential
<1>3. [r EXCEPT !.credential = credential, !.status = StatusFromCredential(credential)] \in ReviewCase
  BY <1>1, <1>2 DEF ReviewCase
<1> QED
  BY <1>3 DEF Decided, credential

LEMMA WithReceiptType ==
    ASSUME NEW r \in ReviewCase, NEW type \in ReceiptTypes
    PROVE  WithReceipt(r, type) \in ReviewCase
<1> DEFINE receipts == r.receipts \cup {type}
           chain == r.chain + 1
<1>1. receipts \in SUBSET ReceiptTypes /\ chain \in Nat
  BY DEF ReviewCase
<1> HIDE DEF receipts, chain
<1>2. [r EXCEPT !.receipts = receipts, !.chain = chain] \in ReviewCase
  BY <1>1 DEF ReviewCase
<1> QED
  BY <1>2 DEF WithReceipt, receipts, chain

LEMMA ResetType ==
    ASSUME NEW id \in AttestationId, NEW corrections \in Seq({"open", "resolved", "rejected"})
    PROVE  ResetForAttestation(id, corrections) \in ReviewCase
<1>1. NoCredential \in Credential
  BY DEF NoCredential, Credential, Tiers
<1> QED
  BY <1>1 DEF ResetForAttestation, ReviewCase, ReceiptTypes, CaseStatuses, Lifecycles

LEMMA ReviewedType ==
    ASSUME NEW r \in ReviewCase, NEW u \in Users, NEW role \in ReviewRoles,
           NEW d \in Determination
    PROVE  Reviewed(r, u, role, d) \in ReviewCase
<1> DEFINE approval == [role |-> role, reviewer |-> u, decision |-> d.decision,
                        independent |-> d.independent, conflictFree |-> d.conflictFree]
           type == IF role = "primary" THEN "review.primary-recorded" ELSE "review.secondary-recorded"
           clearance == IF d.conflictFree THEN "clear" ELSE "conflict"
           approvals == {a \in r.approvals : a.role # role} \cup {approval}
<1>1. approval \in Approval
  BY DEF Approval, Determination
<1>2. type \in ReceiptTypes
  BY DEF ReceiptTypes
<1>3. approvals \in SUBSET Approval
  BY <1>1 DEF ReviewCase
<1>4. clearance \in {"pending", "clear", "conflict"}
  OBVIOUS
<1> HIDE DEF approvals, clearance, type
<1>5. [r EXCEPT !.approvals = approvals, !.clearance = clearance] \in ReviewCase
  BY <1>3, <1>4 DEF ReviewCase
<1>6. WithReceipt([r EXCEPT !.approvals = approvals, !.clearance = clearance], type) \in ReviewCase
  BY <1>2, <1>5, WithReceiptType
<1> QED
  BY <1>6 DEF Reviewed, approvals, clearance, type

LEMMA ClosedType ==
    ASSUME NEW s \in Seq({"open", "resolved", "rejected"}), NEW outcome \in {"resolved", "rejected"}
    PROVE  Closed(s, outcome) \in Seq({"open", "resolved", "rejected"})
<1>1. DOMAIN s = 1..Len(s) /\ Len(s) \in Nat
  OBVIOUS
<1>2. \A i \in 1..Len(s) : (IF s[i] = "open" THEN outcome ELSE s[i]) \in {"open", "resolved", "rejected"}
  BY <1>1
<1> QED
  BY <1>1, <1>2 DEF Closed

LEMMA RequestedType ==
    ASSUME NEW r \in ReviewCase
    PROVE  CorrectionRequested(r) \in ReviewCase
<1> DEFINE opened == [r EXCEPT !.corrections = Append(@, "open"), !.status = "correction-requested"]
           noted  == WithReceipt(opened, "correction.requested")
<1>1. Append(r.corrections, "open") \in Seq({"open", "resolved", "rejected"})
  BY DEF ReviewCase
<1>2. opened \in ReviewCase
  BY ZenonT(30), <1>1 DEF ReviewCase, CaseStatuses
<1>3. noted \in ReviewCase
  BY <1>2, WithReceiptType DEF ReceiptTypes
<1>4. ASSUME NEW n \in ReviewCase, NEW lifecycle \in Lifecycles,
             NEW mark \in {"pending", "authorized", "denied"}
      PROVE  [n EXCEPT !.lifecycle = lifecycle, !.mark = mark] \in ReviewCase
  BY DEF ReviewCase
<1> HIDE DEF noted
<1> QED
  BY <1>3, <1>4 DEF CorrectionRequested, noted, Lifecycles

LEMMA RejectedType ==
    ASSUME NEW r \in ReviewCase
    PROVE  CorrectionRejected(r) \in ReviewCase
<1> DEFINE closed == Closed(r.corrections, "rejected")
           status == IF Issued(r) THEN "issued" ELSE "assigned"
<1>1. closed \in Seq({"open", "resolved", "rejected"})
  BY ClosedType DEF ReviewCase
<1>2. status \in CaseStatuses
  BY DEF CaseStatuses
<1> HIDE DEF closed, status
<1>3. [r EXCEPT !.corrections = closed, !.status = status] \in ReviewCase
  BY <1>1, <1>2 DEF ReviewCase
<1>4. WithReceipt([r EXCEPT !.corrections = closed, !.status = status], "correction.rejected") \in ReviewCase
  BY <1>3, WithReceiptType DEF ReceiptTypes
<1> QED
  BY <1>4 DEF CorrectionRejected, closed, status

LEMMA ResolvedType ==
    ASSUME NEW r \in ReviewCase, NEW id \in AttestationId
    PROVE  CorrectionResolved(r, id) \in ReviewCase
<1> DEFINE closed   == Closed(r.corrections, "resolved")
           fresh    == ResetForAttestation(id, closed)
           attested == r.attested \cup {id}
           receipts == r.receipts \cup {"correction.resolved", "attestation.recorded"}
           chain    == r.chain + 2
<1>1. closed \in Seq({"open", "resolved", "rejected"})
  BY ClosedType DEF ReviewCase
<1>2. fresh \in ReviewCase
  BY <1>1, ResetType
<1>3. attested \in SUBSET AttestationId /\ receipts \in SUBSET ReceiptTypes /\ chain \in Nat
  BY DEF ReviewCase, ReceiptTypes
<1> HIDE DEF fresh, attested, receipts, chain
<1>4. [fresh EXCEPT !.attested = attested, !.receipts = receipts, !.chain = chain] \in ReviewCase
  BY <1>2, <1>3 DEF ReviewCase
<1> QED
  BY <1>4 DEF CorrectionResolved, fresh, attested, receipts, chain

LEMMA TransitionedType ==
    ASSUME NEW t \in Tiers, NEW r \in ReviewCase, NEW action \in LifecycleActions
    PROVE  Transitioned(r, action, t) \in ReviewCase
<1> DEFINE mark  == IF action = "reactivate" THEN "pending" ELSE "denied"
           to    == TargetOf(action)
           base  == [r EXCEPT !.lifecycle = to, !.mark = mark]
           moved == WithReceipt(base, LifecycleReceipt(action))
           fresh == Refreshed(moved, t)
           status == IF Issued(fresh) THEN "issued" ELSE "blocked"
<1>1. to \in Lifecycles /\ LifecycleReceipt(action) \in ReceiptTypes
  BY DEF LifecycleActions, TargetOf, Lifecycles, LifecycleReceipt, ReceiptTypes
<1>2. mark \in {"pending", "authorized", "denied"}
  OBVIOUS
<1> HIDE DEF mark, to
<1>3. base \in ReviewCase
  BY <1>1, <1>2 DEF ReviewCase
<1>4. fresh \in ReviewCase
  BY <1>1, <1>3, WithReceiptType, RefreshedType
<1>5. status \in CaseStatuses
  BY DEF CaseStatuses
<1> HIDE DEF fresh, status
<1>6. [fresh EXCEPT !.status = status] \in ReviewCase
  BY <1>4, <1>5 DEF ReviewCase
<1> QED
  BY <1>6 DEF Transitioned, fresh, status, to, mark

\* The effects of the issuer's decisions.
LEMMA DecisionTypes ==
    ASSUME NEW r \in ReviewCase
    PROVE  /\ \A v \in {"pass", "fail"} : CustosDecided(r, v) \in ReviewCase
           /\ SigningAuthorized(r) \in ReviewCase
           /\ RegistryPublished(r) \in ReviewCase
           /\ RevocationEnabled(r) \in ReviewCase
           /\ \A m \in {"authorized", "denied"} : MarkDecided(r, m) \in ReviewCase
<1>1. ASSUME NEW v \in {"pass", "fail"} PROVE CustosDecided(r, v) \in ReviewCase
  <2>1. [r EXCEPT !.custos = v] \in ReviewCase
    BY DEF ReviewCase
  <2> QED
    BY <2>1, WithReceiptType DEF CustosDecided, ReceiptTypes
<1>2. SigningAuthorized(r) \in ReviewCase
  <2>1. [r EXCEPT !.signing = "active"] \in ReviewCase
    BY DEF ReviewCase
  <2> QED
    BY <2>1, WithReceiptType DEF SigningAuthorized, ReceiptTypes
<1>3. RegistryPublished(r) \in ReviewCase
  <2>1. [r EXCEPT !.registry = "ready", !.published = TRUE] \in ReviewCase
    BY DEF ReviewCase
  <2> QED
    BY <2>1, WithReceiptType DEF RegistryPublished, ReceiptTypes
<1>4. RevocationEnabled(r) \in ReviewCase
  <2>1. [r EXCEPT !.revocation = TRUE] \in ReviewCase
    BY DEF ReviewCase
  <2> QED
    BY <2>1, WithReceiptType DEF RevocationEnabled, ReceiptTypes
<1>5. ASSUME NEW m \in {"authorized", "denied"} PROVE MarkDecided(r, m) \in ReviewCase
  <2>1. [r EXCEPT !.mark = m] \in ReviewCase
    BY DEF ReviewCase
  <2> QED
    BY <2>1, WithReceiptType DEF MarkDecided, ReceiptTypes
<1> QED
  BY <1>1, <1>2, <1>3, <1>4, <1>5

-----------------------------------------------------------------------------
(* Soundness of the effects. *)

\* What a credential says depends on the record below it only.
LEMMA CredentialForFrame ==
    ASSUME NEW t, NEW r \in ReviewCase, NEW s \in ReviewCase,
           s.approvals = r.approvals, s.clearance = r.clearance, s.custos = r.custos,
           s.receipts = r.receipts, s.signing = r.signing, s.registry = r.registry,
           s.published = r.published, s.revocation = r.revocation,
           s.lifecycle = r.lifecycle, s.mark = r.mark
    PROVE  CredentialFor(t, s) = CredentialFor(t, r)
<1>1. Accepted(s) = Accepted(r)
  BY DEF Accepted
<1>2. FourEyes(s) = FourEyes(r)
  BY <1>1 DEF FourEyes
<1>3. /\ CustosPassed(s) = CustosPassed(r) /\ SigningReady(s) = SigningReady(r)
      /\ RegistryReady(s) = RegistryReady(r) /\ RevocationReady(s) = RevocationReady(r)
  BY DEF CustosPassed, SigningReady, RegistryReady, RevocationReady
<1>4. IssuanceStatus(t, s) = IssuanceStatus(t, r)
  BY <1>1, <1>2, <1>3 DEF IssuanceStatus
<1> QED
  BY <1>4 DEF CredentialFor

LEMMA RefreshedAgrees ==
    ASSUME NEW t \in Tiers, NEW r \in ReviewCase
    PROVE  /\ CredentialAgrees(Refreshed(r, t)) /\ Refreshed(r, t).credential.tier = t
           /\ CredentialAgrees(Decided(r, t))   /\ Decided(r, t).credential.tier = t
<1>1. CredentialFor(t, r).tier = t
  BY DEF CredentialFor
<1>2. Refreshed(r, t).credential = CredentialFor(t, r) /\ Decided(r, t).credential = CredentialFor(t, r)
  BY DEF Refreshed, Decided, ReviewCase
<1>3. CredentialFor(t, Refreshed(r, t)) = CredentialFor(t, r)
  <2>1. Refreshed(r, t) \in ReviewCase
    BY RefreshedType
  <2> QED
    BY <2>1, CredentialForFrame DEF Refreshed, ReviewCase
<1>4. CredentialFor(t, Decided(r, t)) = CredentialFor(t, r)
  <2>1. Decided(r, t) \in ReviewCase
    BY DecidedType
  <2> QED
    <3> DEFINE s == Decided(r, t)
    <3>1. /\ s.approvals = r.approvals /\ s.clearance = r.clearance /\ s.custos = r.custos
          /\ s.receipts = r.receipts /\ s.signing = r.signing /\ s.registry = r.registry
          /\ s.published = r.published /\ s.revocation = r.revocation
          /\ s.lifecycle = r.lifecycle /\ s.mark = r.mark
      BY DEF Decided, ReviewCase
    <3> HIDE DEF s
    <3>2. s \in ReviewCase
      BY <2>1 DEF s
    <3>3. CredentialFor(t, s) = CredentialFor(t, r)
      BY <3>1, <3>2, CredentialForFrame
    <3> QED
      BY <3>3 DEF s
<1> QED
  BY <1>1, <1>2, <1>3, <1>4 DEF CredentialAgrees

\* A credential that agrees with its record is issued at Tier 4 only on four eyes.
LEMMA AgreeingIsFourEyed ==
    ASSUME NEW r \in ReviewCase, ApproversDistinct(r), CredentialAgrees(r)
    PROVE  FourEyesHold(r)
<1> SUFFICES ASSUME Issued(r), r.credential.tier = 4
             PROVE  /\ \E a, b \in r.approvals :
                           /\ a.reviewer # b.reviewer
                           /\ {a.decision, b.decision} = {"approve"}
                           /\ a.independent /\ b.independent /\ a.conflictFree /\ b.conflictFree
                    /\ r.clearance = "clear" /\ r.custos = "pass"
  BY DEF FourEyesHold
<1>1. r.credential = CredentialFor(4, r)
  BY DEF CredentialAgrees, Issued
<1>2. IssuanceStatus(4, r) = "authorized"
  BY <1>1 DEF Issued, CredentialFor
<1>3. FourEyes(r) /\ r.clearance = "clear" /\ CustosPassed(r)
  BY <1>2 DEF IssuanceStatus
<1>4. PICK a, b \in Accepted(r) : a # b /\ a.independent /\ b.independent
  BY <1>3 DEF FourEyes
<1>5. a.reviewer # b.reviewer
  BY <1>4 DEF ApproversDistinct, Accepted
<1> QED
  BY <1>3, <1>4, <1>5 DEF Accepted, CustosPassed

\* The attestor's gate on the tier.
LEMMA EligibleIsAttested ==
    ASSUME NEW r \in ReviewCase, NEW e \in Tiers, NEW signed \in SUBSET Attestation,
           NEW s, s.attestation = r.attestation, s.credential.tier = EligibleTier(r, e, signed)
    PROVE  AttestorBehind(s, signed)
<1>1. EligibleTier(r, e, signed) \in Tiers
  BY DEF EligibleTier, Tiers
<1>2. CASE AttestationCounts(r, signed)
  <2>1. PICK a \in signed : /\ a.version = r.attestation.version
                                  /\ a.text = r.attestation.text
                                  /\ a.signerRole = "authorized-attestor"
    BY <1>2 DEF AttestationCounts
  <2>2. IdOf(a) = r.attestation
    BY <2>1 DEF IdOf, ReviewCase, AttestationId
  <2> QED
    BY <1>1, <2>1, <2>2 DEF AttestorBehind
<1>3. CASE ~AttestationCounts(r, signed)
  BY <1>1, <1>3 DEF EligibleTier, AttestorBehind
<1> QED
  BY <1>2, <1>3

\* Nothing below the credential and the status changes.
LEMMA RefreshedCoherent ==
    ASSUME NEW t \in Tiers, NEW r \in ReviewCase, Coherent(r)
    PROVE  Coherent(Refreshed(r, t)) /\ Coherent(Decided(r, t))
<1>1. ASSUME NEW credential, NEW status
      PROVE  Coherent([r EXCEPT !.credential = credential, !.status = status])
  BY DEF Coherent, ApproversDistinct, MarkFollows, ChainHolds, OneOpen, SigningReady, ReviewCase
<1>2. ASSUME NEW credential
      PROVE  Coherent([r EXCEPT !.credential = credential])
  BY DEF Coherent, ApproversDistinct, MarkFollows, ChainHolds, OneOpen, SigningReady, ReviewCase
<1> QED
  BY <1>1, <1>2 DEF Refreshed, Decided

LEMMA WithReceiptCoherent ==
    ASSUME NEW r \in ReviewCase, NEW type \in ReceiptTypes, Coherent(r)
    PROVE  Coherent(WithReceipt(r, type))
  BY DEF Coherent, ApproversDistinct, MarkFollows, ChainHolds, OneOpen, SigningReady,
         ReviewCase, WithReceipt

\* No reviewer takes both roles: the guard looks at the other role's approval,
\* the effect replaces this role's.
LEMMA ReviewedCoherent ==
    ASSUME NEW r \in ReviewCase, NEW u \in Users, NEW role \in ReviewRoles,
           NEW d \in Determination, Coherent(r), CanReview(r, u, role)
    PROVE  Coherent(Reviewed(r, u, role, d))
<1> DEFINE approval == [role |-> role, reviewer |-> u, decision |-> d.decision,
                        independent |-> d.independent, conflictFree |-> d.conflictFree]
           s == Reviewed(r, u, role, d)
<1>1. s.approvals = {a \in r.approvals : a.role # role} \cup {approval}
  BY DEF Reviewed, WithReceipt, ReviewCase
<1>2. /\ s.lifecycle = r.lifecycle /\ s.mark = r.mark /\ s.corrections = r.corrections
      /\ s.revocation = r.revocation /\ s.registry = r.registry /\ s.published = r.published
      /\ s.signing = r.signing /\ s.custos = r.custos /\ s.attestation = r.attestation
      /\ s.attested = r.attested /\ r.receipts \subseteq s.receipts
  BY DEF Reviewed, WithReceipt, ReviewCase
<1>3. \A a \in r.approvals : a.role # role /\ a.decision = "approve" => a.reviewer # u
  BY DEF CanReview
<1> HIDE DEF s
<1>4. ApproversDistinct(s)
  BY <1>1, <1>3 DEF Coherent, ApproversDistinct
<1>5. MarkFollows(s) /\ OneOpen(s)
  BY <1>2 DEF Coherent, MarkFollows, OneOpen
<1>6. ChainHolds(s)
  BY <1>2 DEF Coherent, ChainHolds, SigningReady
<1> QED
  BY <1>4, <1>5, <1>6 DEF Coherent, s

LEMMA CustosCoherent ==
    ASSUME NEW r \in ReviewCase, NEW v \in {"pass", "fail"}, Coherent(r)
    PROVE  Coherent(CustosDecided(r, v))
  BY DEF Coherent, ApproversDistinct, MarkFollows, ChainHolds, OneOpen, SigningReady,
         ReviewCase, WithReceipt, CustosDecided

LEMMA SigningCoherent ==
    ASSUME NEW r \in ReviewCase, Coherent(r)
    PROVE  Coherent(SigningAuthorized(r))
  BY DEF Coherent, ApproversDistinct, MarkFollows, ChainHolds, OneOpen, SigningReady,
         ReviewCase, WithReceipt, SigningAuthorized

LEMMA PublicationCoherent ==
    ASSUME NEW r \in ReviewCase, NEW u \in Users, Coherent(r), CanPublishRegistry(r, u)
    PROVE  Coherent(RegistryPublished(r))
  BY DEF Coherent, ApproversDistinct, MarkFollows, ChainHolds, OneOpen, SigningReady,
         ReviewCase, WithReceipt, RegistryPublished, CanPublishRegistry

LEMMA RevocationCoherent ==
    ASSUME NEW r \in ReviewCase, NEW u \in Users, Coherent(r), CanEnableRevocation(r, u)
    PROVE  Coherent(RevocationEnabled(r))
  BY DEF Coherent, ApproversDistinct, MarkFollows, ChainHolds, OneOpen, SigningReady,
         ReviewCase, WithReceipt, RevocationEnabled, CanEnableRevocation

LEMMA MarkCoherent ==
    ASSUME NEW r \in ReviewCase, NEW u \in Users, NEW t \in Tiers,
           NEW m \in {"authorized", "denied"}, Coherent(r), CanDecideMark(r, u, t)
    PROVE  Coherent(MarkDecided(r, m))
  BY DEF Coherent, ApproversDistinct, MarkFollows, ChainHolds, OneOpen, SigningReady,
         ReviewCase, WithReceipt, MarkDecided, CanDecideMark

LEMMA TransitionedCoherent ==
    ASSUME NEW t \in Tiers, NEW r \in ReviewCase, NEW action \in LifecycleActions, Coherent(r)
    PROVE  Coherent(Transitioned(r, action, t))
<1> DEFINE s == Transitioned(r, action, t)
           receipts == r.receipts \cup {LifecycleReceipt(action)}
           to   == TargetOf(action)
           mark == IF action = "reactivate" THEN "pending" ELSE "denied"
<1>1. /\ s.lifecycle = to /\ s.mark = mark /\ s.receipts = receipts
      /\ s.approvals = r.approvals /\ s.corrections = r.corrections
      /\ s.revocation = r.revocation /\ s.registry = r.registry /\ s.published = r.published
      /\ s.signing = r.signing /\ s.custos = r.custos /\ s.attestation = r.attestation
      /\ s.attested = r.attested
  BY DEF Transitioned, WithReceipt, Refreshed, ReviewCase
<1>2. to # "active" => mark = "denied"
  BY DEF LifecycleActions, TargetOf
<1> HIDE DEF s, to, mark, receipts
<1>3. r.receipts \subseteq s.receipts
  BY <1>1 DEF receipts
<1>4. ApproversDistinct(s) /\ OneOpen(s) /\ MarkFollows(s)
  BY <1>1, <1>2 DEF Coherent, ApproversDistinct, OneOpen, MarkFollows
<1>5. ChainHolds(s)
  BY <1>1, <1>3 DEF Coherent, ChainHolds, SigningReady
<1> QED
  BY <1>4, <1>5 DEF Coherent, s

\* Only a case without an open correction gets one.
LEMMA RequestedCoherent ==
    ASSUME NEW r \in ReviewCase, NEW u \in Users, Coherent(r), CanRequestCorrection(r, u)
    PROVE  Coherent(CorrectionRequested(r))
<1> DEFINE s == CorrectionRequested(r)
<1>1. /\ s.corrections = Append(r.corrections, "open")
      /\ r.receipts \subseteq s.receipts
      /\ s.approvals = r.approvals
      /\ s.revocation = r.revocation /\ s.registry = r.registry /\ s.published = r.published
      /\ s.signing = r.signing /\ s.custos = r.custos /\ s.attestation = r.attestation
      /\ s.attested = r.attested
  BY DEF CorrectionRequested, WithReceipt, ReviewCase
<1>2. \/ s.lifecycle = r.lifecycle /\ s.mark = r.mark
      \/ s.mark = "denied"
  BY DEF CorrectionRequested, WithReceipt, ReviewCase
<1> HIDE DEF s
<1>3. OneOpen(s)
  <2>1. r.corrections \in Seq({"open", "resolved", "rejected"})
    BY DEF ReviewCase
  <2>2. \A i \in DOMAIN r.corrections : r.corrections[i] # "open"
    BY DEF CanRequestCorrection, OpenCorrection
  <2> QED
    BY <1>1, <2>1, <2>2 DEF OneOpen
<1>4. ApproversDistinct(s) /\ MarkFollows(s)
  BY <1>1, <1>2 DEF Coherent, ApproversDistinct, MarkFollows
<1>5. ChainHolds(s)
  BY <1>1 DEF Coherent, ChainHolds, SigningReady
<1> QED
  BY <1>3, <1>4, <1>5 DEF Coherent, s

LEMMA ClosedNoneOpen ==
    ASSUME NEW s \in Seq({"open", "resolved", "rejected"}), NEW outcome \in {"resolved", "rejected"}
    PROVE  \A i \in DOMAIN Closed(s, outcome) : Closed(s, outcome)[i] # "open"
  BY DEF Closed

LEMMA RejectedCoherent ==
    ASSUME NEW r \in ReviewCase, Coherent(r)
    PROVE  Coherent(CorrectionRejected(r))
<1> DEFINE s == CorrectionRejected(r)
<1>1. /\ s.corrections = Closed(r.corrections, "rejected")
      /\ r.receipts \subseteq s.receipts
      /\ s.approvals = r.approvals /\ s.lifecycle = r.lifecycle /\ s.mark = r.mark
      /\ s.revocation = r.revocation /\ s.registry = r.registry /\ s.published = r.published
      /\ s.signing = r.signing /\ s.custos = r.custos /\ s.attestation = r.attestation
      /\ s.attested = r.attested
  BY DEF CorrectionRejected, WithReceipt, ReviewCase
<1> HIDE DEF s
<1>2. OneOpen(s)
  BY <1>1, ClosedNoneOpen DEF OneOpen, ReviewCase
<1>3. ApproversDistinct(s) /\ MarkFollows(s)
  BY <1>1 DEF Coherent, ApproversDistinct, MarkFollows
<1>4. ChainHolds(s)
  BY <1>1 DEF Coherent, ChainHolds, SigningReady
<1> QED
  BY <1>2, <1>3, <1>4 DEF Coherent, s

\* A case that starts over has nothing to be incoherent about.
LEMMA ResetSound ==
    ASSUME NEW id \in AttestationId, NEW corrections,
           \A i, j \in DOMAIN corrections :
               corrections[i] = "open" /\ corrections[j] = "open" => i = j
    PROVE  \A signed : RecordSound(ResetForAttestation(id, corrections), signed)
  BY DEF ResetForAttestation, NoCredential, RecordSound, Coherent, ApproversDistinct, MarkFollows,
         ChainHolds, OneOpen, FourEyesHold, AttestorBehind, Issued

LEMMA ResolvedSound ==
    ASSUME NEW r \in ReviewCase, NEW id \in AttestationId
    PROVE  \A signed : RecordSound(CorrectionResolved(r, id), signed)
<1> DEFINE s == CorrectionResolved(r, id)
<1>1. /\ s.corrections = Closed(r.corrections, "resolved")
      /\ s.approvals = {} /\ s.lifecycle = "active" /\ ~s.revocation /\ ~s.published
      /\ s.registry = "pending" /\ s.signing = "pending" /\ s.custos = "pending"
      /\ s.attestation = id /\ s.attested = r.attested \cup {id} /\ s.credential = NoCredential
  BY DEF CorrectionResolved, ResetForAttestation
<1> HIDE DEF s
<1>2. OneOpen(s)
  BY <1>1, ClosedNoneOpen DEF OneOpen, ReviewCase
<1>3. ApproversDistinct(s) /\ MarkFollows(s) /\ ChainHolds(s)
  BY <1>1 DEF ApproversDistinct, MarkFollows, ChainHolds
<1>4. FourEyesHold(s) /\ \A signed : AttestorBehind(s, signed)
  BY <1>1 DEF FourEyesHold, AttestorBehind, Issued, NoCredential
<1> QED
  BY <1>2, <1>3, <1>4 DEF RecordSound, Coherent, s

-----------------------------------------------------------------------------
(* The inductive invariant. *)

IInv == TypeOK /\ Sound /\ CredentialCurrent

LEMMA TierType ==
    ASSUME TypeOK, NEW c \in Cases, NEW r
    PROVE  Tier(c, r) \in Tiers
  BY DEF TypeOK, Tier, EligibleTier, Tiers

\* Attestations are only added, so what rests on them stays.
LEMMA MoreSigned ==
    ASSUME NEW r, NEW signed, NEW more, signed \subseteq more, RecordSound(r, signed)
    PROVE  RecordSound(r, more)
  BY DEF RecordSound, AttestorBehind

\* Writing back a sound record.
LEMMA CommitStep ==
    ASSUME IInv, NEW q \in Requests, inflight[q] # Idle, NEW r \in ReviewCase,
           RecordSound(r, attestations'), CredentialAgrees(r),
           attestations \subseteq attestations', attestations' \subseteq Attestation,
           Commit(q, r)
    PROVE  IInv'
<1> DEFINE c == inflight[q].case
<1>1. c \in Cases
  BY DEF IInv, TypeOK, Copy
<1>2. /\ reviews' = [reviews EXCEPT ![c] = r] /\ inflight' = [inflight EXCEPT ![q] = Idle]
      /\ torn' = torn \ {c} /\ evidence' = evidence
  BY DEF Commit
<1> HIDE DEF c
<1>3. TypeOK'
  BY <1>1, <1>2 DEF IInv, TypeOK
<1>4. Sound'
  <2>1. ASSUME NEW d \in Cases PROVE RecordSound(reviews'[d], attestations')
    BY <1>1, <1>2, MoreSigned DEF IInv, TypeOK, Sound
  <2>2. ASSUME NEW p \in Requests, inflight'[p] # Idle
        PROVE  RecordSound(inflight'[p].review, attestations')
    BY <1>2, <2>2, MoreSigned DEF IInv, TypeOK, Sound
  <2> QED
    BY <2>1, <2>2 DEF Sound
<1>5. CredentialCurrent'
  BY <1>1, <1>2 DEF IInv, TypeOK, CredentialCurrent
<1> QED
  BY <1>3, <1>4, <1>5 DEF IInv

\* A decision recomputes credential and status of a coherent record.
LEMMA DecisionStep ==
    ASSUME IInv, NEW q \in Requests, inflight[q] # Idle, NEW r \in ReviewCase, Coherent(r),
           CommitDecision(q, r)
    PROVE  IInv'
<1> DEFINE t == Tier(inflight[q].case, r)
           s == Decided(r, t)
<1>1. inflight[q].case \in Cases
  BY DEF IInv, TypeOK, Copy
<1>2. t \in Tiers
  BY <1>1, TierType DEF IInv
<1>3. s \in ReviewCase /\ Coherent(s) /\ CredentialAgrees(s) /\ s.credential.tier = t
  BY <1>2, DecidedType, RefreshedCoherent, RefreshedAgrees
<1>4. s.attestation = r.attestation
  BY DEF Decided, ReviewCase
<1>5. AttestorBehind(s, attestations)
  BY <1>1, <1>3, <1>4, EligibleIsAttested DEF Tier, IInv, TypeOK
<1>6. RecordSound(s, attestations)
  BY <1>3, <1>5, AgreeingIsFourEyed DEF RecordSound, Coherent
<1>7. Commit(q, s) /\ attestations' = attestations
  BY DEF CommitDecision
<1> HIDE DEF s
<1> QED
  BY <1>3, <1>6, <1>7, CommitStep DEF IInv, TypeOK

\* A correction's record is written with the credential refreshed at the tier
\* of the copy it came from.
LEMMA RefreshStep ==
    ASSUME IInv, NEW q \in Requests, inflight[q] # Idle, NEW r \in ReviewCase, Coherent(r),
           r.attestation = inflight[q].review.attestation,
           Commit(q, Refreshed(r, CopyTier(q))), attestations' = attestations
    PROVE  IInv'
<1> DEFINE t == CopyTier(q)
           s == Refreshed(r, t)
<1>1. inflight[q].case \in Cases /\ inflight[q].review \in ReviewCase
  BY DEF IInv, TypeOK, Copy
<1>2. t \in Tiers
  BY <1>1, TierType DEF IInv, CopyTier
<1>3. s \in ReviewCase /\ Coherent(s) /\ CredentialAgrees(s) /\ s.credential.tier = t
  BY <1>2, RefreshedType, RefreshedCoherent, RefreshedAgrees
<1>4. s.attestation = inflight[q].review.attestation
  BY DEF Refreshed, ReviewCase
<1>5. AttestorBehind(s, attestations)
  BY <1>1, <1>3, <1>4, EligibleIsAttested DEF CopyTier, Tier, IInv, TypeOK
<1>6. RecordSound(s, attestations)
  BY <1>3, <1>5, AgreeingIsFourEyed DEF RecordSound, Coherent
<1> HIDE DEF s
<1>7. Commit(q, s)
  BY DEF s
<1> QED
  BY <1>3, <1>6, <1>7, CommitStep DEF IInv, TypeOK

\* The first of two writes leaves the credential as it was.
LEMMA TornStep ==
    ASSUME IInv, NEW q \in Requests, inflight[q] # Idle, NEW r \in ReviewCase, Coherent(r),
           r.attestation = inflight[q].review.attestation,
           r.credential = inflight[q].review.credential,
           r.approvals = inflight[q].review.approvals,
           r.clearance = inflight[q].review.clearance, r.custos = inflight[q].review.custos,
           TornWrite(q, r)
    PROVE  IInv'
<1> DEFINE c == inflight[q].case
           copy == inflight[q].review
<1>1. c \in Cases /\ copy \in ReviewCase /\ RecordSound(copy, attestations)
  BY DEF IInv, TypeOK, Copy, Sound
<1>2. FourEyesHold(r)
  BY <1>1 DEF RecordSound, FourEyesHold, Issued
<1>3. AttestorBehind(r, attestations)
  BY <1>1 DEF RecordSound, AttestorBehind
<1>4. RecordSound(r, attestations)
  BY <1>2, <1>3 DEF RecordSound
<1>5. /\ reviews' = [reviews EXCEPT ![c] = r] /\ inflight' = [p \in Requests |-> Idle]
      /\ torn' = torn \cup {c} /\ evidence' = evidence /\ attestations' = attestations
  BY DEF TornWrite, AllIdle
<1> HIDE DEF c, copy
<1>6. TypeOK'
  BY <1>1, <1>5 DEF IInv, TypeOK
<1>7. Sound'
  BY <1>1, <1>4, <1>5 DEF IInv, TypeOK, Sound
<1>8. CredentialCurrent'
  BY <1>1, <1>5 DEF IInv, TypeOK, CredentialCurrent
<1> QED
  BY <1>6, <1>7, <1>8 DEF IInv

\* Submitting, whether all the cases are reset or only some.
LEMMA SubmitStep ==
    ASSUME IInv, NEW u \in Users, NEW text \in Texts, NEW reset \in SUBSET Cases,
           SubmitCases(u, text, reset),
           inflight' = inflight \/ inflight' = AllIdle
    PROVE  IInv'
<1>1. PICK latest \in attestations :
          LET id == [version |-> latest.version + 1, text |-> text]
          IN  /\ attestations' = attestations \cup
                     {[version |-> id.version, text |-> text, signerRole |-> RoleOf[u]]}
              /\ reviews' = [c \in Cases |->
                     IF c \in reset THEN ResetForAttestation(id, reviews[c].corrections)
                     ELSE reviews[c]]
  BY DEF SubmitCases
<1> DEFINE id == [version |-> latest.version + 1, text |-> text]
           signed == [version |-> id.version, text |-> text, signerRole |-> RoleOf[u]]
<1>2. id \in AttestationId /\ signed \in Attestation
  <2>1. latest.version + 1 \in Nat \ {0}
    BY DEF IInv, TypeOK, Attestation
  <2>2. RoleOf[u] \in OrganizationRoles
    BY RoleAssumption
  <2> QED
    BY <2>1, <2>2 DEF AttestationId, Attestation
<1>3. attestations' = attestations \cup {signed}
  BY <1>1
<1>4. reviews' = [c \in Cases |-> IF c \in reset THEN ResetForAttestation(id, reviews[c].corrections)
                                  ELSE reviews[c]]
  BY <1>1
<1>5. torn' = torn \ reset /\ evidence' = evidence
  BY DEF SubmitCases
<1> HIDE DEF id, signed
<1>6. ASSUME NEW c \in Cases
      PROVE  /\ ResetForAttestation(id, reviews[c].corrections) \in ReviewCase
             /\ RecordSound(ResetForAttestation(id, reviews[c].corrections), attestations')
  <2>1. reviews[c] \in ReviewCase /\ OneOpen(reviews[c])
    BY DEF IInv, TypeOK, Sound, RecordSound, Coherent
  <2>2. reviews[c].corrections \in Seq({"open", "resolved", "rejected"})
    BY <2>1 DEF ReviewCase
  <2> QED
    BY <1>2, <2>1, <2>2, ResetType, ResetSound DEF OneOpen
<1>7. TypeOK'
  <2>1. attestations' \subseteq Attestation
    BY <1>2, <1>3 DEF IInv, TypeOK
  <2>2. reviews' \in [Cases -> ReviewCase]
    BY <1>4, <1>6 DEF IInv, TypeOK
  <2>3. inflight' \in [Requests -> Copy \cup {Idle}]
    BY DEF IInv, TypeOK, AllIdle
  <2> QED
    BY <1>5, <2>1, <2>2, <2>3 DEF IInv, TypeOK
<1>8. Sound'
  <2>1. ASSUME NEW c \in Cases PROVE RecordSound(reviews'[c], attestations')
    <3>1. CASE c \in reset
      BY <1>4, <1>6, <3>1
    <3>2. CASE c \notin reset
      <4>1. reviews'[c] = reviews[c] /\ RecordSound(reviews[c], attestations)
        BY <1>4, <3>2 DEF IInv, Sound
      <4> QED
        BY <1>3, <4>1, MoreSigned
    <3> QED
      BY <3>1, <3>2
  <2>2. ASSUME NEW q \in Requests, inflight'[q] # Idle
        PROVE  RecordSound(inflight'[q].review, attestations')
    <3>1. inflight' = inflight
      BY <2>2 DEF AllIdle
    <3>2. RecordSound(inflight[q].review, attestations)
      BY <2>2, <3>1 DEF IInv, Sound
    <3> QED
      BY <1>3, <3>1, <3>2, MoreSigned
  <2> QED
    BY <2>1, <2>2 DEF Sound
<1>9. CredentialCurrent'
  <2> SUFFICES ASSUME NEW c \in Cases \ torn' PROVE CredentialAgrees(reviews'[c])
    BY DEF CredentialCurrent
  <2>1. CASE c \in reset
    <3>1. reviews'[c].credential = NoCredential
      BY <1>4, <2>1 DEF ResetForAttestation
    <3> QED
      BY <3>1 DEF CredentialAgrees, NoCredential
  <2>2. CASE c \notin reset
    BY <1>4, <1>5, <2>2 DEF IInv, CredentialCurrent
  <2> QED
    BY <2>1, <2>2
<1> QED
  BY <1>7, <1>8, <1>9 DEF IInv

\* A submitted batch satisfies the invariant.
LEMMA InitIInv == Init => IInv
<1> SUFFICES ASSUME Init PROVE IInv
  OBVIOUS
<1>1. PICK text \in Texts :
          LET first == [version |-> 1, text |-> text]
          IN  /\ reviews = [c \in Cases |-> ResetForAttestation(first, <<>>)]
              /\ attestations = {[version |-> 1, text |-> text, signerRole |-> "authorized-attestor"]}
  BY DEF Init
<1> DEFINE first == [version |-> 1, text |-> text]
<1>2. first \in AttestationId
  BY DEF AttestationId
<1>3. attestations \subseteq Attestation
  BY <1>1 DEF Attestation, OrganizationRoles
<1>4. ASSUME NEW c \in Cases
      PROVE  /\ reviews[c] = ResetForAttestation(first, <<>>)
             /\ reviews[c] \in ReviewCase
             /\ RecordSound(reviews[c], attestations)
  <2>1. reviews[c] = ResetForAttestation(first, <<>>)
    BY <1>1
  <2>2. << >> \in Seq({"open", "resolved", "rejected"})
    OBVIOUS
  <2>3. ResetForAttestation(first, <<>>) \in ReviewCase
    BY <1>2, <2>2, ResetType
  <2>4. RecordSound(ResetForAttestation(first, <<>>), attestations)
    <3>1. \A i, j \in DOMAIN << >> : << >>[i] = "open" /\ << >>[j] = "open" => i = j
      OBVIOUS
    <3> QED
      BY <1>2, <3>1, ResetSound
  <2> QED
    BY <2>1, <2>3, <2>4
<1>5. /\ reviews = [c \in Cases |-> reviews[c]] /\ evidence \in [Cases -> EvidenceTiers]
      /\ inflight = [q \in Requests |-> Idle] /\ torn = {}
  BY <1>1 DEF Init
<1>6. TypeOK
  BY <1>3, <1>4, <1>5, RoutesAssumption DEF TypeOK
<1>7. Sound
  BY <1>4, <1>5 DEF Sound
<1>8. CredentialCurrent
  BY <1>4 DEF CredentialCurrent, CredentialAgrees, ResetForAttestation, NoCredential
<1> QED
  BY <1>6, <1>7, <1>8 DEF IInv

\* Every handler, on a copy however old, keeps the invariant.
LEMMA NextIInv == IInv /\ [Next]_vars => IInv'
<1> SUFFICES ASSUME IInv, [Next]_vars PROVE IInv'
  OBVIOUS
<1>0. ASSUME NEW q \in Requests, inflight[q] # Idle
      PROVE  /\ inflight[q].case \in Cases /\ inflight[q].review \in ReviewCase
             /\ Coherent(inflight[q].review)
  BY <1>0 DEF IInv, TypeOK, Copy, Sound, RecordSound
<1>1. ASSUME NEW q \in Requests, NEW c \in Cases, Load(q, c) PROVE IInv'
  <2>1. /\ inflight' = [inflight EXCEPT ![q] = [case |-> c, review |-> reviews[c]]]
        /\ UNCHANGED <<reviews, attestations, evidence, torn>>
    BY <1>1 DEF Load
  <2>2. reviews[c] \in ReviewCase
    BY DEF IInv, TypeOK
  <2>3. [case |-> c, review |-> reviews[c]] \in Copy
    BY <2>2 DEF Copy
  <2>4. TypeOK'
    BY <2>1, <2>3 DEF IInv, TypeOK
  <2>5. Sound'
    BY <2>1 DEF IInv, TypeOK, Sound
  <2> QED
    BY <2>1, <2>4, <2>5 DEF IInv, CredentialCurrent
<1>2. ASSUME NEW q \in Requests, Refuse(q) PROVE IInv'
  <2>1. inflight' = [inflight EXCEPT ![q] = Idle] /\ UNCHANGED <<reviews, attestations, evidence, torn>>
    BY <1>2 DEF Refuse
  <2>2. TypeOK' /\ Sound'
    BY <2>1 DEF IInv, TypeOK, Sound
  <2> QED
    BY <2>1, <2>2 DEF IInv, CredentialCurrent
<1>3. ASSUME NEW q \in Requests, NEW u \in Users, NEW role \in ReviewRoles,
             NEW d \in Determinations, Review(q, u, role, d)
      PROVE  IInv'
  BY <1>0, <1>3, RoutesAssumption, ReviewedType, ReviewedCoherent, DecisionStep DEF Review
<1>4. ASSUME NEW q \in Requests, NEW u \in Users, NEW v \in {"pass", "fail"}, DecideCustos(q, u, v)
      PROVE  IInv'
  BY <1>0, <1>4, DecisionTypes, CustosCoherent, DecisionStep DEF DecideCustos
<1>5. ASSUME NEW q \in Requests, NEW u \in Users, AuthorizeSigning(q, u) PROVE IInv'
  BY <1>0, <1>5, DecisionTypes, SigningCoherent, DecisionStep DEF AuthorizeSigning
<1>6. ASSUME NEW q \in Requests, NEW u \in Users, PublishRegistry(q, u) PROVE IInv'
  BY <1>0, <1>6, DecisionTypes, PublicationCoherent, DecisionStep DEF PublishRegistry
<1>7. ASSUME NEW q \in Requests, NEW u \in Users, EnableRevocation(q, u) PROVE IInv'
  BY <1>0, <1>7, DecisionTypes, RevocationCoherent, DecisionStep DEF EnableRevocation
<1>8. ASSUME NEW q \in Requests, NEW u \in Users, NEW m \in {"authorized", "denied"},
             DecideMark(q, u, m)
      PROVE  IInv'
  <2>1. inflight[q] # Idle
    BY <1>8 DEF DecideMark
  <2>2. CopyTier(q) \in Tiers
    BY <1>0, <2>1, TierType DEF IInv, CopyTier
  <2> QED
    BY <1>0, <1>8, <2>1, <2>2, DecisionTypes, MarkCoherent, DecisionStep DEF DecideMark
<1>9. ASSUME NEW q \in Requests, NEW u \in Users, MayRequestCorrection(q, u)
      PROVE  LET r == CorrectionRequested(inflight[q].review)
             IN  /\ inflight[q] # Idle /\ r \in ReviewCase /\ Coherent(r)
                 /\ r.attestation = inflight[q].review.attestation
                 /\ r.credential = inflight[q].review.credential
                 /\ r.approvals = inflight[q].review.approvals
                 /\ r.clearance = inflight[q].review.clearance
                 /\ r.custos = inflight[q].review.custos
  <2>1. inflight[q] # Idle /\ CanRequestCorrection(inflight[q].review, u)
    BY <1>9 DEF MayRequestCorrection
  <2>2. ASSUME NEW r \in ReviewCase
        PROVE  LET s == CorrectionRequested(r)
               IN  /\ s.attestation = r.attestation /\ s.credential = r.credential
                   /\ s.approvals = r.approvals /\ s.clearance = r.clearance
                   /\ s.custos = r.custos
    BY DEF CorrectionRequested, WithReceipt, ReviewCase
  <2> QED
    BY <1>0, <2>1, <2>2, RequestedType, RequestedCoherent
<1>10. ASSUME NEW q \in Requests, NEW u \in Users, MayCloseCorrection(q, u)
       PROVE  LET r == CorrectionRejected(inflight[q].review)
              IN  /\ inflight[q] # Idle /\ r \in ReviewCase /\ Coherent(r)
                  /\ r.attestation = inflight[q].review.attestation
                  /\ r.credential = inflight[q].review.credential
                  /\ r.approvals = inflight[q].review.approvals
                  /\ r.clearance = inflight[q].review.clearance
                  /\ r.custos = inflight[q].review.custos
  <2>1. inflight[q] # Idle
    BY <1>10 DEF MayCloseCorrection
  <2>2. ASSUME NEW r \in ReviewCase
        PROVE  LET s == CorrectionRejected(r)
               IN  /\ s.attestation = r.attestation /\ s.credential = r.credential
                   /\ s.approvals = r.approvals /\ s.clearance = r.clearance
                   /\ s.custos = r.custos
    BY DEF CorrectionRejected, WithReceipt, ReviewCase
  <2> QED
    BY <1>0, <2>1, <2>2, RejectedType, RejectedCoherent
<1>11. ASSUME NEW q \in Requests, NEW u \in Users, RequestCorrection(q, u) PROVE IInv'
  BY <1>9, <1>11, RefreshStep DEF RequestCorrection
<1>12. ASSUME NEW q \in Requests, NEW u \in Users, RejectCorrection(q, u) PROVE IInv'
  BY <1>10, <1>12, RefreshStep DEF RejectCorrection
<1>13. ASSUME NEW q \in Requests, NEW u \in Users, CrashInRequest(q, u) PROVE IInv'
  BY <1>9, <1>13, TornStep DEF CrashInRequest
<1>14. ASSUME NEW q \in Requests, NEW u \in Users, CrashInReject(q, u) PROVE IInv'
  BY <1>10, <1>14, TornStep DEF CrashInReject
<1>15. ASSUME NEW q \in Requests, NEW u \in Users, NEW text \in Texts,
              inflight[q] # Idle
       PROVE  LET id == [version |-> inflight[q].review.attestation.version + 1, text |-> text]
              IN  /\ id \in AttestationId
                  /\ [version |-> id.version, text |-> text, signerRole |-> RoleOf[u]] \in Attestation
  <2>1. inflight[q].review.attestation.version + 1 \in Nat \ {0}
    BY <1>0, <1>15 DEF ReviewCase, AttestationId
  <2>2. RoleOf[u] \in OrganizationRoles
    BY RoleAssumption
  <2> QED
    BY <2>1, <2>2 DEF AttestationId, Attestation
<1>16. ASSUME NEW q \in Requests, NEW u \in Users, NEW text \in Texts,
              ResolveCorrection(q, u, text)
       PROVE  IInv'
  <2> DEFINE id == [version |-> inflight[q].review.attestation.version + 1, text |-> text]
             signed == [version |-> id.version, text |-> text, signerRole |-> RoleOf[u]]
             r == CorrectionResolved(inflight[q].review, id)
  <2>1. /\ inflight[q] # Idle /\ attestations' = attestations \cup {signed} /\ Commit(q, r)
    BY <1>16 DEF ResolveCorrection, MayCloseCorrection
  <2>2. id \in AttestationId /\ signed \in Attestation
    BY <1>15, <2>1
  <2>3. r.credential = NoCredential
    BY DEF CorrectionResolved, ResetForAttestation
  <2> HIDE DEF id, signed
  <2>4. r \in ReviewCase /\ RecordSound(r, attestations')
    BY <1>0, <2>1, <2>2, ResolvedType, ResolvedSound
  <2>5. CredentialAgrees(r)
    BY <2>3 DEF CredentialAgrees, NoCredential
  <2>6. attestations \subseteq attestations' /\ attestations' \subseteq Attestation
    BY <2>1, <2>2 DEF IInv, TypeOK
  <2> HIDE DEF r
  <2> QED
    BY <2>1, <2>4, <2>5, <2>6, CommitStep
<1>17. ASSUME NEW q \in Requests, NEW u \in Users, NEW text \in Texts,
              CrashInResolve(q, u, text)
       PROVE  IInv'
  <2> DEFINE id == [version |-> inflight[q].review.attestation.version + 1, text |-> text]
             signed == [version |-> id.version, text |-> text, signerRole |-> RoleOf[u]]
  <2>1. /\ inflight[q] # Idle /\ attestations' = attestations \cup {signed}
        /\ inflight' = [p \in Requests |-> Idle] /\ UNCHANGED <<reviews, evidence, torn>>
    BY <1>17 DEF CrashInResolve, MayCloseCorrection, AllIdle
  <2>2. signed \in Attestation
    BY <1>15, <2>1
  <2> HIDE DEF signed
  <2>3. TypeOK'
    BY <2>1, <2>2 DEF IInv, TypeOK
  <2>4. Sound'
    BY <2>1, MoreSigned DEF IInv, Sound
  <2> QED
    BY <2>1, <2>3, <2>4 DEF IInv, CredentialCurrent
<1>18. ASSUME NEW c \in Cases, NEW u \in Users, NEW action \in LifecycleActions,
              Transition(c, u, action)
       PROVE  IInv'
  <2> DEFINE t == Tier(c, reviews[c])
             s == Transitioned(reviews[c], action, t)
             moved == WithReceipt([reviews[c] EXCEPT
                          !.lifecycle = TargetOf(action),
                          !.mark = IF action = "reactivate" THEN "pending" ELSE "denied"],
                          LifecycleReceipt(action))
             fresh == Refreshed(moved, t)
  <2>1. /\ reviews' = [reviews EXCEPT ![c] = s] /\ torn' = torn \ {c}
        /\ UNCHANGED <<attestations, evidence, inflight>>
    BY <1>18 DEF Transition
  <2>2. reviews[c] \in ReviewCase /\ RecordSound(reviews[c], attestations) /\ t \in Tiers
    BY TierType DEF IInv, TypeOK, Sound
  <2>3. s \in ReviewCase /\ Coherent(s)
    BY <2>2, TransitionedType, TransitionedCoherent DEF RecordSound
  <2>4. moved \in ReviewCase
    <3>1. TargetOf(action) \in Lifecycles /\ LifecycleReceipt(action) \in ReceiptTypes
      BY DEF LifecycleActions, TargetOf, Lifecycles, LifecycleReceipt, ReceiptTypes
    <3>2. ASSUME NEW lifecycle \in Lifecycles, NEW mark \in {"pending", "authorized", "denied"}
          PROVE  [reviews[c] EXCEPT !.lifecycle = lifecycle, !.mark = mark] \in ReviewCase
      BY <2>2 DEF ReviewCase
    <3> QED
      BY <3>1, <3>2, WithReceiptType
  <2>5. fresh \in ReviewCase /\ CredentialAgrees(fresh) /\ fresh.credential.tier = t
    BY <2>2, <2>4, RefreshedType, RefreshedAgrees
  <2>6. /\ s.approvals = fresh.approvals /\ s.clearance = fresh.clearance
        /\ s.custos = fresh.custos /\ s.receipts = fresh.receipts /\ s.signing = fresh.signing
        /\ s.registry = fresh.registry /\ s.published = fresh.published
        /\ s.revocation = fresh.revocation /\ s.lifecycle = fresh.lifecycle
        /\ s.mark = fresh.mark /\ s.credential = fresh.credential
    <3> HIDE DEF fresh
    <3>1. s = [fresh EXCEPT !.status = IF Issued(fresh) THEN "issued" ELSE "blocked"]
      BY DEF Transitioned, fresh
    <3> HIDE DEF s
    <3> QED
      BY <2>5, <3>1 DEF ReviewCase
  <2>7. s.attestation = reviews[c].attestation
    BY <2>2 DEF Transitioned, WithReceipt, Refreshed, ReviewCase
  <2> HIDE DEF s, fresh, moved
  <2>8. CredentialAgrees(s)
    BY <2>3, <2>5, <2>6, CredentialForFrame DEF CredentialAgrees
  <2>9. AttestorBehind(s, attestations)
    BY <2>2, <2>5, <2>6, <2>7, EligibleIsAttested DEF Tier, IInv, TypeOK
  <2>10. RecordSound(s, attestations)
    BY <2>3, <2>8, <2>9, AgreeingIsFourEyed DEF RecordSound, Coherent
  <2>11. TypeOK'
    BY <2>1, <2>3 DEF IInv, TypeOK
  <2>12. Sound'
    BY <2>1, <2>10 DEF IInv, TypeOK, Sound
  <2>13. CredentialCurrent'
    BY <2>1, <2>8 DEF IInv, TypeOK, CredentialCurrent
  <2> QED
    BY <2>11, <2>12, <2>13 DEF IInv
<1>19. ASSUME NEW u \in Users, NEW text \in Texts, Submit(u, text) PROVE IInv'
  BY <1>19, SubmitStep DEF Submit
<1>20. ASSUME NEW c \in Cases, NEW tier \in EvidenceTiers, ReviseEvidence(c, tier) PROVE IInv'
  <2>1. /\ evidence' = [evidence EXCEPT ![c] = tier] /\ tier \in Tiers
        /\ UNCHANGED <<reviews, attestations, inflight, torn>>
    BY <1>20, RoutesAssumption DEF ReviseEvidence
  <2> QED
    BY <2>1 DEF IInv, TypeOK, Sound, CredentialCurrent
<1>21. ASSUME NEW u \in Users, NEW text \in Texts, NEW reset \in SUBSET Cases,
              CrashInSubmit(u, text, reset)
       PROVE  IInv'
  BY <1>21, SubmitStep DEF CrashInSubmit
<1>22. CASE UNCHANGED vars
  BY <1>22 DEF vars, IInv, TypeOK, Sound, CredentialCurrent
<1> QED
  BY <1>1, <1>2, <1>3, <1>4, <1>5, <1>6, <1>7, <1>8, <1>11, <1>12, <1>13, <1>14, <1>16, <1>17,
     <1>18, <1>19, <1>20, <1>21, <1>22 DEF Next

LEMMA Invariance == Spec => []IInv
  BY InitIInv, NextIInv, PTL DEF Spec

-----------------------------------------------------------------------------
(* The theorems. *)

\* Every reachable state of every instance is well typed.
THEOREM TypeCorrect == Spec => []TypeOK
  BY Invariance, PTL DEF IInv

\* No interleaving of handlers stores a credential that disagrees with the
\* record beside it; only a death between two writes does.
THEOREM CredentialIsCurrent == Spec => []CredentialCurrent
  BY Invariance, PTL DEF IInv

\* One user never holds both approvals of a case.
THEOREM ApproversAreDistinct == Spec => []DistinctApprovers
<1>1. IInv => DistinctApprovers
  BY DEF IInv, Sound, RecordSound, Coherent, DistinctApprovers
<1> QED
  BY <1>1, Invariance, PTL

\* Every issued Tier 4 credential stands on four eyes, a clear conflict check
\* and a passing CUSTOS verdict.
THEOREM TierFourIsFourEyed == Spec => []TierFourOnFourEyes
<1>1. IInv => TierFourOnFourEyes
  BY DEF IInv, Sound, RecordSound, TierFourOnFourEyes
<1> QED
  BY <1>1, Invariance, PTL

\* Outside the active lifecycle the mark is denied.
THEOREM InactiveIsDenied == Spec => []InactiveMarkDenied
<1>1. IInv => InactiveMarkDenied
  BY DEF IInv, Sound, RecordSound, Coherent, InactiveMarkDenied
<1> QED
  BY <1>1, Invariance, PTL

\* Revocation control rests on a publication and that on a signature, each
\* with its receipt.
THEOREM AuthorityIsChained == Spec => []AuthorityChain
<1>1. IInv => AuthorityChain
  BY DEF IInv, Sound, RecordSound, Coherent, AuthorityChain
<1> QED
  BY <1>1, Invariance, PTL

\* A credential above Tier 1 rests on an authorized attestor's signature.
THEOREM HigherTierIsAttested == Spec => []HigherTierAttested
<1>1. IInv => HigherTierAttested
  BY DEF IInv, Sound, RecordSound, HigherTierAttested
<1> QED
  BY <1>1, Invariance, PTL

-----------------------------------------------------------------------------
(* Requests that do not overlap.  A copy in flight is then the stored case,  *)
(* and what a handler's guard saw still holds when it writes.                *)

Serial ==
    /\ \A q \in Requests : inflight[q] # Idle =>
           /\ inflight[q].review = reviews[inflight[q].case]
           /\ \A p \in Requests : inflight[p] # Idle => p = q
    /\ \A c \in Cases : \E a \in attestations : IdOf(a) = reviews[c].attestation

SerialInv == IInv /\ Serial

\* What a step may do to the lifecycle of a case, and where its attestation is from.
Keeps(r, s) == r.lifecycle \in Terminal /\ s.lifecycle # r.lifecycle => s.attestation # r.attestation

LEMMA DecisionFrames ==
    ASSUME NEW r \in ReviewCase
    PROVE  /\ \A t : /\ Decided(r, t).lifecycle = r.lifecycle
                     /\ Decided(r, t).attestation = r.attestation
                     /\ Refreshed(r, t).lifecycle = r.lifecycle
                     /\ Refreshed(r, t).attestation = r.attestation
           /\ \A u \in Users, role \in ReviewRoles, d \in Determination :
                  /\ Reviewed(r, u, role, d).lifecycle = r.lifecycle
                  /\ Reviewed(r, u, role, d).attestation = r.attestation
           /\ \A v \in {"pass", "fail"} : /\ CustosDecided(r, v).lifecycle = r.lifecycle
                                          /\ CustosDecided(r, v).attestation = r.attestation
           /\ SigningAuthorized(r).lifecycle = r.lifecycle
           /\ SigningAuthorized(r).attestation = r.attestation
           /\ RegistryPublished(r).lifecycle = r.lifecycle
           /\ RegistryPublished(r).attestation = r.attestation
           /\ RevocationEnabled(r).lifecycle = r.lifecycle
           /\ RevocationEnabled(r).attestation = r.attestation
           /\ \A m \in {"authorized", "denied"} : /\ MarkDecided(r, m).lifecycle = r.lifecycle
                                                  /\ MarkDecided(r, m).attestation = r.attestation
<1>1. ASSUME NEW t
      PROVE  /\ Decided(r, t).lifecycle = r.lifecycle /\ Decided(r, t).attestation = r.attestation
             /\ Refreshed(r, t).lifecycle = r.lifecycle
             /\ Refreshed(r, t).attestation = r.attestation
  BY DEF Decided, Refreshed, ReviewCase
<1>2. ASSUME NEW u \in Users, NEW role \in ReviewRoles, NEW d \in Determination
      PROVE  /\ Reviewed(r, u, role, d).lifecycle = r.lifecycle
             /\ Reviewed(r, u, role, d).attestation = r.attestation
  BY DEF Reviewed, WithReceipt, ReviewCase
<1>3. ASSUME NEW v \in {"pass", "fail"}
      PROVE  /\ CustosDecided(r, v).lifecycle = r.lifecycle
             /\ CustosDecided(r, v).attestation = r.attestation
  BY DEF CustosDecided, WithReceipt, ReviewCase
<1>4. /\ SigningAuthorized(r).lifecycle = r.lifecycle
      /\ SigningAuthorized(r).attestation = r.attestation
      /\ RegistryPublished(r).lifecycle = r.lifecycle
      /\ RegistryPublished(r).attestation = r.attestation
      /\ RevocationEnabled(r).lifecycle = r.lifecycle
      /\ RevocationEnabled(r).attestation = r.attestation
  BY DEF SigningAuthorized, RegistryPublished, RevocationEnabled, WithReceipt, ReviewCase
<1>5. ASSUME NEW m \in {"authorized", "denied"}
      PROVE  /\ MarkDecided(r, m).lifecycle = r.lifecycle
             /\ MarkDecided(r, m).attestation = r.attestation
  BY DEF MarkDecided, WithReceipt, ReviewCase
<1> QED
  BY <1>1, <1>2, <1>3, <1>4, <1>5

LEMMA CorrectionFrames ==
    ASSUME NEW r \in ReviewCase
    PROVE  /\ Keeps(r, CorrectionRequested(r))
           /\ CorrectionRequested(r).attestation = r.attestation
           /\ Keeps(r, CorrectionRejected(r))
           /\ CorrectionRejected(r).attestation = r.attestation
<1>1. /\ CorrectionRequested(r).attestation = r.attestation
      /\ \/ CorrectionRequested(r).lifecycle = r.lifecycle
         \/ r.lifecycle \in {"active", "suspended"}
  BY DEF CorrectionRequested, WithReceipt, ReviewCase
<1>2. /\ CorrectionRejected(r).attestation = r.attestation
      /\ CorrectionRejected(r).lifecycle = r.lifecycle
  BY DEF CorrectionRejected, WithReceipt, ReviewCase
<1> QED
  BY <1>1, <1>2 DEF Keeps, Terminal

\* A serial commit that keeps the attestation of its copy.
LEMMA SerialCommit ==
    ASSUME SerialInv, NEW q \in Requests, inflight[q] # Idle, NEW s,
           reviews' = [reviews EXCEPT ![inflight[q].case] = s],
           \A p \in Requests : p = q => inflight'[p] = Idle,
           \A p \in Requests : inflight'[p] = Idle \/ inflight'[p] = inflight[p],
           Keeps(inflight[q].review, s),
           \/ s.attestation = inflight[q].review.attestation
           \/ \E a \in attestations' : IdOf(a) = s.attestation,
           attestations \subseteq attestations'
    PROVE  Serial' /\ \A c \in Cases : Keeps(reviews[c], reviews'[c])
<1>1. inflight[q].case \in Cases /\ inflight[q].review = reviews[inflight[q].case]
  BY DEF SerialInv, IInv, TypeOK, Copy, Serial
<1>2. \A p \in Requests : inflight'[p] = Idle
  BY DEF SerialInv, Serial
<1>3. ASSUME NEW c \in Cases
      PROVE  /\ Keeps(reviews[c], reviews'[c])
             /\ \E a \in attestations' : IdOf(a) = reviews'[c].attestation
  <2>1. \E a \in attestations' : IdOf(a) = reviews[c].attestation
    BY DEF SerialInv, Serial
  <2>2. CASE c = inflight[q].case
    BY <1>1, <2>1, <2>2 DEF SerialInv, IInv, TypeOK
  <2>3. CASE c # inflight[q].case
    BY <1>1, <2>1, <2>3 DEF SerialInv, IInv, TypeOK, Keeps
  <2> QED
    BY <2>2, <2>3
<1> QED
  BY <1>2, <1>3 DEF Serial

LEMMA SerialDecision ==
    ASSUME SerialInv, NEW q \in Requests, inflight[q] # Idle, NEW r \in ReviewCase,
           r.lifecycle = inflight[q].review.lifecycle,
           r.attestation = inflight[q].review.attestation,
           CommitDecision(q, r)
    PROVE  Serial' /\ \A c \in Cases : Keeps(reviews[c], reviews'[c])
<1> DEFINE s == Decided(r, Tier(inflight[q].case, r))
<1>1. s.lifecycle = r.lifecycle /\ s.attestation = r.attestation
  BY DecisionFrames
<1>2. /\ reviews' = [reviews EXCEPT ![inflight[q].case] = s]
      /\ inflight' = [inflight EXCEPT ![q] = Idle] /\ attestations' = attestations
  BY DEF CommitDecision, Commit
<1>3. Keeps(inflight[q].review, s)
  BY <1>1 DEF Keeps
<1>4. inflight \in [Requests -> Copy \cup {Idle}]
  BY DEF SerialInv, IInv, TypeOK
<1> HIDE DEF s
<1> QED
  BY <1>1, <1>2, <1>3, <1>4, SerialCommit

LEMMA SerialInit == Init => Serial
<1> SUFFICES ASSUME Init PROVE Serial
  OBVIOUS
<1>1. PICK text \in Texts :
          LET first == [version |-> 1, text |-> text]
          IN  /\ reviews = [c \in Cases |-> ResetForAttestation(first, <<>>)]
              /\ attestations = {[version |-> 1, text |-> text, signerRole |-> "authorized-attestor"]}
  BY DEF Init
<1>2. \A c \in Cases : \E a \in attestations : IdOf(a) = reviews[c].attestation
  BY <1>1 DEF ResetForAttestation, IdOf
<1>3. inflight = [q \in Requests |-> Idle]
  BY DEF Init
<1> QED
  BY <1>2, <1>3 DEF Serial

\* A submission resets a case to an attestation no case was on.
LEMMA SerialSubmit ==
    ASSUME SerialInv, ~Overlap, NEW u \in Users, NEW text \in Texts, NEW reset \in SUBSET Cases,
           SubmitCases(u, text, reset), inflight' = inflight \/ inflight' = AllIdle
    PROVE  Serial' /\ \A c \in Cases : Keeps(reviews[c], reviews'[c])
<1>1. PICK latest \in attestations :
          LET id == [version |-> latest.version + 1, text |-> text]
          IN  /\ CanAppend(attestations, id)
              /\ attestations' = attestations \cup
                     {[version |-> id.version, text |-> text, signerRole |-> RoleOf[u]]}
              /\ reviews' = [c \in Cases |->
                     IF c \in reset THEN ResetForAttestation(id, reviews[c].corrections)
                     ELSE reviews[c]]
  BY DEF SubmitCases
<1> DEFINE id == [version |-> latest.version + 1, text |-> text]
           signed == [version |-> id.version, text |-> text, signerRole |-> RoleOf[u]]
<1>2. IdOf(signed) = id
  BY DEF IdOf
<1>3. /\ CanAppend(attestations, id) /\ attestations' = attestations \cup {signed}
      /\ reviews' = [c \in Cases |-> IF c \in reset
                                     THEN ResetForAttestation(id, reviews[c].corrections)
                                     ELSE reviews[c]]
  BY <1>1
<1> HIDE DEF id, signed
<1>4. ASSUME NEW c \in Cases
      PROVE  /\ Keeps(reviews[c], reviews'[c])
             /\ \E a \in attestations' : IdOf(a) = reviews'[c].attestation
  <2>1. PICK a \in attestations : IdOf(a) = reviews[c].attestation
    BY DEF SerialInv, Serial
  <2>2. CASE c \in reset
    <3>1. reviews'[c].attestation = id
      BY <1>3, <2>2 DEF ResetForAttestation
    <3>2. id # reviews[c].attestation
      BY <1>3, <2>1 DEF CanAppend
    <3> QED
      BY <1>2, <1>3, <3>1, <3>2 DEF Keeps
  <2>3. CASE c \notin reset
    BY <1>3, <2>1, <2>3 DEF Keeps
  <2> QED
    BY <2>2, <2>3
<1>5. \A q \in Requests : inflight'[q] = Idle
  BY DEF SubmitCases, Free, AllIdle
<1> QED
  BY <1>4, <1>5 DEF Serial

LEMMA SerialNext ==
    ASSUME ~Overlap, SerialInv, [Next]_vars
    PROVE  Serial' /\ \A c \in Cases : Keeps(reviews[c], reviews'[c])
<1>0. ASSUME NEW q \in Requests, inflight[q] # Idle
      PROVE  inflight[q].review \in ReviewCase
  BY <1>0 DEF SerialInv, IInv, TypeOK, Copy
<1>t. inflight \in [Requests -> Copy \cup {Idle}]
  BY DEF SerialInv, IInv, TypeOK
<1>1. ASSUME NEW q \in Requests, NEW c \in Cases, Load(q, c)
      PROVE  Serial' /\ \A d \in Cases : Keeps(reviews[d], reviews'[d])
  <2>1. \A p \in Requests : inflight[p] = Idle
    BY <1>1 DEF Load, Free
  <2>2. /\ inflight' = [inflight EXCEPT ![q] = [case |-> c, review |-> reviews[c]]]
        /\ UNCHANGED <<reviews, attestations>>
    BY <1>1 DEF Load
  <2> QED
    BY <1>t, <2>1, <2>2 DEF SerialInv, Serial, Keeps
<1>2. ASSUME NEW q \in Requests, Refuse(q)
      PROVE  Serial' /\ \A d \in Cases : Keeps(reviews[d], reviews'[d])
  BY <1>t, <1>2 DEF Refuse, SerialInv, Serial, Keeps
<1>3. ASSUME NEW q \in Requests, NEW u \in Users, NEW role \in ReviewRoles,
             NEW d \in Determinations, Review(q, u, role, d)
      PROVE  Serial' /\ \A c \in Cases : Keeps(reviews[c], reviews'[c])
  BY <1>0, <1>3, RoutesAssumption, ReviewedType, DecisionFrames, SerialDecision DEF Review
<1>4. ASSUME NEW q \in Requests, NEW u \in Users, NEW v \in {"pass", "fail"}, DecideCustos(q, u, v)
      PROVE  Serial' /\ \A c \in Cases : Keeps(reviews[c], reviews'[c])
  BY <1>0, <1>4, DecisionTypes, DecisionFrames, SerialDecision DEF DecideCustos
<1>5. ASSUME NEW q \in Requests, NEW u \in Users, AuthorizeSigning(q, u)
      PROVE  Serial' /\ \A c \in Cases : Keeps(reviews[c], reviews'[c])
  BY <1>0, <1>5, DecisionTypes, DecisionFrames, SerialDecision DEF AuthorizeSigning
<1>6. ASSUME NEW q \in Requests, NEW u \in Users, PublishRegistry(q, u)
      PROVE  Serial' /\ \A c \in Cases : Keeps(reviews[c], reviews'[c])
  BY <1>0, <1>6, DecisionTypes, DecisionFrames, SerialDecision DEF PublishRegistry
<1>7. ASSUME NEW q \in Requests, NEW u \in Users, EnableRevocation(q, u)
      PROVE  Serial' /\ \A c \in Cases : Keeps(reviews[c], reviews'[c])
  BY <1>0, <1>7, DecisionTypes, DecisionFrames, SerialDecision DEF EnableRevocation
<1>8. ASSUME NEW q \in Requests, NEW u \in Users, NEW m \in {"authorized", "denied"},
             DecideMark(q, u, m)
      PROVE  Serial' /\ \A c \in Cases : Keeps(reviews[c], reviews'[c])
  BY <1>0, <1>8, DecisionTypes, DecisionFrames, SerialDecision DEF DecideMark
<1>9. ASSUME NEW q \in Requests, inflight[q] # Idle, NEW s,
             reviews' = [reviews EXCEPT ![inflight[q].case] = s],
             inflight' = [inflight EXCEPT ![q] = Idle] \/ inflight' = AllIdle,
             Keeps(inflight[q].review, s),
             \/ s.attestation = inflight[q].review.attestation
             \/ \E a \in attestations' : IdOf(a) = s.attestation,
             attestations \subseteq attestations'
      PROVE  Serial' /\ \A c \in Cases : Keeps(reviews[c], reviews'[c])
  BY <1>9, <1>t, SerialCommit DEF AllIdle
<1>10. ASSUME NEW r \in ReviewCase, NEW t, NEW s \in ReviewCase,
              Keeps(r, s), s.attestation = r.attestation
       PROVE  Keeps(r, Refreshed(s, t)) /\ Refreshed(s, t).attestation = r.attestation
  BY <1>10, DecisionFrames DEF Keeps
<1>11. ASSUME NEW q \in Requests, NEW u \in Users,
              RequestCorrection(q, u) \/ RejectCorrection(q, u)
       PROVE  Serial' /\ \A c \in Cases : Keeps(reviews[c], reviews'[c])
  <2>1. inflight[q] # Idle
    BY <1>11 DEF RequestCorrection, RejectCorrection, MayRequestCorrection, MayCloseCorrection
  <2>2. PICK s \in {CorrectionRequested(inflight[q].review), CorrectionRejected(inflight[q].review)} :
            Commit(q, Refreshed(s, CopyTier(q))) /\ attestations' = attestations
    BY <1>11 DEF RequestCorrection, RejectCorrection
  <2>3. /\ s \in ReviewCase /\ Keeps(inflight[q].review, s)
        /\ s.attestation = inflight[q].review.attestation
    BY <1>0, <2>1, <2>2, RequestedType, RejectedType, CorrectionFrames
  <2>4. /\ Keeps(inflight[q].review, Refreshed(s, CopyTier(q)))
        /\ Refreshed(s, CopyTier(q)).attestation = inflight[q].review.attestation
    BY <1>0, <1>10, <2>1, <2>3
  <2>5. /\ reviews' = [reviews EXCEPT ![inflight[q].case] = Refreshed(s, CopyTier(q))]
        /\ inflight' = [inflight EXCEPT ![q] = Idle]
    BY <2>2 DEF Commit
  <2> QED
    BY <1>9, <2>1, <2>2, <2>4, <2>5
<1>12. ASSUME NEW q \in Requests, NEW u \in Users, CrashInRequest(q, u) \/ CrashInReject(q, u)
       PROVE  Serial' /\ \A c \in Cases : Keeps(reviews[c], reviews'[c])
  <2>1. inflight[q] # Idle
    BY <1>12 DEF CrashInRequest, CrashInReject, MayRequestCorrection, MayCloseCorrection
  <2>2. PICK s \in {CorrectionRequested(inflight[q].review), CorrectionRejected(inflight[q].review)} :
            TornWrite(q, s)
    BY <1>12 DEF CrashInRequest, CrashInReject
  <2>3. Keeps(inflight[q].review, s) /\ s.attestation = inflight[q].review.attestation
    BY <1>0, <2>1, <2>2, CorrectionFrames
  <2>4. /\ reviews' = [reviews EXCEPT ![inflight[q].case] = s]
        /\ inflight' = AllIdle /\ attestations' = attestations
    BY <2>2 DEF TornWrite
  <2> QED
    BY <1>9, <2>1, <2>3, <2>4
<1>13. ASSUME NEW q \in Requests, NEW u \in Users, NEW text \in Texts, ResolveCorrection(q, u, text)
       PROVE  Serial' /\ \A c \in Cases : Keeps(reviews[c], reviews'[c])
  <2> DEFINE id == [version |-> inflight[q].review.attestation.version + 1, text |-> text]
             signed == [version |-> id.version, text |-> text, signerRole |-> RoleOf[u]]
             s == CorrectionResolved(inflight[q].review, id)
  <2>1. /\ inflight[q] # Idle /\ CanAppend(attestations, id)
        /\ attestations' = attestations \cup {signed} /\ Commit(q, s)
    BY <1>13 DEF ResolveCorrection, MayCloseCorrection
  <2>2. IdOf(signed) = id
    BY DEF IdOf
  <2> HIDE DEF id, signed
  <2>3. s.attestation = id
    BY DEF CorrectionResolved, ResetForAttestation
  <2>4. \E a \in attestations : IdOf(a) = inflight[q].review.attestation
    BY <2>1 DEF SerialInv, Serial, IInv, TypeOK, Copy
  <2>5. Keeps(inflight[q].review, s)
    BY <2>1, <2>3, <2>4 DEF Keeps, CanAppend
  <2>6. /\ reviews' = [reviews EXCEPT ![inflight[q].case] = s]
        /\ inflight' = [inflight EXCEPT ![q] = Idle]
    BY <2>1 DEF Commit
  <2> HIDE DEF s
  <2> QED
    BY <1>9, <2>1, <2>2, <2>3, <2>5, <2>6
<1>14. ASSUME NEW q \in Requests, NEW u \in Users, NEW text \in Texts, CrashInResolve(q, u, text)
       PROVE  Serial' /\ \A c \in Cases : Keeps(reviews[c], reviews'[c])
  <2>1. /\ attestations \subseteq attestations' /\ inflight' = AllIdle /\ reviews' = reviews
    BY <1>14 DEF CrashInResolve
  <2> QED
    BY <2>1 DEF SerialInv, Serial, AllIdle, Keeps
<1>15. ASSUME NEW c \in Cases, NEW u \in Users, NEW action \in LifecycleActions,
              Transition(c, u, action)
       PROVE  Serial' /\ \A d \in Cases : Keeps(reviews[d], reviews'[d])
  <2> DEFINE s == Transitioned(reviews[c], action, Tier(c, reviews[c]))
  <2>1. /\ reviews' = [reviews EXCEPT ![c] = s] /\ UNCHANGED <<attestations, inflight>>
        /\ \A p \in Requests : inflight[p] = Idle
    BY <1>15 DEF Transition, Free
  <2>2. reviews[c] \in ReviewCase
    BY DEF SerialInv, IInv, TypeOK
  <2>3. s.attestation = reviews[c].attestation
    BY <2>2 DEF Transitioned, WithReceipt, Refreshed, ReviewCase
  <2>4. reviews[c].lifecycle \in {"active", "suspended"}
    BY <1>15 DEF Transition, CanTransition, AllowedFrom, LifecycleActions
  <2> HIDE DEF s
  <2>5. Keeps(reviews[c], s)
    BY <2>4 DEF Keeps, Terminal
  <2>6. ASSUME NEW d \in Cases
        PROVE  Keeps(reviews[d], reviews'[d]) /\ reviews'[d].attestation = reviews[d].attestation
    BY <2>1, <2>3, <2>5 DEF SerialInv, IInv, TypeOK, Keeps
  <2> QED
    BY <2>1, <2>6 DEF SerialInv, Serial
<1>16. ASSUME NEW u \in Users, NEW text \in Texts, Submit(u, text)
       PROVE  Serial' /\ \A c \in Cases : Keeps(reviews[c], reviews'[c])
  BY <1>16, SerialSubmit DEF Submit
<1>17. ASSUME NEW u \in Users, NEW text \in Texts, NEW reset \in SUBSET Cases,
              CrashInSubmit(u, text, reset)
       PROVE  Serial' /\ \A c \in Cases : Keeps(reviews[c], reviews'[c])
  BY <1>17, SerialSubmit DEF CrashInSubmit
<1>18. ASSUME UNCHANGED <<reviews, attestations, inflight>>
       PROVE  Serial' /\ \A c \in Cases : Keeps(reviews[c], reviews'[c])
  BY <1>18 DEF SerialInv, Serial, Keeps
<1>19. ASSUME NEW c \in Cases, NEW tier \in EvidenceTiers, ReviseEvidence(c, tier)
       PROVE  UNCHANGED <<reviews, attestations, inflight>>
  BY <1>19 DEF ReviseEvidence
<1>20. CASE UNCHANGED vars
  BY <1>18, <1>20 DEF vars
<1> QED
  BY <1>1, <1>2, <1>3, <1>4, <1>5, <1>6, <1>7, <1>8, <1>11, <1>12, <1>13, <1>14, <1>15, <1>16,
     <1>17, <1>18, <1>19, <1>20 DEF Next

\* When requests are answered one at a time, a revoked, superseded or expired
\* credential comes back only on a new attestation.
THEOREM TerminalIsFinal == ASSUME ~Overlap PROVE Spec => TerminalHolds
<1>1. Init => SerialInv
  BY InitIInv, SerialInit DEF SerialInv
<1>2. SerialInv /\ [Next]_vars => SerialInv'
  BY NextIInv, SerialNext DEF SerialInv
<1>3. SerialInv /\ [Next]_vars =>
          [\A c \in Cases :
               reviews[c].lifecycle \in Terminal /\ reviews'[c].lifecycle # reviews[c].lifecycle
                   => reviews'[c].attestation # reviews[c].attestation]_vars
  BY SerialNext DEF Keeps
<1> QED
  BY <1>1, <1>2, <1>3, PTL DEF Spec, TerminalHolds

=============================================================================
