----------------------------- MODULE ReviewCase -----------------------------
(***************************************************************************)
(* One review case of the operations plane and the pure functions that     *)
(* change it: the issuance decision (src/domain), the review decisions     *)
(* (the decision route), the credential lifecycle and the corrections      *)
(* (src/operations).  Nothing here has state: a case is a record, an       *)
(* operation is a guard Can...(r, ...) and a record-valued effect.         *)
(*                                                                         *)
(* Abstractions.  The evidence enters only as the tier it supports.  An    *)
(* attestation id hashes its version and text, so it is that pair.  The    *)
(* receipt log is its length and the set of receipt types in it: its hash  *)
(* chain is only ever extended at the end.  Wording, timestamps, reason    *)
(* codes, assignees and the successor id are left out.                     *)
(***************************************************************************)
EXTENDS Naturals, Sequences

CONSTANTS
    Users,      \* user ids of the tenant's sessions
    RoleOf,     \* the organization role of each session
    Texts       \* the claim texts an attestation may carry

OrganizationRoles ==
    {"owner", "administrator", "intake-operator", "evidence-manager", "inventory-manager",
     "authorized-attestor", "reviewer", "compliance-officer", "auditor"}

ASSUME RoleAssumption == RoleOf \in [Users -> OrganizationRoles]

\* The roles that hold a permission the review handlers assert.
RolesWith(permission) ==
    CASE permission = "review.decide"       -> {"reviewer", "compliance-officer"}
      [] permission = "review.approve-tier4" -> {"reviewer", "compliance-officer"}
      [] permission = "custos.decide"       -> {"compliance-officer"}
      [] permission = "credential.issue"    -> {"compliance-officer"}
      [] permission = "mark.authorize"      -> {"compliance-officer"}
      [] permission = "credential.lifecycle" -> {"owner", "administrator", "compliance-officer"}
      [] permission = "correction.request"  -> {"reviewer", "compliance-officer"}
      [] permission = "correction.resolve"  ->
             {"owner", "administrator", "authorized-attestor", "compliance-officer"}
      [] permission = "attestation.sign"    -> {"owner", "administrator", "authorized-attestor"}
      [] permission = "batch.submit"        -> {"owner", "administrator", "authorized-attestor"}
      [] OTHER -> {}

May(u, permission) == RoleOf[u] \in RolesWith(permission)

-----------------------------------------------------------------------------
(* The record of a case. *)

ReviewRoles   == {"primary", "secondary"}
Decisions     == {"approve", "reject", "pending"}
Lifecycles    == {"active", "suspended", "revoked", "superseded", "expired"}
Tiers         == 0..4      \* 0: the Tier 1 minimum is not met

Determination == [decision: Decisions, independent: BOOLEAN, conflictFree: BOOLEAN]
Approval      == [role: ReviewRoles, reviewer: Users, decision: Decisions,
                  independent: BOOLEAN, conflictFree: BOOLEAN]
AttestationId == [version: Nat \ {0}, text: Texts]
Attestation   == [version: Nat \ {0}, text: Texts, signerRole: OrganizationRoles]
ReceiptTypes  == {"attestation.recorded", "review.primary-recorded",
                  "review.secondary-recorded", "custos.recorded", "signing.authorized",
                  "registry.published", "revocation-control.enabled", "mark.authorized",
                  "mark.denied", "credential.suspended", "credential.reactivated",
                  "credential.revoked", "credential.superseded", "credential.expired",
                  "correction.requested", "correction.resolved", "correction.rejected"}
IssuanceStatuses ==
    {"authorized", "not-eligible", "review-rejected", "reviewer-conflict", "review-required",
     "independent-review-required", "second-approval-required",
     "conflict-clearance-required", "custos-required", "signing-key-required",
     "registry-required", "revocation-control-required"}
Credential    == [status: IssuanceStatuses \cup {"none"}, tier: Tiers,
                  lifecycle: Lifecycles \cup {"draft"}, seal: BOOLEAN]
CaseStatuses  == {"unassigned", "assigned", "correction-requested", "secondary-required",
                  "custos-required", "issuer-required", "mark-required", "issued",
                  "rejected", "blocked"}

ReviewCase ==
    [attestation: AttestationId,     \* attestationId
     attested:    SUBSET AttestationId, \* targets of its attestation.recorded receipts
     receipts:    SUBSET ReceiptTypes,
     chain:       Nat,               \* eventReceipts.length
     approvals:   SUBSET Approval,
     clearance:   {"pending", "clear", "conflict"},
     custos:      {"pending", "pass", "fail"},
     signing:     {"pending", "active"},
     registry:    {"pending", "ready"},
     published:   BOOLEAN,           \* registryPublication is present
     revocation:  BOOLEAN,           \* revocationCapability
     mark:        {"pending", "authorized", "denied"},
     lifecycle:   Lifecycles,        \* credentialLifecycle
     corrections: Seq({"open", "resolved", "rejected"}),
     credential:  Credential,
     status:      CaseStatuses]

NoCredential == [status |-> "none", tier |-> 0, lifecycle |-> "draft", seal |-> FALSE]

WithReceipt(r, type) == [r EXCEPT !.receipts = @ \cup {type}, !.chain = @ + 1]

OpenCorrection(r) == \E i \in DOMAIN r.corrections : r.corrections[i] = "open"
Issued(r)         == r.credential.status = "authorized"

\* The case a batch submission (re)starts on an attestation.
\* The corrections of an earlier round survive the reset.
ResetForAttestation(id, corrections) ==
    [attestation |-> id, attested |-> {id}, receipts |-> {"attestation.recorded"},
     chain |-> 1, approvals |-> {}, clearance |-> "pending", custos |-> "pending",
     signing |-> "pending", registry |-> "pending", published |-> FALSE,
     revocation |-> FALSE, mark |-> "pending", lifecycle |-> "active",
     corrections |-> corrections, credential |-> NoCredential, status |-> "unassigned"]
-----------------------------------------------------------------------------
(* What the record authorizes. *)

\* Mutant: anyone's signature counts.
AnySignatureCounts(r, attestations) ==
    /\ r.attestation \in r.attested
    /\ \E a \in attestations : a.version = r.attestation.version /\ a.text = r.attestation.text

\* validateStructuredAttestation, and the receipt that evaluateCertification
\* wants beside it: the case's own attestation, signed by an authorized attestor.
AttestationCounts(r, attestations) ==
    /\ r.attestation \in r.attested
    /\ \E a \in attestations : /\ a.version = r.attestation.version
                               /\ a.text = r.attestation.text
                               /\ a.signerRole = "authorized-attestor"

\* The tier of a case: Tier 2 and above need the attestation.
EligibleTier(r, evidenceTier, attestations) ==
    IF AttestationCounts(r, attestations) \/ evidenceTier = 0 THEN evidenceTier ELSE 1

Accepted(r) == {a \in r.approvals : a.decision = "approve" /\ a.conflictFree}

\* Mutant: two reviewers are enough, independent or not.
TwoReviewers(r) == \E a, b \in Accepted(r) : a.reviewer # b.reviewer

\* Two accepted approvals, of two reviewers, both independent.
FourEyes(r) ==
    /\ \E a, b \in Accepted(r) : a.reviewer # b.reviewer
    /\ \E a, b \in Accepted(r) : a # b /\ a.independent /\ b.independent

\* projectAssetToAuthority: a setting counts only with the receipt behind it.
CustosPassed(r)    == r.custos = "pass" /\ "custos.recorded" \in r.receipts
SigningReady(r)    == r.signing = "active" /\ "signing.authorized" \in r.receipts
RegistryReady(r)   == r.registry = "ready" /\ r.published /\ "registry.published" \in r.receipts
RevocationReady(r) == r.revocation /\ "revocation-control.enabled" \in r.receipts

\* evaluateIssuance: the first gate that is shut, in the code's precedence.
IssuanceStatus(t, r) ==
    IF t = 0 THEN "not-eligible"
    ELSE IF \E a \in r.approvals : a.decision = "reject" THEN "review-rejected"
    ELSE IF r.clearance = "conflict" \/ \E a \in r.approvals : ~a.conflictFree
         THEN "reviewer-conflict"
    ELSE IF Accepted(r) = {} THEN "review-required"
    ELSE IF t >= 3 /\ \A a \in Accepted(r) : ~a.independent THEN "independent-review-required"
    ELSE IF t = 4 /\ ~FourEyes(r) THEN "second-approval-required"
    ELSE IF t = 4 /\ r.clearance # "clear" THEN "conflict-clearance-required"
    ELSE IF t = 4 /\ ~CustosPassed(r) THEN "custos-required"
    ELSE IF ~SigningReady(r) THEN "signing-key-required"
    ELSE IF ~RegistryReady(r) THEN "registry-required"
    ELSE IF ~RevocationReady(r) THEN "revocation-control-required"
    ELSE "authorized"

\* buildCredential: a credential that is not issued shows as a draft, and the
\* mark needs an active lifecycle.
CredentialFor(t, r) ==
    LET status == IssuanceStatus(t, r)
        issued == status = "authorized"
    IN  [status |-> status, tier |-> t,
         lifecycle |-> IF issued THEN r.lifecycle ELSE "draft",
         seal |-> issued /\ r.lifecycle = "active" /\ r.mark = "authorized"]

Refreshed(r, t) == [r EXCEPT !.credential = CredentialFor(t, r)]

StatusFromCredential(credential) ==
    CASE credential.status = "authorized" -> IF credential.seal THEN "issued" ELSE "mark-required"
      [] credential.status = "second-approval-required" -> "secondary-required"
      [] credential.status = "custos-required" -> "custos-required"
      [] credential.status \in {"signing-key-required", "registry-required",
                                "revocation-control-required"} -> "issuer-required"
      [] credential.status = "review-rejected" -> "rejected"
      [] OTHER -> "blocked"

\* The tail of every decision: credential and status recomputed together.
Decided(r, t) ==
    LET credential == CredentialFor(t, r)
    IN  [r EXCEPT !.credential = credential, !.status = StatusFromCredential(credential)]

-----------------------------------------------------------------------------
(* The decision route. *)

Approved(r, role) ==
    \E a \in r.approvals : /\ a.role = role /\ a.decision = "approve"
                           /\ a.independent /\ a.conflictFree

\* Mutant: a reviewer may take the second role as well.
CanReviewTwice(r, u, role) ==
    /\ May(u, "review.decide")
    /\ role = "secondary" => May(u, "review.approve-tier4") /\ Approved(r, "primary")

CanReview(r, u, role) ==
    /\ May(u, "review.decide")
    /\ role = "secondary" => May(u, "review.approve-tier4") /\ Approved(r, "primary")
    /\ ~\E a \in r.approvals : a.role # role /\ a.decision = "approve" /\ a.reviewer = u

\* A reviewer's determination replaces the one recorded for the same role, and
\* the case's clearance is the latest reviewer's word.
Reviewed(r, u, role, d) ==
    LET approval == [role |-> role, reviewer |-> u, decision |-> d.decision,
                     independent |-> d.independent, conflictFree |-> d.conflictFree]
    IN  WithReceipt([r EXCEPT
            !.approvals = {a \in @ : a.role # role} \cup {approval},
            !.clearance = IF d.conflictFree THEN "clear" ELSE "conflict"],
            IF role = "primary" THEN "review.primary-recorded" ELSE "review.secondary-recorded")

DualReviewCleared(r) ==
    Approved(r, "primary") /\ Approved(r, "secondary") /\ r.clearance = "clear"

CanDecideCustos(r, u, t) ==
    /\ May(u, "review.decide") /\ May(u, "custos.decide")
    /\ t = 4 => DualReviewCleared(r)

CustosDecided(r, verdict) == WithReceipt([r EXCEPT !.custos = verdict], "custos.recorded")

CanAuthorizeSigning(r, u, t) ==
    /\ May(u, "review.decide") /\ May(u, "credential.issue")
    /\ Approved(r, "primary")
    /\ t = 4 => Approved(r, "secondary") /\ r.clearance = "clear" /\ r.custos = "pass"

SigningAuthorized(r) == WithReceipt([r EXCEPT !.signing = "active"], "signing.authorized")

\* Mutant: publication does not wait for the signature.
CanPublishUnsigned(r, u) == May(u, "review.decide") /\ May(u, "credential.issue")

CanPublishRegistry(r, u) ==
    /\ May(u, "review.decide") /\ May(u, "credential.issue")
    /\ SigningReady(r)

RegistryPublished(r) ==
    WithReceipt([r EXCEPT !.registry = "ready", !.published = TRUE], "registry.published")

CanEnableRevocation(r, u) ==
    /\ May(u, "review.decide") /\ May(u, "credential.issue")
    /\ r.registry = "ready" /\ r.published

RevocationEnabled(r) ==
    WithReceipt([r EXCEPT !.revocation = TRUE], "revocation-control.enabled")

\* Mutant: the lifecycle is not looked at.
CanDecideMarkAlways(r, u, t) ==
    /\ May(u, "review.decide") /\ May(u, "mark.authorize")
    /\ ~OpenCorrection(r)
    /\ IssuanceStatus(t, r) = "authorized"

CanDecideMark(r, u, t) ==
    /\ May(u, "review.decide") /\ May(u, "mark.authorize")
    /\ r.lifecycle = "active"
    /\ ~OpenCorrection(r)
    /\ IssuanceStatus(t, r) = "authorized"

MarkDecided(r, mark) ==
    WithReceipt([r EXCEPT !.mark = mark],
                IF mark = "authorized" THEN "mark.authorized" ELSE "mark.denied")

-----------------------------------------------------------------------------
(* The credential lifecycle. *)

LifecycleActions == {"suspend", "reactivate", "revoke", "supersede", "expire"}

\* Mutant: a revoked credential may be reactivated.
AllowedAgain(action) ==
    CASE action = "suspend"    -> {"active"}
      [] action = "reactivate" -> {"suspended", "revoked"}
      [] OTHER                 -> {"active", "suspended"}

AllowedFrom(action) ==
    CASE action = "suspend"    -> {"active"}
      [] action = "reactivate" -> {"suspended"}
      [] OTHER                 -> {"active", "suspended"}

TargetOf(action) ==
    CASE action = "suspend"    -> "suspended"
      [] action = "reactivate" -> "active"
      [] action = "revoke"     -> "revoked"
      [] action = "supersede"  -> "superseded"
      [] action = "expire"     -> "expired"

LifecycleReceipt(action) ==
    CASE action = "suspend"    -> "credential.suspended"
      [] action = "reactivate" -> "credential.reactivated"
      [] action = "revoke"     -> "credential.revoked"
      [] action = "supersede"  -> "credential.superseded"
      [] action = "expire"     -> "credential.expired"

CanTransition(r, u, action) ==
    /\ May(u, "credential.lifecycle")
    /\ Issued(r) /\ r.published /\ r.registry = "ready" /\ r.revocation
    /\ r.lifecycle \in AllowedFrom(action)

\* Mutant: the credential is not rebuilt.
TransitionedStale(r, action, t) ==
    WithReceipt([r EXCEPT
        !.lifecycle = TargetOf(action),
        !.mark = IF action = "reactivate" THEN "pending" ELSE "denied"],
        LifecycleReceipt(action))

\* Leaving "active" denies the mark; coming back leaves it pending.
Transitioned(r, action, t) ==
    LET moved == WithReceipt([r EXCEPT
                     !.lifecycle = TargetOf(action),
                     !.mark = IF action = "reactivate" THEN "pending" ELSE "denied"],
                     LifecycleReceipt(action))
        fresh == Refreshed(moved, t)
    IN  [fresh EXCEPT !.status = IF Issued(fresh) THEN "issued" ELSE "blocked"]

-----------------------------------------------------------------------------
(* Corrections. *)

CanRequestCorrection(r, u) == May(u, "correction.request") /\ ~OpenCorrection(r)

\* An issued credential that is active or suspended is suspended and loses its mark.
CorrectionRequested(r) ==
    LET noted == WithReceipt([r EXCEPT !.corrections = Append(@, "open"),
                                       !.status = "correction-requested"],
                             "correction.requested")
    IN  IF Issued(r) /\ r.lifecycle \in {"active", "suspended"}
        THEN [noted EXCEPT !.lifecycle = "suspended", !.mark = "denied"]
        ELSE noted

CanCloseCorrection(r, u) == May(u, "correction.resolve") /\ OpenCorrection(r)

Closed(corrections, outcome) ==
    [i \in DOMAIN corrections |-> IF corrections[i] = "open" THEN outcome ELSE corrections[i]]

\* The review starts over on the replacement attestation, its receipts kept.
CorrectionResolved(r, id) ==
    [ResetForAttestation(id, Closed(r.corrections, "resolved")) EXCEPT
        !.attested = r.attested \cup {id},
        !.receipts = r.receipts \cup {"correction.resolved", "attestation.recorded"},
        !.chain    = r.chain + 2]

\* A rejected correction leaves lifecycle and mark as the request left them.
CorrectionRejected(r) ==
    WithReceipt([r EXCEPT
        !.corrections = Closed(@, "rejected"),
        !.status = IF Issued(r) THEN "issued" ELSE "assigned"], "correction.rejected")

-----------------------------------------------------------------------------
(* Attestations, which are never overwritten. *)

IdOf(a) == [version |-> a.version, text |-> a.text]

\* appendAttestation refuses an id it already holds.
CanAppend(attestations, id) == \A a \in attestations : IdOf(a) # id
=============================================================================
