---------------------------- MODULE ReviewRoutes ----------------------------
(***************************************************************************)
(* The review routes of the operations plane: the handlers that read a     *)
(* case from the repository, change it with the functions of ReviewCase    *)
(* and write it back whole.                                                *)
(*                                                                         *)
(* Node runs a handler alone between two awaits.  The decision and the     *)
(* corrections routes read the case BEFORE they await the request body and *)
(* write it after, so another handler can run in between: a request is     *)
(* Load (the copy it took) and then one of its commits.  The lifecycle and *)
(* the submit routes read after their last await and are one step.  The    *)
(* repository checks no version when a case is written back.               *)
(*                                                                         *)
(* Cases are the assets of one batch: they share its attestations.         *)
(***************************************************************************)
EXTENDS ReviewCase

CONSTANTS
    Cases,          \* the review cases of the batch
    Requests,       \* decision and corrections requests that can be in flight at once
    Idle,           \* a request slot that holds no copy
    Determinations, \* the review determinations clients send
    EvidenceTiers,  \* the tiers the evidence on file can support
    Overlap,        \* do requests overlap?  FALSE: each is answered before the next
    MaxChain,       \* bound: receipts of a case
    MaxCorrections, \* bound: corrections of a case
    MaxVersion      \* bound: attestation versions of the batch

ASSUME RoutesAssumption ==
    /\ Cases # {} /\ Texts # {}
    /\ Determinations \subseteq Determination
    /\ EvidenceTiers \subseteq Tiers /\ EvidenceTiers # {}
    /\ Overlap \in BOOLEAN
    /\ MaxChain \in Nat /\ MaxCorrections \in Nat /\ MaxVersion \in Nat

VARIABLES
    reviews,        \* the stored cases
    attestations,   \* the stored attestations of the batch
    evidence,       \* per case, the tier its evidence supports
    inflight,       \* per request slot, the copy a handler loaded, or Idle
    torn            \* history: cases whose last handler died between its writes

vars == <<reviews, attestations, evidence, inflight, torn>>

Copy == [case: Cases, review: ReviewCase]

ASSUME IdleAssumption == Idle \notin Copy

TypeOK ==
    /\ reviews \in [Cases -> ReviewCase]
    /\ attestations \subseteq Attestation
    /\ evidence \in [Cases -> Tiers]
    /\ inflight \in [Requests -> Copy \cup {Idle}]
    /\ torn \subseteq Cases

\* A batch that was just submitted.
Init ==
    \E text \in Texts :
        LET first == [version |-> 1, text |-> text]
        IN  /\ reviews = [c \in Cases |-> ResetForAttestation(first, <<>>)]
            /\ attestations = {[version |-> 1, text |-> text, signerRole |-> "authorized-attestor"]}
            /\ evidence \in [Cases -> EvidenceTiers]
            /\ inflight = [q \in Requests |-> Idle]
            /\ torn = {}

\* A handler may start.
Free == Overlap \/ \A q \in Requests : inflight[q] = Idle

Tier(c, r) == EligibleTier(r, evidence[c], attestations)

-----------------------------------------------------------------------------
(* Decision and corrections requests: load, then commit what became of the copy. *)

Load(q, c) ==
    /\ inflight[q] = Idle /\ Free
    /\ inflight' = [inflight EXCEPT ![q] = [case |-> c, review |-> reviews[c]]]
    /\ UNCHANGED <<reviews, attestations, evidence, torn>>

\* The request fails (validation, permission or a guard) and writes nothing.
Refuse(q) ==
    /\ inflight[q] # Idle
    /\ inflight' = [inflight EXCEPT ![q] = Idle]
    /\ UNCHANGED <<reviews, attestations, evidence, torn>>

\* upsertReviewCase: the record replaces whatever is stored.
Commit(q, r) ==
    /\ r.chain <= MaxChain
    /\ reviews' = [reviews EXCEPT ![inflight[q].case] = r]
    /\ inflight' = [inflight EXCEPT ![q] = Idle]
    /\ torn' = torn \ {inflight[q].case}
    /\ UNCHANGED evidence

\* What a decision writes: the changed copy with its credential recomputed.
CommitDecision(q, r) ==
    Commit(q, Decided(r, Tier(inflight[q].case, r))) /\ UNCHANGED attestations

CopyTier(q) == Tier(inflight[q].case, inflight[q].review)

Review(q, u, role, d) ==
    /\ inflight[q] # Idle
    /\ CanReview(inflight[q].review, u, role)
    /\ CommitDecision(q, Reviewed(inflight[q].review, u, role, d))

DecideCustos(q, u, verdict) ==
    /\ inflight[q] # Idle
    /\ CanDecideCustos(inflight[q].review, u, CopyTier(q))
    /\ CommitDecision(q, CustosDecided(inflight[q].review, verdict))

AuthorizeSigning(q, u) ==
    /\ inflight[q] # Idle
    /\ CanAuthorizeSigning(inflight[q].review, u, CopyTier(q))
    /\ CommitDecision(q, SigningAuthorized(inflight[q].review))

PublishRegistry(q, u) ==
    /\ inflight[q] # Idle
    /\ CanPublishRegistry(inflight[q].review, u)
    /\ CommitDecision(q, RegistryPublished(inflight[q].review))

EnableRevocation(q, u) ==
    /\ inflight[q] # Idle
    /\ CanEnableRevocation(inflight[q].review, u)
    /\ CommitDecision(q, RevocationEnabled(inflight[q].review))

DecideMark(q, u, mark) ==
    /\ inflight[q] # Idle
    /\ CanDecideMark(inflight[q].review, u, CopyTier(q))
    /\ CommitDecision(q, MarkDecided(inflight[q].review, mark))

\* Both write the record and then once more with its credential refreshed.
MayRequestCorrection(q, u) ==
    /\ inflight[q] # Idle
    /\ CanRequestCorrection(inflight[q].review, u)
    /\ Len(inflight[q].review.corrections) < MaxCorrections

RequestCorrection(q, u) ==
    /\ MayRequestCorrection(q, u)
    /\ Commit(q, Refreshed(CorrectionRequested(inflight[q].review), CopyTier(q)))
    /\ UNCHANGED attestations

MayCloseCorrection(q, u) ==
    inflight[q] # Idle /\ CanCloseCorrection(inflight[q].review, u)

RejectCorrection(q, u) ==
    /\ MayCloseCorrection(q, u)
    /\ Commit(q, Refreshed(CorrectionRejected(inflight[q].review), CopyTier(q)))
    /\ UNCHANGED attestations

\* The replacement attestation follows the version the copy was reviewed on.
ResolveCorrection(q, u, text) ==
    /\ MayCloseCorrection(q, u)
    /\ May(u, "attestation.sign")
    /\ LET id == [version |-> inflight[q].review.attestation.version + 1, text |-> text]
       IN  /\ id.version <= MaxVersion
           /\ CanAppend(attestations, id)
           /\ attestations' = attestations \cup
                  {[version |-> id.version, text |-> text, signerRole |-> RoleOf[u]]}
           /\ Commit(q, CorrectionResolved(inflight[q].review, id))

-----------------------------------------------------------------------------
(* The handlers that read and write in one step. *)

Transition(c, u, action) ==
    /\ Free
    /\ CanTransition(reviews[c], u, action)
    /\ reviews[c].chain < MaxChain
    /\ reviews' = [reviews EXCEPT ![c] = Transitioned(@, action, Tier(c, reviews[c]))]
    /\ torn' = torn \ {c}
    /\ UNCHANGED <<attestations, evidence, inflight>>

\* What submitting the batch (again) writes: the version after the latest is
\* signed and the cases in reset start over on it.  Whether validateBatch lets
\* the batch through is a matter of its assets' data.
SubmitCases(u, text, reset) ==
    /\ Free
    /\ May(u, "batch.submit") /\ May(u, "attestation.sign")
    /\ \E latest \in attestations :
           LET id == [version |-> latest.version + 1, text |-> text]
           IN  /\ \A a \in attestations : a.version <= latest.version
               /\ id.version <= MaxVersion
               /\ CanAppend(attestations, id)
               /\ attestations' = attestations \cup
                      {[version |-> id.version, text |-> text, signerRole |-> RoleOf[u]]}
               /\ reviews' = [c \in Cases |->
                      IF c \in reset THEN ResetForAttestation(id, reviews[c].corrections)
                      ELSE reviews[c]]
    /\ torn' = torn \ reset
    /\ UNCHANGED evidence

Submit(u, text) == SubmitCases(u, text, Cases) /\ UNCHANGED inflight

\* Evidence is added to an asset, or the asset edited: the case is not touched.
ReviseEvidence(c, tier) ==
    /\ Free
    /\ evidence' = [evidence EXCEPT ![c] = tier]
    /\ UNCHANGED <<reviews, attestations, inflight, torn>>

-----------------------------------------------------------------------------
(* The process dies between two repository writes of one handler.  Every     *)
(* write is persisted before it returns, so what was written stays; the      *)
(* copies of the requests in flight are gone.                                *)

AllIdle == [q \in Requests |-> Idle]

\* Only the first of the two writes of a request or a rejection is made.
TornWrite(q, r) ==
    /\ r.chain <= MaxChain
    /\ reviews' = [reviews EXCEPT ![inflight[q].case] = r]
    /\ torn' = torn \cup {inflight[q].case}
    /\ inflight' = AllIdle
    /\ UNCHANGED <<attestations, evidence>>

CrashInRequest(q, u) ==
    MayRequestCorrection(q, u) /\ TornWrite(q, CorrectionRequested(inflight[q].review))

CrashInReject(q, u) ==
    MayCloseCorrection(q, u) /\ TornWrite(q, CorrectionRejected(inflight[q].review))

\* The replacement attestation is stored, the case is not.
CrashInResolve(q, u, text) ==
    /\ MayCloseCorrection(q, u)
    /\ May(u, "attestation.sign")
    /\ LET id == [version |-> inflight[q].review.attestation.version + 1, text |-> text]
       IN  /\ id.version <= MaxVersion
           /\ CanAppend(attestations, id)
           /\ attestations' = attestations \cup
                  {[version |-> id.version, text |-> text, signerRole |-> RoleOf[u]]}
    /\ inflight' = AllIdle
    /\ UNCHANGED <<reviews, evidence, torn>>

\* The attestation is stored and only some of the cases were reset.
CrashInSubmit(u, text, reset) ==
    SubmitCases(u, text, reset) /\ inflight' = AllIdle

-----------------------------------------------------------------------------
Next ==
    \/ \E q \in Requests, c \in Cases : Load(q, c)
    \/ \E q \in Requests : Refuse(q)
    \/ \E q \in Requests, u \in Users, role \in ReviewRoles, d \in Determinations :
           Review(q, u, role, d)
    \/ \E q \in Requests, u \in Users, v \in {"pass", "fail"} : DecideCustos(q, u, v)
    \/ \E q \in Requests, u \in Users : AuthorizeSigning(q, u)
    \/ \E q \in Requests, u \in Users : PublishRegistry(q, u)
    \/ \E q \in Requests, u \in Users : EnableRevocation(q, u)
    \/ \E q \in Requests, u \in Users, m \in {"authorized", "denied"} : DecideMark(q, u, m)
    \/ \E q \in Requests, u \in Users : RequestCorrection(q, u)
    \/ \E q \in Requests, u \in Users : RejectCorrection(q, u)
    \/ \E q \in Requests, u \in Users, text \in Texts : ResolveCorrection(q, u, text)
    \/ \E c \in Cases, u \in Users, action \in LifecycleActions : Transition(c, u, action)
    \/ \E u \in Users, text \in Texts : Submit(u, text)
    \/ \E c \in Cases, tier \in EvidenceTiers : ReviseEvidence(c, tier)
    \/ \E q \in Requests, u \in Users : CrashInRequest(q, u)
    \/ \E q \in Requests, u \in Users : CrashInReject(q, u)
    \/ \E q \in Requests, u \in Users, text \in Texts : CrashInResolve(q, u, text)
    \/ \E u \in Users, text \in Texts, reset \in SUBSET Cases : CrashInSubmit(u, text, reset)

Spec == Init /\ [][Next]_vars

-----------------------------------------------------------------------------
(* Safety. *)

\* A stored credential is what its own record authorizes at the tier it was
\* decided at: no handler, however stale its copy, leaves a credential that
\* disagrees with the approvals, receipts, lifecycle or mark stored beside it.
\* The exception is a case whose handler died between its two writes, until
\* the next handler on that case.
CredentialAgrees(r) == r.credential.status # "none" => r.credential = CredentialFor(r.credential.tier, r)
CredentialCurrent   == \A c \in Cases \ torn : CredentialAgrees(reviews[c])

\* One user never holds both approvals of a case, although each role may be
\* decided again and again, in any order.
ApproversDistinct(r) ==
    \A a, b \in r.approvals :
        a.decision = "approve" /\ b.decision = "approve" /\ a.reviewer = b.reviewer => a = b
DistinctApprovers == \A c \in Cases : ApproversDistinct(reviews[c])

\* An issued Tier 4 credential stands on two independent, conflict-free
\* approvals of different reviewers, a cleared conflict check and a passing
\* CUSTOS verdict, also after later decisions replaced some of them.
FourEyesHold(r) ==
    Issued(r) /\ r.credential.tier = 4 =>
        /\ \E a, b \in r.approvals :
               /\ a.reviewer # b.reviewer
               /\ {a.decision, b.decision} = {"approve"}
               /\ a.independent /\ b.independent /\ a.conflictFree /\ b.conflictFree
        /\ r.clearance = "clear" /\ r.custos = "pass"
TierFourOnFourEyes == \A c \in Cases : FourEyesHold(reviews[c])

\* Outside the active lifecycle the mark is denied, so nothing that happens to
\* the lifecycle later can bring an old mark authorization back.
MarkFollows(r) == r.lifecycle # "active" => r.mark = "denied"
InactiveMarkDenied == \A c \in Cases : MarkFollows(reviews[c])

\* The issuer's chain of authority: revocation control rests on a publication,
\* a publication on an authorized signature, each with its receipt in the log.
ChainHolds(r) ==
    /\ r.revocation => r.registry = "ready" /\ "revocation-control.enabled" \in r.receipts
    /\ r.registry = "ready" <=> r.published
    /\ r.published => SigningReady(r) /\ "registry.published" \in r.receipts
    /\ r.signing = "active" => "signing.authorized" \in r.receipts
    /\ r.custos # "pending" => "custos.recorded" \in r.receipts
    /\ r.attestation \in r.attested
AuthorityChain == \A c \in Cases : ChainHolds(reviews[c])

\* A credential above Tier 1 rests on the attestation its case is on now, and an
\* authorized attestor signed it: an owner may sign and submit, but that
\* signature supports no tier, whoever resolved or resubmitted in between.
AttestorBehind(r, signed) ==
    r.credential.tier >= 2 =>
        \E a \in signed : IdOf(a) = r.attestation /\ a.signerRole = "authorized-attestor"
HigherTierAttested == \A c \in Cases : AttestorBehind(reviews[c], attestations)

\* A case has at most one open correction.
OneOpen(r) == \A i, j \in DOMAIN r.corrections :
                  r.corrections[i] = "open" /\ r.corrections[j] = "open" => i = j

\* What survives even overlapping requests: a stored record is sound in itself.
Coherent(r)    == ApproversDistinct(r) /\ MarkFollows(r) /\ ChainHolds(r) /\ OneOpen(r)
RecordSound(r, signed) == Coherent(r) /\ FourEyesHold(r) /\ AttestorBehind(r, signed)

\* The stored cases and the copies in flight are sound: the strengthening that
\* makes the safety properties inductive.
Sound ==
    /\ \A c \in Cases : RecordSound(reviews[c], attestations)
    /\ \A q \in Requests : inflight[q] # Idle => RecordSound(inflight[q].review, attestations)

-----------------------------------------------------------------------------
(* What a step may never do. *)

Terminal == {"revoked", "superseded", "expired"}

\* A revoked, superseded or expired credential comes back only through a new
\* attestation that every authority has to act on again.
TerminalHolds ==
    [][\A c \in Cases :
           reviews[c].lifecycle \in Terminal /\ reviews'[c].lifecycle # reviews[c].lifecycle
               => reviews'[c].attestation # reviews[c].attestation]_vars

-----------------------------------------------------------------------------
(* What the comments and tests of the source say and the code does not keep. *)

\* operations-lifecycle-correction.test.ts: "A revoked credential cannot be
\* restored by operator action": on the same attestation it stays revoked.
RevokedStaysRevoked ==
    [][\A c \in Cases :
           reviews[c].lifecycle = "revoked" /\ reviews'[c].attestation = reviews[c].attestation
               => reviews'[c].lifecycle = "revoked"]_vars
=============================================================================
