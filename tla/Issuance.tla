------------------------------ MODULE Issuance ------------------------------
(***************************************************************************)
(* The R3 issuance workflow of the authority plane: SQL functions over     *)
(* Postgres tables, each one transaction that holds the row lock of the    *)
(* workflow or the credential it changes, hence one action.  The           *)
(* orchestrator that calls them and the providers that give receipts are   *)
(* other programs: any call may come at any time, again, or never.         *)
(*                                                                         *)
(* A case has at most one credential (review_case_id is unique), so rows   *)
(* are indexed by case.  A credential's status follows its lifecycle       *)
(* ("prepared" for "draft").  A receipt counts only when it is bound to    *)
(* the credential and its payload digest; one that is not is refused by    *)
(* every command that checks it and is left out.  Hash chains, version     *)
(* rows, events and the outbox record what happens here and decide         *)
(* nothing.                                                                *)
(***************************************************************************)
EXTENDS Naturals, FiniteSets

CONSTANTS
    Cases,      \* review cases of a tenant
    Reviewers   \* the reviewers who may decide on them

VARIABLES
    decisions,   \* per case, the rows of the current review round
    clearances,  \* per case, the conflict clearances of that round
    ready,       \* per case: claims validated, evidence eligible, production control on
    credentials, \* per case, its credential or NoCredential
    workflows,   \* per case, the state of its workflow or "none"
    registry,    \* per case, its public record or Unpublished
    receipts,    \* per case and operation, the newest receipt on file
    marks,       \* per case, its mark authorization
    licensed,    \* the tenant has an active mark license and location
    aborted      \* history: cases whose active credential kept its lifecycle because the
                 \* database rolled a checked transition back

vars == <<decisions, clearances, ready, credentials, workflows, registry, receipts,
          marks, licensed, aborted>>
reviewVars == <<decisions, clearances, ready>>
markVars   == <<marks, licensed>>

Stages     == {"primary", "secondary"}
Decision   == [stage: Stages, reviewer: Reviewers, counts: BOOLEAN]
Clearance  == [reviewer: Reviewers, status: {"clear", "conflict"}]
Payloads   == {"prepared", "corrected"}
Lifecycles == {"draft", "active", "suspended", "revoked", "superseded", "expired"}
Terminal   == {"revoked", "superseded", "expired"}

\* signed: signing_receipt_id is set; custos: a row of pv_custos_receipts.
Credential   == [lifecycle: Lifecycles \cup {"none"}, payload: Payloads, digest: Payloads,
                 custos: BOOLEAN, signed: BOOLEAN]
NoCredential == [lifecycle |-> "none", payload |-> "prepared", digest |-> "prepared",
                 custos |-> FALSE, signed |-> FALSE]
Exists(c)    == credentials[c].lifecycle # "none"

PublicRecord == [lifecycle: (Lifecycles \ {"draft"}) \cup {"absent"}, payload: Payloads, digest: Payloads]
Unpublished  == [lifecycle |-> "absent", payload |-> "prepared", digest |-> "prepared"]
Published(c) == registry[c].lifecycle # "absent"

\* The check constraint of pv_authority_workflows.state.
WorkflowStates ==
    {"DRAFT", "EVIDENCE_COMPLETE", "REVIEW_COMPLETE", "CUSTOS_AUTHORIZED", "SIGNING_PENDING",
     "SIGNED", "REGISTRY_PENDING", "ACTIVE", "FAILED", "COMPENSATION_REQUIRED", "REVOKED"}

Operations    == {"custos-authorize", "credential-sign", "registry.write", "mark.authorize"}
ReceiptStates == {"none", "current", "expired"}
Marks         == {"none", "authorized", "suspended", "revoked"}

TypeOK ==
    /\ decisions \in [Cases -> SUBSET Decision]
    /\ clearances \in [Cases -> SUBSET Clearance]
    /\ ready \in [Cases -> BOOLEAN]
    /\ credentials \in [Cases -> Credential]
    /\ workflows \in [Cases -> WorkflowStates \cup {"none"}]
    /\ registry \in [Cases -> PublicRecord]
    /\ receipts \in [Cases -> [Operations -> ReceiptStates]]
    /\ marks \in [Cases -> Marks]
    /\ licensed \in BOOLEAN
    /\ aborted \subseteq Cases

Init ==
    /\ decisions = [c \in Cases |-> {}]
    /\ clearances = [c \in Cases |-> {}]
    /\ ready = [c \in Cases |-> FALSE]
    /\ credentials = [c \in Cases |-> NoCredential]
    /\ workflows = [c \in Cases |-> "none"]
    /\ registry = [c \in Cases |-> Unpublished]
    /\ receipts = [c \in Cases |-> [o \in Operations |-> "none"]]
    /\ marks = [c \in Cases |-> "none"]
    /\ licensed = FALSE
    /\ aborted = {}

-----------------------------------------------------------------------------
(* The review and the providers: rows other programs insert, under the     *)
(* unique constraints of their tables.                                     *)

\* One decision per stage and per reviewer in a round; rows are immutable.
Decide(c, stage, reviewer, counts) ==
    /\ \A d \in decisions[c] : d.stage # stage /\ d.reviewer # reviewer
    /\ decisions' = [decisions EXCEPT ![c] =
           @ \cup {[stage |-> stage, reviewer |-> reviewer, counts |-> counts]}]
    /\ UNCHANGED <<clearances, ready, credentials, workflows, registry, receipts, markVars,
                   aborted>>

Clear(c, reviewer, status) ==
    /\ \A k \in clearances[c] : k.reviewer # reviewer
    /\ clearances' = [clearances EXCEPT ![c] = @ \cup {[reviewer |-> reviewer, status |-> status]}]
    /\ UNCHANGED <<decisions, ready, credentials, workflows, registry, receipts, markVars, aborted>>

\* Evidence becomes eligible or is withdrawn, the production control is switched.
SwitchReady(c) ==
    /\ ready' = [ready EXCEPT ![c] = ~@]
    /\ UNCHANGED <<decisions, clearances, credentials, workflows, registry, receipts, markVars,
                   aborted>>

\* Has the provider of an operation been asked?  The outbox asks it when the
\* workflow comes to it, and only an active credential is shown to the mark provider.
Asked(c, op) ==
    /\ Exists(c)
    /\ CASE op = "custos-authorize" -> TRUE
         [] op = "credential-sign"  -> credentials[c].custos
         [] op = "registry.write"   -> credentials[c].signed
         [] op = "mark.authorize"   -> credentials[c].lifecycle = "active"

\* A provider's receipt, verified and stored; a newer one has an id of its own.
AcceptReceipt(c, op) ==
    /\ Asked(c, op)
    /\ receipts' = [receipts EXCEPT ![c][op] = "current"]
    /\ UNCHANGED <<reviewVars, credentials, workflows, registry, markVars, aborted>>

\* Time passes its expiresAt.
Expire(c, op) ==
    /\ receipts[c][op] = "current"
    /\ receipts' = [receipts EXCEPT ![c][op] = "expired"]
    /\ UNCHANGED <<reviewVars, credentials, workflows, registry, markVars, aborted>>

-----------------------------------------------------------------------------
(* Issuance: prepare, then one command per authority. *)

\* Mutant: both approvals may be one row.
AnyApproval(c) == \E d \in decisions[c] : d.counts

\* Exactly two rows count, and they are of two reviewers.
TwoApprovals(c) ==
    LET counted == {d \in decisions[c] : d.counts}
    IN  \E p, s \in counted : p.reviewer # s.reviewer /\ counted = {p, s}

NoConflict(c) == \A k \in clearances[c] : k.status = "clear"

Prepared == [NoCredential EXCEPT !.lifecycle = "draft"]

\* A repeated call answers with the workflow it finds.
PrepareIssuance(c) ==
    /\ ~Exists(c)
    /\ TwoApprovals(c) /\ NoConflict(c) /\ ready[c]
    /\ credentials' = [credentials EXCEPT ![c] = Prepared]
    /\ workflows' = [workflows EXCEPT ![c] = "REVIEW_COMPLETE"]
    /\ UNCHANGED <<reviewVars, registry, receipts, markVars, aborted>>

\* The workflow passes CUSTOS_AUTHORIZED within the transaction.
RecordCustos(c) ==
    /\ workflows[c] \in {"REVIEW_COMPLETE", "CUSTOS_AUTHORIZED", "SIGNING_PENDING"}
    /\ receipts[c]["custos-authorize"] = "current"
    /\ credentials' = [credentials EXCEPT ![c].custos = TRUE]
    /\ workflows' = [workflows EXCEPT ![c] = "SIGNING_PENDING"]
    /\ UNCHANGED <<reviewVars, registry, receipts, markVars, aborted>>

\* The workflow passes SIGNED within the transaction.
RecordSigning(c) ==
    /\ workflows[c] \in {"SIGNING_PENDING", "SIGNED", "REGISTRY_PENDING"}
    /\ receipts[c]["credential-sign"] = "current"
    /\ credentials' = [credentials EXCEPT ![c].signed = TRUE]
    /\ workflows' = [workflows EXCEPT ![c] = "REGISTRY_PENDING"]
    /\ UNCHANGED <<reviewVars, registry, receipts, markVars, aborted>>

\* Mutant: an answer of the registry is taken in any state of the workflow.
FinalizableAlways(c) == Exists(c)

Finalizable(c) == workflows[c] \in {"REGISTRY_PENDING", "ACTIVE"}

\* Publishes the credential, or publishes it again: a record that exists is
\* replaced.  The review case is set to issued and stays so.
FinalizeRegistry(c) ==
    /\ Finalizable(c)
    /\ receipts[c]["registry.write"] = "current"
    /\ credentials[c].signed
    /\ credentials' = [credentials EXCEPT ![c].lifecycle = "active"]
    /\ registry' = [registry EXCEPT ![c] = [lifecycle |-> "active",
                                            payload   |-> credentials[c].payload,
                                            digest    |-> credentials[c].digest]]
    /\ workflows' = [workflows EXCEPT ![c] = "ACTIVE"]
    /\ UNCHANGED <<reviewVars, receipts, markVars, aborted>>

Compensable(c) == workflows[c] \notin {"none", "ACTIVE"}

RequireCompensation(c) ==
    /\ Compensable(c)
    /\ workflows' = [workflows EXCEPT ![c] = "COMPENSATION_REQUIRED"]
    /\ UNCHANGED <<reviewVars, credentials, registry, receipts, markVars, aborted>>

-----------------------------------------------------------------------------
(* The lifecycle of a credential. *)

TargetOf == [suspend |-> "suspended", reactivate |-> "active", revoke |-> "revoked",
             supersede |-> "superseded", expire |-> "expired", correct |-> "active"]
Actions  == DOMAIN TargetOf

\* upper(v_to), the state the transition gives the workflow.
WorkflowStateOf ==
    [active |-> "ACTIVE", suspended |-> "SUSPENDED", revoked |-> "REVOKED",
     superseded |-> "SUPERSEDED", expired |-> "EXPIRED"]

\* The receipt may be old, and used before; nothing asks whether the
\* credential was issued.
CanTransition(c, action) ==
    /\ Exists(c)
    /\ receipts[c]["registry.write"] # "none"
    /\ action = "reactivate" => credentials[c].lifecycle = "suspended"
    /\ credentials[c].lifecycle \in Terminal => action = "correct"

\* Mutant: the public record is not touched.
RecordForgotten(c, to) == registry[c]

\* Mutant: a revoked record disappears from the registry.
RecordErased(c, to) == IF to = "revoked" THEN Unpublished ELSE [registry[c] EXCEPT !.lifecycle = to]

\* The public record after a transition; there may be none.
RecordAfter(c, to) == IF Published(c) THEN [registry[c] EXCEPT !.lifecycle = to] ELSE registry[c]

\* Mutant: the mark is left as it is.
MarkForgotten(c, to) == marks[c]

\* An authorized mark falls with its credential and does not come back with it.
MarkAfter(c, to) ==
    IF marks[c] = "authorized" /\ to # "active"
    THEN IF to = "revoked" THEN "revoked" ELSE "suspended"
    ELSE marks[c]

\* The check constraint takes the state the workflow would get.
Storable(to) == WorkflowStateOf[to] \in WorkflowStates

LifecycleTransition(c, action) ==
    LET to == TargetOf[action]
    IN  /\ CanTransition(c, action)
        /\ Storable(to)
        /\ credentials' = [credentials EXCEPT
               ![c].lifecycle = to,
               ![c].payload = IF action = "correct" THEN "corrected" ELSE @]
        /\ registry' = [registry EXCEPT ![c] = RecordAfter(c, to)]
        /\ marks' = [marks EXCEPT ![c] = MarkAfter(c, to)]
        /\ workflows' = [workflows EXCEPT ![c] = WorkflowStateOf[to]]
        /\ UNCHANGED <<reviewVars, receipts, licensed, aborted>>

\* The state is not one the workflow table allows: the update fails and the
\* whole transaction is undone.
LifecycleAborted(c, action) ==
    /\ CanTransition(c, action)
    /\ ~Storable(TargetOf[action])
    /\ aborted' = IF credentials[c].lifecycle = "active" THEN aborted \cup {c} ELSE aborted
    /\ UNCHANGED <<reviewVars, credentials, workflows, registry, receipts, markVars>>

-----------------------------------------------------------------------------
(* The certification mark. *)

RecordMark(c) ==
    /\ credentials[c].lifecycle = "active"
    /\ receipts[c]["mark.authorize"] # "none" /\ licensed
    /\ marks' = [marks EXCEPT ![c] = "authorized"]
    /\ UNCHANGED <<reviewVars, credentials, workflows, registry, receipts, licensed, aborted>>

\* A license or location is written with a status, activated or renewed: the
\* marks stay as they are.
SetLicense ==
    /\ licensed' = ~licensed
    /\ UNCHANGED <<reviewVars, credentials, workflows, registry, receipts, marks, aborted>>

\* Governance suspends or expires (suspended) or terminates (revoked) it: every
\* authorized mark of the tenant goes with it.
WithdrawLicense(status) ==
    /\ licensed' = FALSE
    /\ marks' = [c \in Cases |-> IF marks[c] = "authorized" THEN status ELSE marks[c]]
    /\ UNCHANGED <<reviewVars, credentials, workflows, registry, receipts, aborted>>

-----------------------------------------------------------------------------
Next ==
    \/ \E c \in Cases :
          \/ \E stage \in Stages, reviewer \in Reviewers, counts \in BOOLEAN :
                 Decide(c, stage, reviewer, counts)
          \/ \E reviewer \in Reviewers, status \in {"clear", "conflict"} : Clear(c, reviewer, status)
          \/ SwitchReady(c)
          \/ \E op \in Operations : AcceptReceipt(c, op) \/ Expire(c, op)
          \/ PrepareIssuance(c) \/ RecordCustos(c) \/ RecordSigning(c)
          \/ FinalizeRegistry(c) \/ RequireCompensation(c)
          \/ \E action \in Actions : LifecycleTransition(c, action) \/ LifecycleAborted(c, action)
          \/ RecordMark(c)
    \/ SetLicense
    \/ \E status \in {"suspended", "revoked"} : WithdrawLicense(status)

Spec == Init /\ [][Next]_vars

-----------------------------------------------------------------------------
(* What must hold. *)

\* A credential that is active, and a record that is public, rest on approvals
\* of two reviewers, the CUSTOS verdict and the signature, whatever was
\* retried, compensated or late on the way.
Approved(c) == \E p, s \in decisions[c] : p.counts /\ s.counts /\ p.reviewer # s.reviewer
AuthorityBehind ==
    \A c \in Cases : Published(c) \/ credentials[c].lifecycle = "active" =>
        Exists(c) /\ Approved(c) /\ credentials[c].custos /\ credentials[c].signed

\* The public record shows the lifecycle of the credential, after every command.
RegistryAgrees ==
    \A c \in Cases : Published(c) => registry[c].lifecycle = credentials[c].lifecycle

\* A mark is authorized only on an active credential: every way out of the
\* active lifecycle suppresses it.
MarkOnActive ==
    \A c \in Cases : marks[c] = "authorized" => credentials[c].lifecycle = "active"

\* The workflow and the credential, rows of two tables written by different
\* commands, agree: no workflow is active, or failed, over the wrong credential.
WorkflowAgrees ==
    \A c \in Cases :
        /\ Exists(c) <=> workflows[c] # "none"
        /\ workflows[c] = "ACTIVE" <=> credentials[c].lifecycle = "active"
        /\ workflows[c] = "REVOKED" => credentials[c].lifecycle = "revoked"
        /\ workflows[c] \in {"REVIEW_COMPLETE", "SIGNING_PENDING", "REGISTRY_PENDING"} =>
              credentials[c].lifecycle = "draft"

\* A credential that reached a terminal lifecycle comes back only as a
\* corrected one and without its mark: no late answer of the registry revives it.
RevivedOnlyCorrected ==
    [][\A c \in Cases :
          credentials[c].lifecycle \in Terminal
              /\ credentials'[c].lifecycle \notin Terminal =>
          credentials'[c].payload = "corrected" /\ marks'[c] # "authorized"]_vars

\* What a verifier sees of all this is the abstract authority.
Stage(c) ==
    IF ~Exists(c) THEN "none"
    ELSE IF credentials[c].signed THEN "signed"
    ELSE IF credentials[c].custos THEN "authorized" ELSE "reviewed"

Authority == INSTANCE CredentialAuthority
    WITH stage <- [c \in Cases |-> Stage(c)], public <- [c \in Cases |-> registry[c].lifecycle]
AuthoritySpec == Authority!Spec
=============================================================================
