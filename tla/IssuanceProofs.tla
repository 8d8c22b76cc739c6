--------------------------- MODULE IssuanceProofs ---------------------------
(***************************************************************************)
(* The invariants of the issuance workflow, for any cases and reviewers.   *)
(* The inductive invariant is the chain of authorities: each one's mark on *)
(* a credential, and each receipt on file, rests on the one before it; and *)
(* the four tables agree on the lifecycle.                                 *)
(***************************************************************************)
EXTENDS Issuance, TLAPS

\* What one case's rows have to do with each other.
ChainOf(c) ==
    /\ receipts[c]["credential-sign"] # "none" => credentials[c].custos
    /\ receipts[c]["registry.write"] # "none" => credentials[c].signed
    /\ credentials[c].signed => credentials[c].custos
    /\ credentials[c].custos => Exists(c)
    /\ Exists(c) => Approved(c)
    /\ Published(c) \/ credentials[c].lifecycle = "active" => credentials[c].signed
    /\ Published(c) => registry[c].lifecycle = credentials[c].lifecycle
    /\ marks[c] = "authorized" => credentials[c].lifecycle = "active"
    /\ Exists(c) <=> workflows[c] # "none"
    /\ workflows[c] \in {"none", "REVIEW_COMPLETE", "SIGNING_PENDING", "REGISTRY_PENDING", "ACTIVE",
                        "COMPENSATION_REQUIRED", "REVOKED"}
    /\ workflows[c] = "ACTIVE" <=> credentials[c].lifecycle = "active"
    /\ workflows[c] = "REVOKED" => credentials[c].lifecycle = "revoked"
    /\ workflows[c] \in {"REVIEW_COMPLETE", "SIGNING_PENDING", "REGISTRY_PENDING"} =>
           credentials[c].lifecycle = "draft"

Chain == \A c \in Cases : ChainOf(c)
IInv  == TypeOK /\ Chain

USE DEF Exists, Published

-----------------------------------------------------------------------------
(* A command leaves the rows of the other cases alone. *)

LEMMA OtherCases ==
    ASSUME NEW d \in Cases, ChainOf(d),
           decisions[d] \subseteq decisions'[d],
           credentials'[d] = credentials[d], workflows'[d] = workflows[d],
           registry'[d] = registry[d], receipts'[d] = receipts[d],
           marks'[d] = marks[d] \/ marks'[d] # "authorized"
    PROVE  ChainOf(d)'
  BY DEF ChainOf, Approved

-----------------------------------------------------------------------------
(* Types. *)

LEMMA InitType == Init => TypeOK
  <1> SUFFICES ASSUME Init PROVE TypeOK
    OBVIOUS
  <1> USE DEF Init
  <1>1. NoCredential \in Credential /\ Unpublished \in PublicRecord
    BY DEF Credential, NoCredential, PublicRecord, Unpublished, Payloads
  <1>2. credentials \in [Cases -> Credential] /\ registry \in [Cases -> PublicRecord]
    BY <1>1
  <1>3. receipts \in [Cases -> [Operations -> ReceiptStates]]
    BY DEF ReceiptStates
  <1>4. decisions \in [Cases -> SUBSET Decision] /\ clearances \in [Cases -> SUBSET Clearance]
    OBVIOUS
  <1> QED
    BY <1>2, <1>3, <1>4 DEF TypeOK, Marks

\* What the commands do to the fields of a credential.
LEMMA CustosField ==
    ASSUME NEW r \in Credential
    PROVE  LET t == [r EXCEPT !.custos = TRUE]
           IN  /\ t \in Credential /\ t.custos
               /\ t.signed = r.signed /\ t.lifecycle = r.lifecycle
  BY DEF Credential

LEMMA SignedField ==
    ASSUME NEW r \in Credential
    PROVE  LET t == [r EXCEPT !.signed = TRUE]
           IN  /\ t \in Credential /\ t.signed
               /\ t.custos = r.custos /\ t.lifecycle = r.lifecycle
  BY DEF Credential

LEMMA LifecycleField ==
    ASSUME NEW r \in Credential, NEW l \in Lifecycles
    PROVE  [r EXCEPT !.lifecycle = l] \in Credential
  BY DEF Credential

\* The commands of one case.
Command(c) ==
    \/ PrepareIssuance(c) \/ RecordCustos(c) \/ RecordSigning(c) \/ FinalizeRegistry(c)
    \/ RequireCompensation(c) \/ RecordMark(c)
    \/ \E action \in Actions : LifecycleTransition(c, action) \/ LifecycleAborted(c, action)

\* The rows other programs write.
Outside(c) ==
    \/ \E stage \in Stages, reviewer \in Reviewers, counts \in BOOLEAN :
          Decide(c, stage, reviewer, counts)
    \/ \E reviewer \in Reviewers, status \in {"clear", "conflict"} : Clear(c, reviewer, status)
    \/ SwitchReady(c)
    \/ \E op \in Operations : AcceptReceipt(c, op) \/ Expire(c, op)

LEMMA NextSplit ==
    [Next]_vars <=>
        \/ \E c \in Cases : Command(c) \/ Outside(c)
        \/ SetLicense \/ \E status \in {"suspended", "revoked"} : WithdrawLicense(status)
        \/ UNCHANGED vars
  BY DEF Next, Command, Outside

LEMMA CommandType ==
    ASSUME TypeOK, NEW c \in Cases, Command(c)
    PROVE  TypeOK'
  <1> USE DEF TypeOK, reviewVars, markVars
  <1>0. credentials[c] \in Credential /\ registry[c] \in PublicRecord
    OBVIOUS
  <1>1. CASE PrepareIssuance(c)
    <2>1. Prepared \in Credential
      BY DEF Prepared, NoCredential, Credential, Lifecycles, Payloads
    <2> QED
      BY <1>1, <2>1 DEF PrepareIssuance, WorkflowStates
  <1>2. CASE RecordCustos(c)
    <2> DEFINE r == [credentials[c] EXCEPT !.custos = TRUE]
    <2>0. r \in Credential
      BY <1>0, CustosField
    <2>1. credentials' = [credentials EXCEPT ![c] = r]
      BY <1>2 DEF RecordCustos
    <2> HIDE DEF r
    <2> QED
      BY <1>2, <2>0, <2>1 DEF RecordCustos, WorkflowStates
  <1>3. CASE RecordSigning(c)
    <2> DEFINE r == [credentials[c] EXCEPT !.signed = TRUE]
    <2>0. r \in Credential
      BY <1>0, SignedField
    <2>1. credentials' = [credentials EXCEPT ![c] = r]
      BY <1>3 DEF RecordSigning
    <2> HIDE DEF r
    <2> QED
      BY <1>3, <2>0, <2>1 DEF RecordSigning, WorkflowStates
  <1>4. CASE FinalizeRegistry(c)
    <2> DEFINE r == [credentials[c] EXCEPT !.lifecycle = "active"]
               p == [lifecycle |-> "active", payload |-> credentials[c].payload,
                     digest |-> credentials[c].digest]
    <2>1. r \in Credential /\ p \in PublicRecord
      BY <1>0, LifecycleField DEF Credential, PublicRecord, Lifecycles
    <2>2. /\ credentials' = [credentials EXCEPT ![c] = r]
          /\ registry' = [registry EXCEPT ![c] = p]
      BY <1>4 DEF FinalizeRegistry
    <2>3. /\ workflows' = [workflows EXCEPT ![c] = "ACTIVE"]
          /\ UNCHANGED <<reviewVars, receipts, markVars, aborted>>
      BY <1>4 DEF FinalizeRegistry
    <2> HIDE DEF r, p
    <2>4. /\ credentials' \in [Cases -> Credential]
          /\ registry' \in [Cases -> PublicRecord]
      BY <2>1, <2>2
    <2>5. workflows' \in [Cases -> WorkflowStates \cup {"none"}]
      BY <2>3 DEF WorkflowStates
    <2> QED
      BY <2>3, <2>4, <2>5
  <1>5. CASE RequireCompensation(c)
    BY <1>5 DEF RequireCompensation, WorkflowStates
  <1>6. CASE RecordMark(c)
    BY <1>6 DEF RecordMark, Marks
  <1>7. ASSUME NEW action \in Actions, LifecycleTransition(c, action)
        PROVE  TypeOK'
    <2> USE DEF Credential, PublicRecord, Lifecycles, Payloads, Marks
    <2> DEFINE to == TargetOf[action]
    <2>1. to \in {"active", "suspended", "revoked", "superseded", "expired"}
      BY DEF TargetOf, Actions
    <2>2. RecordAfter(c, to) \in PublicRecord /\ MarkAfter(c, to) \in Marks
      <3>1. registry[c] \in PublicRecord /\ marks[c] \in Marks
        BY <1>7
      <3>2. to \in (Lifecycles \ {"draft"}) \cup {"absent"}
        BY <2>1
      <3> HIDE DEF to
      <3>3. RecordAfter(c, to) \in PublicRecord
        BY SMTT(30), <3>1, <3>2 DEF RecordAfter
      <3>4. MarkAfter(c, to) \in Marks
        BY SMTT(30), <3>1 DEF MarkAfter
      <3> QED
        BY <3>3, <3>4
    <2>3. Storable(to) /\ UNCHANGED <<reviewVars, receipts, licensed, aborted>>
          /\ credentials' = [credentials EXCEPT
               ![c].lifecycle = to,
               ![c].payload = IF action = "correct" THEN "corrected" ELSE @]
          /\ registry' = [registry EXCEPT ![c] = RecordAfter(c, to)]
          /\ marks' = [marks EXCEPT ![c] = MarkAfter(c, to)]
          /\ workflows' = [workflows EXCEPT ![c] = WorkflowStateOf[to]]
      BY <1>7 DEF LifecycleTransition
    <2>4. credentials' \in [Cases -> Credential]
      <3> DEFINE p == IF action = "correct" THEN "corrected" ELSE credentials[c].payload
                 r == [credentials[c] EXCEPT !.lifecycle = to, !.payload = p]
      <3>1. p \in Payloads /\ to \in Lifecycles /\ credentials[c] \in Credential
        BY <2>1
      <3>2. r \in Credential
        BY <3>1
      <3>3. credentials' = [credentials EXCEPT ![c] = r]
        BY <2>3
      <3> QED
        BY <3>2, <3>3
    <2>5. registry' \in [Cases -> PublicRecord] /\ marks' \in [Cases -> Marks]
      BY <2>2, <2>3
    <2>6. workflows' \in [Cases -> WorkflowStates \cup {"none"}]
      BY <2>3 DEF Storable
    <2> QED
      BY <2>3, <2>4, <2>5, <2>6
  <1>8. ASSUME NEW action \in Actions, LifecycleAborted(c, action)
        PROVE  TypeOK'
    BY <1>8 DEF LifecycleAborted
  <1> QED
    BY <1>1, <1>2, <1>3, <1>4, <1>5, <1>6, <1>7, <1>8 DEF Command

LEMMA TypeStep == TypeOK /\ [Next]_vars => TypeOK'
  <1> SUFFICES ASSUME TypeOK, [Next]_vars PROVE TypeOK'
    OBVIOUS
  <1>1. ASSUME NEW c \in Cases, Outside(c) PROVE TypeOK'
    <2> USE DEF TypeOK, reviewVars, markVars
    <2>1. CASE \E stage \in Stages, reviewer \in Reviewers, counts \in BOOLEAN :
                  Decide(c, stage, reviewer, counts)
      BY <2>1 DEF Decide, Decision
    <2>2. CASE \E reviewer \in Reviewers, status \in {"clear", "conflict"} :
                  Clear(c, reviewer, status)
      BY <2>2 DEF Clear, Clearance
    <2>3. CASE SwitchReady(c)
      BY <2>3 DEF SwitchReady
    <2>4. CASE \E op \in Operations : AcceptReceipt(c, op) \/ Expire(c, op)
      <3>1. PICK op \in Operations : AcceptReceipt(c, op) \/ Expire(c, op)
        BY <2>4
      <3>2. CASE AcceptReceipt(c, op)
        BY SMTT(30), <3>2 DEF AcceptReceipt, ReceiptStates
      <3>3. CASE Expire(c, op)
        BY SMTT(30), <3>3 DEF Expire, ReceiptStates
      <3> QED
        BY <3>1, <3>2, <3>3
    <2> QED
      BY <1>1, <2>1, <2>2, <2>3, <2>4 DEF Outside
  <1>2. CASE SetLicense
    BY <1>2 DEF SetLicense, TypeOK, reviewVars
  <1>3. ASSUME NEW status \in {"suspended", "revoked"}, WithdrawLicense(status)
        PROVE  TypeOK'
    BY <1>3 DEF WithdrawLicense, TypeOK, reviewVars, Marks
  <1>4. CASE UNCHANGED vars
    BY <1>4 DEF vars, TypeOK, reviewVars, markVars
  <1> QED
    BY <1>1, <1>2, <1>3, <1>4, CommandType, NextSplit

\* Every reachable state is well typed.
THEOREM TypeCorrect == Spec => []TypeOK
  BY InitType, TypeStep, PTL DEF Spec

-----------------------------------------------------------------------------
(* The chain of authorities. *)

LEMMA InitChain == Init => Chain
  BY DEF Init, Chain, ChainOf, NoCredential, Unpublished, Operations

\* The commands of c keep its chain.
LEMMA OwnChain ==
    ASSUME TypeOK, NEW c \in Cases, ChainOf(c), Command(c)
    PROVE  ChainOf(c)'
  <1> USE DEF TypeOK, ChainOf, Approved, reviewVars, markVars
  <1>1. CASE PrepareIssuance(c)
    <2>1. Approved(c)
      BY <1>1 DEF PrepareIssuance, TwoApprovals
    <2> QED
      BY <1>1, <2>1 DEF PrepareIssuance, Prepared, NoCredential, Credential
  <1>2. CASE RecordCustos(c)
    <2> DEFINE r == [credentials[c] EXCEPT !.custos = TRUE]
    <2>1. r.custos /\ r.signed = credentials[c].signed /\ r.lifecycle = credentials[c].lifecycle
      BY CustosField
    <2>2. credentials' = [credentials EXCEPT ![c] = r]
      BY <1>2 DEF RecordCustos
    <2>3. workflows' = [workflows EXCEPT ![c] = "SIGNING_PENDING"]
          /\ UNCHANGED <<decisions, registry, receipts, marks>>
      BY <1>2 DEF RecordCustos
    <2>4. credentials[c].lifecycle = "draft"
      BY <1>2 DEF RecordCustos
    <2> HIDE DEF r
    <2> QED
      BY <2>1, <2>2, <2>3, <2>4
  <1>3. CASE RecordSigning(c)
    <2> DEFINE r == [credentials[c] EXCEPT !.signed = TRUE]
    <2>1. r.signed /\ r.custos = credentials[c].custos /\ r.lifecycle = credentials[c].lifecycle
      BY SignedField
    <2>2. credentials' = [credentials EXCEPT ![c] = r]
      BY <1>3 DEF RecordSigning
    <2>3. workflows' = [workflows EXCEPT ![c] = "REGISTRY_PENDING"]
          /\ UNCHANGED <<decisions, registry, receipts, marks>>
      BY <1>3 DEF RecordSigning
    <2>4. credentials[c].lifecycle = "draft"
      BY <1>3 DEF RecordSigning
    <2>5. credentials[c].custos
      BY <1>3 DEF RecordSigning
    <2> HIDE DEF r
    <2> QED
      BY <2>1, <2>2, <2>3, <2>4, <2>5
  <1>4. CASE FinalizeRegistry(c)
    BY <1>4 DEF FinalizeRegistry, Finalizable, Credential, PublicRecord
  <1>5. CASE RequireCompensation(c)
    BY <1>5 DEF RequireCompensation, Compensable
  <1>6. CASE RecordMark(c)
    BY <1>6 DEF RecordMark
  <1>7. ASSUME NEW action \in Actions, LifecycleTransition(c, action)
        PROVE  ChainOf(c)'
    <2> DEFINE to == TargetOf[action]
    <2>1. to \in {"active", "revoked"}
      BY <1>7 DEF LifecycleTransition, Storable, TargetOf, Actions, WorkflowStateOf, WorkflowStates
    <2>2. WorkflowStateOf[to] = IF to = "active" THEN "ACTIVE" ELSE "REVOKED"
      BY <2>1 DEF WorkflowStateOf
    <2>3. /\ credentials[c].signed
          /\ Exists(c)
      BY <1>7 DEF LifecycleTransition, CanTransition
    <2>4. /\ credentials' = [credentials EXCEPT
               ![c].lifecycle = to,
               ![c].payload = IF action = "correct" THEN "corrected" ELSE @]
          /\ registry' = [registry EXCEPT ![c] = RecordAfter(c, to)]
          /\ marks' = [marks EXCEPT ![c] = MarkAfter(c, to)]
          /\ workflows' = [workflows EXCEPT ![c] = WorkflowStateOf[to]]
          /\ UNCHANGED <<decisions, receipts>>
      BY <1>7 DEF LifecycleTransition
    <2> HIDE DEF to
    <2>5. credentials'[c].lifecycle = to /\ credentials'[c].signed = credentials[c].signed
          /\ credentials'[c].custos = credentials[c].custos
      BY <2>4 DEF Credential
    <2>6. Published(c)' => registry'[c].lifecycle = to
      BY <2>4 DEF RecordAfter, PublicRecord
    <2>7. marks'[c] = "authorized" => to = "active"
      BY <2>4 DEF MarkAfter
    <2>8. workflows'[c] = WorkflowStateOf[to]
      BY <2>4
    <2>9. Approved(c)'
      BY <2>3, <2>4
    <2> QED
      BY <2>1, <2>2, <2>3, <2>4, <2>5, <2>6, <2>7, <2>8, <2>9
  <1>8. ASSUME NEW action \in Actions, LifecycleAborted(c, action)
        PROVE  ChainOf(c)'
    BY <1>8 DEF LifecycleAborted
  <1> QED
    BY <1>1, <1>2, <1>3, <1>4, <1>5, <1>6, <1>7, <1>8 DEF Command

\* So do the rows other programs write: a provider answers only when asked.
LEMMA OutsideChain ==
    ASSUME TypeOK, NEW c \in Cases, ChainOf(c), Outside(c)
    PROVE  ChainOf(c)'
  <1> USE DEF TypeOK, ChainOf, Approved, reviewVars, markVars
  <1>1. CASE \E stage \in Stages, reviewer \in Reviewers, counts \in BOOLEAN :
                Decide(c, stage, reviewer, counts)
    BY <1>1 DEF Decide
  <1>2. CASE \E reviewer \in Reviewers, status \in {"clear", "conflict"} :
                Clear(c, reviewer, status)
    BY <1>2 DEF Clear
  <1>3. CASE SwitchReady(c)
    BY <1>3 DEF SwitchReady
  <1>4. CASE \E op \in Operations : AcceptReceipt(c, op) \/ Expire(c, op)
    <2> PICK op \in Operations : AcceptReceipt(c, op) \/ Expire(c, op)
      BY <1>4
    <2>1. UNCHANGED <<decisions, credentials, workflows, registry, marks>>
      BY DEF AcceptReceipt, Expire
    <2>2. \A o \in Operations : receipts'[c][o] # "none" => receipts[c][o] # "none" \/ o = op
      BY DEF AcceptReceipt, Expire
    <2>3. receipts[c][op] # "none" \/ Asked(c, op)
      BY DEF AcceptReceipt, Expire
    <2> QED
      BY <2>1, <2>2, <2>3 DEF Asked, Operations
  <1> QED
    BY <1>1, <1>2, <1>3, <1>4, Zenon DEF Outside

LEMMA ChainStep == IInv /\ [Next]_vars => Chain'
  <1> SUFFICES ASSUME TypeOK, Chain, [Next]_vars, NEW d \in Cases
               PROVE  ChainOf(d)'
    BY DEF IInv, Chain
  <1>0. ChainOf(d)
    BY DEF Chain
  <1> DEFINE Same == /\ decisions[d] \subseteq decisions'[d]
                     /\ credentials'[d] = credentials[d] /\ workflows'[d] = workflows[d]
                     /\ registry'[d] = registry[d] /\ receipts'[d] = receipts[d]
                     /\ marks'[d] = marks[d] \/ marks'[d] # "authorized"
  <1>1. ASSUME NEW c \in Cases, Command(c), c # d PROVE Same
    <2> USE DEF TypeOK, reviewVars, markVars
    <2>1. CASE \E action \in Actions :
                  LifecycleTransition(c, action) \/ LifecycleAborted(c, action)
      BY <1>1, <2>1 DEF LifecycleTransition, LifecycleAborted
    <2> QED
      BY <1>1, <2>1 DEF Command, PrepareIssuance, RecordCustos, RecordSigning, FinalizeRegistry,
                        RequireCompensation, RecordMark
  <1>2. ASSUME NEW c \in Cases, Outside(c), c # d PROVE Same
    BY <1>2 DEF TypeOK, reviewVars, markVars, Outside, Decide, Clear, SwitchReady, AcceptReceipt,
                Expire
  <1>3. CASE SetLicense
    BY <1>3, <1>0 DEF SetLicense, reviewVars, ChainOf, Approved
  <1>4. ASSUME NEW status \in {"suspended", "revoked"}, WithdrawLicense(status)
        PROVE  Same
    BY <1>4 DEF WithdrawLicense, reviewVars
  <1>5. CASE UNCHANGED vars
    BY <1>5, <1>0 DEF vars, reviewVars, markVars, ChainOf, Approved
  <1>6. Same => ChainOf(d)'
    BY <1>0, OtherCases
  <1>7. ASSUME NEW c \in Cases, Command(c) \/ Outside(c) PROVE ChainOf(d)'
    <2>1. CASE c = d
      BY <1>0, <1>7, <2>1, OwnChain, OutsideChain
    <2>2. CASE c # d
      BY <1>1, <1>2, <1>6, <1>7, <2>2
    <2> QED
      BY <2>1, <2>2
  <1> QED
    BY <1>3, <1>4, <1>5, <1>6, <1>7, NextSplit

LEMMA Inductive == Spec => []IInv
  <1>1. Init => IInv
    BY InitType, InitChain DEF IInv
  <1>2. IInv /\ [Next]_vars => IInv'
    BY TypeStep, ChainStep DEF IInv
  <1> QED
    BY <1>1, <1>2, PTL DEF Spec

-----------------------------------------------------------------------------
(* What the runs check on a small instance, for every instance. *)

\* An active credential and a public record rest on every authority before them.
THEOREM AuthorityIsBehind == Spec => []AuthorityBehind
  <1>1. IInv => AuthorityBehind
    BY DEF IInv, Chain, ChainOf, AuthorityBehind
  <1> QED
    BY <1>1, Inductive, PTL

\* The public record shows the lifecycle of the credential.
THEOREM RegistryIsCurrent == Spec => []RegistryAgrees
  <1>1. IInv => RegistryAgrees
    BY DEF IInv, Chain, ChainOf, RegistryAgrees
  <1> QED
    BY <1>1, Inductive, PTL

\* A mark is authorized only on an active credential.
THEOREM MarkIsOnActive == Spec => []MarkOnActive
  <1>1. IInv => MarkOnActive
    BY DEF IInv, Chain, ChainOf, MarkOnActive
  <1> QED
    BY <1>1, Inductive, PTL

\* The workflow row and the credential row agree.
THEOREM WorkflowIsCurrent == Spec => []WorkflowAgrees
  <1>1. IInv => WorkflowAgrees
    BY DEF IInv, Chain, ChainOf, WorkflowAgrees
  <1> QED
    BY <1>1, Inductive, PTL

\* A terminal credential is revived only by a correction, without its mark.
THEOREM RevivalIsCorrection == Spec => RevivedOnlyCorrected
  <1> DEFINE Revived(c) ==
        /\ credentials[c].lifecycle \in Terminal
        /\ credentials'[c].lifecycle \notin Terminal
  <1>1. ASSUME IInv, [Next]_vars, NEW d \in Cases, Revived(d)
        PROVE  credentials'[d].payload = "corrected" /\ marks'[d] # "authorized"
    <2> USE DEF TypeOK, reviewVars, markVars
    <2>0. TypeOK /\ ChainOf(d)
      BY <1>1 DEF IInv, Chain
    <2>1. credentials' # credentials
      BY <1>1
    <2>2. PICK c \in Cases : Command(c) \/ Outside(c)
      <3>1. ~SetLicense /\ ~\E status \in {"suspended", "revoked"} : WithdrawLicense(status)
        BY <2>1 DEF SetLicense, WithdrawLicense
      <3>2. ~UNCHANGED vars
        BY <2>1 DEF vars
      <3> QED
        BY <1>1, <3>1, <3>2, NextSplit
    <2>3. ~Outside(c)
      BY <2>1 DEF Outside, Decide, Clear, SwitchReady, AcceptReceipt, Expire
    <2>4. credentials[d].lifecycle \notin {"none", "draft", "active"}
      BY <1>1 DEF Terminal
    <2>5. CASE \E action \in Actions : LifecycleTransition(c, action)
      <3> PICK action \in Actions : LifecycleTransition(c, action)
        BY <2>5
      <3>1. c = d
        BY <1>1, <2>0 DEF LifecycleTransition
      <3>2. action = "correct"
        BY <1>1, <3>1 DEF LifecycleTransition, CanTransition
      <3>3. credentials'[d].payload = "corrected"
        BY <2>0, <3>1, <3>2 DEF LifecycleTransition, Credential
      <3>4. marks'[d] = MarkAfter(d, TargetOf[action]) /\ marks[d] # "authorized"
        BY <2>0, <2>4, <3>1 DEF LifecycleTransition, ChainOf
      <3> QED
        BY <3>3, <3>4 DEF MarkAfter
    <2>6. CASE FinalizeRegistry(c)
      <3>1. c = d
        BY <1>1, <2>0, <2>6 DEF FinalizeRegistry
      <3> QED
        BY <2>0, <2>4, <2>6, <3>1 DEF FinalizeRegistry, Finalizable, ChainOf
    <2>7. CASE PrepareIssuance(c)
      BY <1>1, <2>0, <2>4, <2>7 DEF PrepareIssuance
    <2>8. CASE RecordCustos(c)
      <3>1. credentials'[d].lifecycle = credentials[d].lifecycle
        BY <2>0, <2>8 DEF RecordCustos, Credential
      <3> QED
        BY <1>1, <3>1
    <2>9. CASE RecordSigning(c)
      <3>1. credentials'[d].lifecycle = credentials[d].lifecycle
        BY <2>0, <2>9 DEF RecordSigning, Credential
      <3> QED
        BY <1>1, <3>1
    <2> QED
      BY <2>1, <2>2, <2>3, <2>5, <2>6, <2>7, <2>8, <2>9
         DEF Command, RequireCompensation, RecordMark, LifecycleAborted
  <1>2. IInv /\ [Next]_vars =>
          [\A c \in Cases :
              credentials[c].lifecycle \in Terminal /\ credentials'[c].lifecycle \notin Terminal =>
              credentials'[c].payload = "corrected" /\ marks'[c] # "authorized"]_vars
    BY <1>1
  <1> QED
    BY <1>2, Inductive, PTL DEF Spec, RevivedOnlyCorrected

-----------------------------------------------------------------------------
(* The workflow implements the abstract authority. *)

AStage  == [c \in Cases |-> Stage(c)]
APublic == [c \in Cases |-> registry[c].lifecycle]

LEMMA InitSimulates == Init => Authority!Init
  BY DEF Init, Authority!Init, Stage, NoCredential, Unpublished

\* A step that changes at most the stage or the public lifecycle of one case,
\* and that as the authority allows, is a step of the authority.
LEMMA Simulates ==
    ASSUME NEW c \in Cases,
           AStage' = [AStage EXCEPT ![c] = Stage(c)'],
           APublic' = [APublic EXCEPT ![c] = registry'[c].lifecycle],
           \/ /\ registry'[c].lifecycle = registry[c].lifecycle
              /\ \/ Stage(c)' = Stage(c)
                 \/ Stage(c) = "none" /\ Stage(c)' = "reviewed"
                 \/ Stage(c) = "reviewed" /\ Stage(c)' = "authorized"
                 \/ Stage(c) = "authorized" /\ Stage(c)' = "signed"
           \/ /\ Stage(c)' = Stage(c)
              /\ \/ Stage(c) = "signed" /\ registry[c].lifecycle = "absent"
                       /\ registry'[c].lifecycle = "active"
                 \/ registry[c].lifecycle \in {"active", "suspended"}
                       /\ registry'[c].lifecycle \in {"active", "suspended"} \cup Terminal
                 \/ registry[c].lifecycle \in Terminal /\ registry'[c].lifecycle = "active"
    PROVE  [Authority!Next]_(Authority!vars)
  <1>0. AStage[c] = Stage(c) /\ APublic[c] = registry[c].lifecycle
    BY DEF AStage, APublic
  <1>1. CASE Stage(c)' = Stage(c) /\ registry'[c].lifecycle = registry[c].lifecycle
    <2>1. AStage' = AStage /\ APublic' = APublic
      BY <1>0, <1>1 DEF AStage, APublic
    <2> QED
      BY <2>1 DEF Authority!vars, AStage, APublic
  <1>2. CASE registry'[c].lifecycle = registry[c].lifecycle /\ Stage(c)' # Stage(c)
    <2>1. APublic' = APublic
      BY <1>0, <1>2 DEF APublic
    <2>2. \/ Authority!Advance(c, "none", "reviewed") \/ Authority!Advance(c, "reviewed", "authorized")
          \/ Authority!Advance(c, "authorized", "signed")
      BY <1>0, <1>2, <2>1 DEF Authority!Advance, AStage, APublic
    <2> QED
      BY <2>2 DEF Authority!Next
  <1>3. CASE Stage(c)' = Stage(c) /\ registry'[c].lifecycle # registry[c].lifecycle
    <2>1. AStage' = AStage
      BY <1>0, <1>3 DEF AStage
    <2>2. \/ Authority!Publish(c)
          \/ \E to \in {"active", "suspended"} \cup Authority!Terminal : Authority!Govern(c, to)
          \/ Authority!Correct(c)
      BY <1>0, <1>3, <2>1
         DEF Authority!Publish, Authority!Govern, Authority!Correct, Authority!Terminal, Terminal,
             AStage, APublic
    <2> QED
      BY <2>2 DEF Authority!Next
  <1> QED
    BY <1>1, <1>2, <1>3

LEMMA StepSimulates ==
    ASSUME IInv, [Next]_vars
    PROVE  [Authority!Next]_(Authority!vars)
  <1> USE DEF TypeOK, reviewVars, markVars
  <1>0. TypeOK /\ Chain
    BY DEF IInv
  <1>1. CASE credentials' = credentials /\ registry' = registry
    BY <1>1 DEF Authority!vars, Stage
  <1>2. CASE credentials' # credentials \/ registry' # registry
    <2>1. PICK c \in Cases : Command(c) \/ Outside(c)
      <3>1. ~SetLicense /\ ~\E status \in {"suspended", "revoked"} : WithdrawLicense(status)
        BY <1>2 DEF SetLicense, WithdrawLicense
      <3>2. ~UNCHANGED vars
        BY <1>2 DEF vars
      <3> QED
        BY <3>1, <3>2, NextSplit
    <2>2. ~Outside(c)
      BY <1>2 DEF Outside, Decide, Clear, SwitchReady, AcceptReceipt, Expire
    <2>3. ChainOf(c)
      BY <1>0 DEF Chain
    <2>4. \A d \in Cases \ {c} : credentials'[d] = credentials[d] /\ registry'[d] = registry[d]
      <3> SUFFICES ASSUME NEW d \in Cases \ {c}
                   PROVE  credentials'[d] = credentials[d] /\ registry'[d] = registry[d]
        OBVIOUS
      <3>1. Command(c)
        BY <2>1, <2>2
      <3>2. CASE \E action \in Actions : LifecycleTransition(c, action) \/ LifecycleAborted(c, action)
        BY SMTT(30), <1>0, <3>2 DEF LifecycleTransition, LifecycleAborted
      <3>3. CASE ~\E action \in Actions : LifecycleTransition(c, action) \/ LifecycleAborted(c, action)
        BY SMTT(30), <1>0, <3>1, <3>3
        DEF Command, PrepareIssuance, RecordCustos, RecordSigning, FinalizeRegistry,
            RequireCompensation, RecordMark
      <3> QED
        BY <3>2, <3>3
    <2>5. AStage' = [AStage EXCEPT ![c] = Stage(c)']
      BY <2>4 DEF AStage, Stage
    <2>6. APublic' = [APublic EXCEPT ![c] = registry'[c].lifecycle]
      BY <2>4 DEF APublic
    <2> DEFINE Goal == [Authority!Next]_(Authority!vars)
    <2>7. CASE PrepareIssuance(c)
      <3>1. Stage(c) = "none" /\ Stage(c)' = "reviewed" /\ registry' = registry
        BY <1>0, <2>7 DEF PrepareIssuance, Prepared, NoCredential, Stage
      <3> QED
        BY <2>5, <2>6, <3>1, Simulates
    <2>8. CASE RecordCustos(c)
      <3> DEFINE r == [credentials[c] EXCEPT !.custos = TRUE]
      <3>1. r.custos /\ r.signed = credentials[c].signed /\ r.lifecycle = credentials[c].lifecycle
        BY <1>0, CustosField
      <3>2. credentials'[c] = r /\ registry' = registry
        BY <1>0, <2>8 DEF RecordCustos
      <3>3. Exists(c)
        BY <2>3, <2>8 DEF RecordCustos, ChainOf
      <3> HIDE DEF r
      <3>4. Stage(c)' = Stage(c) \/ (Stage(c) = "reviewed" /\ Stage(c)' = "authorized")
        BY <2>3, <3>1, <3>2, <3>3 DEF Stage
      <3> QED
        BY <2>5, <2>6, <3>2, <3>4, Simulates
    <2>9. CASE RecordSigning(c)
      <3> DEFINE r == [credentials[c] EXCEPT !.signed = TRUE]
      <3>1. r.signed /\ r.custos = credentials[c].custos /\ r.lifecycle = credentials[c].lifecycle
        BY <1>0, SignedField
      <3>2. credentials'[c] = r /\ registry' = registry
        BY <1>0, <2>9 DEF RecordSigning
      <3>3. Exists(c) /\ credentials[c].custos
        BY <2>3, <2>9 DEF RecordSigning, ChainOf
      <3> HIDE DEF r
      <3>4. Stage(c)' = Stage(c) \/ (Stage(c) = "authorized" /\ Stage(c)' = "signed")
        BY <3>1, <3>2, <3>3 DEF Stage
      <3> QED
        BY <2>5, <2>6, <3>2, <3>4, Simulates
    <2>10. CASE FinalizeRegistry(c)
      <3> DEFINE r == [credentials[c] EXCEPT !.lifecycle = "active"]
      <3>1. credentials'[c] = r /\ registry'[c].lifecycle = "active"
        BY <1>0, <2>10 DEF FinalizeRegistry
      <3>2. r.signed = credentials[c].signed /\ r.lifecycle = "active"
        BY <1>0 DEF Credential
      <3>3. Exists(c) /\ credentials[c].signed /\ registry[c].lifecycle \in {"absent", "active"}
        BY <1>0, <2>3, <2>10
           DEF FinalizeRegistry, Finalizable, ChainOf, PublicRecord, Lifecycles
      <3> HIDE DEF r
      <3>4. Stage(c)' = Stage(c) /\ Stage(c) = "signed"
        BY <3>1, <3>2, <3>3 DEF Stage
      <3> QED
        BY <2>5, <2>6, <3>1, <3>3, <3>4, Simulates
    <2>11. CASE \E action \in Actions : LifecycleTransition(c, action)
      <3> PICK action \in Actions : LifecycleTransition(c, action)
        BY <2>11
      <3> DEFINE to == TargetOf[action]
      <3>1. /\ to \in {"active", "suspended"} \cup Terminal
            /\ registry[c].lifecycle \in Terminal => to = "active"
        BY <2>3 DEF LifecycleTransition, CanTransition, TargetOf, Actions, Terminal, ChainOf
      <3>2. credentials'[c].signed = credentials[c].signed
            /\ credentials'[c].custos = credentials[c].custos
            /\ credentials'[c].lifecycle = to
        BY <1>0 DEF LifecycleTransition, Credential
      <3>3. registry'[c].lifecycle = IF Published(c) THEN to ELSE registry[c].lifecycle
        BY <1>0 DEF LifecycleTransition, RecordAfter, PublicRecord
      <3>4. Stage(c)' = Stage(c)
        <4>1. Exists(c) /\ to # "none"
          BY <3>1 DEF LifecycleTransition, CanTransition, Terminal
        <4> HIDE DEF to
        <4> QED
          BY <3>2, <4>1 DEF Stage
      <3>5. Published(c) => registry[c].lifecycle \in {"active", "suspended"} \cup Terminal
        BY <1>0, <2>3 DEF ChainOf, PublicRecord, Lifecycles, Terminal, LifecycleTransition,
                          CanTransition
      <3> HIDE DEF to
      <3> QED
        BY <2>5, <2>6, <3>1, <3>3, <3>4, <3>5, Simulates
    <2> QED
      BY <1>2, <2>1, <2>2, <2>7, <2>8, <2>9, <2>10, <2>11
         DEF Command, RequireCompensation, RecordMark, LifecycleAborted
  <1> QED
    BY <1>1, <1>2

\* A verifier of the registry sees nothing the abstract authority does not promise.
THEOREM ImplementsAuthority == Spec => AuthoritySpec
  <1>1. IInv /\ [Next]_vars => [Authority!Next]_(Authority!vars)
    BY StepSimulates
  <1> QED
    BY <1>1, InitSimulates, Inductive, PTL DEF Spec, AuthoritySpec, Authority!Spec
=============================================================================
