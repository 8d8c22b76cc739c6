----------------------------- MODULE Workspace -----------------------------
(***************************************************************************)
(* The operations workspace of a browser tab: one store that holds the     *)
(* records of every organization its user has a session of, what is        *)
(* selected, and requests to the routes whose answers arrive in any order  *)
(* while the user goes on, selects something else or changes the session.  *)
(* A request keeps what its handler captured before it awaited.            *)
(*                                                                         *)
(* The tab starts from the data set it was built with and nothing loads    *)
(* the server's afterwards: GET /operations/session answers with no data   *)
(* set, in the sandbox not at all.  Of the routes the model keeps what the *)
(* tab can tell of their answers; how they overlap on the server is the    *)
(* matter of ReviewRoutes and Intake, how queued operations are applied of *)
(* OfflineSync.  A case is an attestation's review of a unit and is known  *)
(* by its unit; only corrections and lifecycle are kept of it, and the     *)
(* number of times it was stored.  Evidence and captured media are left    *)
(* out, with them the spell of the indicator that addEvidenceFile sets and *)
(* its own catch ends.                                                     *)
(***************************************************************************)
EXTENDS Naturals, Sequences, FiniteSets, SequencesExt

CONSTANTS
    Tenants,
    Sessions,
    TenantOf,      \* the tenant of a session
    Permissions,   \* the permissions of a session's role
    Batches,       \* <<tenant, reference>>
    Units,         \* <<tenant, serial>>
    BatchOf,       \* the batch a unit is entered in
    Built,         \* the batches and units of the data set the tab is built with
    Slots,         \* requests in flight
    MaxStored,     \* bound: cases stored, all together
    None

Records       == Batches \cup Units
Owner(record) == record[1]

ASSUME WorkspaceAssumption ==
    /\ TenantOf \in [Sessions -> Tenants]
    /\ \A record \in Records : Owner(record) \in Tenants
    /\ BatchOf \in [Units -> Batches] /\ \A u \in Units : Owner(BatchOf[u]) = Owner(u)
    /\ Built \subseteq Records /\ \A u \in Units \cap Built : BatchOf[u] \in Built
    /\ MaxStored \in Nat

VARIABLES
    session,   \* the session the user has selected
    picked,    \* the selected batch and unit
    shown,     \* the tab's records, the batches it shows as submitted, and its cases
    queue,     \* the records with a queued operation
    online,
    sync,      \* the indicator that holds back the button "Sync queue"
    sent,      \* per slot a request, or None
    server     \* the server's records and the cases stored, in order

tabVars == <<session, picked, shown, queue, online, sync>>
vars    == <<session, picked, shown, queue, online, sync, sent, server>>

Lifecycles == {"active", "suspended", "ended"}
Case    == [stored: Nat \ {0}, correction: {"none", "open", "closed"}, lifecycle: Lifecycles]
Cases   == [Units -> Case \cup {None}]
Reviews == {"decision", "lifecycle", "request", "resolve", "reject"}
Lot     == {"lot"}
Syncing == {"csv", "submit", "flush", "hydrate"}
Request == [kind: Reviews \cup Syncing \cup Lot, session: Sessions, target: Records \cup {None},
            stage: {"saving", "sent", "listing", "answered"},
            records: SUBSET Records, cases: Cases, kept: Cases]

ASSUME NoneAssumption == None \notin Records /\ None \notin Case /\ None \notin Request

TypeOK ==
    /\ session \in Sessions
    /\ picked \in [batch: Batches \cup {None}, unit: Units \cup {None}]
    /\ {picked.batch, picked.unit} \subseteq shown.records \cup {None}
    /\ shown \in [records: SUBSET Records, submitted: SUBSET Batches, cases: Cases]
    /\ queue \subseteq Records
    /\ online \in BOOLEAN /\ sync \in {"syncing", "settled"}
    /\ sent \in [Slots -> Request \cup {None}]
    /\ server \in [records: SUBSET Records, cases: [Units -> Seq(Case)]]

NewCase   == [stored |-> 1, correction |-> "none", lifecycle |-> "active"]
NoCases   == [u \in Units |-> None]
Latest(u) == IF server.cases[u] = <<>> THEN None ELSE Last(server.cases[u])

UnitsIn(records, b)   == {u \in Units \cap records : BatchOf[u] = b}
BatchesOf(records, s) == {b \in Batches \cap records : Owner(b) = TenantOf[s]}

\* The first of those there are, in the order of the arrays.
FirstOf(S) == IF S = {} THEN {None} ELSE S

Picks(records, batches) ==
    UNION {{[batch |-> b, unit |-> u] : u \in FirstOf(UnitsIn(records, b))} : b \in FirstOf(batches)}

\* Tab and server start from one data set.
Init ==
    /\ session \in Sessions
    /\ picked \in Picks(Built, BatchesOf(Built, session))
    /\ shown = [records |-> Built, submitted |-> {},
                cases |-> [u \in Units |-> IF u \in Built THEN NewCase ELSE None]]
    /\ queue = {} /\ online = TRUE /\ sync = "settled"
    /\ sent = [q \in Slots |-> None]
    /\ server = [records |-> Built, cases |-> [u \in Units |-> IF u \in Built THEN <<NewCase>> ELSE <<>>]]

-----------------------------------------------------------------------------
(* What the user does at once. *)

May(permission) == permission \in Permissions[session]

\* Mutant: what is selected is taken, whoever's it is.
OwnWhateverTenant(record) == record \in shown.records

\* Every handler looks its record up by the selection and the active session's tenant.
Own(record) == record \in shown.records /\ Owner(record) = TenantOf[session]

SelectSession(s) ==
    /\ session' = s /\ picked' \in Picks(shown.records, BatchesOf(shown.records, s))
    /\ UNCHANGED <<shown, queue, online, sync, sent, server>>

\* The lists offer the records of the session's tenant.
SelectBatch(b) ==
    /\ b \in BatchesOf(shown.records, session) /\ picked' \in Picks(shown.records, {b})
    /\ UNCHANGED <<session, shown, queue, online, sync, sent, server>>

SelectAsset(u) ==
    /\ picked.batch \in BatchesOf(shown.records, session) /\ u \in UnitsIn(shown.records, picked.batch)
    /\ picked' = [picked EXCEPT !.unit = u]
    /\ UNCHANGED <<session, shown, queue, online, sync, sent, server>>

Queue(records) == queue' = queue \cup records /\ sync' = "settled"

\* The identity is made of the reference: the batch entered again starts anew.
CreateBatch(b) ==
    /\ May("batch.create") /\ Owner(b) = TenantOf[session] /\ b \notin Built
    /\ shown' = [shown EXCEPT !.records = @ \cup {b}, !.submitted = @ \ {b}]
    /\ picked' = [batch |-> b, unit |-> None]
    /\ Queue({b})
    /\ UNCHANGED <<session, online, sent, server>>

\* One unit with a serial of its own, or a number of drafts.
AddUnits(units) ==
    /\ May("asset.create") /\ Own(picked.batch)
    /\ units # {} /\ \A u \in units : BatchOf[u] = picked.batch /\ u \notin shown.records
    /\ shown' = [shown EXCEPT !.records = @ \cup units]
    /\ \E u \in units : picked' = [picked EXCEPT !.unit = u]
    /\ Queue(units)
    /\ UNCHANGED <<session, online, sent, server>>

\* Bound: one operation of a record is queued or under way.
UpdateSelectedAsset ==
    /\ May("asset.edit") /\ Own(picked.unit) /\ picked.unit \notin queue
    /\ \A q \in Slots : sent[q] # None => picked.unit \notin sent[q].records
    /\ Queue({picked.unit})
    /\ UNCHANGED <<session, picked, shown, online, sent, server>>

\* The batch is ready or blocked afterwards, also one that was submitted.
ValidateSelectedBatch ==
    /\ May("batch.edit") /\ Own(picked.batch)
    /\ shown' = [shown EXCEPT !.submitted = @ \ {picked.batch}]
    /\ UNCHANGED <<session, picked, queue, online, sync, sent, server>>

SetOnline ==
    /\ online' = ~online /\ sync' = "settled"
    /\ UNCHANGED <<session, picked, shown, queue, sent, server>>

-----------------------------------------------------------------------------
(* Requests.  The handler checks the role and the selection and captures the state. *)

Ask(q, kind, target, stage, records) ==
    /\ sent[q] = None
    /\ sent' = [sent EXCEPT ![q] = [kind |-> kind, session |-> session, target |-> target, stage |-> stage,
                                    records |-> records, cases |-> NoCases, kept |-> IF kind \in Reviews \cup {"submit"} THEN shown.cases ELSE NoCases]]

\* Nothing else reads the lots, which are left out.
CreateLot(q) ==
    /\ May("inventory.manage") /\ online
    /\ Ask(q, "lot", None, "sent", {})
    /\ UNCHANGED <<tabVars, server>>

ImportCsvFile(q) ==
    /\ May("asset.create") /\ online /\ Own(picked.batch)
    /\ Ask(q, "csv", picked.batch, "sent", {}) /\ sync' = "syncing"
    /\ UNCHANGED <<session, picked, shown, queue, online, server>>

\* Held back by what is queued of the batch and its units.
SubmitSelectedBatch(q) ==
    /\ May("batch.submit") /\ May("attestation.sign") /\ online /\ Own(picked.batch)
    /\ LET units == UnitsIn(shown.records, picked.batch)
       IN  units # {} /\ queue \cap ({picked.batch} \cup units) = {}
    /\ Ask(q, "submit", picked.batch, "sent", {}) /\ sync' = "syncing"
    /\ UNCHANGED <<session, picked, shown, queue, online, server>>

\* Takes the queue as it is now and stores a snapshot of it first.
FlushSyncQueue(q) ==
    /\ online /\ sync # "syncing"
    /\ Ask(q, "flush", None, "saving", queue)
    /\ UNCHANGED <<tabVars, server>>

SnapshotSaved(q) ==
    /\ sent[q] # None /\ sent[q].stage = "saving"
    /\ IF sent[q].records = {}
       THEN sent' = [sent EXCEPT ![q] = None] /\ sync' = "settled"
       ELSE sent' = [sent EXCEPT ![q].stage = "sent"] /\ sync' = "syncing"
    /\ UNCHANGED <<session, picked, shown, queue, online, server>>

\* An action on the case selected last, where the page offers it.
AskReview(q, kind, u, permissions, offered) ==
    /\ Own(u) /\ shown.cases[u] # None /\ offered
    /\ permissions \cap Permissions[session] # {}
    /\ Ask(q, kind, u, "sent", {})
    /\ UNCHANGED <<tabVars, server>>

\* The permissions of which the page asks one for a decision.  Which decision it is, and who may
\* take it after whom, is told apart in ReviewRoutes.
Decides == {"review.decide", "custos.decide", "credential.issue", "mark.authorize"}

ReviewAction(q, u) == AskReview(q, "decision", u, Decides, TRUE)

LifecycleAction(q, u)   == AskReview(q, "lifecycle", u, {"credential.lifecycle"}, shown.cases[u].lifecycle # "ended")
RequestCorrection(q, u) == AskReview(q, "request", u, {"correction.request"}, shown.cases[u].correction # "open")
ResolveCorrection(q, u) == AskReview(q, "resolve", u, {"correction.resolve"}, shown.cases[u].correction = "open")
RejectCorrection(q, u)  == AskReview(q, "reject", u, {"correction.resolve"}, shown.cases[u].correction = "open")

HydrateSession(q) ==
    /\ Ask(q, "hydrate", None, "sent", {}) /\ sync' = "syncing"
    /\ UNCHANGED <<session, picked, shown, queue, online, server>>

-----------------------------------------------------------------------------
(* The routes. *)

Again(case) == [case EXCEPT !.stored = @ + 1]

\* What the routes may make of a case.  A lifecycle only ends once, and an issued credential is
\* suspended while a correction is open.
Transitioned(case) == {[Again(case) EXCEPT !.lifecycle = to] :
                          to \in IF case.lifecycle = "ended" THEN {} ELSE Lifecycles \ {case.lifecycle}}
Requested(case)    == IF case.correction = "open" THEN {}
                      ELSE {[Again(case) EXCEPT !.correction = "open", !.lifecycle = to] :
                              to \in {case.lifecycle} \cup (IF case.lifecycle = "ended" THEN {} ELSE {"suspended"})}
Resolved(case)     == IF case.correction # "open" THEN {}
                      ELSE {[Again(case) EXCEPT !.correction = "closed", !.lifecycle = "active"]}
Rejected(case)     == IF case.correction # "open" THEN {} ELSE {[Again(case) EXCEPT !.correction = "closed"]}

Outcomes(kind, case) ==
    CASE kind = "decision"  -> {Again(case)}
      [] kind = "lifecycle" -> Transitioned(case)
      [] kind = "request"   -> Requested(case)
      [] kind = "resolve"   -> Resolved(case)
      [] kind = "reject"    -> Rejected(case)

Stored == FoldFunction(LAMBDA stored, sum : Len(stored) + sum, 0, server.cases)

Answered(q, records, cases) == [sent EXCEPT ![q].stage = "answered", ![q].records = records, ![q].cases = cases]

Arrived(q, kinds) == sent[q] # None /\ sent[q].stage = "sent" /\ sent[q].kind \in kinds

ServeLot(q) ==
    /\ Arrived(q, Lot)
    /\ sent' = Answered(q, {}, NoCases)
    /\ UNCHANGED <<tabVars, server>>

\* The units of a file are new to the server and registered together.
ServeCsv(q, units) ==
    /\ Arrived(q, {"csv"}) /\ sent[q].target \in server.records
    /\ units # {} /\ \A u \in units : BatchOf[u] = sent[q].target /\ u \notin server.records
    /\ server' = [server EXCEPT !.records = @ \cup units]
    /\ sent' = Answered(q, units, NoCases)
    /\ UNCHANGED tabVars

\* Each operation is decided on its own, never applied for another organization; one on a
\* record the server does not have creates it, a unit also where its batch is not there.
ServeFlush(q) ==
    /\ Arrived(q, {"flush"})
    /\ \E applied \in SUBSET {r \in sent[q].records : Owner(r) = TenantOf[sent[q].session]} :
          server' = [server EXCEPT !.records = @ \cup applied]
    /\ sent' = Answered(q, sent[q].records, NoCases)
    /\ UNCHANGED tabVars

\* The case of every unit of the batch is reset for the new attestation.
Reset(u) == IF Latest(u) = None THEN NewCase ELSE [Again(Latest(u)) EXCEPT !.lifecycle = "active"]

ServeSubmit(q) ==
    /\ Arrived(q, {"submit"}) /\ sent[q].target \in server.records
    /\ LET attested == UnitsIn(server.records, sent[q].target)
       IN  /\ attested # {} /\ Stored + Cardinality(attested) <= MaxStored
           /\ server' = [server EXCEPT !.cases = [u \in Units |-> IF u \in attested THEN Append(@[u], Reset(u))
                                                                  ELSE @[u]]]
    /\ sent' = [sent EXCEPT ![q].stage = "listing"]
    /\ UNCHANGED tabVars

\* Mutant: put back are the cases of the data set the tab was built with.
SeedCases(q) == [u \in Units |-> IF u \in Built THEN NewCase ELSE None]

CapturedCases(q) == sent[q].kept

\* The cases are read afterwards; where that is refused those captured before are put back.
ListCases(q) ==
    /\ sent[q] # None /\ sent[q].stage = "listing"
    /\ \/ /\ "audit.read" \in Permissions[sent[q].session]
          /\ sent' = Answered(q, {}, [u \in Units |-> IF Owner(u) = TenantOf[sent[q].session] THEN Latest(u) ELSE None])
       \/ sent' = Answered(q, {}, CapturedCases(q))
    /\ UNCHANGED <<tabVars, server>>

ServeReview(q) ==
    /\ Arrived(q, Reviews) /\ Stored < MaxStored
    /\ LET u == sent[q].target
       IN  \E case \in Outcomes(sent[q].kind, Latest(u)) :
             /\ server' = [server EXCEPT !.cases[u] = Append(@, case)]
             /\ sent' = Answered(q, {}, [NoCases EXCEPT ![u] = case])
    /\ UNCHANGED tabVars

-----------------------------------------------------------------------------
(* Answers, applied to the store as it is by then. *)

Heard(q) == [sent EXCEPT ![q] = None]

Awaits(q, kinds) == sent[q] # None /\ sent[q].stage = "answered" /\ sent[q].kind \in kinds

HearLot(q) ==
    /\ Awaits(q, Lot) /\ sent' = Heard(q)
    /\ UNCHANGED <<tabVars, server>>

Imported(q) == sent[q].records

\* The units replace local ones, and the first is selected whatever is selected by now.
HearCsv(q) ==
    /\ Awaits(q, {"csv"}) /\ sent' = Heard(q)
    /\ shown' = [shown EXCEPT !.records = @ \cup Imported(q)]
    /\ \E u \in sent[q].records : picked' = [picked EXCEPT !.unit = u]
    /\ sync' = "settled"
    /\ UNCHANGED <<session, queue, online, server>>

\* The cases of the answer take the place of all there are.
HearSubmit(q) ==
    /\ Awaits(q, {"submit"}) /\ sent' = Heard(q)
    /\ shown' = [shown EXCEPT !.submitted = @ \cup {sent[q].target}, !.cases = sent[q].cases]
    /\ sync' = "settled"
    /\ UNCHANGED <<session, picked, queue, online, server>>

HearFlush(q) ==
    /\ Awaits(q, {"flush"}) /\ sent' = Heard(q)
    /\ queue' = queue \ sent[q].records
    /\ sync' = "settled"
    /\ UNCHANGED <<session, picked, shown, online, server>>

\* Mutant: the shown case is changed where the answer differs.
LifecycleOnly(q, u) == [shown.cases[u] EXCEPT !.lifecycle = sent[q].cases[u].lifecycle]

InPlace(q, u) == sent[q].cases[u]

\* The answer's case takes the place of the one with its identity, if there is one.
HearReview(q, kind) ==
    /\ Awaits(q, {kind}) /\ sent' = Heard(q)
    /\ shown' = [shown EXCEPT !.cases[sent[q].target] = IF @ = None THEN @ ELSE InPlace(q, sent[q].target)]
    /\ UNCHANGED <<session, picked, queue, online, sync, server>>

HearDecision(q)  == HearReview(q, "decision")
HearLifecycle(q) == HearReview(q, "lifecycle")
HearRequested(q) == HearReview(q, "request")
HearRejected(q)  == HearReview(q, "reject")

\* A resolved correction is not taken from the answer: the session is to be loaded again.
HearResolve(q) ==
    /\ Awaits(q, {"resolve"})
    /\ sent' = [sent EXCEPT ![q] = [@ EXCEPT !.kind = "hydrate", !.session = session, !.target = None,
                                             !.stage = "sent", !.cases = NoCases, !.kept = NoCases]]
    /\ sync' = "syncing"
    /\ UNCHANGED <<session, picked, shown, queue, online, server>>

\* Mutant: only an answer settles the indicator.
SettledByAnswer(q) == sync' = sync

\* The answer to hydrateSession names no data set, so that reading it throws: it ends here, too.
Settled(q) == sync' = IF sent[q].kind \in Syncing THEN "settled" ELSE sync

\* The route refuses, or the answer does not arrive, whatever was done for it.
HearFailure(q) ==
    /\ sent[q] # None /\ sent[q].stage # "saving"
    /\ sent' = Heard(q) /\ Settled(q)
    /\ UNCHANGED <<session, picked, shown, queue, online, server>>

-----------------------------------------------------------------------------

UserAct ==
    \/ \E s \in Sessions : SelectSession(s)
    \/ \E b \in Batches : SelectBatch(b) \/ CreateBatch(b)
    \/ \E u \in Units : SelectAsset(u)
    \/ \E units \in SUBSET Units : AddUnits(units)
    \/ UpdateSelectedAsset \/ ValidateSelectedBatch \/ SetOnline

Send ==
    \E q \in Slots :
       \/ CreateLot(q) \/ ImportCsvFile(q) \/ SubmitSelectedBatch(q) \/ FlushSyncQueue(q) \/ HydrateSession(q)
       \/ \E u \in Units :
             \/ ReviewAction(q, u) \/ LifecycleAction(q, u)
             \/ RequestCorrection(q, u) \/ ResolveCorrection(q, u) \/ RejectCorrection(q, u)

Serve ==
    \E q \in Slots :
       \/ ServeLot(q) \/ ServeFlush(q) \/ ServeSubmit(q) \/ ListCases(q) \/ ServeReview(q)
       \/ \E units \in SUBSET Units : ServeCsv(q, units)

Hear ==
    \E q \in Slots :
       \/ SnapshotSaved(q) \/ HearLot(q) \/ HearCsv(q) \/ HearSubmit(q) \/ HearFlush(q)
       \/ HearDecision(q) \/ HearLifecycle(q) \/ HearRequested(q) \/ HearResolve(q) \/ HearRejected(q)
       \/ HearFailure(q)

Next == UserAct \/ Send \/ Serve \/ Hear

Spec == Init /\ [][Next]_vars

-----------------------------------------------------------------------------
(* Properties. *)

\* A case the tab shows is one the server stored, whole, and a batch it shows as submitted has
\* an attested unit there, although answers arrive out of order, are lost, or are put together
\* from two requests of which the second was refused (reviewAction, submitSelectedBatch).
ShownWasStored ==
    /\ \A u \in Units : shown.cases[u] # None => shown.cases[u] \in Range(server.cases[u])
    /\ \A b \in shown.submitted : \E u \in Units : BatchOf[u] = b /\ server.cases[u] # <<>>

\* Nothing is asked and nothing queued of a record of another organization than the session's,
\* although late answers select a unit after the session was changed (the lookups by tenant in
\* every handler of useOperationsStore.ts).
ActsOnOwnTenant ==
    [][/\ \A record \in queue' \ queue : Owner(record) = TenantOf[session]
       /\ \A q \in Slots : sent[q] = None /\ sent'[q] # None /\ sent'[q].target # None =>
             Owner(sent'[q].target) = TenantOf[session]]_vars

\* The button that sends the queue is not held back for good: while the indicator says
\* "syncing" a request is under way that settles it, however it ends (the catch branches of
\* hydrateSession, importCsvFile, submitSelectedBatch and flushSyncQueue).
SyncingEnds ==
    sync = "syncing" => \E q \in Slots : sent[q] # None /\ sent[q].kind \in Syncing

\* An answer never shows a case in an older state than the one that was shown when its request
\* was made: only answers to requests made earlier can take the page back.
NoOlderThanAsked ==
    [][\A q \in Slots : sent[q] # None /\ sent'[q] # sent[q] =>
          \A u \in Units : sent[q].kept[u] # None /\ shown'.cases[u] # None /\ shown'.cases[u] # shown.cases[u] =>
             shown'.cases[u].stored >= sent[q].kept[u].stored]_vars
=============================================================================
