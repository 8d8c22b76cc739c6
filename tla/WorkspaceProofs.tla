--------------------------- MODULE WorkspaceProofs ----------------------------
(***************************************************************************)
(* Proofs about Workspace, for any organizations, sessions, records,       *)
(* number of requests in flight and number of cases stored.                *)
(*                                                                         *)
(* That a shown case was stored, and that no answer takes it back, are not *)
(* inductive: what is shown comes from an answer, which comes from what    *)
(* was stored when it was composed or shown when it was asked for.  The    *)
(* invariant therefore says of every request in flight that the cases it   *)
(* knows and the cases of its answer are stored, and that none of the      *)
(* answer is older than the one it knows; and, so that older can be told   *)
(* by a number, that the number of a case is its place among those         *)
(* stored of its unit.                                                     *)
(***************************************************************************)
EXTENDS Workspace, SequenceTheorems, TLAPS

\* The number of a case is its place among those stored of its unit.
Numbered == \A u \in Units : \A i \in 1..Len(server.cases[u]) : server.cases[u][i].stored = i

\* What a request knows, and its answer: cases that were stored, none older than those shown
\* when it was made.
RequestOK(m, stored) ==
    /\ m \in Request
    /\ m.kind \in Reviews => m.target \in Units /\ stored[m.target] # <<>>
    /\ m.kind = "submit" => m.target \in Batches
    /\ m.kind = "submit" /\ m.stage \in {"listing", "answered"} =>
          \E u \in Units : BatchOf[u] = m.target /\ stored[u] # <<>>
    /\ m.kind = "csv" => m.records \subseteq Units
    /\ m.stage = "listing" => m.kind = "submit"
    /\ m.stage = "saving" => m.kind = "flush"
    /\ \A u \in Units : m.kept[u] # None => m.kept[u] \in Range(stored[u])
    /\ \A u \in Units : m.cases[u] # None =>
          /\ m.cases[u] \in Range(stored[u])
          /\ m.kept[u] # None => m.kept[u].stored <= m.cases[u].stored

RequestsOK == \A q \in Slots : sent[q] # None => RequestOK(sent[q], server.cases)

WsInv == TypeOK /\ SyncingEnds /\ ShownWasStored /\ Numbered /\ RequestsOK

\* Cases are stored one after another and never taken away.
Grown(old, new) ==
    \A u \in Units : /\ Len(old[u]) <= Len(new[u])
                     /\ \A i \in 1..Len(old[u]) : new[u][i] = old[u][i]

StoredCases == [Units -> Seq(Case)]

\* What was stored is still stored.
LEMMA GrownKeeps ==
    ASSUME NEW old \in StoredCases, NEW new \in StoredCases, Grown(old, new), NEW u \in Units
    PROVE  Range(old[u]) \subseteq Range(new[u]) /\ (old[u] # <<>> => new[u] # <<>>)
<1>1. PICK s, t : s = old[u] /\ t = new[u]
  OBVIOUS
<1>2. /\ s \in Seq(Case) /\ t \in Seq(Case) /\ Len(s) \in Nat /\ Len(t) \in Nat /\ Len(s) <= Len(t)
      /\ \A i \in 1..Len(s) : t[i] = s[i]
  BY <1>1 DEF StoredCases, Grown
<1>3. DOMAIN s = 1..Len(s) /\ DOMAIN t = 1..Len(t)
  BY <1>2
<1>4. \A i \in DOMAIN s : i \in DOMAIN t /\ t[i] = s[i]
  BY <1>2, <1>3
<1>5. Range(s) \subseteq Range(t)
  BY <1>4 DEF Range
<1>6. ASSUME s # <<>>, t = <<>>
      PROVE  FALSE
  <2>1. Len(s) # 0 /\ Len(t) = 0
    BY <1>2, <1>6
  <2> QED BY <1>2, <2>1
<1> QED BY <1>1, <1>5, <1>6

\* A request goes on naming stored cases.
LEMMA RequestStays ==
    ASSUME NEW old \in StoredCases, NEW new \in StoredCases, Grown(old, new), NEW m, RequestOK(m, old)
    PROVE  RequestOK(m, new)
BY GrownKeeps DEF RequestOK

\* The types of the state, field by field.
LEMMA WsTyped ==
    ASSUME WsInv
    PROVE  /\ server.cases \in StoredCases /\ server.records \in SUBSET Records
           /\ server = [records |-> server.records, cases |-> server.cases]
           /\ shown.records \in SUBSET Records /\ shown.submitted \in SUBSET Batches /\ shown.cases \in Cases
           /\ shown = [records |-> shown.records, submitted |-> shown.submitted, cases |-> shown.cases]
           /\ picked.batch \in Batches \cup {None} /\ picked.unit \in Units \cup {None}
           /\ picked = [batch |-> picked.batch, unit |-> picked.unit]
           /\ {picked.batch, picked.unit} \subseteq shown.records \cup {None}
           /\ session \in Sessions /\ TenantOf[session] \in Tenants
           /\ queue \in SUBSET Records /\ online \in BOOLEAN /\ sync \in {"syncing", "settled"}
           /\ \A q \in Slots : sent[q] \in Request \cup {None}
BY WorkspaceAssumption DEF WsInv, TypeOK, StoredCases

\* What was shown stays stored.
LEMMA ShownStays ==
    ASSUME WsInv, server'.cases \in StoredCases, Grown(server.cases, server'.cases),
           shown'.cases = shown.cases, shown'.submitted \subseteq shown.submitted
    PROVE  ShownWasStored'
<1>1. server.cases \in StoredCases
  BY WsTyped
<1>2. ASSUME NEW u \in Units, shown'.cases[u] # None
      PROVE  shown'.cases[u] \in Range(server'.cases[u])
  <2>1. shown.cases[u] \in Range(server.cases[u])
    BY <1>2 DEF WsInv, ShownWasStored
  <2> QED BY <1>1, <2>1, GrownKeeps
<1>3. ASSUME NEW b \in shown'.submitted
      PROVE  \E u \in Units : BatchOf[u] = b /\ server'.cases[u] # <<>>
  <2>1. PICK u \in Units : BatchOf[u] = b /\ server.cases[u] # <<>>
    BY <1>3 DEF WsInv, ShownWasStored
  <2>2. server'.cases[u] # <<>>
    BY <1>1, <2>1, GrownKeeps
  <2> QED BY <2>1, <2>2
<1> QED BY <1>2, <1>3 DEF ShownWasStored

\* A step that leaves the server alone.
LEMMA NothingStored ==
    ASSUME WsInv, UNCHANGED server
    PROVE  server'.cases \in StoredCases /\ Grown(server.cases, server'.cases) /\ Numbered'
BY WsTyped DEF Grown, StoredCases, WsInv, Numbered

\* A step of one slot.
LEMMA SlotInv ==
    ASSUME WsInv, NEW q \in Slots, NEW m \in Request \cup {None}, sent' = [sent EXCEPT ![q] = m],
           m # None => RequestOK(m, server'.cases),
           server'.cases \in StoredCases, Grown(server.cases, server'.cases)
    PROVE  RequestsOK' /\ sent' \in [Slots -> Request \cup {None}] /\ sent'[q] = m
           /\ \A p \in Slots \ {q} : sent'[p] = sent[p]
<1>1. sent \in [Slots -> Request \cup {None}] /\ server.cases \in StoredCases /\ RequestsOK
  BY WsTyped DEF WsInv, TypeOK
<1>2. \A p \in Slots : sent'[p] = IF p = q THEN m ELSE sent[p]
  BY <1>1
<1>3. ASSUME NEW p \in Slots, sent'[p] # None
      PROVE  RequestOK(sent'[p], server'.cases)
  <2>1. CASE p = q
    BY <1>2, <1>3, <2>1
  <2>2. CASE p # q
    <3>1. sent'[p] = sent[p] /\ RequestOK(sent[p], server.cases)
      BY <1>1, <1>2, <1>3, <2>2 DEF RequestsOK
    <3> QED BY <1>1, <3>1, RequestStays
  <2> QED BY <2>1, <2>2
<1> QED BY <1>1, <1>2, <1>3 DEF RequestsOK

-----------------------------------------------------------------------------
(* What the user does at once. *)

\* What the user does at once leaves the requests and the shown cases alone.
LEMMA UserInv ==
    ASSUME WsInv, UNCHANGED <<sent, server>>, TypeOK', shown'.cases = shown.cases,
           shown'.submitted \subseteq shown.submitted, sync' = "settled" \/ sync' = sync
    PROVE  WsInv'
<1>1. server'.cases \in StoredCases /\ Grown(server.cases, server'.cases) /\ Numbered'
  BY NothingStored
<1>2. ShownWasStored'
  BY <1>1, ShownStays
<1>3. SyncingEnds'
  BY DEF WsInv, SyncingEnds
<1>4. RequestsOK'
  BY DEF WsInv, RequestsOK
<1> QED BY <1>1, <1>2, <1>3, <1>4 DEF WsInv

\* What is selected is among the records it is selected from.
LEMMA PicksTyped ==
    ASSUME NEW records \in SUBSET Records, NEW batches \in SUBSET (Batches \cap records),
           NEW p \in Picks(records, batches)
    PROVE  /\ p \in [batch: Batches \cup {None}, unit: Units \cup {None}]
           /\ {p.batch, p.unit} \subseteq records \cup {None}
<1>1. PICK b \in FirstOf(batches) : \E u \in FirstOf(UnitsIn(records, b)) : p = [batch |-> b, unit |-> u]
  BY DEF Picks
<1>2. PICK u \in FirstOf(UnitsIn(records, b)) : p = [batch |-> b, unit |-> u]
  BY <1>1
<1>3. b \in (Batches \cap records) \cup {None} /\ u \in (Units \cap records) \cup {None}
  BY <1>1, <1>2 DEF FirstOf, UnitsIn
<1> QED BY <1>2, <1>3

\* The session is changed.
LEMMA SelectSessionInv ==
    ASSUME WsInv, NEW s \in Sessions, SelectSession(s) PROVE WsInv'
<1>1. PICK batches : batches = BatchesOf(shown.records, s)
  OBVIOUS
<1>2. session' = s /\ picked' \in Picks(shown.records, batches) /\ UNCHANGED <<shown, queue, online, sync, sent, server>>
  BY <1>1 DEF SelectSession
<1>3. batches \in SUBSET (Batches \cap shown.records)
  BY <1>1 DEF BatchesOf
<1>4. TypeOK'
  BY <1>2, <1>3, PicksTyped, WsTyped DEF WsInv, TypeOK
<1> QED BY <1>2, <1>4, UserInv

\* A batch is selected.
LEMMA SelectBatchInv ==
    ASSUME WsInv, NEW b \in Batches, SelectBatch(b) PROVE WsInv'
<1>1. /\ b \in shown.records /\ picked' \in Picks(shown.records, {b})
      /\ UNCHANGED <<session, shown, queue, online, sync, sent, server>>
  BY DEF SelectBatch, BatchesOf
<1>2. {b} \in SUBSET (Batches \cap shown.records)
  BY <1>1
<1>3. TypeOK'
  BY <1>1, <1>2, PicksTyped, WsTyped DEF WsInv, TypeOK
<1> QED BY <1>1, <1>3, UserInv

\* A unit is selected.
LEMMA SelectAssetInv ==
    ASSUME WsInv, NEW u \in Units, SelectAsset(u) PROVE WsInv'
<1>1. /\ u \in shown.records /\ picked' = [picked EXCEPT !.unit = u]
      /\ UNCHANGED <<session, shown, queue, online, sync, sent, server>>
  BY DEF SelectAsset, UnitsIn
<1>2. picked' = [batch |-> picked.batch, unit |-> u]
  BY <1>1, WsTyped
<1>3. TypeOK'
  BY <1>1, <1>2, WsTyped DEF WsInv, TypeOK
<1> QED BY <1>1, <1>3, UserInv

\* A batch is entered.
LEMMA CreateBatchInv ==
    ASSUME WsInv, NEW b \in Batches, CreateBatch(b) PROVE WsInv'
<1>1. /\ shown' = [shown EXCEPT !.records = @ \cup {b}, !.submitted = @ \ {b}]
      /\ picked' = [batch |-> b, unit |-> None] /\ queue' = queue \cup {b} /\ sync' = "settled"
      /\ UNCHANGED <<session, online, sent, server>>
  BY DEF CreateBatch, Queue
<1>2. shown' = [records |-> shown.records \cup {b}, submitted |-> shown.submitted \ {b}, cases |-> shown.cases]
  BY <1>1, WsTyped
<1>3. b \in Records
  BY DEF Records
<1>4. TypeOK'
  BY <1>1, <1>2, <1>3, WsTyped DEF WsInv, TypeOK
<1>5. shown'.cases = shown.cases /\ shown'.submitted \subseteq shown.submitted
  BY <1>2
<1> QED BY <1>1, <1>4, <1>5, UserInv

\* Units are entered.
LEMMA AddUnitsInv ==
    ASSUME WsInv, NEW units \in SUBSET Units, AddUnits(units) PROVE WsInv'
<1>1. /\ shown' = [shown EXCEPT !.records = @ \cup units] /\ queue' = queue \cup units /\ sync' = "settled"
      /\ \E u \in units : picked' = [picked EXCEPT !.unit = u]
      /\ UNCHANGED <<session, online, sent, server>>
  BY DEF AddUnits, Queue
<1>2. PICK u \in units : picked' = [picked EXCEPT !.unit = u]
  BY <1>1
<1>3. shown' = [records |-> shown.records \cup units, submitted |-> shown.submitted, cases |-> shown.cases]
  BY <1>1, WsTyped
<1>4. picked' = [batch |-> picked.batch, unit |-> u]
  BY <1>2, WsTyped
<1>5. units \subseteq Records
  BY DEF Records
<1>6. TypeOK'
  <2>1. shown' \in [records: SUBSET Records, submitted: SUBSET Batches, cases: Cases]
    BY <1>3, <1>5, WsTyped
  <2>2. picked' \in [batch: Batches \cup {None}, unit: Units \cup {None}]
    BY <1>2, <1>4, WsTyped
  <2>3. {picked'.batch, picked'.unit} \subseteq shown'.records \cup {None}
    BY <1>2, <1>3, <1>4, WsTyped
  <2>4. queue' \subseteq Records /\ sync' \in {"syncing", "settled"}
    BY <1>1, <1>5, WsTyped
  <2> QED BY <1>1, <2>1, <2>2, <2>3, <2>4 DEF WsInv, TypeOK
<1>7. shown'.cases = shown.cases /\ shown'.submitted \subseteq shown.submitted
  BY <1>3
<1> QED BY <1>1, <1>6, <1>7, UserInv

\* A unit is edited.
LEMMA UpdateInv ==
    ASSUME WsInv, UpdateSelectedAsset PROVE WsInv'
<1>1. /\ picked.unit \in shown.records /\ queue' = queue \cup {picked.unit} /\ sync' = "settled"
      /\ UNCHANGED <<session, picked, shown, online, sent, server>>
  BY DEF UpdateSelectedAsset, Queue, Own
<1>2. TypeOK'
  BY <1>1, WsTyped DEF WsInv, TypeOK
<1> QED BY <1>1, <1>2, UserInv

\* A batch is validated.
LEMMA ValidateInv ==
    ASSUME WsInv, ValidateSelectedBatch PROVE WsInv'
<1>1. /\ shown' = [shown EXCEPT !.submitted = @ \ {picked.batch}]
      /\ UNCHANGED <<session, picked, queue, online, sync, sent, server>>
  BY DEF ValidateSelectedBatch
<1>2. shown' = [records |-> shown.records, submitted |-> shown.submitted \ {picked.batch}, cases |-> shown.cases]
  BY <1>1, WsTyped
<1>3. TypeOK'
  BY <1>1, <1>2, WsTyped DEF WsInv, TypeOK
<1>4. shown'.cases = shown.cases /\ shown'.submitted \subseteq shown.submitted
  BY <1>2
<1> QED BY <1>1, <1>3, <1>4, UserInv

\* The tab goes offline, or comes back.
LEMMA OnlineInv ==
    ASSUME WsInv, SetOnline PROVE WsInv'
<1>1. online' = ~online /\ sync' = "settled" /\ UNCHANGED <<session, picked, shown, queue, sent, server>>
  BY DEF SetOnline
<1>2. TypeOK'
  BY <1>1, WsTyped DEF WsInv, TypeOK
<1> QED BY <1>1, <1>2, UserInv

-----------------------------------------------------------------------------
(* Requests. *)

Kinds == Reviews \cup Syncing \cup Lot

\* What a request leaves to the tab and the server.
LEMMA AskInv ==
    ASSUME WsInv, NEW q \in Slots, NEW kind \in Kinds, NEW target \in Records \cup {None},
           NEW stage \in {"saving", "sent"}, NEW records \in SUBSET Records,
           Ask(q, kind, target, stage, records),
           kind \in Reviews => target \in Units /\ shown.cases[target] # None,
           kind = "submit" => target \in Batches, kind = "csv" => records = {},
           stage = "saving" => kind = "flush",
           UNCHANGED <<session, picked, shown, queue, online, server>>,
           sync' = sync \/ (sync' = "syncing" /\ kind \in Syncing)
    PROVE  WsInv'
<1>1. PICK known : known = IF kind \in Reviews \cup {"submit"} THEN shown.cases ELSE NoCases
  OBVIOUS
<1>2. PICK m : m = [kind |-> kind, session |-> session, target |-> target, stage |-> stage,
                    records |-> records, cases |-> NoCases, kept |-> known]
  OBVIOUS
<1>3. sent[q] = None /\ sent' = [sent EXCEPT ![q] = m]
  BY <1>1, <1>2 DEF Ask
<1>4. NoCases \in Cases /\ known \in Cases /\ \A u \in Units : NoCases[u] = None
  BY <1>1, WsTyped DEF NoCases, Cases
<1>5. m \in Request
  BY <1>2, <1>4, WsTyped DEF Request, Kinds
<1>6. server'.cases \in StoredCases /\ Grown(server.cases, server'.cases) /\ Numbered' /\ server' = server
  BY NothingStored
<1>7. \A u \in Units : shown.cases[u] # None => shown.cases[u] \in Range(server.cases[u])
  BY DEF WsInv, ShownWasStored
<1>8. \A u \in Units : known[u] # None => known[u] \in Range(server.cases[u])
  BY <1>1, <1>4, <1>7
<1>9. kind \in Reviews => target \in Units /\ server.cases[target] # <<>>
  <2>1. ASSUME kind \in Reviews, server.cases[target] = <<>>
        PROVE  FALSE
    <3>1. shown.cases[target] \in Range(server.cases[target])
      BY <1>7, <2>1
    <3>2. Range(<<>>) = {}
      BY DEF Range
    <3> QED BY <2>1, <3>1, <3>2
  <2> QED BY <2>1
<1>10. RequestOK(m, server'.cases)
  BY <1>2, <1>4, <1>5, <1>6, <1>8, <1>9 DEF RequestOK
<1>11. RequestsOK' /\ sent' \in [Slots -> Request \cup {None}] /\ sent'[q] = m /\ m # None
       /\ \A p \in Slots \ {q} : sent'[p] = sent[p]
  BY <1>3, <1>5, <1>6, <1>10, SlotInv, NoneAssumption
<1>12. SyncingEnds'
  BY <1>2, <1>3, <1>11 DEF WsInv, SyncingEnds
<1>13. ShownWasStored'
  BY <1>6, ShownStays
<1>14. TypeOK'
  BY <1>11, WsTyped DEF WsInv, TypeOK
<1> QED BY <1>6, <1>11, <1>12, <1>13, <1>14 DEF WsInv

\* Requests for lots, files, submission, the queue and the session.
LEMMA SendInv ==
    ASSUME WsInv, NEW q \in Slots,
           \/ CreateLot(q) \/ ImportCsvFile(q) \/ SubmitSelectedBatch(q) \/ FlushSyncQueue(q) \/ HydrateSession(q)
    PROVE  WsInv'
<1>1. picked.batch \in shown.records => picked.batch \in Batches /\ picked.batch \in Records
  BY WsTyped, NoneAssumption
<1>2. {"lot", "csv", "submit", "flush", "hydrate"} \subseteq Kinds /\ {"lot", "csv", "submit", "flush", "hydrate"} \cap Reviews = {}
  BY DEF Kinds, Reviews, Syncing, Lot
<1>3. CASE CreateLot(q)
  <2>1. Ask(q, "lot", None, "sent", {}) /\ UNCHANGED <<session, picked, shown, queue, online, sync, server>>
    BY <1>3 DEF CreateLot, tabVars
  <2> QED BY <1>2, <2>1, AskInv
<1>4. CASE ImportCsvFile(q)
  <2>1. /\ Ask(q, "csv", picked.batch, "sent", {}) /\ sync' = "syncing" /\ picked.batch \in shown.records
        /\ UNCHANGED <<session, picked, shown, queue, online, server>>
    BY <1>4 DEF ImportCsvFile, Own
  <2> QED BY <1>1, <1>2, <2>1, AskInv DEF Syncing
<1>5. CASE SubmitSelectedBatch(q)
  <2>1. /\ Ask(q, "submit", picked.batch, "sent", {}) /\ sync' = "syncing" /\ picked.batch \in shown.records
        /\ UNCHANGED <<session, picked, shown, queue, online, server>>
    BY <1>5 DEF SubmitSelectedBatch, Own
  <2> QED BY <1>1, <1>2, <2>1, AskInv DEF Syncing
<1>6. CASE FlushSyncQueue(q)
  <2>1. Ask(q, "flush", None, "saving", queue) /\ UNCHANGED <<session, picked, shown, queue, online, sync, server>>
    BY <1>6 DEF FlushSyncQueue, tabVars
  <2> QED BY <1>2, <2>1, WsTyped, AskInv
<1>7. CASE HydrateSession(q)
  <2>1. /\ Ask(q, "hydrate", None, "sent", {}) /\ sync' = "syncing"
        /\ UNCHANGED <<session, picked, shown, queue, online, server>>
    BY <1>7 DEF HydrateSession
  <2> QED BY <1>2, <2>1, AskInv DEF Syncing
<1> QED BY <1>3, <1>4, <1>5, <1>6, <1>7

\* Requests of a review.
LEMMA SendReviewInv ==
    ASSUME WsInv, NEW q \in Slots, NEW u \in Units,
           \/ ReviewAction(q, u) \/ LifecycleAction(q, u)
           \/ RequestCorrection(q, u) \/ ResolveCorrection(q, u) \/ RejectCorrection(q, u)
    PROVE  WsInv'
<1>1. ASSUME NEW kind \in Reviews, NEW permissions, NEW offered, AskReview(q, kind, u, permissions, offered)
      PROVE  WsInv'
  <2>1. /\ shown.cases[u] # None /\ Ask(q, kind, u, "sent", {})
        /\ UNCHANGED <<session, picked, shown, queue, online, sync, server>>
    BY <1>1 DEF AskReview, tabVars
  <2>2. u \in Records /\ kind \in Kinds /\ kind \notin {"csv", "submit"}
    BY DEF Records, Kinds, Reviews
  <2> QED BY <2>1, <2>2, AskInv
<1>2. {"decision", "lifecycle", "request", "resolve", "reject"} \subseteq Reviews
  BY DEF Reviews
<1> QED BY <1>1, <1>2 DEF ReviewAction, LifecycleAction, RequestCorrection, ResolveCorrection, RejectCorrection

-----------------------------------------------------------------------------
(* The routes. *)

\* An answer: what is stored has grown, and the cases it names are stored and not older than
\* those the request knows.
Gives(q, stage, records, cases) ==
    /\ sent[q] # None /\ UNCHANGED tabVars
    /\ sent' = [sent EXCEPT ![q] = [@ EXCEPT !.stage = stage, !.records = records, !.cases = cases]]
    /\ server' \in [records: SUBSET Records, cases: StoredCases] /\ Grown(server.cases, server'.cases) /\ Numbered'
    /\ sent[q].kind = "csv" => records \subseteq Units
    /\ stage = "listing" => sent[q].kind = "submit"
    /\ sent[q].kind = "submit" => \E u \in Units : BatchOf[u] = sent[q].target /\ server'.cases[u] # <<>>
    /\ \A u \in Units : cases[u] # None =>
          /\ cases[u] \in Range(server'.cases[u])
          /\ sent[q].kept[u] # None => sent[q].kept[u].stored <= cases[u].stored

\* The invariant after an answer that gives what it must.
LEMMA AnswerInv ==
    ASSUME WsInv, NEW q \in Slots, NEW stage \in {"listing", "answered"}, NEW records \in SUBSET Records,
           NEW cases \in Cases, Gives(q, stage, records, cases)
    PROVE  WsInv'
<1>0. /\ sent[q] # None /\ UNCHANGED tabVars
      /\ sent' = [sent EXCEPT ![q] = [@ EXCEPT !.stage = stage, !.records = records, !.cases = cases]]
      /\ server' \in [records: SUBSET Records, cases: StoredCases] /\ Grown(server.cases, server'.cases) /\ Numbered'
      /\ sent[q].kind = "csv" => records \subseteq Units
      /\ stage = "listing" => sent[q].kind = "submit"
      /\ sent[q].kind = "submit" => \E u \in Units : BatchOf[u] = sent[q].target /\ server'.cases[u] # <<>>
      /\ \A u \in Units : cases[u] # None =>
            /\ cases[u] \in Range(server'.cases[u])
            /\ sent[q].kept[u] # None => sent[q].kept[u].stored <= cases[u].stored
  BY DEF Gives
<1>1. PICK m, n : m = sent[q] /\ n = [m EXCEPT !.stage = stage, !.records = records, !.cases = cases]
  OBVIOUS
<1>2. m \in Request /\ RequestOK(m, server.cases)
  BY <1>0, <1>1, WsTyped DEF WsInv, RequestsOK
<1>3. n = [kind |-> m.kind, session |-> m.session, target |-> m.target, stage |-> stage,
           records |-> records, cases |-> cases, kept |-> m.kept]
  BY <1>1, <1>2 DEF Request
<1>4. n \in Request
  BY <1>2, <1>3 DEF Request
<1>5. server.cases \in StoredCases /\ server'.cases \in StoredCases
  BY <1>0, WsTyped
<1>6. RequestOK(m, server'.cases)
  BY <1>0, <1>2, <1>5, RequestStays
<1>7. RequestOK(n, server'.cases)
  BY <1>0, <1>1, <1>3, <1>4, <1>6 DEF RequestOK
<1>8. /\ RequestsOK' /\ sent' \in [Slots -> Request \cup {None}] /\ sent'[q] = n
      /\ \A p \in Slots \ {q} : sent'[p] = sent[p]
  <2>1. sent' = [sent EXCEPT ![q] = n]
    BY <1>0, <1>1
  <2> QED BY <1>0, <1>4, <1>5, <1>7, <2>1, SlotInv
<1>9. ShownWasStored'
  BY <1>0, <1>5, ShownStays DEF tabVars
<1>10. SyncingEnds'
  <2>1. n # None /\ n.kind = m.kind
    BY <1>3, <1>4, NoneAssumption
  <2> QED BY <1>0, <1>1, <1>8, <2>1 DEF WsInv, SyncingEnds, tabVars
<1>11. TypeOK'
  BY <1>0, <1>8, WsTyped DEF WsInv, TypeOK, tabVars, StoredCases
<1> QED BY <1>0, <1>8, <1>9, <1>10, <1>11 DEF WsInv

\* No cases are cases.
LEMMA NoCasesOK == NoCases \in Cases /\ \A u \in Units : NoCases[u] = None
BY DEF NoCases, Cases

\* A case stored after another.
LEMMA Stores ==
    ASSUME NEW old \in StoredCases, NEW new \in StoredCases,
           \A u \in Units : \/ new[u] = old[u]
                            \/ \E c \in Case : new[u] = Append(old[u], c) /\ c.stored = Len(old[u]) + 1,
           \A u \in Units : \A i \in 1..Len(old[u]) : old[u][i].stored = i
    PROVE  Grown(old, new) /\ \A u \in Units : \A i \in 1..Len(new[u]) : new[u][i].stored = i
<1>1. ASSUME NEW u \in Units
      PROVE  /\ Len(old[u]) <= Len(new[u]) /\ \A i \in 1..Len(old[u]) : new[u][i] = old[u][i]
             /\ \A i \in 1..Len(new[u]) : new[u][i].stored = i
  <2>1. PICK s, t : s = old[u] /\ t = new[u]
    OBVIOUS
  <2>2. s \in Seq(Case) /\ Len(s) \in Nat /\ \A i \in 1..Len(s) : s[i].stored = i
    BY <2>1 DEF StoredCases
  <2>3. CASE t = s
    BY <2>1, <2>2, <2>3
  <2>4. CASE \E c \in Case : t = Append(s, c) /\ c.stored = Len(s) + 1
    <3>1. PICK c \in Case : t = Append(s, c) /\ c.stored = Len(s) + 1
      BY <2>4
    <3>2. Len(t) = Len(s) + 1 /\ t[Len(s) + 1] = c /\ \A i \in 1..Len(s) : t[i] = s[i]
      BY <2>2, <3>1
    <3>3. \A i \in 1..Len(t) : i \in 1..Len(s) \/ i = Len(s) + 1
      BY <2>2, <3>2
    <3> QED BY <2>1, <2>2, <3>1, <3>2, <3>3
  <2> QED BY <2>1, <2>3, <2>4
<1> QED BY <1>1 DEF Grown

\* What is known of a stored case by its number.
LEMMA LatestStored ==
    ASSUME WsInv, NEW u \in Units
    PROVE  /\ server.cases[u] \in Seq(Case)
           /\ server.cases[u] = <<>> => Latest(u) = None
           /\ server.cases[u] # <<>> => /\ Latest(u) \in Case /\ Latest(u).stored = Len(server.cases[u])
                                        /\ Latest(u) \in Range(server.cases[u]) /\ Latest(u) # None
           /\ \A c \in Range(server.cases[u]) : c.stored \in Nat /\ c.stored <= Len(server.cases[u])
<1>1. PICK s : s = server.cases[u]
  OBVIOUS
<1>2. s \in Seq(Case) /\ Len(s) \in Nat /\ \A i \in 1..Len(s) : s[i].stored = i
  BY <1>1, WsTyped DEF WsInv, Numbered, StoredCases
<1>3. ASSUME s # <<>>
      PROVE  /\ Latest(u) \in Case /\ Latest(u).stored = Len(s)
             /\ Latest(u) \in Range(s) /\ Latest(u) # None
  <2>1. Latest(u) = s[Len(s)]
    BY <1>1, <1>3 DEF Latest, Last
  <2>2. Len(s) \in 1..Len(s) /\ Len(s) \in DOMAIN s
    BY <1>2, <1>3
  <2>3. s[Len(s)] \in Case
    BY <1>2, <2>2
  <2> QED BY <1>2, <2>1, <2>2, <2>3, NoneAssumption DEF Range
<1>4. ASSUME NEW c \in Range(s)
      PROVE  c.stored \in Nat /\ c.stored <= Len(s)
  <2>1. PICK i \in 1..Len(s) : c = s[i]
    BY <1>2 DEF Range
  <2> QED BY <1>2, <2>1
<1> QED BY <1>1, <1>2, <1>3, <1>4 DEF Latest

\* What a step of a route knows of its request.
LEMMA Asked ==
    ASSUME WsInv, NEW q \in Slots, sent[q] # None
    PROVE  /\ sent[q] \in Request /\ RequestOK(sent[q], server.cases)
           /\ sent[q].records \in SUBSET Records /\ sent[q].cases \in Cases /\ sent[q].kept \in Cases
BY WsTyped DEF WsInv, RequestsOK, Request

\* The server registers records and stores no case.
LEMMA SameCases ==
    ASSUME WsInv, NEW records \in SUBSET Records, server' = [server EXCEPT !.records = @ \cup records]
    PROVE  /\ server' \in [records: SUBSET Records, cases: StoredCases]
           /\ Grown(server.cases, server'.cases) /\ Numbered' /\ server'.cases = server.cases
<1>1. server' = [records |-> server.records \cup records, cases |-> server.cases]
  BY WsTyped
<1>2. server'.cases = server.cases
  BY <1>1
<1>3. server'.records \in SUBSET Records
  BY <1>1, WsTyped
<1>4. Grown(server.cases, server'.cases) /\ Numbered'
  <2>1. \A u \in Units : server.cases[u] \in Seq(Case) /\ Len(server.cases[u]) \in Nat
    BY WsTyped DEF StoredCases
  <2> QED BY <1>2, <2>1 DEF Grown, WsInv, Numbered
<1> QED BY <1>1, <1>2, <1>3, <1>4, WsTyped

\* A lot is created.
LEMMA ServeLotInv ==
    ASSUME WsInv, NEW q \in Slots, ServeLot(q) PROVE WsInv'
<1>1. sent[q] # None /\ sent[q].kind = "lot" /\ sent' = Answered(q, {}, NoCases) /\ UNCHANGED <<tabVars, server>>
  BY DEF ServeLot, Arrived, Lot
<1>2. server' \in [records: SUBSET Records, cases: StoredCases] /\ Grown(server.cases, server'.cases) /\ Numbered'
  BY <1>1, NothingStored, WsTyped DEF WsInv, TypeOK, StoredCases
<1>8. sent' = [sent EXCEPT ![q] = [@ EXCEPT !.stage = "answered", !.records = {}, !.cases = NoCases]]
  <2>1. sent' = Answered(q, {}, NoCases)
    BY <1>1
  <2> QED BY <2>1 DEF Answered, WsInv, TypeOK
<1>9. Gives(q, "answered", {}, NoCases)
  BY <1>1, <1>2, <1>8, NoCasesOK DEF Gives
<1> QED BY <1>9, NoCasesOK, AnswerInv

\* A file is imported.
LEMMA ServeCsvInv ==
    ASSUME WsInv, NEW q \in Slots, NEW units \in SUBSET Units, ServeCsv(q, units) PROVE WsInv'
<1>1. /\ sent[q] # None /\ sent[q].kind = "csv" /\ sent' = Answered(q, units, NoCases) /\ UNCHANGED tabVars
      /\ server' = [server EXCEPT !.records = @ \cup units]
  BY DEF ServeCsv, Arrived
<1>2. units \in SUBSET Records
  BY DEF Records
<1>3. server' \in [records: SUBSET Records, cases: StoredCases] /\ Grown(server.cases, server'.cases) /\ Numbered'
  BY <1>1, <1>2, SameCases
<1>8. sent' = [sent EXCEPT ![q] = [@ EXCEPT !.stage = "answered", !.records = units, !.cases = NoCases]]
  <2>1. sent' = Answered(q, units, NoCases)
    BY <1>1
  <2> QED BY <2>1 DEF Answered, WsInv, TypeOK
<1>9. Gives(q, "answered", units, NoCases)
  BY <1>1, <1>3, <1>8, NoCasesOK DEF Gives
<1> QED BY <1>2, <1>9, NoCasesOK, AnswerInv

\* The queued operations are decided.
LEMMA ServeFlushInv ==
    ASSUME WsInv, NEW q \in Slots, ServeFlush(q) PROVE WsInv'
<1>1. PICK applied \in SUBSET sent[q].records : server' = [server EXCEPT !.records = @ \cup applied]
  BY DEF ServeFlush
<1>2. PICK records : records = sent[q].records
  OBVIOUS
<1>3. sent[q] # None /\ sent[q].kind = "flush" /\ sent' = Answered(q, records, NoCases) /\ UNCHANGED tabVars
  BY <1>2 DEF ServeFlush, Arrived
<1>4. applied \in SUBSET Records /\ records \in SUBSET Records
  BY <1>1, <1>2, <1>3, Asked
<1>5. server' \in [records: SUBSET Records, cases: StoredCases] /\ Grown(server.cases, server'.cases) /\ Numbered'
  BY <1>1, <1>4, SameCases
<1>8. sent' = [sent EXCEPT ![q] = [@ EXCEPT !.stage = "answered", !.records = records, !.cases = NoCases]]
  <2>1. sent' = Answered(q, records, NoCases)
    BY <1>3
  <2> QED BY <2>1 DEF Answered, WsInv, TypeOK
<1>9. Gives(q, "answered", records, NoCases)
  BY <1>3, <1>5, <1>8, NoCasesOK DEF Gives
<1> QED BY <1>4, <1>9, NoCasesOK, AnswerInv

\* The cases of the attested units are stored anew.
LEMMA ServeSubmitInv ==
    ASSUME WsInv, NEW q \in Slots, ServeSubmit(q) PROVE WsInv'
<1>1. PICK attested : attested = UnitsIn(server.records, sent[q].target)
  OBVIOUS
<1>2. PICK new : new = [u \in Units |-> IF u \in attested THEN Append(server.cases[u], Reset(u)) ELSE server.cases[u]]
  OBVIOUS
<1>3. /\ sent[q] # None /\ sent[q].kind = "submit" /\ attested # {} /\ UNCHANGED tabVars
      /\ server' = [server EXCEPT !.cases = new] /\ sent' = [sent EXCEPT ![q].stage = "listing"]
  BY <1>1, <1>2 DEF ServeSubmit, Arrived
<1>4. ASSUME NEW u \in Units
      PROVE  Reset(u) \in Case /\ Reset(u).stored = Len(server.cases[u]) + 1
  <2>1. CASE server.cases[u] = <<>>
    <3>1. Reset(u) = NewCase /\ Len(server.cases[u]) = 0
      BY <2>1, LatestStored DEF Reset
    <3> QED BY <3>1 DEF NewCase, Case, Lifecycles
  <2>2. CASE server.cases[u] # <<>>
    <3>1. PICK c : c = Latest(u)
      OBVIOUS
    <3>2. c \in Case /\ c.stored = Len(server.cases[u]) /\ c # None
      BY <2>2, <3>1, LatestStored
    <3>3. Reset(u) = [stored |-> c.stored + 1, correction |-> c.correction, lifecycle |-> "active"]
      BY <3>1, <3>2 DEF Reset, Again, Case
    <3> QED BY <3>2, <3>3 DEF Case, Lifecycles
  <2> QED BY <2>1, <2>2
<1>5. new \in StoredCases
  <2>1. \A u \in Units : server.cases[u] \in Seq(Case) /\ Append(server.cases[u], Reset(u)) \in Seq(Case)
    BY <1>4, LatestStored
  <2> QED BY <1>2, <2>1 DEF StoredCases
<1>6. server' = [records |-> server.records, cases |-> new] /\ server.cases \in StoredCases
  BY <1>3, WsTyped
<1>7. \A u \in Units : \/ new[u] = server.cases[u]
                       \/ \E c \in Case : new[u] = Append(server.cases[u], c) /\ c.stored = Len(server.cases[u]) + 1
  BY <1>2, <1>4
<1>8. /\ Grown(server.cases, new)
      /\ \A u \in Units : \A i \in 1..Len(new[u]) : new[u][i].stored = i
  BY <1>5, <1>6, <1>7, Stores DEF WsInv, Numbered
<1>9. server' \in [records: SUBSET Records, cases: StoredCases] /\ Grown(server.cases, server'.cases) /\ Numbered'
      /\ server'.cases = new
  BY <1>5, <1>6, <1>8, WsTyped DEF Numbered
<1>10. \E u \in Units : BatchOf[u] = sent[q].target /\ new[u] # <<>>
  <2>1. PICK u \in attested : TRUE
    BY <1>3
  <2>2. u \in Units /\ BatchOf[u] = sent[q].target
    BY <1>1, <2>1 DEF UnitsIn
  <2>3. new[u] = Append(server.cases[u], Reset(u)) /\ server.cases[u] \in Seq(Case)
    BY <1>2, <2>1, <2>2, LatestStored
  <2>4. new[u] # <<>>
    BY <2>2, <2>3, <1>4
  <2> QED BY <2>2, <2>4
<1>11. PICK m, records, cases : m = sent[q] /\ records = m.records /\ cases = m.cases
  OBVIOUS
<1>12. m \in Request /\ RequestOK(m, server.cases) /\ records \in SUBSET Records /\ cases \in Cases
  BY <1>3, <1>11, Asked
<1>13. sent' = [sent EXCEPT ![q] = [@ EXCEPT !.stage = "listing", !.records = records, !.cases = cases]]
  <2>1. [m EXCEPT !.stage = "listing"] = [m EXCEPT !.stage = "listing", !.records = records, !.cases = cases]
    BY <1>11, <1>12 DEF Request
  <2> QED BY <1>3, <1>11, <2>1
<1>14. RequestOK(m, new)
  BY <1>5, <1>6, <1>8, <1>12, RequestStays
<1>15. \A u \in Units : cases[u] # None =>
          /\ cases[u] \in Range(new[u])
          /\ m.kept[u] # None => m.kept[u].stored <= cases[u].stored
  BY <1>11, <1>14 DEF RequestOK
<1>16. Gives(q, "listing", records, cases)
  BY <1>3, <1>9, <1>10, <1>11, <1>13, <1>15 DEF Gives
<1> QED BY <1>12, <1>16, AnswerInv

\* The cases that are listed are the latest of each unit; those the tab had are put back otherwise.
LEMMA ListCasesInv ==
    ASSUME WsInv, NEW q \in Slots, ListCases(q) PROVE WsInv'
<1>1. PICK m : m = sent[q]
  OBVIOUS
<1>2. /\ m # None /\ m.stage = "listing" /\ UNCHANGED <<tabVars, server>>
      /\ \/ sent' = Answered(q, {}, [u \in Units |-> IF Owner(u) = TenantOf[m.session] THEN Latest(u) ELSE None])
         \/ sent' = Answered(q, {}, m.kept)
  BY <1>1 DEF ListCases, CapturedCases
<1>3. m \in Request /\ RequestOK(m, server.cases) /\ m.kept \in Cases
  BY <1>1, <1>2, Asked
<1>4. server' \in [records: SUBSET Records, cases: StoredCases] /\ Grown(server.cases, server'.cases) /\ Numbered'
      /\ server' = server
  BY <1>2, NothingStored, WsTyped DEF WsInv, TypeOK, StoredCases
<1>5. PICK cases : /\ sent' = Answered(q, {}, cases) /\ cases \in Cases
                   /\ \A u \in Units : cases[u] \in {None, Latest(u), m.kept[u]}
  <2>1. CASE sent' = Answered(q, {}, m.kept)
    BY <1>3, <2>1
  <2>2. CASE sent' = Answered(q, {}, [u \in Units |-> IF Owner(u) = TenantOf[m.session] THEN Latest(u) ELSE None])
    <3>1. PICK cases : cases = [u \in Units |-> IF Owner(u) = TenantOf[m.session] THEN Latest(u) ELSE None]
      OBVIOUS
    <3>2. \A u \in Units : Latest(u) \in Case \cup {None}
      BY LatestStored
    <3>3. cases \in Cases /\ \A u \in Units : cases[u] \in {None, Latest(u)}
      BY <3>1, <3>2 DEF Cases
    <3> QED BY <2>2, <3>1, <3>3
  <2> QED BY <1>2, <2>1, <2>2
<1>6. ASSUME NEW u \in Units, cases[u] # None
      PROVE  /\ cases[u] \in Range(server'.cases[u])
             /\ m.kept[u] # None => m.kept[u].stored <= cases[u].stored
  <2>1. CASE cases[u] = m.kept[u]
    <3>1. m.kept[u] \in Range(server.cases[u])
      BY <1>3, <1>6, <2>1 DEF RequestOK
    <3>2. m.kept[u].stored \in Nat
      BY <3>1, LatestStored
    <3> QED BY <1>4, <2>1, <3>1, <3>2
  <2>2. CASE cases[u] = Latest(u)
    <3>1. server.cases[u] # <<>>
      BY <1>6, <2>2, LatestStored
    <3>2. Latest(u) \in Range(server.cases[u]) /\ Latest(u).stored = Len(server.cases[u])
      BY <3>1, LatestStored
    <3>3. m.kept[u] # None => m.kept[u].stored <= Len(server.cases[u])
      BY <1>3, LatestStored DEF RequestOK
    <3> QED BY <1>4, <2>2, <3>2, <3>3
  <2> QED BY <1>5, <1>6, <2>1, <2>2
<1>7. m.kind \in {"csv", "submit"} => m.kind = "submit" /\ \E u \in Units : BatchOf[u] = m.target /\ server.cases[u] # <<>>
  BY <1>2, <1>3 DEF RequestOK
<1>8. sent' = [sent EXCEPT ![q] = [@ EXCEPT !.stage = "answered", !.records = {}, !.cases = cases]]
  BY <1>5 DEF Answered, WsInv, TypeOK
<1>9. Gives(q, "answered", {}, cases)
  BY <1>1, <1>2, <1>4, <1>6, <1>7, <1>8 DEF Gives
<1> QED BY <1>5, <1>9, AnswerInv

\* What a review makes of a case has the next number.
LEMMA OutcomesStored ==
    ASSUME NEW c \in Case, NEW kind \in Reviews, NEW d \in Outcomes(kind, c)
    PROVE  d \in Case /\ d.stored = c.stored + 1
<1>1. PICK n : n = c.stored + 1
  OBVIOUS
<1>2. c.stored \in Nat /\ n \in Nat \ {0} /\ Again(c) = [stored |-> n, correction |-> c.correction, lifecycle |-> c.lifecycle]
  BY <1>1 DEF Again, Case
<1>3. PICK a : a = Again(c)
  OBVIOUS
<1>4. /\ a \in Case /\ a.stored = n
      /\ \A to \in Lifecycles : [a EXCEPT !.lifecycle = to] \in Case /\ [a EXCEPT !.lifecycle = to].stored = n
      /\ \A to \in Lifecycles : /\ [a EXCEPT !.correction = "open", !.lifecycle = to] \in Case
                                /\ [a EXCEPT !.correction = "open", !.lifecycle = to].stored = n
      /\ \A to \in Lifecycles : /\ [a EXCEPT !.correction = "closed", !.lifecycle = to] \in Case
                                /\ [a EXCEPT !.correction = "closed", !.lifecycle = to].stored = n
      /\ [a EXCEPT !.correction = "closed"] \in Case /\ [a EXCEPT !.correction = "closed"].stored = n
  <2>1. a \in Case /\ a.stored = n
    BY <1>2, <1>3 DEF Case
  <2>2. ASSUME NEW to \in Lifecycles
        PROVE  [a EXCEPT !.lifecycle = to] \in Case /\ [a EXCEPT !.lifecycle = to].stored = n
    BY <2>1 DEF Case
  <2>3. ASSUME NEW to \in Lifecycles
        PROVE  /\ [a EXCEPT !.correction = "open", !.lifecycle = to] \in Case
               /\ [a EXCEPT !.correction = "open", !.lifecycle = to].stored = n
    BY <2>1 DEF Case
  <2>4. ASSUME NEW to \in Lifecycles
        PROVE  /\ [a EXCEPT !.correction = "closed", !.lifecycle = to] \in Case
               /\ [a EXCEPT !.correction = "closed", !.lifecycle = to].stored = n
    BY <2>1 DEF Case
  <2>5. [a EXCEPT !.correction = "closed"] \in Case /\ [a EXCEPT !.correction = "closed"].stored = n
    BY <2>1 DEF Case
  <2> QED BY <2>1, <2>2, <2>3, <2>4, <2>5
<1>5. c.lifecycle \in Lifecycles /\ {"active", "suspended"} \subseteq Lifecycles
  BY DEF Case, Lifecycles
<1>6. CASE kind = "decision"
  BY <1>1, <1>3, <1>4, <1>6 DEF Outcomes
<1>7. CASE kind = "lifecycle"
  <2>1. d \in Transitioned(c)
    BY <1>7 DEF Outcomes
  <2>2. PICK to \in Lifecycles : d = [a EXCEPT !.lifecycle = to]
    BY <1>3, <2>1 DEF Transitioned
  <2> QED BY <1>1, <1>4, <2>2
<1>8. CASE kind = "request"
  <2>1. d \in Requested(c)
    BY <1>8 DEF Outcomes
  <2>2. PICK to \in Lifecycles : d = [a EXCEPT !.correction = "open", !.lifecycle = to]
    BY <1>3, <1>5, <2>1 DEF Requested
  <2> QED BY <1>1, <1>4, <2>2
<1>9. CASE kind = "resolve"
  <2>1. d \in Resolved(c)
    BY <1>9 DEF Outcomes
  <2>2. d = [a EXCEPT !.correction = "closed", !.lifecycle = "active"]
    BY <1>3, <2>1 DEF Resolved
  <2> QED BY <1>1, <1>4, <1>5, <2>2
<1>10. CASE kind = "reject"
  <2>1. d \in Rejected(c)
    BY <1>10 DEF Outcomes
  <2>2. d = [a EXCEPT !.correction = "closed"]
    BY <1>3, <2>1 DEF Rejected
  <2> QED BY <1>1, <1>4, <2>2
<1> QED BY <1>6, <1>7, <1>8, <1>9, <1>10 DEF Reviews

\* A review stores the next state of its case.
LEMMA ServeReviewInv ==
    ASSUME WsInv, NEW q \in Slots, ServeReview(q) PROVE WsInv'
<1>1. PICK m, u : m = sent[q] /\ u = m.target
  OBVIOUS
<1>2. /\ m # None /\ m.kind \in Reviews /\ UNCHANGED tabVars
      /\ \E c \in Outcomes(m.kind, Latest(u)) :
            /\ server' = [server EXCEPT !.cases[u] = Append(@, c)]
            /\ sent' = Answered(q, {}, [NoCases EXCEPT ![u] = c])
  BY <1>1 DEF ServeReview, Arrived
<1>3. PICK c \in Outcomes(m.kind, Latest(u)) :
            /\ server' = [server EXCEPT !.cases[u] = Append(@, c)]
            /\ sent' = Answered(q, {}, [NoCases EXCEPT ![u] = c])
  BY <1>2
<1>4. m \in Request /\ RequestOK(m, server.cases) /\ u \in Units /\ server.cases[u] # <<>>
  BY <1>1, <1>2, Asked DEF RequestOK
<1>5. Latest(u) \in Case /\ Latest(u).stored = Len(server.cases[u]) /\ server.cases[u] \in Seq(Case)
  BY <1>4, LatestStored
<1>6. c \in Case /\ c.stored = Len(server.cases[u]) + 1 /\ c # None
  BY <1>2, <1>3, <1>5, OutcomesStored, NoneAssumption
<1>7. PICK s, new : s = Append(server.cases[u], c) /\ new = [server.cases EXCEPT ![u] = s]
  OBVIOUS
<1>8. s \in Seq(Case) /\ Len(s) = Len(server.cases[u]) + 1 /\ s[Len(s)] = c /\ Len(s) \in DOMAIN s
  BY <1>5, <1>6, <1>7
<1>9. server' = [records |-> server.records, cases |-> new] /\ server.cases \in StoredCases
  BY <1>3, <1>7, WsTyped
<1>10. new \in StoredCases /\ new[u] = s /\ \A v \in Units : v # u => new[v] = server.cases[v]
  BY <1>4, <1>7, <1>8, <1>9 DEF StoredCases
<1>11. \A v \in Units : \/ new[v] = server.cases[v]
                        \/ \E d \in Case : new[v] = Append(server.cases[v], d) /\ d.stored = Len(server.cases[v]) + 1
  BY <1>6, <1>7, <1>10
<1>12. /\ Grown(server.cases, new)
       /\ \A v \in Units : \A i \in 1..Len(new[v]) : new[v][i].stored = i
  BY <1>9, <1>10, <1>11, Stores DEF WsInv, Numbered
<1>13. server' \in [records: SUBSET Records, cases: StoredCases] /\ Grown(server.cases, server'.cases) /\ Numbered'
       /\ server'.cases = new
  BY <1>9, <1>10, <1>12, WsTyped DEF Numbered
<1>14. PICK cases : cases = [NoCases EXCEPT ![u] = c]
  OBVIOUS
<1>15. cases \in Cases /\ cases[u] = c /\ \A v \in Units : v # u => cases[v] = None
  BY <1>4, <1>6, <1>14, NoCasesOK DEF Cases
<1>16. c \in Range(s)
  BY <1>8 DEF Range
<1>17. m.kept[u] # None => m.kept[u].stored <= c.stored
  <2>1. ASSUME m.kept[u] # None
        PROVE  m.kept[u].stored <= c.stored
    <3>1. m.kept[u] \in Range(server.cases[u])
      BY <1>4, <2>1 DEF RequestOK
    <3>2. m.kept[u].stored \in Nat /\ m.kept[u].stored <= Len(server.cases[u]) /\ Len(server.cases[u]) \in Nat
      BY <1>4, <1>5, <3>1, LatestStored
    <3> QED BY <1>6, <3>2
  <2> QED BY <2>1
<1>18. \A v \in Units : cases[v] # None =>
          /\ cases[v] \in Range(server'.cases[v])
          /\ m.kept[v] # None => m.kept[v].stored <= cases[v].stored
  BY <1>10, <1>13, <1>15, <1>16, <1>17
<1>19. sent' = [sent EXCEPT ![q] = [@ EXCEPT !.stage = "answered", !.records = {}, !.cases = cases]]
  BY <1>3, <1>14 DEF Answered, WsInv, TypeOK
<1>20. m.kind \notin {"csv", "submit"}
  BY <1>2 DEF Reviews
<1>21. Gives(q, "answered", {}, cases)
  BY <1>1, <1>2, <1>13, <1>18, <1>19, <1>20 DEF Gives
<1> QED BY <1>15, <1>21, AnswerInv

-----------------------------------------------------------------------------
(* Answers. *)

\* A request that has ended leaves its slot to the next.
LEMMA HeardIs ==
    ASSUME WsInv, NEW q \in Slots, sent' = Heard(q), UNCHANGED server
    PROVE  /\ RequestsOK' /\ sent' \in [Slots -> Request \cup {None}] /\ sent'[q] = None
           /\ \A p \in Slots \ {q} : sent'[p] = sent[p]
           /\ server'.cases \in StoredCases /\ Grown(server.cases, server'.cases) /\ Numbered'
<1>1. server'.cases \in StoredCases /\ Grown(server.cases, server'.cases) /\ Numbered'
  BY NothingStored
<1>2. sent' = [sent EXCEPT ![q] = None]
  BY DEF Heard
<1>3. PICK m : m = None
  OBVIOUS
<1>4. m \in Request \cup {None} /\ sent' = [sent EXCEPT ![q] = m] /\ (m # None => RequestOK(m, server'.cases))
  BY <1>2, <1>3
<1> QED BY <1>1, <1>3, <1>4, SlotInv

\* An answer that ends a request.
LEMMA HearInv ==
    ASSUME WsInv, NEW q \in Slots, sent' = Heard(q), UNCHANGED server, TypeOK', ShownWasStored',
           sync' = "settled" \/ (sync' = sync /\ sent[q].kind \notin Syncing)
    PROVE  WsInv'
<1>1. RequestsOK' /\ Numbered' /\ \A p \in Slots \ {q} : sent'[p] = sent[p]
  BY HeardIs
<1>2. SyncingEnds'
  <2>1. CASE sync' = "settled"
    BY <2>1 DEF SyncingEnds
  <2>2. CASE sync' = sync /\ sent[q].kind \notin Syncing
    BY <1>1, <2>2 DEF WsInv, SyncingEnds
  <2> QED BY <2>1, <2>2
<1> QED BY <1>1, <1>2 DEF WsInv

\* One that leaves what is shown.
LEMMA HearNothingInv ==
    ASSUME WsInv, NEW q \in Slots, sent' = Heard(q), UNCHANGED <<session, picked, shown, queue, online, server>>,
           sync' = "settled" \/ (sync' = sync /\ sent[q].kind \notin Syncing)
    PROVE  WsInv'
<1>1. sent' \in [Slots -> Request \cup {None}] /\ server'.cases \in StoredCases /\ Grown(server.cases, server'.cases)
  BY HeardIs
<1>2. TypeOK'
  BY <1>1, WsTyped DEF WsInv, TypeOK
<1>3. ShownWasStored'
  BY <1>1, ShownStays
<1> QED BY <1>2, <1>3, HearInv

\* A lot is listed.
LEMMA HearLotInv ==
    ASSUME WsInv, NEW q \in Slots, HearLot(q) PROVE WsInv'
<1>1. sent[q].kind = "lot" /\ sent' = Heard(q) /\ UNCHANGED <<session, picked, shown, queue, online, sync, server>>
  BY DEF HearLot, Awaits, Lot, tabVars
<1> QED BY <1>1, HearNothingInv DEF Syncing

\* Imported units are shown.
LEMMA HearCsvInv ==
    ASSUME WsInv, NEW q \in Slots, HearCsv(q) PROVE WsInv'
<1>1. PICK units : units = sent[q].records
  OBVIOUS
<1>2. /\ sent[q] # None /\ sent[q].kind = "csv" /\ sent' = Heard(q) /\ sync' = "settled"
      /\ shown' = [shown EXCEPT !.records = @ \cup units]
      /\ \E u \in units : picked' = [picked EXCEPT !.unit = u]
      /\ UNCHANGED <<session, queue, online, server>>
  BY <1>1 DEF HearCsv, Awaits, Imported
<1>3. units \subseteq Units /\ units \subseteq Records
  BY <1>1, <1>2, Asked DEF RequestOK, Records
<1>4. PICK u \in units : picked' = [picked EXCEPT !.unit = u]
  BY <1>2
<1>5. shown' = [records |-> shown.records \cup units, submitted |-> shown.submitted, cases |-> shown.cases]
  BY <1>2, WsTyped
<1>6. picked' = [batch |-> picked.batch, unit |-> u]
  BY <1>4, WsTyped
<1>7. sent' \in [Slots -> Request \cup {None}] /\ server'.cases \in StoredCases /\ Grown(server.cases, server'.cases)
  BY <1>2, HeardIs
<1>8. TypeOK'
  <2>1. shown' \in [records: SUBSET Records, submitted: SUBSET Batches, cases: Cases]
    BY <1>3, <1>5, WsTyped
  <2>2. picked' \in [batch: Batches \cup {None}, unit: Units \cup {None}]
    BY <1>3, <1>4, <1>6, WsTyped
  <2>3. {picked'.batch, picked'.unit} \subseteq shown'.records \cup {None}
    BY <1>4, <1>5, <1>6, WsTyped
  <2> QED BY <1>2, <1>7, <2>1, <2>2, <2>3 DEF WsInv, TypeOK
<1>9. shown'.cases = shown.cases /\ shown'.submitted \subseteq shown.submitted
  BY <1>5
<1>10. ShownWasStored'
  BY <1>7, <1>9, ShownStays
<1> QED BY <1>2, <1>8, <1>10, HearInv

\* The cases of a submission are shown.
LEMMA HearSubmitInv ==
    ASSUME WsInv, NEW q \in Slots, HearSubmit(q) PROVE WsInv'
<1>1. PICK m : m = sent[q]
  OBVIOUS
<1>2. /\ m # None /\ m.kind = "submit" /\ m.stage = "answered" /\ sent' = Heard(q) /\ sync' = "settled"
      /\ shown' = [shown EXCEPT !.submitted = @ \cup {m.target}, !.cases = m.cases]
      /\ UNCHANGED <<session, picked, queue, online, server>>
  BY <1>1 DEF HearSubmit, Awaits
<1>3. RequestOK(m, server.cases) /\ m.cases \in Cases /\ m.target \in Batches
  BY <1>1, <1>2, Asked DEF RequestOK
<1>4. shown' = [records |-> shown.records, submitted |-> shown.submitted \cup {m.target}, cases |-> m.cases]
  BY <1>2, WsTyped
<1>5. sent' \in [Slots -> Request \cup {None}]
  BY <1>2, HeardIs
<1>6. TypeOK'
  <2>1. shown' \in [records: SUBSET Records, submitted: SUBSET Batches, cases: Cases]
    BY <1>3, <1>4, WsTyped
  <2>2. {picked'.batch, picked'.unit} \subseteq shown'.records \cup {None}
    BY <1>2, <1>4, WsTyped
  <2> QED BY <1>2, <1>5, <2>1, <2>2 DEF WsInv, TypeOK
<1>7. ShownWasStored'
  <2>1. ASSUME NEW u \in Units, shown'.cases[u] # None
        PROVE  shown'.cases[u] \in Range(server'.cases[u])
    BY <1>2, <1>3, <1>4, <2>1 DEF RequestOK
  <2>2. ASSUME NEW b \in shown'.submitted
        PROVE  \E u \in Units : BatchOf[u] = b /\ server'.cases[u] # <<>>
    <3>1. b \in shown.submitted \/ b = m.target
      BY <1>4
    <3> QED BY <1>2, <1>3, <3>1 DEF RequestOK, WsInv, ShownWasStored
  <2> QED BY <2>1, <2>2 DEF ShownWasStored
<1> QED BY <1>2, <1>6, <1>7, HearInv

\* What was sent leaves the queue.
LEMMA HearFlushInv ==
    ASSUME WsInv, NEW q \in Slots, HearFlush(q) PROVE WsInv'
<1>1. /\ sent' = Heard(q) /\ sync' = "settled" /\ queue' = queue \ sent[q].records
      /\ UNCHANGED <<session, picked, shown, online, server>>
  BY DEF HearFlush
<1>2. sent' \in [Slots -> Request \cup {None}] /\ server'.cases \in StoredCases /\ Grown(server.cases, server'.cases)
  BY <1>1, HeardIs
<1>3. TypeOK'
  BY <1>1, <1>2, WsTyped DEF WsInv, TypeOK
<1>4. ShownWasStored'
  BY <1>1, <1>2, ShownStays
<1> QED BY <1>1, <1>3, <1>4, HearInv

\* The answer's case takes the place of the shown one.
LEMMA HearReviewIs ==
    ASSUME WsInv, NEW q \in Slots, NEW kind \in Reviews, HearReview(q, kind)
    PROVE  /\ sent[q] # None /\ sent[q].kind = kind /\ RequestOK(sent[q], server.cases) /\ sent[q].target \in Units
           /\ sent' = Heard(q) /\ UNCHANGED <<session, picked, queue, online, sync, server>>
           /\ shown'.records = shown.records /\ shown'.submitted = shown.submitted /\ shown'.cases \in Cases
           /\ shown' \in [records: SUBSET Records, submitted: SUBSET Batches, cases: Cases]
           /\ \A u \in Units : \/ shown'.cases[u] = shown.cases[u]
                               \/ u = sent[q].target /\ shown'.cases[u] = sent[q].cases[u]
<1>1. PICK m, u : m = sent[q] /\ u = m.target
  OBVIOUS
<1>2. /\ m # None /\ m.kind = kind /\ sent' = Heard(q)
      /\ shown' = [shown EXCEPT !.cases[u] = IF @ = None THEN @ ELSE m.cases[u]]
      /\ UNCHANGED <<session, picked, queue, online, sync, server>>
  BY <1>1 DEF HearReview, Awaits, InPlace
<1>3. RequestOK(m, server.cases) /\ m.cases \in Cases /\ u \in Units
  BY <1>1, <1>2, Asked DEF RequestOK
<1>4. PICK c, cases : /\ c = IF shown.cases[u] = None THEN shown.cases[u] ELSE m.cases[u]
                      /\ cases = [shown.cases EXCEPT ![u] = c]
  OBVIOUS
<1>5. shown' = [records |-> shown.records, submitted |-> shown.submitted, cases |-> cases]
  BY <1>2, <1>4, WsTyped
<1>6. /\ cases \in Cases /\ cases[u] = c /\ \A v \in Units : v # u => cases[v] = shown.cases[v]
  BY <1>3, <1>4, WsTyped DEF Cases
<1> QED BY <1>1, <1>2, <1>3, <1>4, <1>5, <1>6, WsTyped

\* The case of a review is shown.
LEMMA HearReviewInv ==
    ASSUME WsInv, NEW q \in Slots, NEW kind \in Reviews, HearReview(q, kind) PROVE WsInv'
<1>1. /\ sent[q] # None /\ sent[q].kind = kind /\ RequestOK(sent[q], server.cases) /\ sent[q].target \in Units
      /\ sent' = Heard(q) /\ UNCHANGED <<session, picked, queue, online, sync, server>>
      /\ shown'.records = shown.records /\ shown'.submitted = shown.submitted /\ shown'.cases \in Cases
      /\ shown' \in [records: SUBSET Records, submitted: SUBSET Batches, cases: Cases]
      /\ \A u \in Units : \/ shown'.cases[u] = shown.cases[u]
                          \/ u = sent[q].target /\ shown'.cases[u] = sent[q].cases[u]
  BY HearReviewIs
<1>2. sent' \in [Slots -> Request \cup {None}]
  BY <1>1, HeardIs
<1>3. TypeOK'
  BY <1>1, <1>2, WsTyped DEF WsInv, TypeOK
<1>4. ShownWasStored'
  <2>1. ASSUME NEW u \in Units, shown'.cases[u] # None
        PROVE  shown'.cases[u] \in Range(server'.cases[u])
    <3>1. CASE shown'.cases[u] = shown.cases[u]
      BY <1>1, <2>1, <3>1 DEF WsInv, ShownWasStored
    <3>2. CASE shown'.cases[u] = sent[q].cases[u]
      BY <1>1, <2>1, <3>2 DEF RequestOK
    <3> QED BY <1>1, <3>1, <3>2
  <2> QED BY <1>1, <2>1 DEF WsInv, ShownWasStored
<1>5. sent[q].kind \notin Syncing
  BY <1>1 DEF Reviews, Syncing
<1> QED BY <1>1, <1>3, <1>4, <1>5, HearInv

\* A request fails.
LEMMA HearFailureInv ==
    ASSUME WsInv, NEW q \in Slots, HearFailure(q) PROVE WsInv'
<1>1. /\ sent' = Heard(q) /\ UNCHANGED <<session, picked, shown, queue, online, server>>
      /\ sync' = IF sent[q].kind \in Syncing THEN "settled" ELSE sync
  BY DEF HearFailure, Settled
<1> QED BY <1>1, HearNothingInv

\* A request of another kind takes the place of one answered, or one is sent once its snapshot is saved.
LEMMA ReplaceInv ==
    ASSUME WsInv, NEW q \in Slots, NEW m, RequestOK(m, server.cases), m.kind \in Syncing,
           sent' = [sent EXCEPT ![q] = m], sync' = "syncing",
           UNCHANGED <<session, picked, shown, queue, online, server>>
    PROVE  WsInv'
<1>1. server'.cases \in StoredCases /\ Grown(server.cases, server'.cases) /\ Numbered' /\ server' = server
  BY NothingStored
<1>2. m \in Request /\ m # None
  BY NoneAssumption DEF RequestOK
<1>3. RequestsOK' /\ sent' \in [Slots -> Request \cup {None}] /\ sent'[q] = m
  BY <1>1, <1>2, SlotInv
<1>4. SyncingEnds'
  BY <1>2, <1>3 DEF SyncingEnds
<1>5. ShownWasStored'
  BY <1>1, ShownStays
<1>6. TypeOK'
  BY <1>3, WsTyped DEF WsInv, TypeOK
<1> QED BY <1>1, <1>3, <1>4, <1>5, <1>6 DEF WsInv

\* After a resolved correction the session is loaded again.
LEMMA HearResolveInv ==
    ASSUME WsInv, NEW q \in Slots, HearResolve(q) PROVE WsInv'
<1>1. PICK m : m = sent[q]
  OBVIOUS
<1>2. /\ m # None /\ m.kind = "resolve" /\ sync' = "syncing"
      /\ sent' = [sent EXCEPT ![q] = [@ EXCEPT !.kind = "hydrate", !.session = session, !.target = None,
                                               !.stage = "sent", !.cases = NoCases, !.kept = NoCases]]
      /\ UNCHANGED <<session, picked, shown, queue, online, server>>
  BY <1>1 DEF HearResolve, Awaits
<1>3. m \in Request
  BY <1>1, <1>2, Asked
<1>4. PICK n : n = [kind |-> "hydrate", session |-> session, target |-> None, stage |-> "sent",
                    records |-> m.records, cases |-> NoCases, kept |-> NoCases]
  OBVIOUS
<1>5. sent' = [sent EXCEPT ![q] = n]
  <2>1. PICK k : k = [m EXCEPT !.kind = "hydrate", !.session = session, !.target = None]
    OBVIOUS
  <2>2. k = [kind |-> "hydrate", session |-> session, target |-> None, stage |-> m.stage,
             records |-> m.records, cases |-> m.cases, kept |-> m.kept]
    BY <1>3, <2>1 DEF Request
  <2>3. k \in Request
    BY <1>3, <2>2, WsTyped DEF Request, Syncing
  <2>4. PICK j : j = [k EXCEPT !.stage = "sent"]
    OBVIOUS
  <2>5. j = [kind |-> k.kind, session |-> k.session, target |-> k.target, stage |-> "sent",
             records |-> k.records, cases |-> k.cases, kept |-> k.kept]
    BY <2>3, <2>4 DEF Request
  <2>6. PICK i : i = [j EXCEPT !.cases = NoCases]
    OBVIOUS
  <2>7. i = [kind |-> k.kind, session |-> k.session, target |-> k.target, stage |-> "sent",
             records |-> k.records, cases |-> NoCases, kept |-> k.kept]
    BY <2>5, <2>6
  <2>8. [i EXCEPT !.kept = NoCases] = n
    BY <1>4, <2>2, <2>7
  <2>9. [m EXCEPT !.kind = "hydrate", !.session = session, !.target = None,
                  !.stage = "sent", !.cases = NoCases, !.kept = NoCases] = [i EXCEPT !.kept = NoCases]
    BY <2>1, <2>4, <2>6
  <2> QED BY <1>1, <1>2, <2>8, <2>9 DEF WsInv, TypeOK
<1>6. n \in Request /\ n.kind = "hydrate" /\ n.stage = "sent" /\ n.kept = NoCases /\ n.cases = NoCases
  BY <1>3, <1>4, NoCasesOK, WsTyped DEF Request, Syncing
<1>7. RequestOK(n, server.cases) /\ n.kind \in Syncing
  BY <1>6, NoCasesOK DEF RequestOK, Reviews, Syncing
<1> QED BY <1>2, <1>5, <1>7, ReplaceInv

\* The queue is sent once its snapshot is saved, if there is anything in it.
LEMMA SnapshotSavedInv ==
    ASSUME WsInv, NEW q \in Slots, SnapshotSaved(q) PROVE WsInv'
<1>1. PICK m : m = sent[q]
  OBVIOUS
<1>2. m # None /\ m.stage = "saving" /\ UNCHANGED <<session, picked, shown, queue, online, server>>
  BY <1>1 DEF SnapshotSaved
<1>3. m \in Request /\ RequestOK(m, server.cases)
  BY <1>1, <1>2, Asked
<1>4. CASE sent' = [sent EXCEPT ![q] = None] /\ sync' = "settled"
  BY <1>2, <1>4, HearNothingInv DEF Heard
<1>5. CASE sent' = [sent EXCEPT ![q].stage = "sent"] /\ sync' = "syncing"
  <2>1. PICK n : n = [m EXCEPT !.stage = "sent"]
    OBVIOUS
  <2>2. sent' = [sent EXCEPT ![q] = n]
    BY <1>1, <1>5, <2>1 DEF WsInv, TypeOK
  <2>3. n = [kind |-> m.kind, session |-> m.session, target |-> m.target, stage |-> "sent",
             records |-> m.records, cases |-> m.cases, kept |-> m.kept]
    BY <1>3, <2>1 DEF Request
  <2>4. n \in Request
    BY <1>3, <2>3 DEF Request
  <2>5. RequestOK(n, server.cases)
    BY <1>3, <2>3, <2>4 DEF RequestOK
  <2>6. m.kind \in Syncing
    BY <1>2, <1>3 DEF RequestOK, Syncing
  <2> QED BY <1>2, <1>5, <2>2, <2>3, <2>5, <2>6, ReplaceInv
<1> QED BY <1>1, <1>4, <1>5 DEF SnapshotSaved

-----------------------------------------------------------------------------

\* Tab and server start from one data set.
LEMMA InitInv == Init => WsInv
<1> SUFFICES ASSUME Init PROVE WsInv
  OBVIOUS
<1>1. PICK shownCases, stored : /\ shownCases = [u \in Units |-> IF u \in Built THEN NewCase ELSE None]
                                /\ stored = [u \in Units |-> IF u \in Built THEN <<NewCase>> ELSE <<>>]
  OBVIOUS
<1>2. /\ session \in Sessions /\ picked \in Picks(Built, BatchesOf(Built, session))
      /\ shown = [records |-> Built, submitted |-> {}, cases |-> shownCases]
      /\ queue = {} /\ online = TRUE /\ sync = "settled"
      /\ sent = [q \in Slots |-> None] /\ server = [records |-> Built, cases |-> stored]
  BY <1>1 DEF Init
<1>3. NewCase \in Case /\ NewCase.stored = 1
  BY DEF NewCase, Case, Lifecycles
<1>4. Built \in SUBSET Records /\ BatchesOf(Built, session) \in SUBSET (Batches \cap Built)
  BY WorkspaceAssumption DEF BatchesOf
<1>5. /\ picked \in [batch: Batches \cup {None}, unit: Units \cup {None}]
      /\ {picked.batch, picked.unit} \subseteq Built \cup {None}
  <2>1. PICK batches : batches = BatchesOf(Built, session)
    OBVIOUS
  <2> QED BY <1>2, <1>4, <2>1, PicksTyped
<1>6. shownCases \in Cases /\ stored \in StoredCases
  BY <1>1, <1>3 DEF Cases, StoredCases
<1>7. TypeOK
  BY <1>2, <1>4, <1>5, <1>6 DEF TypeOK, StoredCases
<1>8. ASSUME NEW u \in Units, shownCases[u] # None
      PROVE  shownCases[u] \in Range(stored[u])
  <2>1. shownCases[u] = NewCase /\ stored[u] = <<NewCase>>
    BY <1>1, <1>8
  <2>2. NewCase \in Range(<<NewCase>>)
    BY DEF Range
  <2> QED BY <2>1, <2>2
<1>9. ShownWasStored
  BY <1>2, <1>8 DEF ShownWasStored
<1>10. Numbered
  <2>1. \A u \in Units : stored[u] = <<>> \/ stored[u] = <<NewCase>>
    BY <1>1
  <2>2. \A i \in 1..Len(<<NewCase>>) : i = 1 /\ <<NewCase>>[i] = NewCase
    OBVIOUS
  <2>3. \A i \in 1..Len(<<>>) : FALSE
    OBVIOUS
  <2> QED BY <1>2, <1>3, <2>1, <2>2, <2>3 DEF Numbered
<1>11. SyncingEnds /\ RequestsOK
  BY <1>2 DEF SyncingEnds, RequestsOK
<1> QED BY <1>7, <1>9, <1>10, <1>11 DEF WsInv

\* Every step keeps the invariant.
LEMMA NextInv == ASSUME WsInv, [Next]_vars PROVE WsInv'
<1>1. CASE UserAct
  BY <1>1, SelectSessionInv, SelectBatchInv, CreateBatchInv, SelectAssetInv, AddUnitsInv, UpdateInv, ValidateInv,
     OnlineInv DEF UserAct
<1>2. CASE Send
  BY <1>2, SendInv, SendReviewInv DEF Send
<1>3. CASE Serve
  BY <1>3, ServeLotInv, ServeFlushInv, ServeSubmitInv, ListCasesInv, ServeReviewInv, ServeCsvInv DEF Serve
<1>4. CASE Hear
  <2>1. \A q \in Slots : HearDecision(q) \/ HearLifecycle(q) \/ HearRequested(q) \/ HearRejected(q) => WsInv'
    <3>1. {"decision", "lifecycle", "request", "reject"} \subseteq Reviews
      BY DEF Reviews
    <3> QED BY <3>1, HearReviewInv DEF HearDecision, HearLifecycle, HearRequested, HearRejected
  <2> QED BY <1>4, <2>1, SnapshotSavedInv, HearLotInv, HearCsvInv, HearSubmitInv, HearFlushInv, HearResolveInv,
             HearFailureInv DEF Hear
<1>5. CASE UNCHANGED vars
  <2>1. /\ UNCHANGED <<session, picked, shown, queue, online, sync, sent, server>>
    BY <1>5 DEF vars
  <2>2. TypeOK'
    BY <2>1 DEF WsInv, TypeOK
  <2> QED BY <2>1, <2>2, UserInv
<1> QED BY <1>1, <1>2, <1>3, <1>4, <1>5 DEF Next

\* The invariant holds in every reachable state.
LEMMA WsInvariance == Spec => []WsInv
BY InitInv, NextInv, PTL DEF Spec

\* Every reachable state of the workspace is well typed, and the selection is among the records shown.
THEOREM TypesHold == Spec => []TypeOK
BY WsInvariance, PTL DEF WsInv

\* The button that sends the queue is not held back for good: while the indicator says
\* "syncing" a request is under way that settles it, however it ends (the catch branches of
\* hydrateSession, importCsvFile, submitSelectedBatch and flushSyncQueue).
THEOREM SyncingIsEnded == Spec => []SyncingEnds
BY WsInvariance, PTL DEF WsInv

\* A case the tab shows is one the server stored, whole, and a batch it shows as submitted has an
\* attested unit there, in whatever order answers arrive and whichever are lost (reviewAction,
\* submitSelectedBatch).
THEOREM ShownIsStored == Spec => []ShownWasStored
BY WsInvariance, PTL DEF WsInv

-----------------------------------------------------------------------------

\* A step that queues nothing and asks nothing.
Quiet ==
    /\ queue' \subseteq queue
    /\ \A q \in Slots : sent[q] = None /\ sent'[q] # None => sent'[q].target = None

OwnAct == /\ \A record \in queue' \ queue : Owner(record) = TenantOf[session]
          /\ \A q \in Slots : sent[q] = None /\ sent'[q] # None /\ sent'[q].target # None =>
                Owner(sent'[q].target) = TenantOf[session]

\* A request of a record of the session's tenant.
LEMMA AskOwn ==
    ASSUME WsInv, NEW q \in Slots, NEW kind, NEW target, NEW stage, NEW records,
           Ask(q, kind, target, stage, records), queue' = queue,
           target = None \/ Owner(target) = TenantOf[session]
    PROVE  OwnAct
<1>1. PICK m : /\ sent' = [sent EXCEPT ![q] = m] /\ m.target = target
  <2>1. PICK known : known = IF kind \in Reviews \cup {"submit"} THEN shown.cases ELSE NoCases
    OBVIOUS
  <2>2. PICK m : m = [kind |-> kind, session |-> session, target |-> target, stage |-> stage,
                      records |-> records, cases |-> NoCases, kept |-> known]
    OBVIOUS
  <2>3. sent' = [sent EXCEPT ![q] = m]
    BY <2>1, <2>2 DEF Ask
  <2>4. m.target = target
    BY <2>2
  <2> QED BY <2>3, <2>4
<1>2. \A p \in Slots : sent'[p] = IF p = q THEN m ELSE sent[p]
  BY <1>1 DEF WsInv, TypeOK
<1> QED BY <1>1, <1>2 DEF OwnAct

\* Steps of a slot that is taken.
LEMMA TakenOwn ==
    ASSUME WsInv, NEW q \in Slots, sent[q] # None, NEW m, sent' = [sent EXCEPT ![q] = m], queue' \subseteq queue
    PROVE  OwnAct
<1>1. \A p \in Slots : sent'[p] = IF p = q THEN m ELSE sent[p]
  BY DEF WsInv, TypeOK
<1> QED BY <1>1 DEF OwnAct

\* What the user enters is of the tenant of the session.
LEMMA UserOwn == ASSUME WsInv, UserAct PROVE OwnAct
<1>1. sent' = sent /\ \A record \in queue' \ queue : Owner(record) = TenantOf[session]
  <2>1. ASSUME NEW b \in Batches, CreateBatch(b)
        PROVE  sent' = sent /\ queue' = queue \cup {b} /\ Owner(b) = TenantOf[session]
    BY <2>1 DEF CreateBatch, Queue
  <2>2. ASSUME NEW units \in SUBSET Units, AddUnits(units)
        PROVE  sent' = sent /\ queue' = queue \cup units /\ \A u \in units : Owner(u) = TenantOf[session]
    <3>1. Owner(picked.batch) = TenantOf[session] /\ \A u \in units : BatchOf[u] = picked.batch
      BY <2>2 DEF AddUnits, Own
    <3>2. sent' = sent /\ queue' = queue \cup units
      BY <2>2 DEF AddUnits, Queue
    <3> QED BY <3>1, <3>2, WorkspaceAssumption
  <2>3. ASSUME UpdateSelectedAsset
        PROVE  sent' = sent /\ queue' = queue \cup {picked.unit} /\ Owner(picked.unit) = TenantOf[session]
    BY <2>3 DEF UpdateSelectedAsset, Queue, Own
  <2>4. ASSUME \/ \E s \in Sessions : SelectSession(s)
               \/ \E b \in Batches : SelectBatch(b)
               \/ \E u \in Units : SelectAsset(u)
               \/ ValidateSelectedBatch \/ SetOnline
        PROVE  UNCHANGED <<sent, queue>>
    BY <2>4 DEF SelectSession, SelectBatch, SelectAsset, ValidateSelectedBatch, SetOnline
  <2> QED BY <2>1, <2>2, <2>3, <2>4 DEF UserAct
<1> QED BY <1>1 DEF OwnAct

\* Requests are of records of the tenant of the session.
LEMMA SendOwn == ASSUME WsInv, Send PROVE OwnAct
<1> PICK q \in Slots :
       \/ CreateLot(q) \/ ImportCsvFile(q) \/ SubmitSelectedBatch(q) \/ FlushSyncQueue(q) \/ HydrateSession(q)
       \/ \E u \in Units :
             \/ ReviewAction(q, u) \/ LifecycleAction(q, u)
             \/ RequestCorrection(q, u) \/ ResolveCorrection(q, u) \/ RejectCorrection(q, u)
  BY DEF Send
<1>1. CASE CreateLot(q)
  BY <1>1, AskOwn DEF CreateLot, tabVars
<1>2. CASE ImportCsvFile(q)
  BY <1>2, AskOwn DEF ImportCsvFile, Own
<1>3. CASE SubmitSelectedBatch(q)
  BY <1>3, AskOwn DEF SubmitSelectedBatch, Own
<1>4. CASE FlushSyncQueue(q)
  BY <1>4, AskOwn DEF FlushSyncQueue, tabVars
<1>5. CASE HydrateSession(q)
  BY <1>5, AskOwn DEF HydrateSession
<1>6. ASSUME NEW kind, NEW u \in Units, NEW permissions, NEW offered, AskReview(q, kind, u, permissions, offered)
      PROVE  OwnAct
  BY <1>6, AskOwn DEF AskReview, Own, tabVars
<1> QED BY <1>1, <1>2, <1>3, <1>4, <1>5, <1>6 DEF ReviewAction, LifecycleAction, RequestCorrection,
           ResolveCorrection, RejectCorrection

\* The routes queue nothing and send no new request.
LEMMA ServeOwn == ASSUME WsInv, Serve PROVE OwnAct
<1> PICK q \in Slots :
       \/ ServeLot(q) \/ ServeFlush(q) \/ ServeSubmit(q) \/ ListCases(q) \/ ServeReview(q)
       \/ \E units \in SUBSET Units : ServeCsv(q, units)
  BY DEF Serve
<1>1. queue' = queue /\ sent[q] # None
  BY DEF ServeLot, ServeFlush, ServeSubmit, ListCases, ServeReview, ServeCsv, Arrived, tabVars
<1>2. \E m : sent' = [sent EXCEPT ![q] = m]
  BY DEF ServeLot, ServeFlush, ServeSubmit, ListCases, ServeReview, ServeCsv, Answered
<1> QED BY <1>1, <1>2, TakenOwn

\* Answers queue nothing and take up no free slot.
LEMMA HearOwn == ASSUME WsInv, Hear PROVE OwnAct
<1> PICK q \in Slots :
       \/ SnapshotSaved(q) \/ HearLot(q) \/ HearCsv(q) \/ HearSubmit(q) \/ HearFlush(q)
       \/ HearDecision(q) \/ HearLifecycle(q) \/ HearRequested(q) \/ HearResolve(q) \/ HearRejected(q)
       \/ HearFailure(q)
  BY DEF Hear
<1>1. queue' \subseteq queue /\ sent[q] # None
  BY DEF SnapshotSaved, HearLot, HearCsv, HearSubmit, HearFlush, HearDecision, HearLifecycle, HearRequested,
         HearResolve, HearRejected, HearReview, HearFailure, Awaits, tabVars
<1>2. \E m : sent' = [sent EXCEPT ![q] = m]
  BY DEF SnapshotSaved, HearLot, HearCsv, HearSubmit, HearFlush, HearDecision, HearLifecycle, HearRequested,
         HearResolve, HearRejected, HearReview, HearFailure, Heard
<1> QED BY <1>1, <1>2, TakenOwn

\* Nothing is asked and nothing queued of a record of another organization than the session's,
\* although late answers select units after the session was changed (the lookups by tenant in every
\* handler of useOperationsStore.ts).
THEOREM ActsWhereItMay == Spec => ActsOnOwnTenant
<1>1. WsInv /\ [Next]_vars => [OwnAct]_vars
  BY UserOwn, SendOwn, ServeOwn, HearOwn DEF Next
<1>2. Spec => [][OwnAct]_vars
  BY <1>1, WsInvariance, PTL DEF Spec
<1> QED BY <1>2 DEF ActsOnOwnTenant, OwnAct

-----------------------------------------------------------------------------

Newer ==
    \A q \in Slots : sent[q] # None /\ sent'[q] # sent[q] =>
       \A u \in Units : sent[q].kept[u] # None /\ shown'.cases[u] # None /\ shown'.cases[u] # shown.cases[u] =>
          shown'.cases[u].stored >= sent[q].kept[u].stored

\* Where no case changes nothing is shown older.
LEMMA SameShown == ASSUME shown'.cases = shown.cases PROVE Newer
BY DEF Newer

\* Of the cases of an answer none is older than those its request knew, and no other slot changes.
LEMMA AnswerNewer ==
    ASSUME WsInv, NEW q \in Slots, sent[q] # None, sent' = Heard(q),
           \A u \in Units : shown'.cases[u] \in {shown.cases[u], sent[q].cases[u]}
    PROVE  Newer
<1>1. RequestOK(sent[q], server.cases)
  BY Asked
<1>2. \A p \in Slots : p # q => sent'[p] = sent[p]
  BY DEF Heard, WsInv, TypeOK
<1>3. ASSUME NEW u \in Units, sent[q].kept[u] # None, shown'.cases[u] # None, shown'.cases[u] # shown.cases[u]
      PROVE  shown'.cases[u].stored >= sent[q].kept[u].stored
  <2>1. shown'.cases[u] = sent[q].cases[u]
    BY <1>3
  <2>2. /\ sent[q].kept[u] \in Range(server.cases[u]) /\ sent[q].cases[u] \in Range(server.cases[u])
        /\ sent[q].kept[u].stored <= sent[q].cases[u].stored
    BY <1>1, <1>3, <2>1 DEF RequestOK
  <2>3. sent[q].kept[u].stored \in Nat /\ sent[q].cases[u].stored \in Nat
    BY <2>2, LatestStored
  <2> QED BY <2>1, <2>2, <2>3
<1> QED BY <1>2, <1>3 DEF Newer

\* Only the answers to a submission and to a review change cases.
LEMMA HearNewer == ASSUME WsInv, Hear PROVE Newer
<1> PICK q \in Slots :
       \/ SnapshotSaved(q) \/ HearLot(q) \/ HearCsv(q) \/ HearSubmit(q) \/ HearFlush(q)
       \/ HearDecision(q) \/ HearLifecycle(q) \/ HearRequested(q) \/ HearResolve(q) \/ HearRejected(q)
       \/ HearFailure(q)
  BY DEF Hear
<1>1. CASE SnapshotSaved(q) \/ HearLot(q) \/ HearFlush(q) \/ HearResolve(q) \/ HearFailure(q)
  <2>1. shown' = shown
    BY <1>1 DEF SnapshotSaved, HearLot, HearFlush, HearResolve, HearFailure, tabVars
  <2> QED BY <2>1, SameShown
<1>2. CASE HearCsv(q)
  <2>1. PICK units : shown' = [shown EXCEPT !.records = @ \cup units]
    BY <1>2 DEF HearCsv
  <2>2. shown'.cases = shown.cases
    BY <2>1, WsTyped
  <2> QED BY <2>2, SameShown
<1>3. CASE HearSubmit(q)
  <2>1. PICK submitted, cases : /\ cases = sent[q].cases
                                /\ shown' = [shown EXCEPT !.submitted = submitted, !.cases = cases]
    BY <1>3 DEF HearSubmit
  <2>2. shown'.cases = sent[q].cases
    BY <2>1, WsTyped
  <2> QED BY <1>3, <2>2, AnswerNewer DEF HearSubmit, Awaits
<1>4. ASSUME NEW kind \in Reviews, HearReview(q, kind)
      PROVE  Newer
  <2>1. /\ sent[q] # None /\ sent' = Heard(q)
        /\ \A u \in Units : shown'.cases[u] = shown.cases[u] \/ shown'.cases[u] = sent[q].cases[u]
    BY <1>4, HearReviewIs
  <2> QED BY <2>1, AnswerNewer
<1>5. {"decision", "lifecycle", "request", "reject"} \subseteq Reviews
  BY DEF Reviews
<1> QED BY <1>1, <1>2, <1>3, <1>4, <1>5 DEF HearDecision, HearLifecycle, HearRequested, HearRejected

\* The user adds records and withdraws batches: of the cases nothing changes.
LEMMA UserNewer == ASSUME WsInv, UserAct PROVE Newer
<1>1. \/ shown' = shown
      \/ \E records : shown' = [shown EXCEPT !.records = records]
      \/ \E submitted : shown' = [shown EXCEPT !.submitted = submitted]
      \/ \E records, submitted : shown' = [shown EXCEPT !.records = records, !.submitted = submitted]
  <2>1. ASSUME NEW b \in Batches, CreateBatch(b)
        PROVE  \E records, submitted : shown' = [shown EXCEPT !.records = records, !.submitted = submitted]
    BY <2>1 DEF CreateBatch
  <2>2. ASSUME NEW units \in SUBSET Units, AddUnits(units)
        PROVE  \E records : shown' = [shown EXCEPT !.records = records]
    BY <2>2 DEF AddUnits
  <2>3. ASSUME ValidateSelectedBatch
        PROVE  \E submitted : shown' = [shown EXCEPT !.submitted = submitted]
    BY <2>3 DEF ValidateSelectedBatch
  <2>4. ASSUME \/ \E s \in Sessions : SelectSession(s)
               \/ \E b \in Batches : SelectBatch(b)
               \/ \E u \in Units : SelectAsset(u)
               \/ UpdateSelectedAsset \/ SetOnline
        PROVE  shown' = shown
    BY <2>4 DEF SelectSession, SelectBatch, SelectAsset, UpdateSelectedAsset, SetOnline
  <2> QED BY <2>1, <2>2, <2>3, <2>4 DEF UserAct
<1>2. shown'.cases = shown.cases
  BY <1>1, WsTyped
<1> QED BY <1>2, SameShown

\* Sending shows nothing.
LEMMA SendNewer == ASSUME WsInv, Send PROVE Newer
<1>1. shown' = shown
  BY DEF Send, CreateLot, ImportCsvFile, SubmitSelectedBatch, FlushSyncQueue, HydrateSession, ReviewAction,
         LifecycleAction, RequestCorrection, ResolveCorrection, RejectCorrection, AskReview, tabVars
<1> QED BY <1>1, SameShown

\* The routes show nothing.
LEMMA ServeNewer == ASSUME WsInv, Serve PROVE Newer
<1>1. shown' = shown
  BY DEF Serve, ServeLot, ServeFlush, ServeSubmit, ListCases, ServeReview, ServeCsv, tabVars
<1> QED BY <1>1, SameShown

\* No answer shows a case in an older state than the one shown when its request was made
\* (reviewAction and submitSelectedBatch put whole answers in place of what the tab shows).
THEOREM AnswersTakeNothingBack == Spec => NoOlderThanAsked
<1>1. WsInv /\ [Next]_vars => [Newer]_vars
  BY UserNewer, SendNewer, ServeNewer, HearNewer DEF Next
<1>2. Spec => [][Newer]_vars
  BY <1>1, WsInvariance, PTL DEF Spec
<1> QED BY <1>2 DEF NoOlderThanAsked, Newer

=============================================================================
