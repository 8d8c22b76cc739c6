------------------------------- MODULE Intake -------------------------------
(***************************************************************************)
(* The intake routes of the operations plane over the repository that      *)
(* keeps every tenant's records in the memory of one process and writes    *)
(* all of them to a file after each change.                                *)
(*                                                                         *)
(* A handler that takes a batch or a unit from the repository and then     *)
(* awaits its request body holds a copy (inflight); what it does after the *)
(* await is one step, unless a save fails or the process dies in it.  No   *)
(* write compares versions.  A batch and a unit are known by a digest of   *)
(* the tenant and the reference or serial they were created with: <<tenant, *)
(* name>> here, so that the other tenant's are other records.  A unit's    *)
(* serial can be edited, its identity cannot.                              *)
(*                                                                         *)
(* A tab's synchronized records are stored as they were sent: a unit names *)
(* the batch its payload names, whether there is one and whosesoever it    *)
(* is.  Such a record is marked as gone astray, which is history, not      *)
(* data.  Lots are named unchecked everywhere and looked up nowhere; that  *)
(* a unit may name one, too, is left out.                                  *)
(*                                                                         *)
(* What the attestor's submission finds wrong with a unit other than a     *)
(* serial used twice is a matter of the unit's data and left open, as are  *)
(* the fields and statuses a record carries besides its links.             *)
(***************************************************************************)
EXTENDS Naturals, Sequences, FiniteSets, SequencesExt

CONSTANTS
    Tenants,
    Sessions,
    TenantOf,      \* the tenant of a session
    Permissions,   \* the permissions of a session's role
    Batches,       \* identities of batches: <<tenant, reference>>
    Seeded,        \* the batches created before
    Units,         \* identities of units: <<tenant, serial first given>>
    Serials,       \* serials units are given and edited to
    Lots,          \* receipts of goods: <<tenant, time>>
    SentBatches,   \* bound: the links that synchronized batches are sent with
    SentUnits,     \* bound: the batch and serial that synchronized units are sent with
    Requests,      \* requests in flight
    MaxAttested,   \* bound: attestations of a batch
    MaxFaults,     \* bound: saves that fail and deaths of the process
    None

Owner(id) == id[1]
Att       == Batches \X (1..MaxAttested)
Records   == Batches \cup Units \cup Lots

ASSUME IntakeAssumption ==
    /\ TenantOf \in [Sessions -> Tenants]
    /\ Permissions \in [Sessions -> SUBSET STRING]
    /\ Batches \subseteq Tenants \X {b[2] : b \in Batches} /\ Seeded \subseteq Batches
    /\ Units \subseteq Tenants \X Serials
    /\ \A lot \in Lots : Owner(lot) \in Tenants
    \* An identity begins with the kind of its record.
    /\ Batches \cap Units = {} /\ Lots \cap (Batches \cup Units) = {} /\ IsFiniteSet(Units)
    /\ MaxAttested \in Nat /\ MaxFaults \in Nat

\* astray is history: when the record was stored, a payload named what was not there or another
\* tenant's.
Batch   == [listed: SUBSET Units, attested: 0..MaxAttested, lots: SUBSET Lots, astray: BOOLEAN]
Unit    == [batch: Batches, serial: Serials, astray: BOOLEAN]
Case    == [batch: Batches, version: 1..MaxAttested]
Links   == [listed: SUBSET Units, attested: 0..MaxAttested, lots: SUBSET Lots]
NoLinks == [listed |-> {}, attested |-> 0, lots |-> {}]

ASSUME PayloadAssumption == SentBatches \subseteq Links /\ SentUnits \subseteq [batch: Batches, serial: Serials]

VARIABLES
    data,      \* the records in memory
    disk,      \* the records in the file
    inflight,  \* per request, the copy its handler holds, or None
    acked,     \* history: what requests were told is stored
    faults     \* failed saves and deaths so far

vars == <<data, disk, inflight, acked, faults>>

Dataset == [batches: [Batches -> Batch \cup {None}], units: [Units -> Unit \cup {None}],
            attestations: [Att -> (SUBSET Units) \cup {None}], cases: [Units -> Case \cup {None}],
            lots: SUBSET Lots]
Request == [kind: {"import", "csv", "submit", "patch"}, session: Sessions,
            id: Batches \cup Units, copy: Batch \cup Unit]

ASSUME NoRecordAssumption ==
    None \notin Batch \cup Unit \cup Case \cup Request /\ \A units \in SUBSET Units : units # None

TypeOK ==
    /\ data \in Dataset /\ disk \in Dataset
    /\ inflight \in [Requests -> Request \cup {None}]
    /\ acked \in [stored: SUBSET Records, attested: SUBSET Att]
    /\ faults \in 0..MaxFaults

Attested(d, b) == {a \in Att : a[1] = b /\ d.attestations[a] # None}

Stored(d) == {b \in Batches : d.batches[b] # None} \cup {u \in Units : d.units[u] # None} \cup d.lots

Empty == [batches |-> [b \in Batches |-> None], units |-> [u \in Units |-> None],
          attestations |-> [a \in Att |-> None], cases |-> [u \in Units |-> None], lots |-> {}]

\* A batch with these links.
Holding(links, astray) ==
    [listed |-> links.listed, attested |-> links.attested, lots |-> links.lots, astray |-> astray]

\* The file a process starts from: batches have been created and nothing added to them.  The
\* records of the built-in data set are left out.
Init ==
    /\ data = [Empty EXCEPT !.batches = [b \in Batches |-> IF b \in Seeded THEN Holding(NoLinks, FALSE) ELSE None]]
    /\ disk = data
    /\ inflight = [q \in Requests |-> None]
    /\ acked = [stored |-> Stored(data), attested |-> {}] /\ faults = 0

-----------------------------------------------------------------------------
(* The repository.  A handler makes its writes in order, and each is saved   *)
(* before the next.                                                          *)

\* Mutant: the answer is given before the save.
AnsweredFirst(writes, told) ==
    /\ data' = Last(writes) /\ UNCHANGED <<disk, faults>>
    /\ acked' = [stored |-> acked.stored \cup told.stored, attested |-> acked.attested \cup told.attested]

Completed(writes, told) ==
    /\ data' = Last(writes) /\ disk' = Last(writes)
    /\ acked' = [stored |-> acked.stored \cup told.stored, attested |-> acked.attested \cup told.attested]
    /\ UNCHANGED faults

\* Memory is changed before the file: what could not be saved stays in memory, the rest of
\* the handler is not run and the request is answered with an error.
SaveFailed(writes) ==
    /\ faults < MaxFaults /\ faults' = faults + 1
    /\ \E k \in 1..Len(writes) :
          /\ data' = writes[k]
          /\ disk' = IF k = 1 THEN disk ELSE writes[k - 1]
    /\ UNCHANGED acked

\* The next process starts from the file.
Died(writes) ==
    /\ faults < MaxFaults /\ faults' = faults + 1
    /\ \E k \in 1..Len(writes) : data' = writes[k] /\ disk' = writes[k]
    /\ UNCHANGED acked

\* An answer that says these records are stored.
Told(ids) == [stored |-> ids, attested |-> {}]

AllIdle == [q \in Requests |-> None]

\* A handler makes its writes and leaves the requests as they are in rest.
Write(writes, told, rest) ==
    \/ Completed(writes, told) /\ inflight' = rest
    \/ SaveFailed(writes) /\ inflight' = rest
    \/ Died(writes) /\ inflight' = AllIdle

Restart ==
    /\ faults < MaxFaults /\ faults' = faults + 1
    /\ data' = disk /\ inflight' = AllIdle
    /\ UNCHANGED <<disk, acked>>

May(s, permission) == permission \in Permissions[s]

\* assertTenantScope.
InScope(s, id) == TenantOf[s] = Owner(id)

-----------------------------------------------------------------------------
(* Requests that read after their last await: one step. *)

\* Every receipt of goods is a lot of its own, also when a request is repeated.
ReceiveLot(s) ==
    /\ May(s, "inventory.manage")
    /\ \E lot \in Lots \ data.lots :
          /\ InScope(s, lot)
          /\ LET received == [data EXCEPT !.lots = @ \cup {lot}]
             IN  Write(<<received, received>>, Told({lot}), inflight)

\* A batch of that reference that exists already is replaced.
CreateBatch(s, b, lots) ==
    /\ May(s, "batch.create") /\ InScope(s, b)
    /\ Write(<<[data EXCEPT !.batches[b] = Holding([NoLinks EXCEPT !.lots = lots], FALSE)]>>, Told({b}), inflight)

\* A synchronized operation creates a record or, on the record's version, spreads its payload
\* over it; the audit record follows.  On another version it is a conflict, and the record is
\* saved as it is.
Synchronize(applied, id) ==
    \/ Write(<<applied, applied>>, Told({id}), inflight)
    \/ id \in Stored(data) /\ Write(<<data>>, Told({}), inflight)

MaySync(s, id, create, edit) ==
    /\ InScope(s, id)
    /\ May(s, create) \/ (id \in Stored(data) /\ May(s, edit))

LeadAstray(s, b, links) ==
    \/ \E u \in links.listed : data.units[u] = None \/ ~InScope(s, u)
    \/ (links.attested > 0 /\ data.attestations[<<b, links.attested>>] = None)

SyncBatch(s, b, links) ==
    /\ MaySync(s, b, "batch.create", "batch.edit")
    /\ Synchronize([data EXCEPT !.batches[b] = Holding(links, LeadAstray(s, b, links))], b)

SyncUnit(s, u, sent) ==
    /\ MaySync(s, u, "asset.create", "asset.edit")
    /\ Synchronize([data EXCEPT !.units[u] =
                       [batch |-> sent.batch, serial |-> sent.serial,
                        astray |-> data.batches[sent.batch] = None \/ ~InScope(s, sent.batch)]], u)

\* The lists of lots, batches and units and the search.
Listed(s) == {r \in Stored(data) : May(s, "operations.search") /\ InScope(s, r)}

\* Mutant: the units that name the batch, whosesoever they are.
AllAssets(s, b) == {u \in Units : s \in Sessions /\ data.units[u] # None /\ data.units[u].batch = b}

\* The units of the session's tenant that name a batch.
ListAssets(s, b) == {u \in Units : data.units[u] # None /\ InScope(s, u) /\ data.units[u].batch = b}

-----------------------------------------------------------------------------
(* Requests that take a record and then await their body. *)

Needed(kind) == CASE kind \in {"import", "csv"} -> {"asset.create"}
                  [] kind = "submit" -> {"batch.submit", "attestation.sign"}
                  [] OTHER -> {"asset.edit"}

Taken(kind, id) == IF kind = "patch" THEN data.units[id] ELSE data.batches[id]

Load(q, s, kind, id) ==
    /\ inflight[q] = None
    /\ Needed(kind) \subseteq Permissions[s]
    /\ id \in IF kind = "patch" THEN Units ELSE Batches
    /\ Taken(kind, id) # None /\ InScope(s, id)
    /\ inflight' = [inflight EXCEPT ![q] =
                       [kind |-> kind, session |-> s, id |-> id, copy |-> Taken(kind, id)]]
    /\ UNCHANGED <<data, disk, acked, faults>>

\* The body is refused, or one of the handler's checks fails.
Refuse(q) ==
    /\ inflight[q] # None
    /\ inflight' = [inflight EXCEPT ![q] = None]
    /\ UNCHANGED <<data, disk, acked, faults>>

Done(q) == [inflight EXCEPT ![q] = None]

\* The units a request names by serial.
Given(q, serials) == {u \in Units : u[2] \in serials /\ Owner(u) = TenantOf[inflight[q].session]}

\* Units are stored under their identity, whether or not there is one already, and then the
\* copy of the batch with them added.
Identified(q, units) ==
    [data EXCEPT !.units = [u \in Units |-> IF u \in units THEN [batch |-> inflight[q].id, serial |-> u[2], astray |-> FALSE]
                                            ELSE @[u]]]

\* Mutant: the batch is written before the units it lists.
BatchFirst(q, units) ==
    LET batch == [inflight[q].copy EXCEPT !.listed = @ \cup units]
    IN  <<[data EXCEPT !.batches[inflight[q].id] = batch],
          [Identified(q, units) EXCEPT !.batches[inflight[q].id] = batch]>>

Imported(q, units) ==
    LET identified == Identified(q, units)
    IN  <<identified,
          [identified EXCEPT !.batches[inflight[q].id] = [inflight[q].copy EXCEPT !.listed = @ \cup units]]>>

ImportUnits(q, serials) ==
    /\ inflight[q] # None /\ inflight[q].kind = "import"
    /\ LET units == Given(q, serials)
       IN  units # {} /\ Write(Imported(q, units), Told(units), Done(q))

\* Serials in use are looked up after the body has arrived.
Registered(s) == {data.units[u].serial : u \in {v \in Units : data.units[v] # None /\ InScope(s, v)}}

InUse(q) == Registered(inflight[q].session)

ImportCsv(q, serials) ==
    /\ inflight[q] # None /\ inflight[q].kind = "csv"
    /\ serials \cap InUse(q) = {}
    /\ LET units  == Given(q, serials)
           writes == Imported(q, units)
       IN  units # {} /\ Write(Append(writes, Last(writes)), Told(units), Done(q))

-----------------------------------------------------------------------------
(* Submission: the tenant's units that name the batch are attested, each gets its case on   *)
(* the new attestation, and the copy of the batch is stored with it.                        *)

NextVersion(b) == Cardinality(Attested(data, b)) + 1

ToAttest(q) == ListAssets(inflight[q].session, inflight[q].id)

OnAttestation(d, b, version, units) ==
    [d EXCEPT !.cases = [u \in Units |-> IF u \in units THEN [batch |-> b, version |-> version] ELSE @[u]]]

Submitted(q, version) ==
    LET b      == inflight[q].id
        order  == SetToSeq(ToAttest(q))
        signed == [data EXCEPT !.attestations[<<b, version>>] = ToAttest(q)]
        opened == [i \in 1..Len(order) |-> OnAttestation(signed, b, version, {order[j] : j \in 1..i})]
        closed == [Last(opened) EXCEPT !.batches[b] = [inflight[q].copy EXCEPT !.attested = version]]
    IN  <<signed>> \o opened \o <<Last(opened), closed, closed>>

\* validateBatch; a unit's other faults and its evidence are left open (Refuse).
Submittable(q) ==
    /\ ToAttest(q) # {}
    /\ \A u, v \in ToAttest(q) : u # v => data.units[u].serial # data.units[v].serial

SubmitBatch(q) ==
    /\ inflight[q] # None /\ inflight[q].kind = "submit"
    /\ LET b       == inflight[q].id
           version == NextVersion(b)
       IN  /\ version <= MaxAttested
           /\ Submittable(q)
           /\ Write(Submitted(q, version), [stored |-> {}, attested |-> {<<b, version>>}], Done(q))

\* An edited unit replaces the stored one whole.
EditUnit(q, serial) ==
    /\ inflight[q] # None /\ inflight[q].kind = "patch"
    /\ Write(<<[data EXCEPT !.units[inflight[q].id] = [inflight[q].copy EXCEPT !.serial = serial]]>>,
             Told({inflight[q].id}), Done(q))

-----------------------------------------------------------------------------

Next ==
    \/ Restart
    \/ \E s \in Sessions : ReceiveLot(s)
    \/ \E s \in Sessions, b \in Batches, lots \in SUBSET Lots : CreateBatch(s, b, lots)
    \/ \E s \in Sessions, b \in Batches, links \in SentBatches : SyncBatch(s, b, links)
    \/ \E s \in Sessions, u \in Units, sent \in SentUnits : SyncUnit(s, u, sent)
    \/ \E q \in Requests, s \in Sessions, kind \in {"import", "csv", "submit", "patch"},
          id \in Batches \cup Units : Load(q, s, kind, id)
    \/ \E q \in Requests : Refuse(q) \/ SubmitBatch(q)
    \/ \E q \in Requests, serials \in SUBSET Serials : ImportUnits(q, serials) \/ ImportCsv(q, serials)
    \/ \E q \in Requests, serial \in Serials : EditUnit(q, serial)

Spec == Init /\ [][Next]_vars

-----------------------------------------------------------------------------
(* Properties. *)

\* Every link of a data set leads to a record: the units a batch lists exist, its attestation
\* was made and the batch a unit names exists, unless a payload led the record astray; and
\* always the attestation of a case is one of the batch the case names and lists its unit.
Linked(d) ==
    /\ \A b \in Batches : d.batches[b] # None => d.batches[b].astray \/
          /\ \A u \in d.batches[b].listed : d.units[u] # None
          /\ d.batches[b].attested > 0 => d.attestations[<<b, d.batches[b].attested>>] # None
    /\ \A u \in Units : d.units[u] # None => d.units[u].astray \/ d.batches[d.units[u].batch] # None
    /\ \A u \in Units : d.cases[u] # None =>
          /\ d.units[u] # None
          /\ d.attestations[<<d.cases[u].batch, d.cases[u].version>>] # None
          /\ u \in d.attestations[<<d.cases[u].batch, d.cases[u].version>>]

\* What is in memory and what a process that dies now leaves behind are linked throughout,
\* although copies taken before an await overwrite newer records, saves fail between the
\* writes of a handler and units move between batches (the order of the writes of the csv,
\* assets and submit routes).
LinksHold == Linked(data) /\ Linked(disk)

\* A session is shown its tenant's records, and those a payload did not lead astray list and
\* name only such; a batch is attested, and a case opened, for units of the batch's tenant
\* only, also while another tenant's unit names the batch; and what a request took from the
\* repository to write back later is its tenant's (assertTenantScope where a record is taken,
\* the tenant's filter of listAssets; identities are made of the session's tenant, not of the
\* batch they are used in).
TenantsApart ==
    /\ \A s \in Sessions :
          LET shown == Listed(s)
          IN  /\ \A r \in shown : Owner(r) = TenantOf[s]
              /\ \A b \in Batches \cap shown : data.batches[b].astray \/ data.batches[b].listed \subseteq shown
              /\ \A u \in Units \cap shown : data.units[u].astray \/ data.units[u].batch \in shown
    /\ \A a \in Att : data.attestations[a] # None => \A u \in data.attestations[a] : Owner(u) = Owner(a[1])
    /\ \A u \in Units : data.cases[u] # None => Owner(data.cases[u].batch) = Owner(u)
    /\ \A q \in Requests : inflight[q] # None => Owner(inflight[q].id) = TenantOf[inflight[q].session]

\* What a request was told is stored is there after any failed save and any restart
\* (OperationalRepository.commit before each return, atomicPersist).
AnsweredIsKept ==
    /\ acked.stored \subseteq Stored(disk)
    /\ \A a \in acked.attested : disk.attestations[a] # None
=============================================================================
