---------------------------- MODULE OfflineSync ----------------------------
(***************************************************************************)
(* The local-first intake store of a browser tab and the synchronization   *)
(* route.  A tab starts from the data set it was built with, changes its   *)
(* own copy at once and queues an operation for the server; flushSyncQueue *)
(* posts what is queued, chunk by chunk, and books the verdicts only when  *)
(* the last chunk is answered.  A tab may start another flush while one is *)
(* under way.  A reloaded tab is a new one: the snapshot it saved is never *)
(* read back.                                                              *)
(*                                                                         *)
(* The server runs the loop over a request without giving way to another,  *)
(* one operation a step here.  The rest of the world reaches its records   *)
(* through the PATCH route, which reads the asset, awaits the body and     *)
(* writes its copy back, through the evidence route, which counts the      *)
(* version up, and through the import routes, which store a record of      *)
(* version 1: the JSON import whether or not there is one, the CSV import  *)
(* when the serial is not in use.  A tab that imports a CSV file takes the *)
(* server's record for its copy, so its versions, and the operation ids    *)
(* made of them, may repeat.                                               *)
(*                                                                         *)
(* All assets are of one batch of one tenant; what an update changes is    *)
(* one field, known by the operation that wrote it, and what links and     *)
(* statuses records carry is left out.  The environment is the sandbox,    *)
(* the one in which the store holds data: captured media stay on the       *)
(* device.                                                                 *)
(***************************************************************************)
EXTENDS Naturals, Sequences, FiniteSets

CONSTANTS
    Tabs,        \* instances of the store
    Assets,      \* the units of the batch
    Sessions,    \* sessions of the tenant, each with a device of its own
    SessionsIn,  \* those a tab is used with
    Editors,     \* sessions that may create and edit units and evidence
    Attestors,   \* sessions that may submit the batch
    Seeder,      \* the session whose device the data set's queued operation names
    Flights,     \* runs of flushSyncQueue that may be under way
    ChunkSize,   \* operations in one request
    MaxOps,      \* bound: operations a tab queues
    Room,        \* bound: operations each tab queues
    MaxVersion,  \* bound: a copy or record of a higher version is not changed further
    Elsewhere,   \* a write of the rest of the world
    NoOne        \* no tab; no copy

ASSUME SubsetAssumption == /\ Editors \subseteq Sessions /\ Attestors \subseteq Sessions /\ Seeder \in Sessions
                           /\ SessionsIn \in [Tabs -> SUBSET Sessions]
ASSUME BoundAssumption  == ChunkSize \in Nat \ {0} /\ MaxOps \in Nat /\ Room \in [Tabs -> 1..MaxOps] /\ MaxVersion \in Nat

VARIABLES
    local,       \* the version of a tab's copy of an asset, 0 for none
    ops,         \* syncOperations of a tab
    submitting,  \* whether a tab's submitSelectedBatch waits for the server
    importing,   \* a tab's importCsvFile: the asset in the file and whether it is stored, or NoOne
    flight,      \* a run of flushSyncQueue
    server,      \* the version of an asset and the writes it consists of, in order
    patch,       \* the copy a PATCH request of the asset holds, or NoOne
    torn,        \* history: a PATCH wrote back a copy older than the record
    rewound      \* history: versions that were set back, of a record (Elsewhere) or a tab's copy

tabVars == <<local, ops, submitting, importing>>
history == <<torn, rewound>>
vars    == <<local, ops, submitting, importing, flight, server, patch, torn, rewound>>

\* A seeded operation is the update the data set starts with.
Kinds    == {"create", "update", "seeded", "evidence", "media"}
Statuses == {"queued", "applied", "conflict", "failed"}
Import   == [asset: Assets, stored: BOOLEAN]
\* An operation as it was made, and the operation and verdict its place in the list shows.
Op       == [kind: Kinds, asset: Assets, device: Sessions, expected: Nat,
             holds: Nat \ {0}, status: Statuses]
Ids      == Tabs \X (Nat \ {0})
Record   == [version: Nat, log: Seq(Ids \cup {Elsewhere})]
Flight   == [phase: {"idle", "sent", "serving", "answered"},
             tab: Tabs \cup {NoOne}, by: Sessions \cup {NoOne},
             send: SUBSET (1..MaxOps), todo: SUBSET (1..MaxOps), verdicts: [1..MaxOps -> Statuses]]
Idle     == [phase |-> "idle", tab |-> NoOne, by |-> NoOne, send |-> {}, todo |-> {},
             verdicts |-> [i \in 1..MaxOps |-> "queued"]]

ASSUME MarkAssumption == /\ NoOne \notin Record \cup Import \cup Tabs
                         /\ Elsewhere \notin Ids \cup Tabs

TypeOK ==
    /\ local \in [Tabs -> [Assets -> Nat]]
    /\ ops \in [Tabs -> Seq(Op)]
    /\ submitting \in [Tabs -> BOOLEAN]
    /\ importing \in [Tabs -> Import \cup {NoOne}]
    /\ flight \in [Flights -> Flight]
    /\ server \in [Assets -> Record]
    /\ patch \in [Assets -> Record \cup {NoOne}]
    /\ torn \in [Assets -> BOOLEAN]
    /\ rewound \subseteq Assets \X (Tabs \cup {Elsewhere})

Seed(a) == [kind |-> "seeded", asset |-> a, device |-> Seeder, expected |-> 1, holds |-> 1, status |-> "queued"]

\* Tabs and server start from one data set, in which some of the assets are, and perhaps an
\* update of one of them that is still queued.
Init ==
    /\ \E start \in [Assets -> {0, 1}] :
          /\ local = [t \in Tabs |-> start]
          /\ server = [a \in Assets |-> [version |-> start[a], log |-> <<>>]]
    /\ \/ ops = [t \in Tabs |-> <<>>]
       \/ \E a \in Assets : server[a].version = 1 /\ ops = [t \in Tabs |-> <<Seed(a)>>]
    /\ submitting = [t \in Tabs |-> FALSE]
    /\ importing = [t \in Tabs |-> NoOne]
    /\ flight = [f \in Flights |-> Idle]
    /\ patch = [a \in Assets |-> NoOne]
    /\ torn = [a \in Assets |-> FALSE]
    /\ rewound = {}

-----------------------------------------------------------------------------
(* The tab.  s is the session that is selected when the user does something; selectSession *)
(* may change it between any two.                                                          *)

Queued(t, s, kind, a, expected) ==
    ops' = [ops EXCEPT ![t] = Append(@, [kind |-> kind, asset |-> a, device |-> s, expected |-> expected,
                                         holds |-> Len(@) + 1, status |-> "queued"])]

\* The copy's version goes up with every local change, sent or not.
Touch(t, a) == local' = [local EXCEPT ![t][a] = @ + 1]

MayEdit(t, s) == s \in Editors /\ Len(ops[t]) < Room[t]

AddAsset(t, s, a) ==
    /\ MayEdit(t, s) /\ local[t][a] = 0
    /\ Touch(t, a) /\ Queued(t, s, "create", a, 0)
    /\ UNCHANGED <<submitting, importing, flight, server, patch, history>>

UpdateAsset(t, s, a) ==
    /\ MayEdit(t, s) /\ local[t][a] \in 1..MaxVersion
    /\ Touch(t, a) /\ Queued(t, s, "update", a, local[t][a])
    /\ UNCHANGED <<submitting, importing, flight, server, patch, history>>

AddEvidence(t, s, a) ==
    /\ MayEdit(t, s) /\ local[t][a] \in 1..MaxVersion
    /\ Touch(t, a) /\ Queued(t, s, "evidence", a, 0)
    /\ UNCHANGED <<submitting, importing, flight, server, patch, history>>

\* A file captured again takes the place of its operation, which is never sent.
AddEvidenceFile(t, s, a) ==
    /\ MayEdit(t, s) /\ local[t][a] \in 1..MaxVersion
    /\ Touch(t, a)
    /\ \/ Queued(t, s, "media", a, 0)
       \/ /\ \E i \in 1..Len(ops[t]) : ops[t][i].kind = "media" /\ ops[t][i].asset = a
          /\ UNCHANGED ops
    /\ UNCHANGED <<submitting, importing, flight, server, patch, history>>

-----------------------------------------------------------------------------
(* flushSyncQueue. *)

Sendable(op) == op.status = "queued" /\ op.kind # "media"

\* A snapshot of the whole queue, whatever session or flush its operations belong to.
StartFlush(t, s, f) ==
    /\ flight[f] = Idle
    /\ LET send == {i \in 1..Len(ops[t]) : Sendable(ops[t][i])}
       IN  /\ send # {}
           /\ flight' = [flight EXCEPT ![f] =
                  [phase |-> "sent", tab |-> t, by |-> s, send |-> send, todo |-> send,
                   verdicts |-> [i \in 1..MaxOps |-> "queued"]]]
    /\ UNCHANGED <<tabVars, server, patch, history>>

\* The id of an update is made of the asset and the version it makes of the tab's copy, that
\* of a creation of the asset, that of evidence of the number of its kind.
SameId(t, i, j) ==
    \/ i = j
    \/ /\ ops[t][i].kind = "update" /\ ops[t][j].kind = "update"
       /\ ops[t][i].asset = ops[t][j].asset /\ ops[t][i].expected = ops[t][j].expected

Greatest(S) == CHOOSE n \in S : \A m \in S : m <= n

\* The answers of a flush that bear the id of an operation.
Answers(f, i) == {j \in flight[f].send : SameId(flight[f].tab, i, j)}

\* Mutant: what was sent counts as applied once the requests are answered.
BookedAsSent(f, i) ==
    LET op == ops[flight[f].tab][i]
    IN  IF i \in flight[f].send THEN [op EXCEPT !.status = "applied"] ELSE op

\* The last answer takes the place of every operation with its id.
Booked(f, i) ==
    LET op == ops[flight[f].tab][i]
        j  == Greatest(Answers(f, i))
    IN  IF Answers(f, i) = {} THEN op ELSE [op EXCEPT !.holds = j, !.status = flight[f].verdicts[j]]

\* The entities the answers carry are not looked at.
FinishFlush(f) ==
    /\ flight[f].phase = "answered"
    /\ ops' = [ops EXCEPT ![flight[f].tab] = [i \in 1..Len(@) |-> Booked(f, i)]]
    /\ flight' = [flight EXCEPT ![f] = Idle]
    /\ UNCHANGED <<local, submitting, importing, server, patch, history>>

\* A lost request or a lost answer: everything stays queued.
FailFlush(f) ==
    /\ flight[f].phase \in {"sent", "answered"}
    /\ flight' = [flight EXCEPT ![f] = Idle]
    /\ UNCHANGED <<tabVars, server, patch, history>>

-----------------------------------------------------------------------------
(* The server. *)

\* One request at a time.
Free(f) == \A g \in Flights \ {f} : flight[g].phase # "serving"

\* Mutant: the version is not compared.
VerdictUnchecked(op, by, version) ==
    IF op.device # by \/ (op.kind \in {"update", "seeded"} /\ version = 0) THEN "failed" ELSE "applied"

\* Mutant: only an operation made on a newer version than the record's is a conflict.
VerdictOnNewer(op, by, version) ==
    IF op.device # by \/ (op.kind \in {"update", "seeded"} /\ version = 0) THEN "failed"
    ELSE IF op.kind # "evidence" /\ version < op.expected THEN "conflict" ELSE "applied"

Verdict(op, by, version) ==
    IF op.device # by \/ (op.kind \in {"update", "seeded"} /\ version = 0) THEN "failed"
    ELSE IF op.kind # "evidence" /\ version # op.expected THEN "conflict" ELSE "applied"

\* Evidence of an asset the server does not have throws out of the loop.
Throws(op, by) == op.kind = "evidence" /\ op.device = by /\ server[op.asset].version = 0

\* A request carries ChunkSize operations, the last what is left, and the next one is sent
\* when it is answered.  Nothing is booked before the last answer.
Phase(f, todo) ==
    IF todo = {} THEN "answered"
    ELSE IF Cardinality(flight[f].send \ todo) % ChunkSize = 0 THEN "sent" ELSE "serving"

\* One turn of the loop.  A record is saved also on a conflict, as it was.  When saving fails,
\* the record in memory has changed and the request throws; an error answer ends the flush.
Serve(f) ==
    /\ flight[f].phase \in {"sent", "serving"} /\ Free(f)
    /\ \E i \in flight[f].todo :
          /\ \A j \in flight[f].todo : i <= j
          /\ LET t       == flight[f].tab
                 op      == ops[t][i]
                 a       == op.asset
                 verdict == Verdict(op, flight[f].by, server[a].version)
                 todo    == flight[f].todo \ {i}
             IN  \/ /\ Throws(op, flight[f].by)
                    /\ flight' = [flight EXCEPT ![f] = Idle]
                    /\ UNCHANGED server
                 \/ /\ ~Throws(op, flight[f].by)
                    /\ verdict = "applied" => server[a].version <= MaxVersion
                    /\ server' = IF verdict = "applied"
                                 THEN [server EXCEPT ![a] = [version |-> @.version + 1,
                                                             log |-> Append(@.log, <<t, i>>)]]
                                 ELSE server
                    /\ \/ flight' = [flight EXCEPT ![f].phase = Phase(f, todo),
                                                   ![f].todo = todo, ![f].verdicts[i] = verdict]
                       \/ verdict # "failed" /\ flight' = [flight EXCEPT ![f] = Idle]
    /\ UNCHANGED <<tabVars, patch, history>>

Between == \A f \in Flights : flight[f].phase # "serving"

ReadForPatch(a) ==
    /\ Between
    /\ server[a].version \in 1..MaxVersion /\ patch[a] = NoOne
    /\ patch' = [patch EXCEPT ![a] = server[a]]
    /\ UNCHANGED <<tabVars, flight, server, history>>

WritePatch(a) ==
    /\ Between
    /\ patch[a] # NoOne
    /\ server' = [server EXCEPT ![a] = [version |-> patch[a].version + 1,
                                        log |-> Append(patch[a].log, Elsewhere)]]
    /\ torn' = [torn EXCEPT ![a] = @ \/ patch[a] # server[a]]
    /\ patch' = [patch EXCEPT ![a] = NoOne]
    /\ UNCHANGED <<tabVars, flight, rewound>>

\* Evidence counts the asset's version up and leaves the rest of it.
ReceiveEvidence(a) ==
    /\ Between
    /\ server[a].version \in 1..MaxVersion
    /\ server' = [server EXCEPT ![a].version = @ + 1]
    /\ UNCHANGED <<tabVars, flight, patch, history>>

\* The import in JSON stores its record over the one there is.
ImportAsset(a) ==
    /\ Between
    /\ server' = [server EXCEPT ![a] = [version |-> 1, log |-> <<Elsewhere>>]]
    /\ rewound' = IF server[a].version = 0 THEN rewound ELSE rewound \cup {<<a, Elsewhere>>}
    /\ UNCHANGED <<tabVars, flight, patch, torn>>

-----------------------------------------------------------------------------
(* importCsvFile.  One row is enough: the route stores all or none. *)

StartImport(t, s, a) ==
    /\ importing[t] = NoOne /\ s \in Editors
    /\ importing' = [importing EXCEPT ![t] = [asset |-> a, stored |-> FALSE]]
    /\ UNCHANGED <<local, ops, submitting, flight, server, patch, history>>

\* Serials in use are refused.  An asset keeps its id when its serial is edited, so the record
\* of an edited asset may be in the way of one imported with the serial it had.
StoreImport(t) ==
    /\ Between
    /\ importing[t] # NoOne /\ ~importing[t].stored
    /\ LET a == importing[t].asset
       IN  \/ /\ server[a].version = 0
              /\ server' = [server EXCEPT ![a].version = 1]
              /\ UNCHANGED rewound
           \/ /\ server[a].version > 0 /\ server[a].log # <<>>
              /\ server' = [server EXCEPT ![a] = [version |-> 1, log |-> <<Elsewhere>>]]
              /\ rewound' = rewound \cup {<<a, Elsewhere>>}
    /\ importing' = [importing EXCEPT ![t].stored = TRUE]
    /\ UNCHANGED <<local, ops, submitting, flight, patch, torn>>

\* The records of the answer take the place of the tab's copies, changed since or not.
FinishImport(t) ==
    /\ importing[t] # NoOne /\ importing[t].stored
    /\ LET a == importing[t].asset
       IN  /\ local' = [local EXCEPT ![t][a] = 1]
           /\ rewound' = IF local[t][a] = 0 THEN rewound ELSE rewound \cup {<<a, t>>}
    /\ importing' = [importing EXCEPT ![t] = NoOne]
    /\ UNCHANGED <<ops, submitting, flight, server, patch, torn>>

\* A refusal, a lost request or a lost answer.
FailImport(t) ==
    /\ importing[t] # NoOne
    /\ importing' = [importing EXCEPT ![t] = NoOne]
    /\ UNCHANGED <<local, ops, submitting, flight, server, patch, history>>

-----------------------------------------------------------------------------
(* submitSelectedBatch. *)

\* Only what is still queued stands in the way (that the batch is complete is left out).
StartSubmit(t, s) ==
    /\ ~submitting[t] /\ s \in Attestors
    /\ \E a \in Assets : local[t][a] > 0
    /\ \A i \in 1..Len(ops[t]) : ops[t][i].status # "queued"
    /\ submitting' = [submitting EXCEPT ![t] = TRUE]
    /\ UNCHANGED <<local, ops, importing, flight, server, patch, history>>

\* The server attests the batch as it has it: every asset gets a new version.  From the answer
\* the tab's copies take the status of the batch, and nothing else.
AcceptSubmit(t) ==
    /\ submitting[t] /\ Between
    /\ \E a \in Assets : server[a].version > 0
    /\ \A a \in Assets : server[a].version <= MaxVersion
    /\ server' = [a \in Assets |-> IF server[a].version = 0 THEN server[a]
                                   ELSE [server[a] EXCEPT !.version = @ + 1]]
    /\ submitting' = [submitting EXCEPT ![t] = FALSE]
    /\ UNCHANGED <<local, ops, importing, flight, patch, history>>

FailSubmit(t) ==
    /\ submitting[t]
    /\ submitting' = [submitting EXCEPT ![t] = FALSE]
    /\ UNCHANGED <<local, ops, importing, flight, server, patch, history>>

-----------------------------------------------------------------------------

Next ==
    \/ \E t \in Tabs : \/ AcceptSubmit(t) \/ FailSubmit(t)
                      \/ StoreImport(t) \/ FinishImport(t) \/ FailImport(t)
    \/ \E t \in Tabs : \E s \in SessionsIn[t] :
          \/ \E a \in Assets : \/ AddAsset(t, s, a) \/ UpdateAsset(t, s, a)
                               \/ AddEvidence(t, s, a) \/ AddEvidenceFile(t, s, a)
                               \/ StartImport(t, s, a)
          \/ \E f \in Flights : StartFlush(t, s, f)
          \/ StartSubmit(t, s)
    \/ \E f \in Flights : FinishFlush(f) \/ FailFlush(f) \/ Serve(f)
    \/ \E a \in Assets : ReadForPatch(a) \/ WritePatch(a) \/ ReceiveEvidence(a) \/ ImportAsset(a)

Spec == Init /\ [][Next]_vars

-----------------------------------------------------------------------------
(* Properties. *)

\* The operation behind an entry of a record's log.
OpOf(id) == ops[id[1]][id[2]]

IsWrite(id) == id = Elsewhere \/ OpOf(id).kind # "evidence"

Versioned(id) == id # Elsewhere /\ OpOf(id).kind # "evidence"

\* What a record consists of takes a tab's creations and updates at most once and in the
\* order they were made, however often a request was repeated, overtaken or cut short, also
\* where a PATCH put an older copy back or an import a new record in its place; unless a CSV
\* import set the tab's own copy back, after which it expects versions it expected before
\* (applySyncOperation, updateSelectedAsset).
UpdatesInOrder ==
    \A a \in Assets : \A i, j \in 1..Len(server[a].log) :
        LET x == server[a].log[i]
            y == server[a].log[j]
        IN  i < j /\ Versioned(x) /\ Versioned(y) /\ x[1] = y[1] /\ <<a, x[1]>> \notin rewound
                => x[2] < y[2]

\* An operation a tab shows as applied is part of the server's record, unless a PATCH wrote
\* an older copy of it back or an import replaced it: also where an operation shown is another
\* with the same id (flushSyncQueue books only the server's verdicts).
AppliedIsStored ==
    \A t \in Tabs : \A i \in 1..Len(ops[t]) :
        LET a == ops[t][i].asset
        IN  ops[t][i].status = "applied" =>
               \/ torn[a] \/ <<a, Elsewhere>> \in rewound
               \/ \E k \in 1..Len(server[a].log) : server[a].log[k] = <<t, ops[t][i].holds>>

\* The last write among the first k entries of a record's log, 0 for the one it began with.
LastWrite(a, k) ==
    LET writes == {j \in 1..k : IsWrite(server[a].log[j])}
    IN  IF writes = {} THEN 0 ELSE Greatest(writes)

\* An update of a tab whose earlier operations on the asset all took effect before it
\* replaces the value the tab showed, never one it had not seen: the last write before it
\* is the tab's own or the one the record began with; unless an import replaced the record,
\* which sets the version back that the update is checked against (the version check of
\* applySyncOperation and the version the tab counts itself).
SeesWhatItReplaces ==
    \A a \in Assets : \A k \in 1..Len(server[a].log) :
        LET id     == server[a].log[k]
            before == 1..(k - 1)
        IN  ( /\ Versioned(id) /\ <<a, Elsewhere>> \notin rewound
              /\ \A i \in 1..(id[2] - 1) : ops[id[1]][i].asset = a =>
                    \E j \in before : server[a].log[j] = <<id[1], i>> )
            => \/ LastWrite(a, k - 1) = 0
               \/ /\ server[a].log[LastWrite(a, k - 1)] # Elsewhere
                  /\ server[a].log[LastWrite(a, k - 1)][1] = id[1]
=============================================================================
