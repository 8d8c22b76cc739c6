------------------------------ MODULE MCIntake ------------------------------
(* The intake routes for TLC: a tenant with a session that takes in and one that attests and *)
(* two batches, and a tenant whose session receives goods and sends units of its own that    *)
(* name the first tenant's batch.  Requests are interchangeable.                             *)
EXTENDS Intake, TLC

CONSTANTS north, meridian, intake, attestor, other

MCTenantOf == [s \in Sessions |-> IF s = other THEN meridian ELSE north]

RoleOf == (intake :> {"batch.create", "batch.edit", "asset.create", "asset.edit", "operations.search"})
       @@ (attestor :> {"batch.submit", "attestation.sign", "operations.search"})
       @@ (other :> {"inventory.manage", "asset.create", "asset.edit", "operations.search"})

MCPermissions == [s \in Sessions |-> RoleOf[s]]

MCBatches == {<<north, "A">>, <<north, "B">>}

MCLots == {<<meridian, "L">>}

MCSeeded == {<<north, "A">>}

MCUnits == {<<north, "1">>, <<north, "2">>, <<meridian, "1">>}

\* Links that lead astray unless the unit, or the batch, happens to be there.
MCSentBatches == {[NoLinks EXCEPT !.listed = {<<north, "1">>}]}

MCSentUnits == {[batch |-> <<north, "B">>, serial |-> "2"]}

\* Records with links of their own: led astray, naming lots, or the other tenant's unit.
Odd == {b \in Batches : data.batches[b] # None /\ (data.batches[b].astray \/ data.batches[b].lots # {})}
       \cup {u \in Units : data.units[u] # None /\ (data.units[u].astray \/ Owner(u) = meridian)}

OneCopy == \A q, r \in Requests : inflight[q] # None /\ inflight[r] # None => q = r

There(id) == IF id \in Units THEN data.units[id] # None ELSE data.batches[id] # None

\* Bound: two units, or two batches for one that keeps its serial, and after a fault one request
\* that holds a copy, as with a lot, which comes before there are units; or one odd record, with one
\* of north's units, one request that holds a copy, and no fault.
Small ==
    /\ There(<<north, "B">>) =>
          /\ ~There(<<north, "2">>)
          /\ There(<<north, "1">>) => data.units[<<north, "1">>].serial = "1"
    /\ There(<<north, "B">>) \/ There(<<north, "2">>) => faults = 0 \/ OneCopy
    /\ data.lots # {} => OneCopy /\ \A u \in Units : ~There(u)
    /\ Odd # {} => /\ Cardinality(Odd) = 1 /\ ~There(<<north, "2">>) /\ data.lots = {}
                   /\ faults = 0 /\ OneCopy
    /\ Odd \cap Batches # {} => ~There(<<north, "B">>)

Interchangeable == Permutations(Requests)
=============================================================================
