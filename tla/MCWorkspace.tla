---------------------------- MODULE MCWorkspace ----------------------------
(* Sessions of the fixtures for TLC, with two requests: intake of one organization beside the *)
(* administrator of another, and the attestor beside the compliance officer of one.           *)
EXTENDS Workspace, TLC

CONSTANTS northstar, meridian, intake, attestor, compliance, administrator

MCTenantOf == [s \in Sessions |-> IF s = administrator THEN meridian ELSE northstar]

RoleOf == (intake :> {"batch.create", "batch.edit", "asset.create", "asset.edit"})
       @@ (attestor :> {"batch.edit", "batch.submit", "attestation.sign", "correction.resolve", "audit.read"})
       @@ (compliance :> {"review.decide", "custos.decide", "credential.issue", "credential.lifecycle",
                          "correction.request", "correction.resolve", "mark.authorize", "audit.read"})
       @@ (administrator :> {"inventory.manage", "batch.create", "batch.edit", "batch.submit", "asset.create",
                             "asset.edit", "attestation.sign", "correction.resolve", "credential.lifecycle", "audit.read"})

MCPermissions == [s \in Sessions |-> RoleOf[s]]

N  == <<northstar, "A">>
M  == <<meridian, "A">>
n1 == <<northstar, "1">>
m1 == <<meridian, "1">>

MCBatchOf == [u \in Units |-> <<u[1], "A">>]

IntakeBatches == {N, M}
IntakeUnits   == {n1, m1}
IntakeBuilt   == {N, n1}

ReviewBatches == {N}
ReviewUnits   == {n1}
ReviewBuilt   == {N, n1}

Interchangeable == Permutations(Slots)
=============================================================================
