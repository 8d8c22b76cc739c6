------------------------ MODULE MCIdempotentOperation ------------------------
(* One key in one organization: a request, its duplicate, and another user's under the same key. *)
EXTENDS IdempotentOperation, TLC

CONSTANTS u1, u2, x1, first, again, other, k1, i1

MCUserOf   == (first :> u1) @@ (again :> u1) @@ (other :> u2)
MCKeyOf    == [r \in Requests |-> k1]
MCTenantOf == [r \in Requests |-> x1]
MCInputOf  == [r \in Requests |-> i1]
MCClaim    == [u \in Users |-> NoTenant]
MCMemberships == [u \in Users |-> [x \in Tenants |-> [active |-> TRUE, role |-> "member", version |-> 1]]]

\* Bound: of the two memberships the one of the user with two requests may be withdrawn.
Small == memberships[u2][x1].active
=============================================================================
