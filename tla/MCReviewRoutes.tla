--------------------------- MODULE MCReviewRoutes ---------------------------
(***************************************************************************)
(* Small instances of ReviewRoutes: the users of the demonstration tenant  *)
(* that act on a case, and the determinations that tell the gates apart.   *)
(***************************************************************************)
EXTENDS ReviewRoutes, TLC

CONSTANTS reviewer, compliance, attestor, owner

MCRoleOf ==
    [u \in Users |-> CASE u = reviewer   -> "reviewer"
                       [] u = compliance -> "compliance-officer"
                       [] u = attestor   -> "authorized-attestor"
                       [] u = owner      -> "owner"]

Approve      == [decision |-> "approve", independent |-> TRUE, conflictFree |-> TRUE]
Dependent    == [decision |-> "approve", independent |-> FALSE, conflictFree |-> TRUE]
Reject       == [decision |-> "reject", independent |-> TRUE, conflictFree |-> TRUE]
MCDeterminations  == {Approve, Dependent, Reject}
TwoDeterminations == {Approve, Reject}
=============================================================================
