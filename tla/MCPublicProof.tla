--------------------------- MODULE MCPublicProof ---------------------------
(* Records of the library for TLC: one issued with its mark, one that waits for a second       *)
(* approval, and the one that does not exist.                                                  *)
EXTENDS PublicProof, TLC

CONSTANTS t4, t4MissingSecondApproval, notFound

Gold == [tier |-> 4, eligible |-> TRUE, authorized |-> TRUE, lifecycle |-> "active", mark |-> "authorized"]

MCFixture == (t4 :> Gold)
    @@ (t4MissingSecondApproval :> [Gold EXCEPT !.authorized = FALSE, !.lifecycle = "draft"])
    @@ (notFound :> [Gold EXCEPT !.tier = 1, !.eligible = FALSE, !.authorized = FALSE, !.lifecycle = "not-found"])
=============================================================================
