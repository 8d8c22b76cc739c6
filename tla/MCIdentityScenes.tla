-------------------------- MODULE MCIdentityScenes --------------------------
(* The objects for TLC: a mark of the page, and the seal of the tier deck, which is replaced.  *)
EXTENDS IdentityScenes, TLC

CONSTANTS mark, seal

MCMaxRuns == (mark :> 1) @@ (seal :> 2)
=============================================================================
