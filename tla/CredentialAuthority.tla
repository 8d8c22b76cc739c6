------------------------- MODULE CredentialAuthority -------------------------
(***************************************************************************)
(* What the R3 authority plane promises a verifier who reads only the      *)
(* public registry: a record appears for a case once its review, CUSTOS    *)
(* and the signer have each done their part, in that order; from then on   *)
(* it never disappears, and the only way out of a terminal lifecycle is a  *)
(* correction.                                                             *)
(***************************************************************************)
CONSTANT Cases

VARIABLES
    stage,      \* how far the authorities have come with a case
    public      \* the lifecycle the public registry shows, or "absent"

vars == <<stage, public>>

Terminal == {"revoked", "superseded", "expired"}

Init == /\ stage = [c \in Cases |-> "none"]
        /\ public = [c \in Cases |-> "absent"]

\* One authority adds its receipt to those before it.
Advance(c, from, to) ==
    /\ stage[c] = from
    /\ stage' = [stage EXCEPT ![c] = to]
    /\ UNCHANGED public

Publish(c) ==
    /\ stage[c] = "signed" /\ public[c] = "absent"
    /\ public' = [public EXCEPT ![c] = "active"]
    /\ UNCHANGED stage

\* A lifecycle action of the registry.
Govern(c, to) ==
    /\ public[c] \in {"active", "suspended"}
    /\ public' = [public EXCEPT ![c] = to]
    /\ UNCHANGED stage

\* A correction reinstates a record.
Correct(c) ==
    /\ public[c] \in Terminal
    /\ public' = [public EXCEPT ![c] = "active"]
    /\ UNCHANGED stage

Next == \E c \in Cases :
    \/ Advance(c, "none", "reviewed")
    \/ Advance(c, "reviewed", "authorized")
    \/ Advance(c, "authorized", "signed")
    \/ Publish(c)
    \/ \E to \in {"active", "suspended"} \cup Terminal : Govern(c, to)
    \/ Correct(c)

Spec == Init /\ [][Next]_vars
=============================================================================
