------------------------- MODULE IdempotentOperation -------------------------
(***************************************************************************)
(* executeIdempotentWave1Operation: a request claims the key it was sent   *)
(* with, executes its operation and completes the key with a reference to  *)
(* the result.  A later request under a completed key is answered with     *)
(* that reference.  Claim and completion are calls of the database, which  *)
(* derives the tenant anew each time; between them nothing is locked, so   *)
(* requests overlap, and any step may fail, or succeed and have its answer *)
(* lost.  A refusal that is retryable, or a 401, which may come after the  *)
(* effect, may be followed by the same request.                            *)
(*                                                                         *)
(* The operation is whatever the caller passes: here something that takes  *)
(* effect at one instant and names its result.  Keys are well formed, the  *)
(* fingerprint of an input is the input, and expires_at, which nothing     *)
(* reads, is left out.                                                     *)
(***************************************************************************)
EXTENDS RequestAuthority

CONSTANTS
    Requests,
    KeyOf, UserOf, TenantOf, InputOf,   \* per request; the input with the name of the operation
    References,                         \* what an operation names its result
    Memberships,                        \* the memberships at first
    None

ASSUME IdempotentOperationAssumption ==
    /\ UserOf \in [Requests -> Users] /\ TenantOf \in [Requests -> Tenants]
    /\ None \notin References

VARIABLES
    memberships,
    keys,       \* the rows of pv_idempotency_keys, by tenant and key
    calls,      \* how far a request is, what it was answered
    effects,    \* per row what took effect: whose operation and with what result
    times,      \* per row how often something took effect, 2 for more than once
    disturbed   \* per row whether requests overlapped, or one broke off after it began to execute

operationVars == <<memberships, keys, calls, effects, times, disturbed>>

RowOf(r) == <<TenantOf[r], KeyOf[r]>>
Digest(r) == [actor |-> UserOf[r], input |-> InputOf[r]]
Rows     == {RowOf(r) : r \in Requests}
Digests   == {Digest(r) : r \in Requests}

Row    == [digest: Digests, status: {"IN_PROGRESS", "COMPLETED"}, ref: References \cup {None}]
Busy   == {"executing", "completing"}
Stages == {"new", "claiming", "done", "refused"} \cup Busy
ASSUME NoRowAssumption == None \notin Row

Denial == {rule.code : rule \in {Rules[i] : i \in DOMAIN Rules}} \cup
          {"DENY_AUTHORITY_UNAVAILABLE", "DENY_UNAUTHENTICATED"}

OperationTypeOK ==
    /\ keys \in [Rows -> Row \cup {None}]
    /\ calls \in [Requests -> [at: Stages, ref: References \cup {None}, code: Denial \cup {None}]]
    /\ effects \in [Rows -> SUBSET [digest: Digests, ref: References]]
    /\ times \in [Rows -> 0..2] /\ disturbed \in [Rows -> BOOLEAN]

CallAt(at, ref, code) == [at |-> at, ref |-> ref, code |-> code]

OperationInit ==
    /\ memberships = Memberships
    /\ keys = [k \in Rows |-> None]
    /\ calls = [r \in Requests |-> CallAt("new", None, None)]
    /\ effects = [k \in Rows |-> {}] /\ times = [k \in Rows |-> 0]
    /\ disturbed = [k \in Rows |-> FALSE]

-----------------------------------------------------------------------------
(* How a request goes on. *)

CallBecomes(r, call) ==
    /\ calls' = [calls EXCEPT ![r] = call]
    /\ LET beside == {q \in Requests : RowOf(q) = RowOf(r) /\ q # r /\ calls[q].at \in Busy}
       IN  disturbed' = [disturbed EXCEPT ![RowOf(r)] =
               \/ @
               \/ beside # {} /\ call.at \in Busy
               \/ calls[r].at \in Busy /\ call.at = "refused"]

Refused(error) == CallAt("refused", None, PublicCode(error))
Unavailable    == Refused("AUTHORITY_DEPENDENCY_UNAVAILABLE")

Context(r) == Derive(memberships, UserOf[r], TenantOf[r])

\* What the call begins with: the tenant is derived, or refused.
WithTenant(r, at) == calls[r].at = at /\ Context(r).error = "none"

RefusedTenant(r) ==
    /\ calls[r].at \in {"new", "claiming", "completing"} /\ Context(r).error # "none"
    /\ CallBecomes(r, Refused(Context(r).error))
    /\ UNCHANGED <<memberships, keys, effects, times>>

Send(r) ==
    /\ WithTenant(r, "new")
    /\ CallBecomes(r, CallAt("claiming", None, None))
    /\ UNCHANGED <<memberships, keys, effects, times>>

\* The row after a claim: the first one inserts it.
Claimed(r) == IF keys[RowOf(r)] = None THEN [digest |-> Digest(r), status |-> "IN_PROGRESS", ref |-> None]
              ELSE keys[RowOf(r)]

\* Mutant: the key alone decides.
WhateverInput(r, row) == TRUE

Matches(r, row) == row.digest = Digest(r)

\* Mutant: only a claim that inserted the row goes on, as if another one were under way.
UnlessClaimed(r) == IF keys[RowOf(r)] = None THEN CallAt("executing", None, None) ELSE Unavailable

\* Mutant: what was completed is not told.
AlwaysExecutes(r) == CallAt("executing", None, None)

\* What the request makes of a claim that matches.
AfterClaim(r) == IF Claimed(r).status = "COMPLETED" THEN CallAt("done", Claimed(r).ref, None)
                 ELSE CallAt("executing", None, None)

ClaimKey(r, lost) ==
    /\ WithTenant(r, "claiming")
    /\ keys' = [keys EXCEPT ![RowOf(r)] = Claimed(r)]
    /\ CallBecomes(r, IF lost THEN Unavailable
                  ELSE IF Matches(r, Claimed(r)) THEN AfterClaim(r)
                  ELSE Refused("PV_IDEMPOTENCY_FINGERPRINT_CONFLICT"))
    /\ UNCHANGED <<memberships, effects, times>>

Execute(r, ref, lost) ==
    /\ calls[r].at = "executing"
    /\ effects' = [effects EXCEPT ![RowOf(r)] = @ \cup {[digest |-> Digest(r), ref |-> ref]}]
    /\ times' = [times EXCEPT ![RowOf(r)] = IF @ = 0 THEN 1 ELSE 2]
    /\ CallBecomes(r, IF lost THEN Unavailable ELSE CallAt("completing", ref, None))
    /\ UNCHANGED <<memberships, keys>>

\* Mutant: the last completion counts.
LastResult(row, ref) == ref

\* The result a completion leaves in the row: the first one.
Kept(row, ref) == IF row.status = "COMPLETED" THEN row.ref ELSE ref

Complete(r, lost) ==
    /\ WithTenant(r, "completing")
    /\ LET row == keys[RowOf(r)]
           ref == calls[r].ref
       IN  /\ Matches(r, row)
           /\ keys' = [keys EXCEPT ![RowOf(r)] = [@ EXCEPT !.status = "COMPLETED", !.ref = Kept(row, ref)]]
           /\ CallBecomes(r, IF lost THEN Unavailable
                         ELSE IF Kept(row, ref) = ref THEN CallAt("done", ref, None)
                         ELSE Refused("PV_IDEMPOTENCY_RESULT_CONFLICT"))
    /\ UNCHANGED <<memberships, effects, times>>

\* A call, the operation or the process fails before it has done anything.
Fail(r) ==
    /\ calls[r].at \in {"claiming"} \cup Busy
    /\ CallBecomes(r, Unavailable)
    /\ UNCHANGED <<memberships, keys, effects, times>>

\* The access token has expired meanwhile: the provider refuses the call, and the answer is a 401.
TokenRefused(r) ==
    /\ calls[r].at \in {"new", "claiming", "completing"}
    /\ CallBecomes(r, Refused("AUTHENTICATION_INVALID"))
    /\ UNCHANGED <<memberships, keys, effects, times>>

\* After a 401 authorityFetch refreshes the session and sends the same request again.
RepeatAfterRefresh(r) ==
    /\ calls[r].at = "refused" /\ Unauthorized(calls[r].code)
    /\ CallBecomes(r, CallAt("new", None, None))
    /\ UNCHANGED <<memberships, keys, effects, times>>

RetryAfter(r) ==
    /\ calls[r].at = "refused" /\ calls[r].code \in ServerRetryable
    /\ CallBecomes(r, CallAt("new", None, None))
    /\ UNCHANGED <<memberships, keys, effects, times>>

\* A membership is withdrawn meanwhile.
Withdraw(u, x) ==
    /\ memberships[u][x].active
    /\ memberships' = SetMembership(memberships, u, x, memberships[u][x].role, FALSE)
    /\ UNCHANGED <<keys, calls, effects, times, disturbed>>

OperationNext ==
    \/ \E r \in Requests :
        \/ Send(r) \/ RefusedTenant(r) \/ TokenRefused(r) \/ Fail(r)
        \/ RetryAfter(r) \/ RepeatAfterRefresh(r)
        \/ \E lost \in BOOLEAN : ClaimKey(r, lost) \/ Complete(r, lost)
        \/ \E ref \in References, lost \in BOOLEAN : Execute(r, ref, lost)
    \/ \E u \in Users, x \in Tenants : Withdraw(u, x)

\* A request that may be retried is, and what it calls does not fail every time.
OperationSpec ==
    /\ OperationInit /\ [][OperationNext]_operationVars
    /\ \A r \in Requests :
        /\ WF_operationVars(Send(r)) /\ WF_operationVars(RetryAfter(r)) /\ WF_operationVars(RefusedTenant(r))
        /\ SF_operationVars(ClaimKey(r, FALSE)) /\ SF_operationVars(Complete(r, FALSE))
        /\ SF_operationVars(\E ref \in References : Execute(r, ref, FALSE))

-----------------------------------------------------------------------------
(* Properties. *)

\* However requests overlap, fail and are retried, all that are answered under one key are
\* answered alike, with what the key was completed with, and all asked the same thing.  (The
\* result kept by complete_idempotency_key against the replay of claim_idempotency_key.)
AnsweredAlike ==
    \A r \in Requests : calls[r].at = "done" =>
        /\ keys[RowOf(r)] # None
        /\ keys[RowOf(r)].status = "COMPLETED"
        /\ keys[RowOf(r)].ref = calls[r].ref
        /\ keys[RowOf(r)].digest = Digest(r)

\* An answer names a result that the same actor's same operation had, on the same input: nobody
\* is answered with what another request under the key did.
AnsweredWithOwn ==
    \A r \in Requests : calls[r].at = "done" =>
        [digest |-> Digest(r), ref |-> calls[r].ref] \in effects[RowOf(r)]

\* An operation takes effect twice under a key only if requests overlapped, or one broke off after
\* it began to execute: a retry of what was completed, or only claimed, has no second effect.
\* (tests/wave1/slice1-server-authorization.test.ts, S1-A5-AT-005, for one replay.)
OnceUndisturbed == \A k \in Rows : times[k] = 2 => disturbed[k]

\* A key that is claimed and never completed by its first request does not block the ones after
\* it: a request that is retried comes to an answer or to a refusal that is final.
Settles ==
    \A r \in Requests :
        calls[r].at = "claiming" ~>
            \/ calls[r].at = "done"
            \/ calls[r].at = "refused" /\ calls[r].code \notin ServerRetryable
=============================================================================
