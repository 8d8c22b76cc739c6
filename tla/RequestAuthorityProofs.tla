------------------------ MODULE RequestAuthorityProofs ------------------------
(***************************************************************************)
(* Proofs about the two components that ask RequestAuthority who may act:  *)
(* IdempotentOperation, for any number of requests, keys, actors and       *)
(* tenants and any failures and retries, and AuthSession, for any users,   *)
(* organizations, permissions and claims, any number of tabs, sessions and *)
(* changes of memberships.                                                 *)
(*                                                                         *)
(* What is answered under a key is carried by its row: whoever has claimed *)
(* it and goes on asks for what the row is of, and what it was completed   *)
(* with took effect.                                                       *)
(*                                                                         *)
(* What a tab shows is put together from answers that are composed at one  *)
(* instant and arrive at another.  The invariant therefore follows every   *)
(* context from the instant it is derived: it is vouched for by sessions   *)
(* and versions of memberships that are never taken back (Extends), in     *)
(* the call that carries it and in the tab that shows it; what the cookies *)
(* and the answers say of a session is true of it; and a page that awaits  *)
(* an answer shows no context that the answer could be mixed with.  A      *)
(* shell's state says which call it awaits (Steady), so that an answer     *)
(* whose move its table drops still finds it with a choice to make.        *)
(***************************************************************************)
EXTENDS IdempotentOperation, AuthSession, FiniteSetTheorems, SequenceTheorems, TLAPS

(* IdempotentOperation: what is answered under a key. *)

Shape ==
    /\ keys \in [Rows -> Row \cup {None}]
    /\ calls = [r \in Requests |-> calls[r]]
    /\ effects \in [Rows -> SUBSET [digest: Digests, ref: References]]

\* What ends a request without an answer, and what sends it again.
Denied(r) == RefusedTenant(r) \/ TokenRefused(r) \/ Fail(r)
Again(r)  == RetryAfter(r) \/ RepeatAfterRefresh(r)

\* Who has claimed a row and goes on asks for what the row is of.
Bound == \A r \in Requests : calls[r].at \in Busy \cup {"done"} =>
            keys[RowOf(r)] \in Row /\ Matches(r, keys[RowOf(r)])

\* Who completes has executed.
Executed == \A r \in Requests : calls[r].at = "completing" =>
                [digest |-> Digest(r), ref |-> calls[r].ref] \in effects[RowOf(r)]

\* Who is answered is answered with the row.
Answered == \A r \in Requests : calls[r].at = "done" =>
                keys[RowOf(r)].status = "COMPLETED" /\ keys[RowOf(r)].ref = calls[r].ref

\* What a row was completed with took effect.
Backed == \A k \in Rows : keys[k] # None /\ keys[k].status = "COMPLETED" =>
              [digest |-> keys[k].digest, ref |-> keys[k].ref] \in effects[k]

IInv == Shape /\ Bound /\ Executed /\ Answered /\ Backed

-----------------------------------------------------------------------------
LEMMA InitInv == OperationInit => IInv
<1> SUFFICES ASSUME OperationInit PROVE IInv
  OBVIOUS
<1>1. Shape
  BY DEF OperationInit, Shape
<1>2. \A r \in Requests : calls[r].at = "new"
  BY DEF OperationInit, CallAt
<1>3. \A k \in Rows : keys[k] = None
  BY DEF OperationInit
<1> QED BY <1>1, <1>2, <1>3 DEF IInv, Bound, Executed, Answered, Backed, Busy

\* A request that is sent, refused or starts again holds nothing any more.
LEMMA QuietStep ==
    ASSUME IInv, NEW r \in Requests, NEW call, call.at \notin Busy \cup {"done"},
           calls' = [calls EXCEPT ![r] = call], UNCHANGED <<keys, effects>>
    PROVE  IInv'
<1>1. calls'[r] = call /\ \A q \in Requests : q # r => calls'[q] = calls[q]
  BY DEF IInv, Shape
<1>2. Shape'
  BY DEF IInv, Shape
<1>3. \A q \in Requests : calls'[q].at \in Busy \cup {"done"} => q # r
  BY <1>1
<1> QED BY <1>1, <1>2, <1>3 DEF IInv, Bound, Executed, Answered, Backed, Matches, Busy

LEMMA ClaimStep ==
    ASSUME IInv, NEW r \in Requests, NEW lost \in BOOLEAN, ClaimKey(r, lost)
    PROVE  IInv'
<1> DEFINE k == RowOf(r)
           row == Claimed(r)
           call == IF lost THEN Unavailable
                   ELSE IF Matches(r, row) THEN AfterClaim(r)
                   ELSE Refused("PV_IDEMPOTENCY_FINGERPRINT_CONFLICT")
<1>1. k \in Rows /\ Digest(r) \in Digests
  BY DEF Rows, Digests
<1>2. row \in Row /\ (keys[k] # None => row = keys[k]) /\ (keys[k] = None => Matches(r, row) /\ row.status # "COMPLETED")
  BY <1>1 DEF Claimed, Row, IInv, Shape, Matches
<1>3. keys' = [keys EXCEPT ![k] = row] /\ effects' = effects
  BY DEF ClaimKey
<1>4. keys'[k] = row /\ \A j \in Rows : keys[j] # None => keys'[j] = keys[j]
  BY <1>1, <1>2, <1>3 DEF IInv, Shape
<1>5. \A j \in Rows : j # k => keys'[j] = keys[j]
  BY <1>1, <1>3 DEF IInv, Shape
<1>6. /\ calls' = [calls EXCEPT ![r] = call]
      /\ \/ call.at = "refused"
         \/ Matches(r, row) /\ call = AfterClaim(r)
  BY DEF ClaimKey, CallBecomes, Unavailable, Refused, CallAt
<1> HIDE DEF call
<1>7. calls'[r] = call /\ \A q \in Requests : q # r => calls'[q] = calls[q]
  BY <1>6 DEF IInv, Shape
<1>8. Shape'
  BY <1>1, <1>2, <1>3, <1>6 DEF IInv, Shape
<1>9. call.at \in {"refused", "executing", "done"}
  BY <1>6 DEF AfterClaim, CallAt
<1>10. call.at \in Busy \cup {"done"} => Matches(r, row)
  BY <1>6 DEF Busy
<1>11. call.at = "done" => row.status = "COMPLETED" /\ row.ref = call.ref
  BY <1>6 DEF AfterClaim, CallAt
<1>12. \A q \in Requests : RowOf(q) \in Rows
  BY DEF Rows
<1>13. \A q \in Requests : q # r /\ calls[q].at \in Busy \cup {"done"} => keys'[RowOf(q)] = keys[RowOf(q)]
  BY <1>4, <1>12, NoRowAssumption DEF IInv, Bound
<1>14. Bound'
  BY <1>2, <1>4, <1>7, <1>10, <1>13 DEF Bound, Matches, IInv
<1>15. Executed'
  BY <1>3, <1>7, <1>9 DEF Executed, IInv
<1>16. Answered'
  BY <1>4, <1>7, <1>11, <1>13 DEF Answered, IInv
<1>17. Backed'
  BY <1>2, <1>3, <1>4, <1>5 DEF Backed, IInv
<1> QED BY <1>8, <1>14, <1>15, <1>16, <1>17 DEF IInv

LEMMA ExecuteStep ==
    ASSUME IInv, NEW r \in Requests, NEW ref \in References, NEW lost \in BOOLEAN,
           Execute(r, ref, lost)
    PROVE  IInv'
<1> DEFINE k == RowOf(r)
           own == [digest |-> Digest(r), ref |-> ref]
           call == IF lost THEN Unavailable ELSE CallAt("completing", ref, None)
<1>1. k \in Rows /\ own \in [digest: Digests, ref: References]
  BY DEF Rows, Digests
<1>2. effects' = [effects EXCEPT ![k] = @ \cup {own}] /\ keys' = keys
  BY DEF Execute
<1>3. own \in effects'[k] /\ \A j \in Rows : effects[j] \subseteq effects'[j]
  BY <1>1, <1>2 DEF IInv, Shape
<1>4. /\ calls' = [calls EXCEPT ![r] = call]
      /\ call.at = "refused" \/ (call.at = "completing" /\ call.ref = ref)
  BY DEF Execute, CallBecomes, Unavailable, Refused, CallAt
<1> HIDE DEF call
<1>5. calls'[r] = call /\ \A q \in Requests : q # r => calls'[q] = calls[q]
  BY <1>4 DEF IInv, Shape
<1>6. Shape'
  BY <1>1, <1>2, <1>4 DEF IInv, Shape
<1>7. \A q \in Requests : RowOf(q) \in Rows
  BY DEF Rows
<1>8. calls[r].at \in Busy
  BY DEF Execute, Busy
<1>9. Bound'
  BY <1>2, <1>5, <1>8 DEF Bound, Matches, IInv
<1>10. Executed'
  BY <1>3, <1>4, <1>5, <1>7 DEF Executed, IInv
<1>11. Answered'
  BY <1>2, <1>4, <1>5 DEF Answered, IInv
<1>12. Backed'
  BY <1>2, <1>3 DEF Backed, IInv
<1> QED BY <1>6, <1>9, <1>10, <1>11, <1>12 DEF IInv

LEMMA CompleteStep ==
    ASSUME IInv, NEW r \in Requests, NEW lost \in BOOLEAN, Complete(r, lost)
    PROVE  IInv'
<1> DEFINE k == RowOf(r)
           row == keys[k]
           ref == calls[r].ref
           after == [row EXCEPT !.status = "COMPLETED", !.ref = Kept(row, ref)]
           call == IF lost THEN Unavailable
                   ELSE IF Kept(row, ref) = ref THEN CallAt("done", ref, None)
                   ELSE Refused("PV_IDEMPOTENCY_RESULT_CONFLICT")
<1>1. k \in Rows /\ \A q \in Requests : RowOf(q) \in Rows
  BY DEF Rows
<1>2. calls[r].at = "completing" /\ Matches(r, row)
  BY DEF Complete, WithTenant
<1>3. row \in Row /\ [digest |-> Digest(r), ref |-> ref] \in effects[k]
  BY <1>2 DEF IInv, Bound, Executed, Busy
<1>4. ref \in References
  BY <1>1, <1>3 DEF IInv, Shape
<1>5. after \in Row /\ after.digest = row.digest /\ after.status = "COMPLETED"
      /\ after.ref = Kept(row, ref)
  BY <1>3, <1>4 DEF Row, Kept
<1>6. keys' = [keys EXCEPT ![k] = after] /\ effects' = effects
  BY DEF Complete
<1>7. keys'[k] = after /\ \A j \in Rows : j # k => keys'[j] = keys[j]
  BY <1>1, <1>6 DEF IInv, Shape
<1>8. /\ calls' = [calls EXCEPT ![r] = call]
      /\ \/ call.at = "refused"
         \/ call.at = "done" /\ call.ref = ref /\ Kept(row, ref) = ref
  BY DEF Complete, CallBecomes, Unavailable, Refused, CallAt
<1> HIDE DEF call
<1>9. calls'[r] = call /\ \A q \in Requests : q # r => calls'[q] = calls[q]
  BY <1>8 DEF IInv, Shape
<1>10. Shape'
  BY <1>1, <1>5, <1>6, <1>8 DEF IInv, Shape
<1>11. \A q \in Requests : calls'[q].at \in Busy \cup {"done"} => calls[q].at \in Busy \cup {"done"}
  BY <1>2, <1>9 DEF Busy
<1>12. Bound'
  <2> SUFFICES ASSUME NEW q \in Requests, calls'[q].at \in Busy \cup {"done"}
               PROVE  keys'[RowOf(q)] \in Row /\ Matches(q, keys'[RowOf(q)])
    BY DEF Bound, Matches
  <2>1. keys[RowOf(q)] \in Row /\ Matches(q, keys[RowOf(q)])
    BY <1>11 DEF IInv, Bound
  <2>2. CASE RowOf(q) = k
    BY <2>1, <2>2, <1>5, <1>7 DEF Matches
  <2>3. CASE RowOf(q) # k
    BY <2>1, <2>3, <1>1, <1>7 DEF Matches
  <2> QED BY <2>2, <2>3
<1>13. Executed'
  BY <1>6, <1>8, <1>9 DEF Executed, IInv
<1>14. Answered'
  <2> SUFFICES ASSUME NEW q \in Requests, calls'[q].at = "done"
               PROVE  keys'[RowOf(q)].status = "COMPLETED" /\ keys'[RowOf(q)].ref = calls'[q].ref
    BY DEF Answered
  <2>1. CASE q = r
    BY <2>1, <1>5, <1>7, <1>8, <1>9
  <2>2. CASE q # r /\ RowOf(q) = k
    <3>1. row.status = "COMPLETED" /\ row.ref = calls[q].ref
      BY <2>2, <1>9 DEF IInv, Answered
    <3> QED BY <3>1, <2>2, <1>5, <1>7, <1>9 DEF Kept
  <2>3. CASE q # r /\ RowOf(q) # k
    BY <2>3, <1>1, <1>7, <1>9 DEF IInv, Answered
  <2> QED BY <2>1, <2>2, <2>3
<1>15. Backed'
  <2>1. [digest |-> after.digest, ref |-> after.ref] \in effects[k]
    <3>1. CASE row.status = "COMPLETED"
      BY <3>1, <1>1, <1>3, <1>5, NoRowAssumption DEF IInv, Backed, Kept
    <3>2. CASE row.status # "COMPLETED"
      BY <3>2, <1>2, <1>3, <1>5 DEF Kept, Matches
    <3> QED BY <3>1, <3>2
  <2> QED BY <2>1, <1>6, <1>7 DEF IInv, Backed
<1> QED BY <1>10, <1>12, <1>13, <1>14, <1>15 DEF IInv

LEMMA StepInv == IInv /\ [OperationNext]_operationVars => IInv'
<1> SUFFICES ASSUME IInv, [OperationNext]_operationVars PROVE IInv'
  OBVIOUS
<1>1. CASE \E r \in Requests : Send(r) \/ Denied(r) \/ Again(r)
  <2>1. PICK r \in Requests : Send(r) \/ Denied(r) \/ Again(r)
    BY <1>1
  <2>2. UNCHANGED <<keys, effects>>
    BY <2>1 DEF Send, Denied, Again, RefusedTenant, TokenRefused, Fail, RetryAfter, RepeatAfterRefresh
  <2>3. ASSUME NEW at \in {"claiming", "refused", "new"}, NEW code,
               CallBecomes(r, CallAt(at, None, code))
        PROVE  IInv'
    <3> DEFINE call == CallAt(at, None, code)
    <3>1. calls' = [calls EXCEPT ![r] = call]
      BY <2>3 DEF CallBecomes
    <3>2. call.at \notin Busy \cup {"done"}
      BY DEF CallAt, Busy
    <3> HIDE DEF call
    <3> QED BY <2>2, <3>1, <3>2, QuietStep
  <2> QED BY <2>1, <2>3 DEF Send, Denied, Again, RefusedTenant, TokenRefused, Fail, RetryAfter, RepeatAfterRefresh, Unavailable, Refused
<1>2. CASE \E r \in Requests, lost \in BOOLEAN : ClaimKey(r, lost)
  BY <1>2, ClaimStep
<1>3. CASE \E r \in Requests, lost \in BOOLEAN : Complete(r, lost)
  BY <1>3, CompleteStep
<1>4. CASE \E r \in Requests, ref \in References, lost \in BOOLEAN : Execute(r, ref, lost)
  BY <1>4, ExecuteStep
<1>5. CASE UNCHANGED <<calls, keys, effects>>
  BY <1>5 DEF IInv, Shape, Bound, Executed, Answered, Backed, Matches
<1>6. CASE \E u \in Users, x \in Tenants : Withdraw(u, x)
  BY <1>5, <1>6 DEF Withdraw
<1>7. CASE UNCHANGED operationVars
  BY <1>5, <1>7 DEF operationVars
<1> QED BY <1>1, <1>2, <1>3, <1>4, <1>6, <1>7 DEF OperationNext, Denied, Again

THEOREM Invariance == OperationSpec => []IInv
<1> QED BY InitInv, StepInv, PTL DEF OperationSpec

-----------------------------------------------------------------------------
\* All that are answered under one key are answered alike, with what the key was completed with
\* and for the same question, however requests overlap, fail and are retried
\* (complete_idempotency_key keeps the first result, claim_idempotency_key replays it).
THEOREM AllAnsweredAlike == OperationSpec => []AnsweredAlike
<1>1. IInv => AnsweredAlike
  <2> SUFFICES ASSUME IInv, NEW r \in Requests, calls[r].at = "done"
               PROVE  /\ keys[RowOf(r)] # None
                      /\ keys[RowOf(r)].status = "COMPLETED"
                      /\ keys[RowOf(r)].ref = calls[r].ref
                      /\ keys[RowOf(r)].digest = Digest(r)
    BY DEF AnsweredAlike
  <2> QED BY NoRowAssumption DEF IInv, Bound, Answered, Matches
<1> QED BY <1>1, Invariance, PTL

\* Nobody is answered with what another request under the key did: an answer names a result of
\* the same actor's same operation on the same input (the fingerprint compared by
\* claim_idempotency_key and complete_idempotency_key).
THEOREM AllAnsweredWithOwn == OperationSpec => []AnsweredWithOwn
<1>1. IInv => AnsweredWithOwn
  <2> SUFFICES ASSUME IInv, NEW r \in Requests, calls[r].at = "done"
               PROVE  [digest |-> Digest(r), ref |-> calls[r].ref] \in effects[RowOf(r)]
    BY DEF AnsweredWithOwn
  <2>1. keys[RowOf(r)] # None /\ RowOf(r) \in Rows
    BY NoRowAssumption DEF IInv, Bound, Rows
  <2> QED BY <2>1 DEF IInv, Bound, Answered, Backed, Matches
<1> QED BY <1>1, Invariance, PTL

-----------------------------------------------------------------------------
(* How often something takes effect.  A row that counts one effect is not      *)
(* inductive by itself: what matters is who is still going to have one.  While *)
(* nothing disturbed the row, at most one request is under way beyond its      *)
(* claim, it has had no effect before it executes, and an effect is followed   *)
(* by that request's completion or by the row's.                               *)

Completed(k) == keys[k] # None /\ keys[k].status = "COMPLETED"

Alone(k) == \A r, q \in Requests :
                RowOf(r) = k /\ RowOf(q) = k /\ calls[r].at \in Busy /\ calls[q].at \in Busy => r = q

OnceAt(k) ==
    /\ Alone(k)
    /\ times[k] \in {0, 1}
    /\ times[k] = 1 =>
          /\ \A r \in Requests : RowOf(r) = k => calls[r].at # "executing"
          /\ Completed(k) \/ \E r \in Requests : RowOf(r) = k /\ calls[r].at = "completing"

Once ==
    /\ times = [k \in Rows |-> times[k]] /\ disturbed \in [Rows -> BOOLEAN]
    /\ \A k \in Rows : ~disturbed[k] => OnceAt(k)

LEMMA InitOnce == OperationInit => Once
<1> SUFFICES ASSUME OperationInit PROVE Once
  OBVIOUS
<1>1. \A r \in Requests : calls[r].at = "new"
  BY DEF OperationInit, CallAt
<1>2. times = [k \in Rows |-> 0] /\ disturbed = [k \in Rows |-> FALSE]
  BY DEF OperationInit
<1> QED BY <1>1, <1>2 DEF Once, OnceAt, Alone, Busy

\* What a request's step leaves undisturbed: the other rows, and its own if it breaks off no
\* execution and begins none beside another's.
LEMMA BecomesFacts ==
    ASSUME IInv, Once, NEW r \in Requests, NEW call, CallBecomes(r, call)
    PROVE  /\ RowOf(r) \in Rows
           /\ calls'[r] = call /\ \A q \in Requests : q # r => calls'[q] = calls[q]
           /\ disturbed' \in [Rows -> BOOLEAN]
           /\ \A k \in Rows : k # RowOf(r) => disturbed'[k] = disturbed[k]
           /\ ~disturbed'[RowOf(r)] =>
                 /\ ~disturbed[RowOf(r)]
                 /\ call.at \in Busy => \A q \in Requests : RowOf(q) = RowOf(r) /\ q # r => calls[q].at \notin Busy
                 /\ calls[r].at \in Busy => call.at # "refused"
<1> DEFINE k == RowOf(r)
           beside == {q \in Requests : RowOf(q) = k /\ q # r /\ calls[q].at \in Busy}
           after == \/ disturbed[k]
                    \/ beside # {} /\ call.at \in Busy
                    \/ calls[r].at \in Busy /\ call.at = "refused"
<1>1. k \in Rows
  BY DEF Rows
<1>2. calls' = [calls EXCEPT ![r] = call] /\ disturbed' = [disturbed EXCEPT ![k] = after]
  BY DEF CallBecomes
<1>3. calls'[r] = call /\ \A q \in Requests : q # r => calls'[q] = calls[q]
  BY <1>2 DEF IInv, Shape
<1>4. disturbed \in [Rows -> BOOLEAN] /\ after \in BOOLEAN
  BY <1>1 DEF Once
<1> HIDE DEF after
<1>5. disturbed' \in [Rows -> BOOLEAN] /\ disturbed'[k] = after
      /\ \A j \in Rows : j # k => disturbed'[j] = disturbed[j]
  BY <1>1, <1>2, <1>4
<1>6. ~after => /\ ~disturbed[k]
                /\ call.at \in Busy => \A q \in Requests : RowOf(q) = k /\ q # r => calls[q].at \notin Busy
                /\ calls[r].at \in Busy => call.at # "refused"
  BY DEF after
<1> QED BY <1>1, <1>3, <1>5, <1>6

\* The other rows stay as they are.
LEMMA OtherRows ==
    ASSUME IInv, Once, NEW r \in Requests, NEW call, CallBecomes(r, call),
           NEW k \in Rows, k # RowOf(r), ~disturbed'[k],
           keys'[k] = keys[k], times'[k] = times[k]
    PROVE  OnceAt(k)'
<1>1. OnceAt(k)
  BY BecomesFacts DEF Once
<1>2. \A q \in Requests : RowOf(q) = k => calls'[q] = calls[q]
  BY BecomesFacts
<1> QED BY <1>1, <1>2 DEF OnceAt, Alone, Completed

\* A request that is sent, refused, failed or starts again has no effect, nor will it.
LEMMA QuietOnce ==
    ASSUME IInv, Once, NEW r \in Requests, NEW call, CallBecomes(r, call),
           UNCHANGED <<keys, times>>, call.at \notin Busy,
           call.at # "refused" => calls[r].at \notin Busy
    PROVE  Once'
<1>1. ASSUME NEW k \in Rows, ~disturbed'[k] PROVE OnceAt(k)'
  <2>1. CASE k # RowOf(r)
    BY <1>1, <2>1, OtherRows
  <2>2. CASE k = RowOf(r)
    <3>1. OnceAt(k) /\ calls[r].at \notin Busy
      BY <1>1, <2>2, BecomesFacts DEF Once
    <3>2. \A q \in Requests : \/ calls'[q] = calls[q]
                              \/ calls[q].at \notin Busy /\ calls'[q].at \notin Busy
      BY <3>1, BecomesFacts
    <3> QED BY <3>1, <3>2 DEF OnceAt, Alone, Completed, Busy
  <2> QED BY <2>1, <2>2
<1> QED BY <1>1, BecomesFacts DEF Once

LEMMA ClaimOnce ==
    ASSUME IInv, Once, NEW r \in Requests, NEW lost \in BOOLEAN, ClaimKey(r, lost)
    PROVE  Once'
<1> DEFINE row == Claimed(r)
           call == IF lost THEN Unavailable
                   ELSE IF Matches(r, row) THEN AfterClaim(r)
                   ELSE Refused("PV_IDEMPOTENCY_FINGERPRINT_CONFLICT")
<1>1. /\ CallBecomes(r, call) /\ calls[r].at = "claiming" /\ times' = times
      /\ keys' = [keys EXCEPT ![RowOf(r)] = row]
  BY DEF ClaimKey, WithTenant
<1>2. \/ call.at \in {"refused", "done"}
      \/ call.at = "executing" /\ row.status # "COMPLETED"
  BY DEF Unavailable, Refused, AfterClaim, CallAt
<1> HIDE DEF call
<1>3. RowOf(r) \in Rows
  BY DEF Rows
<1>4. keys'[RowOf(r)] = row /\ \A k \in Rows : k # RowOf(r) => keys'[k] = keys[k]
  BY <1>1, <1>3 DEF IInv, Shape
<1>5. keys[RowOf(r)] # None => row = keys[RowOf(r)]
  BY DEF Claimed
<1>6. ASSUME NEW k \in Rows, ~disturbed'[k] PROVE OnceAt(k)'
  <2>1. CASE k # RowOf(r)
    BY <1>1, <1>4, <1>6, <2>1, OtherRows
  <2>2. CASE k = RowOf(r)
    <3>1. OnceAt(k) /\ calls[r].at \notin Busy
      BY <1>1, <1>6, <2>2, BecomesFacts DEF Once, Busy
    <3>2. calls'[r] = call /\ \A q \in Requests : q # r => calls'[q] = calls[q]
      BY <1>1, BecomesFacts
    <3>3. Completed(k) => Completed(k)'
      BY <1>4, <1>5, <2>2 DEF Completed
    <3>4. CASE call.at \in {"refused", "done"}
      <4>1. \A q \in Requests : calls'[q] = calls[q] \/ (calls[q].at \notin Busy /\ calls'[q].at \notin Busy)
        BY <3>1, <3>2, <3>4 DEF Busy
      <4> QED BY <1>1, <3>1, <3>3, <4>1 DEF OnceAt, Alone, Busy
    <3>5. CASE call.at = "executing" /\ row.status # "COMPLETED"
      <4>1. \A q \in Requests : RowOf(q) = k /\ q # r => calls[q].at \notin Busy /\ calls'[q].at \notin Busy
        BY <1>1, <1>6, <2>2, <3>2, <3>5, BecomesFacts DEF Busy
      <4>2. ~Completed(k)
        BY <1>5, <2>2, <3>5 DEF Completed
      <4>3. times[k] = 0
        BY <3>1, <4>1, <4>2 DEF OnceAt, Busy
      <4> QED BY <1>1, <4>1, <4>3 DEF OnceAt, Alone
    <3> QED BY <1>2, <3>4, <3>5
  <2> QED BY <2>1, <2>2
<1> QED BY <1>1, <1>6, BecomesFacts DEF Once

LEMMA ExecuteOnce ==
    ASSUME IInv, Once, NEW r \in Requests, NEW ref \in References, NEW lost \in BOOLEAN,
           Execute(r, ref, lost)
    PROVE  Once'
<1> DEFINE call == IF lost THEN Unavailable ELSE CallAt("completing", ref, None)
<1>1. /\ CallBecomes(r, call) /\ calls[r].at = "executing" /\ keys' = keys
      /\ times' = [times EXCEPT ![RowOf(r)] = IF times[RowOf(r)] = 0 THEN 1 ELSE 2]
  BY DEF Execute
<1>2. call.at = "refused" \/ call.at = "completing"
  BY DEF Unavailable, Refused, CallAt
<1> HIDE DEF call
<1>3. RowOf(r) \in Rows
  BY DEF Rows
<1>4. /\ times'[RowOf(r)] = IF times[RowOf(r)] = 0 THEN 1 ELSE 2
      /\ \A k \in Rows : k # RowOf(r) => times'[k] = times[k]
      /\ times' = [k \in Rows |-> times'[k]]
  BY <1>1, <1>3 DEF Once
<1>5. ASSUME NEW k \in Rows, ~disturbed'[k] PROVE OnceAt(k)'
  <2>1. CASE k # RowOf(r)
    BY <1>1, <1>4, <1>5, <2>1, OtherRows
  <2>2. CASE k = RowOf(r)
    <3>1. OnceAt(k) /\ call.at = "completing"
      BY <1>1, <1>2, <1>5, <2>2, BecomesFacts DEF Once, Busy
    <3>2. calls'[r] = call /\ \A q \in Requests : q # r => calls'[q] = calls[q]
      BY <1>1, BecomesFacts
    <3>3. times[k] = 0
      BY <1>1, <2>2, <3>1 DEF OnceAt
    <3>4. times'[k] = 1
      BY <1>4, <2>2, <3>3
    <3>5. \A q \in Requests : RowOf(q) = k /\ q # r => calls'[q].at \notin Busy
      BY <1>1, <2>2, <3>1, <3>2 DEF OnceAt, Alone, Busy
    <3> QED BY <2>2, <3>1, <3>2, <3>4, <3>5 DEF OnceAt, Alone, Busy
  <2> QED BY <2>1, <2>2
<1> QED BY <1>1, <1>4, <1>5, BecomesFacts DEF Once

LEMMA CompleteOnce ==
    ASSUME IInv, Once, NEW r \in Requests, NEW lost \in BOOLEAN, Complete(r, lost)
    PROVE  Once'
<1> DEFINE row == keys[RowOf(r)]
           ref == calls[r].ref
           after == [row EXCEPT !.status = "COMPLETED", !.ref = Kept(row, ref)]
           call == IF lost THEN Unavailable
                   ELSE IF Kept(row, ref) = ref THEN CallAt("done", ref, None)
                   ELSE Refused("PV_IDEMPOTENCY_RESULT_CONFLICT")
<1>1. /\ CallBecomes(r, call) /\ calls[r].at = "completing" /\ times' = times
      /\ keys' = [keys EXCEPT ![RowOf(r)] = after]
  BY DEF Complete, WithTenant
<1>2. call.at \in {"refused", "done"}
  BY DEF Unavailable, Refused, CallAt
<1>3. RowOf(r) \in Rows /\ row \in Row
  BY <1>1 DEF Rows, IInv, Bound, Busy
<1>4. after \in [digest: Digests, status: {"COMPLETED"}, ref: {Kept(row, ref)}]
  BY <1>3 DEF Row
<1> HIDE DEF call, after
<1>5. keys'[RowOf(r)] = after /\ \A k \in Rows : k # RowOf(r) => keys'[k] = keys[k]
  BY <1>1, <1>3 DEF IInv, Shape
<1>6. ASSUME NEW k \in Rows, ~disturbed'[k] PROVE OnceAt(k)'
  <2>1. CASE k # RowOf(r)
    BY <1>1, <1>5, <1>6, <2>1, OtherRows
  <2>2. CASE k = RowOf(r)
    <3>1. OnceAt(k) /\ call.at = "done"
      BY <1>1, <1>2, <1>6, <2>2, BecomesFacts DEF Once, Busy
    <3>2. calls'[r] = call /\ \A q \in Requests : q # r => calls'[q] = calls[q]
      BY <1>1, BecomesFacts
    <3>3. \A q \in Requests : RowOf(q) = k => calls'[q].at \notin Busy
      BY <1>1, <2>2, <3>1, <3>2 DEF OnceAt, Alone, Busy
    <3>4. keys'[k] # None /\ keys'[k].status = "COMPLETED"
      <4>1. ref \in References
        <5>1. [digest |-> Digest(r), ref |-> ref] \in effects[RowOf(r)]
          BY <1>1 DEF IInv, Executed
        <5>2. effects[RowOf(r)] \subseteq [digest: Digests, ref: References]
          BY <1>3 DEF IInv, Shape
        <5> QED BY <5>1, <5>2
      <4>2. after \in Row
        BY <1>3, <4>1 DEF after, Row, Kept
      <4> QED BY <1>4, <1>5, <2>2, <4>2, NoRowAssumption
    <3> QED BY <1>1, <3>1, <3>3, <3>4 DEF OnceAt, Alone, Completed, Busy
  <2> QED BY <2>1, <2>2
<1> QED BY <1>1, <1>6, BecomesFacts DEF Once

LEMMA StepOnce == IInv /\ Once /\ [OperationNext]_operationVars => Once'
<1> SUFFICES ASSUME IInv, Once, [OperationNext]_operationVars PROVE Once'
  OBVIOUS
<1>1. CASE \E r \in Requests : Send(r) \/ Denied(r) \/ Again(r)
  <2>1. PICK r \in Requests : Send(r) \/ Denied(r) \/ Again(r)
    BY <1>1
  <2>2. UNCHANGED <<keys, times>>
    BY <2>1 DEF Send, Denied, Again, RefusedTenant, TokenRefused, Fail, RetryAfter, RepeatAfterRefresh
  <2>3. ASSUME NEW error, CallBecomes(r, Refused(error)) PROVE Once'
    <3>1. Refused(error).at = "refused"
      BY DEF Refused, CallAt
    <3> QED BY <2>2, <2>3, <3>1, QuietOnce DEF Busy
  <2>4. CASE Send(r) \/ Again(r)
    <3>1. PICK at \in {"claiming", "new"} : CallBecomes(r, CallAt(at, None, None)) /\ calls[r].at \in {"new", "refused"}
      BY <2>4 DEF Send, Again, RetryAfter, RepeatAfterRefresh, WithTenant
    <3>2. CallAt(at, None, None).at = at
      BY DEF CallAt
    <3> QED BY <2>2, <3>1, <3>2, QuietOnce DEF Busy
  <2> QED BY <2>1, <2>3, <2>4 DEF Denied, RefusedTenant, TokenRefused, Fail, Unavailable
<1>2. CASE \E r \in Requests, lost \in BOOLEAN : ClaimKey(r, lost)
  BY <1>2, ClaimOnce
<1>3. CASE \E r \in Requests, lost \in BOOLEAN : Complete(r, lost)
  BY <1>3, CompleteOnce
<1>4. CASE \E r \in Requests, ref \in References, lost \in BOOLEAN : Execute(r, ref, lost)
  BY <1>4, ExecuteOnce
<1>5. CASE UNCHANGED <<calls, keys, times, disturbed>>
  BY <1>5 DEF Once, OnceAt, Alone, Completed
<1>6. CASE \E u \in Users, x \in Tenants : Withdraw(u, x)
  BY <1>5, <1>6 DEF Withdraw
<1>7. CASE UNCHANGED operationVars
  BY <1>5, <1>7 DEF operationVars
<1> QED BY <1>1, <1>2, <1>3, <1>4, <1>6, <1>7 DEF OperationNext, Denied, Again

\* An operation takes effect twice under a key only if requests overlapped or one broke off after
\* it began to execute: the claim that replays what is completed, and the completion that follows
\* an execution, keep a retry from having a second effect (executeIdempotentWave1Operation).
THEOREM SecondEffectNeedsDisturbance == OperationSpec => []OnceUndisturbed
<1>1. Once => OnceUndisturbed
  <2> SUFFICES ASSUME Once, NEW k \in Rows, times[k] = 2 PROVE disturbed[k]
    BY DEF OnceUndisturbed
  <2> QED BY DEF Once, OnceAt
<1>2. OperationInit => IInv /\ Once
  BY InitInv, InitOnce
<1>3. (IInv /\ Once) /\ [OperationNext]_operationVars => (IInv /\ Once)'
  BY StepInv, StepOnce
<1> QED BY <1>1, <1>2, <1>3, PTL DEF OperationSpec

\* The least element of a set that has one.
LEMMA LeastIs ==
    ASSUME NEW S, NEW n \in S, S \subseteq Nat, \A y \in S : n <= y
    PROVE  Min(S) = n
<1>1. PICK m : m = Min(S)
      OBVIOUS
<1>2. m \in S /\ \A y \in S : m <= y
      BY <1>1 DEF Min
<1>3. n <= m /\ m <= n /\ n \in Nat /\ m \in Nat
      BY <1>2
<1> QED BY <1>1, <1>3

\* Every error a request is refused with is mapped to a denial.
LEMMA RefusedCodes ==
    ASSUME NEW raised
    PROVE  PublicCode(raised) \in Denial
<1> DEFINE e    == InternalErrors[raised]
           hits == {i \in DOMAIN Rules : Rules[i].word \in e.words}
<1>1. DOMAIN Rules = 1..9 /\ Rules[1].code = "DENY_RATE_LIMITED"
  BY DEF Rules, Rule
<1>2. \A n \in 1..9 : Rules[n].code \in Denial
  BY <1>1 DEF Denial
<1>3. "DENY_RATE_LIMITED" \in Denial
  BY <1>1, <1>2
<1>4. hits # {} => \E n \in hits : n \in 1..9 /\ \A y \in hits : n <= y
  <2> SUFFICES ASSUME hits # {} PROVE \E n \in hits : n \in 1..9 /\ \A y \in hits : n <= y
    OBVIOUS
  <2>1. hits \subseteq 1..9
    BY <1>1
  <2> HIDE DEF hits
  <2>2. CASE 1 \in hits
    BY <2>1, <2>2
  <2>3. CASE hits \cap 1..3 # {} /\ 1 \notin hits
    BY <2>1, <2>3
  <2>4. CASE hits \cap 1..3 = {} /\ hits \cap 4..6 # {}
    BY <2>1, <2>4
  <2>5. CASE hits \cap 1..6 = {} /\ hits \cap 7..9 # {}
    BY <2>1, <2>5
  <2>6. PICK m \in hits : m \in 1..9
    BY <2>1
  <2>7. m \in 1..3 \/ m \in 4..6 \/ m \in 7..9
    BY <2>6
  <2>8. 1..6 = 1..3 \cup 4..6
    OBVIOUS
  <2> QED BY <2>2, <2>3, <2>4, <2>5, <2>7, <2>8
<1>5. hits # {} => Min(hits) \in 1..9
  <2>1. hits \subseteq Nat
    BY <1>1
  <2> HIDE DEF hits
  <2>2. ASSUME NEW n \in hits, n \in 1..9, \A y \in hits : n <= y
        PROVE  Min(hits) \in 1..9
    <3>1. Min(hits) = n
      BY <2>1, <2>2, LeastIs
    <3> QED BY <2>2, <3>1
  <2> QED BY <1>4, <2>2
<1>6. PublicCode(raised) \in
          {"DENY_RATE_LIMITED", "DENY_UNAUTHENTICATED", "DENY_AUTHORITY_UNAVAILABLE"}
          \/ (hits # {} /\ PublicCode(raised) = Rules[Min(hits)].code)
  BY DEF PublicCode
<1>7. {"DENY_UNAUTHENTICATED", "DENY_AUTHORITY_UNAVAILABLE"} \subseteq Denial
  BY DEF Denial
<1> HIDE DEF hits
<1> QED BY <1>2, <1>3, <1>5, <1>6, <1>7

\* What a request does next is a stage, with a result or a denial.
CallRecords == [at: Stages, ref: References \cup {None}, code: Denial \cup {None}]

LEMMA RefusedShape ==
    ASSUME NEW raised
    PROVE  Refused(raised) \in CallRecords
BY RefusedCodes DEF Refused, CallAt, CallRecords, Stages

\* Every step leaves requests and counts in their types.
LEMMA StepTypes ==
    ASSUME IInv, Once, calls \in [Requests -> CallRecords], times \in [Rows -> 0..2],
           [OperationNext]_operationVars
    PROVE  calls' \in [Requests -> CallRecords] /\ times' \in [Rows -> 0..2]
<1>1. ASSUME NEW r \in Requests, NEW call \in CallRecords, CallBecomes(r, call)
      PROVE  calls' \in [Requests -> CallRecords]
  BY <1>1 DEF CallBecomes
<1>2. /\ CallAt("claiming", None, None) \in CallRecords /\ CallAt("new", None, None) \in CallRecords
      /\ CallAt("executing", None, None) \in CallRecords /\ Unavailable \in CallRecords
  BY RefusedShape DEF CallAt, CallRecords, Stages, Busy, Unavailable
<1>3. CASE \E r \in Requests : Send(r) \/ Denied(r) \/ Again(r)
  <2>1. PICK r \in Requests : Send(r) \/ Denied(r) \/ Again(r)
    BY <1>3
  <2>2. times' = times
    BY <2>1 DEF Send, Denied, Again, RefusedTenant, TokenRefused, Fail, RetryAfter, RepeatAfterRefresh
  <2>3. \E call \in CallRecords : CallBecomes(r, call)
    BY <2>1, <1>2, RefusedShape DEF Send, Denied, Again, RefusedTenant, TokenRefused, Fail, RetryAfter, RepeatAfterRefresh
  <2> QED BY <2>2, <2>3, <1>1
<1>4. CASE \E r \in Requests, lost \in BOOLEAN : ClaimKey(r, lost)
  <2>1. PICK r \in Requests, lost \in BOOLEAN : ClaimKey(r, lost)
    BY <1>4
  <2>2. RowOf(r) \in Rows /\ Digest(r) \in Digests
    BY DEF Rows, Digests
  <2>3. Claimed(r) \in Row
    BY <2>2 DEF Claimed, Row, IInv, Shape
  <2>4. AfterClaim(r) \in CallRecords
    BY <2>3, <1>2 DEF AfterClaim, CallAt, CallRecords, Stages, Row
  <2>5. \E call \in CallRecords : CallBecomes(r, call)
    BY <2>1, <2>4, <1>2, RefusedShape DEF ClaimKey
  <2>6. times' = times
    BY <2>1 DEF ClaimKey
  <2> QED BY <2>5, <2>6, <1>1
<1>5. CASE \E r \in Requests, lost \in BOOLEAN : Complete(r, lost)
  <2>1. PICK r \in Requests, lost \in BOOLEAN : Complete(r, lost)
    BY <1>5
  <2>2. calls[r].ref \in References \cup {None}
    BY DEF CallRecords
  <2>3. CallAt("done", calls[r].ref, None) \in CallRecords
    BY <2>2 DEF CallAt, CallRecords, Stages
  <2>4. \E call \in CallRecords : CallBecomes(r, call)
    BY <2>1, <2>3, <1>2, RefusedShape DEF Complete
  <2>5. times' = times
    BY <2>1 DEF Complete
  <2> QED BY <2>4, <2>5, <1>1
<1>6. CASE \E r \in Requests, ref \in References, lost \in BOOLEAN : Execute(r, ref, lost)
  <2>1. PICK r \in Requests, ref \in References, lost \in BOOLEAN : Execute(r, ref, lost)
    BY <1>6
  <2>2. CallAt("completing", ref, None) \in CallRecords
    BY DEF CallAt, CallRecords, Stages, Busy
  <2>3. \E call \in CallRecords : CallBecomes(r, call)
    BY <2>1, <2>2, <1>2 DEF Execute
  <2>4. times' \in [Rows -> 0..2]
    <3>1. RowOf(r) \in Rows
      BY DEF Rows
    <3>2. PICK n \in 0..2 : n = IF times[RowOf(r)] = 0 THEN 1 ELSE 2
      OBVIOUS
    <3>3. times' = [times EXCEPT ![RowOf(r)] = n]
      BY <2>1, <3>2 DEF Execute
    <3> QED BY <3>1, <3>3
  <2> QED BY <2>3, <2>4, <1>1
<1>7. CASE UNCHANGED <<calls, times>>
  BY <1>7
<1>8. CASE \E u \in Users, x \in Tenants : Withdraw(u, x)
  BY <1>7, <1>8 DEF Withdraw
<1>9. CASE UNCHANGED operationVars
  BY <1>7, <1>9 DEF operationVars
<1> QED BY <1>3, <1>4, <1>5, <1>6, <1>8, <1>9 DEF OperationNext, Denied, Again

\* Every reachable state of keys and requests is well typed, and a request is refused with a code
\* the mapper knows (executeIdempotentWave1Operation, public-error-mapper.ts).
THEOREM OperationTypesHold == OperationSpec => []OperationTypeOK
<1> DEFINE Typed == calls \in [Requests -> CallRecords] /\ times \in [Rows -> 0..2]
<1>1. OperationInit => IInv /\ Once /\ Typed
  <2>1. CallAt("new", None, None) \in CallRecords
    BY DEF CallAt, CallRecords, Stages
  <2>2. OperationInit => Typed
    BY <2>1 DEF OperationInit
  <2> QED BY <2>2, InitInv, InitOnce
<1>2. (IInv /\ Once /\ Typed) /\ [OperationNext]_operationVars => (IInv /\ Once /\ Typed)'
  BY StepInv, StepOnce, StepTypes
<1>3. IInv /\ Once /\ Typed => OperationTypeOK
  BY DEF IInv, Shape, Once, CallRecords, OperationTypeOK
<1> QED BY <1>1, <1>2, <1>3, PTL DEF OperationSpec

-----------------------------------------------------------------------------
(* AuthSession: the shapes of the state. *)
People == Users \cup {NoUser}
Places == Tenants \cup {NoTenant}
Session == [user : People, aal : {1, 2}, live : BOOLEAN]
Membership == [active : BOOLEAN, role : Roles, version : Nat]
ContextRecords == [user : People, tenant : Places, role : Roles, version : Nat,
            sid : 0..MaxSessions, settings : BOOLEAN]
SetCookies == [sid : -1..MaxSessions, aal : {1, 2}, tenant : Places \cup {"keep"}]
Jar == [access : [sid : 0..MaxSessions, aal : {1, 2}], refresh : 0..MaxSessions, tenant : Places]
Denials == {"DENY_RATE_LIMITED", "DENY_AUDIT_PERSISTENCE", "DENY_IDEMPOTENCY_CONFLICT",
            "DENY_TENANT_AMBIGUOUS", "DENY_AUTHORITY_VERSION_CONFLICT", "DENY_ACTOR_UNKNOWN",
            "DENY_MEMBERSHIP_INACTIVE", "DENY_TENANT_UNAUTHORIZED", "DENY_ACTION", "DENY_ROLE",
            "DENY_UNAUTHENTICATED", "DENY_AUTHORITY_UNAVAILABLE", "DENY_MFA_REQUIRED",
            "DENY_NETWORK_FAILURE"}
Codes == Denials \cup {"none", "ALLOW", "SELECT", "MFA_ENROLL", "MFA_CHALLENGE"}
Instants == {"idle", "sent", "admitted", "answered"}
Kinds == Reads \cup {"none", "command", "sign-in", "refresh", "sign-out", "enroll", "challenge", "verify",
                    "purge"}
Statuses == {"BOOTING", "RESOLVING_SESSION", "UNAUTHENTICATED", "AUTHENTICATED", "CHANGING_TENANT",
             "DENIED", "EXPIRED", "AUTHORITY_UNAVAILABLE", "NETWORK_FAILURE", "SIGNING_OUT",
             "SIGNED_OUT_CLEANUP_REQUIRED"}
CallRec == [at : Instants, kind : Kinds, sid : 0..MaxSessions, aal : {1, 2}, user : People,
            hint : Places, named : BOOLEAN, late : BOOLEAN, ctx : ContextRecords, code : Codes,
            eligible : SUBSET Tenants, sets : SetCookies]
View == [page : {"sign-in", "shell"}, stage : {"credentials", "enroll", "mfa", "tenant"},
         source : {"session", "sign-in"}, user : People, factor : People,
         challenged : BOOLEAN, status : Statuses, eligible : SUBSET Tenants, choice : Places,
         first : ContextRecords, shown : ContextRecords, failure : {"none", "server", "cleanup"},
         leaving : 0..MaxSessions]

-----------------------------------------------------------------------------
(* What is said of a session or a membership is true of the provider's     *)
(* sessions p and of the versions w of the memberships.                    *)
Opened(p, sid) == sid \in Sids /\ p[sid].user \in Users

Vouched(p, w, x) ==
    /\ x.user \in Users /\ x.tenant \in Tenants
    /\ x.version \in DOMAIN w[x.user][x.tenant]
    /\ w[x.user][x.tenant][x.version].active
    /\ w[x.user][x.tenant][x.version].role = x.role
    /\ x.settings => <<x.role, ManageMembership[1], ManageMembership[2]>> \in Permissions
    /\ x.sid \in Sids /\ p[x.sid].user = x.user
    /\ RequireAal2 => p[x.sid].aal = 2

JarTrue(p, j) ==
    /\ j \in Jar
    /\ j.access.sid # 0 => Opened(p, j.access.sid)
    /\ j.access.aal = 2 => j.access.sid # 0 /\ p[j.access.sid].aal = 2
    /\ j.refresh # 0 => Opened(p, j.refresh)

SetsTrue(p, s) ==
    /\ s \in SetCookies
    /\ s.sid > 0 => Opened(p, s.sid)
    /\ s.aal = 2 => s.sid > 0 /\ p[s.sid].aal = 2

(* A call on its way to the server. *)
SentTrue(p, m) ==
    m.at = "sent" =>
        /\ m.sid # 0 => Opened(p, m.sid)
        /\ m.aal = 2 => m.sid # 0 /\ p[m.sid].aal = 2
        /\ m.kind = "sign-in" => m.user \in Users

(* A call that was sent too late is not admitted, and is not allowed. *)
LateRefused(p, m) ==
    m.late /\ m.kind \in Reads =>
        /\ m.at # "admitted" /\ m.code # "ALLOW"
        /\ m.at = "sent" => Opened(p, m.sid) /\ ~p[m.sid].live

(* What the server found out for a call. *)
FoundTrue(p, w, m) ==
    /\ m.at = "admitted" => Vouched(p, w, m.ctx)
    /\ m.at = "answered" /\ m.kind = "ops-session" /\ m.code = "ALLOW" => Vouched(p, w, m.ctx)
    /\ m.at = "answered" /\ m.code = "SELECT" => m.eligible # {}
    /\ m.at = "answered" /\ m.kind = "sign-in" /\ m.code = "SELECT" => m.user \in Users

CallTrue(p, w, m) ==
    /\ m \in CallRec
    /\ m.at = "idle" => m.kind = "none"
    /\ SentTrue(p, m) /\ LateRefused(p, m) /\ FoundTrue(p, w, m) /\ SetsTrue(p, m.sets)

ViewTrue(p, w, v) ==
    /\ v \in View
    /\ v.source = "sign-in" => v.user \in Users
    /\ v.shown # NoContext =>
          /\ v.page = "shell" /\ v.status = "AUTHENTICATED" /\ Vouched(p, w, v.shown)
          /\ v.choice # NoTenant => v.shown.tenant = v.choice

(* The organization a user picked is the one asked for, and the one found. *)
Fits(choice, m) ==
    m.kind = "ops-session" /\ choice # NoTenant =>
        /\ m.at = "sent" => m.hint = choice
        /\ m.at = "admitted" \/ (m.at = "answered" /\ m.code = "ALLOW") => m.ctx.tenant = choice

(* A page that awaits an answer shows no context. *)
Awaits(v, m) == m.at # "idle" => v.shown = NoContext /\ Fits(v.choice, m)

(* The state of a shell says what kind of call it awaits, and with a choice to
   make there is something to choose from. *)
Steady(v, kind) ==
    v.page = "shell" =>
        /\ v.status = "RESOLVING_SESSION" => kind \in Reads
        /\ v.status = "SIGNING_OUT" => kind \in {"sign-out", "purge"}
        /\ v.status = "CHANGING_TENANT" => kind \in Reads \cup {"none"} /\ v.eligible # {}
        /\ v.status \notin {"RESOLVING_SESSION", "SIGNING_OUT", "CHANGING_TENANT"} => kind = "none"

-----------------------------------------------------------------------------
ProviderTrue(p, e) ==
    /\ p \in [Sids -> Session]
    /\ \A s \in Sids : p[s].live => p[s].user \in Users
    /\ \A s \in Sids : p[s].aal = 2 => p[s].user \in e

MembersTrue(ms, w) ==
    /\ ms \in [Users -> [Tenants -> Membership]]
    /\ w \in [Users -> [Tenants -> Seq(Membership)]]
    /\ \A u \in Users, x \in Tenants :
          /\ ms[u][x].version = Len(w[u][x]) /\ ms[u][x].version > 0
          /\ ms[u][x] = w[u][x][ms[u][x].version]

ChannelsTrue ==
    /\ net \in [Chans -> CallRec]
    /\ \A c \in Chans : CallTrue(provider, was, net[c])

TabsTrue ==
    /\ tab \in [Tabs -> View]
    /\ \A t \in Tabs : /\ ViewTrue(provider, was, tab[t])
                      /\ Awaits(tab[t], net[Page(t)]) /\ Steady(tab[t], net[Page(t)].kind)

AuthInv ==
    /\ ProviderTrue(provider, enrolled) /\ MembersTrue(members, was) /\ JarTrue(provider, jar)
    /\ ChannelsTrue /\ TabsTrue

(* Sessions q and memberships z come after p and w: nothing is taken back. *)
SessionsExtend(p, q) ==
    \A s \in Sids :
        /\ p[s].user \in Users => q[s].user = p[s].user
        /\ p[s].user \in Users /\ p[s].aal = 2 => q[s].aal = 2
        /\ p[s].user \in Users /\ ~p[s].live => ~q[s].live

VersionsExtend(w, z) ==
    \A u \in Users, x \in Tenants : \A i \in DOMAIN w[u][x] :
        i \in DOMAIN z[u][x] /\ z[u][x][i] = w[u][x][i]

-----------------------------------------------------------------------------
(* What was true stays true. *)

\* A context once vouched for stays vouched for.
LEMMA VouchedExtends ==
    ASSUME NEW p, NEW w, NEW q, NEW z, NEW x, SessionsExtend(p, q), VersionsExtend(w, z),
           Vouched(p, w, x)
    PROVE  Vouched(q, z, x)
BY DEF SessionsExtend, VersionsExtend, Vouched

\* What the cookies say stays true.
LEMMA JarExtends ==
    ASSUME NEW p, NEW q, NEW j, SessionsExtend(p, q), JarTrue(p, j)
    PROVE  JarTrue(q, j)
BY DEF SessionsExtend, JarTrue, Opened

\* What a call carries stays true.
LEMMA CallExtends ==
    ASSUME NEW p, NEW w, NEW q, NEW z, NEW m, SessionsExtend(p, q), VersionsExtend(w, z),
           CallTrue(p, w, m)
    PROVE  CallTrue(q, z, m)
<1>1. SentTrue(q, m)
      BY DEF CallTrue, SentTrue, SessionsExtend, Opened
<1>2. LateRefused(q, m)
      BY DEF CallTrue, LateRefused, SessionsExtend, Opened
<1>3. FoundTrue(q, z, m)
      BY VouchedExtends DEF CallTrue, FoundTrue
<1>4. SetsTrue(q, m.sets)
      BY DEF CallTrue, SetsTrue, SessionsExtend, Opened
<1> QED BY <1>1, <1>2, <1>3, <1>4 DEF CallTrue

\* What a tab shows stays true.
LEMMA ViewExtends ==
    ASSUME NEW p, NEW w, NEW q, NEW z, NEW v, SessionsExtend(p, q), VersionsExtend(w, z),
           ViewTrue(p, w, v)
    PROVE  ViewTrue(q, z, v)
BY VouchedExtends DEF ViewTrue

-----------------------------------------------------------------------------
(* What the request boundary decides. *)

\* Every error of deriving a tenant is mapped to a denial.
LEMMA TenancyCodes ==
    ASSUME NEW raised \in {"MEMBERSHIP_INACTIVE", "TENANT_UNAUTHORIZED", "TENANT_OVERRIDE_DENIED",
                           "TENANT_AMBIGUOUS"}
    PROVE  PublicCode(raised) \in Denials
<1> DEFINE e    == InternalErrors[raised]
           hits == {i \in DOMAIN Rules : Rules[i].word \in e.words}
<1>1. e.status = 403 /\ e.words \in {{"MEMBERSHIP"}, {"TENANT"}, {"TENANT_AMBIGUOUS", "TENANT"}}
      BY DEF InternalErrors, Err
<1>2. DOMAIN Rules = 1..9
      BY DEF Rules
<1>3. 8 \notin hits => hits = {7}
      BY <1>1, <1>2 DEF Rules, Rule
<1>4. 8 \in hits => hits = {8} \/ hits = {4, 8}
      BY <1>1, <1>2 DEF Rules, Rule
<1> HIDE DEF e, hits
<1>5. /\ hits = {7} => Min(hits) = 7
      /\ hits = {8} => Min(hits) = 8
      /\ hits = {4, 8} => Min(hits) = 4
  <2>1. hits = {7} => Min(hits) = 7
        BY LeastIs
  <2>2. hits = {8} => Min(hits) = 8
        BY LeastIs
  <2>3. hits = {4, 8} => Min(hits) = 4
        BY LeastIs
  <2> QED BY <2>1, <2>2, <2>3
<1>6. hits # {} /\ Min(hits) \in {4, 7, 8}
      BY <1>3, <1>4, <1>5
<1>7. PICK n : n = Min(hits)
      OBVIOUS
<1>8. Rules[n].code \in Denials
      BY <1>6, <1>7 DEF Rules, Rule, Denials
<1>9. PublicCode(raised) = Rules[Min(hits)].code
      BY <1>1, <1>6 DEF PublicCode, e, hits
<1> QED BY <1>7, <1>8, <1>9

\* So is every other error a session route raises.
LEMMA OtherCodes ==
    ASSUME NEW raised \in {"AUTHENTICATION_INVALID", "AUTHENTICATION_PROVIDER_UNAVAILABLE",
                           "AUTHORITY_DEPENDENCY_UNAVAILABLE", "REFRESH_SESSION_REQUIRED",
                           "PREAUTH_QUOTA_EXCEEDED"}
    PROVE  PublicCode(raised) \in Denials
<1> DEFINE e    == InternalErrors[raised]
           hits == {i \in DOMAIN Rules : Rules[i].word \in e.words}
<1>1. e.words \subseteq {"AUTHENTICATION", "SESSION", "QUOTA"}
      BY DEF InternalErrors, Err
<1>2. "QUOTA" \in e.words => e.status = 429
      BY DEF InternalErrors, Err
<1>3. e.status # 429 => hits = {}
      BY <1>1, <1>2 DEF Rules, Rule
<1>4. e.status = 429 => PublicCode(raised) = "DENY_RATE_LIMITED"
      BY DEF PublicCode
<1>5. e.status # 429 => PublicCode(raised) \in {"DENY_UNAUTHENTICATED", "DENY_AUTHORITY_UNAVAILABLE"}
      BY <1>3 DEF PublicCode
<1> QED BY <1>4, <1>5 DEF Denials

\* A derived tenant is one of the actor's active memberships, and the one hinted at.
LEMMA DerivedTenant ==
    ASSUME NEW ms, NEW u, NEW hint
    PROVE  LET d == Derive(ms, u, hint)
           IN  /\ d.error \in {"none", "MEMBERSHIP_INACTIVE", "TENANT_UNAUTHORIZED",
                               "TENANT_OVERRIDE_DENIED", "TENANT_AMBIGUOUS"}
               /\ d.error = "TENANT_AMBIGUOUS" => Eligible(ms, u) # {}
               /\ d.error = "none" => /\ d.tenant \in Tenants /\ ms[u][d.tenant].active
                                      /\ hint # NoTenant => d.tenant = hint
<1> PICK eligible : eligible = Eligible(ms, u)
      OBVIOUS
<1> PICK picked : picked = IF Cardinality(eligible) = 1 THEN CHOOSE x \in eligible : TRUE ELSE Claim[u]
      OBVIOUS
<1>1. \A x : x \in Eligible(ms, u) => x \in Tenants /\ ms[u][x].active
      BY Zenon DEF Eligible
<1> QED BY <1>1 DEF Derive

\* A tenant derived with no hint is one of the organizations or none.
LEMMA DerivedPlace ==
    ASSUME NEW ms, NEW u, NEW hint
    PROVE  Derive(ms, u, hint).tenant \in Places
<1> PICK eligible : eligible = Eligible(ms, u)
      OBVIOUS
<1> PICK picked : picked = IF Cardinality(eligible) = 1 THEN CHOOSE x \in eligible : TRUE ELSE Claim[u]
      OBVIOUS
<1>1. picked \in eligible => picked \in Places
      BY DEF Eligible, Places
<1>2. NoTenant \in Places
      BY DEF Places
<1> QED BY <1>1, <1>2 DEF Derive

\* Only the version the caller saw, and only a role that carries the row, are allowed.
LEMMA DecisionAllows ==
    ASSUME NEW ms, NEW u, NEW x, NEW version, NEW type, NEW action,
           Decision(ms, u, x, version, type, action) = "ALLOW"
    PROVE  ms[u][x].version = version /\ <<ms[u][x].role, type, action>> \in Permissions
<1> PICK derived : derived = Derive(ms, u, x)
      OBVIOUS
<1>1. CASE derived.error # "none"
      BY <1>1 DEF Decision
<1>2. CASE derived.error = "none" /\ ms[u][x].version # version
      BY <1>2 DEF Decision
<1>3. CASE derived.error = "none" /\ ms[u][x].version = version
      BY <1>3 DEF Decision, HasPermission
<1> QED BY <1>1, <1>2, <1>3

\* Every decision denies or allows.
LEMMA DecisionCodes ==
    ASSUME NEW ms, NEW u, NEW x, NEW version, NEW type, NEW action
    PROVE  Decision(ms, u, x, version, type, action) \in Denials \cup {"ALLOW"}
<1> PICK derived : derived = Derive(ms, u, x)
      OBVIOUS
<1>1. CASE derived.error # "none"
      BY <1>1 DEF Decision, Denials
<1>2. CASE derived.error = "none" /\ ms[u][x].version # version
      BY <1>2 DEF Decision, Denials
<1>3. CASE derived.error = "none" /\ ms[u][x].version = version
      BY <1>3 DEF Decision, Denials
<1> QED BY <1>1, <1>2, <1>3

-----------------------------------------------------------------------------
(* Records. *)

\* The empty records have their shapes.
LEMMA EmptyShapes ==
    /\ NoContext \in ContextRecords /\ Idle \in CallRec /\ SignInPage \in View /\ ShellPage \in View
    /\ Keep \in SetCookies /\ ClearTokens \in SetCookies /\ ClearAll \in SetCookies
<1>1. NoContext \in ContextRecords
      BY AuthAssumption DEF NoContext, ContextRecords, Roles, People, Places
<1>2. Keep \in SetCookies
      BY AuthAssumption DEF Keep, SetCookies, Places
<1>3. ClearTokens \in SetCookies
      BY <1>2, AuthAssumption DEF ClearTokens, SetCookies, Places
<1>4. ClearAll \in SetCookies
      BY <1>3, AuthAssumption DEF ClearAll, SetCookies, Places
<1>5. Idle \in CallRec
      BY <1>1, <1>2, AuthAssumption DEF Idle, CallRec, Instants, Kinds, Codes, People, Places
<1>6. SignInPage \in View
      BY <1>1, AuthAssumption DEF SignInPage, View, Statuses, People, Places
<1>7. ShellPage \in View
      BY <1>6 DEF ShellPage, View
<1> QED BY <1>1, <1>2, <1>3, <1>4, <1>5, <1>6, <1>7

\* What carries no tokens says nothing of a session.
LEMMA EmptySets ==
    ASSUME NEW p, NEW s \in {Keep, ClearTokens, ClearAll}
    PROVE  SetsTrue(p, s)
<1>1. Keep.sid = -1 /\ Keep.aal = 1
      BY DEF Keep
<1>2. ClearTokens.sid = 0 /\ ClearTokens.aal = 1
      BY <1>1 DEF ClearTokens, Keep
<1>3. ClearAll.sid = 0 /\ ClearAll.aal = 1
      BY <1>2, EmptyShapes DEF ClearAll, SetCookies
<1> QED BY <1>1, <1>2, <1>3, EmptyShapes DEF SetsTrue

\* No call is a true call.
LEMMA IdleTrue ==
    ASSUME NEW p, NEW w
    PROVE  CallTrue(p, w, Idle)
<1>1. Idle.at = "idle" /\ Idle.kind = "none" /\ Idle.sets = Keep /\ ~Idle.late
      BY DEF Idle
<1> QED BY <1>1, EmptyShapes, EmptySets DEF CallTrue, SentTrue, LateRefused, FoundTrue

\* A call that leaves with the cookies of a jar carries what the jar says.
LEMMA CallLeaves ==
    ASSUME NEW j, JarTrue(provider, j), ProviderTrue(provider, enrolled),
           NEW kind \in Kinds, NEW hint \in Places, NEW named \in BOOLEAN, NEW user \in People,
           kind = "sign-in" => user \in Users
    PROVE  LET m == Call(j, kind, hint, named, user)
           IN  /\ CallTrue(provider, was, m) /\ m.at = "sent" /\ m.kind = kind
               /\ kind = "ops-session" /\ hint # NoTenant => m.hint = hint
<1>1. PICK sid : sid = IF kind = "refresh" THEN j.refresh ELSE j.access.sid
      OBVIOUS
<1>2. PICK over : over = (sid \in Sids /\ ~provider[sid].live)
      OBVIOUS
<1>3. PICK asked : asked = IF hint # NoTenant THEN hint ELSE j.tenant
      OBVIOUS
<1>4. sid \in 0..MaxSessions /\ over \in BOOLEAN /\ asked \in Places /\ j.access.aal \in {1, 2}
      BY <1>1, <1>2, <1>3 DEF JarTrue, Jar
<1>5. PICK sent : sent = [Idle EXCEPT !.at = "sent", !.kind = kind, !.user = user, !.named = named]
      OBVIOUS
<1>6. /\ sent \in CallRec /\ sent.at = "sent" /\ sent.kind = kind /\ sent.user = user
      /\ sent.sets = Keep /\ sent.sid = 0 /\ sent.aal = 1 /\ sent.late = FALSE /\ sent.code = "none"
      BY <1>5, EmptyShapes DEF Idle, CallRec, Instants
<1>7. PICK m : m = Call(j, kind, hint, named, user)
      OBVIOUS
<1>8. m = CASE kind = "sign-in" -> [sent EXCEPT !.hint = asked]
            [] kind \in Reads -> [sent EXCEPT !.sid = sid, !.aal = j.access.aal, !.late = over,
                                              !.hint = asked]
            [] kind = "command" -> sent
            [] OTHER -> [sent EXCEPT !.sid = sid]
      BY <1>1, <1>2, <1>3, <1>5, <1>7 DEF Call
<1>9. CASE kind = "sign-in"
  <2>1. m = [sent EXCEPT !.hint = asked]
        BY <1>8, <1>9 DEF Reads
  <2>2. m \in CallRec /\ m.at = "sent" /\ m.kind = kind /\ m.user = user /\ m.sets = Keep /\ m.sid = 0
        /\ m.aal = 1 /\ m.late = FALSE
        BY <2>1, <1>4, <1>6 DEF CallRec
  <2> QED BY <1>7, <1>9, <2>2, EmptySets DEF CallTrue, SentTrue, LateRefused, FoundTrue
<1>10. CASE kind \in Reads
  <2>1. m = [sent EXCEPT !.sid = sid, !.aal = j.access.aal, !.late = over, !.hint = asked]
        BY <1>8, <1>10 DEF Reads
  <2>2. /\ m \in CallRec /\ m.at = "sent" /\ m.kind = kind /\ m.sets = Keep /\ m.sid = sid
        /\ m.aal = j.access.aal /\ m.late = over /\ m.hint = asked /\ m.code = "none"
        BY <2>1, <1>4, <1>6 DEF CallRec
  <2>3. sid = j.access.sid
        BY <1>1, <1>10 DEF Reads
  <2>4. SentTrue(provider, m)
        BY <2>2, <2>3, <1>10 DEF SentTrue, JarTrue, Reads
  <2>5. over => sid \in Sids /\ ~provider[sid].live
        BY <1>2, Zenon
  <2>6. over => Opened(provider, sid)
        BY <2>3, <2>5 DEF JarTrue, Sids
  <2>7. LateRefused(provider, m)
        BY <2>2, <2>5, <2>6 DEF LateRefused
  <2> QED BY <1>3, <1>7, <2>2, <2>4, <2>7, EmptySets DEF CallTrue, FoundTrue
<1>11. CASE kind \notin Reads \cup {"sign-in", "command"}
  <2>1. m = [sent EXCEPT !.sid = sid]
        BY <1>8, <1>11
  <2>2. m \in CallRec /\ m.at = "sent" /\ m.kind = kind /\ m.sets = Keep /\ m.sid = sid /\ m.aal = 1
        BY <2>1, <1>4, <1>6 DEF CallRec
  <2>3. SentTrue(provider, m)
        BY <2>2, <1>1, <1>11 DEF SentTrue, JarTrue
  <2> QED BY <1>7, <1>11, <2>2, <2>3, EmptySets DEF CallTrue, LateRefused, FoundTrue, Reads
<1>12. CASE kind = "command"
  <2>1. m = sent
        BY <1>8, <1>12 DEF Reads
  <2> QED BY <2>1, <1>6, <1>7, <1>12, EmptySets DEF CallTrue, SentTrue, LateRefused, FoundTrue, Reads
<1> QED BY <1>9, <1>10, <1>11, <1>12

\* The answer to call m.
Reply(m, code, ctx, eligible, sets) ==
    [Idle EXCEPT !.at = "answered", !.kind = m.kind, !.named = m.named,
                 !.user = IF code = "SELECT" THEN m.user ELSE NoUser,
                 !.late = m.late, !.code = code, !.ctx = ctx,
                 !.eligible = eligible, !.sets = sets]

\* What an answer may be composed of.
Composed(p, w, m, code, ctx, eligible, sets) ==
    /\ m \in CallRec /\ code \in Codes /\ ctx \in ContextRecords /\ eligible \in SUBSET Tenants
    /\ SetsTrue(p, sets)
    /\ code = "SELECT" => eligible # {}
    /\ m.kind = "sign-in" /\ code = "SELECT" => m.user \in Users
    /\ m.late /\ m.kind \in Reads => code # "ALLOW"
    /\ m.kind = "ops-session" /\ code = "ALLOW" => Vouched(p, w, ctx)

\* An answer composed of what is true is true.
LEMMA AnswerTrue ==
    ASSUME NEW p, NEW w, NEW m, NEW code, NEW ctx, NEW eligible, NEW sets,
           Composed(p, w, m, code, ctx, eligible, sets)
    PROVE  LET r == Reply(m, code, ctx, eligible, sets)
           IN  CallTrue(p, w, r) /\ r.at = "answered" /\ r.kind = m.kind /\ r.code = code /\ r.ctx = ctx
<1> PICK r : r = Reply(m, code, ctx, eligible, sets)
      OBVIOUS
<1>1. /\ m \in CallRec /\ code \in Codes /\ ctx \in ContextRecords /\ eligible \in SUBSET Tenants
      /\ SetsTrue(p, sets)
      BY DEF Composed
<1>2. /\ r.at = "answered" /\ r.kind = m.kind /\ r.code = code /\ r.ctx = ctx
      /\ r.late = m.late /\ r.sets = sets /\ r.eligible = eligible
      /\ code = "SELECT" => r.user = m.user
      BY DEF Reply, Idle
<1>3. PICK user : user = IF code = "SELECT" THEN m.user ELSE NoUser
      OBVIOUS
<1>4. user \in People /\ sets \in SetCookies
      BY <1>3, <1>1 DEF CallRec, People, SetsTrue
<1>5. r = [Idle EXCEPT !.at = "answered", !.kind = m.kind, !.named = m.named, !.user = user,
                       !.late = m.late, !.code = code, !.ctx = ctx,
                       !.eligible = eligible, !.sets = sets]
      BY <1>3 DEF Reply
<1>6. PICK r1 : r1 = [Idle EXCEPT !.at = "answered", !.kind = m.kind, !.named = m.named, !.user = user]
      OBVIOUS
<1>7. r = [r1 EXCEPT !.late = m.late, !.code = code, !.ctx = ctx, !.eligible = eligible, !.sets = sets]
      BY <1>5, <1>6 DEF Idle
<1>8. r1 \in CallRec
      BY <1>4, <1>6, <1>1, EmptyShapes DEF CallRec, Instants
<1>9. r \in CallRec
  <2>1. m.late \in BOOLEAN /\ eligible \in SUBSET Tenants /\ code \in Codes /\ ctx \in ContextRecords
        BY <1>1 DEF CallRec
  <2>2. PICK r2 : r2 = [r1 EXCEPT !.late = m.late, !.code = code, !.ctx = ctx]
        OBVIOUS
  <2>3. r = [r2 EXCEPT !.eligible = eligible, !.sets = sets]
        BY <2>2, <1>7, <1>8 DEF CallRec
  <2>4. r2 \in CallRec
        BY <2>1, <2>2, <1>8 DEF CallRec
  <2> QED BY <2>1, <2>3, <2>4, <1>4 DEF CallRec
<1>10. SentTrue(p, r) /\ FoundTrue(p, w, r)
      BY <1>2 DEF SentTrue, FoundTrue, Composed
<1>11. LateRefused(p, r)
  <2>1. m.late \in BOOLEAN
        BY <1>1 DEF CallRec
  <2> QED BY <2>1, <1>2 DEF LateRefused, Composed
<1> QED BY <1>2, <1>4, <1>9, <1>10, <1>11, <1>1 DEF CallTrue

-----------------------------------------------------------------------------
(* The two ways a channel changes: the server moves a call on, and a page  *)
(* turns to what comes next.                                               *)
Follows(m, r) ==
    /\ r.kind = m.kind /\ m.at \in {"sent", "admitted"} /\ r.at \in {"admitted", "answered"}
    /\ \A x \in Places : Fits(x, m) => Fits(x, r)

\* Whatever is true of a call that is moved on, the rest of the state stands with it.
LEMMA ServedKeeps ==
    ASSUME AuthInv, NEW c \in Chans, NEW r,
           net' = [net EXCEPT ![c] = r], UNCHANGED <<jar, tab>>,
           CallTrue(provider', was', r), Follows(net[c], r),
           ProviderTrue(provider', enrolled'), MembersTrue(members', was'),
           SessionsExtend(provider, provider'), VersionsExtend(was, was')
    PROVE  AuthInv'
<1>1. JarTrue(provider', jar')
      BY JarExtends DEF AuthInv
<1>2. \A d \in Chans : net'[d] = IF d = c THEN r ELSE net[d]
      BY DEF AuthInv, ChannelsTrue
<1>3. ChannelsTrue'
  <2>1. r \in CallRec
        BY DEF CallTrue
  <2>2. \A d \in Chans : CallTrue(provider', was', net'[d])
        BY <1>2, CallExtends DEF AuthInv, ChannelsTrue
  <2> QED BY <2>1, <2>2 DEF AuthInv, ChannelsTrue
<1>4. TabsTrue'
  <2>1. \A t \in Tabs : tab[t] \in View /\ tab[t].choice \in Places
        BY DEF AuthInv, TabsTrue, View
  <2>2. \A t \in Tabs : ViewTrue(provider', was', tab[t])
        BY ViewExtends DEF AuthInv, TabsTrue
  <2>3. \A t \in Tabs : Awaits(tab[t], net'[Page(t)])
        BY <1>2, <2>1 DEF AuthInv, TabsTrue, Awaits, Follows, Chans
  <2>4. \A t \in Tabs : net'[Page(t)].kind = net[Page(t)].kind
        BY <1>2 DEF Follows, Chans
  <2> QED BY <2>2, <2>3, <2>4 DEF AuthInv, TabsTrue
<1> QED BY <1>1, <1>3, <1>4 DEF AuthInv

\* A page that turns to a view and a call, each true and fitting, with the cookies it was given.
LEMMA PageKeeps ==
    ASSUME AuthInv, NEW t \in Tabs, NEW v, NEW call, NEW j,
           Becomes(t, v, call, j), ViewTrue(provider, was, v), CallTrue(provider, was, call),
           Awaits(v, call), Steady(v, call.kind), JarTrue(provider, j)
    PROVE  AuthInv'
<1>1. /\ Page(t) \in Chans
      /\ \A d \in Chans : net'[d] = IF d = Page(t) THEN call ELSE net[d]
      /\ \A s \in Tabs : tab'[s] = IF s = t THEN v ELSE tab[s]
      /\ provider' = provider /\ enrolled' = enrolled /\ members' = members /\ was' = was
      /\ jar' = j
      BY DEF Becomes, AuthInv, ChannelsTrue, TabsTrue, Chans, Server
<1>2. \A s \in Tabs : /\ Page(s) \in Chans /\ Command(s) \in Chans /\ Command(s) # Page(t)
                      /\ Page(s) = Page(t) => s = t
      BY DEF Chans, Page, Command
<1>3. ChannelsTrue'
  <2>1. net' \in [Chans -> CallRec]
        BY DEF Becomes, AuthInv, ChannelsTrue, CallTrue
  <2> QED BY <2>1, <1>1, <1>2 DEF AuthInv, ChannelsTrue
<1>4. TabsTrue'
  <2>1. tab' \in [Tabs -> View]
        BY DEF Becomes, AuthInv, TabsTrue, ViewTrue
  <2> QED BY <2>1, <1>1, <1>2 DEF AuthInv, TabsTrue
<1> QED BY <1>1, <1>3, <1>4 DEF AuthInv

-----------------------------------------------------------------------------
(* The server. *)

\* Where the server only answers, everything it knew still stands.
LEMMA SameExtends ==
    ASSUME AuthInv, UNCHANGED <<provider, members, was>>, enrolled \subseteq enrolled'
    PROVE  /\ ProviderTrue(provider', enrolled') /\ MembersTrue(members', was')
           /\ SessionsExtend(provider, provider') /\ VersionsExtend(was, was')
BY DEF AuthInv, ProviderTrue, SessionsExtend, VersionsExtend

\* An answer that is composed of what is true.
LEMMA AnswerKeeps ==
    ASSUME AuthInv, NEW c \in Chans, net[c].at \in {"sent", "admitted"},
           NEW code \in Codes, NEW ctx \in ContextRecords, NEW eligible \in SUBSET Tenants, NEW sets,
           Answer(c, code, ctx, eligible, sets), SetsTrue(provider', sets), UNCHANGED <<jar, tab>>,
           code = "SELECT" => eligible # {},
           net[c].kind = "sign-in" /\ code = "SELECT" => net[c].user \in Users,
           net[c].late /\ net[c].kind \in Reads => code # "ALLOW",
           net[c].kind = "ops-session" /\ code = "ALLOW" =>
              /\ Vouched(provider', was', ctx)
              /\ \A x \in Places : Fits(x, net[c]) /\ x # NoTenant => ctx.tenant = x,
           ProviderTrue(provider', enrolled'), MembersTrue(members', was'),
           SessionsExtend(provider, provider'), VersionsExtend(was, was')
    PROVE  AuthInv'
<1>1. PICK r : r = Reply(net[c], code, ctx, eligible, sets)
      OBVIOUS
<1>2. net' = [net EXCEPT ![c] = r]
      BY <1>1 DEF Answer, Reply
<1>3. net[c] \in CallRec
      BY DEF AuthInv, ChannelsTrue
<1>4. PICK p, w : p = provider' /\ w = was'
      OBVIOUS
<1>5. PICK m : m = net[c]
      OBVIOUS
<1>6. /\ CallTrue(p, w, r) /\ r.at = "answered" /\ r.kind = m.kind
      /\ r.code = code /\ r.ctx = ctx
  <2>1. Composed(p, w, m, code, ctx, eligible, sets)
        BY <1>3, <1>4, <1>5 DEF Composed
  <2> QED BY <2>1, <1>1, <1>5, AnswerTrue
<1>7. Follows(net[c], r)
      BY <1>5, <1>6 DEF Follows, Fits
<1> QED BY <1>2, <1>4, <1>5, <1>6, <1>7, ServedKeeps

\* A denial, which says nothing of anybody.
LEMMA RefuseKeeps ==
    ASSUME AuthInv, NEW c \in Chans, net[c].at \in {"sent", "admitted"},
           NEW code \in Denials, NEW sets \in {Keep, ClearTokens, ClearAll},
           Answer(c, code, NoContext, {}, sets), UNCHANGED <<jar, tab, members, was>>,
           ProviderTrue(provider', enrolled'), SessionsExtend(provider, provider')
    PROVE  AuthInv'
<1>1. code \in Codes /\ code # "ALLOW" /\ code # "SELECT"
      BY DEF Codes, Denials
<1>2. MembersTrue(members', was') /\ VersionsExtend(was, was')
      BY DEF AuthInv, VersionsExtend
<1>3. SetsTrue(provider', sets)
      BY EmptySets
<1>4. {} \in SUBSET Tenants
      OBVIOUS
<1> QED BY <1>1, <1>2, <1>3, <1>4, EmptyShapes, AnswerKeeps

\* A session the provider opens: its number was never used before.
LEMMA OpenExtends ==
    ASSUME AuthInv, NEW sid \in Sids, Fresh(sid), NEW u \in Users, NEW aal \in {1, 2},
           provider' = OpenSession(sid, u, aal), enrolled \subseteq enrolled',
           aal = 2 => u \in enrolled'
    PROVE  /\ ProviderTrue(provider', enrolled') /\ SessionsExtend(provider, provider')
           /\ provider'[sid].user = u /\ provider'[sid].aal = aal
<1>1. provider[sid] = NoSession /\ NoSession.user \notin Users
      BY AuthAssumption DEF Fresh, NoSession
<1>2. \A s \in Sids : provider'[s] = IF s = sid THEN [user |-> u, aal |-> aal, live |-> TRUE]
                                                ELSE provider[s]
      BY DEF OpenSession, AuthInv, ProviderTrue
<1>3. provider' \in [Sids -> Session]
      BY DEF OpenSession, AuthInv, ProviderTrue, Session, People
<1>4. ProviderTrue(provider', enrolled')
      BY <1>2, <1>3 DEF AuthInv, ProviderTrue
<1>5. SessionsExtend(provider, provider')
      BY <1>1, <1>2 DEF SessionsExtend
<1> QED BY <1>2, <1>4, <1>5

\* A session that ends stays the session it was.
LEMMA EndExtends ==
    ASSUME AuthInv, NEW sid, provider' = EndSession(sid), enrolled' = enrolled
    PROVE  ProviderTrue(provider', enrolled') /\ SessionsExtend(provider, provider')
<1>1. CASE sid = 0
      BY <1>1 DEF EndSession, AuthInv, ProviderTrue, SessionsExtend
<1>2. CASE sid # 0
  <2>1. provider' = [provider EXCEPT ![sid].live = FALSE]
        BY <1>2 DEF EndSession
  <2>2. provider' \in [Sids -> Session]
        BY <2>1 DEF AuthInv, ProviderTrue, Session
  <2>3. \A s \in Sids : /\ provider'[s].user = provider[s].user /\ provider'[s].aal = provider[s].aal
                        /\ provider'[s].live => provider[s].live
        BY <2>1 DEF AuthInv, ProviderTrue, Session
  <2>5. ProviderTrue(provider', enrolled')
        BY <2>2, <2>3 DEF AuthInv, ProviderTrue
  <2>6. SessionsExtend(provider, provider')
        BY <2>3 DEF SessionsExtend
  <2> QED BY <2>5, <2>6
<1> QED BY <1>1, <1>2

\* What is derived for an actor is vouched for.
LEMMA DerivedIsVouched ==
    ASSUME MembersTrue(members, was), NEW u \in Users, NEW x \in Tenants, NEW sid \in Sids, NEW p,
           members[u][x].active, p[sid].user = u, RequireAal2 => p[sid].aal = 2
    PROVE  Vouched(p, was, ContextOf(u, x, sid)) /\ ContextOf(u, x, sid) \in ContextRecords
<1>1. /\ members[u][x] \in Membership /\ was[u][x] \in Seq(Membership)
      /\ members[u][x].version \in DOMAIN was[u][x]
      /\ members[u][x] = was[u][x][members[u][x].version]
  <2>1. /\ members[u][x] \in Membership /\ was[u][x] \in Seq(Membership)
        /\ members[u][x].version = Len(was[u][x]) /\ members[u][x].version > 0
        /\ members[u][x] = was[u][x][members[u][x].version]
        BY DEF MembersTrue
  <2>2. members[u][x].version \in 1..Len(was[u][x])
        BY <2>1 DEF Membership
  <2> QED BY <2>1, <2>2
<1>2. PICK k : k = ContextOf(u, x, sid)
      OBVIOUS
<1>3. /\ k.user = u /\ k.tenant = x /\ k.role = members[u][x].role /\ k.version = members[u][x].version
      /\ k.sid = sid /\ k.settings = FALSE
      BY <1>2 DEF ContextOf
<1>4. Vouched(p, was, k)
  <2>1. was[u][x][k.version].active /\ was[u][x][k.version].role = k.role
        BY <1>1, <1>3
  <2> QED BY <2>1, <1>1, <1>3 DEF Vouched
<1>5. k \in ContextRecords
      BY <1>1, <1>2, AuthAssumption DEF ContextOf, ContextRecords, Membership, People, Places, Sids
<1> QED BY <1>2, <1>4, <1>5

\* A call that is admitted as an actor vouched for.
LEMMA AdmitKeeps ==
    ASSUME AuthInv, NEW c \in Chans, net[c].at = "sent", net[c].kind \in Reads \cup {"sign-in"},
           NEW ctx \in ContextRecords, Vouched(provider', was', ctx), Admit(c, ctx),
           UNCHANGED <<enrolled, members, was, jar, tab>>,
           net[c].hint # NoTenant => ctx.tenant = net[c].hint,
           ~(net[c].late /\ net[c].kind \in Reads),
           ProviderTrue(provider', enrolled'), SessionsExtend(provider, provider')
    PROVE  AuthInv'
<1>1. PICK m : m = net[c]
      OBVIOUS
<1>2. PICK r : r = [m EXCEPT !.at = "admitted", !.ctx = ctx, !.sid = 0, !.aal = 1, !.hint = NoTenant]
      OBVIOUS
<1>3. net' = [net EXCEPT ![c] = r]
      BY <1>1, <1>2 DEF Admit, AuthInv, ChannelsTrue
<1>4. m \in CallRec
      BY <1>1 DEF AuthInv, ChannelsTrue
<1>5. /\ r \in CallRec /\ r.at = "admitted" /\ r.ctx = ctx /\ r.kind = m.kind /\ r.late = m.late
      /\ r.sets = m.sets
  <2>1. PICK r1 : r1 = [m EXCEPT !.at = "admitted", !.ctx = ctx]
        OBVIOUS
  <2>2. r = [r1 EXCEPT !.sid = 0, !.aal = 1, !.hint = NoTenant]
        BY <2>1, <1>2, <1>4 DEF CallRec
  <2>3. /\ r1 \in CallRec /\ r1.at = "admitted" /\ r1.ctx = ctx /\ r1.kind = m.kind
        /\ r1.late = m.late /\ r1.sets = m.sets
        BY <2>1, <1>4 DEF CallRec, Instants
  <2>4. 0 \in 0..MaxSessions /\ NoTenant \in Places
        BY AuthAssumption DEF Places
  <2> QED BY <2>2, <2>3, <2>4 DEF CallRec
<1>6. PICK p, w : p = provider' /\ w = was'
      OBVIOUS
<1>7. CallTrue(p, w, r)
  <2>1. SetsTrue(p, m.sets)
        BY <1>1, <1>6 DEF AuthInv, ChannelsTrue, CallTrue, SetsTrue, SessionsExtend, Opened
  <2> QED BY <2>1, <1>1, <1>5, <1>6 DEF CallTrue, SentTrue, LateRefused, FoundTrue
<1>8. Follows(m, r)
      BY <1>1, <1>5 DEF Follows, Fits, Places
<1>9. MembersTrue(members', was') /\ VersionsExtend(was, was')
      BY DEF AuthInv, VersionsExtend
<1> QED BY <1>1, <1>3, <1>6, <1>7, <1>8, <1>9, ServedKeeps

\* The tokens of a session there is say what is true of it.
LEMMA TokensTrue ==
    ASSUME NEW sid \in Sids, NEW x \in Places \cup {"keep"}, ProviderTrue(provider', enrolled'),
           provider'[sid].user \in Users
    PROVE  SetsTrue(provider', Tokens(sid, x))
<1>1. PICK s : s = Tokens(sid, x)
      OBVIOUS
<1>2. PICK aal \in {1, 2} : aal = provider'[sid].aal
      BY DEF ProviderTrue, Session
<1>3. s = [sid |-> sid, aal |-> aal, tenant |-> x]
      BY <1>1, <1>2 DEF Tokens
<1>4. s \in SetCookies
  <2>1. sid \in -1..MaxSessions
        BY AuthAssumption DEF Sids
  <2> QED BY <2>1, <1>3 DEF SetCookies
<1>5. s.sid = sid /\ s.aal = aal /\ sid > 0
      BY <1>3, AuthAssumption DEF Sids
<1> QED BY <1>1, <1>2, <1>4, <1>5 DEF SetsTrue, Opened

\* Deriving the tenant of a call refuses it, asks which, or admits what is vouched for.
LEMMA TenancyKeeps ==
    ASSUME AuthInv, NEW c \in Chans, net[c].at = "sent", net[c].kind \in Reads \cup {"sign-in"},
           NEW u \in Users, NEW sid \in Sids, NEW aal, Tenancy(c, net[c], u, sid, aal),
           UNCHANGED <<enrolled, members, was, jar, tab>>,
           provider'[sid].user = u,
           RequireAal2 => provider'[sid].aal = 2 \/ (net[c].kind = "sign-in" /\ aal # 2),
           ~(net[c].late /\ net[c].kind \in Reads),
           ProviderTrue(provider', enrolled'), SessionsExtend(provider, provider')
    PROVE  AuthInv'
<1>1. PICK d : d = Derive(members, u, net[c].hint)
      OBVIOUS
<1>2. /\ d.error \in {"none", "MEMBERSHIP_INACTIVE", "TENANT_UNAUTHORIZED",
                      "TENANT_OVERRIDE_DENIED", "TENANT_AMBIGUOUS"}
      /\ d.error = "TENANT_AMBIGUOUS" => Eligible(members, u) # {}
      /\ d.error = "none" => /\ d.tenant \in Tenants /\ members[u][d.tenant].active
                             /\ net[c].hint # NoTenant => d.tenant = net[c].hint
      BY <1>1, DerivedTenant
<1>3. MembersTrue(members', was') /\ VersionsExtend(was, was')
      BY DEF AuthInv, VersionsExtend
<1>4. CASE d.error = "TENANT_AMBIGUOUS" /\ net[c].hint = NoTenant
  <2>1. AskWhich(c, u)
        BY <1>1, <1>4 DEF Tenancy
  <2>2. Answer(c, "SELECT", NoContext, Eligible(members, u), Keep)
        BY <2>1 DEF AskWhich
  <2>3. Eligible(members, u) \in SUBSET Tenants
        BY DEF Eligible
  <2>4. net[c].kind = "sign-in" => net[c].user \in Users
        BY DEF AuthInv, ChannelsTrue, CallTrue, SentTrue
  <2>5. SetsTrue(provider', Keep)
        BY EmptySets
  <2>6. "SELECT" \in Codes
        BY DEF Codes
  <2> QED BY <2>2, <2>3, <2>4, <2>5, <2>6, <1>2, <1>3, <1>4, EmptyShapes, AnswerKeeps
<1>5. CASE d.error # "none" /\ ~(d.error = "TENANT_AMBIGUOUS" /\ net[c].hint = NoTenant)
  <2>1. Answer(c, PublicCode(d.error), NoContext, {}, Keep)
        BY <1>1, <1>5 DEF Tenancy, Refuse
  <2>2. PublicCode(d.error) \in Denials
        BY <1>2, <1>5, TenancyCodes
  <2> QED BY <2>1, <2>2, RefuseKeeps
<1>6. CASE d.error = "none"
  <2>1. PICK ctx : ctx = ContextOf(u, d.tenant, sid)
        OBVIOUS
  <2>2. /\ ctx.user = u /\ ctx.tenant = d.tenant /\ ctx.sid = sid /\ ctx \in ContextRecords
    <3>1. ctx.user = u /\ ctx.tenant = d.tenant /\ ctx.sid = sid
          BY <2>1 DEF ContextOf
    <3>2. /\ members[u][d.tenant] \in Membership
          BY <1>2, <1>6 DEF AuthInv, MembersTrue
    <3>3. ctx \in ContextRecords
          BY <2>1, <3>2, <1>2, <1>6, AuthAssumption
          DEF ContextOf, ContextRecords, Membership, People, Places, Sids
    <3> QED BY <3>1, <3>3
  <2>3. IF net[c].kind = "sign-in" /\ RequireAal2 /\ aal # 2
        THEN AnswerFactorFirst(c, ctx) ELSE Admit(c, ctx)
        BY <1>1, <1>6, <2>1 DEF Tenancy
  <2>4. CASE net[c].kind = "sign-in" /\ RequireAal2 /\ aal # 2
    <3>1. PICK code \in {"MFA_CHALLENGE", "MFA_ENROLL"} :
             Answer(c, code, ctx, {}, Tokens(sid, d.tenant))
          BY <2>2, <2>3, <2>4 DEF AnswerFactorFirst
    <3>2. code \in Codes /\ {} \in SUBSET Tenants /\ d.tenant \in Places
          BY <1>2, <1>6 DEF Codes, Places
    <3>3. SetsTrue(provider', Tokens(sid, d.tenant))
          BY <3>2, TokensTrue
    <3>4. code # "SELECT" /\ code # "ALLOW"
          BY <3>1
    <3> QED BY <3>1, <3>2, <3>3, <3>4, <2>2, <2>4, <1>3, AnswerKeeps
  <2>5. CASE ~(net[c].kind = "sign-in" /\ RequireAal2 /\ aal # 2)
    <3>1. Vouched(provider', was', ctx)
      <4>1. PICK p : p = provider'
            OBVIOUS
      <4>2. RequireAal2 => p[sid].aal = 2
            BY <4>1, <2>5
      <4>3. Vouched(p, was, ctx)
            BY <4>1, <4>2, <1>2, <1>6, <2>1, DerivedIsVouched DEF AuthInv
      <4> QED BY <4>1, <4>3
    <3> QED BY <3>1, <2>2, <2>3, <2>5, <1>2, <1>6, AdmitKeeps
  <2> QED BY <2>4, <2>5
<1> QED BY <1>4, <1>5, <1>6

\* Signing in: refused, or a session is opened and the tenant derived.
LEMMA SignInServed ==
    ASSUME AuthInv, NEW c \in Chans, ServeSignIn(c)
    PROVE  AuthInv'
<1>1. net[c].at = "sent" /\ net[c].kind = "sign-in" /\ net[c].kind \notin Reads
      BY DEF ServeSignIn, Reads
<1>2. net[c].user \in Users
      BY <1>1 DEF AuthInv, ChannelsTrue, CallTrue, SentTrue
<1>3. UNCHANGED <<enrolled, members, was, jar, tab>>
      BY DEF ServeSignIn
<1>4. ASSUME NEW raised \in {"PREAUTH_QUOTA_EXCEEDED", "AUTHENTICATION_INVALID",
                             "AUTHENTICATION_PROVIDER_UNAVAILABLE"},
             Refuse(c, PublicCode(raised)), UNCHANGED provider
      PROVE  AuthInv'
  <2>1. PublicCode(raised) \in Denials
        BY OtherCodes
  <2>2. Answer(c, PublicCode(raised), NoContext, {}, Keep)
        BY <1>4 DEF Refuse
  <2>3. ProviderTrue(provider', enrolled') /\ SessionsExtend(provider, provider')
        BY <1>3, <1>4, SameExtends
  <2> QED BY <2>1, <2>2, <2>3, <1>1, <1>3, RefuseKeeps
<1>5. ASSUME NEW sid \in Sids, Fresh(sid), provider' = OpenSession(sid, net[c].user, 1),
             Tenancy(c, net[c], net[c].user, sid, 1)
      PROVE  AuthInv'
  <2>1. /\ ProviderTrue(provider', enrolled') /\ SessionsExtend(provider, provider')
        /\ provider'[sid].user = net[c].user
        BY <1>2, <1>3, <1>5, OpenExtends
  <2>2. PICK u \in Users, aal \in {1} : u = net[c].user
        BY <1>2
  <2>3. net[c].kind \in Reads \cup {"sign-in"} /\ ~(net[c].late /\ net[c].kind \in Reads) /\ aal # 2
        BY <1>1
  <2>4. RequireAal2 => provider'[sid].aal = 2 \/ (net[c].kind = "sign-in" /\ aal # 2)
        BY <1>1, <2>3
  <2>5. Tenancy(c, net[c], u, sid, aal) /\ provider'[sid].user = u
        BY <2>1, <2>2, <1>5
  <2> QED BY <2>1, <2>3, <2>4, <2>5, <1>1, <1>3, <1>5, TenancyKeeps
<1> QED BY <1>4, <1>5 DEF ServeSignIn

\* A read is refused unless the provider knows its session and its level.
LEMMA ReadServed ==
    ASSUME AuthInv, NEW c \in Chans, ServeRead(c)
    PROVE  AuthInv'
<1>1. net[c].at = "sent" /\ net[c].kind \in Reads
      BY DEF ServeRead
<1>2. UNCHANGED <<provider, enrolled, members, was, jar, tab>>
      BY DEF ServeRead, Server
<1>3. ProviderTrue(provider', enrolled') /\ SessionsExtend(provider, provider')
      BY <1>2, SameExtends
<1>4. ASSUME NEW code \in {"DENY_UNAUTHENTICATED", "DENY_MFA_REQUIRED"}, Refuse(c, code)
      PROVE  AuthInv'
  <2>1. Answer(c, code, NoContext, {}, Keep) /\ code \in Denials
        BY <1>4 DEF Refuse, Denials
  <2> QED BY <2>1, <1>1, <1>2, <1>3, RefuseKeeps
<1>5. ASSUME Verified(net[c].sid), ~(RequireAal2 /\ net[c].aal # 2),
             Tenancy(c, net[c], provider[net[c].sid].user, net[c].sid, net[c].aal)
      PROVE  AuthInv'
  <2>1. PICK m : m = net[c]
        OBVIOUS
  <2>2. SentTrue(provider, m) /\ LateRefused(provider, m)
        BY <2>1 DEF AuthInv, ChannelsTrue, CallTrue
  <2>3. Opened(provider, m.sid) /\ (m.aal = 2 => provider[m.sid].aal = 2) /\ provider[m.sid].live
        BY <2>1, <2>2, <1>1, <1>5 DEF SentTrue, Verified
  <2>4. m.sid \in Sids /\ provider[m.sid].user \in Users
        BY <2>3 DEF Opened
  <2>5. ~(m.late /\ m.kind \in Reads)
        BY <2>1, <2>2, <2>3, <1>1 DEF LateRefused
  <2>6. RequireAal2 => provider'[m.sid].aal = 2
        BY <2>1, <2>3, <1>2, <1>5
  <2>7. provider'[m.sid].user = provider[m.sid].user
        BY <1>2
  <2> PICK sid : sid = m.sid
        OBVIOUS
  <2> PICK u : u = provider[m.sid].user
        OBVIOUS
  <2>9. net[c].kind \in Reads \cup {"sign-in"} /\ ~(net[c].late /\ net[c].kind \in Reads)
        BY <1>1, <2>1, <2>5
  <2>10. RequireAal2 => provider'[sid].aal = 2 \/ (net[c].kind = "sign-in" /\ net[c].aal # 2)
        BY <2>6
  <2>11. /\ Tenancy(c, net[c], u, sid, net[c].aal) /\ provider'[sid].user = u
         /\ u \in Users /\ sid \in Sids
        BY <2>1, <2>4, <2>7, <1>5
  <2> QED BY <2>9, <2>10, <2>11, <1>1, <1>2, <1>3, TenancyKeeps
<1>6. CASE ~Verified(net[c].sid)
      BY <1>4, <1>6 DEF ServeRead
<1>7. CASE Verified(net[c].sid) /\ RequireAal2 /\ net[c].aal # 2
      BY <1>4, <1>7 DEF ServeRead
<1>8. CASE Verified(net[c].sid) /\ ~(RequireAal2 /\ net[c].aal # 2)
      BY <1>5, <1>8 DEF ServeRead
<1> QED BY <1>6, <1>7, <1>8

\* A context that is allowed to manage memberships stays vouched for when it says so.
LEMMA ProjectedIsVouched ==
    ASSUME MembersTrue(members, was), NEW p, NEW ctx \in ContextRecords, Vouched(p, was, ctx)
    PROVE  /\ Vouched(p, was, Projected(ctx)) /\ Projected(ctx) \in ContextRecords
           /\ Projected(ctx).tenant = ctx.tenant
<1>1. PICK x : x = Projected(ctx)
      OBVIOUS
<1>2. PICK managing \in BOOLEAN : managing <=> Decide(ctx, ManageMembership) = "ALLOW"
      OBVIOUS
<1>3. x = [ctx EXCEPT !.settings = managing]
      BY <1>1, <1>2 DEF Projected
<1>4. /\ x \in ContextRecords /\ x.user = ctx.user /\ x.tenant = ctx.tenant /\ x.role = ctx.role
      /\ x.version = ctx.version /\ x.sid = ctx.sid /\ x.settings = managing
      BY <1>3 DEF ContextRecords
<1>5. managing => <<x.role, ManageMembership[1], ManageMembership[2]>> \in Permissions
  <2>1. SUFFICES ASSUME managing
                 PROVE  <<x.role, ManageMembership[1], ManageMembership[2]>> \in Permissions
        OBVIOUS
  <2>2. PICK row : row = members[ctx.user][ctx.tenant]
        OBVIOUS
  <2>3. row.version = ctx.version
        /\ <<row.role, ManageMembership[1], ManageMembership[2]>> \in Permissions
        BY <1>2, <2>1, <2>2, DecisionAllows DEF Decide
  <2>4. row = was[ctx.user][ctx.tenant][ctx.version]
    <3>1. ctx.user \in Users /\ ctx.tenant \in Tenants
          BY DEF Vouched
    <3>2. row = was[ctx.user][ctx.tenant][row.version]
          BY <3>1, <2>2 DEF MembersTrue
    <3> QED BY <3>2, <2>3
  <2>5. row.role = x.role
        BY <2>4, <1>4 DEF Vouched
  <2> QED BY <2>3, <2>5
<1> QED BY <1>1, <1>4, <1>5 DEF Vouched

\* The decision on an admitted call: a denial, or what was derived before, which still stands.
LEMMA AuthorizeServed ==
    ASSUME AuthInv, NEW c \in Chans, Authorize(c)
    PROVE  AuthInv'
<1>1. PICK ctx : ctx = net[c].ctx
      OBVIOUS
<1>2. PICK decision : decision = Decide(ctx, ReadTenant)
      OBVIOUS
<1>3. net[c].at = "admitted" /\ UNCHANGED <<provider, enrolled, members, was, jar, tab>>
      BY DEF Authorize, Server
<1>4. /\ ProviderTrue(provider', enrolled') /\ MembersTrue(members', was')
      /\ SessionsExtend(provider, provider') /\ VersionsExtend(was, was')
      BY <1>3, SameExtends
<1>5. net[c] \in CallRec /\ LateRefused(provider, net[c]) /\ FoundTrue(provider, was, net[c])
      BY DEF AuthInv, ChannelsTrue, CallTrue
<1>6. ctx \in ContextRecords /\ Vouched(provider, was, ctx) /\ ~(net[c].late /\ net[c].kind \in Reads)
      BY <1>1, <1>3, <1>5 DEF CallRec, LateRefused, FoundTrue
<1>7. /\ Projected(ctx) \in ContextRecords /\ Projected(ctx).tenant = ctx.tenant
      /\ Vouched(provider', was', Projected(ctx))
  <2>1. PICK p : p = provider
        OBVIOUS
  <2>2. Vouched(p, was, Projected(ctx)) /\ Projected(ctx) \in ContextRecords /\ Projected(ctx).tenant = ctx.tenant
        BY <2>1, <1>6, ProjectedIsVouched DEF AuthInv
  <2> QED BY <2>1, <2>2, <1>3
<1>8. ctx.sid \in Sids /\ provider'[ctx.sid].user \in Users /\ ctx.tenant \in Places
      BY <1>3, <1>6 DEF Vouched, Places
<1>9. "ALLOW" \in Codes /\ {} \in SUBSET Tenants /\ NoContext \in ContextRecords
      BY EmptyShapes DEF Codes
<1>10. ASSUME decision # "ALLOW", Refuse(c, decision)
       PROVE  AuthInv'
  <2>1. decision \in Denials
        BY <1>2, <1>10, DecisionCodes DEF Decide
  <2>2. Answer(c, decision, NoContext, {}, Keep)
        BY <1>10 DEF Refuse
  <2> QED BY <2>1, <2>2, <1>3, <1>4, <1>10, RefuseKeeps
<1>11. ASSUME net[c].kind = "sign-in", AnswerSignIn(c, ctx)
       PROVE  AuthInv'
  <2>1. Answer(c, "ALLOW", ctx, {}, Tokens(ctx.sid, ctx.tenant))
        BY <1>11 DEF AnswerSignIn
  <2>2. SetsTrue(provider', Tokens(ctx.sid, ctx.tenant))
        BY <1>4, <1>8, TokensTrue
  <2>3. net[c].kind # "ops-session" /\ net[c].kind \notin Reads
        BY <1>11 DEF Reads
  <2> QED BY <2>1, <2>2, <2>3, <1>3, <1>4, <1>6, <1>9, <1>11, AnswerKeeps
<1>12. ASSUME net[c].kind = "auth-session", AnswerAuthSession(c, Projected(ctx))
       PROVE  AuthInv'
  <2>1. PICK sets : sets = [Keep EXCEPT !.tenant = Projected(ctx).tenant]
        OBVIOUS
  <2>2. Answer(c, "ALLOW", Projected(ctx), {}, sets)
        BY <2>1, <1>12 DEF AnswerAuthSession
  <2>3. SetsTrue(provider', sets)
    <3>1. sets.sid = -1 /\ sets.aal = 1
          BY <2>1 DEF Keep
    <3>2. sets \in SetCookies
          BY <2>1, <1>7, <1>8, EmptyShapes DEF SetCookies
    <3> QED BY <3>1, <3>2 DEF SetsTrue
  <2> QED BY <2>2, <2>3, <1>3, <1>4, <1>6, <1>7, <1>9, <1>12, AnswerKeeps
<1>13. ASSUME net[c].kind = "ops-session", AnswerOpsSession(c, Projected(ctx))
       PROVE  AuthInv'
  <2>1. Answer(c, "ALLOW", Projected(ctx), Eligible(members, Projected(ctx).user), Keep)
        BY <1>13 DEF AnswerOpsSession
  <2>2. Eligible(members, Projected(ctx).user) \in SUBSET Tenants
        BY DEF Eligible
  <2>3. SetsTrue(provider', Keep)
        BY EmptySets
  <2>4. \A x \in Places : Fits(x, net[c]) /\ x # NoTenant => Projected(ctx).tenant = x
    <3>1. ASSUME NEW x \in Places, Fits(x, net[c]), x # NoTenant
          PROVE  net[c].ctx.tenant = x
          BY <3>1, <1>3, <1>13 DEF Fits
    <3>2. Projected(ctx).tenant = net[c].ctx.tenant
          BY <1>1, <1>7
    <3> QED BY <3>1, <3>2, Zenon
  <2> QED BY <2>1, <2>2, <2>3, <2>4, <1>3, <1>4, <1>6, <1>7, <1>9, <1>13, AnswerKeeps
<1> QED BY <1>1, <1>2, <1>10, <1>11, <1>12, <1>13 DEF Authorize

\* A session whose cookie a call carries, and that the provider knows, is one it opened.
LEMMA VerifiedIsOpened ==
    ASSUME AuthInv, NEW c \in Chans, net[c].at = "sent", Verified(net[c].sid)
    PROVE  net[c].sid \in Sids /\ provider[net[c].sid].user \in Users
BY DEF AuthInv, ChannelsTrue, CallTrue, SentTrue, Verified, Opened

\* An answer of another route than the session routes and sign-in: whom it speaks of does not matter.
LEMMA OtherAnswerKeeps ==
    ASSUME AuthInv, NEW c \in Chans, net[c].at = "sent", net[c].kind \notin Reads \cup {"sign-in"},
           NEW code \in Codes, code # "SELECT", NEW ctx \in ContextRecords, NEW sets,
           SetsTrue(provider', sets), Answer(c, code, ctx, {}, sets), UNCHANGED <<jar, tab, members, was>>,
           ProviderTrue(provider', enrolled'), SessionsExtend(provider, provider')
    PROVE  AuthInv'
<1>1. MembersTrue(members', was') /\ VersionsExtend(was, was')
      BY DEF AuthInv, VersionsExtend
<1>2. net[c].kind # "ops-session" /\ net[c].kind # "sign-in" /\ net[c].kind \notin Reads
      BY DEF Reads
<1>3. {} \in SUBSET Tenants
      OBVIOUS
<1> QED BY <1>1, <1>2, <1>3, AnswerKeeps

\* A refresh carries the session on at its level, or clears the tokens.
LEMMA RefreshServed ==
    ASSUME AuthInv, NEW c \in Chans, ServeRefresh(c)
    PROVE  AuthInv'
<1>1. /\ net[c].at = "sent" /\ net[c].kind = "refresh"
      /\ UNCHANGED <<provider, enrolled, members, was, jar, tab>>
      BY DEF ServeRefresh, Server
<1>2. ProviderTrue(provider', enrolled') /\ SessionsExtend(provider, provider')
      BY <1>1, SameExtends
<1>3. ASSUME NEW raised \in {"REFRESH_SESSION_REQUIRED", "AUTHENTICATION_INVALID"},
             Answer(c, PublicCode(raised), NoContext, {}, ClearTokens)
      PROVE  AuthInv'
  <2>1. PublicCode(raised) \in Denials
        BY OtherCodes
  <2> QED BY <2>1, <1>1, <1>2, <1>3, RefuseKeeps
<1>4. ASSUME Verified(net[c].sid), Answer(c, "ALLOW", NoContext, {}, Renewed(net[c].sid))
      PROVE  AuthInv'
  <2>1. PICK sid : sid = net[c].sid
        OBVIOUS
  <2>2. sid \in Sids /\ provider'[sid].user \in Users
        BY <2>1, <1>1, <1>4, VerifiedIsOpened
  <2>3. PICK sets : sets = Renewed(sid)
        OBVIOUS
  <2>4. SetsTrue(provider', sets)
    <3>1. PICK aal \in {1, 2} : aal = provider[sid].aal
          BY <2>2 DEF AuthInv, ProviderTrue, Session
    <3>2. sid \in -1..MaxSessions /\ sid > 0
          BY <2>2, AuthAssumption DEF Sids
    <3>3. sets = [Keep EXCEPT !.sid = sid, !.aal = aal]
          BY <2>3, <3>1 DEF Renewed
    <3>4. sets \in SetCookies /\ sets.sid = sid /\ sets.aal = aal
          BY <3>2, <3>3, EmptyShapes DEF SetCookies
    <3> QED BY <3>1, <3>2, <3>4, <2>2, <1>1 DEF SetsTrue, Opened
  <2>5. "ALLOW" \in Codes /\ net[c].kind \notin Reads \cup {"sign-in"}
        BY <1>1 DEF Codes, Reads
  <2> QED BY <2>1, <2>3, <2>4, <2>5, <1>1, <1>2, <1>4, EmptyShapes, OtherAnswerKeeps
<1> QED BY <1>3, <1>4 DEF ServeRefresh

\* A sign-out ends the session, and clears the cookies on every path.
LEMMA SignOutServed ==
    ASSUME AuthInv, NEW c \in Chans, ServeSignOut(c)
    PROVE  AuthInv'
<1>1. /\ net[c].at = "sent" /\ net[c].kind = "sign-out" /\ provider' = EndSession(net[c].sid)
      /\ UNCHANGED <<enrolled, members, was, jar, tab>>
      BY DEF ServeSignOut
<1>2. ProviderTrue(provider', enrolled') /\ SessionsExtend(provider, provider')
      BY <1>1, EndExtends
<1>3. PICK code \in {"ALLOW", "DENY_UNAUTHENTICATED"} : Answer(c, code, NoContext, {}, ClearAll)
      BY DEF ServeSignOut
<1>4. code \in Codes /\ net[c].kind \notin Reads \cup {"sign-in"}
      BY <1>1, <1>3 DEF Codes, Denials, Reads
<1>5. SetsTrue(provider', ClearAll)
      BY EmptySets
<1> QED BY <1>1, <1>2, <1>3, <1>4, <1>5, EmptyShapes, OtherAnswerKeeps

\* The factor a call is answered with.
LEMMA FactorAnswered ==
    ASSUME AuthInv, NEW c \in Chans, net[c].at = "sent", net[c].kind \in {"enroll", "challenge", "verify"},
           Verified(net[c].sid), AnswerFactor(c), UNCHANGED <<provider, enrolled, members, was, jar, tab>>
    PROVE  AuthInv'
<1>1. PICK user : user = provider[net[c].sid].user
      OBVIOUS
<1>2. PICK ctx : ctx = [NoContext EXCEPT !.user = user]
      OBVIOUS
<1>3. Answer(c, "ALLOW", ctx, {}, Keep)
      BY <1>1, <1>2 DEF AnswerFactor
<1>4. ctx \in ContextRecords
      BY <1>1, <1>2, EmptyShapes, VerifiedIsOpened DEF ContextRecords, People
<1>5. ProviderTrue(provider', enrolled') /\ SessionsExtend(provider, provider')
      BY SameExtends
<1>6. "ALLOW" \in Codes /\ net[c].kind \notin Reads \cup {"sign-in"} /\ SetsTrue(provider', Keep)
      BY EmptySets DEF Codes, Reads
<1> QED BY <1>3, <1>4, <1>5, <1>6, OtherAnswerKeeps

\* Enrolling and challenging a factor.
LEMMA FactorServed ==
    ASSUME AuthInv, NEW c \in Chans, ServeNoSession(c) \/ ServeEnroll(c) \/ ServeChallenge(c)
    PROVE  AuthInv'
<1>1. /\ net[c].at = "sent" /\ net[c].kind \in {"enroll", "challenge", "verify"}
      /\ UNCHANGED <<provider, enrolled, members, was, jar, tab>>
      BY DEF ServeNoSession, ServeEnroll, ServeChallenge, FactorCall, Server
<1>2. ProviderTrue(provider', enrolled') /\ SessionsExtend(provider, provider')
      BY <1>1, SameExtends
<1>3. ASSUME NEW code \in Denials, Refuse(c, code)
      PROVE  AuthInv'
  <2>1. Answer(c, code, NoContext, {}, Keep)
        BY <1>3 DEF Refuse
  <2> QED BY <2>1, <1>1, <1>2, RefuseKeeps
<1>4. {"DENY_UNAUTHENTICATED", "DENY_MFA_REQUIRED"} \subseteq Denials
      BY DEF Denials
<1>5. CASE ServeNoSession(c)
      BY <1>3, <1>4, <1>5 DEF ServeNoSession
<1>6. CASE ServeEnroll(c)
      BY <1>1, <1>6, FactorAnswered DEF ServeEnroll
<1>7. CASE ServeChallenge(c)
  <2>1. Verified(net[c].sid)
        BY <1>7 DEF ServeChallenge
  <2>2. \/ Refuse(c, "DENY_MFA_REQUIRED")
        \/ Refuse(c, PublicCode("AUTHENTICATION_INVALID"))
        \/ AnswerFactor(c)
        BY <1>7 DEF ServeChallenge
  <2>3. PublicCode("AUTHENTICATION_INVALID") \in Denials
        BY OtherCodes
  <2> QED BY <2>1, <2>2, <2>3, <1>1, <1>3, <1>4, FactorAnswered
<1> QED BY <1>5, <1>6, <1>7

\* A verified factor raises its session.
LEMMA VerifyServed ==
    ASSUME AuthInv, NEW c \in Chans, ServeVerify(c)
    PROVE  AuthInv'
<1>1. /\ net[c].at = "sent" /\ net[c].kind = "verify" /\ Verified(net[c].sid)
      /\ UNCHANGED <<members, was, jar, tab>>
      BY DEF ServeVerify, FactorCall
<1>2. PICK sid, user : sid = net[c].sid /\ user = provider[sid].user
      OBVIOUS
<1>3. sid \in Sids /\ user \in Users
      BY <1>1, <1>2, VerifiedIsOpened
<1>4. CASE /\ provider' = RaiseSession(sid) /\ enrolled' = enrolled \cup {user}
           /\ Answer(c, "ALLOW", NoContext, {}, Tokens(sid, "keep"))
  <2>1. provider' \in [Sids -> Session]
        BY <1>4 DEF RaiseSession, AuthInv, ProviderTrue, Session
  <2>2. \A s \in Sids : /\ provider'[s].user = provider[s].user /\ provider'[s].live = provider[s].live
                        /\ provider'[s].aal = IF s = sid THEN 2 ELSE provider[s].aal
        BY <1>4 DEF RaiseSession, AuthInv, ProviderTrue, Session
  <2>3. ProviderTrue(provider', enrolled')
        BY <2>1, <2>2, <1>2, <1>4 DEF AuthInv, ProviderTrue
  <2>4. SessionsExtend(provider, provider')
        BY <2>2 DEF SessionsExtend
  <2>5. SetsTrue(provider', Tokens(sid, "keep"))
        BY <2>2, <2>3, <1>2, <1>3, TokensTrue
  <2>6. "ALLOW" \in Codes /\ net[c].kind \notin Reads \cup {"sign-in"}
        BY <1>1 DEF Codes, Reads
  <2> QED BY <2>3, <2>4, <2>5, <2>6, <1>1, <1>4, EmptyShapes, OtherAnswerKeeps
<1>5. CASE Refuse(c, PublicCode("AUTHENTICATION_INVALID")) /\ UNCHANGED <<provider, enrolled>>
  <2>1. PublicCode("AUTHENTICATION_INVALID") \in Denials
        BY OtherCodes
  <2>2. Answer(c, PublicCode("AUTHENTICATION_INVALID"), NoContext, {}, Keep)
        BY <1>5 DEF Refuse
  <2>3. ProviderTrue(provider', enrolled') /\ SessionsExtend(provider, provider')
        BY <1>1, <1>5, SameExtends
  <2> QED BY <2>1, <2>2, <2>3, <1>1, <1>5, RefuseKeeps
<1> QED BY <1>2, <1>4, <1>5 DEF ServeVerify

\* A failure of the service is answered as one.
LEMMA FailureServed ==
    ASSUME AuthInv, NEW c \in Chans, ServiceFails(c)
    PROVE  AuthInv'
<1>1. /\ net[c].at \in {"sent", "admitted"}
      /\ UNCHANGED <<provider, enrolled, members, was, jar, tab>>
      BY DEF ServiceFails, Server
<1>2. PICK sets \in {Keep, ClearTokens, ClearAll} :
         Answer(c, PublicCode("AUTHORITY_DEPENDENCY_UNAVAILABLE"), NoContext, {}, sets)
      BY DEF ServiceFails
<1>3. PublicCode("AUTHORITY_DEPENDENCY_UNAVAILABLE") \in Denials
      BY OtherCodes
<1>4. ProviderTrue(provider', enrolled') /\ SessionsExtend(provider, provider')
      BY <1>1, SameExtends
<1> QED BY <1>1, <1>2, <1>3, <1>4, RefuseKeeps

\* The service behind the commands answers them, and nothing else.
LEMMA OutsideServed ==
    ASSUME AuthInv, NEW c \in Chans, ServeOutside(c)
    PROVE  AuthInv'
<1>1. /\ net[c].at = "sent" /\ net[c].kind \notin Reads \cup {"sign-in"}
      /\ UNCHANGED <<provider, enrolled, members, was, jar, tab>>
      BY DEF ServeOutside, Server, Reads
<1>2. PICK code \in {"ALLOW", "DENY_UNAUTHENTICATED"} : Answer(c, code, NoContext, {}, Keep)
      BY DEF ServeOutside, Refuse
<1>3. code \in Codes /\ code # "SELECT" /\ SetsTrue(provider', Keep)
      BY <1>2, EmptySets DEF Codes, Denials
<1> QED BY <1>1, <1>2, <1>3, EmptyShapes, SameExtends, OtherAnswerKeeps

\* The server's steps, all of them.
LEMMA ServerKeeps ==
    ASSUME AuthInv, NEW c \in Chans, Serve(c)
    PROVE  AuthInv'
BY SignInServed, ReadServed, AuthorizeServed, RefreshServed, SignOutServed, FactorServed,
   VerifyServed, FailureServed, OutsideServed DEF Serve

-----------------------------------------------------------------------------
(* The world around the tabs. *)

\* What an answer does to the cookies keeps them true.
LEMMA AppliedTrue ==
    ASSUME NEW p, NEW sets, SetsTrue(p, sets), JarTrue(p, jar)
    PROVE  JarTrue(p, Applied(sets))
<1>1. PICK access : access = IF sets.sid = -1 THEN jar.access ELSE [sid |-> sets.sid, aal |-> sets.aal]
      OBVIOUS
<1>2. PICK refresh : refresh = IF sets.sid = -1 THEN jar.refresh ELSE sets.sid
      OBVIOUS
<1>3. PICK place : place = IF sets.tenant = "keep" THEN jar.tenant ELSE sets.tenant
      OBVIOUS
<1>4. PICK j : j = Applied(sets)
      OBVIOUS
<1>5. j = [access |-> access, refresh |-> refresh, tenant |-> place]
      BY <1>1, <1>2, <1>3, <1>4 DEF Applied
<1>6. access \in [sid : 0..MaxSessions, aal : {1, 2}] /\ refresh \in 0..MaxSessions
      BY <1>1, <1>2, AuthAssumption DEF SetsTrue, SetCookies, JarTrue, Jar
<1>7. place \in Places
      BY <1>3 DEF SetsTrue, SetCookies, JarTrue, Jar
<1>8. /\ access.sid # 0 => Opened(p, access.sid)
      /\ access.aal = 2 => access.sid # 0 /\ p[access.sid].aal = 2
      /\ refresh # 0 => Opened(p, refresh)
      BY <1>1, <1>2, AuthAssumption DEF SetsTrue, SetCookies, JarTrue
<1>9. JarTrue(p, j)
      BY <1>5, <1>6, <1>7, <1>8 DEF JarTrue, Jar
<1> QED BY <1>4, <1>9

\* Where no tab and no call changes, only the server and the cookies need looking at.
LEMMA WorldKeeps ==
    ASSUME AuthInv, UNCHANGED <<tab, net>>,
           ProviderTrue(provider', enrolled'), MembersTrue(members', was'), JarTrue(provider', jar'),
           SessionsExtend(provider, provider'), VersionsExtend(was, was')
    PROVE  AuthInv'
<1>1. ChannelsTrue'
      BY CallExtends DEF AuthInv, ChannelsTrue
<1>2. TabsTrue'
      BY ViewExtends DEF AuthInv, TabsTrue
<1> QED BY <1>1, <1>2 DEF AuthInv

\* A session that the provider ends.
LEMMA EndKeeps ==
    ASSUME AuthInv, NEW sid \in Sids, SessionEnds(sid)
    PROVE  AuthInv'
<1>1. /\ provider' = EndSession(sid) /\ UNCHANGED <<enrolled, members, was, jar, tab, net>>
      BY DEF SessionEnds
<1>2. ProviderTrue(provider', enrolled') /\ SessionsExtend(provider, provider')
      BY <1>1, EndExtends
<1>3. JarTrue(provider', jar')
      BY <1>1, <1>2, JarExtends DEF AuthInv
<1> QED BY <1>1, <1>2, <1>3, WorldKeeps DEF AuthInv, VersionsExtend

\* A membership that changes takes its next version; the earlier ones stay on record.
LEMMA MembershipKeeps ==
    ASSUME AuthInv, NEW m \in Changes, ChangeMembership(m[1], m[2], m[3], m[4])
    PROVE  AuthInv'
<1>1. PICK u \in Users, x \in Tenants, role \in Roles, active \in BOOLEAN : m = <<u, x, role, active>>
      BY AuthAssumption
<1>2. PICK old : old = members[u][x]
      OBVIOUS
<1>3. PICK new : new = [active |-> active, role |-> role, version |-> old.version + 1]
      OBVIOUS
<1>4. /\ old \in Membership /\ new \in Membership /\ was[u][x] \in Seq(Membership)
      /\ old.version = Len(was[u][x]) /\ new.version = old.version + 1
  <2>1. old \in Membership /\ was[u][x] \in Seq(Membership) /\ old.version = Len(was[u][x])
        BY <1>2 DEF AuthInv, MembersTrue
  <2>2. old.version \in Nat
        BY <2>1 DEF Membership
  <2>3. new \in Membership /\ new.version = old.version + 1
        BY <2>2, <1>3 DEF Membership
  <2> QED BY <2>1, <2>3
<1>5. /\ members' = [members EXCEPT ![u][x] = new]
      /\ was' = [was EXCEPT ![u][x] = Append(@, members'[u][x])]
      /\ UNCHANGED <<provider, enrolled, jar, tab, net>>
      BY <1>1, <1>2, <1>3 DEF ChangeMembership, SetMembership, AuthInv, MembersTrue
<1>6. /\ members'[u][x] = new
      /\ \A v \in Users, y \in Tenants : v # u \/ y # x => members'[v][y] = members[v][y]
      BY <1>5 DEF AuthInv, MembersTrue
<1>7. /\ was'[u][x] = Append(was[u][x], new)
      /\ \A v \in Users, y \in Tenants : v # u \/ y # x => was'[v][y] = was[v][y]
      BY <1>5, <1>6 DEF AuthInv, MembersTrue
<1>8. MembersTrue(members', was')
  <2>1. members' \in [Users -> [Tenants -> Membership]]
        BY <1>4, <1>5 DEF AuthInv, MembersTrue
  <2>2. was' \in [Users -> [Tenants -> Seq(Membership)]]
        BY <1>4, <1>5, <1>6 DEF AuthInv, MembersTrue
  <2>3. /\ new.version = Len(was'[u][x]) /\ new.version > 0
        /\ new = was'[u][x][new.version]
        BY <1>4, <1>7 DEF Membership
  <2>4. \A v \in Users, y \in Tenants :
           /\ members'[v][y].version = Len(was'[v][y]) /\ members'[v][y].version > 0
           /\ members'[v][y] = was'[v][y][members'[v][y].version]
    <3>1. TAKE v \in Users, y \in Tenants
    <3>2. CASE v = u /\ y = x
          BY <3>2, <2>3, <1>6
    <3>3. CASE v # u \/ y # x
      <4>1. members'[v][y] = members[v][y] /\ was'[v][y] = was[v][y]
            BY <3>3, <1>6, <1>7
      <4> QED BY <4>1 DEF AuthInv, MembersTrue
    <3> QED BY <3>2, <3>3
  <2> QED BY <2>1, <2>2, <2>4 DEF MembersTrue
<1>9. VersionsExtend(was, was')
  <2>1. \A i \in DOMAIN was[u][x] : i \in DOMAIN was'[u][x] /\ was'[u][x][i] = was[u][x][i]
        BY <1>4, <1>7
  <2> QED BY <2>1, <1>7 DEF VersionsExtend
<1> QED BY <1>5, <1>8, <1>9, WorldKeeps DEF AuthInv, ProviderTrue, JarTrue, SessionsExtend

\* Another window of the browser signs somebody in.
LEMMA ElsewhereInKeeps ==
    ASSUME AuthInv, NEW u \in Users, NEW sid \in Sids, ElsewhereSignsIn(u, sid)
    PROVE  AuthInv'
<1>1. PICK x : x = Derive(members, u, NoTenant).tenant
      OBVIOUS
<1>2. PICK aal : aal = IF RequireAal2 THEN 2 ELSE 1
      OBVIOUS
<1>3. /\ Fresh(sid) /\ provider' = OpenSession(sid, u, aal)
      /\ enrolled' = IF RequireAal2 THEN enrolled \cup {u} ELSE enrolled
      /\ jar' = Applied(Tokens(sid, x)) /\ UNCHANGED <<members, was, tab, net>>
      BY <1>1, <1>2 DEF ElsewhereSignsIn
<1>4. aal \in {1, 2} /\ enrolled \subseteq enrolled' /\ (aal = 2 => u \in enrolled')
      BY <1>2, <1>3
<1>5. /\ ProviderTrue(provider', enrolled') /\ SessionsExtend(provider, provider')
      /\ provider'[sid].user = u
      BY <1>3, <1>4, OpenExtends
<1>6. x \in Places
      BY <1>1, DerivedPlace
<1>7. SetsTrue(provider', Tokens(sid, x))
      BY <1>5, <1>6, TokensTrue
<1>8. JarTrue(provider', jar)
      BY <1>5, JarExtends DEF AuthInv
<1>9. JarTrue(provider', jar')
  <2>1. PICK p, sets : p = provider' /\ sets = Tokens(sid, x)
        OBVIOUS
  <2>2. JarTrue(p, Applied(sets))
        BY <2>1, <1>7, <1>8, AppliedTrue
  <2> QED BY <2>1, <2>2, <1>3
<1> QED BY <1>3, <1>5, <1>9, WorldKeeps DEF AuthInv, VersionsExtend

\* Another window of the browser signs out.
LEMMA ElsewhereOutKeeps ==
    ASSUME AuthInv, ElsewhereSignsOut
    PROVE  AuthInv'
<1>1. /\ provider' = EndSession(jar.access.sid) /\ jar' = Applied(ClearAll)
      /\ UNCHANGED <<enrolled, members, was, tab, net>>
      BY DEF ElsewhereSignsOut
<1>2. ProviderTrue(provider', enrolled') /\ SessionsExtend(provider, provider')
      BY <1>1, EndExtends
<1>3. JarTrue(provider', jar) /\ SetsTrue(provider', ClearAll)
      BY <1>2, JarExtends, EmptySets DEF AuthInv
<1>4. JarTrue(provider', jar')
      BY <1>1, <1>3, AppliedTrue
<1> QED BY <1>1, <1>2, <1>4, WorldKeeps DEF AuthInv, VersionsExtend

\* The access cookie expires.
LEMMA ExpiryKeeps ==
    ASSUME AuthInv, JarExpires
    PROVE  AuthInv'
<1>1. jar' = [jar EXCEPT !.access = EmptyJar.access] /\ UNCHANGED <<provider, enrolled, members, was, tab, net>>
      BY DEF JarExpires, Server
<1>2. PICK none : none = EmptyJar.access
      OBVIOUS
<1>3. none = [sid |-> 0, aal |-> 1]
      BY <1>2 DEF EmptyJar
<1>4. jar' \in Jar /\ jar'.access = none /\ jar'.refresh = jar.refresh
      BY <1>1, <1>2, <1>3, AuthAssumption DEF AuthInv, JarTrue, Jar
<1>5. JarTrue(provider', jar')
      BY <1>1, <1>3, <1>4 DEF AuthInv, JarTrue
<1> QED BY <1>1, <1>5, SameExtends, WorldKeeps

-----------------------------------------------------------------------------
(* The browser. *)

\* A page that rests.
LEMMA Rests ==
    ASSUME AuthInv, NEW t \in Tabs, NEW v, NEW j,
           Becomes(t, v, Idle, j), ViewTrue(provider, was, v), Steady(v, "none"), JarTrue(provider, j)
    PROVE  AuthInv'
<1>1. Awaits(v, Idle) /\ Idle.kind = "none"
      BY DEF Awaits, Idle
<1> QED BY <1>1, IdleTrue, PageKeeps

\* A page that makes a call.
LEMMA Calls ==
    ASSUME AuthInv, NEW t \in Tabs, NEW v, NEW j,
           NEW kind \in Kinds, Steady(v, kind), NEW hint \in Places, NEW named \in BOOLEAN,
           NEW user \in People, kind = "sign-in" => user \in Users,
           kind = "ops-session" => hint = v.choice,
           Becomes(t, v, Call(j, kind, hint, named, user), j),
           ViewTrue(provider, was, v), v.shown = NoContext, JarTrue(provider, j)
    PROVE  AuthInv'
<1>1. PICK call : call = Call(j, kind, hint, named, user)
      OBVIOUS
<1>2. /\ CallTrue(provider, was, call) /\ call.at = "sent" /\ call.kind = kind
      /\ kind = "ops-session" /\ hint # NoTenant => call.hint = hint
      BY <1>1, CallLeaves DEF AuthInv
<1>3. Awaits(v, call)
      BY <1>2 DEF Awaits, Fits
<1> QED BY <1>1, <1>2, <1>3, PageKeeps

\* A page that asks the session routes for its context.
LEMMA Resolves ==
    ASSUME AuthInv, NEW t \in Tabs, NEW v, NEW j, NEW choice \in Places,
           Becomes(t, v, Resolve(j, choice), j), Steady(v, "auth-session"),
           ViewTrue(provider, was, v), v.shown = NoContext, JarTrue(provider, j)
    PROVE  AuthInv'
<1>1. Becomes(t, v, Call(j, "auth-session", choice, FALSE, NoUser), j)
      BY DEF Resolve
<1>2. "auth-session" \in Kinds /\ FALSE \in BOOLEAN /\ NoUser \in People
      BY DEF Kinds, Reads, People
<1> QED BY <1>1, <1>2, Calls

\* The two empty pages.
LEMMA EmptyPages ==
    ASSUME NEW p, NEW w
    PROVE  /\ ViewTrue(p, w, SignInPage) /\ SignInPage.shown = NoContext
           /\ ViewTrue(p, w, ShellPage) /\ ShellPage.shown = NoContext
           /\ Steady(SignInPage, "none") /\ Steady(ShellPage, "none")
<1>1. SignInPage.shown = NoContext /\ SignInPage.source = "session" /\ SignInPage.status = "BOOTING"
      BY DEF SignInPage
<1>2. ShellPage.shown = NoContext /\ ShellPage.source = "session" /\ ShellPage.status = "BOOTING"
      BY <1>1, EmptyShapes DEF ShellPage, View
<1> QED BY <1>1, <1>2, EmptyShapes DEF ViewTrue, Steady

\* What a tab is known to be.
LEMMA TabFacts ==
    ASSUME AuthInv, NEW t \in Tabs
    PROVE  /\ tab[t] \in View /\ ViewTrue(provider, was, tab[t])
           /\ tab[t].page # "shell" => tab[t].shown = NoContext
           /\ tab[t].status # "AUTHENTICATED" => tab[t].shown = NoContext
           /\ JarTrue(provider, jar) /\ NoTenant \in Places /\ NoUser \in People
           /\ Steady(tab[t], net[Page(t)].kind)
BY DEF AuthInv, TabsTrue, ViewTrue, Places, People

\* A field of a view other than those the invariant speaks of.
LEMMA StageTrue ==
    ASSUME NEW p, NEW w, NEW v, ViewTrue(p, w, v), NEW v2 \in View,
           v2.source = v.source, v2.user = v.user, v2.shown = v.shown, v2.page = v.page,
           v2.status = v.status, v2.choice = v.choice \/ v.shown = NoContext
    PROVE  ViewTrue(p, w, v2)
BY DEF ViewTrue

\* A shell that moves shows nothing, or what is vouched for and was chosen.
LEMMA MoveTrue ==
    ASSUME NEW p, NEW w, NEW v, ViewTrue(p, w, v), NEW status \in Statuses, NEW shown \in ContextRecords,
           NEW eligible \in SUBSET Tenants,
           shown # NoContext =>
              /\ v.page = "shell" /\ status = "AUTHENTICATED" /\ Vouched(p, w, shown)
              /\ v.choice # NoTenant => shown.tenant = v.choice
    PROVE  LET m == Move(v, status, shown, eligible)
           IN  /\ ViewTrue(p, w, m) /\ m \in View /\ m.shown \in {v.shown, shown} /\ m.choice = v.choice
               /\ m.source = v.source /\ m.user = v.user /\ m.page = v.page
               /\ status \in Moves[v.status] => m.shown = shown /\ m.status = status /\ m.eligible = eligible
               /\ status \notin Moves[v.status] => m = v
<1>1. PICK m : m = Move(v, status, shown, eligible)
      OBVIOUS
<1>2. v \in View
      BY DEF ViewTrue
<1>3. CASE status \notin Moves[v.status]
      BY <1>1, <1>2, <1>3 DEF Move
<1>4. CASE status \in Moves[v.status]
  <2>1. m = [v EXCEPT !.status = status, !.shown = shown, !.eligible = eligible]
        BY <1>1, <1>4 DEF Move
  <2>2. /\ m \in View /\ m.status = status /\ m.shown = shown /\ m.choice = v.choice
        /\ m.page = v.page /\ m.source = v.source /\ m.user = v.user /\ m.eligible = eligible
        BY <2>1, <1>2 DEF View
  <2> QED BY <1>1, <1>4, <2>2 DEF ViewTrue
<1> QED BY <1>3, <1>4

\* What a page hears: the true answer to its call, or that there was none.
LEMMA HeardIsTrue ==
    ASSUME AuthInv, NEW t \in Tabs, NEW kinds, NEW m \in Heard(t, kinds)
    PROVE  /\ m \in CallRec /\ m.kind \in kinds /\ m.kind = net[Page(t)].kind
           /\ JarTrue(provider, Applied(m.sets)) /\ tab[t].shown = NoContext
           /\ m.code = "SELECT" => m.eligible # {}
           /\ m.code \notin {"DENY_AUTHORITY_UNAVAILABLE", "DENY_NETWORK_FAILURE"} =>
                 m.at = "answered" /\ m = net[Page(t)]
<1>1. PICK n : n = net[Page(t)]
      OBVIOUS
<1>2. n \in CallRec /\ CallTrue(provider, was, n) /\ Awaits(tab[t], n)
      BY <1>1 DEF AuthInv, ChannelsTrue, TabsTrue, Chans
<1>3. n.at # "idle" /\ n.kind \in kinds
      BY <1>1 DEF Heard
<1>4. \/ m = n /\ n.at = "answered"
      \/ \E code \in {"DENY_AUTHORITY_UNAVAILABLE", "DENY_NETWORK_FAILURE"} :
            m = [n EXCEPT !.at = "answered", !.code = code, !.sets = Keep, !.eligible = {},
                          !.ctx = NoContext]
      BY <1>1, <1>3 DEF Heard
<1>5. tab[t].shown = NoContext
      BY <1>2, <1>3 DEF Awaits
<1>6. CASE m = n /\ n.at = "answered"
  <2>1. SetsTrue(provider, m.sets)
        BY <1>2, <1>6 DEF CallTrue
  <2>2. JarTrue(provider, Applied(m.sets))
        BY <2>1, AppliedTrue DEF AuthInv
  <2>3. m.code = "SELECT" => m.eligible # {}
        BY <1>2, <1>6 DEF CallTrue, FoundTrue
  <2> QED BY <2>2, <2>3, <1>1, <1>2, <1>3, <1>5, <1>6
<1>7. ASSUME NEW code \in {"DENY_AUTHORITY_UNAVAILABLE", "DENY_NETWORK_FAILURE"},
             m = [n EXCEPT !.at = "answered", !.code = code, !.sets = Keep, !.eligible = {},
                           !.ctx = NoContext]
      PROVE  /\ m \in CallRec /\ m.kind = n.kind /\ m.code = code
             /\ JarTrue(provider, Applied(m.sets))
  <2>1. m.kind = n.kind /\ m.code = code /\ m.sets = Keep
        BY <1>2, <1>7 DEF CallRec
  <2>2. code \in Codes
        BY DEF Codes, Denials
  <2>3. m \in CallRec
        BY <2>2, <1>2, <1>7, EmptyShapes DEF CallRec, Instants
  <2>4. JarTrue(provider, Applied(m.sets))
        BY <2>1, EmptySets, AppliedTrue DEF AuthInv
  <2> QED BY <2>1, <2>3, <2>4
<1> QED BY <1>1, <1>3, <1>4, <1>5, <1>6, <1>7

\* The forms of the sign-in page.
LEMMA FormsKeep ==
    ASSUME AuthInv, NEW t \in Tabs, Submit(t) \/ EnterCode(t) \/ ChooseTenant(t)
    PROVE  AuthInv'
<1>1. PICK v : v = tab[t]
      OBVIOUS
<1>2. /\ v \in View /\ ViewTrue(provider, was, v) /\ JarTrue(provider, jar)
      /\ NoTenant \in Places /\ (v.page = "sign-in" => v.shown = NoContext)
      BY <1>1, TabFacts
<1>3. {"sign-in", "verify", "challenge"} \subseteq Kinds
      /\ {TRUE, FALSE} \subseteq BOOLEAN /\ Users \subseteq People /\ Tenants \subseteq Places
      BY DEF Kinds, People, Places
<1>4. CASE Submit(t)
  <2>1. PICK u \in Users : Becomes(t, v, Call(jar, "sign-in", NoTenant, FALSE, u), jar)
        BY <1>1, <1>4 DEF Submit
  <2>2. v.shown = NoContext /\ Steady(v, "sign-in")
        BY <1>1, <1>2, <1>4 DEF Submit, ShowsCredentials, Steady
  <2> QED BY <2>1, <2>2, <1>2, <1>3, Calls
<1>5. CASE EnterCode(t)
  <2>1. PICK kind \in {"verify", "challenge"} :
           Becomes(t, v, Call(jar, kind, NoTenant, TRUE, v.factor), jar)
        BY <1>1, <1>5 DEF EnterCode
  <2>2. v.shown = NoContext /\ v.factor \in People /\ Steady(v, kind)
        BY <1>1, <1>2, <1>5 DEF EnterCode, ShowsEnrolment, ShowsCode, View, Steady
  <2> QED BY <2>1, <2>2, <1>2, <1>3, Calls
<1>6. CASE ChooseTenant(t)
  <2>1. v.shown = NoContext
        BY <1>1, <1>2, <1>6 DEF ChooseTenant, ShowsTenants
  <2>2. PICK x \in v.eligible :
           IF v.source = "sign-in"
           THEN Becomes(t, [v EXCEPT !.choice = x], Call(jar, "sign-in", x, TRUE, v.user), jar)
           ELSE Becomes(t, [v EXCEPT !.choice = x], Resolve(jar, x), jar)
        BY <1>1, <1>6 DEF ChooseTenant
  <2>3. x \in Places
        BY <2>2, <1>2, <1>3 DEF View
  <2>4. PICK v2 : v2 = [v EXCEPT !.choice = x]
        OBVIOUS
  <2>5. /\ v2 \in View /\ v2.source = v.source /\ v2.user = v.user /\ v2.shown = v.shown
        /\ v2.page = v.page /\ v2.status = v.status
        BY <2>3, <2>4, <1>2 DEF View
  <2>6. ViewTrue(provider, was, v2) /\ v2.shown = NoContext
        BY <2>1, <2>5, <1>2, StageTrue
  <2>7. Steady(v2, "sign-in") /\ Steady(v2, "auth-session")
        BY <2>5, <1>1, <1>6 DEF ChooseTenant, ShowsTenants, Steady
  <2>8. CASE v.source = "sign-in"
    <3>1. v.user \in Users
          BY <2>8, <1>2 DEF ViewTrue
    <3>2. Becomes(t, v2, Call(jar, "sign-in", x, TRUE, v.user), jar)
          BY <2>2, <2>4, <2>8
    <3> QED BY <3>1, <3>2, <2>3, <2>6, <2>7, <1>2, <1>3, Calls
  <2>9. CASE v.source # "sign-in"
    <3>1. Becomes(t, v2, Resolve(jar, x), jar)
          BY <2>2, <2>4, <2>9
    <3> QED BY <3>1, <2>3, <2>6, <2>7, <1>2, Resolves
  <2> QED BY <2>8, <2>9
<1> QED BY <1>4, <1>5, <1>6

\* What an answer to signing in leads to.
LEMMA SignInHeard ==
    ASSUME AuthInv, NEW t \in Tabs, HearSignIn(t)
    PROVE  AuthInv'
<1>1. PICK m \in Heard(t, {"sign-in"}) :
         CASE m.code = "SELECT" ->
                    Becomes(t, [tab[t] EXCEPT !.stage = "tenant", !.source = "sign-in",
                                              !.user = m.user, !.eligible = m.eligible],
                            Idle, Applied(m.sets))
              [] m.code = "MFA_ENROLL" ->
                    Becomes(t, tab[t], Call(Applied(m.sets), "enroll", NoTenant, FALSE, NoUser),
                            Applied(m.sets))
              [] m.code = "MFA_CHALLENGE" ->
                    Becomes(t, tab[t], Call(Applied(m.sets), "challenge", NoTenant, FALSE, NoUser),
                            Applied(m.sets))
              [] m.code = "ALLOW" ->
                    Becomes(t, [tab[t] EXCEPT !.choice = NoTenant],
                            Resolve(Applied(m.sets), NoTenant), Applied(m.sets))
              [] OTHER -> Becomes(t, tab[t], Idle, Applied(m.sets))
      BY DEF HearSignIn
<1>2. PICK v, j : v = tab[t] /\ j = Applied(m.sets)
      OBVIOUS
<1>3. /\ m \in CallRec /\ m.kind = "sign-in" /\ JarTrue(provider, j) /\ v.shown = NoContext
      /\ m.code \notin {"DENY_AUTHORITY_UNAVAILABLE", "DENY_NETWORK_FAILURE"} =>
            m.at = "answered" /\ m = net[Page(t)]
      BY <1>2, HeardIsTrue
<1>4. /\ v \in View /\ ViewTrue(provider, was, v) /\ NoTenant \in Places /\ NoUser \in People
      /\ v.page # "shell"
  <2>1. m.kind = net[Page(t)].kind /\ Steady(v, net[Page(t)].kind)
        BY <1>2, HeardIsTrue, TabFacts
  <2> QED BY <2>1, <1>2, <1>3, TabFacts DEF Steady, Reads
<1>5. CASE m.code = "SELECT"
  <2>1. PICK v2 : v2 = [v EXCEPT !.stage = "tenant", !.source = "sign-in",
                                 !.user = m.user, !.eligible = m.eligible]
        OBVIOUS
  <2>2. Becomes(t, v2, Idle, j)
        BY <2>1, <1>1, <1>2, <1>5
  <2>3. m.user \in Users
    <3>1. m.at = "answered" /\ CallTrue(provider, was, m)
          BY <1>3, <1>5 DEF AuthInv, ChannelsTrue, Chans
    <3> QED BY <3>1, <1>3, <1>5 DEF CallTrue, FoundTrue
  <2>4. v2 \in View /\ v2.user = m.user /\ v2.shown = NoContext /\ v2.page # "shell"
        BY <2>1, <1>3, <1>4 DEF View, CallRec
  <2>5. ViewTrue(provider, was, v2) /\ Steady(v2, "none")
        BY <2>3, <2>4 DEF ViewTrue, Steady
  <2> QED BY <2>2, <2>5, <1>3, Rests
<1>6. ASSUME NEW kind \in {"enroll", "challenge"},
             Becomes(t, v, Call(j, kind, NoTenant, FALSE, NoUser), j)
      PROVE  AuthInv'
  <2>1. kind \in Kinds /\ kind # "sign-in" /\ kind # "ops-session" /\ FALSE \in BOOLEAN /\ Steady(v, kind)
        BY <1>4 DEF Kinds, Steady
  <2> QED BY <2>1, <1>3, <1>4, <1>6, Calls
<1>7. CASE m.code = "MFA_ENROLL"
      BY <1>1, <1>2, <1>6, <1>7
<1>8. CASE m.code = "MFA_CHALLENGE"
      BY <1>1, <1>2, <1>6, <1>8
<1>9. CASE m.code = "ALLOW"
  <2>1. PICK v2 : v2 = [v EXCEPT !.choice = NoTenant]
        OBVIOUS
  <2>2. Becomes(t, v2, Resolve(j, NoTenant), j)
        BY <2>1, <1>1, <1>2, <1>9
  <2>3. /\ v2 \in View /\ v2.source = v.source /\ v2.user = v.user /\ v2.shown = v.shown
        /\ v2.page = v.page /\ v2.status = v.status
        BY <2>1, <1>4 DEF View
  <2>4. ViewTrue(provider, was, v2) /\ Steady(v2, "auth-session")
        BY <2>3, <1>3, <1>4, StageTrue DEF Steady
  <2> QED BY <2>2, <2>3, <2>4, <1>3, <1>4, Resolves
<1>10. CASE m.code \notin {"SELECT", "MFA_ENROLL", "MFA_CHALLENGE", "ALLOW"}
  <2>1. Becomes(t, v, Idle, j)
        BY <1>1, <1>2, <1>10
  <2> QED BY <2>1, <1>3, <1>4, Rests DEF Steady
<1> QED BY <1>5, <1>7, <1>8, <1>9, <1>10

\* What an answer about a factor leads to.
LEMMA FactorHeard ==
    ASSUME AuthInv, NEW t \in Tabs, HearFactor(t)
    PROVE  AuthInv'
<1>1. PICK m \in Heard(t, {"enroll", "challenge", "verify"}) :
         CASE m.code # "ALLOW" -> Becomes(t, tab[t], Idle, Applied(m.sets))
              [] m.code = "ALLOW" /\ m.kind = "enroll" ->
                    Becomes(t, [tab[t] EXCEPT !.stage = "enroll", !.factor = m.ctx.user,
                                              !.challenged = FALSE], Idle, Applied(m.sets))
              [] m.code = "ALLOW" /\ m.kind = "challenge" /\ ~m.named ->
                    Becomes(t, [tab[t] EXCEPT !.stage = "mfa", !.factor = m.ctx.user,
                                              !.challenged = TRUE], Idle, Applied(m.sets))
              [] m.code = "ALLOW" /\ m.kind = "challenge" /\ m.named ->
                    Becomes(t, [tab[t] EXCEPT !.challenged = TRUE],
                            Call(Applied(m.sets), "verify", NoTenant, TRUE, tab[t].factor),
                            Applied(m.sets))
              [] OTHER -> Becomes(t, [tab[t] EXCEPT !.choice = NoTenant],
                                  Resolve(Applied(m.sets), NoTenant), Applied(m.sets))
      BY DEF HearFactor
<1>2. PICK v, j : v = tab[t] /\ j = Applied(m.sets)
      OBVIOUS
<1>3. m \in CallRec /\ JarTrue(provider, j) /\ v.shown = NoContext
      BY <1>2, HeardIsTrue
<1>4. /\ v \in View /\ ViewTrue(provider, was, v) /\ NoTenant \in Places /\ NoUser \in People
      /\ v.page # "shell"
  <2>1. /\ m.kind \in {"enroll", "challenge", "verify"} /\ m.kind = net[Page(t)].kind
        /\ Steady(v, net[Page(t)].kind)
        BY <1>2, HeardIsTrue, TabFacts
  <2> QED BY <2>1, <1>2, TabFacts DEF Steady, Reads
<1>5. PICK user \in People : user = m.ctx.user
      BY <1>3 DEF CallRec, ContextRecords
<1>6. m.named \in BOOLEAN
      BY <1>3 DEF CallRec
<1>7. CASE m.code # "ALLOW"
  <2>1. Becomes(t, v, Idle, j)
        BY <1>1, <1>2, <1>7
  <2> QED BY <2>1, <1>3, <1>4, Rests DEF Steady
<1>8. ASSUME NEW stage \in {"enroll", "mfa"}, NEW challenged \in BOOLEAN, NEW v2,
             v2 = [v EXCEPT !.stage = stage, !.factor = user, !.challenged = challenged],
             Becomes(t, v2, Idle, j)
      PROVE  AuthInv'
  <2>1. /\ v2 \in View /\ v2.source = v.source /\ v2.user = v.user /\ v2.shown = v.shown
        /\ v2.page = v.page /\ v2.status = v.status
        BY <1>4, <1>8 DEF View
  <2>2. ViewTrue(provider, was, v2) /\ Steady(v2, "none")
        BY <2>1, <1>3, <1>4, StageTrue DEF Steady
  <2> QED BY <2>2, <1>3, <1>8, Rests
<1>9. CASE m.code = "ALLOW" /\ m.kind = "enroll"
  <2>1. PICK v2 : v2 = [v EXCEPT !.stage = "enroll", !.factor = user, !.challenged = FALSE]
        OBVIOUS
  <2>2. Becomes(t, v2, Idle, j)
        BY <2>1, <1>1, <1>2, <1>5, <1>9
  <2> QED BY <2>1, <2>2, <1>8
<1>10. CASE m.code = "ALLOW" /\ m.kind = "challenge" /\ ~m.named
  <2>1. PICK v2 : v2 = [v EXCEPT !.stage = "mfa", !.factor = user, !.challenged = TRUE]
        OBVIOUS
  <2>2. Becomes(t, v2, Idle, j)
        BY <2>1, <1>1, <1>2, <1>5, <1>10
  <2> QED BY <2>1, <2>2, <1>8
<1>11. CASE m.code = "ALLOW" /\ m.kind = "challenge" /\ m.named
  <2>1. PICK v2 : v2 = [v EXCEPT !.challenged = TRUE]
        OBVIOUS
  <2>2. Becomes(t, v2, Call(j, "verify", NoTenant, TRUE, v.factor), j)
        BY <2>1, <1>1, <1>2, <1>11
  <2>3. /\ v2 \in View /\ v2.source = v.source /\ v2.user = v.user /\ v2.shown = v.shown
        /\ v2.page = v.page /\ v2.status = v.status
        BY <2>1, <1>4 DEF View
  <2>4. ViewTrue(provider, was, v2) /\ Steady(v2, "verify")
        BY <2>3, <1>3, <1>4, StageTrue DEF Steady
  <2>5. "verify" \in Kinds /\ TRUE \in BOOLEAN /\ v.factor \in People
        BY <1>4 DEF Kinds, View
  <2> QED BY <2>2, <2>3, <2>4, <2>5, <1>3, <1>4, Calls
<1>12. CASE m.code = "ALLOW" /\ m.kind \notin {"enroll", "challenge"}
  <2>1. PICK v2 : v2 = [v EXCEPT !.choice = NoTenant]
        OBVIOUS
  <2>2. Becomes(t, v2, Resolve(j, NoTenant), j)
        BY <2>1, <1>1, <1>2, <1>12
  <2>3. /\ v2 \in View /\ v2.source = v.source /\ v2.user = v.user /\ v2.shown = v.shown
        /\ v2.page = v.page /\ v2.status = v.status
        BY <2>1, <1>4 DEF View
  <2>4. ViewTrue(provider, was, v2) /\ Steady(v2, "auth-session")
        BY <2>3, <1>3, <1>4, StageTrue DEF Steady
  <2> QED BY <2>2, <2>3, <2>4, <1>3, <1>4, Resolves
<1> QED BY <1>6, <1>7, <1>9, <1>10, <1>11, <1>12

\* The two answers put together: a context that is shown is vouched for, and the chosen one.
LEMMA ResolvedKeeps ==
    ASSUME AuthInv, NEW t \in Tabs, tab[t].shown = NoContext,
           NEW code \in Codes, NEW ctx \in ContextRecords, NEW eligible \in SUBSET Tenants, NEW j,
           Resolved(t, code, ctx, eligible, j), JarTrue(provider, j),
           net[Page(t)].kind \in Reads, code = "SELECT" => eligible # {},
           code = "ALLOW" => /\ Vouched(provider, was, ctx)
                             /\ tab[t].choice # NoTenant => ctx.tenant = tab[t].choice
    PROVE  AuthInv'
<1>1. PICK v : v = [tab[t] EXCEPT !.first = NoContext]
      OBVIOUS
<1>2. /\ v \in View /\ ViewTrue(provider, was, v) /\ v.shown = NoContext /\ v.choice = tab[t].choice
      /\ v.page = "shell" => \/ v.status = "RESOLVING_SESSION"
                             \/ v.status = "CHANGING_TENANT" /\ v.eligible # {}
  <2>1. PICK v0 : v0 = tab[t]
        OBVIOUS
  <2>2. v0 \in View /\ ViewTrue(provider, was, v0)
        BY <2>1, TabFacts
  <2>3. /\ v \in View /\ v.source = v0.source /\ v.user = v0.user /\ v.shown = v0.shown
        /\ v.page = v0.page /\ v.status = v0.status /\ v.choice = v0.choice /\ v.eligible = v0.eligible
        BY <2>1, <2>2, <1>1, EmptyShapes DEF View
  <2>4. ViewTrue(provider, was, v)
        BY <2>2, <2>3, StageTrue
  <2>5. Steady(v0, net[Page(t)].kind)
        BY <2>1, TabFacts
  <2>6. v.page = "shell" => \/ v.status = "RESOLVING_SESSION"
                            \/ v.status = "CHANGING_TENANT" /\ v.eligible # {}
        BY <2>3, <2>5 DEF Steady, Reads
  <2> QED BY <2>1, <2>3, <2>4, <2>6
<1>3. PICK next \in IF v.page = "sign-in" THEN {FinishContext(v, code, eligible)}
                     ELSE ShellResolved(v, code, ctx, eligible) :
         Becomes(t, next, Idle, j)
      BY <1>1 DEF Resolved
<1>4. CASE v.page = "sign-in"
  <2>1. next = FinishContext(v, code, eligible)
        BY <1>3, <1>4
  <2>2. CASE code = "SELECT"
    <3>1. next = [v EXCEPT !.stage = "tenant", !.source = "session", !.eligible = eligible]
          BY <2>1, <2>2 DEF FinishContext
    <3>2. next \in View /\ next.source = "session" /\ next.shown = NoContext /\ next.page = v.page
          BY <3>1, <1>2 DEF View
    <3>3. ViewTrue(provider, was, next) /\ Steady(next, "none")
          BY <3>2, <1>4 DEF ViewTrue, Steady
    <3> QED BY <3>3, <1>3, Rests
  <2>3. CASE code # "SELECT"
    <3>1. next = ShellPage \/ next = v
          BY <2>1, <2>3 DEF FinishContext
    <3>2. Steady(v, "none")
          BY <1>4 DEF Steady
    <3> QED BY <3>1, <3>2, <1>2, <1>3, EmptyPages, Rests
  <2> QED BY <2>2, <2>3
<1>5. CASE v.page # "sign-in"
  <2>1. v.page = "shell"
        BY <1>2, <1>5 DEF View
  <2>2. next \in ShellResolved(v, code, ctx, eligible)
        BY <1>3, <1>5
  <2>3. /\ StateForDenial(code) \in {"UNAUTHENTICATED", "AUTHORITY_UNAVAILABLE", "NETWORK_FAILURE", "DENIED"}
        /\ {} \in SUBSET Tenants
        BY DEF StateForDenial
  <2>4. ASSUME NEW status \in {"CHANGING_TENANT", "EXPIRED", "AUTHENTICATED", "UNAUTHENTICATED",
                                "AUTHORITY_UNAVAILABLE", "NETWORK_FAILURE", "DENIED"},
               NEW shown \in ContextRecords, NEW offered \in SUBSET Tenants,
               status = "CHANGING_TENANT" => offered # {},
               shown # NoContext =>
                  status = "AUTHENTICATED" /\ code = "ALLOW" /\ shown = ctx,
               next = Move(v, status, shown, offered)
        PROVE  AuthInv'
    <3>1. status \in Statuses
          BY DEF Statuses
    <3>2. /\ ViewTrue(provider, was, next) /\ next.page = v.page
          /\ status \in Moves[v.status] => next.status = status /\ next.eligible = offered
          /\ status \notin Moves[v.status] => next = v
          BY <3>1, <2>1, <2>4, <1>2, MoveTrue
    <3>3. status \in Moves[v.status] \/ v.status = "CHANGING_TENANT"
          BY <2>1, <1>2 DEF Moves, Troubles
    <3>4. Steady(next, "none")
          BY <3>2, <3>3, <2>1, <2>4, <1>2 DEF Steady
    <3> QED BY <3>2, <3>4, <1>3, Rests
  <2>5. CASE code = "SELECT"
        BY <2>2, <2>3, <2>4, <2>5, EmptyShapes DEF ShellResolved
  <2>6. CASE code = "ALLOW"
    <3>1. PICK offered \in SUBSET Tenants :
             next = Move(v, "AUTHENTICATED", ctx, offered) \/ next = Move(v, "EXPIRED", NoContext, {})
      <4>1. v.eligible \in SUBSET Tenants
            BY <1>2 DEF View
      <4> QED BY <4>1, <2>2, <2>6 DEF ShellResolved
    <3> QED BY <3>1, <2>3, <2>4, <2>6, EmptyShapes
  <2>7. CASE code \notin {"SELECT", "ALLOW"}
        BY <2>2, <2>3, <2>4, <2>7, EmptyShapes DEF ShellResolved
  <2> QED BY <2>5, <2>6, <2>7
<1> QED BY <1>4, <1>5

\* The first answer is remembered, and the same organization asked for again.
LEMMA FirstHeard ==
    ASSUME AuthInv, NEW t \in Tabs, HearFirst(t)
    PROVE  AuthInv'
<1>1. PICK m \in Heard(t, {"auth-session"}) :
         IF m.code = "ALLOW"
         THEN Becomes(t, [tab[t] EXCEPT !.first = m.ctx],
                      Call(Applied(m.sets), "ops-session", tab[t].choice, FALSE, NoUser),
                      Applied(m.sets))
         ELSE Resolved(t, m.code, NoContext, m.eligible, Applied(m.sets))
      BY DEF HearFirst
<1>2. PICK v, j : v = tab[t] /\ j = Applied(m.sets)
      OBVIOUS
<1>3. /\ m \in CallRec /\ JarTrue(provider, j) /\ v.shown = NoContext
      /\ net[Page(t)].kind = "auth-session" /\ (m.code = "SELECT" => m.eligible # {})
      BY <1>2, HeardIsTrue
<1>4. /\ v \in View /\ ViewTrue(provider, was, v) /\ NoUser \in People
      /\ Steady(v, net[Page(t)].kind)
      BY <1>2, TabFacts
<1>5. m.ctx \in ContextRecords /\ m.code \in Codes /\ m.eligible \in SUBSET Tenants
      BY <1>3 DEF CallRec
<1>6. CASE m.code = "ALLOW"
  <2>1. PICK v2 : v2 = [v EXCEPT !.first = m.ctx]
        OBVIOUS
  <2>2. /\ v2 \in View /\ v2.source = v.source /\ v2.user = v.user /\ v2.shown = v.shown
        /\ v2.page = v.page /\ v2.status = v.status /\ v2.choice = v.choice /\ v2.eligible = v.eligible
        BY <2>1, <1>4, <1>5 DEF View
  <2>3. ViewTrue(provider, was, v2)
        BY <2>2, <1>3, <1>4, StageTrue
  <2>6. Steady(v2, "ops-session")
        BY <2>2, <1>3, <1>4 DEF Steady, Reads
  <2>4. "ops-session" \in Kinds /\ FALSE \in BOOLEAN /\ v2.choice \in Places
        BY <2>2 DEF Kinds, Reads, View
  <2>5. Becomes(t, v2, Call(j, "ops-session", v2.choice, FALSE, NoUser), j)
        BY <2>1, <2>2, <1>1, <1>2, <1>6
  <2> QED BY <2>2, <2>3, <2>4, <2>5, <2>6, <1>3, <1>4, Calls
<1>7. CASE m.code # "ALLOW"
  <2>1. Resolved(t, m.code, NoContext, m.eligible, j)
        BY <1>1, <1>2, <1>7
  <2>2. net[Page(t)].kind \in Reads
        BY <1>3 DEF Reads
  <2> QED BY <2>1, <2>2, <1>2, <1>3, <1>5, <1>7, EmptyShapes, ResolvedKeeps
<1> QED BY <1>6, <1>7

\* The second answer is the context, if it agrees with the first.
LEMMA SecondHeard ==
    ASSUME AuthInv, NEW t \in Tabs, HearSecond(t)
    PROVE  AuthInv'
<1>1. PICK m \in Heard(t, {"ops-session"}) :
        IF m.code = "ALLOW" /\ ~Agree(tab[t].first, m.ctx)
        THEN Resolved(t, "DENY_AUTHORITY_VERSION_CONFLICT", NoContext, {}, jar)
        ELSE Resolved(t, IF m.code = "SELECT" THEN "DENY_TENANT_AMBIGUOUS" ELSE m.code,
                      m.ctx, m.eligible, jar)
      BY DEF HearSecond
<1>2. /\ m \in CallRec /\ m.kind = "ops-session" /\ tab[t].shown = NoContext /\ JarTrue(provider, jar)
      /\ m.code = "ALLOW" => m.at = "answered" /\ m = net[Page(t)]
      /\ net[Page(t)].kind \in Reads
      BY HeardIsTrue, TabFacts DEF Reads
<1>3. m.ctx \in ContextRecords /\ m.code \in Codes /\ m.eligible \in SUBSET Tenants
      BY <1>2 DEF CallRec
<1>4. CASE m.code = "ALLOW" /\ ~Agree(tab[t].first, m.ctx)
  <2>1. Resolved(t, "DENY_AUTHORITY_VERSION_CONFLICT", NoContext, {}, jar)
        BY <1>1, <1>4
  <2>2. "DENY_AUTHORITY_VERSION_CONFLICT" \in Codes /\ {} \in SUBSET Tenants
        BY DEF Codes, Denials
  <2> QED BY <2>1, <2>2, <1>2, EmptyShapes, ResolvedKeeps
<1>5. CASE ~(m.code = "ALLOW" /\ ~Agree(tab[t].first, m.ctx))
  <2>1. PICK code : code = IF m.code = "SELECT" THEN "DENY_TENANT_AMBIGUOUS" ELSE m.code
        OBVIOUS
  <2>2. code \in Codes /\ (code = "ALLOW" => m.code = "ALLOW") /\ code # "SELECT"
        BY <2>1, <1>3 DEF Codes, Denials
  <2>3. Resolved(t, code, m.ctx, m.eligible, jar)
        BY <2>1, <1>1, <1>5
  <2>4. m.code = "ALLOW" => /\ Vouched(provider, was, m.ctx)
                            /\ tab[t].choice # NoTenant => m.ctx.tenant = tab[t].choice
    <3>1. SUFFICES ASSUME m.code = "ALLOW"
                   PROVE  /\ Vouched(provider, was, m.ctx)
                          /\ tab[t].choice # NoTenant => m.ctx.tenant = tab[t].choice
          OBVIOUS
    <3>2. /\ m.at = "answered" /\ CallTrue(provider, was, m) /\ Awaits(tab[t], m)
          BY <3>1, <1>2 DEF AuthInv, ChannelsTrue, TabsTrue, Chans
    <3>3. Vouched(provider, was, m.ctx)
          BY <3>1, <3>2, <1>2 DEF CallTrue, FoundTrue
    <3>4. Fits(tab[t].choice, m)
          BY <3>2 DEF Awaits
    <3> QED BY <3>1, <3>2, <3>3, <3>4, <1>2 DEF Fits
  <2> QED BY <2>2, <2>3, <2>4, <1>2, <1>3, ResolvedKeeps
<1> QED BY <1>4, <1>5

-----------------------------------------------------------------------------
(* The shell. *)

\* The call of the purge, which never leaves the browser.
LEMMA PurgeTrue ==
    ASSUME NEW p, NEW w
    PROVE  /\ CallTrue(p, w, PurgeCall) /\ PurgeCall.kind = "purge"
           /\ \A v : v.shown = NoContext => Awaits(v, PurgeCall)
<1>1. PICK call : call = PurgeCall
      OBVIOUS
<1>2. call = [Idle EXCEPT !.at = "answered", !.kind = "purge"]
      BY <1>1 DEF PurgeCall
<1>3. /\ call \in CallRec /\ call.at = "answered" /\ call.kind = "purge" /\ call.sets = Keep
      /\ call.code = "none"
      BY <1>2, EmptyShapes DEF Idle, CallRec, Instants, Kinds
<1>4. CallTrue(p, w, call)
      BY <1>3, EmptySets DEF CallTrue, SentTrue, LateRefused, FoundTrue, Reads
<1> QED BY <1>1, <1>3, <1>4 DEF Awaits, Fits

\* A shell that forgets what it shows.
LEMMA MovedAway ==
    ASSUME NEW p, NEW w, NEW v, ViewTrue(p, w, v), NEW status \in Statuses,
           NEW eligible \in SUBSET Tenants,
           v.shown = NoContext \/ status \in Moves[v.status],
           NEW m, m = Move(v, status, NoContext, eligible)
    PROVE  /\ ViewTrue(p, w, m) /\ m.shown = NoContext /\ m.page = v.page
           /\ status \in Moves[v.status] => m.status = status
BY EmptyShapes, MoveTrue

\* A view that shows nothing may forget what was chosen, and remember what went wrong.
LEMMA NotedTrue ==
    ASSUME NEW p, NEW w, NEW v, ViewTrue(p, w, v), v.shown = NoContext,
           NEW failure \in {"none", "server", "cleanup"}, NEW n,
           n = [v EXCEPT !.choice = NoTenant] \/ n = [v EXCEPT !.failure = failure]
    PROVE  ViewTrue(p, w, n) /\ n.shown = NoContext /\ n.page = v.page /\ n.status = v.status
<1>1. v \in View
      BY DEF ViewTrue
<1>2. /\ n \in View /\ n.source = v.source /\ n.user = v.user /\ n.shown = v.shown
      /\ n.page = v.page /\ n.status = v.status
  <2>1. CASE n = [v EXCEPT !.choice = NoTenant]
        BY <2>1, <1>1 DEF View, Places
  <2>2. CASE n = [v EXCEPT !.failure = failure]
        BY <2>2, <1>1 DEF View
  <2> QED BY <2>1, <2>2
<1> QED BY <1>2, StageTrue

\* A shell that asks for its context, at first or again.
LEMMA ShellResolves ==
    ASSUME AuthInv, NEW t \in Tabs, ResolveShell(t)
    PROVE  AuthInv'
<1>1. PICK v : v = tab[t]
      OBVIOUS
<1>2. ViewTrue(provider, was, v) /\ JarTrue(provider, jar) /\ NoTenant \in Places
      /\ (v.status # "AUTHENTICATED" => v.shown = NoContext)
      BY <1>1, TabFacts
<1>3. v.status = "BOOTING" \/ OffersRetry(v)
      BY <1>1 DEF ResolveShell
<1>4. v.status # "AUTHENTICATED" /\ "RESOLVING_SESSION" \in Moves[v.status]
  <2>1. v.status \in {"BOOTING", "AUTHORITY_UNAVAILABLE", "NETWORK_FAILURE"}
        BY <1>3 DEF OffersRetry, StateForDenial
  <2> QED BY <2>1 DEF Moves
<1>5. PICK m : m = Move(v, "RESOLVING_SESSION", NoContext, {})
      OBVIOUS
<1>6. PICK n : n = [m EXCEPT !.choice = NoTenant]
      OBVIOUS
<1>7. ViewTrue(provider, was, n) /\ n.shown = NoContext /\ n.status = "RESOLVING_SESSION"
  <2>1. "RESOLVING_SESSION" \in Statuses /\ {} \in SUBSET Tenants
        BY DEF Statuses
  <2>2. ViewTrue(provider, was, m) /\ m.shown = NoContext /\ m.status = "RESOLVING_SESSION"
        BY <2>1, <1>2, <1>4, <1>5, MovedAway
  <2> QED BY <2>2, <1>6, NotedTrue
<1>8. Becomes(t, n, Resolve(jar, NoTenant), jar)
      BY <1>1, <1>5, <1>6 DEF ResolveShell
<1>9. Steady(n, "auth-session")
      BY <1>7 DEF Steady, Reads
<1> QED BY <1>2, <1>7, <1>8, <1>9, Resolves

\* A shell that turns to another organization, or whose context expires.
LEMMA OrganizationKeeps ==
    ASSUME AuthInv, NEW t \in Tabs, ChangeOrganization(t) \/ ChooseOrganization(t) \/ ShellExpires(t)
    PROVE  AuthInv'
<1>1. PICK v : v = tab[t]
      OBVIOUS
<1>2. /\ v \in View /\ ViewTrue(provider, was, v) /\ JarTrue(provider, jar) /\ NoTenant \in Places
      /\ v.status # "AUTHENTICATED" => v.shown = NoContext
      BY <1>1, TabFacts
<1>3. {"CHANGING_TENANT", "EXPIRED"} \subseteq Statuses /\ {} \in SUBSET Tenants
      /\ v.eligible \in SUBSET Tenants
      BY <1>2 DEF Statuses, View
<1>4. ASSUME v.status = "AUTHENTICATED", NEW status \in {"CHANGING_TENANT", "EXPIRED"},
             NEW eligible \in SUBSET Tenants, status = "CHANGING_TENANT" => eligible # {},
             Becomes(t, Move(v, status, NoContext, eligible), Idle, jar)
      PROVE  AuthInv'
  <2>1. PICK n : n = Move(v, status, NoContext, eligible)
        OBVIOUS
  <2>2. status \in Moves[v.status] /\ status \in Statuses
        BY <1>4 DEF Moves, Troubles, Statuses
  <2>3. ViewTrue(provider, was, n) /\ n.status = status /\ n.eligible = eligible
        BY <2>1, <2>2, <1>2, EmptyShapes, MoveTrue
  <2>4. Steady(n, "none")
        BY <2>3, <1>4 DEF Steady
  <2> QED BY <2>1, <2>3, <2>4, <1>2, <1>4, Rests
<1>5. CASE ChangeOrganization(t)
  <2>1. v.eligible # {}
    <3>1. Cardinality(v.eligible) > 1
          BY <1>1, <1>5 DEF ChangeOrganization, OffersChange
    <3>2. Cardinality({}) = 0
          BY FS_EmptySet
    <3> QED BY <3>1, <3>2
  <2>2. v.status = "AUTHENTICATED" /\ Becomes(t, Move(v, "CHANGING_TENANT", NoContext, v.eligible), Idle, jar)
        BY <1>1, <1>5 DEF ChangeOrganization, OffersChange
  <2> QED BY <2>1, <2>2, <1>3, <1>4
<1>6. CASE ShellExpires(t)
      BY <1>1, <1>3, <1>4, <1>6 DEF ShellExpires
<1>7. CASE ChooseOrganization(t)
  <2>1. v.status = "CHANGING_TENANT" /\ v.eligible # {}
        BY <1>1, <1>7 DEF ChooseOrganization, OffersOrganizations
  <2>2. PICK x \in v.eligible : Becomes(t, [v EXCEPT !.choice = x], Resolve(jar, x), jar)
        BY <1>1, <1>7 DEF ChooseOrganization
  <2>3. x \in Places
        BY <2>2, <1>3 DEF Places
  <2>4. PICK n : n = [v EXCEPT !.choice = x]
        OBVIOUS
  <2>5. /\ n \in View /\ n.source = v.source /\ n.user = v.user /\ n.shown = v.shown
        /\ n.page = v.page /\ n.status = v.status /\ n.eligible = v.eligible
        BY <2>3, <2>4, <1>2 DEF View
  <2>6. ViewTrue(provider, was, n) /\ n.shown = NoContext
        BY <2>1, <2>5, <1>2, StageTrue
  <2>8. Steady(n, "auth-session")
        BY <2>1, <2>5 DEF Steady, Reads
  <2>7. Becomes(t, n, Resolve(jar, x), jar)
        BY <2>2, <2>4
  <2> QED BY <2>3, <2>6, <2>7, <2>8, <1>2, Resolves
<1> QED BY <1>5, <1>6, <1>7

\* A shell that signs out, or tries its cleanup again.
LEMMA SignOutKeeps ==
    ASSUME AuthInv, NEW t \in Tabs, SignOut(t) \/ RetryCleanup(t)
    PROVE  AuthInv'
<1>1. PICK v : v = tab[t]
      OBVIOUS
<1>2. /\ v \in View /\ ViewTrue(provider, was, v) /\ JarTrue(provider, jar) /\ NoTenant \in Places
      /\ NoUser \in People /\ (v.status # "AUTHENTICATED" => v.shown = NoContext)
      BY <1>1, TabFacts
<1>3. "SIGNING_OUT" \in Statuses /\ {} \in SUBSET Tenants
      BY DEF Statuses
<1>4. ASSUME NEW n, Becomes(t, n, SignOutCall, jar), ViewTrue(provider, was, n), n.shown = NoContext,
             n.status = "SIGNING_OUT"
      PROVE  AuthInv'
  <2>1. Becomes(t, n, Call(jar, "sign-out", NoTenant, FALSE, NoUser), jar)
        BY <1>4 DEF SignOutCall
  <2>2. "sign-out" \in Kinds /\ FALSE \in BOOLEAN /\ Steady(n, "sign-out")
        BY <1>4 DEF Kinds, Steady
  <2> QED BY <2>1, <2>2, <1>2, <1>4, Calls
<1>5. CASE SignOut(t)
  <2>1. v.shown # NoContext
        BY <1>1, <1>5 DEF SignOut, OffersSignOut
  <2>2. "SIGNING_OUT" \in Moves[v.status]
    <3>1. v.status = "AUTHENTICATED"
          BY <2>1, <1>2
    <3> QED BY <3>1 DEF Moves
  <2>3. PICK leaving \in 0..MaxSessions : leaving = v.shown.sid
        BY <1>2 DEF View, ContextRecords
  <2>4. PICK m : m = Move(v, "SIGNING_OUT", NoContext, {})
        OBVIOUS
  <2>5. PICK n, failure : failure = "none" /\ n = [m EXCEPT !.failure = failure, !.leaving = leaving]
        OBVIOUS
  <2>6. ViewTrue(provider, was, m) /\ m.shown = NoContext /\ m.status = "SIGNING_OUT"
        BY <2>2, <2>4, <1>2, <1>3, MovedAway
  <2>7. ViewTrue(provider, was, n) /\ n.shown = NoContext /\ n.status = "SIGNING_OUT"
    <3>1. failure \in {"none", "server", "cleanup"} /\ leaving \in 0..MaxSessions
          BY <2>3, <2>5
    <3>2. m \in View
          BY <2>6 DEF ViewTrue
    <3>3. /\ n \in View /\ n.source = m.source /\ n.user = m.user /\ n.shown = m.shown
          /\ n.page = m.page /\ n.status = m.status
          BY <3>1, <3>2, <2>5 DEF View
    <3> QED BY <3>3, <2>6, StageTrue
  <2>8. Becomes(t, n, SignOutCall, jar)
        BY <2>3, <2>4, <2>5, <1>1, <1>5 DEF SignOut, SigningOut
  <2> QED BY <2>7, <2>8, <1>4
<1>6. CASE RetryCleanup(t)
  <2>1. v.shown = NoContext /\ "SIGNING_OUT" \in Moves[v.status]
        BY <1>1, <1>2, <1>6 DEF RetryCleanup, OffersCleanup, Moves
  <2>2. PICK n : n = Move(v, "SIGNING_OUT", NoContext, {})
        OBVIOUS
  <2>3. ViewTrue(provider, was, n) /\ n.shown = NoContext /\ n.status = "SIGNING_OUT"
        BY <2>1, <2>2, <1>2, <1>3, MovedAway
  <2>4. Becomes(t, n, IF v.failure = "server" THEN SignOutCall ELSE PurgeCall, jar)
        BY <2>2, <1>1, <1>6 DEF RetryCleanup, SigningOut
  <2>5. CASE v.failure = "server"
        BY <2>3, <2>4, <2>5, <1>4
  <2>6. CASE v.failure # "server"
    <3>1. Becomes(t, n, PurgeCall, jar)
          BY <2>4, <2>6
    <3>2. CallTrue(provider, was, PurgeCall) /\ Steady(n, PurgeCall.kind) /\ Awaits(n, PurgeCall)
          BY <2>3, PurgeTrue DEF Steady
    <3> QED BY <3>1, <3>2, <2>3, <1>2, PageKeeps
  <2> QED BY <2>5, <2>6
<1> QED BY <1>5, <1>6

\* The answer to signing out, or none: the stores are purged.
LEMMA SignOutHeard ==
    ASSUME AuthInv, NEW t \in Tabs, HearSignOut(t)
    PROVE  AuthInv'
<1>1. PICK m \in Heard(t, {"sign-out"}) :
         Becomes(t, [tab[t] EXCEPT !.failure = IF m.code = "ALLOW" THEN "none" ELSE "server"],
                 PurgeCall, Applied(m.sets))
      BY DEF HearSignOut
<1>2. PICK v, j : v = tab[t] /\ j = Applied(m.sets)
      OBVIOUS
<1>3. JarTrue(provider, j) /\ v.shown = NoContext /\ net[Page(t)].kind = "sign-out"
      BY <1>2, HeardIsTrue
<1>4. v \in View /\ ViewTrue(provider, was, v) /\ (v.page = "shell" => v.status = "SIGNING_OUT")
      BY <1>2, <1>3, TabFacts DEF Steady, Reads
<1>5. PICK failure \in {"none", "server"} : failure = IF m.code = "ALLOW" THEN "none" ELSE "server"
      OBVIOUS
<1>6. PICK n : n = [v EXCEPT !.failure = failure]
      OBVIOUS
<1>7. /\ n \in View /\ n.source = v.source /\ n.user = v.user /\ n.shown = v.shown
      /\ n.page = v.page /\ n.status = v.status
      BY <1>4, <1>5, <1>6 DEF View
<1>8. ViewTrue(provider, was, n) /\ n.shown = NoContext
      BY <1>3, <1>4, <1>7, StageTrue
<1>9. Becomes(t, n, PurgeCall, j)
      BY <1>1, <1>2, <1>5, <1>6
<1>10. CallTrue(provider, was, PurgeCall) /\ Steady(n, PurgeCall.kind) /\ Awaits(n, PurgeCall)
      BY <1>4, <1>7, <1>8, PurgeTrue DEF Steady
<1> QED BY <1>3, <1>8, <1>9, <1>10, PageKeeps

\* The end of the purge.
LEMMA PurgedKeeps ==
    ASSUME AuthInv, NEW t \in Tabs, Purged(t)
    PROVE  AuthInv'
<1>1. PICK v : v = tab[t]
      OBVIOUS
<1>2. ViewTrue(provider, was, v) /\ JarTrue(provider, jar)
      BY <1>1, TabFacts
<1>3. v.shown = NoContext /\ (v.page = "shell" => v.status = "SIGNING_OUT")
  <2>1. PICK n : n = net[Page(t)]
        OBVIOUS
  <2>2. CallTrue(provider, was, n) /\ Awaits(v, n)
        BY <2>1, <1>1 DEF AuthInv, ChannelsTrue, TabsTrue, Chans
  <2>3. n.kind = "purge"
        BY <2>1 DEF Purged
  <2>4. Steady(v, n.kind)
        BY <2>1, <1>1, TabFacts
  <2> QED BY <2>2, <2>3, <2>4 DEF CallTrue, Awaits, Steady, Reads
<1>4. PICK failure \in {"server", "cleanup"} : failure = IF v.failure = "server" THEN "server" ELSE "cleanup"
      OBVIOUS
<1>5. PICK m : m = Move(v, "SIGNED_OUT_CLEANUP_REQUIRED", NoContext, {})
      OBVIOUS
<1>6. PICK n : n = [m EXCEPT !.failure = failure]
      OBVIOUS
<1>7. Becomes(t, SignInPage, Idle, jar) \/ Becomes(t, n, Idle, jar)
      BY <1>1, <1>4, <1>5, <1>6 DEF Purged
<1>8. ViewTrue(provider, was, n) /\ Steady(n, "none")
  <2>1. "SIGNED_OUT_CLEANUP_REQUIRED" \in Statuses /\ {} \in SUBSET Tenants
        BY DEF Statuses
  <2>2. /\ ViewTrue(provider, was, m) /\ m.shown = NoContext /\ m.page = v.page
        /\ v.page = "shell" => m.status = "SIGNED_OUT_CLEANUP_REQUIRED"
        BY <2>1, <1>2, <1>3, <1>5, MovedAway DEF Moves
  <2>3. failure \in {"none", "server", "cleanup"}
        BY <1>4
  <2> QED BY <2>2, <2>3, <1>6, NotedTrue DEF Steady
<1> QED BY <1>2, <1>7, <1>8, EmptyPages, Rests

-----------------------------------------------------------------------------
(* The settings panel. *)

\* A command channel that turns to a call or to rest, with the cookies it was given.
LEMMA CommandKeeps ==
    ASSUME AuthInv, NEW t \in Tabs, NEW call,
           net' = [net EXCEPT ![Command(t)] = call], UNCHANGED <<Server, tab>>,
           CallTrue(provider, was, call), JarTrue(provider, jar')
    PROVE  AuthInv'
<1>1. UNCHANGED <<provider, enrolled, members, was, tab>>
      BY DEF Server
<1>2. Command(t) \in Chans /\ net \in [Chans -> CallRec]
      BY DEF Chans, AuthInv, ChannelsTrue
<1>3. \A d \in Chans : net'[d] = IF d = Command(t) THEN call ELSE net[d]
      BY <1>2
<1>4. /\ \A s \in Tabs : Page(s) # Command(t) /\ Page(s) \in Chans /\ Command(s) \in Chans
      /\ \A s \in Tabs : Command(s) = Command(t) => s = t
      BY DEF Page, Command, Chans
<1>5. ChannelsTrue'
  <2>1. \A d \in Chans : CallTrue(provider, was, net'[d])
        BY <1>3 DEF AuthInv, ChannelsTrue
  <2>2. net' \in [Chans -> CallRec]
        BY <1>2 DEF CallTrue
  <2> QED BY <2>1, <2>2, <1>1 DEF ChannelsTrue
<1>6. TabsTrue'
  <2>1. \A s \in Tabs : net'[Page(s)] = net[Page(s)]
        BY <1>3, <1>4
  <2> QED BY <2>1, <1>1 DEF AuthInv, TabsTrue
<1> QED BY <1>1, <1>5, <1>6 DEF AuthInv

\* What the command channel is known to carry.
LEMMA CommandFacts ==
    ASSUME AuthInv, NEW t \in Tabs
    PROVE  /\ net[Command(t)] \in CallRec /\ CallTrue(provider, was, net[Command(t)])
           /\ ProviderTrue(provider, enrolled) /\ JarTrue(provider, jar)
BY DEF AuthInv, ChannelsTrue, Chans

\* A command that leaves.
LEMMA IssueKeeps ==
    ASSUME AuthInv, NEW t \in Tabs, IssueCommand(t)
    PROVE  AuthInv'
<1>1. PICK call : call = Call(jar, "command", NoTenant, FALSE, NoUser)
      OBVIOUS
<1>2. /\ net' = [net EXCEPT ![Command(t)] = call]
      /\ UNCHANGED <<Server, jar, tab>>
      BY <1>1 DEF IssueCommand
<1>3. CallTrue(provider, was, call)
  <2>1. "command" \in Kinds /\ FALSE \in BOOLEAN /\ NoTenant \in Places /\ NoUser \in People
        BY DEF Kinds, Reads, Places, People
  <2> QED BY <2>1, <1>1, CommandFacts, CallLeaves
<1> QED BY <1>2, <1>3, CommandFacts, CommandKeeps

\* The answer to a command, or to the refresh made for it.
LEMMA CommandHeard ==
    ASSUME AuthInv, NEW t \in Tabs, HearCommand(t)
    PROVE  AuthInv'
<1>1. PICK m : m = net[Command(t)]
      OBVIOUS
<1>2. PICK j : j = Applied(m.sets)
      OBVIOUS
<1>3. PICK call : call = CASE m.kind = "command" /\ Unauthorized(m.code) /\ ~m.named ->
                                 Call(j, "refresh", NoTenant, FALSE, NoUser)
                           [] m.kind = "refresh" /\ m.code = "ALLOW" ->
                                 Call(j, "command", NoTenant, TRUE, NoUser)
                           [] OTHER -> Idle
      OBVIOUS
<1>4. net' = [net EXCEPT ![Command(t)] = call] /\ jar' = j /\ UNCHANGED <<Server, tab>>
      BY <1>1, <1>2, <1>3 DEF HearCommand
<1>5. CallTrue(provider, was, m) /\ ProviderTrue(provider, enrolled)
      BY <1>1, CommandFacts
<1>6. JarTrue(provider, j)
      BY <1>2, <1>5, AppliedTrue, CommandFacts DEF CallTrue
<1>7. call = Idle \/ \E kind \in {"refresh", "command"}, named \in BOOLEAN :
                        call = Call(j, kind, NoTenant, named, NoUser)
      BY <1>3
<1>8. CallTrue(provider, was, call)
  <2>1. CASE call = Idle
        BY <2>1, IdleTrue
  <2>2. ASSUME NEW kind \in {"refresh", "command"}, NEW named \in BOOLEAN,
               call = Call(j, kind, NoTenant, named, NoUser)
        PROVE  CallTrue(provider, was, call)
    <3>1. kind \in Kinds /\ kind # "sign-in" /\ NoTenant \in Places /\ NoUser \in People
          BY DEF Kinds, Places, People
    <3> QED BY <3>1, <2>2, <1>5, <1>6, CallLeaves
  <2> QED BY <2>1, <2>2, <1>7
<1> QED BY <1>4, <1>6, <1>8, CommandKeeps

\* The address bar: an empty page, which awaits nothing.
LEMMA OpenKeeps ==
    ASSUME AuthInv, NEW t \in Tabs, NEW v \in {SignInPage, ShellPage}, OpenPage(t, v)
    PROVE  AuthInv'
<1>1. /\ tab' = [tab EXCEPT ![t] = v]
      /\ net' = [net EXCEPT ![Page(t)] = Idle, ![Command(t)] = Idle]
      /\ UNCHANGED <<provider, enrolled, members, was, jar>>
      BY DEF OpenPage, Server
<1>2. \A d \in Chans : net'[d] = IF d \in {Page(t), Command(t)} THEN Idle ELSE net[d]
      BY <1>1 DEF AuthInv, ChannelsTrue, Page, Command
<1>3. \A s \in Tabs : /\ Page(s) \in Chans /\ Command(s) \in Chans
                      /\ Page(s) \in {Page(t), Command(t)} <=> s = t
                      /\ Command(s) \in {Page(t), Command(t)} <=> s = t
      BY DEF Page, Command, Chans
<1>4. ViewTrue(provider, was, v) /\ v.shown = NoContext /\ v \in View /\ Steady(v, "none")
      BY EmptyPages, EmptyShapes
<1>5. Idle.kind = "none" /\ Idle.at = "idle"
      BY DEF Idle
<1>6. ChannelsTrue'
  <2>1. \A d \in Chans : CallTrue(provider, was, net'[d])
        BY <1>2, IdleTrue DEF AuthInv, ChannelsTrue
  <2>2. net' \in [Chans -> CallRec]
        BY <1>1, EmptyShapes DEF AuthInv, ChannelsTrue
  <2> QED BY <2>1, <2>2, <1>1 DEF ChannelsTrue
<1>7. TabsTrue'
  <2>1. tab' \in [Tabs -> View] /\ \A s \in Tabs : tab'[s] = IF s = t THEN v ELSE tab[s]
        BY <1>1, <1>4 DEF AuthInv, TabsTrue
  <2>2. \A s \in Tabs : ViewTrue(provider, was, tab'[s])
        BY <2>1, <1>4 DEF AuthInv, TabsTrue
  <2>3. \A s \in Tabs : Awaits(tab'[s], net'[Page(s)])
        BY <2>1, <1>2, <1>3, <1>4, <1>5 DEF AuthInv, TabsTrue, Awaits
  <2>4. \A s \in Tabs : Steady(tab'[s], net'[Page(s)].kind)
        BY <2>1, <1>2, <1>3, <1>4, <1>5 DEF AuthInv, TabsTrue
  <2> QED BY <2>1, <2>2, <2>3, <2>4, <1>1 DEF TabsTrue
<1> QED BY <1>1, <1>6, <1>7 DEF AuthInv

-----------------------------------------------------------------------------
(* The invariant. *)

\* It holds before anything happens.
LEMMA InitHolds ==
    ASSUME Init
    PROVE  AuthInv
<1>1. ProviderTrue(provider, enrolled)
      BY DEF Init, ProviderTrue, NoSession, Session, People
<1>2. MembersTrue(members, was)
  <2>1. PICK m : m = members
        OBVIOUS
  <2>2. m \in [Users -> [Tenants -> Membership]]
        BY <2>1 DEF Init, Membership, Roles
  <2>3. \A u \in Users, x \in Tenants : m[u][x].version = 1
        BY <2>1 DEF Init
  <2>4. was = [u \in Users |-> [x \in Tenants |-> <<m[u][x]>>]]
        BY <2>1 DEF Init
  <2>5. \A u \in Users, x \in Tenants : was[u][x] = <<m[u][x]>> /\ m[u][x] \in Membership
        BY <2>2, <2>4
  <2>6. ASSUME NEW u \in Users, NEW x \in Tenants
        PROVE  was[u][x] \in Seq(Membership) /\ Len(was[u][x]) = 1 /\ was[u][x][1] = m[u][x]
    <3>1. PICK e \in Membership : e = m[u][x]
          BY <2>5
    <3>2. <<e>> \in Seq(Membership) /\ Len(<<e>>) = 1 /\ <<e>>[1] = e
          OBVIOUS
    <3> QED BY <3>1, <3>2, <2>5
  <2>7. was \in [Users -> [Tenants -> Seq(Membership)]]
    <3>1. ASSUME NEW u \in Users
          PROVE  was[u] \in [Tenants -> Seq(Membership)]
      <4>1. was[u] = [x \in Tenants |-> <<m[u][x]>>]
            BY <2>4
      <4> QED BY <4>1, <2>6
    <3> QED BY <3>1, <2>4
  <2>8. ASSUME NEW u \in Users, NEW x \in Tenants
        PROVE  /\ m[u][x].version = Len(was[u][x]) /\ m[u][x].version > 0
               /\ m[u][x] = was[u][x][m[u][x].version]
    <3>1. PICK n : n = m[u][x].version
          OBVIOUS
    <3>2. n = 1
          BY <3>1, <2>3
    <3>3. Len(was[u][x]) = 1 /\ was[u][x][1] = m[u][x]
          BY <2>6
    <3> QED BY <3>1, <3>2, <3>3
  <2> QED BY <2>1, <2>2, <2>7, <2>8 DEF MembersTrue
<1>3. JarTrue(provider, jar)
      BY AuthAssumption DEF Init, JarTrue, EmptyJar, Jar, Places
<1>4. Idle.kind = "none" /\ Idle.at = "idle"
      BY DEF Idle
<1>5. ChannelsTrue
      BY <1>4, EmptyShapes, IdleTrue DEF Init, ChannelsTrue, Chans
<1>6. TabsTrue
      BY <1>4, EmptyShapes, EmptyPages DEF Init, TabsTrue, Awaits, Chans
<1> QED BY <1>1, <1>2, <1>3, <1>5, <1>6 DEF AuthInv

\* Every step keeps it.
LEMMA NextKeeps ==
    ASSUME AuthInv, [Next]_vars
    PROVE  AuthInv'
<1>1. CASE \E c \in Chans : Serve(c)
      BY <1>1, ServerKeeps
<1>2. ASSUME NEW t \in Tabs, Hear(t)
      PROVE  AuthInv'
      BY <1>2, SignInHeard, FactorHeard, FirstHeard, SecondHeard, SignOutHeard, PurgedKeeps DEF Hear
<1>3. ASSUME NEW t \in Tabs, Acts(t)
      PROVE  AuthInv'
      BY <1>3, FormsKeep, OrganizationKeeps, SignOutKeeps, IssueKeeps DEF Acts
<1>4. CASE \E t \in Tabs : ResolveShell(t) \/ ShellExpires(t) \/ HearCommand(t)
      BY <1>4, ShellResolves, OrganizationKeeps, CommandHeard
<1>5. CASE \E t \in Tabs, v \in {SignInPage, ShellPage} : OpenPage(t, v)
      BY <1>5, OpenKeeps
<1>6. CASE \E sid \in Sids : SessionEnds(sid)
      BY <1>6, EndKeeps
<1>7. CASE \E m \in Changes : ChangeMembership(m[1], m[2], m[3], m[4])
  <2>1. PICK m \in Changes : ChangeMembership(m[1], m[2], m[3], m[4])
        BY <1>7
  <2>2. m[1] \in Users /\ m[2] \in Tenants /\ m[3] \in Roles /\ m[4] \in BOOLEAN
        BY AuthAssumption
  <2> QED BY <2>1, <2>2, MembershipKeeps
<1>8. CASE \E u \in Users, sid \in Sids : ElsewhereSignsIn(u, sid)
      BY <1>8, ElsewhereInKeeps
<1>9. CASE ElsewhereSignsOut \/ JarExpires
      BY <1>9, ElsewhereOutKeeps, ExpiryKeeps
<1>10. CASE UNCHANGED vars
      BY <1>10 DEF vars, AuthInv, ChannelsTrue, TabsTrue
<1> QED BY <1>1, <1>2, <1>3, <1>4, <1>5, <1>6, <1>7, <1>8, <1>9, <1>10 DEF Next

\* So it holds in every reachable state.
LEMMA InvariantHolds == Spec => []AuthInv
<1>1. Init => AuthInv
      BY InitHolds
<1>2. AuthInv /\ [Next]_vars => AuthInv'
      BY NextKeeps
<1> QED BY <1>1, <1>2, PTL DEF Spec

(* A context a shell shows was true at one instant, whatever the answers of *)
(* the two routes met between the server and the page.                     *)
(* (authority-client.ts, http.ts, AuthenticatedProductShell.tsx)           *)
THEOREM ShownWasAuthorized == Spec => []ShownIsAuthorized
<1>1. AuthInv => ShownIsAuthorized
  <2>1. SUFFICES ASSUME AuthInv, NEW t \in Tabs, tab[t].shown # NoContext
                 PROVE  LET s == tab[t].shown
                        IN  /\ was[s.user][s.tenant][s.version].active
                            /\ was[s.user][s.tenant][s.version].role = s.role
                            /\ s.settings => <<s.role, ManageMembership[1], ManageMembership[2]>> \in Permissions
                            /\ provider[s.sid].user = s.user
                            /\ RequireAal2 => provider[s.sid].aal = 2 /\ s.user \in enrolled
                            /\ tab[t].choice # NoTenant => s.tenant = tab[t].choice
        BY DEF ShownIsAuthorized
  <2>2. /\ Vouched(provider, was, tab[t].shown)
        /\ tab[t].choice # NoTenant => tab[t].shown.tenant = tab[t].choice
        BY <2>1 DEF AuthInv, TabsTrue, ViewTrue
  <2>3. \A s \in Sids : provider[s].aal = 2 => provider[s].user \in enrolled
        BY <2>1 DEF AuthInv, ProviderTrue
  <2> QED BY <2>2, <2>3 DEF Vouched
<1> QED BY <1>1, InvariantHolds, PTL

(* A call to the session routes sent after its session ended is never      *)
(* admitted and never allowed.  (verifyAuthenticatedSession, signOut)      *)
THEOREM EndedIsRefused == Spec => []EndedSessionRefused
<1>1. AuthInv => EndedSessionRefused
      BY DEF AuthInv, ChannelsTrue, CallTrue, LateRefused, EndedSessionRefused
<1> QED BY <1>1, InvariantHolds, PTL

(* The shell is never left waiting for nothing, whichever answers its table *)
(* of moves drops, and it never offers a choice of no organization.         *)
(* (transitionAuthorityState, resolve, signOut, retryCleanup)               *)
THEOREM ShellNeverStuck == Spec => []ShellMovesOn
<1>1. AuthInv => ShellMovesOn
  <2>1. SUFFICES ASSUME AuthInv, NEW t \in Tabs, tab[t].page = "shell", NEW kind, kind = net[Page(t)].kind
                 PROVE  CASE tab[t].status = "RESOLVING_SESSION" -> kind \in Reads
                          [] tab[t].status = "SIGNING_OUT"       -> kind \in {"sign-out", "purge"}
                          [] tab[t].status = "CHANGING_TENANT"   -> kind \in Reads \cup {"none"}
                                                                    /\ tab[t].eligible # {}
                          [] OTHER                               -> kind = "none"
        BY DEF ShellMovesOn
  <2>2. Steady(tab[t], kind)
        BY <2>1, TabFacts
  <2> QED BY <2>1, <2>2 DEF Steady
<1> QED BY <1>1, InvariantHolds, PTL

\* A page's step enrols nobody.
LEMMA PagesEnrolNobody ==
    ASSUME NEW t, Hear(t) \/ Acts(t) \/ ResolveShell(t) \/ ShellExpires(t)
    PROVE  enrolled' = enrolled
<1>1. ASSUME NEW v, NEW m, NEW j, Becomes(t, v, m, j)
      PROVE  enrolled' = enrolled
      BY <1>1 DEF Becomes, Server
<1>2. ASSUME NEW code, NEW ctx, NEW eligible, NEW j, Resolved(t, code, ctx, eligible, j)
      PROVE  enrolled' = enrolled
      BY <1>1, <1>2 DEF Resolved
<1>3. CASE HearSignIn(t)
      BY <1>1, <1>3 DEF HearSignIn
<1>4. CASE HearFactor(t)
      BY <1>1, <1>4 DEF HearFactor
<1>5. CASE HearFirst(t) \/ HearSecond(t)
      BY <1>1, <1>2, <1>5 DEF HearFirst, HearSecond
<1>6. CASE HearSignOut(t) \/ Purged(t)
      BY <1>1, <1>6 DEF HearSignOut, Purged
<1>7. CASE Submit(t) \/ EnterCode(t) \/ ChooseTenant(t) \/ ChangeOrganization(t)
      BY <1>1, <1>7 DEF Submit, EnterCode, ChooseTenant, ChangeOrganization
<1>8. CASE ChooseOrganization(t) \/ SignOut(t) \/ RetryCleanup(t)
      BY <1>1, <1>8 DEF ChooseOrganization, SignOut, RetryCleanup
<1>9. CASE IssueCommand(t)
      BY <1>9 DEF IssueCommand, Server
<1>10. CASE ResolveShell(t) \/ ShellExpires(t)
      BY <1>1, <1>10 DEF ResolveShell, ShellExpires
<1> QED BY <1>3, <1>4, <1>5, <1>6, <1>7, <1>8, <1>9, <1>10 DEF Hear, Acts

\* Only users enrol a factor: the one of a session the provider opened, or another window's.
LEMMA UsersEnrol ==
    ASSUME AuthInv, enrolled \subseteq Users, [Next]_vars
    PROVE  enrolled' \subseteq Users
<1>1. CASE \E c \in Chans : Serve(c)
  <2>1. PICK c \in Chans : Serve(c)
        BY <1>1
  <2>2. CASE ServeVerify(c)
    <3>1. provider[net[c].sid].user \in Users
          BY <2>2, VerifiedIsOpened DEF ServeVerify, FactorCall
    <3> QED BY <2>2, <3>1 DEF ServeVerify
  <2>3. CASE ServeSignIn(c) \/ ServeSignOut(c) \/ Authorize(c)
        BY <2>3 DEF ServeSignIn, ServeSignOut, Authorize, Server
  <2>4. CASE ServeRead(c) \/ ServeRefresh(c) \/ ServeNoSession(c) \/ ServeEnroll(c)
             \/ ServeChallenge(c) \/ ServeOutside(c) \/ ServiceFails(c)
        BY <2>4 DEF ServeRead, ServeRefresh, ServeNoSession, ServeEnroll, ServeChallenge,
                    ServeOutside, ServiceFails, Server
  <2> QED BY <2>1, <2>2, <2>3, <2>4 DEF Serve
<1>2. CASE \E t \in Tabs : Hear(t) \/ Acts(t) \/ ResolveShell(t) \/ ShellExpires(t)
      BY <1>2, PagesEnrolNobody
<1>3. CASE \E t \in Tabs : HearCommand(t) \/ \E v \in {SignInPage, ShellPage} : OpenPage(t, v)
      BY <1>3 DEF HearCommand, OpenPage, Server
<1>4. CASE \E u \in Users, sid \in Sids : ElsewhereSignsIn(u, sid)
      BY <1>4 DEF ElsewhereSignsIn
<1>5. CASE (\E sid \in Sids : SessionEnds(sid)) \/ ElsewhereSignsOut \/ JarExpires
      BY <1>5 DEF SessionEnds, ElsewhereSignsOut, JarExpires, Server
<1>6. CASE \E m \in Changes : ChangeMembership(m[1], m[2], m[3], m[4])
      BY <1>6 DEF ChangeMembership
<1>7. CASE UNCHANGED vars
      BY <1>7 DEF vars
<1> QED BY <1>1, <1>2, <1>3, <1>4, <1>5, <1>6, <1>7 DEF Next

\* Every reachable state of browser, routes and provider is well typed.
THEOREM TypesHold == Spec => []TypeOK
<1>1. AuthInv /\ enrolled \subseteq Users => TypeOK
  <2> SUFFICES ASSUME AuthInv, enrolled \subseteq Users PROVE TypeOK
        OBVIOUS
  <2>1. /\ provider \in [Sids -> Session]
        /\ \A u \in Users, x \in Tenants : members[u][x] = was[u][x][members[u][x].version]
        BY DEF AuthInv, ProviderTrue, MembersTrue
  <2>2. jar.access \in [sid : 0..MaxSessions, aal : {1, 2}] /\ jar.refresh \in 0..MaxSessions
        /\ jar.tenant \in Tenants \cup {NoTenant}
        BY DEF AuthInv, JarTrue, Jar, Places
  <2>3. ASSUME NEW t \in Tabs
        PROVE  /\ tab[t].page \in {"sign-in", "shell"} /\ tab[t].status \in DOMAIN Moves
               /\ tab[t].shown \in Contexts /\ tab[t].first \in Contexts
               /\ tab[t].eligible \subseteq Tenants /\ tab[t].failure \in {"none", "server", "cleanup"}
    <3>1. tab[t] \in View
          BY DEF AuthInv, TabsTrue
    <3>2. tab[t].status \in Statuses
          BY <3>1 DEF View
    <3>3. DOMAIN Moves = Statuses
          BY DEF Moves, Statuses
    <3> QED BY <3>1, <3>2, <3>3 DEF View, ContextRecords, Contexts, People, Places
  <2>4. ASSUME NEW c \in Chans
        PROVE  /\ net[c].at \in {"idle", "sent", "admitted", "answered"}
               /\ net[c].ctx \in Contexts /\ net[c].eligible \subseteq Tenants
    <3>1. net[c] \in CallRec
          BY DEF AuthInv, ChannelsTrue
    <3> QED BY <3>1 DEF CallRec, Instants, ContextRecords, Contexts, People, Places
  <2> QED BY <2>1, <2>2, <2>3, <2>4 DEF TypeOK, Session, People
<1>2. Init => AuthInv /\ enrolled \subseteq Users
      BY InitHolds DEF Init
<1>3. (AuthInv /\ enrolled \subseteq Users) /\ [Next]_vars => (AuthInv /\ enrolled \subseteq Users)'
      BY NextKeeps, UsersEnrol
<1> QED BY <1>1, <1>2, <1>3, PTL DEF Spec
=============================================================================
