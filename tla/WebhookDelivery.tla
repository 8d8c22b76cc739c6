--------------------------- MODULE WebhookDelivery ---------------------------
(***************************************************************************)
(* The webhook delivery queue of the R3 authority plane and the edge       *)
(* function that works it off.  An invocation of the worker claims rows,   *)
(* posts them to their endpoints one after the other and completes each    *)
(* with a call to the database; several invocations may run at once, and   *)
(* share one worker id when the environment sets it.                       *)
(*                                                                         *)
(* The two SQL functions are transactions on locked rows, one action each. *)
(* What ends an invocation early -- the platform stops it, a database call *)
(* fails, or its answer is lost after it took effect -- is Abandon: no     *)
(* handler catches it, so the rest of the batch is left as it is.          *)
(* Payloads, signatures, the delivery log and the redirects within one     *)
(* attempt are left out.  Rows are enqueued, and endpoints switched, by    *)
(* programs outside the repository.                                        *)
(***************************************************************************)
EXTENDS Naturals, Sequences, FiniteSets

CONSTANTS
    Deliveries,       \* rows of pv_webhook_delivery_queue
    Invocations,      \* invocations of the worker that may run at once
    Workers,          \* worker ids
    WorkerOf,         \* the worker id an invocation runs under
    MaximumAttempts,  \* maximum_attempts of a row
    BatchLimit,       \* p_limit
    NoOne             \* locked_by is null; nothing was posted

ASSUME WorkerAssumption  == WorkerOf \in [Invocations -> Workers] /\ NoOne \notin Workers
ASSUME AttemptAssumption == MaximumAttempts \in Nat \ {0}

VARIABLES
    queue,     \* the row of each delivery
    due,       \* next_attempt_at of the row has passed
    active,    \* the row's endpoint is active
    batch,     \* per invocation, the claimed copies it has not posted yet
    posted,    \* per invocation, the copy it posted last with the outcome, or NoOne
    received   \* per delivery, the attempt numbers that reached the endpoint, in order

vars == <<queue, due, active, batch, posted, received>>

Statuses == {"queued", "processing", "retrying", "delivered", "dead-letter"}
Settled  == {"delivered", "dead-letter"}
Row      == [status: Statuses, attempt: 0..MaximumAttempts, holder: Workers \cup {NoOne}]
Copy     == [delivery: Deliveries, attempt: 0..MaximumAttempts]
Outcome  == [delivery: Deliveries, attempt: 0..MaximumAttempts, success: BOOLEAN]

ASSUME OutcomeAssumption == NoOne \notin Outcome

TypeOK ==
    /\ queue \in [Deliveries -> Row]
    /\ due \in [Deliveries -> BOOLEAN]
    /\ active \in [Deliveries -> BOOLEAN]
    /\ batch \in [Invocations -> SUBSET Copy]
    /\ posted \in [Invocations -> Outcome \cup {NoOne}]
    /\ received \in [Deliveries -> Seq(Nat)]

Init ==
    /\ queue = [d \in Deliveries |-> [status |-> "queued", attempt |-> 0, holder |-> NoOne]]
    /\ due = [d \in Deliveries |-> TRUE]
    /\ active = [d \in Deliveries |-> TRUE]
    /\ batch = [i \in Invocations |-> {}]
    /\ posted = [i \in Invocations |-> NoOne]
    /\ received = [d \in Deliveries |-> <<>>]

-----------------------------------------------------------------------------
(* The database. *)

\* Mutant: a row that is being processed may be claimed again.
ClaimableAgain(d) ==
    queue[d].status \in {"queued", "retrying", "processing"} /\ due[d] /\ active[d]

\* Mutant: only a new row is ever claimed.
ClaimableOnce(d) == queue[d].status = "queued" /\ due[d] /\ active[d]

Claimable(d) == queue[d].status \in {"queued", "retrying"} /\ due[d] /\ active[d]

\* Any of the rows, up to the limit: those another transaction has locked are skipped.
Claim(i) ==
    /\ batch[i] = {} /\ posted[i] = NoOne
    /\ \E claimed \in SUBSET {d \in Deliveries : Claimable(d)} :
          /\ claimed # {} /\ Cardinality(claimed) <= BatchLimit
          /\ queue' = [d \in Deliveries |->
                 IF d \in claimed
                 THEN [queue[d] EXCEPT !.status = "processing", !.holder = WorkerOf[i]]
                 ELSE queue[d]]
          /\ batch' = [batch EXCEPT ![i] =
                 {[delivery |-> d, attempt |-> queue[d].attempt] : d \in claimed}]
    /\ UNCHANGED <<due, active, posted, received>>

\* Mutant: the attempt after the last is still made.
ExhaustedLate(attempt) == attempt > MaximumAttempts

Exhausted(attempt) == attempt >= MaximumAttempts

StatusAfter(attempt, success) ==
    IF success THEN "delivered" ELSE IF Exhausted(attempt) THEN "dead-letter" ELSE "retrying"

\* The lease is the row's status and the worker id on it.
Held(i) == queue[posted[i].delivery].status = "processing"
           /\ queue[posted[i].delivery].holder = WorkerOf[i]

\* The row after an attempt: its own counter decides, not the claimed copy's.
RowAfter(row, success) ==
    [status  |-> StatusAfter(row.attempt + 1, success),
     attempt |-> row.attempt + 1,
     holder  |-> NoOne]

\* An invocation that no longer holds the lease is refused, and ends.
Complete(i) ==
    /\ posted[i] # NoOne
    /\ LET d == posted[i].delivery
       IN  /\ queue' = [queue EXCEPT ![d] =
                  IF Held(i) THEN RowAfter(@, posted[i].success) ELSE @]
           /\ due' = [due EXCEPT ![d] =
                  IF Held(i) THEN posted[i].success \/ Exhausted(queue[d].attempt + 1) ELSE @]
    /\ batch' = [batch EXCEPT ![i] = IF Held(i) THEN @ ELSE {}]
    /\ posted' = [posted EXCEPT ![i] = NoOne]
    /\ UNCHANGED <<active, received>>

\* The delay before a retry is over.
Elapse(d) ==
    /\ ~due[d]
    /\ due' = [due EXCEPT ![d] = TRUE]
    /\ UNCHANGED <<queue, active, batch, posted, received>>

SwitchEndpoint(d) ==
    /\ active' = [active EXCEPT ![d] = ~@]
    /\ UNCHANGED <<queue, due, batch, posted, received>>

-----------------------------------------------------------------------------
(* The worker. *)

Posted(i, copy, success) ==
    /\ batch' = [batch EXCEPT ![i] = @ \ {copy}]
    /\ posted' = [posted EXCEPT ![i] =
           [delivery |-> copy.delivery, attempt |-> copy.attempt, success |-> success]]
    /\ UNCHANGED <<queue, due, active>>

\* The endpoint gets the post; its answer may be an error, or be lost or late.
Deliver(i, copy, success) ==
    /\ posted[i] = NoOne /\ copy \in batch[i]
    /\ received' = [received EXCEPT ![copy.delivery] = Append(@, copy.attempt + 1)]
    /\ Posted(i, copy, success)

\* The secret, the target or the connection fails before anything is sent.
FailBeforeSending(i, copy) ==
    /\ posted[i] = NoOne /\ copy \in batch[i]
    /\ UNCHANGED received
    /\ Posted(i, copy, FALSE)

Abandon(i) ==
    /\ batch[i] # {} \/ posted[i] # NoOne
    /\ batch' = [batch EXCEPT ![i] = {}]
    /\ posted' = [posted EXCEPT ![i] = NoOne]
    /\ UNCHANGED <<queue, due, active, received>>

-----------------------------------------------------------------------------
Work(i) ==
    \/ \E copy \in batch[i] : FailBeforeSending(i, copy) \/ \E ok \in BOOLEAN : Deliver(i, copy, ok)
    \/ Complete(i)

Next ==
    \/ \E i \in Invocations : Claim(i) \/ Work(i) \/ Abandon(i)
    \/ \E d \in Deliveries : Elapse(d) \/ SwitchEndpoint(d)

Spec == Init /\ [][Next]_vars

\* The scheduler keeps invoking the worker, an invocation that is not stopped
\* goes on, and time passes.  Nothing makes an endpoint active.
Fairness ==
    /\ WF_vars(\E i \in Invocations : Claim(i))
    /\ \A i \in Invocations : WF_vars(Work(i))
    /\ \A d \in Deliveries : WF_vars(Elapse(d))

FairSpec == Spec /\ Fairness

-----------------------------------------------------------------------------
(* What must hold. *)

\* A copy is in the hands of an invocation.
Holds(i, d) == \/ \E copy \in batch[i] : copy.delivery = d
               \/ posted[i] # NoOne /\ posted[i].delivery = d

\* A delivery is worked on by at most one invocation, whose copy agrees with
\* the row, also when the invocations share a worker id: no completion is ever
\* refused or booked on another invocation's attempt.
LeaseHonoured ==
    /\ \A i, j \in Invocations : \A d \in Deliveries : Holds(i, d) /\ Holds(j, d) => i = j
    /\ \A i \in Invocations : \A d \in Deliveries :
          Holds(i, d) => queue[d].status = "processing" /\ queue[d].holder = WorkerOf[i]
    /\ \A i \in Invocations :
          /\ \A copy \in batch[i] : copy.attempt = queue[copy.delivery].attempt
          /\ posted[i] # NoOne => posted[i].attempt = queue[posted[i].delivery].attempt

\* The endpoint sees the attempts in order, each at most once, and none after
\* the last, whatever was abandoned or timed out in between.
AttemptsInOrder ==
    \A d \in Deliveries :
        /\ \A k, l \in DOMAIN received[d] : k < l => received[d][k] < received[d][l]
        /\ \A k \in DOMAIN received[d] : received[d][k] \in 1..MaximumAttempts

\* A delivered or dead row stays as it is, and is not posted again.
SettledIsFinal ==
    [][\A d \in Deliveries :
          queue[d].status \in Settled => queue'[d] = queue[d] /\ received'[d] = received[d]]_vars

\* A row that says processing and is in the hands of no invocation: no
\* statement of the program ever takes it up again.
Orphaned(d) == queue[d].status = "processing" /\ \A i \in Invocations : ~Holds(i, d)

\* While its endpoint stays active, a delivery is settled, or orphaned.
SettlesUnlessOrphaned ==
    \A d \in Deliveries : <>[]active[d] => <>(queue[d].status \in Settled \/ Orphaned(d))
=============================================================================
