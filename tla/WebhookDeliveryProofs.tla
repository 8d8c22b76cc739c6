------------------------ MODULE WebhookDeliveryProofs ------------------------
(***************************************************************************)
(* The safety of the webhook queue for any number of deliveries, of worker *)
(* invocations and of attempts, and any sharing of worker ids.             *)
(***************************************************************************)
EXTENDS WebhookDelivery, TLAPS

Open == {"queued", "retrying"}

\* An invocation owns its copies alone, each copy is what its row says, and
\* all of its copies are of different rows.
Lease ==
    /\ LeaseHonoured
    /\ \A i \in Invocations : posted[i] # NoOne =>
          \A copy \in batch[i] : copy.delivery # posted[i].delivery

\* What the endpoint of a delivery has seen: nothing beyond the row's counter,
\* except the attempt that is being made, once it is posted.
Seen(d, n) == \A k \in DOMAIN received[d] : received[d][k] \in 1..n
Rising(d)  == \A k, l \in DOMAIN received[d] : k < l => received[d][k] < received[d][l]

Counted ==
    \A d \in Deliveries :
        /\ Rising(d)
        /\ queue[d].status \notin Settled => queue[d].attempt < MaximumAttempts
        /\ queue[d].status = "processing" => Seen(d, queue[d].attempt + 1)
        /\ queue[d].status # "processing" => Seen(d, queue[d].attempt)
        /\ \A i \in Invocations : \A copy \in batch[i] :
              copy.delivery = d => Seen(d, queue[d].attempt)

IInv == TypeOK /\ Lease /\ Counted

-----------------------------------------------------------------------------
\* A completed row is open again with attempts left, or settled.
LEMMA CompletedRow ==
    ASSUME NEW r \in Row, NEW success \in BOOLEAN, r.attempt < MaximumAttempts
    PROVE  LET s == RowAfter(r, success)
           IN  /\ s \in Row /\ s.attempt = r.attempt + 1 /\ s.holder = NoOne
               /\ s.status # "processing"
               /\ s.status \notin Settled => s.attempt < MaximumAttempts
<1>1. r.attempt \in Nat /\ r.attempt + 1 \in 0..MaximumAttempts
  BY AttemptAssumption DEF Row
<1>2. StatusAfter(r.attempt + 1, success) \in Statuses \ {"processing"}
  BY DEF StatusAfter, Statuses
<1>3. StatusAfter(r.attempt + 1, success) \notin Settled => r.attempt + 1 < MaximumAttempts
  BY <1>1, AttemptAssumption DEF StatusAfter, Settled, Exhausted
<1> QED BY <1>1, <1>2, <1>3 DEF RowAfter, Row

LEMMA InitInv == Init => IInv
<1> SUFFICES ASSUME Init PROVE IInv
  OBVIOUS
<1>1. TypeOK
  BY AttemptAssumption DEF Init, TypeOK, Row, Statuses
<1>2. Lease
  BY DEF Init, Lease, LeaseHonoured, Holds
<1>3. Counted
  BY AttemptAssumption DEF Init, Counted, Seen, Rising
<1> QED BY <1>1, <1>2, <1>3 DEF IInv

-----------------------------------------------------------------------------
(* One lemma per action. *)

LEMMA ClaimInv == ASSUME IInv, NEW i \in Invocations, Claim(i) PROVE IInv'
<1> USE DEF IInv
<1>1. PICK claimed \in SUBSET {d \in Deliveries : Claimable(d)} :
          /\ queue' = [d \in Deliveries |->
                 IF d \in claimed
                 THEN [queue[d] EXCEPT !.status = "processing", !.holder = WorkerOf[i]]
                 ELSE queue[d]]
          /\ batch' = [batch EXCEPT ![i] =
                 {[delivery |-> d, attempt |-> queue[d].attempt] : d \in claimed}]
  BY DEF Claim
<1>2. /\ batch[i] = {} /\ posted[i] = NoOne
      /\ UNCHANGED <<due, active, posted, received>>
  BY DEF Claim
<1>3. ASSUME NEW d \in Deliveries
      PROVE  /\ queue'[d] \in Row /\ queue'[d].attempt = queue[d].attempt
             /\ d \in claimed => /\ queue'[d].status = "processing"
                                 /\ queue'[d].holder = WorkerOf[i]
                                 /\ queue[d].status \in Open
             /\ d \notin claimed => queue'[d] = queue[d]
  <2>1. queue[d] \in Row /\ WorkerOf[i] \in Workers
    BY WorkerAssumption DEF TypeOK
  <2>2. CASE d \in claimed
    <3>1. queue'[d] = [queue[d] EXCEPT !.status = "processing", !.holder = WorkerOf[i]]
      BY <1>1, <2>2
    <3>2. queue[d].status \in Open
      BY <2>2 DEF Claimable, Open
    <3>3. /\ queue'[d] \in Row /\ queue'[d].status = "processing"
          /\ queue'[d].holder = WorkerOf[i] /\ queue'[d].attempt = queue[d].attempt
      <4> DEFINE r == queue[d]
                 w == WorkerOf[i]
                 t == queue'[d]
      <4>1. r \in Row /\ w \in Workers /\ t = [r EXCEPT !.status = "processing", !.holder = w]
        BY <2>1, <3>1
      <4>2. t \in Row /\ t.status = "processing" /\ t.holder = w /\ t.attempt = r.attempt
        <5> HIDE DEF r, w, t
        <5> QED BY <4>1 DEF Row, Statuses
      <4> QED BY <4>2
    <3> QED BY <2>2, <3>2, <3>3
  <2>3. CASE d \notin claimed
    BY <1>1, <2>1, <2>3
  <2> QED BY <2>2, <2>3
<1>4. ASSUME NEW d \in claimed PROVE \A j \in Invocations : ~Holds(j, d)
  <2>1. queue[d].status # "processing"
    BY <1>3 DEF Open
  <2> QED BY <2>1 DEF Lease, LeaseHonoured
<1>5. /\ batch'[i] = {[delivery |-> d, attempt |-> queue[d].attempt] : d \in claimed}
      /\ \A j \in Invocations \ {i} : batch'[j] = batch[j]
  BY <1>1 DEF TypeOK
<1>6. \A j \in Invocations, d \in Deliveries :
          Holds(j, d)' <=> IF j = i THEN d \in claimed ELSE Holds(j, d)
  <2> SUFFICES ASSUME NEW j \in Invocations, NEW d \in Deliveries
               PROVE  Holds(j, d)' <=> IF j = i THEN d \in claimed ELSE Holds(j, d)
    OBVIOUS
  <2>1. posted' = posted
    BY <1>2
  <2>2. CASE j = i
    <3>1. Holds(i, d)' <=> \E copy \in batch'[i] : copy.delivery = d
      BY <1>2, <2>1 DEF Holds
    <3>2. ASSUME NEW copy \in batch'[i], copy.delivery = d PROVE d \in claimed
      <4>1. PICK e \in claimed : copy = [delivery |-> e, attempt |-> queue[e].attempt]
        BY <1>5
      <4> QED BY <3>2, <4>1
    <3>3. ASSUME d \in claimed PROVE \E copy \in batch'[i] : copy.delivery = d
      <4>1. [delivery |-> d, attempt |-> queue[d].attempt] \in batch'[i]
        BY <1>5, <3>3
      <4>2. [delivery |-> d, attempt |-> queue[d].attempt].delivery = d
        OBVIOUS
      <4> QED BY <4>1, <4>2
    <3> QED BY <2>2, <3>1, <3>2, <3>3
  <2>3. CASE j # i
    BY <1>5, <2>1, <2>3 DEF Holds
  <2> QED BY <2>2, <2>3
<1>7. TypeOK'
  <2>1. queue' \in [Deliveries -> Row]
    BY <1>1, <1>3
  <2>2. batch'[i] \in SUBSET Copy
    BY <1>5 DEF TypeOK, Row, Copy
  <2>3. batch' \in [Invocations -> SUBSET Copy]
    BY <1>1, <2>2 DEF TypeOK
  <2> QED BY <1>2, <2>1, <2>3 DEF TypeOK
<1>8. Lease'
  <2>1. \A j, k \in Invocations : \A d \in Deliveries : Holds(j, d)' /\ Holds(k, d)' => j = k
    BY <1>4, <1>6 DEF Lease, LeaseHonoured
  <2>2. \A j \in Invocations : \A d \in Deliveries :
            Holds(j, d)' => queue'[d].status = "processing" /\ queue'[d].holder = WorkerOf[j]
    BY <1>3, <1>4, <1>6 DEF Lease, LeaseHonoured
  <2>3. \A j \in Invocations :
            /\ \A copy \in batch'[j] : copy.attempt = queue'[copy.delivery].attempt
            /\ posted[j] # NoOne => posted[j].attempt = queue'[posted[j].delivery].attempt
    <3> SUFFICES ASSUME NEW j \in Invocations
        PROVE  /\ \A copy \in batch'[j] : copy.attempt = queue'[copy.delivery].attempt
               /\ posted[j] # NoOne => posted[j].attempt = queue'[posted[j].delivery].attempt
      OBVIOUS
    <3>1. posted[j] # NoOne => posted[j].delivery \in Deliveries
      BY DEF TypeOK, Outcome
    <3>2. \A copy \in batch[j] : copy.delivery \in Deliveries
      BY DEF TypeOK, Copy
    <3>3. CASE j = i
      BY <1>2, <1>3, <1>5, <3>3
    <3>4. CASE j # i
      BY <1>3, <1>5, <3>1, <3>2, <3>4 DEF Lease, LeaseHonoured
    <3> QED BY <3>3, <3>4
  <2>4. \A j \in Invocations : posted[j] # NoOne =>
            \A copy \in batch'[j] : copy.delivery # posted[j].delivery
    BY <1>2, <1>5 DEF Lease
  <2> QED BY <1>2, <2>1, <2>2, <2>3, <2>4 DEF Lease, LeaseHonoured
<1>9. Counted'
  <2> SUFFICES ASSUME NEW d \in Deliveries
      PROVE  /\ Rising(d)'
             /\ queue'[d].status \notin Settled => queue'[d].attempt < MaximumAttempts
             /\ queue'[d].status = "processing" => Seen(d, queue[d].attempt + 1)'
             /\ queue'[d].status # "processing" => Seen(d, queue[d].attempt)'
             /\ \A j \in Invocations : \A copy \in batch'[j] :
                   copy.delivery = d => Seen(d, queue[d].attempt)'
    BY DEF Counted
  <2>1. queue'[d].attempt = queue[d].attempt /\ received' = received /\ queue[d].attempt \in Nat
    BY <1>2, <1>3 DEF TypeOK, Row
  <2>2. CASE d \in claimed
    <3>1. Rising(d) /\ Seen(d, queue[d].attempt) /\ queue[d].attempt < MaximumAttempts
      BY <1>3, <2>2 DEF Counted, Open, Settled
    <3>2. Seen(d, queue[d].attempt + 1)
      BY <2>1, <3>1 DEF Seen
    <3> QED BY <1>3, <2>1, <2>2, <3>1, <3>2 DEF Seen, Rising
  <2>3. CASE d \notin claimed
    <3>1. queue'[d] = queue[d]
      BY <1>3, <2>3
    <3>2. ASSUME NEW j \in Invocations, NEW copy \in batch'[j], copy.delivery = d
          PROVE  copy \in batch[j]
      BY <1>5, <2>3, <3>2
    <3> QED BY <2>1, <3>1, <3>2 DEF Counted, Seen, Rising
  <2> QED BY <2>2, <2>3
<1> QED BY <1>7, <1>8, <1>9

LEMMA CompleteInv == ASSUME IInv, NEW i \in Invocations, Complete(i) PROVE IInv'
<1> USE DEF IInv
<1>a. posted[i] # NoOne /\ posted[i] \in Outcome /\ posted[i].delivery \in Deliveries
  BY DEF Complete, TypeOK, Outcome
<1>b. PICK d0 \in Deliveries : d0 = posted[i].delivery
  BY <1>a
<1>1. posted[i] # NoOne /\ posted[i] \in Outcome /\ posted[i].delivery = d0
  BY <1>a, <1>b
<1>2. Holds(i, d0) /\ Held(i)
  BY <1>1 DEF Holds, Held, Lease, LeaseHonoured
<1>3. /\ queue' = [queue EXCEPT ![d0] = RowAfter(queue[d0], posted[i].success)]
      /\ due' = [due EXCEPT ![d0] = posted[i].success \/ Exhausted(queue[d0].attempt + 1)]
      /\ batch' = batch
      /\ posted' = [posted EXCEPT ![i] = NoOne]
      /\ UNCHANGED <<active, received>>
  BY <1>1, <1>2 DEF Complete, TypeOK
<1>4. queue[d0] \in Row /\ queue[d0].status = "processing" /\ queue[d0].attempt < MaximumAttempts
  BY <1>1, <1>2 DEF TypeOK, Counted, Held, Settled
<1>5. /\ queue'[d0] \in Row /\ queue'[d0].attempt = queue[d0].attempt + 1
      /\ queue'[d0].status # "processing"
      /\ queue'[d0].status \notin Settled => queue'[d0].attempt < MaximumAttempts
  <2>1. queue'[d0] = RowAfter(queue[d0], posted[i].success) /\ posted[i].success \in BOOLEAN
    BY <1>1, <1>3 DEF TypeOK, Outcome
  <2> QED BY <1>4, <2>1, CompletedRow
<1>6. \A d \in Deliveries \ {d0} : queue'[d] = queue[d]
  BY <1>3
<1>7. TypeOK'
  <2>1. queue' \in [Deliveries -> Row]
    BY <1>3, <1>5, <1>6 DEF TypeOK
  <2>2. due' \in [Deliveries -> BOOLEAN]
    BY <1>3 DEF TypeOK, Exhausted, Outcome
  <2>3. posted' \in [Invocations -> Outcome \cup {NoOne}]
    BY <1>3 DEF TypeOK
  <2> QED BY <1>3, <2>1, <2>2, <2>3 DEF TypeOK
<1>8. \A j \in Invocations, d \in Deliveries : Holds(j, d)' => Holds(j, d) /\ d # d0
  <2>1. \A j \in Invocations : posted'[j] = IF j = i THEN NoOne ELSE posted[j]
    BY <1>3 DEF TypeOK
  <2>2. \A j \in Invocations, d \in Deliveries : Holds(j, d)' => Holds(j, d)
    BY <1>3, <2>1 DEF Holds
  <2>3. \A j \in Invocations : j # i => ~Holds(j, d0)
    BY <1>1, <1>2 DEF Lease, LeaseHonoured
  <2>4. ~Holds(i, d0)'
    <3>1. \A copy \in batch[i] : copy.delivery # d0
      BY <1>1 DEF Lease
    <3> QED BY <1>3, <2>1, <3>1 DEF Holds
  <2> QED BY <2>2, <2>3, <2>4
<1>9. \A j \in Invocations : \A copy \in batch[j] : copy.delivery \in Deliveries /\ copy.delivery # d0
  <2> SUFFICES ASSUME NEW j \in Invocations, NEW copy \in batch[j]
               PROVE  copy.delivery \in Deliveries /\ copy.delivery # d0
    OBVIOUS
  <2>1. copy.delivery \in Deliveries
    BY DEF TypeOK, Copy
  <2>2. Holds(j, copy.delivery)'
    BY <1>3 DEF Holds
  <2> QED BY <1>8, <2>1, <2>2
<1>10. \A j \in Invocations : posted'[j] # NoOne =>
          posted'[j] = posted[j] /\ posted[j].delivery \in Deliveries /\ posted[j].delivery # d0
  <2> SUFFICES ASSUME NEW j \in Invocations, posted'[j] # NoOne
               PROVE  posted'[j] = posted[j] /\ posted[j].delivery \in Deliveries
                      /\ posted[j].delivery # d0
    OBVIOUS
  <2>1. posted'[j] = posted[j]
    BY <1>3 DEF TypeOK
  <2>2. posted[j].delivery \in Deliveries
    BY <2>1 DEF TypeOK, Outcome
  <2>3. Holds(j, posted[j].delivery)'
    BY <2>1 DEF Holds
  <2> QED BY <1>8, <2>1, <2>2, <2>3
<1>11. Lease'
  <2>1. \A j, k \in Invocations : \A d \in Deliveries : Holds(j, d)' /\ Holds(k, d)' => j = k
    BY <1>8 DEF Lease, LeaseHonoured
  <2>2. \A j \in Invocations : \A d \in Deliveries :
            Holds(j, d)' => queue'[d].status = "processing" /\ queue'[d].holder = WorkerOf[j]
    BY <1>6, <1>8 DEF Lease, LeaseHonoured
  <2>3. \A j \in Invocations :
            /\ \A copy \in batch'[j] : copy.attempt = queue'[copy.delivery].attempt
            /\ posted'[j] # NoOne => posted'[j].attempt = queue'[posted'[j].delivery].attempt
    BY <1>3, <1>6, <1>9, <1>10 DEF Lease, LeaseHonoured
  <2>4. \A j \in Invocations : posted'[j] # NoOne =>
            \A copy \in batch'[j] : copy.delivery # posted'[j].delivery
    BY <1>3, <1>10 DEF Lease
  <2> QED BY <2>1, <2>2, <2>3, <2>4 DEF Lease, LeaseHonoured
<1>12. Counted'
  <2> SUFFICES ASSUME NEW d \in Deliveries
      PROVE  /\ Rising(d)'
             /\ queue'[d].status \notin Settled => queue'[d].attempt < MaximumAttempts
             /\ queue'[d].status = "processing" => Seen(d, queue[d].attempt + 1)'
             /\ queue'[d].status # "processing" => Seen(d, queue[d].attempt)'
             /\ \A j \in Invocations : \A copy \in batch'[j] :
                   copy.delivery = d => Seen(d, queue[d].attempt)'
    BY DEF Counted
  <2>1. CASE d = d0
    <3>1. Rising(d) /\ Seen(d, queue[d].attempt + 1)
      BY <1>4, <2>1 DEF Counted
    <3> QED BY <1>3, <1>5, <1>9, <2>1, <3>1 DEF Seen, Rising
  <2>2. CASE d # d0
    BY <1>3, <1>6, <2>2 DEF Counted, Seen, Rising
  <2> QED BY <2>1, <2>2
<1> QED BY <1>7, <1>11, <1>12

\* A post takes the copy out of the batch; only the endpoint may have seen it.
LEMMA PostedInv ==
    ASSUME IInv, NEW i \in Invocations, NEW copy \in batch[i], NEW success \in BOOLEAN,
           posted[i] = NoOne, Posted(i, copy, success),
           \/ received' = [received EXCEPT ![copy.delivery] = Append(@, copy.attempt + 1)]
           \/ UNCHANGED received
    PROVE  IInv'
<1> USE DEF IInv
<1> DEFINE d0 == copy.delivery
           n  == queue[d0].attempt
<1>1. copy \in Copy /\ d0 \in Deliveries /\ Holds(i, d0)
  BY SMTT(30) DEF TypeOK, Copy, Holds
<1>2. copy.attempt = n /\ n \in Nat /\ n < MaximumAttempts /\ queue[d0].status = "processing"
  <2>1. copy.attempt = n /\ queue[d0].status = "processing"
    BY SMTT(30), <1>1 DEF Lease, LeaseHonoured
  <2>2. n \in Nat
    BY SMTT(30), <1>1 DEF TypeOK, Row
  <2>3. n < MaximumAttempts
    BY SMTT(30), <1>1, <2>1 DEF Counted, Settled
  <2> QED BY <2>1, <2>2, <2>3
<1>3. /\ UNCHANGED <<queue, due, active>>
      /\ batch' = [batch EXCEPT ![i] = batch[i] \ {copy}]
      /\ posted' = [posted EXCEPT ![i] =
             [delivery |-> d0, attempt |-> copy.attempt, success |-> success]]
  BY DEF Posted
<1>4. ASSUME NEW j \in Invocations
      PROVE  /\ batch'[j] \in SUBSET batch[j]
             /\ j # i => batch'[j] = batch[j] /\ posted'[j] = posted[j]
             /\ j = i => /\ batch'[j] = batch[j] \ {copy}
                         /\ posted'[j] = [delivery |-> d0, attempt |-> n, success |-> success]
                         /\ posted'[j].delivery = d0 /\ posted'[j].attempt = n
  <2>1. posted'[i] = [delivery |-> d0, attempt |-> n, success |-> success]
    BY <1>2, <1>3 DEF TypeOK
  <2> HIDE DEF d0, n
  <2>2. posted'[i].delivery = d0 /\ posted'[i].attempt = n
    BY <2>1
  <2> QED BY <1>3, <2>1, <2>2 DEF TypeOK
<1>5. \A other \in batch[i] : other.delivery = d0 => other = copy
  <2> SUFFICES ASSUME NEW other \in batch[i], other.delivery = d0 PROVE other = copy
    OBVIOUS
  <2>1. other.attempt = copy.attempt
    BY <1>1, <1>2 DEF Lease, LeaseHonoured
  <2>2. other \in Copy
    BY DEF TypeOK
  <2> QED BY <1>1, <2>1, <2>2 DEF Copy
<1>6. posted'[i] \in Outcome /\ posted'[i] # NoOne
  <2>1. posted'[i] \in Outcome
    <3>1. n \in 0..MaximumAttempts
      BY <1>1 DEF TypeOK, Row
    <3>2. posted'[i] = [delivery |-> d0, attempt |-> n, success |-> success]
      BY <1>4
    <3> HIDE DEF d0, n
    <3> QED BY <1>1, <3>1, <3>2 DEF Outcome
  <2> QED BY <2>1, OutcomeAssumption
<1>7. received' \in [Deliveries -> Seq(Nat)] /\ \A d \in Deliveries \ {d0} : received'[d] = received[d]
  <2>1. received[d0] \in Seq(Nat) /\ copy.attempt + 1 \in Nat
    BY <1>1, <1>2 DEF TypeOK
  <2>2. Append(received[d0], copy.attempt + 1) \in Seq(Nat)
    BY <2>1
  <2> QED BY <1>1, <2>2 DEF TypeOK
<1>8. TypeOK'
  <2>1. batch' \in [Invocations -> SUBSET Copy]
    BY <1>3, <1>4 DEF TypeOK
  <2>2. posted' \in [Invocations -> Outcome \cup {NoOne}]
    BY <1>3, <1>4, <1>6 DEF TypeOK
  <2> QED BY <1>3, <1>7, <2>1, <2>2 DEF TypeOK
<1>9. \A j \in Invocations, d \in Deliveries : Holds(j, d)' => Holds(j, d)
  <2> SUFFICES ASSUME NEW j \in Invocations, NEW d \in Deliveries, Holds(j, d)'
               PROVE  Holds(j, d)
    OBVIOUS
  <2>1. CASE \E other \in batch'[j] : other.delivery = d
    BY <1>4, <2>1 DEF Holds
  <2>2. CASE posted'[j] # NoOne /\ posted'[j].delivery = d
    <3>1. CASE j = i
      <4>1. d = d0
        BY <1>4, <2>2, <3>1
      <4> QED BY <1>1, <3>1, <4>1
    <3>2. CASE j # i
      BY <1>4, <2>2, <3>2 DEF Holds
    <3> QED BY <3>1, <3>2
  <2> QED BY <2>1, <2>2 DEF Holds
<1>10. Lease'
  <2>1. \A j, k \in Invocations : \A d \in Deliveries : Holds(j, d)' /\ Holds(k, d)' => j = k
    BY <1>9 DEF Lease, LeaseHonoured
  <2>2. \A j \in Invocations : \A d \in Deliveries :
            Holds(j, d)' => queue'[d].status = "processing" /\ queue'[d].holder = WorkerOf[j]
    BY <1>3, <1>9 DEF Lease, LeaseHonoured
  <2>3. ASSUME NEW j \in Invocations
        PROVE  /\ \A other \in batch'[j] : other.attempt = queue'[other.delivery].attempt
               /\ posted'[j] # NoOne => posted'[j].attempt = queue'[posted'[j].delivery].attempt
    <3>1. \A other \in batch'[j] : other.attempt = queue'[other.delivery].attempt
      BY <1>3, <1>4 DEF Lease, LeaseHonoured
    <3>2. posted'[j] # NoOne => posted'[j].attempt = queue'[posted'[j].delivery].attempt
      <4>1. CASE j = i
        <5>1. posted'[j].delivery = d0 /\ posted'[j].attempt = n /\ queue' = queue
          BY <1>3, <1>4, <4>1
        <5> QED BY <5>1
      <4>2. CASE j # i
        BY <1>3, <1>4, <4>2 DEF Lease, LeaseHonoured
      <4> QED BY <4>1, <4>2
    <3> QED BY <3>1, <3>2
  <2>4. ASSUME NEW j \in Invocations, posted'[j] # NoOne, NEW other \in batch'[j]
        PROVE  other.delivery # posted'[j].delivery
    <3>1. CASE j = i
      <4>1. posted'[j].delivery = d0 /\ other \in batch[i] /\ other # copy
        BY <1>4, <3>1
      <4> QED BY <1>5, <4>1
    <3>2. CASE j # i
      <4>1. posted'[j] = posted[j] /\ batch'[j] = batch[j]
        BY <1>4, <3>2
      <4>2. posted[j] # NoOne => \A b \in batch[j] : b.delivery # posted[j].delivery
        BY DEF Lease
      <4> QED BY <2>4, <4>1, <4>2
    <3> QED BY <3>1, <3>2
  <2> QED BY <2>1, <2>2, <2>3, <2>4 DEF Lease, LeaseHonoured
<1>11. Seen(d0, n) /\ Rising(d0)
  BY <1>1 DEF Counted
<1>12. Rising(d0)' /\ Seen(d0, queue[d0].attempt + 1)'
  <2>1. CASE UNCHANGED received
    BY <1>2, <1>3, <1>11, <2>1 DEF Seen, Rising
  <2>2. CASE received' = [received EXCEPT ![d0] = Append(received[d0], copy.attempt + 1)]
    <3>1. received[d0] \in Seq(Nat) /\ received'[d0] = Append(received[d0], n + 1)
      BY <1>1, <1>2, <2>2 DEF TypeOK
    <3>2. /\ Len(received'[d0]) = Len(received[d0]) + 1 /\ Len(received[d0]) \in Nat
          /\ DOMAIN received'[d0] = 1..(Len(received[d0]) + 1)
          /\ DOMAIN received[d0] = 1..Len(received[d0])
          /\ \A k \in 1..Len(received[d0]) : received'[d0][k] = received[d0][k]
          /\ received'[d0][Len(received[d0]) + 1] = n + 1
      BY <1>2, <3>1
    <3>3. \A k \in 1..Len(received[d0]) : received[d0][k] \in 1..n
      BY <1>11, <3>2 DEF Seen
    <3>4. Seen(d0, queue[d0].attempt + 1)'
      <4>1. \A k \in DOMAIN received'[d0] : received'[d0][k] \in 1..(n + 1)
        <5> SUFFICES ASSUME NEW k \in DOMAIN received'[d0] PROVE received'[d0][k] \in 1..(n + 1)
          OBVIOUS
        <5> HIDE DEF n
        <5>1. CASE k \in 1..Len(received[d0])
          BY <1>2, <3>2, <3>3, <5>1
        <5>2. CASE k = Len(received[d0]) + 1
          BY <1>2, <3>2, <5>2
        <5> QED BY <3>2, <5>1, <5>2
      <4> QED BY <1>3, <4>1 DEF Seen
    <3>5. Rising(d0)'
      <4>1. \A k, l \in 1..Len(received[d0]) : k < l => received[d0][k] < received[d0][l]
        BY <1>11, <3>2 DEF Rising
      <4>2. ASSUME NEW k \in DOMAIN received'[d0], NEW l \in DOMAIN received'[d0], k < l
            PROVE  received'[d0][k] < received'[d0][l]
        <5>1. k \in 1..Len(received[d0])
          BY <3>2, <4>2
        <5>2. CASE l \in 1..Len(received[d0])
          BY SMTT(30), <3>2, <4>1, <4>2, <5>1, <5>2
        <5>3. CASE l = Len(received[d0]) + 1
          <6>1. received'[d0][k] = received[d0][k] /\ received[d0][k] \in 1..n
            BY <3>2, <3>3, <5>1
          <6>2. received'[d0][l] = n + 1
            BY <3>2, <5>3
          <6> HIDE DEF n
          <6> QED BY <1>2, <6>1, <6>2
        <5> QED BY <3>2, <5>2, <5>3
      <4> QED BY <4>2 DEF Rising
    <3> QED BY <3>4, <3>5
  <2> QED BY <2>1, <2>2
<1>13. Counted'
  <2> SUFFICES ASSUME NEW d \in Deliveries
      PROVE  /\ Rising(d)'
             /\ queue'[d].status \notin Settled => queue'[d].attempt < MaximumAttempts
             /\ queue'[d].status = "processing" => Seen(d, queue[d].attempt + 1)'
             /\ queue'[d].status # "processing" => Seen(d, queue[d].attempt)'
             /\ \A j \in Invocations : \A other \in batch'[j] :
                   other.delivery = d => Seen(d, queue[d].attempt)'
    BY DEF Counted
  <2>1. CASE d = d0
    <3>1. ASSUME NEW j \in Invocations, NEW other \in batch'[j] PROVE other.delivery # d0
      <4>1. CASE j = i
        BY <1>4, <1>5, <4>1
      <4>2. CASE j # i
        <5>1. other \in batch[j] /\ ~Holds(j, d0)
          BY <1>1, <1>4, <4>2 DEF Lease, LeaseHonoured
        <5> QED BY <5>1 DEF Holds
      <4> QED BY <4>1, <4>2
    <3> HIDE DEF d0
    <3> QED BY <1>2, <1>3, <1>12, <2>1, <3>1 DEF Settled
  <2>2. CASE d # d0
    <3>1. received'[d] = received[d] /\ queue' = queue
      BY <1>3, <1>7, <2>2
    <3>2. \A j \in Invocations : \A other \in batch'[j] : other \in batch[j]
      BY <1>4
    <3> QED BY <3>1, <3>2 DEF Counted, Seen, Rising
  <2> QED BY <2>1, <2>2
<1> QED BY <1>8, <1>10, <1>13

LEMMA AbandonInv == ASSUME IInv, NEW i \in Invocations, Abandon(i) PROVE IInv'
<1> USE DEF IInv
<1>1. \A j \in Invocations :
          /\ batch'[j] = IF j = i THEN {} ELSE batch[j]
          /\ posted'[j] = IF j = i THEN NoOne ELSE posted[j]
  BY DEF Abandon, TypeOK
<1>2. UNCHANGED <<queue, due, active, received>>
  BY DEF Abandon
<1>3. TypeOK'
  BY DEF Abandon, TypeOK
<1>4. \A j \in Invocations, d \in Deliveries : Holds(j, d)' => Holds(j, d)
  BY <1>1 DEF Holds
<1>5. Lease'
  <2>1. LeaseHonoured'
    BY <1>1, <1>2, <1>4 DEF Lease, LeaseHonoured
  <2> QED BY <1>1, <2>1 DEF Lease
<1>6. Counted'
  BY <1>1, <1>2 DEF Counted, Seen, Rising
<1> QED BY <1>3, <1>5, <1>6

\* Time, the endpoints and stuttering touch nothing the invariant speaks of.
LEMMA IdleInv ==
    ASSUME IInv, UNCHANGED <<queue, batch, posted, received>>,
           due' \in [Deliveries -> BOOLEAN], active' \in [Deliveries -> BOOLEAN]
    PROVE  IInv'
BY DEF IInv, TypeOK, Lease, LeaseHonoured, Holds, Counted, Seen, Rising

LEMMA StepInv == IInv /\ [Next]_vars => IInv'
<1> SUFFICES ASSUME IInv, [Next]_vars PROVE IInv'
  OBVIOUS
<1>1. ASSUME NEW i \in Invocations, Claim(i) PROVE IInv'
  BY <1>1, ClaimInv
<1>2. ASSUME NEW i \in Invocations, NEW copy \in batch[i], FailBeforeSending(i, copy) PROVE IInv'
  BY <1>2, PostedInv DEF FailBeforeSending
<1>3. ASSUME NEW i \in Invocations, NEW copy \in batch[i], NEW ok \in BOOLEAN, Deliver(i, copy, ok)
      PROVE  IInv'
  BY <1>3, PostedInv DEF Deliver
<1>4. ASSUME NEW i \in Invocations, Complete(i) PROVE IInv'
  BY <1>4, CompleteInv
<1>5. ASSUME NEW i \in Invocations, Abandon(i) PROVE IInv'
  BY <1>5, AbandonInv
<1>6. ASSUME NEW d \in Deliveries, Elapse(d) PROVE IInv'
  BY <1>6, IdleInv DEF Elapse, IInv, TypeOK
<1>7. ASSUME NEW d \in Deliveries, SwitchEndpoint(d) PROVE IInv'
  BY <1>7, IdleInv DEF SwitchEndpoint, IInv, TypeOK
<1>8. CASE UNCHANGED vars
  BY <1>8, IdleInv DEF vars, IInv, TypeOK
<1> QED BY <1>1, <1>2, <1>3, <1>4, <1>5, <1>6, <1>7, <1>8 DEF Next, Work

-----------------------------------------------------------------------------
(* The theorems. *)

LEMMA Invariance == Spec => []IInv
<1>1. Init => IInv
  BY InitInv
<1>2. IInv /\ [Next]_vars => IInv'
  BY StepInv
<1> QED BY <1>1, <1>2, PTL DEF Spec

\* Every reachable state is well typed.
THEOREM TypeCorrect == Spec => []TypeOK
<1>1. IInv => TypeOK
  BY DEF IInv
<1> QED BY <1>1, Invariance, PTL

\* However many invocations run, and whatever worker ids they share, a delivery
\* is in the hands of at most one of them and its completion is not refused.
THEOREM LeaseIsHonoured == Spec => []LeaseHonoured
<1>1. IInv => LeaseHonoured
  BY DEF IInv, Lease
<1> QED BY <1>1, Invariance, PTL

\* An endpoint sees each attempt at most once, in order, and none beyond the last.
THEOREM AttemptsAreInOrder == Spec => []AttemptsInOrder
<1>1. IInv => AttemptsInOrder
  <2> SUFFICES ASSUME IInv, NEW d \in Deliveries
               PROVE  Rising(d) /\ \A k \in DOMAIN received[d] : received[d][k] \in 1..MaximumAttempts
    BY DEF AttemptsInOrder, Rising
  <2>1. queue[d] \in Row /\ queue[d].attempt \in 0..MaximumAttempts
    BY DEF IInv, TypeOK, Row
  <2>2. CASE queue[d].status = "processing"
    <3>1. queue[d].attempt + 1 \in 1..MaximumAttempts /\ Seen(d, queue[d].attempt + 1)
      BY <2>1, <2>2, AttemptAssumption DEF IInv, Counted, Settled
    <3> QED BY <3>1, AttemptAssumption DEF IInv, Counted, Seen
  <2>3. CASE queue[d].status # "processing"
    BY <2>1, <2>3, AttemptAssumption DEF IInv, Counted, Seen
  <2> QED BY <2>2, <2>3
<1> QED BY <1>1, Invariance, PTL

\* What is delivered or dead is never claimed, completed or posted again.
THEOREM SettledStays == Spec => SettledIsFinal
<1>1. IInv /\ [Next]_vars =>
          [\A d \in Deliveries :
              queue[d].status \in Settled => queue'[d] = queue[d] /\ received'[d] = received[d]]_vars
  <2> SUFFICES ASSUME IInv, Next, NEW d \in Deliveries, queue[d].status \in Settled
               PROVE  queue'[d] = queue[d] /\ received'[d] = received[d]
    OBVIOUS
  <2> USE DEF IInv
  <2>1. \A i \in Invocations : ~Holds(i, d)
    BY DEF Lease, LeaseHonoured, Settled
  <2>2. ASSUME NEW i \in Invocations, Claim(i) PROVE queue'[d] = queue[d] /\ received'[d] = received[d]
    BY <2>2 DEF Claim, Claimable, Settled
  <2>3. ASSUME NEW i \in Invocations, NEW copy \in batch[i], Posted(i, copy, TRUE) \/ Posted(i, copy, FALSE),
               \/ received' = [received EXCEPT ![copy.delivery] = Append(@, copy.attempt + 1)]
               \/ UNCHANGED received
        PROVE  queue'[d] = queue[d] /\ received'[d] = received[d]
    <3>1. copy.delivery # d
      BY <2>1 DEF Holds
    <3> QED BY <2>3, <3>1 DEF Posted, TypeOK
  <2>4. ASSUME NEW i \in Invocations, Complete(i)
        PROVE  queue'[d] = queue[d] /\ received'[d] = received[d]
    <3>1. posted[i].delivery # d
      BY <2>1, <2>4 DEF Complete, Holds
    <3> QED BY <2>4, <3>1 DEF Complete, TypeOK
  <2>5. ASSUME NEW i \in Invocations, Abandon(i) PROVE queue'[d] = queue[d] /\ received'[d] = received[d]
    BY <2>5 DEF Abandon
  <2>6. ASSUME NEW e \in Deliveries, Elapse(e) \/ SwitchEndpoint(e)
        PROVE  queue'[d] = queue[d] /\ received'[d] = received[d]
    BY <2>6 DEF Elapse, SwitchEndpoint
  <2> QED BY <2>2, <2>3, <2>4, <2>5, <2>6 DEF Next, Work, Deliver, FailBeforeSending
<1> QED BY <1>1, Invariance, PTL DEF Spec, SettledIsFinal
=============================================================================
