---------------------------- MODULE IntakeProofs ----------------------------
(***************************************************************************)
(* Proofs about Intake, for any tenants, sessions and roles, any number of *)
(* requests in flight, and any bounds on attestations and faults.          *)
(*                                                                         *)
(* None of the properties is inductive.  A handler writes back a copy it   *)
(* took before an await, and memory runs ahead of the file after a failed  *)
(* save, so the invariant says besides: what a copy refers to is in memory *)
(* (Held), memory holds all that the file holds (Grows), and attestations  *)
(* are numbered without gaps, so that no attestation replaces one that     *)
(* cases are on (Numbered).  That a handler can break off between any two  *)
(* of its writes is dealt with once (WriteKeeps): every data set among its *)
(* writes is linked, and they all store the same records.  Records that a  *)
(* payload led astray are exempt from the links they were sent with, and   *)
(* stay exempt while copies of them are written back (UnitLed, BatchLed).  *)
(***************************************************************************)
EXTENDS Intake, SequenceTheorems, FiniteSetTheorems, TLAPS

\* The records of d belong to one tenant as far as they refer to each other: a batch lists its own
\* tenant's units and a unit names a batch of its tenant, unless a payload led them astray, and an
\* attestation is of units of the batch's tenant.
Owned(d) ==
    /\ \A b \in Batches : d.batches[b] # None =>
          d.batches[b].astray \/ \A u \in d.batches[b].listed : Owner(u) = Owner(b)
    /\ \A u \in Units : d.units[u] # None => d.units[u].astray \/ Owner(u) = Owner(d.units[u].batch)
    /\ \A a \in Att : d.attestations[a] # None => \A u \in d.attestations[a] : Owner(u) = Owner(a[1])

\* The attestations of a batch are numbered without gaps, so that the next number is a free one.
Numbered(d) ==
    \A b \in Batches : \E n \in 0..MaxAttested :
        \A v \in 1..MaxAttested : d.attestations[<<b, v>>] # None <=> v <= n

Good(d) == d \in Dataset /\ Linked(d) /\ Owned(d) /\ Numbered(d)

\* Nothing that d holds is missing in e.
Grows(d, e) ==
    /\ \A b \in Batches : d.batches[b] # None => e.batches[b] # None
    /\ \A u \in Units : d.units[u] # None => e.units[u] # None
    /\ \A a \in Att : d.attestations[a] # None => e.attestations[a] # None
    /\ d.lots \subseteq e.lots

\* What the links of a record lead to, if no payload led it astray.
UnitLed(d, u, x) == x.astray \/ (d.batches[x.batch] # None /\ Owner(u) = Owner(x.batch))

BatchLed(d, b, x) ==
    x.astray \/ /\ \A u \in x.listed : d.units[u] # None /\ Owner(u) = Owner(b)
                /\ x.attested > 0 => d.attestations[<<b, x.attested>>] # None

HeldUnit(d, r) == r.id \in Units /\ d.units[r.id] # None /\ r.copy \in Unit /\ UnitLed(d, r.id, r.copy)

HeldBatch(d, r) == r.id \in Batches /\ d.batches[r.id] # None /\ r.copy \in Batch /\ BatchLed(d, r.id, r.copy)

\* A copy that is written back later still refers to records that are there.
Held(d, r) ==
    /\ r.session \in Sessions /\ Owner(r.id) = TenantOf[r.session]
    /\ IF r.kind = "patch" THEN HeldUnit(d, r) ELSE HeldBatch(d, r)

IntakeInv ==
    /\ Good(data) /\ Good(disk) /\ Grows(disk, data)
    /\ DOMAIN inflight = Requests
    /\ \A q \in Requests : inflight[q] # None => Held(data, inflight[q])
    /\ AnsweredIsKept /\ acked.attested \subseteq Att

-----------------------------------------------------------------------------
(* Growth. *)

\* Growth is reflexive and transitive.
LEMMA GrowsFacts ==
    ASSUME NEW c, NEW d, NEW e
    PROVE  Grows(d, d) /\ (Grows(c, d) /\ Grows(d, e) => Grows(c, e))
BY DEF Grows

\* What is stored, and what a handler holds, stays as data grow.
LEMMA StoredGrows ==
    ASSUME NEW d, NEW e, Grows(d, e)
    PROVE  Stored(d) \subseteq Stored(e)
BY DEF Grows, Stored

\* So does what a copy refers to.
LEMMA HeldGrows ==
    ASSUME NEW d, NEW e, Grows(d, e), NEW r, Held(d, r)
    PROVE  Held(e, r)
<1>1. CASE r.kind = "patch"
    <2>1. r.copy \in Unit /\ r.copy.batch \in Batches /\ HeldUnit(d, r)
        BY <1>1 DEF Held, HeldUnit, Unit
    <2>2. HeldUnit(e, r)
        BY <2>1 DEF HeldUnit, UnitLed, Grows
    <2>3. QED
        BY <1>1, <2>2 DEF Held
<1>2. CASE r.kind # "patch"
    <2>1. HeldBatch(d, r)
        BY <1>2 DEF Held
    <2>2. r.copy.listed \in SUBSET Units /\ r.copy.attested \in 0..MaxAttested /\ r.id \in Batches
        BY <2>1 DEF HeldBatch, Batch
    <2>3. r.copy.attested > 0 => <<r.id, r.copy.attested>> \in Att
        BY <2>2, IntakeAssumption DEF Att
    <2>4. HeldBatch(e, r)
        BY <2>1, <2>2, <2>3 DEF HeldBatch, BatchLed, Grows
    <2>5. QED
        BY <1>2, <2>4 DEF Held
<1>3. QED
    BY <1>1, <1>2

-----------------------------------------------------------------------------
(* A handler's writes. *)

\* The data sets that are linked and store what e stores.
Alike(e) == {d \in Dataset : Good(d) /\ Grows(d, e) /\ Grows(e, d)}

\* The states of the requests in which nothing is held that inflight does not hold.
Released(rest) == DOMAIN rest = Requests /\ \A q \in Requests : rest[q] # None => rest[q] = inflight[q]

\* A handler that ends, or a process that dies, lets go of copies and takes none.
LEMMA DoneReleases ==
    ASSUME IntakeInv, NEW q \in Requests
    PROVE  Released(Done(q)) /\ Released(inflight) /\ Released(AllIdle)
BY DEF IntakeInv, Done, AllIdle, Released

\* Wherever a handler breaks off, what is in memory and in the file is linked and answered for.
LEMMA WriteKeeps ==
    ASSUME IntakeInv, NEW e, Grows(data, e), NEW writes \in Seq(Alike(e)), writes # <<>>,
           NEW told, told.stored \subseteq Stored(e), \A a \in told.attested : a \in Att /\ e.attestations[a] # None,
           NEW rest, Released(rest), Released(AllIdle), Write(writes, told, rest)
    PROVE  IntakeInv'
<1>1. ASSUME NEW k \in 1..Len(writes)
      PROVE  Good(writes[k]) /\ Grows(writes[k], e) /\ Grows(e, writes[k]) /\ Grows(data, writes[k])
    <2>1. writes[k] \in Alike(e)
        OBVIOUS
    <2>2. QED
        BY <2>1, GrowsFacts DEF Alike
<1>2. Len(writes) \in Nat /\ Len(writes) > 0 /\ Last(writes) = writes[Len(writes)]
    BY DEF Last
<1>3. Good(Last(writes)) /\ Grows(e, Last(writes)) /\ Grows(data, Last(writes))
    BY <1>1, <1>2
<1>4. /\ Good(data) /\ Good(disk) /\ Grows(disk, data) /\ AnsweredIsKept /\ acked.attested \subseteq Att
      /\ \A q \in Requests : inflight[q] # None => Held(data, inflight[q])
    BY DEF IntakeInv
<1>5. ASSUME Grows(data, data'), Released(inflight')
      PROVE  DOMAIN inflight' = Requests /\ \A q \in Requests : inflight'[q] # None => Held(data', inflight'[q])
    BY <1>4, <1>5, HeldGrows DEF Released
<1>6. CASE Completed(writes, told) /\ inflight' = rest
    <2>1. /\ data' = Last(writes) /\ disk' = Last(writes)
          /\ acked' = [stored |-> acked.stored \cup told.stored, attested |-> acked.attested \cup told.attested]
        BY <1>6 DEF Completed
    <2>2. Good(data') /\ Good(disk') /\ Grows(disk', data') /\ Grows(data, data') /\ Grows(disk, disk')
        BY <1>3, <1>4, <2>1, GrowsFacts
    <2>3. Released(inflight')
        BY <1>6
    <2>4. acked'.stored \subseteq Stored(disk')
        BY <1>3, <1>4, <2>1, <2>2, StoredGrows DEF AnsweredIsKept
    <2>5. \A a \in acked'.attested : a \in Att /\ disk'.attestations[a] # None
        BY <1>3, <1>4, <2>1, <2>2 DEF AnsweredIsKept, Grows
    <2>6. QED
        BY <1>5, <2>2, <2>3, <2>4, <2>5 DEF IntakeInv, AnsweredIsKept
<1>7. CASE SaveFailed(writes) /\ inflight' = rest
    <2>1. PICK k \in 1..Len(writes) : data' = writes[k] /\ disk' = IF k = 1 THEN disk ELSE writes[k - 1]
        BY <1>7 DEF SaveFailed
    <2>2. Good(data') /\ Grows(data, data') /\ Grows(e, data')
        BY <1>1, <2>1
    <2>3. Good(disk') /\ Grows(disk', data') /\ Grows(disk, disk')
        <3>1. CASE k = 1
            BY <1>4, <2>1, <2>2, <3>1, GrowsFacts
        <3>2. CASE k # 1
            <4>1. k - 1 \in 1..Len(writes)
                BY <1>2, <3>2
            <4>2. Good(writes[k - 1]) /\ Grows(writes[k - 1], e) /\ Grows(data, writes[k - 1])
                BY <1>1, <4>1
            <4>3. disk' = writes[k - 1]
                BY <2>1, <3>2
            <4>4. QED
                BY <1>4, <2>2, <4>2, <4>3, GrowsFacts
        <3>3. QED
            BY <3>1, <3>2
    <2>4. acked' = acked /\ Released(inflight')
        BY <1>7 DEF SaveFailed
    <2>5. acked'.stored \subseteq Stored(disk')
        BY <1>4, <2>3, <2>4, StoredGrows DEF AnsweredIsKept
    <2>6. \A a \in acked'.attested : disk'.attestations[a] # None
        BY <1>4, <2>3, <2>4 DEF AnsweredIsKept, Grows
    <2>7. QED
        BY <1>5, <2>2, <2>3, <2>4, <2>5, <2>6 DEF IntakeInv, AnsweredIsKept
<1>8. CASE Died(writes) /\ inflight' = AllIdle
    <2>1. PICK k \in 1..Len(writes) : data' = writes[k] /\ disk' = writes[k]
        BY <1>8 DEF Died
    <2>2. Good(data') /\ Good(disk') /\ Grows(data, data') /\ Grows(disk', data') /\ Grows(disk, disk')
        BY <1>1, <1>4, <2>1, GrowsFacts
    <2>3. acked' = acked /\ Released(inflight')
        BY <1>8 DEF Died
    <2>4. acked'.stored \subseteq Stored(disk')
        BY <1>4, <2>2, <2>3, StoredGrows DEF AnsweredIsKept
    <2>5. \A a \in acked'.attested : disk'.attestations[a] # None
        BY <1>4, <2>2, <2>3 DEF AnsweredIsKept, Grows
    <2>6. QED
        BY <1>5, <2>2, <2>3, <2>4, <2>5 DEF IntakeInv, AnsweredIsKept
<1>9. QED
    BY <1>6, <1>7, <1>8 DEF Write

-----------------------------------------------------------------------------
(* What single writes do to a linked data set d.  A write leads to e. *)

\* The fields of a data set.
LEMMA DatasetFacts ==
    ASSUME NEW d \in Dataset
    PROVE  /\ d.batches \in [Batches -> Batch \cup {None}] /\ d.units \in [Units -> Unit \cup {None}]
           /\ d.attestations \in [Att -> (SUBSET Units) \cup {None}]
           /\ d.cases \in [Units -> Case \cup {None}] /\ d.lots \in SUBSET Lots
           /\ d = [batches |-> d.batches, units |-> d.units, attestations |-> d.attestations,
                   cases |-> d.cases, lots |-> d.lots]
           /\ \A b \in Batches : d.batches[b] # None =>
                 d.batches[b] \in Batch /\ d.batches[b].listed \subseteq Units /\ d.batches[b].attested \in 0..MaxAttested
           /\ \A u \in Units : d.units[u] # None => d.units[u] \in Unit /\ d.units[u].batch \in Batches
           /\ \A u \in Units : d.cases[u] # None =>
                 d.cases[u] \in Case /\ <<d.cases[u].batch, d.cases[u].version>> \in Att
BY DEF Dataset, Batch, Unit, Case, Att

WithBatches(d, f) == [d EXCEPT !.batches = f]
WithUnits(d, f)   == [d EXCEPT !.units = f]
WithAttestations(d, f) == [d EXCEPT !.attestations = f]

\* A batch is stored whose units and attestation are there, or that a payload led astray.
LEMMA StoreBatch ==
    ASSUME NEW d, Good(d), NEW b \in Batches, NEW x \in Batch,
           BatchLed(d, b, x),
           NEW f \in [Batches -> Batch \cup {None}], f[b] = x,
           \A c \in Batches \ {b} : f[c] = d.batches[c],
           NEW e, e = WithBatches(d, f)
    PROVE  /\ Good(e) /\ Grows(d, e) /\ e.batches[b] = x /\ e.attestations = d.attestations
           /\ e.units = d.units /\ (d.batches[b] # None => Grows(e, d))
<1>1. d \in Dataset /\ Linked(d) /\ Owned(d) /\ Numbered(d)
    BY DEF Good
<1>2. /\ e.batches = f /\ e.units = d.units /\ e.attestations = d.attestations
      /\ e.cases = d.cases /\ e.lots = d.lots
      /\ e = [batches |-> e.batches, units |-> e.units, attestations |-> e.attestations,
              cases |-> e.cases, lots |-> e.lots]
    BY <1>1, DatasetFacts DEF WithBatches
<1>3. e.batches \in [Batches -> Batch \cup {None}]
    BY <1>1, <1>2, DatasetFacts
<1>4. e \in Dataset
    BY <1>1, <1>2, <1>3, DatasetFacts DEF Dataset
<1>5. \A c \in Batches : e.batches[c] = IF c = b THEN x ELSE d.batches[c]
    BY <1>1, <1>2, DatasetFacts
<1>6. x # None
    BY NoRecordAssumption
<1>7. Linked(e)
    <2>1. \A c \in Batches : d.batches[c] # None => e.batches[c] # None
        BY <1>5, <1>6
    <2>2. \A u \in Units : d.units[u] # None => d.units[u].astray \/ e.batches[d.units[u].batch] # None
        BY <1>1, <2>1, DatasetFacts DEF Linked
    <2>3. ASSUME NEW c \in Batches, e.batches[c] # None
          PROVE  e.batches[c].astray \/
                    /\ \A u \in e.batches[c].listed : e.units[u] # None
                    /\ e.batches[c].attested > 0 => e.attestations[<<c, e.batches[c].attested>>] # None
        BY <1>1, <1>2, <1>5, <2>3 DEF Linked, BatchLed
    <2>4. QED
        BY <1>1, <1>2, <2>2, <2>3 DEF Linked
<1>8. Owned(e)
    BY <1>1, <1>2, <1>5 DEF Owned, BatchLed
<1>9. Numbered(e)
    BY <1>1, <1>2 DEF Numbered
<1>10. Grows(d, e) /\ (d.batches[b] # None => Grows(e, d))
    BY <1>2, <1>5, <1>6 DEF Grows
<1>11. QED
    BY <1>2, <1>4, <1>5, <1>7, <1>8, <1>9, <1>10 DEF Good

\* Units are stored that name a batch there is, of their tenant, or that a payload led astray.
LEMMA StoreUnits ==
    ASSUME NEW d, Good(d), NEW units \in SUBSET Units, NEW f \in [units -> Unit],
           \A u \in units : UnitLed(d, u, f[u]),
           NEW g \in [Units -> Unit \cup {None}], \A u \in Units : g[u] = IF u \in units THEN f[u] ELSE d.units[u],
           NEW e, e = WithUnits(d, g)
    PROVE  /\ Good(e) /\ Grows(d, e) /\ \A u \in units : e.units[u] # None
           /\ e.batches = d.batches /\ e.attestations = d.attestations
           /\ (\A u \in units : d.units[u] # None) => Grows(e, d)
<1>1. d \in Dataset /\ Linked(d) /\ Owned(d) /\ Numbered(d)
    BY DEF Good
<1>2. /\ e.units = g
      /\ e.batches = d.batches /\ e.attestations = d.attestations
      /\ e.cases = d.cases /\ e.lots = d.lots
      /\ e = [batches |-> e.batches, units |-> e.units, attestations |-> e.attestations,
              cases |-> e.cases, lots |-> e.lots]
    BY <1>1, DatasetFacts DEF WithUnits
<1>3. e.units \in [Units -> Unit \cup {None}]
    BY <1>1, <1>2, DatasetFacts
<1>4. e \in Dataset
    BY <1>1, <1>2, <1>3, DatasetFacts DEF Dataset
<1>5. \A u \in Units : e.units[u] = IF u \in units THEN f[u] ELSE d.units[u]
    BY <1>2
<1>6. \A u \in units : f[u] # None
    BY NoRecordAssumption
<1>7. \A u \in Units : d.units[u] # None => e.units[u] # None
    BY <1>5, <1>6
<1>8. Linked(e)
    <2>1. ASSUME NEW b \in Batches, e.batches[b] # None
          PROVE  e.batches[b].astray \/
                    /\ \A u \in e.batches[b].listed : e.units[u] # None
                    /\ e.batches[b].attested > 0 => e.attestations[<<b, e.batches[b].attested>>] # None
        <3>1. d.batches[b].listed \subseteq Units
            BY <1>1, <1>2, <2>1, DatasetFacts
        <3>2. QED
            BY <1>1, <1>2, <1>7, <2>1, <3>1 DEF Linked
    <2>2. ASSUME NEW u \in Units, e.units[u] # None
          PROVE  e.units[u].astray \/ e.batches[e.units[u].batch] # None
        BY <1>1, <1>2, <1>5, <2>2 DEF Linked, UnitLed
    <2>3. QED
        BY <1>1, <1>2, <1>7, <2>1, <2>2 DEF Linked
<1>9. Owned(e)
    BY <1>1, <1>2, <1>5 DEF Owned, UnitLed
<1>10. Numbered(e)
    BY <1>1, <1>2 DEF Numbered
<1>11. Grows(d, e) /\ ((\A u \in units : d.units[u] # None) => Grows(e, d))
    BY <1>2, <1>5, <1>7 DEF Grows
<1>12. QED
    BY <1>2, <1>4, <1>5, <1>6, <1>8, <1>9, <1>10, <1>11 DEF Good

\* A batch's next attestation is stored.
LEMMA StoreAttestation ==
    ASSUME NEW d, Good(d), NEW b \in Batches, NEW n \in 0..MaxAttested, n + 1 <= MaxAttested,
           \A v \in 1..MaxAttested : d.attestations[<<b, v>>] # None <=> v <= n,
           NEW units \in SUBSET Units, \A u \in units : Owner(u) = Owner(b),
           NEW a, a = <<b, n + 1>>,
           NEW f \in [Att -> (SUBSET Units) \cup {None}], f[a] = units,
           \A c \in Att \ {a} : f[c] = d.attestations[c],
           NEW e, e = WithAttestations(d, f)
    PROVE  /\ Good(e) /\ Grows(d, e) /\ e.attestations[a] = units /\ a \in Att
           /\ e.units = d.units /\ e.batches = d.batches
<1>1. d \in Dataset /\ Linked(d) /\ Owned(d) /\ Numbered(d)
    BY DEF Good
<1>2. n + 1 \in 1..MaxAttested /\ ~(n + 1 <= n)
    BY IntakeAssumption
<1>4. a \in Att /\ d.attestations[a] = None
    BY <1>2 DEF Att
<1>5. /\ e.attestations = f
      /\ e.units = d.units /\ e.batches = d.batches /\ e.cases = d.cases /\ e.lots = d.lots
      /\ e = [batches |-> e.batches, units |-> e.units, attestations |-> e.attestations,
              cases |-> e.cases, lots |-> e.lots]
    <2>1. d = [batches |-> d.batches, units |-> d.units, attestations |-> d.attestations,
               cases |-> d.cases, lots |-> d.lots]
        BY <1>1, DatasetFacts
    <2>2. e = [batches |-> d.batches, units |-> d.units, attestations |-> f,
               cases |-> d.cases, lots |-> d.lots]
        BY <2>1 DEF WithAttestations
    <2>3. QED
        BY <2>2
<1>6. e.attestations \in [Att -> (SUBSET Units) \cup {None}]
    <2>1. d.attestations \in [Att -> (SUBSET Units) \cup {None}]
        BY <1>1, DatasetFacts
    <2>2. QED
        BY <1>5, <2>1
<1>7. e \in Dataset
    BY <1>1, <1>5, <1>6, DatasetFacts DEF Dataset
<1>8. \A c \in Att : e.attestations[c] = IF c = a THEN units ELSE d.attestations[c]
    BY <1>1, <1>4, <1>5, DatasetFacts
<1>9. units # None
    BY NoRecordAssumption
<1>10. \A c \in Att : d.attestations[c] # None => e.attestations[c] = d.attestations[c]
    BY <1>4, <1>8
<1>11. Linked(e)
    <2>1. ASSUME NEW c \in Batches, e.batches[c] # None
          PROVE  e.batches[c].astray \/
                    /\ \A u \in e.batches[c].listed : e.units[u] # None
                    /\ e.batches[c].attested > 0 => e.attestations[<<c, e.batches[c].attested>>] # None
        <3>1. d.batches[c].astray \/
                 /\ \A u \in d.batches[c].listed : d.units[u] # None
                 /\ d.batches[c].attested > 0 => d.attestations[<<c, d.batches[c].attested>>] # None
            BY <1>1, <1>5, <2>1 DEF Linked
        <3>2. d.batches[c].attested > 0 => <<c, d.batches[c].attested>> \in Att
            BY <1>1, <1>5, <2>1, DatasetFacts, IntakeAssumption DEF Att
        <3>3. QED
            BY <1>5, <1>10, <3>1, <3>2
    <2>2. ASSUME NEW u \in Units, e.cases[u] # None
          PROVE  /\ e.units[u] # None
                 /\ e.attestations[<<e.cases[u].batch, e.cases[u].version>>] # None
                 /\ u \in e.attestations[<<e.cases[u].batch, e.cases[u].version>>]
        <3>1. /\ d.units[u] # None
              /\ d.attestations[<<d.cases[u].batch, d.cases[u].version>>] # None
              /\ u \in d.attestations[<<d.cases[u].batch, d.cases[u].version>>]
            BY <1>1, <1>5, <2>2 DEF Linked
        <3>2. <<d.cases[u].batch, d.cases[u].version>> \in Att
            BY <1>1, <1>5, <2>2, DatasetFacts
        <3>3. QED
            BY <1>5, <1>10, <3>1, <3>2
    <2>3. \A u \in Units : e.units[u] # None => e.units[u].astray \/ e.batches[e.units[u].batch] # None
        BY <1>1, <1>5 DEF Linked
    <2>4. QED
        BY <2>1, <2>2, <2>3 DEF Linked
<1>12. Owned(e)
    <2>1. a[1] = b
        OBVIOUS
    <2>2. \A c \in Att : e.attestations[c] # None => \A u \in e.attestations[c] : Owner(u) = Owner(c[1])
        BY <1>1, <1>8, <2>1 DEF Owned
    <2>3. QED
        BY <1>1, <1>5, <2>2 DEF Owned
<1>13. Numbered(e)
    <2>1. ASSUME NEW c \in Batches, c # b
          PROVE  \E m \in 0..MaxAttested : \A v \in 1..MaxAttested : e.attestations[<<c, v>>] # None <=> v <= m
        <3>1. \A v \in 1..MaxAttested : <<c, v>> \in Att /\ <<c, v>> # a
            BY <2>1 DEF Att
        <3>2. \A v \in 1..MaxAttested : e.attestations[<<c, v>>] = d.attestations[<<c, v>>]
            BY <1>8, <3>1
        <3>3. PICK m \in 0..MaxAttested : \A v \in 1..MaxAttested : d.attestations[<<c, v>>] # None <=> v <= m
            BY <1>1 DEF Numbered
        <3>4. QED
            BY <3>2, <3>3
    <2>2. \A v \in 1..MaxAttested : e.attestations[<<b, v>>] # None <=> v <= n + 1
        <3> SUFFICES ASSUME NEW v \in 1..MaxAttested
                     PROVE  e.attestations[<<b, v>>] # None <=> v <= n + 1
            OBVIOUS
        <3>1. <<b, v>> \in Att /\ (<<b, v>> = a <=> v = n + 1)
            BY DEF Att
        <3>2. CASE v = n + 1
            BY <1>2, <1>8, <1>9, <3>1, <3>2
        <3>3. CASE v # n + 1
            <4>1. e.attestations[<<b, v>>] = d.attestations[<<b, v>>]
                BY <1>8, <3>1, <3>3
            <4>2. v <= n <=> v <= n + 1
                BY <3>3
            <4>3. QED
                BY <4>1, <4>2
        <3>4. QED
            BY <3>2, <3>3
    <2>3. n + 1 \in 0..MaxAttested
        BY <1>2
    <2>4. QED
        BY <2>1, <2>2, <2>3 DEF Numbered
<1>14. Grows(d, e)
    BY <1>5, <1>9, <1>10 DEF Grows
<1>15. e.attestations[a] = units /\ a \in Att
    BY <1>4, <1>8
<1>16. QED
    BY <1>5, <1>7, <1>11, <1>12, <1>13, <1>14, <1>15 DEF Good

\* Cases are stored on an attestation there is, for units that are there and that it lists.
LEMMA StoreCases ==
    ASSUME NEW d, Good(d), NEW b \in Batches, NEW version \in 1..MaxAttested,
           d.attestations[<<b, version>>] # None,
           NEW units \in SUBSET Units,
           \A u \in units : d.units[u] # None /\ u \in d.attestations[<<b, version>>],
           NEW e, e = OnAttestation(d, b, version, units)
    PROVE  /\ Good(e) /\ Grows(d, e) /\ Grows(e, d) /\ e.units = d.units
           /\ e.batches = d.batches /\ e.attestations = d.attestations
<1>1. d \in Dataset /\ Linked(d) /\ Owned(d) /\ Numbered(d)
    BY DEF Good
<1>2. PICK x : x = [batch |-> b, version |-> version]
    OBVIOUS
<1>3. x \in Case /\ x.batch = b /\ x.version = version
    BY <1>2 DEF Case
<1>13. PICK f : f = [u \in Units |-> IF u \in units THEN x ELSE d.cases[u]]
    OBVIOUS
<1>14. e = [d EXCEPT !.cases = f]
    BY <1>2, <1>13 DEF OnAttestation
<1>4. /\ e.cases = [u \in Units |-> IF u \in units THEN x ELSE d.cases[u]]
      /\ e.units = d.units /\ e.batches = d.batches /\ e.attestations = d.attestations /\ e.lots = d.lots
      /\ e = [batches |-> e.batches, units |-> e.units, attestations |-> e.attestations,
              cases |-> e.cases, lots |-> e.lots]
    BY <1>1, <1>13, <1>14, DatasetFacts
<1>5. e.cases \in [Units -> Case \cup {None}]
    BY <1>1, <1>3, <1>4, DatasetFacts
<1>6. e \in Dataset
    BY <1>1, <1>4, <1>5, DatasetFacts DEF Dataset
<1>7. \A u \in Units : e.cases[u] = IF u \in units THEN x ELSE d.cases[u]
    BY <1>4
<1>8. Linked(e)
    <2>1. ASSUME NEW u \in Units, e.cases[u] # None
          PROVE  /\ e.units[u] # None
                 /\ e.attestations[<<e.cases[u].batch, e.cases[u].version>>] # None
                 /\ u \in e.attestations[<<e.cases[u].batch, e.cases[u].version>>]
        <3>1. CASE u \in units
            BY <1>3, <1>4, <1>7, <3>1
        <3>2. CASE u \notin units
            <4>1. e.cases[u] = d.cases[u]
                BY <1>7, <3>2
            <4>2. QED
                BY <1>1, <1>4, <2>1, <4>1 DEF Linked
        <3>3. QED
            BY <3>1, <3>2
    <2>2. \A c \in Batches : e.batches[c] # None => e.batches[c].astray \/
             /\ \A u \in e.batches[c].listed : e.units[u] # None
             /\ e.batches[c].attested > 0 => e.attestations[<<c, e.batches[c].attested>>] # None
        BY <1>1, <1>4 DEF Linked
    <2>3. \A u \in Units : e.units[u] # None => e.units[u].astray \/ e.batches[e.units[u].batch] # None
        BY <1>1, <1>4 DEF Linked
    <2>4. QED
        BY <2>1, <2>2, <2>3 DEF Linked
<1>9. Owned(e)
    BY <1>1, <1>4 DEF Owned
<1>10. Numbered(e)
    BY <1>1, <1>4 DEF Numbered
<1>11. Grows(d, e) /\ Grows(e, d)
    BY <1>4 DEF Grows
<1>12. QED
    BY <1>4, <1>6, <1>8, <1>9, <1>10, <1>11 DEF Good

\* A lot refers to nothing.
LEMMA StoreLot ==
    ASSUME NEW d, Good(d), NEW lot \in Lots, NEW e, e = [d EXCEPT !.lots = @ \cup {lot}]
    PROVE  Good(e) /\ Grows(d, e) /\ lot \in e.lots
<1>1. d \in Dataset /\ Linked(d) /\ Owned(d) /\ Numbered(d)
    BY DEF Good
<1>8. PICK l : l = d.lots \cup {lot}
    OBVIOUS
<1>9. e = [d EXCEPT !.lots = l]
    BY <1>8
<1>2. /\ e.lots = d.lots \cup {lot}
      /\ e.units = d.units /\ e.batches = d.batches /\ e.attestations = d.attestations /\ e.cases = d.cases
      /\ e = [batches |-> e.batches, units |-> e.units, attestations |-> e.attestations,
              cases |-> e.cases, lots |-> e.lots]
    <2>1. d = [batches |-> d.batches, units |-> d.units, attestations |-> d.attestations,
               cases |-> d.cases, lots |-> d.lots]
        BY <1>1, DatasetFacts
    <2>2. e = [batches |-> d.batches, units |-> d.units, attestations |-> d.attestations,
               cases |-> d.cases, lots |-> l]
        BY <1>9, <2>1
    <2>3. QED
        BY <1>8, <2>2
<1>3. e.lots \in SUBSET Lots
    BY <1>1, <1>2, DatasetFacts
<1>4. e \in Dataset
    BY <1>1, <1>2, <1>3, DatasetFacts DEF Dataset
<1>5. Linked(e) /\ Owned(e) /\ Numbered(e)
    BY <1>1, <1>2 DEF Linked, Owned, Numbered
<1>6. Grows(d, e)
    BY <1>2 DEF Grows
<1>7. QED
    BY <1>2, <1>4, <1>5, <1>6 DEF Good

-----------------------------------------------------------------------------
(* Handlers that read after their last await. *)

\* A linked data set stores what it stores.
LEMMA SelfAlike ==
    ASSUME NEW e, Good(e)
    PROVE  e \in Alike(e)
BY GrowsFacts DEF Alike, Good

\* A lot is added.
LEMMA ReceiveLotKeeps ==
    ASSUME IntakeInv, NEW s \in Sessions, ReceiveLot(s)
    PROVE  IntakeInv'
<1>1. PICK lot \in Lots : LET received == [data EXCEPT !.lots = @ \cup {lot}]
                          IN  Write(<<received, received>>, Told({lot}), inflight)
    BY DEF ReceiveLot
<1>2. PICK e : e = [data EXCEPT !.lots = @ \cup {lot}]
    OBVIOUS
<1>3. PICK told : told = Told({lot})
    OBVIOUS
<1>4. Write(<<e, e>>, told, inflight)
    BY <1>1, <1>2, <1>3
<1>5. Good(data) /\ Released(inflight) /\ Released(AllIdle)
    BY DEF IntakeInv, Released, AllIdle
<1>6. Good(e) /\ Grows(data, e) /\ lot \in e.lots
    BY <1>2, <1>5, StoreLot
<1>7. told.stored \subseteq Stored(e) /\ told.attested = {}
    BY <1>3, <1>6 DEF Told, Stored
<1>8. <<e, e>> \in Seq(Alike(e)) /\ <<e, e>> # <<>>
    BY <1>6, SelfAlike
<1>9. QED
    BY <1>4, <1>5, <1>6, <1>7, <1>8, WriteKeeps

\* A batch is stored in place of the one there may be.
LEMMA BatchStored ==
    ASSUME Good(data), NEW b \in Batches, NEW x \in Batch, BatchLed(data, b, x),
           NEW e, e = [data EXCEPT !.batches[b] = x]
    PROVE  Good(e) /\ Grows(data, e) /\ b \in Stored(e)
<1>1. PICK f : f = [data.batches EXCEPT ![b] = x]
    OBVIOUS
<1>2. e = WithBatches(data, f)
    BY <1>1 DEF WithBatches
<1>3. f \in [Batches -> Batch \cup {None}] /\ f[b] = x /\ \A c \in Batches \ {b} : f[c] = data.batches[c]
    BY <1>1, DatasetFacts DEF Good
<1>4. Good(e) /\ Grows(data, e)
    BY <1>2, <1>3, StoreBatch
<1>5. e.batches[b] = x /\ x # None
    <2>1. data = [batches |-> data.batches, units |-> data.units, attestations |-> data.attestations,
                  cases |-> data.cases, lots |-> data.lots]
        BY DatasetFacts DEF Good
    <2>2. e.batches = f
        BY <1>2, <2>1 DEF WithBatches
    <2>3. QED
        BY <1>3, <2>2, NoRecordAssumption
<1>6. QED
    BY <1>4, <1>5 DEF Stored

\* A unit is stored in place of the one there may be.
LEMMA UnitStored ==
    ASSUME Good(data), NEW u \in Units, NEW x \in Unit, UnitLed(data, u, x),
           NEW e, e = [data EXCEPT !.units[u] = x]
    PROVE  Good(e) /\ Grows(data, e) /\ u \in Stored(e)
<1>1. PICK f : f = [v \in {u} |-> x]
    OBVIOUS
<1>2. f \in [{u} -> Unit] /\ f[u] = x
    BY <1>1
<1>3. PICK g : g = [v \in Units |-> IF v \in {u} THEN f[v] ELSE data.units[v]]
    OBVIOUS
<1>4. data.units \in [Units -> Unit \cup {None}]
    BY DatasetFacts DEF Good
<1>5. e = WithUnits(data, g)
    <2>1. [data.units EXCEPT ![u] = x] = [v \in Units |-> IF v \in {u} THEN f[v] ELSE data.units[v]]
        BY <1>2, <1>4
    <2>2. QED
        BY <1>3, <2>1 DEF WithUnits
<1>6. g \in [Units -> Unit \cup {None}] /\ \A v \in Units : g[v] = IF v \in {u} THEN f[v] ELSE data.units[v]
    BY <1>2, <1>3, <1>4
<1>7. {u} \in SUBSET Units /\ \A v \in {u} : UnitLed(data, v, f[v])
    BY <1>2
<1>8. Good(e) /\ Grows(data, e)
    BY <1>2, <1>5, <1>6, <1>7, StoreUnits
<1>9. e.units[u] # None
    <2>1. data = [batches |-> data.batches, units |-> data.units, attestations |-> data.attestations,
                  cases |-> data.cases, lots |-> data.lots]
        BY DatasetFacts DEF Good
    <2>2. e.units = g
        BY <1>5, <2>1 DEF WithUnits
    <2>3. QED
        BY <1>2, <1>6, <2>2, NoRecordAssumption
<1>10. QED
    BY <1>8, <1>9 DEF Stored

\* A batch is created without units.
LEMMA CreateKeeps ==
    ASSUME IntakeInv, NEW s \in Sessions, NEW b \in Batches, NEW lots \in SUBSET Lots, CreateBatch(s, b, lots)
    PROVE  IntakeInv'
<1>1. PICK x : x = Holding([NoLinks EXCEPT !.lots = lots], FALSE)
    OBVIOUS
<1>2. PICK e : e = [data EXCEPT !.batches[b] = x]
    OBVIOUS
<1>3. PICK told : told = Told({b})
    OBVIOUS
<1>4. Good(data) /\ Released(inflight) /\ Released(AllIdle)
    BY DEF IntakeInv, Released, AllIdle
<1>5. x = [listed |-> {}, attested |-> 0, lots |-> lots, astray |-> FALSE]
    BY <1>1 DEF Holding, NoLinks
<1>6. x \in Batch /\ BatchLed(data, b, x)
    BY <1>5, IntakeAssumption DEF Batch, BatchLed
<1>7. Good(e) /\ Grows(data, e) /\ b \in Stored(e)
    BY <1>2, <1>4, <1>6, BatchStored
<1>8. told.stored \subseteq Stored(e) /\ told.attested = {}
    BY <1>3, <1>7 DEF Told
<1>9. <<e>> \in Seq(Alike(e)) /\ <<e>> # <<>>
    BY <1>7, SelfAlike
<1>10. Write(<<e>>, told, inflight)
    BY <1>1, <1>2, <1>3 DEF CreateBatch
<1>11. QED
    BY <1>4, <1>7, <1>8, <1>9, <1>10, WriteKeeps

\* What a synchronized operation makes of the data is stored, or they are saved as they are.
LEMMA SynchronizeKeeps ==
    ASSUME IntakeInv, NEW e, Good(e), Grows(data, e), NEW id \in Stored(e), Synchronize(e, id)
    PROVE  IntakeInv'
<1>1. Good(data) /\ Released(inflight) /\ Released(AllIdle)
    BY DEF IntakeInv, Released, AllIdle
<1>2. CASE Write(<<e, e>>, Told({id}), inflight)
    <2>1. PICK told : told = Told({id})
        OBVIOUS
    <2>2. told.stored \subseteq Stored(e) /\ told.attested = {}
        BY <2>1 DEF Told
    <2>3. <<e, e>> \in Seq(Alike(e)) /\ <<e, e>> # <<>>
        BY SelfAlike
    <2>4. QED
        BY <1>1, <1>2, <2>1, <2>2, <2>3, WriteKeeps
<1>3. CASE Write(<<data>>, Told({}), inflight)
    <2>1. PICK told : told = Told({})
        OBVIOUS
    <2>2. told.stored \subseteq Stored(data) /\ told.attested = {}
        BY <2>1 DEF Told
    <2>3. <<data>> \in Seq(Alike(data)) /\ <<data>> # <<>> /\ Grows(data, data)
        BY <1>1, SelfAlike, GrowsFacts
    <2>4. QED
        BY <1>1, <1>3, <2>1, <2>2, <2>3, WriteKeeps
<1>4. QED
    BY <1>2, <1>3 DEF Synchronize

\* A synchronized batch is marked unless its links lead to what is there and its tenant's.
LEMMA SyncBatchKeeps ==
    ASSUME IntakeInv, NEW s \in Sessions, NEW b \in Batches, NEW links \in SentBatches, SyncBatch(s, b, links)
    PROVE  IntakeInv'
<1>1. PICK x : x = Holding(links, LeadAstray(s, b, links))
    OBVIOUS
<1>2. PICK e : e = [data EXCEPT !.batches[b] = x]
    OBVIOUS
<1>3. Good(data) /\ TenantOf[s] = Owner(b) /\ Synchronize(e, b)
    BY <1>1, <1>2 DEF IntakeInv, SyncBatch, MaySync, InScope
<1>4. links \in Links /\ LeadAstray(s, b, links) \in BOOLEAN
    BY PayloadAssumption DEF LeadAstray
<1>5. /\ x \in Batch /\ x.listed = links.listed /\ x.attested = links.attested
      /\ x.astray = LeadAstray(s, b, links)
    BY <1>1, <1>4 DEF Holding, Batch, Links
<1>6. BatchLed(data, b, x)
    BY <1>3, <1>5 DEF BatchLed, LeadAstray, InScope
<1>7. Good(e) /\ Grows(data, e) /\ b \in Stored(e)
    BY <1>2, <1>3, <1>5, <1>6, BatchStored
<1>8. QED
    BY <1>3, <1>7, SynchronizeKeeps

\* So is a synchronized unit.
LEMMA SyncUnitKeeps ==
    ASSUME IntakeInv, NEW s \in Sessions, NEW u \in Units, NEW sent \in SentUnits, SyncUnit(s, u, sent)
    PROVE  IntakeInv'
<1>1. PICK x : x = [batch |-> sent.batch, serial |-> sent.serial,
                    astray |-> data.batches[sent.batch] = None \/ ~InScope(s, sent.batch)]
    OBVIOUS
<1>2. PICK e : e = [data EXCEPT !.units[u] = x]
    OBVIOUS
<1>3. Good(data) /\ TenantOf[s] = Owner(u) /\ Synchronize(e, u)
    BY <1>1, <1>2 DEF IntakeInv, SyncUnit, MaySync, InScope
<1>4. sent.batch \in Batches /\ sent.serial \in Serials
    BY PayloadAssumption
<1>5. x \in Unit
    BY <1>1, <1>4 DEF Unit
<1>6. UnitLed(data, u, x)
    BY <1>1, <1>3 DEF UnitLed, InScope
<1>7. Good(e) /\ Grows(data, e) /\ u \in Stored(e)
    BY <1>2, <1>3, <1>5, <1>6, UnitStored
<1>8. QED
    BY <1>3, <1>7, SynchronizeKeeps

\* A process starts from the file, and holds no copies.
LEMMA RestartKeeps ==
    ASSUME IntakeInv, Restart
    PROVE  IntakeInv'
BY GrowsFacts DEF IntakeInv, Restart, AllIdle, AnsweredIsKept

-----------------------------------------------------------------------------
(* Handlers that hold a copy. *)

\* What a copy refers to is in memory when it is taken.
LEMMA LoadKeeps ==
    ASSUME IntakeInv, NEW q \in Requests, NEW s \in Sessions,
           NEW kind \in {"import", "csv", "submit", "patch"}, NEW id, Load(q, s, kind, id)
    PROVE  IntakeInv'
<1>1. Good(data) /\ data \in Dataset /\ Linked(data) /\ Owned(data) /\ DOMAIN inflight = Requests
    BY DEF IntakeInv, Good
<1>2. PICK r : r = [kind |-> kind, session |-> s, id |-> id, copy |-> Taken(kind, id)]
    OBVIOUS
<1>3. /\ r.session = s /\ r.id = id /\ r.kind = kind /\ r.copy = Taken(kind, id)
      /\ TenantOf[s] = Owner(id) /\ Taken(kind, id) # None
      /\ inflight' = [inflight EXCEPT ![q] = r]
      /\ data' = data /\ disk' = disk /\ acked' = acked
    BY <1>2 DEF Load, InScope
<1>4. Held(data, r)
    <2>1. CASE kind = "patch"
        <3>1. id \in Units /\ r.copy = data.units[id]
            BY <1>3, <2>1 DEF Load, Taken
        <3>2. r.copy \in Unit
            BY <1>1, <1>3, <3>1, DatasetFacts
        <3>3. HeldUnit(data, r)
            BY <1>1, <1>3, <3>1, <3>2 DEF Owned, Linked, HeldUnit, UnitLed
        <3>4. QED
            BY <1>3, <2>1, <3>3 DEF Held
    <2>2. CASE kind # "patch"
        <3>1. id \in Batches /\ r.copy = data.batches[id]
            BY <1>3, <2>2 DEF Load, Taken
        <3>2. r.copy \in Batch
            BY <1>1, <1>3, <3>1, DatasetFacts
        <3>3. HeldBatch(data, r)
            BY <1>1, <1>3, <3>1, <3>2 DEF Owned, Linked, HeldBatch, BatchLed
        <3>4. QED
            BY <1>3, <2>2, <3>3 DEF Held
    <2>3. QED
        BY <2>1, <2>2
<1>5. DOMAIN inflight' = Requests /\ \A p \in Requests : inflight'[p] = IF p = q THEN r ELSE inflight[p]
    BY <1>1, <1>3
<1>6. QED
    BY <1>3, <1>4, <1>5 DEF IntakeInv, AnsweredIsKept

\* A copy is dropped.
LEMMA RefuseKeeps ==
    ASSUME IntakeInv, NEW q \in Requests, Refuse(q)
    PROVE  IntakeInv'
<1>1. DOMAIN inflight' = Requests /\ \A p \in Requests : inflight'[p] = IF p = q THEN None ELSE inflight[p]
    BY DEF IntakeInv, Refuse
<1>2. QED
    BY <1>1 DEF IntakeInv, Refuse, AnsweredIsKept

\* Units are stored with the batch the copy was taken from, and then the copy with them added.
LEMMA ImportKeeps ==
    ASSUME IntakeInv, NEW q \in Requests, NEW serials, inflight[q] # None, inflight[q].kind # "patch",
           NEW units, units = Given(q, serials), NEW writes,
           writes = Imported(q, units) \/ writes = Append(Imported(q, units), Last(Imported(q, units))),
           Write(writes, Told(units), Done(q))
    PROVE  IntakeInv'
<1>1. PICK r : r = inflight[q]
    OBVIOUS
<1>2. /\ Good(data) /\ Released(Done(q)) /\ Released(AllIdle)
      /\ Held(data, r) /\ r.kind # "patch"
    BY <1>1, DoneReleases DEF IntakeInv
<1>3. /\ HeldBatch(data, r) /\ r.id \in Batches /\ r.copy \in Batch /\ data.batches[r.id] # None
      /\ Owner(r.id) = TenantOf[r.session]
    BY <1>2 DEF Held, HeldBatch
<1>4. units \in SUBSET Units /\ \A u \in units : Owner(u) = Owner(r.id)
    BY <1>1, <1>3 DEF Given
<1>5. PICK f : f = [u \in units |-> [batch |-> r.id, serial |-> u[2], astray |-> FALSE]]
    OBVIOUS
<1>6. f \in [units -> Unit] /\ \A u \in units : f[u].batch = r.id
    <2>1. \A u \in units : u[2] \in Serials
        BY <1>4, IntakeAssumption
    <2>2. QED
        BY <1>3, <1>5, <2>1 DEF Unit
<1>7. PICK e1 : e1 = Identified(q, units)
    OBVIOUS
<1>22. PICK g : g = [u \in Units |-> IF u \in units THEN f[u] ELSE data.units[u]]
    OBVIOUS
<1>8. e1 = WithUnits(data, g)
    BY <1>1, <1>4, <1>5, <1>7, <1>22 DEF Identified, WithUnits
<1>9. /\ Good(e1) /\ Grows(data, e1) /\ \A u \in units : e1.units[u] # None
      /\ e1.batches = data.batches /\ e1.attestations = data.attestations
    <2>1. g \in [Units -> Unit \cup {None}] /\ \A u \in Units : g[u] = IF u \in units THEN f[u] ELSE data.units[u]
        BY <1>2, <1>6, <1>22, DatasetFacts DEF Good
    <2>2. \A u \in units : UnitLed(data, u, f[u])
        BY <1>3, <1>4, <1>6 DEF UnitLed
    <2>3. Good(e1) /\ Grows(data, e1)
        BY <1>2, <1>4, <1>6, <1>8, <2>1, <2>2, StoreUnits
    <2>4. data = [batches |-> data.batches, units |-> data.units, attestations |-> data.attestations,
                  cases |-> data.cases, lots |-> data.lots]
        BY <1>2, DatasetFacts DEF Good
    <2>5. e1.units = g /\ e1.batches = data.batches /\ e1.attestations = data.attestations
        BY <1>8, <2>4 DEF WithUnits
    <2>6. \A u \in units : g[u] # None
        BY <1>4, <1>6, <2>1, NoRecordAssumption
    <2>7. QED
        BY <2>3, <2>5, <2>6
<1>10. PICK x : x = [r.copy EXCEPT !.listed = @ \cup units]
    OBVIOUS
<1>11. /\ x \in Batch /\ x.listed = r.copy.listed \cup units /\ x.attested = r.copy.attested
       /\ x.astray = r.copy.astray
    BY <1>3, <1>4, <1>10 DEF Batch
<1>12. BatchLed(e1, r.id, x)
    <2>1. r.copy.listed \subseteq Units
        BY <1>3 DEF Batch
    <2>2. QED
        BY <1>3, <1>4, <1>9, <1>11, <2>1 DEF HeldBatch, BatchLed, Grows
<1>23. PICK h : h = [e1.batches EXCEPT ![r.id] = x]
    OBVIOUS
<1>24. PICK e : e = WithBatches(e1, h)
    OBVIOUS
<1>13. e = [e1 EXCEPT !.batches[r.id] = x]
    BY <1>23, <1>24 DEF WithBatches
<1>14. /\ Good(e) /\ Grows(e1, e) /\ Grows(e, e1) /\ e.units = e1.units
    <2>1. h \in [Batches -> Batch \cup {None}] /\ h[r.id] = x /\ \A c \in Batches \ {r.id} : h[c] = e1.batches[c]
        BY <1>3, <1>9, <1>11, <1>23, DatasetFacts DEF Good
    <2>2. QED
        BY <1>3, <1>9, <1>11, <1>12, <1>24, <2>1, StoreBatch
<1>15. e1 \in Alike(e) /\ e \in Alike(e) /\ Grows(data, e)
    BY <1>9, <1>14, SelfAlike, GrowsFacts DEF Alike, Good
<1>16. Imported(q, units) = <<e1, e>>
    BY <1>1, <1>7, <1>10, <1>13 DEF Imported
<1>17. writes = <<e1, e>> \/ writes = <<e1, e, e>>
    BY <1>16 DEF Last
<1>18. writes \in Seq(Alike(e)) /\ writes # <<>>
    <2>1. <<e1, e>> \in Seq(Alike(e)) /\ <<e1, e>> # <<>>
        BY <1>15
    <2>2. <<e1, e, e>> \in Seq(Alike(e)) /\ <<e1, e, e>> # <<>>
        BY <1>15
    <2>3. QED
        BY <1>17, <2>1, <2>2
<1>19. PICK told : told = Told(units)
    OBVIOUS
<1>20. told.stored \subseteq Stored(e) /\ told.attested = {}
    BY <1>4, <1>9, <1>14, <1>19 DEF Told, Stored
<1>21. QED
    BY <1>2, <1>15, <1>18, <1>19, <1>20, WriteKeeps

\* An edited unit is stored in the batch its copy names.
LEMMA EditKeeps ==
    ASSUME IntakeInv, NEW q \in Requests, NEW serial \in Serials, EditUnit(q, serial)
    PROVE  IntakeInv'
<1>1. PICK r : r = inflight[q]
    OBVIOUS
<1>2. /\ Good(data) /\ Released(Done(q)) /\ Released(AllIdle)
      /\ Held(data, r) /\ r.kind = "patch"
    BY <1>1, DoneReleases DEF IntakeInv, EditUnit
<1>3. r.id \in Units /\ r.copy \in Unit /\ UnitLed(data, r.id, r.copy)
    BY <1>2 DEF Held, HeldUnit
<1>4. PICK x : x = [r.copy EXCEPT !.serial = serial]
    OBVIOUS
<1>5. x \in Unit /\ x.batch = r.copy.batch /\ x.astray = r.copy.astray
    BY <1>3, <1>4 DEF Unit
<1>6. UnitLed(data, r.id, x)
    BY <1>3, <1>5 DEF UnitLed
<1>7. PICK e : e = [data EXCEPT !.units[r.id] = x]
    OBVIOUS
<1>8. Good(e) /\ Grows(data, e) /\ r.id \in Stored(e)
    BY <1>2, <1>3, <1>5, <1>6, <1>7, UnitStored
<1>9. PICK told : told = Told({r.id})
    OBVIOUS
<1>10. told.stored \subseteq Stored(e) /\ told.attested = {}
    BY <1>8, <1>9 DEF Told
<1>11. <<e>> \in Seq(Alike(e)) /\ <<e>> # <<>>
    BY <1>8, SelfAlike
<1>12. Write(<<e>>, told, Done(q))
    BY <1>1, <1>4, <1>7, <1>9 DEF EditUnit
<1>13. QED
    BY <1>2, <1>8, <1>10, <1>11, <1>12, WriteKeeps

-----------------------------------------------------------------------------
(* Submission. *)

\* Attestations numbered without gaps are counted by their last number.
LEMMA CountedByLast ==
    ASSUME NEW d, NEW b \in Batches, NEW n \in 0..MaxAttested,
           \A v \in 1..MaxAttested : d.attestations[<<b, v>>] # None <=> v <= n
    PROVE  Cardinality(Attested(d, b)) = n
<1> DEFINE at == [v \in 1..n |-> <<b, v>>]
           S  == Attested(d, b)
<1>1. n \in Nat /\ \A v \in 1..n : v \in 1..MaxAttested /\ v <= n
    BY IntakeAssumption
<1>2. \A v \in 1..n : at[v] \in S
    BY <1>1 DEF Attested, Att
<1>3. \A v, w \in 1..n : at[v] = at[w] => v = w
    OBVIOUS
<1>4. ASSUME NEW a \in S
      PROVE  \E v \in 1..n : at[v] = a
    <2>1. a \in Att /\ a[1] = b /\ d.attestations[a] # None
        BY DEF Attested
    <2>2. PICK v \in 1..MaxAttested : a = <<b, v>>
        BY <2>1 DEF Att
    <2>3. v \in 1..n
        BY <1>1, <2>1, <2>2
    <2>4. QED
        BY <2>2, <2>3
<1>5. at \in Bijection(1..n, S)
    BY <1>2, <1>3, <1>4 DEF Bijection, Injection, Surjection, IsInjective
<1>6. ExistsBijection(1..n, S)
    BY <1>5 DEF ExistsBijection
<1>7. QED
    BY <1>1, <1>6, FS_CountingElements

\* An order of the units of a batch is a sequence of them.
LEMMA OrderFacts ==
    ASSUME NEW S \in SUBSET Units, S # {}
    PROVE  /\ Len(SetToSeq(S)) \in Nat /\ Len(SetToSeq(S)) > 0
           /\ \A i \in 1..Len(SetToSeq(S)) : SetToSeq(S)[i] \in S
<1> DEFINE n == Cardinality(S)
           o == SetToSeq(S)
<1>1. IsFiniteSet(S)
    BY FS_Subset, IntakeAssumption
<1>2. n \in Nat /\ ExistsBijection(1..n, S)
    BY <1>1, FS_CardinalityType
<1>3. n # 0
    BY <1>1, FS_EmptySet
<1>4. \E f \in [1..n -> S] : IsInjective(f)
    BY <1>2 DEF ExistsBijection, Bijection, Injection
<1>5. o \in [1..n -> S]
    BY <1>4 DEF SetToSeq
<1> HIDE DEF o, n
<1>6. Len(o) = n
    BY <1>2, <1>5
<1>7. QED
    BY <1>2, <1>3, <1>5, <1>6 DEF o

\* The batch's units are attested, their cases opened one after the other, and the batch closed.
LEMMA SubmitKeeps ==
    ASSUME IntakeInv, NEW q \in Requests, SubmitBatch(q)
    PROVE  IntakeInv'
<1>1. PICK r : r = inflight[q]
    OBVIOUS
<1>2. /\ Good(data) /\ data \in Dataset /\ Released(Done(q)) /\ Released(AllIdle)
      /\ Held(data, r) /\ r.kind = "submit"
    BY <1>1, DoneReleases DEF IntakeInv, SubmitBatch, Good
<1>3. PICK b : b = r.id
    OBVIOUS
<1>4. HeldBatch(data, r) /\ b \in Batches /\ r.copy \in Batch /\ data.batches[b] # None
    BY <1>2, <1>3 DEF Held, HeldBatch
<1>5. PICK units : units = ToAttest(q)
    OBVIOUS
<1>6. /\ units \in SUBSET Units /\ units # {}
      /\ \A u \in units : data.units[u] # None /\ Owner(u) = Owner(b)
    <2>1. Owner(b) = TenantOf[r.session]
        BY <1>2, <1>3 DEF Held
    <2>2. QED
        BY <1>1, <1>5, <2>1 DEF ToAttest, ListAssets, InScope, SubmitBatch, Submittable
<1>7. PICK n \in 0..MaxAttested : \A v \in 1..MaxAttested : data.attestations[<<b, v>>] # None <=> v <= n
    BY <1>2, <1>4 DEF Good, Numbered
<1>8. NextVersion(b) = n + 1
    BY <1>4, <1>7, CountedByLast DEF NextVersion
<1>9. /\ n + 1 <= MaxAttested
      /\ Write(Submitted(q, n + 1), [stored |-> {}, attested |-> {<<b, n + 1>>}], Done(q))
    BY <1>1, <1>3, <1>8 DEF SubmitBatch
<1>10. n + 1 \in 1..MaxAttested /\ n + 1 \in 0..MaxAttested
    BY <1>9, IntakeAssumption
<1>11. PICK a : a = <<b, n + 1>>
    OBVIOUS
<1>12. PICK f : f = [data.attestations EXCEPT ![a] = units]
    OBVIOUS
<1>13. PICK signed : signed = WithAttestations(data, f)
    OBVIOUS
<1>14. a \in Att
    BY <1>4, <1>10, <1>11 DEF Att
<1>15. /\ Good(signed) /\ Grows(data, signed) /\ signed.attestations[a] = units
       /\ signed.units = data.units /\ signed.batches = data.batches
    <2>1. /\ f \in [Att -> (SUBSET Units) \cup {None}] /\ f[a] = units
          /\ \A c \in Att \ {a} : f[c] = data.attestations[c]
        BY <1>2, <1>6, <1>12, <1>14, DatasetFacts
    <2>2. QED
        BY <1>2, <1>4, <1>6, <1>7, <1>9, <1>11, <1>13, <2>1, StoreAttestation
<1>16. PICK order : order = SetToSeq(units)
    OBVIOUS
<1>17. Len(order) \in Nat /\ Len(order) > 0 /\ \A i \in 1..Len(order) : order[i] \in units
    BY <1>6, <1>16, OrderFacts
<1> DEFINE First(i) == {order[j] : j \in 1..i}
           m == Len(order)
<1>18. PICK opened : opened = [i \in 1..m |-> OnAttestation(signed, b, n + 1, First(i))]
    OBVIOUS
<1>19. \A i \in 1..m : First(i) \in SUBSET units
    BY <1>17
<1>20. units # None
    BY <1>6, NoRecordAssumption
<1> HIDE DEF First
<1>21. ASSUME NEW i \in 1..m
       PROVE  /\ Good(opened[i]) /\ Grows(signed, opened[i]) /\ Grows(opened[i], signed)
              /\ opened[i].units = signed.units /\ opened[i].batches = signed.batches
              /\ opened[i].attestations = signed.attestations
    <2>1. PICK some : some = First(i)
        OBVIOUS
    <2>2. some \in SUBSET Units /\ \A u \in some : signed.units[u] # None /\ u \in signed.attestations[<<b, n + 1>>]
        BY <1>6, <1>11, <1>15, <1>19, <2>1
    <2>3. opened[i] = OnAttestation(signed, b, n + 1, some)
        BY <1>18, <2>1
    <2>4. signed.attestations[<<b, n + 1>>] # None
        BY <1>11, <1>15, <1>20
    <2>5. QED
        BY <1>4, <1>10, <1>15, <2>2, <2>3, <2>4, StoreCases
<1>22. PICK last : last = opened[m]
    OBVIOUS
<1>23. m \in 1..m
    BY <1>17
<1>24. /\ Good(last) /\ Grows(signed, last) /\ Grows(last, signed) /\ last \in Dataset
       /\ last.units = data.units /\ last.batches = data.batches /\ last.attestations = signed.attestations
    BY <1>15, <1>21, <1>22, <1>23 DEF Good
<1>25. PICK x : x = [r.copy EXCEPT !.attested = n + 1]
    OBVIOUS
<1>26. x \in Batch /\ x.listed = r.copy.listed /\ x.attested = n + 1 /\ x.astray = r.copy.astray
    BY <1>4, <1>10, <1>25 DEF Batch
<1>27. PICK h : h = [last.batches EXCEPT ![b] = x]
    OBVIOUS
<1>28. PICK closed : closed = WithBatches(last, h)
    OBVIOUS
<1>29. /\ Good(closed) /\ Grows(last, closed) /\ Grows(closed, last) /\ closed.attestations = last.attestations
    <2>1. h \in [Batches -> Batch \cup {None}] /\ h[b] = x /\ \A c \in Batches \ {b} : h[c] = last.batches[c]
        BY <1>4, <1>24, <1>26, <1>27, DatasetFacts
    <2>2. last.attestations[<<b, x.attested>>] # None
        BY <1>11, <1>15, <1>20, <1>24, <1>26
    <2>3. BatchLed(last, b, x)
        BY <1>3, <1>4, <1>24, <1>26, <2>2 DEF HeldBatch, BatchLed
    <2>4. QED
        BY <1>4, <1>24, <1>26, <1>28, <2>1, <2>3, StoreBatch
<1>30. /\ signed \in Alike(closed) /\ last \in Alike(closed) /\ closed \in Alike(closed)
       /\ \A i \in 1..m : opened[i] \in Alike(closed)
    <2>1. Grows(signed, closed) /\ Grows(closed, signed)
        BY <1>24, <1>29, GrowsFacts
    <2>2. \A i \in 1..m : Good(opened[i]) /\ Grows(opened[i], closed) /\ Grows(closed, opened[i])
        BY <1>21, <2>1, GrowsFacts
    <2>3. QED
        BY <1>15, <1>24, <1>29, <2>1, <2>2, SelfAlike DEF Alike, Good
<1>31. Submitted(q, n + 1) = <<signed>> \o opened \o <<last, closed, closed>>
    <2>1. signed = [data EXCEPT !.attestations[<<b, n + 1>>] = ToAttest(q)]
        BY <1>5, <1>11, <1>12, <1>13 DEF WithAttestations
    <2>2. opened \in Seq(Alike(closed)) /\ Len(opened) = m
        BY <1>17, <1>18, <1>30
    <2>3. Last(opened) = last
        BY <1>22, <2>2 DEF Last
    <2>4. closed = [last EXCEPT !.batches[b] = [inflight[q].copy EXCEPT !.attested = n + 1]]
        BY <1>1, <1>25, <1>27, <1>28 DEF WithBatches
    <2>5. opened = [i \in 1..Len(order) |-> OnAttestation(signed, b, n + 1, {order[j] : j \in 1..i})]
        BY <1>18 DEF First
    <2>6. inflight[q].id = b /\ SetToSeq(ToAttest(q)) = order
        BY <1>1, <1>3, <1>5, <1>16
    <2>7. QED
        BY <2>1, <2>3, <2>4, <2>5, <2>6, Zenon DEF Submitted
<1>32. PICK writes : writes = <<signed>> \o opened \o <<last, closed, closed>>
    OBVIOUS
<1>33. writes \in Seq(Alike(closed)) /\ writes # <<>>
    <2>1. opened \in Seq(Alike(closed))
        BY <1>17, <1>18, <1>30
    <2>2. <<signed>> \in Seq(Alike(closed)) /\ Len(<<signed>>) = 1
        BY <1>30
    <2>3. <<last, closed, closed>> \in Seq(Alike(closed)) /\ Len(<<last, closed, closed>>) = 3
        BY <1>30
    <2>4. <<signed>> \o opened \in Seq(Alike(closed)) /\ Len(<<signed>> \o opened) \in Nat
        BY <2>1, <2>2, ConcatProperties
    <2>5. /\ writes \in Seq(Alike(closed))
          /\ Len(writes) = Len(<<signed>> \o opened) + 3
        BY <1>32, <2>3, <2>4, ConcatProperties
    <2>6. QED
        BY <2>4, <2>5
<1>34. PICK told : told = [stored |-> {}, attested |-> {<<b, n + 1>>}]
    OBVIOUS
<1>35. /\ told.stored \subseteq Stored(closed)
       /\ \A c \in told.attested : c \in Att /\ closed.attestations[c] # None
    BY <1>11, <1>14, <1>15, <1>20, <1>24, <1>29, <1>34
<1>36. Grows(data, closed) /\ Write(writes, told, Done(q))
    BY <1>9, <1>15, <1>24, <1>29, <1>31, <1>32, <1>34, GrowsFacts
<1>37. QED
    BY <1>2, <1>33, <1>35, <1>36, WriteKeeps

-----------------------------------------------------------------------------
(* Every step, and what the invariant says. *)

\* The file a process starts from is linked.
LEMMA InitHolds ==
    ASSUME Init
    PROVE  IntakeInv
<1>1. PICK f : f = [b \in Batches |-> IF b \in Seeded THEN Holding(NoLinks, FALSE) ELSE None]
    OBVIOUS
<1>2. /\ data.batches = f /\ data.units = [u \in Units |-> None] /\ data.lots = {}
      /\ data.attestations = [a \in Att |-> None] /\ data.cases = [u \in Units |-> None]
      /\ data = [batches |-> f, units |-> data.units, attestations |-> data.attestations,
                 cases |-> data.cases, lots |-> data.lots]
    BY <1>1 DEF Init, Empty
<1>3. \A b \in Batches : f[b] # None => f[b].listed = {} /\ ~(f[b].attested > 0)
    BY <1>1 DEF Holding, NoLinks
<1>4. f \in [Batches -> Batch \cup {None}]
    BY <1>1, IntakeAssumption DEF Holding, NoLinks, Batch
<1>5. data \in Dataset
    BY <1>2, <1>4 DEF Dataset
<1>6. Linked(data) /\ Owned(data)
    BY <1>2, <1>3 DEF Linked, Owned
<1>7. Numbered(data)
    <2>1. \A b \in Batches, v \in 1..MaxAttested : data.attestations[<<b, v>>] = None
        BY <1>2 DEF Att
    <2>2. 0 \in 0..MaxAttested /\ \A v \in 1..MaxAttested : ~(v <= 0)
        BY IntakeAssumption
    <2>3. QED
        BY <2>1, <2>2 DEF Numbered
<1>8. QED
    BY <1>5, <1>6, <1>7, GrowsFacts DEF Init, IntakeInv, Good, AnsweredIsKept

\* Every step keeps the invariant.
LEMMA NextKeeps ==
    ASSUME IntakeInv, [Next]_vars
    PROVE  IntakeInv'
<1>1. CASE \/ \E s \in Sessions : ReceiveLot(s)
           \/ \E s \in Sessions, b \in Batches, lots \in SUBSET Lots : CreateBatch(s, b, lots)
           \/ Restart
    BY <1>1, ReceiveLotKeeps, CreateKeeps, RestartKeeps
<1>2. CASE \E q \in Requests, s \in Sessions, kind \in {"import", "csv", "submit", "patch"},
              id \in Batches \cup Units : Load(q, s, kind, id)
    BY <1>2, LoadKeeps
<1>3. CASE \E q \in Requests : Refuse(q) \/ SubmitBatch(q)
    BY <1>3, RefuseKeeps, SubmitKeeps
<1>4. CASE \E q \in Requests, serials \in SUBSET Serials : ImportUnits(q, serials) \/ ImportCsv(q, serials)
    <2>1. PICK q \in Requests, serials \in SUBSET Serials : ImportUnits(q, serials) \/ ImportCsv(q, serials)
        BY <1>4
    <2>2. PICK units : units = Given(q, serials)
        OBVIOUS
    <2>3. inflight[q] # None /\ inflight[q].kind # "patch"
        BY <2>1 DEF ImportUnits, ImportCsv
    <2>4. \/ Write(Imported(q, units), Told(units), Done(q))
          \/ Write(Append(Imported(q, units), Last(Imported(q, units))), Told(units), Done(q))
        BY <2>1, <2>2 DEF ImportUnits, ImportCsv
    <2>5. QED
        BY <2>2, <2>3, <2>4, ImportKeeps
<1>5. CASE \E q \in Requests, serial \in Serials : EditUnit(q, serial)
    BY <1>5, EditKeeps
<1>6. CASE \/ \E s \in Sessions, b \in Batches, links \in SentBatches : SyncBatch(s, b, links)
           \/ \E s \in Sessions, u \in Units, sent \in SentUnits : SyncUnit(s, u, sent)
    BY <1>6, SyncBatchKeeps, SyncUnitKeeps
<1>7. CASE UNCHANGED vars
    BY <1>7 DEF vars, IntakeInv, AnsweredIsKept
<1>8. QED
    BY <1>1, <1>2, <1>3, <1>4, <1>5, <1>6, <1>7 DEF Next

\* The invariant holds throughout.
LEMMA InvariantHolds == Spec => []IntakeInv
<1>1. Init => IntakeInv
    BY InitHolds
<1>2. IntakeInv /\ [Next]_vars => IntakeInv'
    BY NextKeeps
<1>3. QED
    BY <1>1, <1>2, PTL DEF Spec

(* However requests that hold copies overlap, whatever saves fail and wherever processes die, the   *)
(* links of the records lead to records, in memory and in the file: units a batch lists exist, its  *)
(* attestation was made and the batch a unit names exists, unless a tab's payload led the record    *)
(* astray, and a case's attestation is there and lists its unit.  (The order of the writes of the   *)
(* assets, csv and submit routes; the sync route stores payloads as sent.)                          *)
THEOREM LinksAreKept == Spec => []LinksHold
<1>1. IntakeInv => LinksHold
    BY DEF IntakeInv, Good, LinksHold
<1>2. QED
    BY <1>1, InvariantHolds, PTL

(* A session is shown its own tenant's records, which refer to no other tenant's unless a tab's     *)
(* payload led them astray; and whatever payloads said, a batch is attested and cases are opened    *)
(* for units of its own tenant only.  (assertTenantScope, the tenant's filter of listAssets,        *)
(* createAssetId of the session's tenant.)                                                          *)
THEOREM TenantsStayApart == Spec => []TenantsApart
<1>1. IntakeInv => TenantsApart
    <2> SUFFICES ASSUME IntakeInv PROVE TenantsApart
        OBVIOUS
    <2>1. data \in Dataset /\ Linked(data) /\ Owned(data)
        BY DEF IntakeInv, Good
    <2>2. ASSUME NEW s \in Sessions, NEW r \in Listed(s)
          PROVE  /\ May(s, "operations.search") /\ Owner(r) = TenantOf[s]
                 /\ r \in Batches => data.batches[r] # None
                 /\ r \in Units => data.units[r] # None
        <3>1. data.lots \subseteq Lots
            BY <2>1, DatasetFacts
        <3>2. QED
            BY <3>1, IntakeAssumption DEF Listed, Stored, InScope
    <2>3. ASSUME NEW s \in Sessions, NEW b \in Batches, b \in Listed(s)
          PROVE  data.batches[b].astray \/ data.batches[b].listed \subseteq Listed(s)
        <3>1. May(s, "operations.search") /\ Owner(b) = TenantOf[s] /\ data.batches[b] # None
            BY <2>2, <2>3
        <3>2. data.batches[b].listed \subseteq Units
            BY <2>1, <3>1, DatasetFacts
        <3>3. data.batches[b].astray
                 \/ \A u \in data.batches[b].listed : data.units[u] # None /\ Owner(u) = Owner(b)
            BY <2>1, <3>1 DEF Linked, Owned
        <3>4. QED
            BY <3>1, <3>2, <3>3 DEF Listed, Stored, InScope
    <2>4. ASSUME NEW s \in Sessions, NEW u \in Units, u \in Listed(s)
          PROVE  data.units[u].astray \/ data.units[u].batch \in Listed(s)
        <3>1. May(s, "operations.search") /\ Owner(u) = TenantOf[s] /\ data.units[u] # None
            BY <2>2, <2>4
        <3>2. /\ data.units[u].batch \in Batches
              /\ data.units[u].astray \/ data.batches[data.units[u].batch] # None
              /\ data.units[u].astray \/ Owner(u) = Owner(data.units[u].batch)
            BY <2>1, <3>1, DatasetFacts DEF Linked, Owned
        <3>3. QED
            BY <3>1, <3>2 DEF Listed, Stored, InScope
    <2>5. \A a \in Att : data.attestations[a] # None => \A u \in data.attestations[a] : Owner(u) = Owner(a[1])
        BY <2>1 DEF Owned
    <2>6. ASSUME NEW u \in Units, data.cases[u] # None
          PROVE  Owner(data.cases[u].batch) = Owner(u)
        <3>1. PICK a \in Att : a = <<data.cases[u].batch, data.cases[u].version>>
            BY <2>1, <2>6, DatasetFacts
        <3>2. data.attestations[a] # None /\ u \in data.attestations[a] /\ a[1] = data.cases[u].batch
            BY <2>1, <2>6, <3>1 DEF Linked
        <3>3. QED
            BY <2>5, <3>2
    <2>7. \A q \in Requests : inflight[q] # None => Owner(inflight[q].id) = TenantOf[inflight[q].session]
        BY DEF IntakeInv, Held
    <2>8. QED
        BY <2>2, <2>3, <2>4, <2>5, <2>6, <2>7 DEF TenantsApart
<1>2. QED
    BY <1>1, InvariantHolds, PTL

(* What a request was told is stored survives failed saves and deaths of the process.               *)
(* (OperationalRepository.commit before each return, atomicPersist.)                                *)
THEOREM AnswersAreKept == Spec => []AnsweredIsKept
<1>1. IntakeInv => AnsweredIsKept
    BY DEF IntakeInv
<1>2. QED
    BY <1>1, InvariantHolds, PTL

-----------------------------------------------------------------------------
(* Types: what the invariant leaves open. *)

RestOK ==
    /\ inflight \in [Requests -> Request \cup {None}]
    /\ acked = [stored |-> acked.stored, attested |-> acked.attested]
    /\ faults \in 0..MaxFaults

\* A handler's end changes the rest only by letting go of copies.
LEMMA WriteRest ==
    ASSUME IntakeInv, RestOK, NEW writes, NEW told, NEW rest, Released(rest),
           rest \in [Requests -> Request \cup {None}], Write(writes, told, rest)
    PROVE  RestOK'
<1>1. AllIdle \in [Requests -> Request \cup {None}]
    BY DEF AllIdle
<1>2. CASE Completed(writes, told) /\ inflight' = rest
    BY <1>2 DEF Completed, RestOK
<1>3. CASE (SaveFailed(writes) /\ inflight' = rest) \/ (Died(writes) /\ inflight' = AllIdle)
    BY <1>1, <1>3, IntakeAssumption DEF SaveFailed, Died, RestOK
<1>4. QED
    BY <1>2, <1>3 DEF Write

\* What is taken is a copy of a batch or of a unit.
LEMMA LoadRest ==
    ASSUME IntakeInv, RestOK, NEW q \in Requests, NEW s \in Sessions,
           NEW kind \in {"import", "csv", "submit", "patch"}, NEW id \in Batches \cup Units, Load(q, s, kind, id)
    PROVE  RestOK'
<1>1. data \in Dataset
    BY DEF IntakeInv, Good
<1>2. Taken(kind, id) \in Batch \cup Unit
    <2>1. CASE kind = "patch"
        BY <1>1, <2>1, DatasetFacts DEF Load, Taken
    <2>2. CASE kind # "patch"
        BY <1>1, <2>2, DatasetFacts DEF Load, Taken
    <2>3. QED
        BY <2>1, <2>2
<1>3. PICK r : r = [kind |-> kind, session |-> s, id |-> id, copy |-> Taken(kind, id)]
    OBVIOUS
<1>4. r \in Request
    BY <1>2, <1>3 DEF Request
<1>5. inflight' = [inflight EXCEPT ![q] = r] /\ acked' = acked /\ faults' = faults
    BY <1>3 DEF Load
<1>6. QED
    BY <1>4, <1>5 DEF RestOK

\* Every step is well typed.
LEMMA NextRest ==
    ASSUME IntakeInv, RestOK, [Next]_vars
    PROVE  RestOK'
<1>1. \A q \in Requests : Done(q) \in [Requests -> Request \cup {None}]
    BY DEF Done, RestOK
<1>2. inflight \in [Requests -> Request \cup {None}] /\ Released(inflight)
    BY DEF RestOK, IntakeInv, Released
<1>3. CASE Restart \/ (\E q \in Requests : Refuse(q)) \/ UNCHANGED vars
    BY <1>3, IntakeAssumption DEF Restart, Refuse, vars, AllIdle, RestOK
<1>4. CASE \E q \in Requests, s \in Sessions, kind \in {"import", "csv", "submit", "patch"},
              id \in Batches \cup Units : Load(q, s, kind, id)
    BY <1>4, LoadRest
<1>5. CASE \/ \E s \in Sessions : ReceiveLot(s)
           \/ \E s \in Sessions, b \in Batches, lots \in SUBSET Lots : CreateBatch(s, b, lots)
           \/ \E s \in Sessions, b \in Batches, links \in SentBatches : SyncBatch(s, b, links)
           \/ \E s \in Sessions, u \in Units, sent \in SentUnits : SyncUnit(s, u, sent)
    <2>1. PICK writes, told : Write(writes, told, inflight)
        BY <1>5 DEF ReceiveLot, CreateBatch, SyncBatch, SyncUnit, Synchronize
    <2>2. QED
        BY <1>2, <2>1, WriteRest
<1>6. ASSUME NEW q \in Requests,
             \/ SubmitBatch(q)
             \/ \E serials \in SUBSET Serials : ImportUnits(q, serials) \/ ImportCsv(q, serials)
             \/ \E serial \in Serials : EditUnit(q, serial)
      PROVE  RestOK'
    <2>1. PICK writes, told : Write(writes, told, Done(q))
        BY <1>6 DEF SubmitBatch, ImportUnits, ImportCsv, EditUnit
    <2>2. QED
        BY <1>1, <2>1, DoneReleases, WriteRest
<1>7. QED
    BY <1>3, <1>4, <1>5, <1>6 DEF Next

\* Every reachable state of the intake plane is well typed.
THEOREM TypeCorrect == Spec => []TypeOK
<1>1. Init => RestOK
    BY IntakeAssumption DEF Init, RestOK
<1>2. IntakeInv /\ RestOK /\ [Next]_vars => (IntakeInv /\ RestOK)'
    BY NextKeeps, NextRest
<1>3. IntakeInv /\ RestOK => TypeOK
    <2> SUFFICES ASSUME IntakeInv, RestOK PROVE TypeOK
        OBVIOUS
    <2>1. disk \in Dataset /\ data \in Dataset
        BY DEF IntakeInv, Good
    <2>2. Stored(disk) \subseteq Records
        BY <2>1, DatasetFacts DEF Stored, Records
    <2>3. acked \in [stored: SUBSET Records, attested: SUBSET Att]
        BY <2>2 DEF RestOK, IntakeInv, AnsweredIsKept
    <2>4. QED
        BY <2>1, <2>3 DEF RestOK, TypeOK
<1>4. Init => IntakeInv
    BY InitHolds
<1>5. QED
    BY <1>1, <1>2, <1>3, <1>4, PTL DEF Spec
=============================================================================
