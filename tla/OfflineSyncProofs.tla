------------------------- MODULE OfflineSyncProofs -------------------------
(***************************************************************************)
(* What the version check of the sync route guarantees for any number of   *)
(* tabs, units, sessions and concurrent flushes, and any chunk size.       *)
(***************************************************************************)
EXTENDS OfflineSync, Integers, FiniteSetTheorems, TLAPS

Queue == [Tabs -> Seq(Op)]

\* A flush under way belongs to a tab and sends operations of its queue, the place of an
\* operation shows one of the queue, and only a record there is has entries or a copy.
Shape ==
    /\ \A t \in Tabs : /\ Len(ops[t]) <= Room[t]
                       /\ \A i \in 1..Len(ops[t]) : ops[t][i].holds \in 1..Len(ops[t])
    /\ \A f \in Flights : flight[f].phase # "idle" =>
          /\ flight[f].tab \in Tabs /\ flight[f].by \in Sessions
          /\ flight[f].todo \subseteq flight[f].send
          /\ \A i \in flight[f].send : /\ i \in 1..Len(ops[flight[f].tab])
                                       /\ ops[flight[f].tab][i].kind # "media"
    /\ \A a \in Assets : server[a].version > 0 \/ (patch[a] = NoOne /\ server[a].log = <<>>)

\* Creations and updates are the operations whose version is checked.
Checked(op) == op.kind \in {"create", "update", "seeded"}

\* A tab whose copy was not set back expects versions that never go down, and its copy is
\* not behind them.
Counts(q, copies, back) ==
    \A t \in Tabs : \A i \in 1..Len(q[t]) : Checked(q[t][i]) /\ <<q[t][i].asset, t>> \notin back =>
        /\ q[t][i].expected <= copies[t][q[t][i].asset]
        /\ \A j \in 1..Len(q[t]) :
              j < i /\ Checked(q[t][j]) /\ q[t][j].asset = q[t][i].asset
                 => q[t][j].expected <= q[t][i].expected

\* The log of a record, or of a copy of one, consists of operations on the asset, and
\* those whose version was checked expected rising versions below the record's.
Of(q, id) == q[id[1]][id[2]]

RisingLog(q, r, a) ==
    \A k \in 1..Len(r.log) : r.log[k] # Elsewhere =>
        /\ r.log[k][2] \in 1..Len(q[r.log[k][1]])
        /\ Of(q, r.log[k]).asset = a
        /\ Of(q, r.log[k]).kind # "media"
        /\ Checked(Of(q, r.log[k])) =>
              /\ Of(q, r.log[k]).expected < r.version
              /\ \A l \in 1..Len(r.log) :
                    l < k /\ r.log[l] # Elsewhere /\ Checked(Of(q, r.log[l]))
                       => Of(q, r.log[l]).expected < Of(q, r.log[k]).expected

Ordered ==
    /\ Counts(ops, local, rewound)
    /\ \A a \in Assets : /\ RisingLog(ops, server[a], a)
                         /\ patch[a] # NoOne => RisingLog(ops, patch[a], a)

\* What counts as applied, in a queue or in the answers a flush holds, is stored, but where
\* the record was written back or replaced.
Entry(r, id)              == \E k \in 1..Len(r.log) : r.log[k] = id
Lost                      == {a \in Assets : torn[a] \/ <<a, Elsewhere>> \in rewound}
Stored(rows, lost, a, id) == a \in lost \/ Entry(rows[a], id)

Truthful ==
    /\ \A t \in Tabs : \A i \in 1..Len(ops[t]) :
          ops[t][i].status = "applied" => Stored(server, Lost, ops[t][i].asset, <<t, ops[t][i].holds>>)
    /\ \A f \in Flights : flight[f].phase # "idle" =>
          \A i \in flight[f].send : flight[f].verdicts[i] = "applied" =>
             Stored(server, Lost, ops[flight[f].tab][i].asset, <<flight[f].tab, i>>)

IInv == TypeOK /\ Shape /\ Ordered /\ Truthful

-----------------------------------------------------------------------------
(* Queues that only grow, but for the verdicts, and logs. *)

Extends(q, p) ==
    \A t \in Tabs : /\ Len(q[t]) <= Len(p[t])
                    /\ \A i \in 1..Len(q[t]) : /\ p[t][i].kind = q[t][i].kind
                                               /\ p[t][i].asset = q[t][i].asset
                                               /\ p[t][i].expected = q[t][i].expected

LEMMA LogElement ==
    ASSUME NEW r \in Record, NEW k \in 1..Len(r.log), r.log[k] # Elsewhere
    PROVE  r.log[k][1] \in Tabs /\ r.log[k][2] \in Nat \ {0}
<1>1. r.log \in Seq(Ids \cup {Elsewhere})
  BY DEF Record
<1>2. r.log[k] \in Ids \cup {Elsewhere}
  <2> DEFINE w == r.log
  <2>1. w \in Seq(Ids \cup {Elsewhere}) /\ k \in 1..Len(w)
    BY <1>1
  <2> HIDE DEF w
  <2>2. w[k] \in Ids \cup {Elsewhere}
    BY <2>1
  <2> QED BY <2>2 DEF w
<1> QED BY <1>2 DEF Ids

\* A log keeps its order while the queues grow.
LEMMA LogStays ==
    ASSUME NEW q \in Queue, NEW p \in Queue, Extends(q, p),
           NEW a \in Assets, NEW r \in Record, RisingLog(q, r, a)
    PROVE  RisingLog(p, r, a)
<1>1. ASSUME NEW k \in 1..Len(r.log), r.log[k] # Elsewhere
      PROVE  /\ r.log[k][2] \in 1..Len(p[r.log[k][1]])
             /\ Of(p, r.log[k]).kind = Of(q, r.log[k]).kind
             /\ Of(p, r.log[k]).asset = Of(q, r.log[k]).asset
             /\ Of(p, r.log[k]).expected = Of(q, r.log[k]).expected
  <2>1. r.log[k][1] \in Tabs /\ r.log[k][2] \in Nat \ {0}
    BY <1>1, LogElement
  <2>2. r.log[k][2] \in 1..Len(q[r.log[k][1]])
    BY <1>1 DEF RisingLog
  <2>3. Len(q[r.log[k][1]]) \in Nat /\ Len(p[r.log[k][1]]) \in Nat
    BY <2>1 DEF Queue
  <2> DEFINE u == r.log[k][1]
             n == r.log[k][2]
  <2>4. /\ n \in 1..Len(p[u])
        /\ p[u][n].kind = q[u][n].kind
        /\ p[u][n].asset = q[u][n].asset
        /\ p[u][n].expected = q[u][n].expected
    <3>1. u \in Tabs /\ n \in 1..Len(q[u]) /\ Len(q[u]) \in Nat /\ Len(p[u]) \in Nat
      BY <2>1, <2>2, <2>3
    <3> HIDE DEF u, n
    <3>2. Len(q[u]) <= Len(p[u])
      BY <3>1 DEF Extends
    <3>3. n \in 1..Len(p[u])
      BY <3>1, <3>2
    <3> QED BY <3>1, <3>3 DEF Extends
  <2> QED BY <2>4 DEF Of
<1> QED BY <1>1 DEF RisingLog, Checked

\* The write of an operation whose version was right keeps the order.
LEMMA LogGrows ==
    ASSUME NEW q \in Queue, NEW a \in Assets, NEW r \in Record, RisingLog(q, r, a),
           NEW t \in Tabs, NEW i \in 1..Len(q[t]),
           q[t][i].asset = a, q[t][i].kind # "media",
           Checked(q[t][i]) => q[t][i].expected = r.version,
           NEW s, s = [version |-> r.version + 1, log |-> Append(r.log, <<t, i>>)]
    PROVE  s \in Record /\ RisingLog(q, s, a)
<1>1. r.version \in Nat /\ r.log \in Seq(Ids \cup {Elsewhere})
  BY DEF Record
<1>2. <<t, i>> \in Ids /\ <<t, i>> # Elsewhere
  <2>1. i \in Nat \ {0}
    BY DEF Queue
  <2> QED BY <2>1, MarkAssumption DEF Ids
<1>3. s \in Record
  BY <1>1, <1>2 DEF Record
<1>4. /\ Len(s.log) = Len(r.log) + 1 /\ s.log[Len(s.log)] = <<t, i>>
      /\ \A k \in 1..Len(r.log) : s.log[k] = r.log[k]
      /\ Len(r.log) \in Nat /\ s.version = r.version + 1
  BY <1>1, <1>2
<1>5. ASSUME NEW k \in 1..Len(s.log), s.log[k] # Elsewhere
      PROVE  /\ s.log[k][2] \in 1..Len(q[s.log[k][1]])
             /\ Of(q, s.log[k]).asset = a
             /\ Of(q, s.log[k]).kind # "media"
             /\ Checked(Of(q, s.log[k])) =>
                   /\ Of(q, s.log[k]).expected < s.version
                   /\ \A l \in 1..Len(s.log) :
                         l < k /\ s.log[l] # Elsewhere /\ Checked(Of(q, s.log[l]))
                            => Of(q, s.log[l]).expected < Of(q, s.log[k]).expected
  <2>1. CASE k \in 1..Len(r.log)
    <3>1. s.log[k] = r.log[k] /\ r.log[k] # Elsewhere
      BY <1>4, <1>5, <2>1
    <3>2. r.log[k][1] \in Tabs /\ r.log[k][2] \in Nat \ {0}
      BY <2>1, <3>1, LogElement
    <3>3. r.log[k][2] \in 1..Len(q[r.log[k][1]])
      BY <2>1, <3>1 DEF RisingLog
    <3>4. Of(q, r.log[k]) \in Op
      BY <3>2, <3>3 DEF Queue, Of
    <3>5. Of(q, r.log[k]).expected \in Nat
      BY <3>4 DEF Op
    <3>6. ASSUME Checked(Of(q, r.log[k])) PROVE Of(q, r.log[k]).expected < s.version
      <4>1. Of(q, r.log[k]).expected < r.version
        BY <2>1, <3>1, <3>6 DEF RisingLog
      <4> QED BY <1>1, <1>4, <3>5, <4>1
    <3>7. ASSUME NEW l \in 1..Len(s.log), l < k
          PROVE  l \in 1..Len(r.log) /\ s.log[l] = r.log[l]
      BY <1>4, <2>1, <3>7
    <3>8. ASSUME Checked(Of(q, s.log[k])), NEW l \in 1..Len(s.log), l < k,
                 s.log[l] # Elsewhere, Checked(Of(q, s.log[l]))
          PROVE  Of(q, s.log[l]).expected < Of(q, s.log[k]).expected
      <4>1. l \in 1..Len(r.log) /\ s.log[l] = r.log[l]
        BY <3>7, <3>8
      <4> QED BY <2>1, <3>1, <3>8, <4>1 DEF RisingLog
    <3>9. Of(q, s.log[k]).asset = a /\ Of(q, s.log[k]).kind # "media"
      BY <2>1, <3>1 DEF RisingLog
    <3> QED BY <3>1, <3>3, <3>6, <3>8, <3>9
  <2>2. CASE k = Len(s.log)
    <3>1. s.log[k] = <<t, i>> /\ Of(q, s.log[k]) = q[t][i]
      BY <1>4, <2>2 DEF Of
    <3>2. ASSUME NEW l \in 1..Len(s.log), l < k, s.log[l] # Elsewhere, Checked(Of(q, s.log[l]))
          PROVE  Of(q, s.log[l]).expected < r.version
      <4>1. l \in 1..Len(r.log) /\ s.log[l] = r.log[l]
        BY <1>4, <2>2, <3>2
      <4> QED BY <3>2, <4>1 DEF RisingLog
    <3>3. s.log[k][1] = t /\ s.log[k][2] = i
      BY <3>1
    <3>4. ASSUME Checked(q[t][i]) PROVE q[t][i].expected = r.version /\ r.version < s.version
      BY <1>1, <1>4, <3>4
    <3> QED BY <3>1, <3>2, <3>3, <3>4
  <2>3. k \in 1..Len(r.log) \/ k = Len(s.log)
    BY <1>4
  <2> QED BY <2>1, <2>2, <2>3
<1> QED BY <1>3, <1>5 DEF RisingLog

\* So does a write from elsewhere, and a version that is counted without one.
LEMMA LogGrowsElsewhere ==
    ASSUME NEW q \in Queue, NEW a \in Assets, NEW r \in Record, RisingLog(q, r, a),
           NEW s, s = [version |-> r.version + 1, log |-> Append(r.log, Elsewhere)]
    PROVE  s \in Record /\ RisingLog(q, s, a)
<1>1. r.version \in Nat /\ r.log \in Seq(Ids \cup {Elsewhere})
  BY DEF Record
<1>2. s \in Record
  BY <1>1 DEF Record
<1>3. /\ Len(s.log) = Len(r.log) + 1 /\ s.log[Len(s.log)] = Elsewhere
      /\ \A k \in 1..Len(r.log) : s.log[k] = r.log[k]
      /\ Len(r.log) \in Nat /\ s.version = r.version + 1
  BY <1>1
<1>4. ASSUME NEW k \in 1..Len(s.log), s.log[k] # Elsewhere
      PROVE  /\ k \in 1..Len(r.log) /\ s.log[k] = r.log[k]
             /\ \A l \in 1..Len(s.log) : l < k => l \in 1..Len(r.log) /\ s.log[l] = r.log[l]
             /\ Of(q, r.log[k]).expected \in Nat
  <2>1. k \in 1..Len(r.log) /\ s.log[k] = r.log[k]
    BY <1>3, <1>4
  <2>2. r.log[k][1] \in Tabs /\ r.log[k][2] \in Nat \ {0}
    BY <1>4, <2>1, LogElement
  <2>3. r.log[k][2] \in 1..Len(q[r.log[k][1]])
    BY <1>4, <2>1 DEF RisingLog
  <2>4. Of(q, r.log[k]) \in Op
    BY <2>2, <2>3 DEF Queue, Of
  <2> QED BY <1>3, <2>1, <2>4 DEF Op
<1>5. ASSUME NEW k \in 1..Len(s.log), s.log[k] # Elsewhere, Checked(Of(q, s.log[k]))
      PROVE  Of(q, s.log[k]).expected < s.version
  <2>1. Of(q, s.log[k]).expected \in Nat /\ Of(q, s.log[k]).expected < r.version
    BY <1>4, <1>5 DEF RisingLog
  <2> QED BY <1>1, <1>3, <2>1
<1> QED BY SMTT(30), <1>2, <1>4, <1>5 DEF RisingLog

LEMMA LogCounted ==
    ASSUME NEW q \in Queue, NEW a \in Assets, NEW r \in Record, RisingLog(q, r, a),
           NEW s, s = [r EXCEPT !.version = @ + 1]
    PROVE  s \in Record /\ RisingLog(q, s, a) /\ s.log = r.log
<1>1. r.version \in Nat /\ r.log \in Seq(Ids \cup {Elsewhere})
  BY DEF Record
<1>2. s \in Record /\ s.log = r.log /\ s.version = r.version + 1
  BY <1>1 DEF Record
<1>3. ASSUME NEW k \in 1..Len(r.log), r.log[k] # Elsewhere
      PROVE  Of(q, r.log[k]).expected \in Nat
  <2>1. r.log[k][1] \in Tabs /\ r.log[k][2] \in Nat \ {0}
    BY <1>3, LogElement
  <2>2. r.log[k][2] \in 1..Len(q[r.log[k][1]])
    BY <1>3 DEF RisingLog
  <2>3. Of(q, r.log[k]) \in Op
    BY <2>1, <2>2 DEF Queue, Of
  <2> QED BY <2>3 DEF Op
<1>4. ASSUME NEW k \in 1..Len(s.log), s.log[k] # Elsewhere, Checked(Of(q, s.log[k]))
      PROVE  Of(q, s.log[k]).expected < s.version
  <2>1. k \in 1..Len(r.log) /\ s.log[k] = r.log[k]
    BY <1>2, <1>4
  <2>2. Of(q, r.log[k]).expected \in Nat /\ Of(q, r.log[k]).expected < r.version
    BY <1>3, <1>4, <2>1 DEF RisingLog
  <2> QED BY <1>1, <1>2, <2>1, <2>2
<1> QED BY <1>2, <1>4 DEF RisingLog

-----------------------------------------------------------------------------
(* The invariant, one lemma per kind of action. *)

\* The queue the data set may come with.
LEMMA SeedTyped ==
    ASSUME NEW a \in Assets
    PROVE  /\ Seed(a) \in Op /\ Checked(Seed(a)) /\ Seed(a).asset = a /\ Seed(a).kind # "media"
           /\ Seed(a).expected = 1 /\ Seed(a).holds = 1 /\ Seed(a).status = "queued"
           /\ <<Seed(a)>> \in Seq(Op) /\ Len(<<Seed(a)>>) = 1 /\ <<Seed(a)>>[1] = Seed(a)
<1>1. /\ Seed(a) \in Op /\ Checked(Seed(a)) /\ Seed(a).asset = a /\ Seed(a).kind # "media"
      /\ Seed(a).expected = 1 /\ Seed(a).holds = 1 /\ Seed(a).status = "queued"
  BY SubsetAssumption DEF Seed, Op, Kinds, Statuses, Checked
<1>2. PICK op : op = Seed(a)
  OBVIOUS
<1> QED BY <1>1, <1>2

\* In the beginning a queue is empty or the seeded update of an asset the tab has.
LEMMA InitQueues ==
    ASSUME Init
    PROVE  /\ ops \in Queue
           /\ \A t \in Tabs : /\ Len(ops[t]) <= 1
                              /\ \A i \in 1..Len(ops[t]) :
                                    /\ i = 1 /\ Checked(ops[t][i]) /\ ops[t][i].asset \in Assets
                                    /\ ops[t][i].kind # "media" /\ ops[t][i].expected = 1
                                    /\ ops[t][i].holds = 1 /\ ops[t][i].status = "queued"
                                    /\ local[t][ops[t][i].asset] = 1
<1>1. PICK start \in [Assets -> {0, 1}] :
          /\ local = [t \in Tabs |-> start]
          /\ server = [a \in Assets |-> [version |-> start[a], log |-> <<>>]]
  BY DEF Init
<1>2. CASE ops = [t \in Tabs |-> <<>>]
  BY <1>2 DEF Queue
<1>3. CASE \E a \in Assets : server[a].version = 1 /\ ops = [t \in Tabs |-> <<Seed(a)>>]
  <2>1. PICK a \in Assets : server[a].version = 1 /\ ops = [t \in Tabs |-> <<Seed(a)>>]
    BY <1>3
  <2>2. \A t \in Tabs : local[t][a] = 1
    BY <1>1, <2>1
  <2>3. PICK seeded : seeded = Seed(a)
    OBVIOUS
  <2>4. /\ seeded \in Op /\ Checked(seeded) /\ seeded.asset = a /\ seeded.kind # "media"
        /\ seeded.expected = 1 /\ seeded.holds = 1 /\ seeded.status = "queued"
        /\ ops = [t \in Tabs |-> <<seeded>>]
    BY <2>1, <2>3, SeedTyped
  <2>5. <<seeded>> \in Seq(Op) /\ Len(<<seeded>>) = 1 /\ <<seeded>>[1] = seeded
    BY <2>4
  <2>6. ASSUME NEW t \in Tabs, NEW i \in 1..Len(ops[t])
        PROVE  i = 1 /\ ops[t][i] = seeded
    BY <2>4, <2>5, <2>6
  <2> QED BY <2>2, <2>4, <2>5, <2>6 DEF Queue
<1> QED BY <1>2, <1>3 DEF Init

LEMMA InitInv == Init => IInv
<1> SUFFICES ASSUME Init PROVE IInv
  OBVIOUS
<1>1. TypeOK
  <2>1. PICK start \in [Assets -> {0, 1}] :
            /\ local = [t \in Tabs |-> start]
            /\ server = [a \in Assets |-> [version |-> start[a], log |-> <<>>]]
    BY DEF Init
  <2>2. Idle \in Flight
    BY DEF Idle, Flight, Statuses
  <2>3. \A a \in Assets : [version |-> start[a], log |-> <<>>] \in Record
    BY <2>1 DEF Record
  <2>4. ops \in [Tabs -> Seq(Op)]
    BY InitQueues DEF Queue
  <2> QED BY <2>1, <2>2, <2>3, <2>4 DEF Init, TypeOK
<1>2. Shape
  <2>1. ASSUME NEW t \in Tabs
        PROVE  Len(ops[t]) <= Room[t] /\ \A i \in 1..Len(ops[t]) : ops[t][i].holds \in 1..Len(ops[t])
    <3>1. Room[t] \in Nat /\ 1 <= Room[t] /\ Len(ops[t]) \in Nat /\ Len(ops[t]) <= 1
      BY BoundAssumption, InitQueues DEF Queue
    <3>2. \A i \in 1..Len(ops[t]) : i = 1 /\ ops[t][i].holds = 1
      BY InitQueues
    <3> QED BY <3>1, <3>2
  <2> QED BY <2>1 DEF Init, Shape, Idle
<1>3. Ordered
  <2>1. Counts(ops, local, rewound)
    <3>1. ASSUME NEW t \in Tabs, NEW i \in 1..Len(ops[t])
          PROVE  i = 1 /\ ops[t][i].expected = 1 /\ local[t][ops[t][i].asset] = 1
      BY InitQueues
    <3> QED BY <3>1 DEF Counts
  <2> QED BY <2>1 DEF Init, Ordered, RisingLog
<1>4. Truthful
  BY InitQueues DEF Init, Truthful, Idle
<1> QED BY <1>1, <1>2, <1>3, <1>4 DEF IInv

\* The facts of the type that the lemmas below start from.
LEMMA Typed ==
    ASSUME IInv
    PROVE  /\ ops \in Queue
           /\ \A t \in Tabs : /\ ops[t] \in Seq(Op) /\ Len(ops[t]) \in Nat
                              /\ \A i \in 1..Len(ops[t]) : ops[t][i] \in Op
           /\ \A t \in Tabs, a \in Assets : local[t][a] \in Nat
           /\ \A a \in Assets : server[a] \in Record
BY DEF IInv, TypeOK, Queue

\* A local change: the copy's version goes up and an operation is queued.
LEMMA EditInv ==
    ASSUME IInv, NEW t \in Tabs, NEW s \in Sessions, NEW a \in Assets, NEW kind \in Kinds,
           NEW e \in Nat, MayEdit(t, s), Touch(t, a), Queued(t, s, kind, a, e),
           kind \in {"create", "update", "seeded"} => e = local[t][a],
           UNCHANGED <<submitting, importing, flight, server, patch, history>>
    PROVE  IInv'
<1> DEFINE op == [kind |-> kind, asset |-> a, device |-> s, expected |-> e,
                  holds |-> Len(ops[t]) + 1, status |-> "queued"]
<1>0. /\ op \in Op /\ op.kind = kind /\ op.asset = a /\ op.expected = e /\ op.status = "queued"
      /\ op.holds = Len(ops[t]) + 1
  BY Typed DEF Op, Statuses
<1>00. UNCHANGED <<torn, rewound>>
  BY DEF history
<1>1. /\ ops'[t] = Append(ops[t], op) /\ ops' \in Queue
      /\ \A u \in Tabs : u # t => ops'[u] = ops[u]
  <2>1. ops' = [ops EXCEPT ![t] = Append(@, op)]
    BY DEF Queued
  <2>2. Append(ops[t], op) \in Seq(Op)
    BY <1>0, Typed
  <2> QED BY <2>1, <2>2, Typed DEF Queue
<1> HIDE DEF op
<1>2. /\ Len(ops'[t]) = Len(ops[t]) + 1 /\ ops'[t][Len(ops[t]) + 1] = op
      /\ \A i \in 1..Len(ops[t]) : ops'[t][i] = ops[t][i]
      /\ Len(ops[t]) \in Nat
  BY <1>0, <1>1, Typed
<1>3. ASSUME NEW u \in Tabs, NEW i \in 1..Len(ops'[u])
      PROVE  \/ i \in 1..Len(ops[u]) /\ ops'[u][i] = ops[u][i]
             \/ u = t /\ i = Len(ops[t]) + 1 /\ ops'[u][i] = op
  BY SMTT(30), <1>1, <1>2
<1>4. Extends(ops, ops')
  <2>1. ASSUME NEW u \in Tabs
        PROVE  Len(ops[u]) <= Len(ops'[u]) /\ \A i \in 1..Len(ops[u]) : ops'[u][i] = ops[u][i]
    BY SMTT(30), <1>1, <1>2, Typed
  <2> QED BY <2>1 DEF Extends
<1>5. /\ \A u \in Tabs, b \in Assets : local'[u][b] =
             IF u = t /\ b = a THEN local[t][a] + 1 ELSE local[u][b]
      /\ local' \in [Tabs -> [Assets -> Nat]]
  BY Typed DEF Touch, IInv, TypeOK
<1>6. TypeOK'
  BY <1>00, <1>1, <1>5 DEF IInv, TypeOK, Queue
<1>7. Shape'
  <2>1. ASSUME NEW u \in Tabs
        PROVE  Len(ops'[u]) <= Room[u] /\ \A i \in 1..Len(ops'[u]) : ops'[u][i].holds \in 1..Len(ops'[u])
    <3>1. Len(ops[t]) < Room[t] /\ Room[t] \in Nat
      BY BoundAssumption DEF MayEdit
    <3>2. Len(ops'[u]) <= Room[u]
      BY <1>1, <1>2, <3>1 DEF IInv, Shape
    <3>3. ASSUME NEW i \in 1..Len(ops'[u])
          PROVE  ops'[u][i].holds \in 1..Len(ops'[u])
      <4>1. CASE u # t
        BY <1>1, <3>3, <4>1 DEF IInv, Shape
      <4>2. CASE u = t /\ i \in 1..Len(ops[u]) /\ ops'[u][i] = ops[u][i]
        <5>1. ops[u][i].holds \in 1..Len(ops[u])
          BY <4>2 DEF IInv, Shape
        <5> QED BY <1>2, <4>2, <5>1
      <4>3. CASE u = t /\ i = Len(ops[t]) + 1 /\ ops'[u][i] = op
        BY <1>0, <1>2, <4>3
      <4> QED BY <1>3, <4>1, <4>2, <4>3
    <3> QED BY <3>2, <3>3
  <2>2. ASSUME NEW f \in Flights, flight[f].phase # "idle"
        PROVE  /\ flight[f].tab \in Tabs /\ flight[f].by \in Sessions
               /\ flight[f].todo \subseteq flight[f].send
               /\ \A i \in flight[f].send : /\ i \in 1..Len(ops'[flight[f].tab])
                                            /\ ops'[flight[f].tab][i].kind # "media"
    <3>1. /\ flight[f].tab \in Tabs /\ flight[f].by \in Sessions
          /\ flight[f].todo \subseteq flight[f].send
          /\ \A i \in flight[f].send : /\ i \in 1..Len(ops[flight[f].tab])
                                       /\ ops[flight[f].tab][i].kind # "media"
      BY <2>2 DEF IInv, Shape
    <3>2. /\ Len(ops[flight[f].tab]) \in Nat /\ Len(ops'[flight[f].tab]) \in Nat
          /\ Len(ops[flight[f].tab]) <= Len(ops'[flight[f].tab])
          /\ \A i \in 1..Len(ops[flight[f].tab]) :
                ops'[flight[f].tab][i].kind = ops[flight[f].tab][i].kind
      <4>1. PICK u \in Tabs : u = flight[f].tab
        BY <3>1
      <4>2. Len(ops[u]) \in Nat /\ Len(ops'[u]) \in Nat
        BY <1>1, Typed DEF Queue
      <4> QED BY <1>4, <4>1, <4>2 DEF Extends
    <3> DEFINE old == ops[flight[f].tab]
               new == ops'[flight[f].tab]
    <3>3. ASSUME NEW i \in flight[f].send
          PROVE  i \in 1..Len(new) /\ new[i].kind # "media"
      <4>1. /\ i \in 1..Len(old) /\ old[i].kind # "media" /\ new[i].kind = old[i].kind
            /\ Len(old) \in Nat /\ Len(new) \in Nat /\ Len(old) <= Len(new)
        BY <3>1, <3>2
      <4> HIDE DEF old, new
      <4> QED BY <4>1
    <3> QED BY <3>1, <3>3
  <2>3. UNCHANGED <<flight, patch, server>>
    OBVIOUS
  <2> QED BY <2>1, <2>2, <2>3 DEF IInv, Shape
<1>8. Ordered'
  <2>1. ASSUME NEW u \in Tabs, NEW i \in 1..Len(ops'[u]), Checked(ops'[u][i]),
               <<ops'[u][i].asset, u>> \notin rewound
        PROVE  /\ ops'[u][i].expected <= local'[u][ops'[u][i].asset]
               /\ \A j \in 1..Len(ops'[u]) :
                     j < i /\ Checked(ops'[u][j]) /\ ops'[u][j].asset = ops'[u][i].asset
                        => ops'[u][j].expected <= ops'[u][i].expected
    <3>1. CASE i \in 1..Len(ops[u]) /\ ops'[u][i] = ops[u][i]
      <4>1. ops[u][i] \in Op /\ ops[u][i].asset \in Assets /\ ops[u][i].expected \in Nat
        BY <3>1, Typed DEF Op
      <4>2. ops[u][i].expected <= local[u][ops[u][i].asset]
        BY <2>1, <3>1 DEF IInv, Ordered, Counts
      <4>3. ops[u][i].expected <= local'[u][ops[u][i].asset]
        <5> DEFINE b == ops[u][i].asset
        <5>1. /\ b \in Assets /\ local[u][b] \in Nat /\ local[t][a] \in Nat
              /\ local'[u][b] = IF u = t /\ b = a THEN local[t][a] + 1 ELSE local[u][b]
          BY <1>5, <4>1, Typed
        <5>2. ops[u][i].expected <= local[u][b] /\ ops[u][i].expected \in Nat
          BY <4>1, <4>2
        <5> HIDE DEF b
        <5>3. local'[u][b] = local[u][b] \/ local'[u][b] = local[u][b] + 1
          BY <5>1
        <5>4. ops[u][i].expected <= local'[u][b]
          BY <5>1, <5>2, <5>3
        <5> QED BY <5>4 DEF b
      <4>4. ASSUME NEW j \in 1..Len(ops'[u]), j < i
            PROVE  j \in 1..Len(ops[u]) /\ ops'[u][j] = ops[u][j]
        BY <1>2, <1>3, <3>1, <4>4
      <4> QED BY <2>1, <3>1, <4>3, <4>4 DEF IInv, Ordered, Counts
    <3>2. CASE u = t /\ i = Len(ops[t]) + 1 /\ ops'[u][i] = op
      <4>1. e = local[t][a] /\ local[t][a] \in Nat /\ local'[t][a] = local[t][a] + 1
        BY <1>0, <1>5, <2>1, <3>2, Typed DEF Checked
      <4>2. ASSUME NEW j \in 1..Len(ops'[u]), j < i, Checked(ops'[u][j]),
                   ops'[u][j].asset = ops'[u][i].asset
            PROVE  ops'[u][j].expected <= e
        <5>1. j \in 1..Len(ops[t]) /\ ops'[u][j] = ops[t][j]
          BY <1>2, <3>2, <4>2
        <5>2. ops[t][j].asset = a /\ <<a, t>> \notin rewound
          BY <1>0, <2>1, <3>2, <4>2, <5>1
        <5> QED BY <1>0, <3>2, <4>1, <4>2, <5>1, <5>2 DEF IInv, Ordered, Counts
      <4>3. ops'[u][i].expected = e /\ ops'[u][i].asset = a
        BY <1>0, <3>2
      <4> QED BY <3>2, <4>1, <4>2, <4>3
    <3> QED BY <1>3, <3>1, <3>2
  <2>2. ASSUME NEW b \in Assets
        PROVE  /\ RisingLog(ops', server[b], b)
               /\ patch[b] # NoOne => RisingLog(ops', patch[b], b)
    <3>1. server[b] \in Record /\ (patch[b] # NoOne => patch[b] \in Record)
      BY DEF IInv, TypeOK
    <3> QED BY <1>1, <1>4, <3>1, LogStays, Typed DEF IInv, Ordered
  <2>3. server' = server /\ patch' = patch /\ rewound' = rewound
    BY <1>00
  <2> QED BY <2>1, <2>2, <2>3 DEF Ordered, Counts
<1>9. Truthful'
  <2>1. server' = server /\ Lost' = Lost
    BY <1>00 DEF Lost
  <2>2. ASSUME NEW u \in Tabs, NEW i \in 1..Len(ops'[u]), ops'[u][i].status = "applied"
        PROVE  Stored(server, Lost, ops'[u][i].asset, <<u, ops'[u][i].holds>>)
    BY <1>0, <1>3, <2>2 DEF IInv, Truthful
  <2>3. ASSUME NEW f \in Flights, flight[f].phase # "idle", NEW i \in flight[f].send,
               flight[f].verdicts[i] = "applied"
        PROVE  Stored(server, Lost, ops'[flight[f].tab][i].asset, <<flight[f].tab, i>>)
    <3>1. flight[f].tab \in Tabs /\ i \in 1..Len(ops[flight[f].tab])
      BY <2>3 DEF IInv, Shape
    <3>2. ops'[flight[f].tab][i].asset = ops[flight[f].tab][i].asset
      BY <1>4, <3>1 DEF Extends
    <3> QED BY <2>3, <3>2 DEF IInv, Truthful
  <2>4. flight' = flight
    OBVIOUS
  <2> QED BY <2>1, <2>2, <2>3, <2>4 DEF Truthful
<1> QED BY <1>6, <1>7, <1>8, <1>9 DEF IInv

\* A step of a flush that leaves queues and records alone.
LEMMA FlightInv ==
    ASSUME IInv, NEW f \in Flights, NEW r \in Flight, flight' = [flight EXCEPT ![f] = r],
           r.phase # "idle" =>
              /\ r.tab \in Tabs /\ r.by \in Sessions /\ r.todo \subseteq r.send
              /\ \A i \in r.send :
                    /\ i \in 1..Len(ops[r.tab]) /\ ops[r.tab][i].kind # "media"
                    /\ r.verdicts[i] = "applied" =>
                          Stored(server, Lost, ops[r.tab][i].asset, <<r.tab, i>>),
           UNCHANGED <<tabVars, server, patch, history>>
    PROVE  IInv'
<1>1. /\ flight' \in [Flights -> Flight] /\ flight'[f] = r
      /\ \A g \in Flights : g # f => flight'[g] = flight[g]
  BY DEF IInv, TypeOK
<1>2. UNCHANGED <<local, ops, submitting, importing, server, patch, torn, rewound, Lost>>
  BY DEF tabVars, history, Lost
<1>3. TypeOK'
  BY <1>1, <1>2 DEF IInv, TypeOK
<1>4. Shape'
  BY <1>1, <1>2 DEF IInv, Shape
<1>5. Ordered'
  BY <1>2 DEF IInv, Ordered
<1>6. Truthful'
  BY <1>1, <1>2 DEF IInv, Truthful
<1> QED BY <1>3, <1>4, <1>5, <1>6 DEF IInv

LEMMA StartFlushInv ==
    ASSUME IInv, NEW t \in Tabs, NEW s \in Sessions, NEW f \in Flights, StartFlush(t, s, f)
    PROVE  IInv'
<1> DEFINE send == {i \in 1..Len(ops[t]) : Sendable(ops[t][i])}
           r    == [phase |-> "sent", tab |-> t, by |-> s, send |-> send, todo |-> send,
                    verdicts |-> [i \in 1..MaxOps |-> "queued"]]
<1>1. flight' = [flight EXCEPT ![f] = r]
  BY DEF StartFlush
<1>2. send \subseteq 1..MaxOps
  <2>1. Len(ops[t]) \in Nat /\ Len(ops[t]) <= Room[t] /\ Room[t] \in 0..MaxOps /\ MaxOps \in Nat
    BY BoundAssumption, Typed DEF IInv, Shape
  <2> QED BY <2>1
<1>3. [i \in 1..MaxOps |-> "queued"] \in [1..MaxOps -> Statuses]
  BY DEF Statuses
<1>4. r \in Flight
  BY <1>2, <1>3 DEF Flight
<1>5. /\ r.tab \in Tabs /\ r.by \in Sessions /\ r.todo \subseteq r.send
      /\ \A i \in r.send :
            /\ i \in 1..Len(ops[r.tab]) /\ ops[r.tab][i].kind # "media"
            /\ r.verdicts[i] # "applied"
  BY <1>2 DEF Sendable
<1> HIDE DEF r
<1> QED BY <1>1, <1>4, <1>5, FlightInv DEF StartFlush

LEMMA FailFlushInv == ASSUME IInv, NEW f \in Flights, FailFlush(f) PROVE IInv'
<1>1. Idle \in Flight /\ Idle.phase = "idle"
  BY DEF Idle, Flight, Statuses
<1> QED BY <1>1, FlightInv DEF FailFlush

\* A bounded set of numbers that is not empty has a greatest.
LEMMA GreatestIsOne ==
    ASSUME NEW n \in Nat, NEW W \in SUBSET (1..n), W # {}
    PROVE  Greatest(W) \in W
<1>1. PICK less : less = OpToRel(<, Nat)
  OBVIOUS
<1>2. IsWellFoundedOn(less, Nat)
  BY <1>1, NatLessThanWellFounded
<1>3. \A x, y \in Nat : x < y => <<x, y>> \in less
  BY <1>1 DEF OpToRel
<1>4. PICK T : T = {n - j : j \in W}
  OBVIOUS
<1>5. T \subseteq Nat /\ T # {}
  <2>1. PICK j \in W : TRUE
    OBVIOUS
  <2>2. n - j \in T
    BY <1>4
  <2> QED BY <1>4, <2>2
<1>6. PICK x \in T : \A y \in T : <<y, x>> \notin less
  BY <1>2, <1>5, WFMin
<1>7. PICK j \in W : x = n - j
  BY <1>4, <1>6
<1>8. ASSUME NEW l \in W
      PROVE  l <= j
  <2>1. n - l \in T /\ n - l \in Nat /\ x \in Nat
    BY <1>4, <1>5
  <2>2. ~(n - l < x)
    BY <2>1, <1>3, <1>6
  <2> QED BY <2>1, <2>2, <1>7
<1>9. \E g \in W : \A l \in W : l <= g
  BY <1>8
<1> QED BY <1>9 DEF Greatest

\* What a flush books in the place of an operation: an operation of the same kind on the same
\* asset, which shows one of the queue, and shows it as applied only where it is stored.
LEMMA BookedFacts ==
    ASSUME IInv, NEW f \in Flights, flight[f].phase # "idle",
           NEW t \in Tabs, t = flight[f].tab, NEW i \in 1..Len(ops[t])
    PROVE  /\ Booked(f, i) \in Op
           /\ Booked(f, i).kind = ops[t][i].kind /\ Booked(f, i).asset = ops[t][i].asset
           /\ Booked(f, i).expected = ops[t][i].expected
           /\ Booked(f, i).holds \in 1..Len(ops[t])
           /\ Booked(f, i).status = "applied" =>
                 Stored(server, Lost, ops[t][i].asset, <<t, Booked(f, i).holds>>)
<1>1. /\ t \in Tabs /\ flight[f] \in Flight
      /\ \A j \in flight[f].send : j \in 1..Len(ops[t])
  BY DEF IInv, Shape, TypeOK
<1>2. ops[t][i] \in Op /\ Len(ops[t]) \in Nat
  BY <1>1, Typed
<1>3. CASE Answers(f, i) = {}
  <2>1. Booked(f, i) = ops[t][i]
    BY <1>3 DEF Booked
  <2>2. ops[t][i].holds \in 1..Len(ops[t])
    BY <1>1 DEF IInv, Shape
  <2>3. ops[t][i].status = "applied" => Stored(server, Lost, ops[t][i].asset, <<t, ops[t][i].holds>>)
    BY <1>1 DEF IInv, Truthful
  <2> QED BY <1>2, <2>1, <2>2, <2>3
<1>4. CASE Answers(f, i) # {}
  <2>1. PICK j : j = Greatest(Answers(f, i))
    OBVIOUS
  <2>2. j \in Answers(f, i)
    <3>1. Answers(f, i) \in SUBSET (1..Len(ops[t]))
      BY <1>1 DEF Answers
    <3> QED BY <1>2, <1>4, <2>1, <3>1, GreatestIsOne
  <2>3. j \in flight[f].send /\ j \in 1..Len(ops[t]) /\ SameId(t, i, j)
    BY <1>1, <2>2 DEF Answers
  <2>4. ops[t][j].asset = ops[t][i].asset
    BY <2>3 DEF SameId
  <2>5. j \in 1..MaxOps /\ flight[f].verdicts \in [1..MaxOps -> Statuses]
    BY <1>1, <2>3 DEF Flight
  <2>6. PICK op, v : op = ops[t][i] /\ v = flight[f].verdicts[j]
    OBVIOUS
  <2>7. op \in Op /\ v \in Statuses /\ j \in Nat \ {0}
    <3>1. flight[f].verdicts[j] \in Statuses
      BY <2>5
    <3>2. j \in Nat \ {0}
      BY <1>2, <2>3
    <3> QED BY <1>2, <2>6, <3>1, <3>2
  <2>8. Booked(f, i) = [op EXCEPT !.holds = j, !.status = v]
    BY <1>4, <2>1, <2>6 DEF Booked
  <2>9. /\ Booked(f, i) \in Op /\ Booked(f, i).kind = op.kind /\ Booked(f, i).asset = op.asset
        /\ Booked(f, i).expected = op.expected /\ Booked(f, i).holds = j /\ Booked(f, i).status = v
    BY <2>7, <2>8 DEF Op
  <2>10. v = "applied" => Stored(server, Lost, ops[t][j].asset, <<t, j>>)
    BY <2>3, <2>6 DEF IInv, Truthful
  <2> QED BY <2>3, <2>4, <2>6, <2>9, <2>10
<1> QED BY <1>3, <1>4

\* Booking leaves the queues as they were but for what their places show.
LEMMA FinishFlushQueues ==
    ASSUME IInv, NEW f \in Flights, FinishFlush(f), NEW t, t = flight[f].tab
    PROVE  /\ t \in Tabs /\ ops' \in Queue
           /\ \A u \in Tabs : u # t => ops'[u] = ops[u]
           /\ \A u \in Tabs : /\ Len(ops[u]) \in Nat /\ Len(ops'[u]) = Len(ops[u])
                              /\ \A i \in 1..Len(ops[u]) : /\ ops'[u][i].kind = ops[u][i].kind
                                                           /\ ops'[u][i].asset = ops[u][i].asset
                                                           /\ ops'[u][i].expected = ops[u][i].expected
           /\ \A i \in 1..Len(ops[t]) : ops'[t][i] = Booked(f, i)
<1>1. t \in Tabs /\ flight[f].phase # "idle" /\ Len(ops[t]) \in Nat
  BY Typed DEF FinishFlush, IInv, Shape
<1>2. ops' = [ops EXCEPT ![t] = [i \in 1..Len(ops[t]) |-> Booked(f, i)]]
  BY DEF FinishFlush
<1>3. /\ ops'[t] = [i \in 1..Len(ops[t]) |-> Booked(f, i)]
      /\ \A u \in Tabs : u # t => ops'[u] = ops[u]
  BY <1>1, <1>2, Typed DEF Queue
<1>4. ASSUME NEW i \in 1..Len(ops[t])
      PROVE  /\ ops'[t][i] = Booked(f, i) /\ Booked(f, i) \in Op
             /\ Booked(f, i).kind = ops[t][i].kind
             /\ Booked(f, i).asset = ops[t][i].asset
             /\ Booked(f, i).expected = ops[t][i].expected
  <2>1. /\ Booked(f, i) \in Op
        /\ Booked(f, i).kind = ops[t][i].kind /\ Booked(f, i).asset = ops[t][i].asset
        /\ Booked(f, i).expected = ops[t][i].expected
    BY <1>1, BookedFacts
  <2> QED BY <1>3, <2>1
<1>5. ops'[t] \in Seq(Op) /\ Len(ops'[t]) = Len(ops[t])
  <2>1. ops'[t] \in [1..Len(ops[t]) -> Op]
    BY <1>3, <1>4
  <2> QED BY <1>1, <1>3, <2>1
<1>6. \A u \in Tabs : Len(ops'[u]) = Len(ops[u]) /\ Len(ops[u]) \in Nat /\ ops'[u] \in Seq(Op)
  BY <1>3, <1>5, Typed
<1>7. ops' \in Queue
  BY <1>2, <1>6, Typed DEF Queue
<1>8. ASSUME NEW u \in Tabs, NEW i \in 1..Len(ops[u])
      PROVE  /\ ops'[u][i].kind = ops[u][i].kind /\ ops'[u][i].asset = ops[u][i].asset
             /\ ops'[u][i].expected = ops[u][i].expected
  BY <1>3, <1>4
<1> QED BY <1>1, <1>3, <1>4, <1>6, <1>7, <1>8

LEMMA FinishFlushInv == ASSUME IInv, NEW f \in Flights, FinishFlush(f) PROVE IInv'
<1>1. PICK t : t = flight[f].tab
  OBVIOUS
<1>2. /\ t \in Tabs /\ flight[f].phase # "idle" /\ flight' = [flight EXCEPT ![f] = Idle]
      /\ UNCHANGED <<local, submitting, importing, server, patch, torn, rewound, Lost>>
  BY <1>1 DEF FinishFlush, IInv, Shape, history, Lost
<1>3. /\ ops' \in Queue
      /\ \A u \in Tabs : u # t => ops'[u] = ops[u]
      /\ \A u \in Tabs : /\ Len(ops[u]) \in Nat /\ Len(ops'[u]) = Len(ops[u])
                         /\ \A i \in 1..Len(ops[u]) : /\ ops'[u][i].kind = ops[u][i].kind
                                                      /\ ops'[u][i].asset = ops[u][i].asset
                                                      /\ ops'[u][i].expected = ops[u][i].expected
      /\ \A i \in 1..Len(ops[t]) : ops'[t][i] = Booked(f, i)
  BY <1>1, FinishFlushQueues
<1>4. Extends(ops, ops')
  BY <1>3 DEF Extends
<1>5. /\ flight' \in [Flights -> Flight] /\ flight'[f].phase = "idle"
      /\ \A g \in Flights : g # f => flight'[g] = flight[g]
  <2>1. Idle \in Flight /\ Idle.phase = "idle"
    BY DEF Idle, Flight, Statuses
  <2> QED BY <1>2, <2>1 DEF IInv, TypeOK
<1>6. TypeOK'
  BY <1>2, <1>3, <1>5 DEF IInv, TypeOK, Queue
<1>7. Shape'
  <2>1. ASSUME NEW u \in Tabs, NEW i \in 1..Len(ops'[u])
        PROVE  ops'[u][i].holds \in 1..Len(ops'[u])
    <3>1. CASE u = t
      <4>1. i \in 1..Len(ops[t]) /\ Len(ops'[t]) = Len(ops[t]) /\ ops'[t][i] = Booked(f, i)
        BY <1>2, <1>3, <3>1
      <4>2. Booked(f, i).holds \in 1..Len(ops[t])
        BY <1>1, <1>2, <4>1, BookedFacts
      <4> QED BY <3>1, <4>1, <4>2
    <3>2. CASE u # t
      <4>1. ops'[u] = ops[u]
        BY <1>3, <3>2
      <4> QED BY <4>1 DEF IInv, Shape
    <3> QED BY <3>1, <3>2
  <2>2. \A u \in Tabs : Len(ops'[u]) <= Room[u]
    BY <1>3 DEF IInv, Shape
  <2>3. ASSUME NEW g \in Flights, flight'[g].phase # "idle"
        PROVE  /\ flight'[g].tab \in Tabs /\ flight'[g].by \in Sessions
               /\ flight'[g].todo \subseteq flight'[g].send
               /\ \A i \in flight'[g].send : /\ i \in 1..Len(ops'[flight'[g].tab])
                                             /\ ops'[flight'[g].tab][i].kind # "media"
    BY <1>3, <1>5, <2>3 DEF IInv, Shape
  <2> QED BY <1>2, <2>1, <2>2, <2>3 DEF IInv, Shape
<1>8. Ordered'
  <2>1. Counts(ops', local, rewound)
    BY <1>3 DEF IInv, Ordered, Counts, Checked
  <2>2. ASSUME NEW b \in Assets
        PROVE  /\ RisingLog(ops', server[b], b)
               /\ patch[b] # NoOne => RisingLog(ops', patch[b], b)
    <3>1. server[b] \in Record /\ (patch[b] # NoOne => patch[b] \in Record)
      BY DEF IInv, TypeOK
    <3> QED BY <1>3, <1>4, <3>1, LogStays, Typed DEF IInv, Ordered
  <2> QED BY <1>2, <2>1, <2>2 DEF Ordered
<1>9. Truthful'
  <2>1. ASSUME NEW u \in Tabs, NEW i \in 1..Len(ops'[u]), ops'[u][i].status = "applied"
        PROVE  Stored(server, Lost, ops'[u][i].asset, <<u, ops'[u][i].holds>>)
    <3>1. i \in 1..Len(ops[u]) /\ ops'[u][i].asset = ops[u][i].asset
      BY <1>3
    <3>2. CASE u = t
      <4>1. ops'[u][i] = Booked(f, i)
        BY <1>3, <3>1, <3>2
      <4> QED BY <1>1, <1>2, <2>1, <3>1, <3>2, <4>1, BookedFacts
    <3>3. CASE u # t
      <4>1. ops'[u] = ops[u]
        BY <1>3, <3>3
      <4> QED BY <2>1, <4>1 DEF IInv, Truthful
    <3> QED BY <3>2, <3>3
  <2>2. ASSUME NEW g \in Flights, flight'[g].phase # "idle", NEW i \in flight'[g].send,
               flight'[g].verdicts[i] = "applied"
        PROVE  Stored(server, Lost, ops'[flight'[g].tab][i].asset, <<flight'[g].tab, i>>)
    <3>1. g # f /\ flight'[g] = flight[g]
      BY <1>5, <2>2
    <3>2. flight[g].tab \in Tabs /\ i \in 1..Len(ops[flight[g].tab])
      BY <2>2, <3>1 DEF IInv, Shape
    <3>3. ops'[flight[g].tab][i].asset = ops[flight[g].tab][i].asset
      BY <1>3, <3>2
    <3> QED BY <2>2, <3>1, <3>3 DEF IInv, Truthful
  <2> QED BY <1>2, <2>1, <2>2 DEF Truthful
<1> QED BY <1>6, <1>7, <1>8, <1>9 DEF IInv

\* A step of the server on its records: the queues stay, the records that change are in
\* order again, and what was stored stays stored.
LEMMA RecordsInv ==
    ASSUME IInv, ops' = ops, local' = local, submitting' \in [Tabs -> BOOLEAN],
           importing' \in [Tabs -> Import \cup {NoOne}],
           rewound' \subseteq Assets \X (Tabs \cup {Elsewhere}), rewound \subseteq rewound',
           flight' \in [Flights -> Flight], server' \in [Assets -> Record],
           patch' \in [Assets -> Record \cup {NoOne}], torn' \in [Assets -> BOOLEAN],
           Shape',
           \A a \in Assets : /\ RisingLog(ops, server'[a], a)
                             /\ patch'[a] # NoOne => RisingLog(ops, patch'[a], a),
           \A a \in Assets, id \in Ids :
              Stored(server, Lost, a, id) => Stored(server', Lost', a, id),
           \A f \in Flights : flight'[f].phase # "idle" =>
              \A i \in flight'[f].send : flight'[f].verdicts[i] = "applied" =>
                 Stored(server', Lost', ops[flight'[f].tab][i].asset, <<flight'[f].tab, i>>)
    PROVE  IInv'
<1>1. TypeOK'
  BY DEF IInv, TypeOK
<1>2. Ordered'
  BY DEF IInv, Ordered, Counts
<1>3. Truthful'
  <2>1. ASSUME NEW t \in Tabs, NEW i \in 1..Len(ops[t]), ops[t][i].status = "applied"
        PROVE  Stored(server', Lost', ops[t][i].asset, <<t, ops[t][i].holds>>)
    <3>1. ops[t][i] \in Op /\ <<t, ops[t][i].holds>> \in Ids
      BY Typed DEF Op, Ids
    <3>2. ops[t][i].asset \in Assets
      BY <3>1 DEF Op
    <3>3. Stored(server, Lost, ops[t][i].asset, <<t, ops[t][i].holds>>)
      BY <2>1 DEF IInv, Truthful
    <3> QED BY <3>1, <3>2, <3>3
  <2> QED BY <2>1 DEF Truthful
<1> QED BY <1>1, <1>2, <1>3 DEF IInv

\* A record that applied one more operation is a record.
LEMMA AppliedTyped ==
    ASSUME NEW r \in Record, NEW id \in Ids
    PROVE  [version |-> r.version + 1, log |-> Append(r.log, id)] \in Record
<1>1. r.version \in Nat /\ r.log \in Seq(Ids \cup {Elsewhere})
  BY DEF Record
<1> DEFINE v == r.version
           l == r.log
<1>2. v \in Nat /\ l \in Seq(Ids \cup {Elsewhere})
  BY <1>1
<1> HIDE DEF v, l
<1>3. v + 1 \in Nat
  BY <1>2
<1>4. Append(l, id) \in Seq(Ids \cup {Elsewhere})
  BY <1>2
<1>5. [version |-> v + 1, log |-> Append(l, id)] \in Record
  BY <1>3, <1>4 DEF Record
<1> QED BY <1>5 DEF v, l

\* An entry that is appended leaves the others.
LEMMA EntryStays ==
    ASSUME NEW r \in Record, NEW x \in Ids \cup {Elsewhere}, NEW v, NEW id,
           NEW s, s = [version |-> v, log |-> Append(r.log, x)]
    PROVE  Entry(s, x) /\ (Entry(r, id) => Entry(s, id))
<1>1. r.log \in Seq(Ids \cup {Elsewhere})
  BY DEF Record
<1>2. /\ Len(s.log) = Len(r.log) + 1 /\ s.log[Len(s.log)] = x /\ Len(r.log) \in Nat
      /\ \A k \in 1..Len(r.log) : s.log[k] = r.log[k]
  BY <1>1
<1> QED BY <1>2 DEF Entry

\* What a flush holds about the other operations is as true as before.
LEMMA HeldStays ==
    ASSUME IInv, NEW f \in Flights, flight[f].phase # "idle", NEW i \in flight[f].send,
           flight[f].verdicts[i] = "applied"
    PROVE  /\ ops[flight[f].tab][i].asset \in Assets /\ <<flight[f].tab, i>> \in Ids
           /\ Stored(server, Lost, ops[flight[f].tab][i].asset, <<flight[f].tab, i>>)
<1>1. flight[f].tab \in Tabs /\ i \in 1..Len(ops[flight[f].tab])
  BY DEF IInv, Shape
<1>2. ops[flight[f].tab][i] \in Op /\ <<flight[f].tab, i>> \in Ids
  BY <1>1, Typed DEF Ids
<1> QED BY <1>2 DEF Op, IInv, Truthful

LEMMA ServeInv == ASSUME IInv, NEW f \in Flights, Serve(f) PROVE IInv'
<1>1. PICK i \in flight[f].todo :
          LET t       == flight[f].tab
              op      == ops[t][i]
              a       == op.asset
              verdict == Verdict(op, flight[f].by, server[a].version)
              todo    == flight[f].todo \ {i}
          IN  \/ /\ Throws(op, flight[f].by)
                 /\ flight' = [flight EXCEPT ![f] = Idle]
                 /\ UNCHANGED server
              \/ /\ ~Throws(op, flight[f].by)
                 /\ verdict = "applied" => server[a].version <= MaxVersion
                 /\ server' = IF verdict = "applied"
                              THEN [server EXCEPT ![a] = [version |-> @.version + 1,
                                                          log |-> Append(@.log, <<t, i>>)]]
                              ELSE server
                 /\ \/ flight' = [flight EXCEPT ![f].phase = Phase(f, todo),
                                                ![f].todo = todo, ![f].verdicts[i] = verdict]
                    \/ verdict # "failed" /\ flight' = [flight EXCEPT ![f] = Idle]
  BY DEF Serve
<1> DEFINE t       == flight[f].tab
           op      == ops[t][i]
           a       == op.asset
           verdict == Verdict(op, flight[f].by, server[a].version)
           todo    == flight[f].todo \ {i}
           w       == [version |-> server[a].version + 1, log |-> Append(server[a].log, <<t, i>>)]
<1>2. UNCHANGED <<local, ops, submitting, importing, patch, torn, rewound, Lost>>
  BY DEF Serve, tabVars, history, Lost
<1>3. /\ flight[f].phase # "idle" /\ flight[f] \in Flight /\ t \in Tabs
      /\ i \in flight[f].send /\ i \in 1..Len(ops[t]) /\ op.kind # "media"
      /\ flight[f].todo \subseteq flight[f].send /\ i \in 1..MaxOps
      /\ flight[f].by \in Sessions
  BY DEF Serve, IInv, Shape, TypeOK, Flight
<1>4. op \in Op /\ a \in Assets /\ server[a] \in Record /\ <<t, i>> \in Ids
  BY <1>3, Typed DEF Op, Ids
<1>5. verdict \in {"failed", "conflict", "applied"}
  BY DEF Verdict
<1>6. verdict = "applied" /\ Checked(op) => op.expected = server[a].version
  BY DEF Verdict, Checked
<1>7. \/ server' = server
      \/ verdict = "applied" /\ server' = [server EXCEPT ![a] = w]
  BY <1>1
<1>8. w \in Record /\ (verdict = "applied" => RisingLog(ops, w, a))
  <2>1. RisingLog(ops, server[a], a) /\ ops \in Queue
    BY <1>4, Typed DEF IInv, Ordered
  <2>2. ASSUME verdict = "applied" PROVE RisingLog(ops, w, a)
    <3> DEFINE r == server[a]
    <3>1. /\ r \in Record /\ RisingLog(ops, r, a) /\ a \in Assets /\ t \in Tabs
          /\ i \in 1..Len(ops[t]) /\ ops[t][i].asset = a /\ ops[t][i].kind # "media"
          /\ Checked(ops[t][i]) => ops[t][i].expected = r.version
          /\ w = [version |-> r.version + 1, log |-> Append(r.log, <<t, i>>)]
      BY <1>3, <1>4, <1>6, <2>1, <2>2
    <3> HIDE DEF r, w, a, t, op, verdict
    <3> QED BY <2>1, <3>1, LogGrows
  <2>3. w \in Record
    <3> DEFINE r  == server[a]
               id == <<t, i>>
    <3>1. r \in Record /\ id \in Ids /\ w = [version |-> r.version + 1, log |-> Append(r.log, id)]
      BY <1>4
    <3> HIDE DEF r, id, w
    <3> QED BY <3>1, AppliedTyped
  <2> QED BY <2>2, <2>3
<1>9. server' \in [Assets -> Record]
  BY <1>4, <1>7, <1>8 DEF IInv, TypeOK
<1>10. ASSUME NEW b \in Assets PROVE RisingLog(ops, server'[b], b)
  <2>1. RisingLog(ops, server[b], b)
    BY DEF IInv, Ordered
  <2>2. CASE server' = server
    BY <2>1, <2>2
  <2>3. CASE verdict = "applied" /\ server' = [server EXCEPT ![a] = w]
    <3>1. server'[b] = IF b = a THEN w ELSE server[b]
      BY <1>4, <2>3 DEF IInv, TypeOK
    <3> HIDE DEF w, a, verdict
    <3> QED BY <1>8, <2>1, <2>3, <3>1
  <2> QED BY <1>7, <2>2, <2>3
<1>11. \A b \in Assets, id \in Ids :
           Stored(server, Lost, b, id) => Stored(server', Lost, b, id)
  <2> SUFFICES ASSUME NEW b \in Assets, NEW id \in Ids, Stored(server, Lost, b, id)
               PROVE  Stored(server', Lost, b, id)
    OBVIOUS
  <2>1. CASE server'[b] = server[b]
    BY <2>1 DEF Stored
  <2>2. CASE b = a /\ server'[a] = w
    <3>1. Entry(server[a], id) => Entry(w, id)
      <4> DEFINE r == server[a]
                 e == <<t, i>>
                 n == r.version + 1
      <4>1. r \in Record /\ e \in Ids /\ w = [version |-> n, log |-> Append(r.log, e)]
        BY <1>4
      <4> HIDE DEF r, w, e, n
      <4>2. Entry(r, id) => Entry(w, id)
        BY <4>1, EntryStays
      <4> QED BY <4>2 DEF r
    <3> HIDE DEF w, a
    <3> QED BY <2>2, <3>1 DEF Stored
  <2>3. server' = [server EXCEPT ![a] = w] => server'[b] = IF b = a THEN w ELSE server[b]
    <3>1. server \in [Assets -> Record] /\ a \in Assets
      BY <1>4 DEF IInv, TypeOK
    <3> HIDE DEF w, a
    <3> QED BY <3>1
  <2> HIDE DEF w, a
  <2> QED BY <1>7, <2>1, <2>2, <2>3
<1>12. server' = [server EXCEPT ![a] = w] => Stored(server', Lost, a, <<t, i>>)
  <2>1. Entry(w, <<t, i>>)
    <3> DEFINE r == server[a]
               id == <<t, i>>
    <3>1. /\ r \in Record /\ id \in Ids \cup {Elsewhere}
          /\ w = [version |-> r.version + 1, log |-> Append(r.log, id)]
      BY <1>4
    <3> HIDE DEF r, w, id
    <3>2. Entry(w, id)
      BY <3>1, EntryStays
    <3> QED BY <3>2 DEF id
  <2>2. server' = [server EXCEPT ![a] = w] => server'[a] = w
    BY <1>4 DEF IInv, TypeOK
  <2> QED BY <2>1, <2>2 DEF Stored
<1> DEFINE x == flight[f]
           y == flight'[f]
           v == verdict
<1>13. \/ y = Idle
       \/ /\ \E phase \in {"answered", "sent", "serving"} :
                y = [x EXCEPT !.phase = phase, !.todo = todo, !.verdicts[i] = v]
          /\ v = "applied" => server' = [server EXCEPT ![a] = w]
  <2>1. flight \in [Flights -> Flight]
    BY DEF IInv, TypeOK
  <2>2. CASE flight' = [flight EXCEPT ![f] = Idle]
    BY <2>1, <2>2
  <2>3. CASE /\ flight' = [flight EXCEPT ![f].phase = Phase(f, todo), ![f].todo = todo,
                                         ![f].verdicts[i] = v]
             /\ v = "applied" => server' = [server EXCEPT ![a] = w]
    <3>1. Phase(f, todo) \in {"answered", "sent", "serving"}
      BY DEF Phase
    <3> HIDE DEF v, todo, w, a
    <3>2. y = [x EXCEPT !.phase = Phase(f, todo), !.todo = todo, !.verdicts[i] = v]
      BY <2>1, <2>3
    <3> HIDE DEF x, y
    <3> QED BY <2>3, <3>1, <3>2
  <2> QED BY <1>1, <2>2, <2>3
<1>14. \A g \in Flights : g # f => flight'[g] = flight[g]
  BY <1>1 DEF IInv, TypeOK
<1>15. /\ y \in Flight
       /\ \/ y.phase = "idle"
          \/ /\ y.tab = x.tab /\ y.by = x.by /\ y.send = x.send
             /\ y.todo \subseteq x.todo
             /\ \A j \in 1..MaxOps :
                   \/ y.verdicts[j] = x.verdicts[j]
                   \/ /\ j = i /\ y.verdicts[j] = v
                      /\ v = "applied" => server' = [server EXCEPT ![a] = w]
  <2>1. x \in Flight /\ i \in 1..MaxOps /\ v \in Statuses /\ todo \subseteq x.todo
    BY <1>3, <1>5 DEF Statuses
  <2> HIDE DEF x, y, v, todo, w
  <2>2. CASE y = Idle
    BY <2>2 DEF Idle, Flight, Statuses
  <2>3. CASE /\ \E phase \in {"answered", "sent", "serving"} :
                   y = [x EXCEPT !.phase = phase, !.todo = todo, !.verdicts[i] = v]
             /\ v = "applied" => server' = [server EXCEPT ![a] = w]
    <3>1. x.verdicts \in [1..MaxOps -> Statuses] /\ todo \in SUBSET (1..MaxOps)
      BY <2>1 DEF Flight
    <3> DEFINE n == [x.verdicts EXCEPT ![i] = v]
    <3>2. n \in [1..MaxOps -> Statuses] /\ \A j \in 1..MaxOps : n[j] = IF j = i THEN v ELSE x.verdicts[j]
      BY <2>1, <3>1
    <3>3. PICK phase \in {"answered", "sent", "serving"} :
             y = [x EXCEPT !.phase = phase, !.todo = todo, !.verdicts = n]
      BY <2>3
    <3> HIDE DEF n
    <3>4. /\ y \in Flight /\ y.tab = x.tab /\ y.by = x.by /\ y.send = x.send
          /\ y.todo = todo /\ y.verdicts = n
      BY <2>1, <3>1, <3>2, <3>3 DEF Flight
    <3> QED BY <2>1, <2>3, <3>2, <3>4
  <2> QED BY <1>13, <2>2, <2>3
<1>16. flight' \in [Flights -> Flight]
  <2>1. \A g \in Flights : flight'[g] \in Flight
    BY <1>14, <1>15 DEF IInv, TypeOK
  <2>2. flight' = [g \in Flights |-> flight'[g]]
    BY <1>1 DEF IInv, TypeOK
  <2> QED BY <2>1, <2>2
<1>17. Shape'
  <2>1. ASSUME NEW g \in Flights, flight'[g].phase # "idle"
        PROVE  /\ flight'[g].tab \in Tabs /\ flight'[g].by \in Sessions
               /\ flight'[g].todo \subseteq flight'[g].send
               /\ \A j \in flight'[g].send : /\ j \in 1..Len(ops[flight'[g].tab])
                                             /\ ops[flight'[g].tab][j].kind # "media"
    <3>1. CASE g # f
      BY <1>14, <2>1, <3>1 DEF IInv, Shape
    <3>2. CASE g = f
      BY <1>3, <1>15, <2>1, <3>2 DEF IInv, Shape
    <3> QED BY <3>1, <3>2
  <2>2. ASSUME NEW b \in Assets
        PROVE  server'[b] = server[b] \/ server'[b].version > 0
    <3>1. server[a].version \in Nat
      BY <1>4 DEF Record
    <3>2. w.version = server[a].version + 1
      OBVIOUS
    <3>3. server'[b] = server[b] \/ (b = a /\ server'[b] = w)
      BY <1>4, <1>7 DEF IInv, TypeOK
    <3> HIDE DEF w
    <3> QED BY <3>1, <3>2, <3>3
  <2> QED BY <1>2, <2>1, <2>2 DEF IInv, Shape
<1>18. ASSUME NEW g \in Flights, flight'[g].phase # "idle", NEW j \in flight'[g].send,
              flight'[g].verdicts[j] = "applied"
       PROVE  Stored(server', Lost, ops[flight'[g].tab][j].asset, <<flight'[g].tab, j>>)
  <2>1. CASE g # f
    <3>1. flight'[g] = flight[g]
      BY <1>14, <2>1
    <3> QED BY <1>11, <1>18, <3>1, HeldStays
  <2>2. CASE g = f
    <3>1. j \in x.send /\ j \in 1..MaxOps /\ y.phase # "idle"
      BY <1>3, <1>15, <1>18, <2>2 DEF Flight
    <3>2. CASE y.verdicts[j] = x.verdicts[j]
      <4>1. x.verdicts[j] = "applied"
        BY <1>18, <2>2, <3>2
      <4>2. Stored(server', Lost, ops[x.tab][j].asset, <<x.tab, j>>)
        BY <1>3, <1>11, <3>1, <4>1, HeldStays
      <4> QED BY <1>15, <2>2, <3>1, <4>2
    <3>3. CASE j = i /\ y.verdicts[j] = v /\ (v = "applied" => server' = [server EXCEPT ![a] = w])
      <4>1. Stored(server', Lost, a, <<t, i>>)
        BY <1>12, <1>18, <2>2, <3>3
      <4> QED BY <1>15, <2>2, <3>1, <3>3, <4>1
    <3> QED BY <1>15, <3>1, <3>2, <3>3
  <2> QED BY <2>1, <2>2
<1>19. /\ patch' \in [Assets -> Record \cup {NoOne}] /\ torn' \in [Assets -> BOOLEAN]
       /\ submitting' \in [Tabs -> BOOLEAN] /\ importing' \in [Tabs -> Import \cup {NoOne}]
       /\ rewound' \subseteq Assets \X (Tabs \cup {Elsewhere}) /\ rewound \subseteq rewound'
       /\ ops' = ops /\ local' = local /\ Lost' = Lost
       /\ \A b \in Assets : patch'[b] # NoOne => RisingLog(ops, patch'[b], b)
  BY <1>2 DEF IInv, TypeOK, Ordered
<1> QED BY <1>9, <1>10, <1>11, <1>16, <1>17, <1>18, <1>19, RecordsInv

LEMMA ReadForPatchInv == ASSUME IInv, NEW a \in Assets, ReadForPatch(a) PROVE IInv'
<1>1. /\ patch' = [patch EXCEPT ![a] = server[a]]
      /\ UNCHANGED <<local, ops, submitting, importing, flight, server, torn, rewound, Lost>>
      /\ server[a].version > 0
  BY DEF ReadForPatch, tabVars, history, Lost
<1>2. TypeOK'
  BY <1>1 DEF IInv, TypeOK
<1>3. Shape'
  BY <1>1 DEF IInv, Shape, TypeOK
<1>4. Ordered'
  BY <1>1 DEF IInv, Ordered, TypeOK
<1>5. Truthful'
  BY <1>1 DEF IInv, Truthful
<1> QED BY <1>2, <1>3, <1>4, <1>5 DEF IInv

LEMMA WritePatchInv == ASSUME IInv, NEW a \in Assets, WritePatch(a) PROVE IInv'
<1> DEFINE r == patch[a]
           w == [version |-> r.version + 1, log |-> Append(r.log, Elsewhere)]
<1>1. /\ r # NoOne /\ server' = [server EXCEPT ![a] = w]
      /\ torn' = [torn EXCEPT ![a] = @ \/ patch[a] # server[a]]
      /\ patch' = [patch EXCEPT ![a] = NoOne]
      /\ UNCHANGED <<local, ops, submitting, importing, flight, rewound>>
  BY DEF WritePatch, tabVars
<1>2. r \in Record /\ RisingLog(ops, r, a) /\ ops \in Queue
  BY <1>1, Typed DEF IInv, TypeOK, Ordered
<1>3. w \in Record /\ RisingLog(ops, w, a)
  <2>1. w = [version |-> r.version + 1, log |-> Append(r.log, Elsewhere)]
    OBVIOUS
  <2> HIDE DEF r, w
  <2> QED BY <1>2, <2>1, LogGrowsElsewhere
<1>4. \A id : Entry(r, id) => Entry(w, id)
  <2> DEFINE n == r.version + 1
             e == Elsewhere
  <2>1. /\ w = [version |-> n, log |-> Append(r.log, e)]
        /\ e \in Ids \cup {Elsewhere} /\ r \in Record
    BY <1>2
  <2> HIDE DEF r, w, n, e
  <2>2. ASSUME NEW id PROVE Entry(r, id) => Entry(w, id)
    BY <2>1, EntryStays
  <2> QED BY <2>2
<1>5. /\ server' \in [Assets -> Record] /\ patch' \in [Assets -> Record \cup {NoOne}]
      /\ torn' \in [Assets -> BOOLEAN]
  BY <1>1, <1>3 DEF IInv, TypeOK
<1>6. ASSUME NEW b \in Assets
      PROVE  RisingLog(ops, server'[b], b) /\ (patch'[b] # NoOne => RisingLog(ops, patch'[b], b))
  <2>1. /\ server'[b] = IF b = a THEN w ELSE server[b]
        /\ patch'[b] = IF b = a THEN NoOne ELSE patch[b]
    BY <1>1 DEF IInv, TypeOK
  <2> HIDE DEF w
  <2> QED BY <1>3, <2>1 DEF IInv, Ordered
<1>7. ASSUME NEW b \in Assets, NEW id \in Ids, Stored(server, Lost, b, id)
      PROVE  Stored(server', Lost', b, id)
  <2>1. /\ server'[b] = IF b = a THEN w ELSE server[b]
        /\ b # a => (b \in Lost' <=> b \in Lost)
        /\ a \in Lost' <=> a \in Lost \/ r # server[a]
    BY <1>1 DEF IInv, TypeOK, Lost
  <2>2. CASE b # a
    BY <1>7, <2>1, <2>2 DEF Stored
  <2>3. CASE b = a /\ (a \in Lost \/ r # server[a])
    BY <2>1, <2>3 DEF Stored
  <2>4. CASE b = a /\ a \notin Lost /\ r = server[a]
    <3>1. Entry(r, id)
      BY <1>7, <2>4 DEF Stored
    <3>2. Entry(w, id)
      BY <1>4, <3>1
    <3> HIDE DEF w
    <3> QED BY <2>1, <2>4, <3>2 DEF Stored
  <2> QED BY <2>2, <2>3, <2>4
<1>8. Shape'
  <2>1. ASSUME NEW b \in Assets
        PROVE  server'[b].version > 0 \/ (patch'[b] = NoOne /\ server'[b].log = <<>>)
    <3>1. CASE b # a
      <4>1. patch'[b] = patch[b] /\ server'[b] = server[b]
        BY <1>1, <3>1 DEF IInv, TypeOK
      <4> QED BY <4>1 DEF IInv, Shape
    <3>2. CASE b = a
      <4>1. server'[a].version = r.version + 1 /\ r.version \in Nat
        BY <1>1, <1>2 DEF IInv, TypeOK, Record
      <4> QED BY <3>2, <4>1
    <3> QED BY <3>1, <3>2
  <2> QED BY <1>1, <2>1 DEF IInv, Shape
<1>9. ASSUME NEW f \in Flights, flight'[f].phase # "idle", NEW i \in flight'[f].send,
             flight'[f].verdicts[i] = "applied"
      PROVE  Stored(server', Lost', ops[flight'[f].tab][i].asset, <<flight'[f].tab, i>>)
  <2>1. flight' = flight
    BY <1>1
  <2> QED BY <1>7, <1>9, <2>1, HeldStays
<1>10. /\ submitting' \in [Tabs -> BOOLEAN] /\ importing' \in [Tabs -> Import \cup {NoOne}]
       /\ rewound' \subseteq Assets \X (Tabs \cup {Elsewhere}) /\ rewound \subseteq rewound'
       /\ flight' \in [Flights -> Flight] /\ ops' = ops /\ local' = local
  BY <1>1 DEF IInv, TypeOK
<1> HIDE DEF r, w
<1> QED BY <1>5, <1>6, <1>7, <1>8, <1>9, <1>10, RecordsInv

\* A step that stores new records and nothing else of what the invariant speaks of, but
\* perhaps the record of what was set back.
LEMMA StoreInv ==
    ASSUME IInv, UNCHANGED <<local, ops, flight, patch, torn>>,
           submitting' \in [Tabs -> BOOLEAN], importing' \in [Tabs -> Import \cup {NoOne}],
           rewound' \subseteq Assets \X (Tabs \cup {Elsewhere}), rewound \subseteq rewound',
           server' = [a \in Assets |-> server'[a]],
           \A a \in Assets :
              /\ server'[a] \in Record /\ RisingLog(ops, server'[a], a)
              /\ server'[a] = server[a] \/ server'[a].version > 0
              /\ server'[a].log = server[a].log \/ <<a, Elsewhere>> \in rewound'
                    \/ (server[a].version = 0 /\ server[a].log = <<>>)
    PROVE  IInv'
<1>1. server' \in [Assets -> Record]
  OBVIOUS
<1>2. ASSUME NEW a \in Assets, NEW id \in Ids, Stored(server, Lost, a, id)
      PROVE  Stored(server', Lost', a, id)
  <2>1. a \in Lost => a \in Lost'
    BY DEF Lost
  <2>2. CASE server'[a].log = server[a].log
    BY <1>2, <2>1, <2>2 DEF Stored, Entry
  <2>3. CASE <<a, Elsewhere>> \in rewound'
    BY <2>3 DEF Stored, Lost
  <2>4. CASE server[a].log = <<>>
    BY <1>2, <2>1, <2>4 DEF Stored, Entry
  <2> QED BY <2>2, <2>3, <2>4
<1>3. ASSUME NEW f \in Flights, flight'[f].phase # "idle", NEW i \in flight'[f].send,
             flight'[f].verdicts[i] = "applied"
      PROVE  Stored(server', Lost', ops[flight'[f].tab][i].asset, <<flight'[f].tab, i>>)
  BY <1>2, <1>3, HeldStays
<1>4. Shape'
  BY DEF IInv, Shape
<1>5. /\ flight' \in [Flights -> Flight] /\ ops' = ops /\ local' = local
      /\ torn' \in [Assets -> BOOLEAN] /\ patch' \in [Assets -> Record \cup {NoOne}]
      /\ \A a \in Assets : patch'[a] # NoOne => RisingLog(ops, patch'[a], a)
  BY DEF IInv, TypeOK, Ordered
<1> QED BY <1>1, <1>2, <1>3, <1>4, <1>5, RecordsInv

LEMMA AcceptSubmitInv == ASSUME IInv, NEW t \in Tabs, AcceptSubmit(t) PROVE IInv'
<1>1. /\ server' = [a \in Assets |-> IF server[a].version = 0 THEN server[a]
                                     ELSE [server[a] EXCEPT !.version = @ + 1]]
      /\ submitting' = [submitting EXCEPT ![t] = FALSE]
      /\ UNCHANGED <<local, ops, importing, flight, patch, torn, rewound>>
  BY DEF AcceptSubmit, history
<1>2. ASSUME NEW a \in Assets
      PROVE  /\ server'[a] \in Record /\ RisingLog(ops, server'[a], a)
             /\ server'[a].log = server[a].log
             /\ server'[a] = server[a] \/ server'[a].version > 0
  <2>1. PICK r, w : r = server[a] /\ w = [r EXCEPT !.version = @ + 1]
    OBVIOUS
  <2>2. r \in Record /\ RisingLog(ops, r, a) /\ ops \in Queue
    BY <2>1, Typed DEF IInv, Ordered
  <2>3. server'[a] = r \/ server'[a] = w
    BY <1>1, <2>1
  <2>4. w \in Record /\ RisingLog(ops, w, a) /\ w.log = r.log
    BY <2>1, <2>2, LogCounted
  <2>5. w.version > 0
    <3>1. w.version = r.version + 1 /\ r.version \in Nat
      BY <2>1, <2>2 DEF Record
    <3> QED BY <3>1
  <2>6. PICK rows : rows = server'
    OBVIOUS
  <2>7. rows[a] = r \/ rows[a] = w
    BY <2>3, <2>6
  <2>8. rows[a] \in Record /\ RisingLog(ops, rows[a], a) /\ rows[a].log = r.log
    BY <2>2, <2>4, <2>7
  <2>9. rows[a] = r \/ rows[a].version > 0
    BY <2>5, <2>7
  <2> QED BY <2>1, <2>6, <2>8, <2>9
<1>3. /\ submitting' \in [Tabs -> BOOLEAN] /\ importing' \in [Tabs -> Import \cup {NoOne}]
      /\ rewound' \subseteq Assets \X (Tabs \cup {Elsewhere})
      /\ server' = [a \in Assets |-> server'[a]]
  BY <1>1 DEF IInv, TypeOK
<1> QED BY <1>1, <1>2, <1>3, StoreInv

LEMMA ReceiveEvidenceInv == ASSUME IInv, NEW a \in Assets, ReceiveEvidence(a) PROVE IInv'
<1>1. PICK r, w : r = server[a] /\ w = [r EXCEPT !.version = @ + 1]
  OBVIOUS
<1>2. /\ server' = [server EXCEPT ![a] = w]
      /\ UNCHANGED <<local, ops, submitting, importing, flight, patch, torn, rewound>>
  BY <1>1 DEF ReceiveEvidence, tabVars, history
<1>3. r \in Record /\ RisingLog(ops, r, a) /\ ops \in Queue
  BY <1>1, Typed DEF IInv, Ordered
<1>4. w \in Record /\ RisingLog(ops, w, a) /\ w.log = r.log /\ w.version > 0
  <2>1. w.version = r.version + 1 /\ r.version \in Nat
    BY <1>1, <1>3 DEF Record
  <2> QED BY <1>1, <1>3, <2>1, LogCounted
<1>5. ASSUME NEW b \in Assets
      PROVE  /\ server'[b] \in Record /\ RisingLog(ops, server'[b], b)
             /\ server'[b].log = server[b].log
             /\ server'[b] = server[b] \/ server'[b].version > 0
  <2>1. server'[b] = IF b = a THEN w ELSE server[b]
    BY <1>2 DEF IInv, TypeOK
  <2> QED BY <1>1, <1>4, <2>1, Typed DEF IInv, Ordered
<1>6. /\ submitting' \in [Tabs -> BOOLEAN] /\ importing' \in [Tabs -> Import \cup {NoOne}]
      /\ rewound' \subseteq Assets \X (Tabs \cup {Elsewhere})
      /\ server' = [b \in Assets |-> server'[b]]
  BY <1>2 DEF IInv, TypeOK
<1> QED BY <1>2, <1>5, <1>6, StoreInv

\* A record of version 1 that an import stores: it is in order whatever the queues are, and
\* a record that was not there had no entries.
LEMMA ImportedRecord ==
    ASSUME NEW q, NEW a, NEW w, w = [version |-> 1, log |-> <<Elsewhere>>]
    PROVE  w \in Record /\ RisingLog(q, w, a) /\ w.version > 0
<1>1. w.version = 1 /\ w.log = <<Elsewhere>> /\ Len(w.log) = 1 /\ w.log[1] = Elsewhere
  OBVIOUS
<1>2. <<Elsewhere>> \in Seq(Ids \cup {Elsewhere})
  OBVIOUS
<1>3. w \in Record
  BY <1>2 DEF Record
<1>4. \A k \in 1..Len(w.log) : w.log[k] = Elsewhere
  BY <1>1
<1> QED BY <1>1, <1>3, <1>4 DEF RisingLog

LEMMA ImportAssetInv == ASSUME IInv, NEW a \in Assets, ImportAsset(a) PROVE IInv'
<1>1. PICK w : w = [version |-> 1, log |-> <<Elsewhere>>]
  OBVIOUS
<1>2. /\ server' = [server EXCEPT ![a] = w]
      /\ rewound' = IF server[a].version = 0 THEN rewound ELSE rewound \cup {<<a, Elsewhere>>}
      /\ UNCHANGED <<local, ops, submitting, importing, flight, patch, torn>>
  BY <1>1 DEF ImportAsset, tabVars
<1>3. w \in Record /\ RisingLog(ops, w, a) /\ w.version > 0
  BY <1>1, ImportedRecord
<1>4. ASSUME NEW b \in Assets
      PROVE  /\ server'[b] \in Record /\ RisingLog(ops, server'[b], b)
             /\ server'[b] = server[b] \/ server'[b].version > 0
             /\ server'[b].log = server[b].log \/ <<b, Elsewhere>> \in rewound'
                   \/ (server[b].version = 0 /\ server[b].log = <<>>)
  <2>1. server'[b] = IF b = a THEN w ELSE server[b]
    BY <1>2 DEF IInv, TypeOK
  <2> QED BY <1>2, <1>3, <2>1, Typed DEF IInv, Ordered, Shape, Record
<1>5. /\ submitting' \in [Tabs -> BOOLEAN] /\ importing' \in [Tabs -> Import \cup {NoOne}]
      /\ server' = [b \in Assets |-> server'[b]]
  BY <1>2 DEF IInv, TypeOK
<1>6. rewound' \subseteq Assets \X (Tabs \cup {Elsewhere}) /\ rewound \subseteq rewound'
  <2>1. rewound \subseteq Assets \X (Tabs \cup {Elsewhere})
    BY DEF IInv, TypeOK
  <2>2. rewound' \subseteq rewound \cup {<<a, Elsewhere>>} /\ rewound \subseteq rewound'
    BY <1>2
  <2> QED BY <2>1, <2>2
<1> QED BY <1>2, <1>4, <1>5, <1>6, StoreInv

LEMMA StoreImportInv == ASSUME IInv, NEW t \in Tabs, StoreImport(t) PROVE IInv'
<1>1. PICK a : a = importing[t].asset
  OBVIOUS
<1>2. importing[t] \in Import /\ a \in Assets
  BY <1>1 DEF StoreImport, IInv, TypeOK, Import
<1>3. /\ importing' = [importing EXCEPT ![t].stored = TRUE]
      /\ UNCHANGED <<local, ops, submitting, flight, patch, torn>>
  BY DEF StoreImport
<1>4. [importing[t] EXCEPT !.stored = TRUE] \in Import
  BY <1>2 DEF Import
<1>5. /\ submitting' \in [Tabs -> BOOLEAN] /\ importing' \in [Tabs -> Import \cup {NoOne}]
  BY <1>3, <1>4 DEF IInv, TypeOK
<1>6. PICK r, w : r = server[a] /\ r \in Record /\ RisingLog(ops, r, a)
                  /\ w = [version |-> 1, log |-> <<Elsewhere>>]
  BY <1>2, Typed DEF IInv, Ordered
<1>7. CASE r.version = 0 /\ server' = [server EXCEPT ![a].version = 1] /\ UNCHANGED rewound
  <2>1. PICK v : v = [r EXCEPT !.version = @ + 1]
    OBVIOUS
  <2>2. v \in Record /\ RisingLog(ops, v, a) /\ v.log = r.log
    BY <1>2, <1>6, <2>1, Typed, LogCounted
  <2>3. v = [r EXCEPT !.version = 1] /\ v.version = 1
    BY <1>6, <1>7, <2>1 DEF Record
  <2>4. server' = [server EXCEPT ![a] = v]
    BY <1>6, <1>7, <2>3
  <2>5. ASSUME NEW b \in Assets
        PROVE  /\ server'[b] \in Record /\ RisingLog(ops, server'[b], b)
               /\ server'[b].log = server[b].log
               /\ server'[b] = server[b] \/ server'[b].version > 0
    <3>1. server'[b] = IF b = a THEN v ELSE server[b]
      BY <2>4 DEF IInv, TypeOK
    <3> QED BY <1>6, <2>2, <2>3, <3>1, Typed DEF IInv, Ordered
  <2>6. rewound' \subseteq Assets \X (Tabs \cup {Elsewhere}) /\ server' = [b \in Assets |-> server'[b]]
    BY <1>7, <2>4 DEF IInv, TypeOK
  <2> QED BY <1>3, <1>5, <1>7, <2>5, <2>6, StoreInv
<1>8. CASE /\ server' = [server EXCEPT ![a] = w] /\ rewound' = rewound \cup {<<a, Elsewhere>>}
  <2>1. w \in Record /\ RisingLog(ops, w, a) /\ w.version > 0
    BY <1>6, ImportedRecord
  <2>2. ASSUME NEW b \in Assets
        PROVE  /\ server'[b] \in Record /\ RisingLog(ops, server'[b], b)
               /\ server'[b].log = server[b].log \/ <<b, Elsewhere>> \in rewound'
               /\ server'[b] = server[b] \/ server'[b].version > 0
    <3>1. server'[b] = IF b = a THEN w ELSE server[b]
      BY <1>8 DEF IInv, TypeOK
    <3> QED BY <1>8, <2>1, <3>1, Typed DEF IInv, Ordered
  <2>3. rewound' \subseteq Assets \X (Tabs \cup {Elsewhere}) /\ rewound \subseteq rewound'
    <3>1. rewound \subseteq Assets \X (Tabs \cup {Elsewhere})
      BY DEF IInv, TypeOK
    <3> QED BY <1>2, <1>8, <3>1
  <2>4. server' = [b \in Assets |-> server'[b]]
    BY <1>8 DEF IInv, TypeOK
  <2> QED BY <1>3, <1>5, <2>2, <2>3, <2>4, StoreInv
<1> QED BY <1>1, <1>6, <1>7, <1>8 DEF StoreImport

\* The steps in a tab that only begin or end a submission or an import.
LEMMA TabInv ==
    ASSUME IInv, NEW t \in Tabs,
           \/ FailSubmit(t) \/ FailImport(t)
           \/ \E s \in Sessions : StartSubmit(t, s) \/ \E a \in Assets : StartImport(t, s, a)
    PROVE  IInv'
<1>1. /\ UNCHANGED <<local, ops, flight, server, patch, torn, rewound, Lost>>
      /\ submitting' \in [Tabs -> BOOLEAN] /\ importing' \in [Tabs -> Import \cup {NoOne}]
  <2>0. submitting \in [Tabs -> BOOLEAN] /\ importing \in [Tabs -> Import \cup {NoOne}]
    BY DEF IInv, TypeOK
  <2>1. CASE \E s \in Sessions : StartSubmit(t, s)
    BY <2>0, <2>1 DEF StartSubmit, history, Lost
  <2>2. CASE \E s \in Sessions, a \in Assets : StartImport(t, s, a)
    <3>1. PICK a \in Assets : importing' = [importing EXCEPT ![t] = [asset |-> a, stored |-> FALSE]]
      BY <2>2 DEF StartImport
    <3>2. [asset |-> a, stored |-> FALSE] \in Import
      BY DEF Import
    <3>3. UNCHANGED <<local, ops, submitting, flight, server, patch, torn, rewound, Lost>>
      BY <2>2 DEF StartImport, history, Lost
    <3> QED BY <2>0, <3>1, <3>2, <3>3
  <2>3. CASE FailSubmit(t)
    BY <2>0, <2>3 DEF FailSubmit, history, Lost
  <2>4. CASE FailImport(t)
    BY <2>0, <2>4 DEF FailImport, history, Lost
  <2> QED BY <2>1, <2>2, <2>3, <2>4
<1>2. TypeOK'
  BY <1>1 DEF IInv, TypeOK
<1>3. Shape'
  BY <1>1 DEF IInv, Shape
<1>4. Ordered'
  BY <1>1 DEF IInv, Ordered
<1>5. Truthful'
  BY <1>1 DEF IInv, Truthful
<1> QED BY <1>2, <1>3, <1>4, <1>5 DEF IInv

\* The records of an answer take the place of the tab's copies: a copy is set back, or it is
\* the first, and then the tab has expected no version yet.
LEMMA FinishImportInv == ASSUME IInv, NEW t \in Tabs, FinishImport(t) PROVE IInv'
<1>1. PICK a : a = importing[t].asset
  OBVIOUS
<1>2. a \in Assets
  BY <1>1 DEF FinishImport, IInv, TypeOK, Import
<1>3. /\ local' = [local EXCEPT ![t][a] = 1]
      /\ rewound' = IF local[t][a] = 0 THEN rewound ELSE rewound \cup {<<a, t>>}
      /\ importing' = [importing EXCEPT ![t] = NoOne]
      /\ UNCHANGED <<ops, submitting, flight, server, patch, torn>>
  BY <1>1 DEF FinishImport
<1>4. /\ local' \in [Tabs -> [Assets -> Nat]]
      /\ \A u \in Tabs, b \in Assets : local'[u][b] = IF u = t /\ b = a THEN 1 ELSE local[u][b]
  BY <1>2, <1>3 DEF IInv, TypeOK
<1>5. rewound' \subseteq Assets \X (Tabs \cup {Elsewhere}) /\ rewound \subseteq rewound'
  BY <1>2, <1>3 DEF IInv, TypeOK
<1>6. Lost' = Lost
  <2>1. t # Elsewhere
    BY MarkAssumption
  <2>2. \A b : <<b, Elsewhere>> \in rewound' <=> <<b, Elsewhere>> \in rewound
    BY <1>3, <2>1
  <2> QED BY <1>3, <2>2 DEF Lost
<1>7. TypeOK'
  BY <1>3, <1>4, <1>5 DEF IInv, TypeOK
<1>8. Shape'
  BY <1>3 DEF IInv, Shape
<1>9. Counts(ops, local', rewound')
  <2>1. ASSUME NEW u \in Tabs, NEW i \in 1..Len(ops[u]), Checked(ops[u][i]),
               <<ops[u][i].asset, u>> \notin rewound'
        PROVE  ops[u][i].expected <= local'[u][ops[u][i].asset]
    <3>1. PICK b, x : b = ops[u][i].asset /\ x = ops[u][i].expected
      OBVIOUS
    <3>2. ops[u][i] \in Op
      BY Typed
    <3>3. b \in Assets /\ x \in Nat
      BY <3>1, <3>2 DEF Op
    <3>4. x <= local[u][b]
      BY <1>5, <2>1, <3>1 DEF IInv, Ordered, Counts
    <3>5. CASE u = t /\ b = a
      <4>1. local[t][a] = 0
        BY <1>3, <2>1, <3>1, <3>5
      <4> QED BY <1>4, <3>1, <3>3, <3>4, <3>5, <4>1
    <3>6. CASE ~(u = t /\ b = a)
      BY <1>4, <3>1, <3>3, <3>4, <3>6
    <3> QED BY <3>5, <3>6
  <2> QED BY <1>5, <2>1 DEF IInv, Ordered, Counts
<1>10. Ordered'
  BY <1>3, <1>9 DEF IInv, Ordered
<1>11. Truthful'
  BY <1>3, <1>6 DEF IInv, Truthful
<1> QED BY <1>7, <1>8, <1>10, <1>11 DEF IInv

\* The four local changes; a file captured again only touches its asset.
LEMMA LocalInv ==
    ASSUME IInv, NEW t \in Tabs, NEW s \in Sessions, NEW a \in Assets,
           \/ AddAsset(t, s, a) \/ UpdateAsset(t, s, a)
           \/ AddEvidence(t, s, a) \/ AddEvidenceFile(t, s, a)
    PROVE  IInv'
<1>1. local[t][a] \in Nat
  BY Typed
<1>2. CASE AddAsset(t, s, a)
  BY <1>1, <1>2, EditInv DEF AddAsset, Kinds
<1>3. CASE UpdateAsset(t, s, a)
  BY <1>1, <1>3, EditInv DEF UpdateAsset, Kinds
<1>4. CASE AddEvidence(t, s, a)
  BY <1>4, EditInv DEF AddEvidence, Kinds
<1>5. CASE AddEvidenceFile(t, s, a)
  <2>1. CASE Queued(t, s, "media", a, 0)
    BY <1>5, <2>1, EditInv DEF AddEvidenceFile, Kinds
  <2>2. CASE UNCHANGED ops
    <3>1. /\ UNCHANGED <<ops, submitting, importing, flight, server, patch, torn, rewound, Lost>>
          /\ local' \in [Tabs -> [Assets -> Nat]]
          /\ \A u \in Tabs, b \in Assets : local'[u][b] \in {local[u][b], local[u][b] + 1}
      BY <1>5, <2>2, Typed DEF AddEvidenceFile, Touch, IInv, TypeOK, history, Lost
    <3>2. ASSUME NEW u \in Tabs, NEW i \in 1..Len(ops[u]), Checked(ops[u][i]),
                 <<ops[u][i].asset, u>> \notin rewound
          PROVE  ops[u][i].expected <= local'[u][ops[u][i].asset]
      <4> DEFINE e == ops[u][i].expected
                 b == ops[u][i].asset
      <4>1. e \in Nat /\ b \in Assets /\ e <= local[u][b]
        BY <3>2, Typed DEF Op, IInv, Ordered, Counts
      <4>2. local[u][b] \in Nat
        BY <4>1, Typed
      <4>3. local'[u][b] = local[u][b] \/ local'[u][b] = local[u][b] + 1
        BY <3>1, <4>1
      <4> DEFINE x == local[u][b]
                 y == local'[u][b]
      <4>4. e \in Nat /\ x \in Nat /\ e <= x /\ (y = x \/ y = x + 1)
        BY <4>1, <4>2, <4>3
      <4> HIDE DEF e, b, x, y
      <4>5. e <= y
        BY <4>4
      <4> QED BY <4>5 DEF e, b, y
    <3>3. Ordered'
      BY <3>1, <3>2 DEF IInv, Ordered, Counts
    <3>4. TypeOK'
      BY <3>1 DEF IInv, TypeOK
    <3>5. Shape'
      BY <3>1 DEF IInv, Shape
    <3>6. Truthful'
      BY <3>1 DEF IInv, Truthful
    <3> QED BY <3>3, <3>4, <3>5, <3>6 DEF IInv
  <2> QED BY <1>5, <2>1, <2>2 DEF AddEvidenceFile
<1> QED BY <1>2, <1>3, <1>4, <1>5

LEMMA StutterInv == IInv /\ UNCHANGED vars => IInv'
<1> SUFFICES ASSUME IInv, UNCHANGED vars PROVE IInv'
  OBVIOUS
<1>1. UNCHANGED <<local, ops, submitting, importing, flight, server, patch, torn, rewound, Lost>>
  BY DEF vars, Lost
<1> QED BY <1>1 DEF IInv, TypeOK, Shape, Ordered, Truthful

LEMMA NextInv == IInv /\ [Next]_vars => IInv'
<1> SUFFICES ASSUME IInv, Next PROVE IInv'
  BY StutterInv
<1>1. ASSUME NEW t \in Tabs,
             \/ AcceptSubmit(t) \/ FailSubmit(t)
             \/ StoreImport(t) \/ FinishImport(t) \/ FailImport(t)
      PROVE  IInv'
  BY <1>1, AcceptSubmitInv, StoreImportInv, FinishImportInv, TabInv
<1>2. ASSUME NEW t \in Tabs, NEW s \in SessionsIn[t],
             \/ \E a \in Assets : \/ AddAsset(t, s, a) \/ UpdateAsset(t, s, a)
                                  \/ AddEvidence(t, s, a) \/ AddEvidenceFile(t, s, a)
                                  \/ StartImport(t, s, a)
             \/ \E f \in Flights : StartFlush(t, s, f)
             \/ StartSubmit(t, s)
      PROVE  IInv'
  <2>1. s \in Sessions
    BY SubsetAssumption
  <2> QED BY <1>2, <2>1, LocalInv, StartFlushInv, TabInv
<1>3. ASSUME NEW f \in Flights, FinishFlush(f) \/ FailFlush(f) \/ Serve(f)
      PROVE  IInv'
  BY <1>3, FinishFlushInv, FailFlushInv, ServeInv
<1>4. ASSUME NEW a \in Assets,
             ReadForPatch(a) \/ WritePatch(a) \/ ReceiveEvidence(a) \/ ImportAsset(a)
      PROVE  IInv'
  BY <1>4, ReadForPatchInv, WritePatchInv, ReceiveEvidenceInv, ImportAssetInv
<1> QED BY <1>1, <1>2, <1>3, <1>4 DEF Next

LEMMA Invariance == Spec => []IInv
BY InitInv, NextInv, PTL DEF Spec

-----------------------------------------------------------------------------
(* What a record consists of, counted.  from is the version a record began with: that of the *)
(* data set, or the one a CSV import gave a record that was not there.  Every write counts    *)
(* the record's version up, so a version bounds the length of the log, unless an import       *)
(* replaces the record; a tab counts the version of its copy up with each of its own          *)
(* operations, and an import only sets it back to the first, so the version an update expects *)
(* is the number of them at most.  An update is applied when the two meet: then the log holds *)
(* nothing but the tab's own operations.                                                      *)

\* Those of the first n operations that concern the asset.
Early(queue, a, n) == {j \in 1..n : queue[j].asset = a}

\* A file captured again counts the copy up without an operation, but only after the
\* operation of the first capture, which is never sent.
NoMedia(queue, a, n) == \A j \in Early(queue, a, n) : queue[j].kind # "media"

CopiesCounted(q, copies, from) ==
    \A t \in Tabs, a \in Assets :
        /\ NoMedia(q[t], a, Len(q[t])) =>
              copies[t][a] <= from[a] + Cardinality(Early(q[t], a, Len(q[t])))
        /\ \A i \in 1..Len(q[t]) :
              q[t][i].asset = a /\ Checked(q[t][i]) /\ NoMedia(q[t], a, i - 1) =>
                 q[t][i].expected <= from[a] + Cardinality(Early(q[t], a, i - 1))

RecordCounted(q, r, from) ==
    /\ from + Len(r.log) <= r.version
    /\ \A k \in 1..Len(r.log) : r.log[k] # Elsewhere /\ Checked(Of(q, r.log[k])) =>
          from + k - 1 <= Of(q, r.log[k]).expected

Replaced(a) == <<a, Elsewhere>> \in rewound

Counted(from) ==
    /\ CopiesCounted(ops, local, from)
    /\ \A t \in Tabs : importing[t] # NoOne /\ importing[t].stored => from[importing[t].asset] = 1
    /\ \A a \in Assets : ~Replaced(a) =>
          /\ RecordCounted(ops, server[a], from[a])
          /\ patch[a] # NoOne => RecordCounted(ops, patch[a], from[a])

CInv == IInv /\ \E from \in [Assets -> {0, 1}] : Counted(from)

\* The operations of a queue that concern an asset are finitely many, and one more when
\* one more of them is queued.
LEMMA EarlyCounts ==
    ASSUME NEW queue, NEW a, NEW n \in Nat
    PROVE  /\ IsFiniteSet(Early(queue, a, n)) /\ Cardinality(Early(queue, a, n)) \in Nat
           /\ queue[n + 1].asset = a =>
                 Cardinality(Early(queue, a, n + 1)) = Cardinality(Early(queue, a, n)) + 1
           /\ queue[n + 1].asset # a => Early(queue, a, n + 1) = Early(queue, a, n)
<1>1. PICK S : S = Early(queue, a, n)
  OBVIOUS
<1>2. IsFiniteSet(1..n) /\ S \subseteq 1..n
  BY <1>1, FS_Interval DEF Early
<1>3. IsFiniteSet(S) /\ Cardinality(S) \in Nat
  BY <1>2, FS_Subset, FS_CardinalityType
<1>4. queue[n + 1].asset = a => Early(queue, a, n + 1) = S \cup {n + 1}
  BY <1>1 DEF Early
<1>5. queue[n + 1].asset # a => Early(queue, a, n + 1) = S
  BY <1>1 DEF Early
<1>6. n + 1 \notin S
  BY <1>2
<1>7. Cardinality(S \cup {n + 1}) = Cardinality(S) + 1
  BY <1>3, <1>6, FS_AddElement
<1> QED BY <1>1, <1>3, <1>4, <1>5, <1>7

\* Queues that agree on their first n operations have the same of them.
LEMMA EarlyAgrees ==
    ASSUME NEW q, NEW p, NEW a, NEW n \in Nat,
           \A j \in 1..n : p[j].asset = q[j].asset /\ p[j].kind = q[j].kind
    PROVE  Early(p, a, n) = Early(q, a, n) /\ (NoMedia(p, a, n) <=> NoMedia(q, a, n))
<1>1. Early(p, a, n) = Early(q, a, n)
  BY DEF Early
<1>2. \A j \in Early(q, a, n) : p[j].kind = q[j].kind
  BY DEF Early
<1> QED BY <1>1, <1>2 DEF NoMedia

\* A record that stays is counted as before while the queues grow.
LEMMA RecordStays ==
    ASSUME NEW q \in Queue, NEW p \in Queue, Extends(q, p), NEW a \in Assets, NEW r \in Record,
           RisingLog(q, r, a), NEW from, RecordCounted(q, r, from)
    PROVE  RecordCounted(p, r, from)
<1>1. ASSUME NEW k \in 1..Len(r.log), r.log[k] # Elsewhere
      PROVE  /\ Of(p, r.log[k]).kind = Of(q, r.log[k]).kind
             /\ Of(p, r.log[k]).expected = Of(q, r.log[k]).expected
  <2>1. PICK u, n : u = r.log[k][1] /\ n = r.log[k][2]
    OBVIOUS
  <2>2. u \in Tabs /\ n \in 1..Len(q[u])
    BY <1>1, <2>1, LogElement DEF RisingLog
  <2> QED BY <2>1, <2>2 DEF Of, Extends
<1> QED BY <1>1 DEF RecordCounted, Checked

\* A write counts its record up; an operation whose version was checked finds as many
\* writes before it as that version counts, at most.
LEMMA RecordGrows ==
    ASSUME NEW q, NEW r \in Record, NEW from \in Nat, RecordCounted(q, r, from),
           NEW x \in Ids \cup {Elsewhere},
           x # Elsewhere /\ Checked(Of(q, x)) => Of(q, x).expected = r.version,
           NEW s, s = [version |-> r.version + 1, log |-> Append(r.log, x)]
    PROVE  RecordCounted(q, s, from)
<1>1. r.version \in Nat /\ r.log \in Seq(Ids \cup {Elsewhere})
  BY DEF Record
<1>2. /\ Len(s.log) = Len(r.log) + 1 /\ s.log[Len(s.log)] = x
      /\ \A k \in 1..Len(r.log) : s.log[k] = r.log[k]
      /\ Len(r.log) \in Nat /\ s.version = r.version + 1
  BY <1>1
<1>3. from + Len(r.log) <= r.version
  BY DEF RecordCounted
<1>4. ASSUME NEW k \in 1..Len(s.log), s.log[k] # Elsewhere, Checked(Of(q, s.log[k]))
      PROVE  from + k - 1 <= Of(q, s.log[k]).expected
  <2>1. CASE k \in 1..Len(r.log)
    <3>1. s.log[k] = r.log[k]
      BY <1>2, <2>1
    <3> QED BY <1>4, <2>1, <3>1 DEF RecordCounted
  <2>2. CASE k \notin 1..Len(r.log)
    <3>1. k = Len(r.log) + 1 /\ s.log[k] = x
      BY <1>2, <2>2
    <3>2. Of(q, s.log[k]).expected = r.version
      BY <1>4, <3>1
    <3> QED BY <1>1, <1>2, <1>3, <3>1, <3>2
  <2> QED BY <2>1, <2>2
<1>5. from + Len(s.log) <= s.version
  BY <1>1, <1>2, <1>3
<1> QED BY <1>4, <1>5 DEF RecordCounted

\* A version that is counted up without a write only gives more room.
LEMMA RecordRaised ==
    ASSUME NEW q, NEW r \in Record, NEW from \in Nat, RecordCounted(q, r, from),
           NEW s, s = [r EXCEPT !.version = @ + 1]
    PROVE  RecordCounted(q, s, from)
<1>1. r.version \in Nat /\ Len(r.log) \in Nat /\ s.log = r.log /\ s.version = r.version + 1
  BY DEF Record
<1> QED BY <1>1 DEF RecordCounted

\* Records of the server and of the PATCH routes that each are counted again, queues,
\* copies and imports as they were.
LEMMA RecordsCounted ==
    ASSUME NEW from, Counted(from), UNCHANGED <<ops, local, importing>>, rewound \subseteq rewound',
           \A a \in Assets : ~Replaced(a) =>
              /\ RecordCounted(ops, server'[a], from[a])
              /\ patch'[a] # NoOne => RecordCounted(ops, patch'[a], from[a])
    PROVE  Counted(from)'
BY DEF Counted, Replaced

\* In the beginning: no operations but perhaps the seeded one, no writes.
LEMMA InitCounts == Init => CInv
<1> SUFFICES ASSUME Init PROVE CInv
  OBVIOUS
<1>1. PICK start \in [Assets -> {0, 1}] :
         /\ local = [t \in Tabs |-> start]
         /\ server = [a \in Assets |-> [version |-> start[a], log |-> <<>>]]
  BY DEF Init
<1>2. CopiesCounted(ops, local, start)
  <2>1. ASSUME NEW t \in Tabs, NEW a \in Assets
        PROVE  /\ local[t][a] <= start[a] + Cardinality(Early(ops[t], a, Len(ops[t])))
               /\ \A i \in 1..Len(ops[t]) : ops[t][i].asset = a =>
                     ops[t][i].expected <= start[a] + Cardinality(Early(ops[t], a, i - 1))
    <3>1. local[t][a] = start[a] /\ start[a] \in Nat /\ Len(ops[t]) \in Nat
      BY <1>1, InitQueues DEF Queue
    <3>2. \A n \in Nat : Cardinality(Early(ops[t], a, n)) \in Nat
      BY EarlyCounts
    <3>3. ASSUME NEW i \in 1..Len(ops[t]), ops[t][i].asset = a
          PROVE  i = 1 /\ ops[t][i].expected = 1 /\ start[a] = 1
      BY <1>1, <3>3, InitQueues
    <3>4. ASSUME NEW i \in 1..Len(ops[t]), ops[t][i].asset = a
          PROVE  ops[t][i].expected <= start[a] + Cardinality(Early(ops[t], a, i - 1))
      <4>1. i - 1 \in Nat
        OBVIOUS
      <4>2. PICK c : c = Cardinality(Early(ops[t], a, i - 1))
        OBVIOUS
      <4>3. c \in Nat
        BY <3>2, <4>1, <4>2
      <4>4. ops[t][i].expected <= start[a] + c
        BY <3>3, <3>4, <4>3
      <4> QED BY <4>2, <4>4
    <3>5. local[t][a] <= start[a] + Cardinality(Early(ops[t], a, Len(ops[t])))
      <4>1. PICK c : c = Cardinality(Early(ops[t], a, Len(ops[t])))
        OBVIOUS
      <4>2. c \in Nat
        BY <3>1, <3>2, <4>1
      <4>3. local[t][a] <= start[a] + c
        BY <3>1, <4>2
      <4> QED BY <4>1, <4>3
    <3> QED BY <3>4, <3>5
  <2> QED BY <2>1 DEF CopiesCounted
<1>3. ASSUME NEW a \in Assets
      PROVE  RecordCounted(ops, server[a], start[a]) /\ patch[a] = NoOne
  <2>1. /\ server[a] = [version |-> start[a], log |-> <<>>] /\ patch[a] = NoOne
        /\ start[a] \in Nat
    BY <1>1 DEF Init
  <2>2. server[a].log = <<>> /\ Len(server[a].log) = 0 /\ server[a].version = start[a]
    BY <2>1
  <2> QED BY <2>1, <2>2 DEF RecordCounted
<1>4. \A t \in Tabs : importing[t] = NoOne
  BY DEF Init
<1>5. Counted(start)
  BY <1>2, <1>3, <1>4 DEF Counted
<1> QED BY <1>5, InitInv DEF CInv

\* A local change: the copy and the tab's operations on the asset are counted up together.
LEMMA EditCounts ==
    ASSUME IInv, NEW start \in [Assets -> {0, 1}], Counted(start),
           NEW t \in Tabs, NEW s \in Sessions, NEW a \in Assets, NEW kind \in Kinds,
           NEW e \in Nat, Touch(t, a), Queued(t, s, kind, a, e),
           kind \in {"create", "update", "seeded"} => e = local[t][a],
           UNCHANGED <<server, patch, importing, rewound>>
    PROVE  Counted(start)'
<1>1. PICK op : op = [kind |-> kind, asset |-> a, device |-> s, expected |-> e,
                  holds |-> Len(ops[t]) + 1, status |-> "queued"]
  OBVIOUS
<1>2. op \in Op /\ op.kind = kind /\ op.asset = a /\ op.expected = e
  BY <1>1, Typed DEF Op, Statuses
<1>3. PICK n : n = Len(ops[t])
  OBVIOUS
<1>4. n \in Nat /\ ops[t] \in Seq(Op)
  BY <1>3, Typed
<1>5. /\ ops' \in Queue /\ ops'[t] = Append(ops[t], op)
      /\ \A u \in Tabs : u # t => ops'[u] = ops[u]
  <2>1. ops' = [ops EXCEPT ![t] = Append(@, op)]
    BY <1>1 DEF Queued
  <2>2. Append(ops[t], op) \in Seq(Op)
    BY <1>2, <1>4
  <2> QED BY <2>1, <2>2, Typed DEF Queue
<1>6. /\ Len(ops'[t]) = n + 1 /\ ops'[t][n + 1] = op
      /\ \A i \in 1..n : ops'[t][i] = ops[t][i]
  BY <1>2, <1>3, <1>4, <1>5
<1>7. Extends(ops, ops')
  <2>1. ASSUME NEW u \in Tabs
        PROVE  Len(ops[u]) <= Len(ops'[u]) /\ \A i \in 1..Len(ops[u]) : ops'[u][i] = ops[u][i]
    <3>1. CASE u = t
      BY <3>1, <1>3, <1>4, <1>6
    <3>2. CASE u # t
      <4>1. ops'[u] = ops[u]
        BY <1>5, <3>2
      <4>2. Len(ops[u]) \in Nat
        BY Typed
      <4> QED BY <4>1, <4>2
    <3> QED BY <3>1, <3>2
  <2> QED BY <2>1 DEF Extends
<1>8. \A u \in Tabs, b \in Assets :
         local'[u][b] = IF u = t /\ b = a THEN local[t][a] + 1 ELSE local[u][b]
  BY Typed DEF Touch, IInv, TypeOK
<1>9. \A b \in Assets, m \in 0..n : /\ Early(ops'[t], b, m) = Early(ops[t], b, m)
                                    /\ NoMedia(ops'[t], b, m) <=> NoMedia(ops[t], b, m)
  <2>1. ASSUME NEW b \in Assets, NEW m \in 0..n
        PROVE  /\ Early(ops'[t], b, m) = Early(ops[t], b, m)
               /\ NoMedia(ops'[t], b, m) <=> NoMedia(ops[t], b, m)
    <3>1. m \in Nat /\ \A j \in 1..m : j \in 1..n
      BY <1>4
    <3>2. \A j \in 1..m : ops'[t][j] = ops[t][j]
      BY <3>1, <1>6
    <3>3. PICK q, r : q = ops[t] /\ r = ops'[t]
      OBVIOUS
    <3>4. \A j \in 1..m : r[j] = q[j]
      BY <3>2, <3>3
    <3>5. \A j \in 1..m : r[j].asset = q[j].asset /\ r[j].kind = q[j].kind
      BY <3>4
    <3> QED BY <3>1, <3>3, <3>4, <3>5, EarlyAgrees
  <2> QED BY <2>1
<1>10. CopiesCounted(ops', local', start)
  <2>1. ASSUME NEW u \in Tabs, NEW b \in Assets
        PROVE  /\ NoMedia(ops'[u], b, Len(ops'[u])) =>
                    local'[u][b] <= start[b] + Cardinality(Early(ops'[u], b, Len(ops'[u])))
               /\ \A i \in 1..Len(ops'[u]) :
                     ops'[u][i].asset = b /\ Checked(ops'[u][i]) /\ NoMedia(ops'[u], b, i - 1) =>
                        ops'[u][i].expected <= start[b] + Cardinality(Early(ops'[u], b, i - 1))
    <3>1. CASE u # t
      <4>1. ops'[u] = ops[u] /\ local'[u][b] = local[u][b]
        BY <1>5, <1>8, <3>1
      <4> QED BY <4>1 DEF Counted, CopiesCounted
    <3>2. CASE u = t
      <4>1. /\ NoMedia(ops[t], b, n) => local[t][b] <= start[b] + Cardinality(Early(ops[t], b, n))
            /\ \A i \in 1..n :
                  ops[t][i].asset = b /\ Checked(ops[t][i]) /\ NoMedia(ops[t], b, i - 1) =>
                     ops[t][i].expected <= start[b] + Cardinality(Early(ops[t], b, i - 1))
        BY <1>3 DEF Counted, CopiesCounted
      <4>2. start[b] \in Nat /\ Cardinality(Early(ops[t], b, n)) \in Nat
        BY <1>4, EarlyCounts
      <4>3. NoMedia(ops'[t], b, n + 1) => NoMedia(ops[t], b, n)
        <5>1. Early(ops[t], b, n) \subseteq Early(ops'[t], b, n + 1)
          BY <1>4, <1>6 DEF Early
        <5>2. \A j \in Early(ops[t], b, n) : ops'[t][j] = ops[t][j]
          BY <1>6 DEF Early
        <5> QED BY <5>1, <5>2 DEF NoMedia
      <4>4. NoMedia(ops'[t], b, n + 1) =>
               local'[t][b] <= start[b] + Cardinality(Early(ops'[t], b, n + 1))
        <5>1. CASE b = a
          <6>1. Cardinality(Early(ops'[t], b, n + 1)) = Cardinality(Early(ops[t], b, n)) + 1
            <7>1. ops'[t][n + 1].asset = b /\ n \in 0..n
              BY <1>2, <1>4, <1>6, <5>1
            <7> QED BY <7>1, <1>4, <1>9, EarlyCounts
          <6>2. local'[t][b] = local[t][b] + 1
            BY <1>8, <5>1
          <6>3. local[t][b] \in Nat
            BY Typed
          <6> QED BY <6>1, <6>2, <6>3, <4>1, <4>2, <4>3
        <5>2. CASE b # a
          <6>1. Early(ops'[t], b, n + 1) = Early(ops[t], b, n)
            <7>1. ops'[t][n + 1].asset # b /\ n \in 0..n
              BY <1>2, <1>4, <1>6, <5>2
            <7> QED BY <7>1, <1>4, <1>9, EarlyCounts
          <6>2. local'[t][b] = local[t][b]
            BY <1>8, <5>2
          <6> QED BY <6>1, <6>2, <4>1, <4>3
        <5> QED BY <5>1, <5>2
      <4>5. ASSUME NEW i \in 1..(n + 1), ops'[t][i].asset = b, Checked(ops'[t][i]),
                   NoMedia(ops'[t], b, i - 1)
            PROVE  ops'[t][i].expected <= start[b] + Cardinality(Early(ops'[t], b, i - 1))
        <5>1. i - 1 \in 0..n
          BY <1>4
        <5>2. /\ Early(ops'[t], b, i - 1) = Early(ops[t], b, i - 1)
              /\ NoMedia(ops[t], b, i - 1)
          BY <5>1, <4>5, <1>9
        <5>3. CASE i \in 1..n
          BY <5>2, <5>3, <4>1, <4>5, <1>6
        <5>4. CASE i \notin 1..n
          <6>1. i = n + 1 /\ i - 1 = n /\ ops'[t][i] = op
            BY <1>4, <1>6, <5>4
          <6>2. b = a /\ e = local[t][a]
            BY <6>1, <4>5, <1>2 DEF Checked
          <6> QED BY <6>1, <6>2, <5>2, <4>1, <1>2
        <5> QED BY <5>3, <5>4
      <4> QED BY <3>2, <4>4, <4>5, <1>6
    <3> QED BY <3>1, <3>2
  <2> QED BY <2>1 DEF CopiesCounted
<1>11. ASSUME NEW b \in Assets, ~Replaced(b)
       PROVE  /\ RecordCounted(ops', server[b], start[b])
              /\ patch[b] # NoOne => RecordCounted(ops', patch[b], start[b])
  <2>1. server[b] \in Record /\ (patch[b] # NoOne => patch[b] \in Record)
    BY DEF IInv, TypeOK
  <2> QED BY <2>1, <1>5, <1>7, <1>11, RecordStays, Typed DEF IInv, Ordered, Counted
<1> QED BY <1>10, <1>11 DEF Counted, Replaced

\* A file captured again: there is an operation of its first capture.
LEMMA RecaptureCounts ==
    ASSUME IInv, NEW start \in [Assets -> {0, 1}], Counted(start),
           NEW t \in Tabs, NEW a \in Assets, Touch(t, a),
           \E i \in 1..Len(ops[t]) : ops[t][i].kind = "media" /\ ops[t][i].asset = a,
           UNCHANGED <<ops, server, patch, importing, rewound>>
    PROVE  Counted(start)'
<1>1. \A u \in Tabs, b \in Assets :
         local'[u][b] = IF u = t /\ b = a THEN local[t][a] + 1 ELSE local[u][b]
  BY Typed DEF Touch, IInv, TypeOK
<1>2. ~NoMedia(ops[t], a, Len(ops[t]))
  BY DEF NoMedia, Early
<1>3. CopiesCounted(ops, local', start)
  BY <1>1, <1>2 DEF Counted, CopiesCounted
<1> QED BY <1>3 DEF Counted, Replaced

\* Verdicts that are booked change neither what an operation is nor what it expects.
LEMMA FinishCounts ==
    ASSUME IInv, NEW start \in [Assets -> {0, 1}], Counted(start), NEW f \in Flights, FinishFlush(f)
    PROVE  Counted(start)'
<1>1. PICK t : t = flight[f].tab
  OBVIOUS
<1>2. UNCHANGED <<local, server, patch, importing, rewound>>
  BY DEF FinishFlush, history
<1>4. /\ ops' \in Queue
      /\ \A u \in Tabs : /\ Len(ops[u]) \in Nat /\ Len(ops'[u]) = Len(ops[u])
                         /\ \A i \in 1..Len(ops[u]) : /\ ops'[u][i].kind = ops[u][i].kind
                                                      /\ ops'[u][i].asset = ops[u][i].asset
                                                      /\ ops'[u][i].expected = ops[u][i].expected
  BY <1>1, FinishFlushQueues
<1>5. ops' \in Queue /\ Extends(ops, ops')
  BY <1>4 DEF Extends
<1>6. CopiesCounted(ops', local, start)
  <2>1. ASSUME NEW u \in Tabs, NEW b \in Assets, NEW m \in 0..Len(ops[u])
        PROVE  /\ Early(ops'[u], b, m) = Early(ops[u], b, m)
               /\ NoMedia(ops'[u], b, m) <=> NoMedia(ops[u], b, m)
    <3>1. m \in Nat /\ \A j \in 1..m : /\ ops'[u][j].asset = ops[u][j].asset
                                       /\ ops'[u][j].kind = ops[u][j].kind
      BY <1>4
    <3> QED BY <3>1, EarlyAgrees
  <2>2. ASSUME NEW u \in Tabs, NEW b \in Assets, NoMedia(ops'[u], b, Len(ops'[u]))
        PROVE  local[u][b] <= start[b] + Cardinality(Early(ops'[u], b, Len(ops'[u])))
    <3>1. Len(ops[u]) \in 0..Len(ops[u]) /\ Len(ops'[u]) = Len(ops[u])
      BY <1>4
    <3> QED BY <2>1, <2>2, <3>1 DEF Counted, CopiesCounted
  <2>3. ASSUME NEW u \in Tabs, NEW b \in Assets, NEW i \in 1..Len(ops'[u]),
               ops'[u][i].asset = b, Checked(ops'[u][i]), NoMedia(ops'[u], b, i - 1)
        PROVE  ops'[u][i].expected <= start[b] + Cardinality(Early(ops'[u], b, i - 1))
    <3>1. i \in 1..Len(ops[u]) /\ i - 1 \in 0..Len(ops[u])
      BY <1>4
    <3>2. /\ ops[u][i].asset = b /\ Checked(ops[u][i]) /\ ops'[u][i].expected = ops[u][i].expected
      BY <1>4, <2>3, <3>1 DEF Checked
    <3> QED BY <2>1, <2>3, <3>1, <3>2 DEF Counted, CopiesCounted
  <2> QED BY <2>2, <2>3 DEF CopiesCounted
<1>7. ASSUME NEW b \in Assets, ~Replaced(b)
      PROVE  /\ RecordCounted(ops', server[b], start[b])
             /\ patch[b] # NoOne => RecordCounted(ops', patch[b], start[b])
  <2>1. server[b] \in Record /\ (patch[b] # NoOne => patch[b] \in Record)
    BY DEF IInv, TypeOK
  <2> QED BY <2>1, <1>5, <1>7, RecordStays, Typed DEF IInv, Ordered, Counted
<1> QED BY <1>2, <1>6, <1>7 DEF Counted, Replaced

\* A turn of the server's loop.
LEMMA ServeCounts ==
    ASSUME IInv, NEW start \in [Assets -> {0, 1}], Counted(start), NEW f \in Flights, Serve(f)
    PROVE  Counted(start)'
<1>1. PICK i \in flight[f].todo :
         \/ server' = server
         \/ LET t  == flight[f].tab
                op == ops[t][i]
                a  == op.asset
            IN  /\ Verdict(op, flight[f].by, server[a].version) = "applied"
                /\ server' = [server EXCEPT ![a] = [version |-> @.version + 1,
                                                    log |-> Append(@.log, <<t, i>>)]]
  BY DEF Serve
<1>2. PICK t, op, a : t = flight[f].tab /\ op = ops[t][i] /\ a = op.asset
  OBVIOUS
<1>3. t \in Tabs /\ i \in 1..Len(ops[t])
  BY <1>2 DEF Serve, IInv, Shape
<1>4. op \in Op /\ a \in Assets /\ <<t, i>> \in Ids /\ server[a] \in Record
  BY <1>2, <1>3, Typed DEF Op, Ids
<1>5. UNCHANGED <<ops, local, patch, importing, rewound>>
  BY DEF Serve, tabVars, history
<1>6. PICK r, id, w : /\ r = server[a] /\ id = <<t, i>>
                      /\ w = [version |-> r.version + 1, log |-> Append(r.log, id)]
  OBVIOUS
<1>7. CASE server' = server
  BY <1>5, <1>7, RecordsCounted DEF Counted
<1>8. CASE /\ Verdict(op, flight[f].by, r.version) = "applied"
           /\ server' = [server EXCEPT ![a] = w]
  <2>1. Checked(op) => op.expected = r.version
    BY <1>8 DEF Verdict, Checked
  <2>2. Of(ops, id) = op
    BY <1>2, <1>6 DEF Of
  <2>3. /\ r \in Record /\ start[a] \in Nat /\ (~Replaced(a) => RecordCounted(ops, r, start[a]))
        /\ id \in Ids \cup {Elsewhere}
    BY <1>4, <1>6 DEF Counted
  <2>4. ~Replaced(a) => RecordCounted(ops, w, start[a])
    BY <2>1, <2>2, <2>3, <1>6, RecordGrows
  <2>5. \A b \in Assets : server'[b] = IF b = a THEN w ELSE server[b]
    BY <1>4, <1>8 DEF IInv, TypeOK
  <2> QED BY <2>4, <2>5, <1>5, RecordsCounted DEF Counted
<1> QED BY <1>1, <1>2, <1>6, <1>7, <1>8

\* The PATCH route: a copy of a record, and the copy written back.
LEMMA PatchCounts ==
    ASSUME IInv, NEW start \in [Assets -> {0, 1}], Counted(start), NEW a \in Assets,
           ReadForPatch(a) \/ WritePatch(a)
    PROVE  Counted(start)'
<1>1. UNCHANGED <<ops, local, importing, rewound>>
  BY DEF ReadForPatch, WritePatch, tabVars, history
<1>2. CASE ReadForPatch(a)
  <2>1. server' = server /\ \A b \in Assets : patch'[b] = IF b = a THEN server[a] ELSE patch[b]
    BY <1>2 DEF ReadForPatch, IInv, TypeOK
  <2> QED BY <1>1, <2>1, RecordsCounted DEF Counted
<1>3. CASE WritePatch(a)
  <2>1. PICK r, x, w : /\ r = patch[a] /\ x = Elsewhere
                       /\ w = [version |-> r.version + 1, log |-> Append(r.log, x)]
    OBVIOUS
  <2>2. r # NoOne /\ server' = [server EXCEPT ![a] = w] /\ patch' = [patch EXCEPT ![a] = NoOne]
    BY <1>3, <2>1 DEF WritePatch
  <2>3. r \in Record /\ start[a] \in Nat
    <3>1. patch[a] \in Record \cup {NoOne} /\ start[a] \in {0, 1}
      BY DEF IInv, TypeOK
    <3> QED BY <2>1, <2>2, <3>1
  <2>4. ~Replaced(a) => RecordCounted(ops, r, start[a])
    BY <2>1, <2>2 DEF Counted
  <2>5. x \in Ids \cup {Elsewhere}
    BY <2>1
  <2>6. ~Replaced(a) => RecordCounted(ops, w, start[a])
    BY <2>1, <2>3, <2>4, <2>5, RecordGrows
  <2>7. \A b \in Assets : /\ server'[b] = IF b = a THEN w ELSE server[b]
                          /\ patch'[b] = IF b = a THEN NoOne ELSE patch[b]
    BY <2>2 DEF IInv, TypeOK
  <2> QED BY <1>1, <2>6, <2>7, RecordsCounted DEF Counted
<1> QED BY <1>2, <1>3

\* A submission counts every record up, evidence one of them.
LEMMA RaisedCounts ==
    ASSUME IInv, NEW start \in [Assets -> {0, 1}], Counted(start),
           \/ \E t \in Tabs : AcceptSubmit(t)
           \/ \E a \in Assets : ReceiveEvidence(a)
    PROVE  Counted(start)'
<1>1. /\ \A a \in Assets : server'[a] = server[a] \/ server'[a] = [server[a] EXCEPT !.version = @ + 1]
      /\ UNCHANGED <<ops, local, patch, importing, rewound>>
  <2>1. CASE \E t \in Tabs : AcceptSubmit(t)
    BY <2>1 DEF AcceptSubmit, history
  <2>2. CASE \E a \in Assets : ReceiveEvidence(a)
    BY <2>2 DEF ReceiveEvidence, tabVars, history, IInv, TypeOK
  <2> QED BY <2>1, <2>2
<1>2. ASSUME NEW a \in Assets, ~Replaced(a)
      PROVE  RecordCounted(ops, server'[a], start[a])
  <2>1. PICK r, w : r = server[a] /\ w = [r EXCEPT !.version = @ + 1]
    OBVIOUS
  <2>2. r \in Record /\ start[a] \in Nat /\ RecordCounted(ops, r, start[a])
    BY <1>2, <2>1, Typed DEF Counted
  <2>3. server'[a] = r \/ server'[a] = w
    BY <1>1, <2>1
  <2>4. RecordCounted(ops, w, start[a])
    BY <2>1, <2>2, RecordRaised
  <2> QED BY <2>2, <2>3, <2>4
<1> QED BY <1>1, <1>2, RecordsCounted DEF Counted

\* An import in JSON gives a record that was not there its first write, and one that was no
\* longer counts.
LEMMA ImportCounts ==
    ASSUME IInv, NEW start \in [Assets -> {0, 1}], Counted(start), NEW a \in Assets, ImportAsset(a)
    PROVE  Counted(start)'
<1>1. PICK r, w : r = server[a] /\ w = [version |-> 1, log |-> <<Elsewhere>>]
  OBVIOUS
<1>2. /\ \A b \in Assets : server'[b] = IF b = a THEN w ELSE server[b]
      /\ rewound' = IF r.version = 0 THEN rewound ELSE rewound \cup {<<a, Elsewhere>>}
      /\ UNCHANGED <<ops, local, patch, importing>>
  BY <1>1 DEF ImportAsset, tabVars, IInv, TypeOK
<1>3. r \in Record /\ start[a] \in Nat
  BY <1>1, Typed
<1>4. ASSUME ~Replaced(a), r.version = 0
      PROVE  RecordCounted(ops, w, start[a]) /\ patch[a] = NoOne
  <2>1. start[a] + Len(r.log) <= 0 /\ Len(r.log) \in Nat
    BY <1>1, <1>3, <1>4 DEF Counted, RecordCounted, Record
  <2>2. start[a] = 0
    BY <1>3, <2>1
  <2>3. w.version = 1 /\ Len(w.log) = 1 /\ \A k \in 1..Len(w.log) : w.log[k] = Elsewhere
    BY <1>1
  <2>4. patch[a] = NoOne
    BY <1>1, <1>4 DEF IInv, Shape
  <2> QED BY <2>2, <2>3, <2>4 DEF RecordCounted
<1>5. CopiesCounted(ops, local, start)'
  BY <1>2 DEF Counted
<1>6. ASSUME NEW b \in Assets, ~Replaced(b)'
      PROVE  /\ RecordCounted(ops, server[b], start[b])'
             /\ patch'[b] # NoOne => RecordCounted(ops, patch[b], start[b])'
  <2>1. ~Replaced(b) /\ (b = a => r.version = 0)
    BY <1>2, <1>6 DEF Replaced
  <2> QED BY <1>2, <1>4, <2>1 DEF Counted
<1> QED BY <1>2, <1>5, <1>6 DEF Counted

\* A CSV import gives a record that was not there the version it begins with; one that is
\* replaced no longer counts.
LEMMA StoreCounts ==
    ASSUME IInv, NEW start \in [Assets -> {0, 1}], Counted(start), NEW t \in Tabs, StoreImport(t)
    PROVE  \E from \in [Assets -> {0, 1}] : Counted(from)'
<1>1. PICK a, r : a = importing[t].asset /\ r = server[a]
  OBVIOUS
<1>2. importing[t] \in Import /\ a \in Assets /\ r \in Record
  BY <1>1, Typed DEF StoreImport, IInv, TypeOK, Import
<1>3. PICK from : from = [start EXCEPT ![a] = 1]
  OBVIOUS
<1>4. /\ from \in [Assets -> {0, 1}] /\ from[a] = 1
      /\ \A b \in Assets : /\ from[b] \in Nat /\ start[b] \in Nat /\ start[b] <= from[b]
                           /\ b # a => from[b] = start[b]
  <2>1. from \in [Assets -> {0, 1}] /\ from[a] = 1 /\ \A b \in Assets : b # a => from[b] = start[b]
    BY <1>2, <1>3
  <2>2. \A b \in Assets : from[b] \in {0, 1} /\ start[b] \in {0, 1}
    BY <2>1
  <2> QED BY <2>1, <2>2
<1>5. /\ UNCHANGED <<local, ops, patch>> /\ rewound \subseteq rewound'
      /\ \A b \in Assets : b # a => server'[b] = server[b]
      /\ \A u \in Tabs : u # t => importing'[u] = importing[u]
      /\ importing'[t] = [importing[t] EXCEPT !.stored = TRUE]
      /\ \/ r.version = 0 /\ server'[a] = [r EXCEPT !.version = 1]
         \/ <<a, Elsewhere>> \in rewound'
  BY <1>1, <1>2 DEF StoreImport, IInv, TypeOK
<1>6. CopiesCounted(ops, local, from)
  <2>1. ASSUME NEW u \in Tabs, NEW b \in Assets, NEW n \in Nat, NEW x \in Nat,
               x <= start[b] + Cardinality(Early(ops[u], b, n))
        PROVE  x <= from[b] + Cardinality(Early(ops[u], b, n))
    <3>1. PICK c : c = Cardinality(Early(ops[u], b, n))
      OBVIOUS
    <3>2. c \in Nat
      BY <3>1, EarlyCounts
    <3>3. x <= from[b] + c
      BY <1>4, <2>1, <3>1, <3>2
    <3> QED BY <3>1, <3>3
  <2>2. ASSUME NEW u \in Tabs, NEW b \in Assets, NoMedia(ops[u], b, Len(ops[u]))
        PROVE  local[u][b] <= from[b] + Cardinality(Early(ops[u], b, Len(ops[u])))
    BY <2>1, <2>2, Typed DEF Counted, CopiesCounted
  <2>3. ASSUME NEW u \in Tabs, NEW b \in Assets, NEW i \in 1..Len(ops[u]),
               ops[u][i].asset = b, Checked(ops[u][i]), NoMedia(ops[u], b, i - 1)
        PROVE  ops[u][i].expected <= from[b] + Cardinality(Early(ops[u], b, i - 1))
    <3>1. i - 1 \in Nat /\ ops[u][i] \in Op
      BY Typed
    <3>2. ops[u][i].expected \in Nat
      BY <3>1 DEF Op
    <3>3. ops[u][i].expected <= start[b] + Cardinality(Early(ops[u], b, i - 1))
      BY <2>3 DEF Counted, CopiesCounted
    <3> QED BY <2>1, <3>1, <3>2, <3>3
  <2> QED BY <2>2, <2>3 DEF CopiesCounted
<1>7. ASSUME NEW u \in Tabs, importing'[u] # NoOne, importing'[u].stored
      PROVE  from[importing'[u].asset] = 1
  <2>1. CASE u = t
    <3>1. importing'[t].asset = a
      BY <1>1, <1>2, <1>5 DEF Import
    <3> QED BY <1>4, <2>1, <3>1
  <2>2. CASE u # t
    <3>1. importing'[u] = importing[u] /\ importing[u] \in Import
      BY <1>5, <1>7, <2>2 DEF IInv, TypeOK
    <3>2. importing[u].asset \in Assets /\ start[importing[u].asset] = 1
      BY <1>7, <3>1 DEF Counted, Import
    <3> QED BY <1>4, <3>1, <3>2
  <2> QED BY <2>1, <2>2
<1>8. ASSUME NEW b \in Assets, <<b, Elsewhere>> \notin rewound'
      PROVE  /\ RecordCounted(ops, server'[b], from[b])
             /\ patch[b] # NoOne => RecordCounted(ops, patch[b], from[b])
  <2>1. ~Replaced(b)
    BY <1>5, <1>8 DEF Replaced
  <2>2. CASE b # a
    BY <1>4, <1>5, <2>1, <2>2 DEF Counted
  <2>3. CASE b = a
    <3>1. r.version = 0 /\ server'[a] = [r EXCEPT !.version = 1]
      BY <1>5, <1>8, <2>3
    <3>2. r.log = <<>> /\ patch[a] = NoOne
      BY <1>1, <1>2, <3>1 DEF IInv, Shape
    <3>3. server'[a].log = <<>> /\ server'[a].version = 1
      BY <1>2, <3>1, <3>2 DEF Record
    <3>4. RecordCounted(ops, server'[a], 1)
      BY <3>3 DEF RecordCounted
    <3> QED BY <1>4, <2>3, <3>2, <3>4
  <2> QED BY <2>2, <2>3
<1>9. Counted(from)'
  BY <1>5, <1>6, <1>7, <1>8 DEF Counted, Replaced
<1> QED BY <1>4, <1>9

\* A copy that the answer of an import replaces is one of the first version.
LEMMA FinishImportCounts ==
    ASSUME IInv, NEW start \in [Assets -> {0, 1}], Counted(start), NEW t \in Tabs, FinishImport(t)
    PROVE  Counted(start)'
<1>1. PICK a : a = importing[t].asset
  OBVIOUS
<1>2. a \in Assets /\ start[a] = 1
  BY <1>1 DEF FinishImport, IInv, TypeOK, Import, Counted
<1>3. /\ UNCHANGED <<ops, server, patch>> /\ rewound \subseteq rewound'
      /\ importing' = [importing EXCEPT ![t] = NoOne]
      /\ \A u \in Tabs, b \in Assets : local'[u][b] = IF u = t /\ b = a THEN 1 ELSE local[u][b]
  BY <1>1, <1>2 DEF FinishImport, IInv, TypeOK
<1>4. CopiesCounted(ops, local', start)
  <2>1. ASSUME NEW u \in Tabs, NEW b \in Assets, NoMedia(ops[u], b, Len(ops[u]))
        PROVE  local'[u][b] <= start[b] + Cardinality(Early(ops[u], b, Len(ops[u])))
    <3>1. CASE u = t /\ b = a
      <4>1. PICK c : c = Cardinality(Early(ops[u], b, Len(ops[u])))
        OBVIOUS
      <4>2. c \in Nat
        BY <4>1, EarlyCounts, Typed
      <4>3. local'[u][b] <= start[b] + c
        BY <1>2, <1>3, <3>1, <4>2
      <4> QED BY <4>1, <4>3
    <3>2. CASE ~(u = t /\ b = a)
      BY <1>3, <2>1, <3>2 DEF Counted, CopiesCounted
    <3> QED BY <3>1, <3>2
  <2> QED BY <2>1 DEF Counted, CopiesCounted
<1>5. \A u \in Tabs : importing'[u] # NoOne => importing'[u] = importing[u]
  BY <1>3 DEF IInv, TypeOK
<1> QED BY <1>3, <1>4, <1>5 DEF Counted, Replaced

\* Every step keeps the count.
LEMMA NextCounts ==
    ASSUME IInv, [Next]_vars, NEW start \in [Assets -> {0, 1}], Counted(start)
    PROVE  \E from \in [Assets -> {0, 1}] : Counted(from)'
<1> DEFINE Goal == \E from \in [Assets -> {0, 1}] : Counted(from)'
<1>0. Counted(start)' => Goal
  OBVIOUS
<1> HIDE DEF Goal
<1>1. ASSUME UNCHANGED <<ops, local, server, patch, importing, rewound>> PROVE Goal
  <2>1. Counted(start)'
    BY <1>1 DEF Counted, Replaced
  <2> QED BY <1>0, <2>1
<1>2. ASSUME NEW t \in Tabs, FailSubmit(t) \/ AcceptSubmit(t) \/ FinishImport(t) \/ FailImport(t)
      PROVE  Goal
  <2>1. CASE FailSubmit(t)
    BY <1>1, <2>1 DEF FailSubmit, history
  <2>2. CASE AcceptSubmit(t) \/ FinishImport(t)
    BY <1>0, <2>2, RaisedCounts, FinishImportCounts
  <2>3. CASE FailImport(t)
    <3>1. /\ UNCHANGED <<ops, local, server, patch, rewound>>
          /\ \A u \in Tabs : importing'[u] # NoOne => importing'[u] = importing[u]
      BY <2>3 DEF FailImport, history, IInv, TypeOK
    <3>2. Counted(start)'
      BY <3>1 DEF Counted, Replaced
    <3> QED BY <1>0, <3>2
  <2> QED BY <1>2, <2>1, <2>2, <2>3
<1>3. ASSUME NEW t \in Tabs, NEW s \in SessionsIn[t], NEW a \in Assets,
             \/ AddAsset(t, s, a) \/ UpdateAsset(t, s, a)
             \/ AddEvidence(t, s, a) \/ AddEvidenceFile(t, s, a)
      PROVE  Goal
  <2>1. s \in Sessions /\ local[t][a] \in Nat /\ 0 \in Nat
    BY SubsetAssumption, Typed
  <2>2. {"create", "update", "evidence", "media"} \subseteq Kinds
    BY DEF Kinds
  <2>3. CASE AddAsset(t, s, a)
    BY <1>0, <2>1, <2>2, <2>3, EditCounts DEF AddAsset, history
  <2>4. CASE UpdateAsset(t, s, a)
    BY <1>0, <2>1, <2>2, <2>4, EditCounts DEF UpdateAsset, history
  <2>5. CASE AddEvidence(t, s, a)
    BY <1>0, <2>1, <2>2, <2>5, EditCounts DEF AddEvidence, history
  <2>6. CASE AddEvidenceFile(t, s, a)
    BY <1>0, <2>1, <2>2, <2>6, EditCounts, RecaptureCounts DEF AddEvidenceFile, history
  <2> QED BY <1>3, <2>3, <2>4, <2>5, <2>6
<1>4. ASSUME NEW t \in Tabs, NEW s \in SessionsIn[t],
             StartSubmit(t, s) \/ (\E f \in Flights : StartFlush(t, s, f))
      PROVE  Goal
  BY <1>1, <1>4 DEF StartSubmit, StartFlush, tabVars, history
<1>5. ASSUME NEW f \in Flights, FinishFlush(f) \/ FailFlush(f) \/ Serve(f)
      PROVE  Goal
  BY <1>0, <1>1, <1>5, FinishCounts, ServeCounts DEF FailFlush, tabVars, history
<1>6. ASSUME NEW a \in Assets,
             ReadForPatch(a) \/ WritePatch(a) \/ ReceiveEvidence(a) \/ ImportAsset(a)
      PROVE  Goal
  BY <1>0, <1>6, PatchCounts, RaisedCounts, ImportCounts
<1>7. ASSUME NEW t \in Tabs, NEW s \in SessionsIn[t], NEW a \in Assets, StartImport(t, s, a)
      PROVE  Goal
  <2>1. /\ UNCHANGED <<ops, local, server, patch, rewound>>
        /\ importing' = [importing EXCEPT ![t] = [asset |-> a, stored |-> FALSE]]
    BY <1>7 DEF StartImport, history
  <2>2. ASSUME NEW u \in Tabs, importing'[u] # NoOne, importing'[u].stored
        PROVE  importing'[u] = importing[u]
    BY <2>1, <2>2 DEF IInv, TypeOK
  <2>3. Counted(start)'
    BY <2>1, <2>2 DEF Counted, Replaced
  <2> QED BY <1>0, <2>3
<1>8. ASSUME NEW t \in Tabs, StoreImport(t)
      PROVE  Goal
  BY <1>8, StoreCounts DEF Goal
<1>9. ASSUME UNCHANGED vars PROVE Goal
  BY <1>1, <1>9 DEF vars
<1>10. Goal
  BY <1>2, <1>3, <1>4, <1>5, <1>6, <1>7, <1>8, <1>9 DEF Next
<1> QED BY <1>10 DEF Goal

\* So what a record consists of is counted in every reachable state.
LEMMA CountInvariance == Spec => []CInv
<1>1. CInv /\ [Next]_vars => CInv'
  <2> SUFFICES ASSUME CInv, [Next]_vars PROVE CInv'
    OBVIOUS
  <2>1. PICK start \in [Assets -> {0, 1}] : Counted(start)
    BY DEF CInv
  <2>2. \E from \in [Assets -> {0, 1}] : Counted(from)'
    BY <2>1, NextCounts DEF CInv
  <2> QED BY <2>2, NextInv DEF CInv
<1> QED BY <1>1, InitCounts, PTL DEF Spec

-----------------------------------------------------------------------------
(* The theorems. *)

\* Every reachable state is well typed, for any tabs, units, sessions and flushes.
THEOREM TypeCorrect == Spec => []TypeOK
<1>1. IInv => TypeOK
  BY DEF IInv
<1> QED BY <1>1, Invariance, PTL

\* A record takes a tab's creations and updates at most once and in the order they were
\* made, whatever requests are repeated, overtaken or cut short and whatever imports replace:
\* two entries of one tab expected rising versions, and a tab whose copy no import set back
\* never expects a lower version than before.
THEOREM UpdatesAreInOrder == Spec => []UpdatesInOrder
<1>1. IInv => UpdatesInOrder
  <2> SUFFICES ASSUME IInv, NEW a \in Assets,
                      NEW i \in 1..Len(server[a].log), NEW j \in 1..Len(server[a].log), i < j,
                      Versioned(server[a].log[i]), Versioned(server[a].log[j]),
                      server[a].log[i][1] = server[a].log[j][1],
                      <<a, server[a].log[i][1]>> \notin rewound
               PROVE  server[a].log[i][2] < server[a].log[j][2]
    BY DEF UpdatesInOrder
  <2> DEFINE r == server[a]
             x == r.log[i]
             y == r.log[j]
             t == x[1]
             m == x[2]
             n == y[2]
  <2>1. r \in Record /\ RisingLog(ops, r, a)
    BY Typed DEF IInv, Ordered
  <2>2. x # Elsewhere /\ y # Elsewhere /\ y[1] = t
    BY DEF Versioned
  <2>3. t \in Tabs /\ m \in Nat /\ n \in Nat
    BY <2>1, <2>2, LogElement
  <2>4. /\ m \in 1..Len(ops[t]) /\ n \in 1..Len(ops[t])
        /\ ops[t][m].asset = a /\ ops[t][n].asset = a
        /\ ops[t][m].kind # "media" /\ ops[t][n].kind # "media"
    BY <2>1, <2>2 DEF RisingLog, Of
  <2>5. ops[t][m].kind # "evidence" /\ ops[t][n].kind # "evidence"
    BY <2>2 DEF Versioned, OpOf
  <2>6. ops[t][m] \in Op /\ ops[t][n] \in Op
    BY <2>3, <2>4, Typed
  <2>7. Checked(ops[t][m]) /\ Checked(ops[t][n])
    BY <2>4, <2>5, <2>6 DEF Checked, Op, Kinds
  <2>8. ops[t][m].expected < ops[t][n].expected
    <3>1. /\ Of(ops, x) = ops[t][m] /\ Of(ops, y) = ops[t][n]
      BY <2>2 DEF Of
    <3> QED BY <2>1, <2>2, <2>7, <3>1 DEF RisingLog
  <2>9. ops[t][m].expected \in Nat /\ ops[t][n].expected \in Nat /\ <<a, t>> \notin rewound
    BY <2>6 DEF Op
  <2> HIDE DEF r, x, y, t, m, n
  <2>10. n < m => ops[t][n].expected <= ops[t][m].expected
    BY <2>3, <2>4, <2>7, <2>9 DEF IInv, Ordered, Counts
  <2>11. n # m
    <3>1. n = m => ops[t][n].expected = ops[t][m].expected
      OBVIOUS
    <3> QED BY <2>8, <2>9, <3>1
  <2>12. m < n
    BY <2>3, <2>8, <2>9, <2>10, <2>11
  <2> QED BY <2>12 DEF r, x, y, m, n
<1> QED BY <1>1, Invariance, PTL

\* What a tab shows as applied is in the server's record, also where it shows the verdict on
\* another operation with the same id, unless a PATCH wrote an older copy of the record back
\* or an import replaced it.
THEOREM AppliedStays == Spec => []AppliedIsStored
<1>1. IInv => AppliedIsStored
  <2> SUFFICES ASSUME IInv, NEW t \in Tabs, NEW i \in 1..Len(ops[t]), ops[t][i].status = "applied"
               PROVE  \/ torn[ops[t][i].asset] \/ <<ops[t][i].asset, Elsewhere>> \in rewound
                      \/ \E k \in 1..Len(server[ops[t][i].asset].log) :
                            server[ops[t][i].asset].log[k] = <<t, ops[t][i].holds>>
    BY DEF AppliedIsStored
  <2>1. Stored(server, Lost, ops[t][i].asset, <<t, ops[t][i].holds>>)
    BY DEF IInv, Truthful
  <2> QED BY <2>1 DEF Stored, Entry, Lost
<1> QED BY <1>1, Invariance, PTL

\* An update whose tab's earlier operations on the asset all took effect finds nothing but
\* these in a record that no import replaced: as many writes as the version counts at most,
\* and the tab has made as many.
THEOREM UpdatesSeeWhatTheyReplace == Spec => []SeesWhatItReplaces
<1>1. CInv => SeesWhatItReplaces
  <2> SUFFICES ASSUME CInv, NEW a \in Assets, NEW k \in 1..Len(server[a].log),
                      Versioned(server[a].log[k]), <<a, Elsewhere>> \notin rewound,
                      \A i \in 1..(server[a].log[k][2] - 1) :
                         ops[server[a].log[k][1]][i].asset = a =>
                            \E j \in 1..(k - 1) : server[a].log[j] = <<server[a].log[k][1], i>>
               PROVE  \/ LastWrite(a, k - 1) = 0
                      \/ /\ server[a].log[LastWrite(a, k - 1)] # Elsewhere
                         /\ server[a].log[LastWrite(a, k - 1)][1] = server[a].log[k][1]
    BY DEF SeesWhatItReplaces
  <2>1. PICK start \in [Assets -> {0, 1}] : Counted(start)
    BY DEF CInv
  <2>2. PICK r, x, t, n : r = server[a] /\ x = r.log[k] /\ t = x[1] /\ n = x[2]
    OBVIOUS
  <2>3. r \in Record /\ RisingLog(ops, r, a) /\ RecordCounted(ops, r, start[a]) /\ k \in 1..Len(r.log)
    BY <2>1, <2>2, Typed DEF CInv, IInv, Ordered, Counted, Replaced
  <2>4. x # Elsewhere /\ t \in Tabs /\ n \in Nat \ {0}
    BY <2>2, <2>3, LogElement DEF Versioned
  <2>5. n \in 1..Len(ops[t]) /\ Of(ops, x) = ops[t][n] /\ ops[t][n].asset = a
    BY <2>2, <2>3, <2>4 DEF RisingLog, Of
  <2>6. Checked(ops[t][n])
    <3>1. ops[t][n] \in Op /\ ops[t][n].kind \notin {"evidence", "media"}
      BY <2>2, <2>3, <2>4, <2>5, Typed DEF CInv, Versioned, OpOf, RisingLog, Of
    <3> QED BY <3>1 DEF Checked, Op, Kinds
  <2>7. PICK S, m : S = Early(ops[t], a, n - 1) /\ m = k - 1
    OBVIOUS
  <2>8. m \in Nat /\ n - 1 \in Nat /\ Len(r.log) \in Nat /\ k = m + 1
    BY <2>3, <2>4, <2>7 DEF Record
  <2>9. \A i \in S : \E j \in 1..m : r.log[j] = <<t, i>>
    BY <2>2, <2>7 DEF Early
  <2>10. NoMedia(ops[t], a, n - 1)
    <3>1. ASSUME NEW i \in S
          PROVE  ops[t][i].kind # "media"
      <4>1. PICK j \in 1..m : r.log[j] = <<t, i>>
        BY <2>9
      <4>2. i \in Nat \ {0}
        <5>1. i \in 1..(n - 1)
          BY <2>7 DEF Early
        <5> QED BY <5>1, <2>8
      <4>6. PICK y : y = r.log[j]
        OBVIOUS
      <4>7. y = <<t, i>> /\ y[1] = t /\ y[2] = i
        BY <4>1, <4>6
      <4>3. r.log[j] # Elsewhere
        BY <4>1, <4>2, <2>4, MarkAssumption DEF Ids
      <4>4. j \in 1..Len(r.log)
        <5>1. j \in 1..m /\ k \in 1..Len(r.log) /\ m \in Nat /\ Len(r.log) \in Nat /\ k = m + 1
          BY <2>3, <2>8
        <5> QED BY <5>1
      <4>5. Of(ops, r.log[j]).kind # "media" /\ Of(ops, r.log[j]) = ops[t][i]
        <5>1. y # Elsewhere /\ j \in 1..Len(r.log) /\ RisingLog(ops, r, a)
          BY <4>3, <4>4, <4>6, <2>3
        <5>2. Of(ops, y).kind # "media"
          BY <5>1, <4>6 DEF RisingLog
        <5>3. Of(ops, y) = ops[t][i]
          BY <4>7 DEF Of
        <5> QED BY <5>2, <5>3, <4>6
      <4> QED BY <4>5
    <3> QED BY <3>1, <2>7 DEF NoMedia
  <2>11. m <= Cardinality(S) /\ IsFiniteSet(S) /\ Cardinality(S) \in Nat
    <3>1. IsFiniteSet(S) /\ Cardinality(S) \in Nat
      BY <2>7, <2>8, EarlyCounts
    <3>2. ops[t][n].expected <= start[a] + Cardinality(S)
      BY <2>1, <2>4, <2>5, <2>6, <2>7, <2>10 DEF Counted, CopiesCounted
    <3>3. start[a] + k - 1 <= ops[t][n].expected
      BY <2>2, <2>3, <2>4, <2>5, <2>6 DEF RecordCounted
    <3>4. start[a] \in Nat /\ ops[t][n].expected \in Nat
      <4>1. ops[t][n] \in Op
        BY <2>4, <2>5, Typed DEF CInv
      <4> QED BY <4>1 DEF Op
    <3> QED BY <2>8, <3>1, <3>2, <3>3, <3>4
  <2>12. PICK g : g = [i \in S |-> CHOOSE j \in 1..m : r.log[j] = <<t, i>>]
    OBVIOUS
  <2>13. \A i \in S : g[i] \in 1..m /\ r.log[g[i]] = <<t, i>>
    BY <2>9, <2>12
  <2>14. g \in Injection(S, 1..m)
    <3>1. g \in [S -> 1..m]
      BY <2>12, <2>13
    <3>2. \A i, j \in S : g[i] = g[j] => i = j
      BY <2>13
    <3> QED BY <3>1, <3>2 DEF Injection, IsInjective
  <2>15. g \in Surjection(S, 1..m)
    <3>1. IsFiniteSet(1..m) /\ Cardinality(1..m) = m
      BY <2>8, FS_Interval
    <3>2. Cardinality(S) <= Cardinality(1..m)
      BY <2>14, <3>1, FS_Injection
    <3>3. Cardinality(S) = Cardinality(1..m)
      BY <2>8, <2>11, <3>1, <3>2
    <3> QED BY <2>14, <3>1, <3>3, FS_Injection
  <2>16. ASSUME NEW j \in 1..m
         PROVE  r.log[j] # Elsewhere /\ r.log[j][1] = t
    <3>1. PICK i \in S : g[i] = j
      BY <2>15 DEF Surjection
    <3>2. r.log[j] = <<t, i>>
      BY <3>1, <2>13
    <3>3. i \in Nat \ {0}
      <4>1. i \in 1..(n - 1)
        BY <2>7 DEF Early
      <4> QED BY <4>1, <2>8
    <3>4. PICK y : y = r.log[j]
      OBVIOUS
    <3>5. y = <<t, i>> /\ y[1] = t
      BY <3>2, <3>4
    <3>6. y # Elsewhere
      BY <3>3, <3>5, <2>4, MarkAssumption DEF Ids
    <3> QED BY <3>4, <3>5, <3>6
  <2>17. PICK W : W = {j \in 1..m : IsWrite(r.log[j])}
    OBVIOUS
  <2>18. LastWrite(a, m) = IF W = {} THEN 0 ELSE Greatest(W)
    BY <2>2, <2>17 DEF LastWrite
  <2>19. CASE W = {}
    BY <2>7, <2>18, <2>19
  <2>20. CASE W # {}
    <3>1. Greatest(W) \in W
      BY <2>8, <2>17, <2>20, GreatestIsOne
    <3>2. LastWrite(a, m) \in 1..m
      BY <2>17, <2>18, <2>20, <3>1
    <3> QED BY <2>2, <2>7, <2>16, <3>2
  <2> QED BY <2>19, <2>20
<1> QED BY <1>1, CountInvariance, PTL
=============================================================================
