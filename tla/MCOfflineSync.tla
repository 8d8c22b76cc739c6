--------------------------- MODULE MCOfflineSync ---------------------------
(* The intake store and the sync route for TLC: the batch is submitted and a file imported *)
(* from one tab only, and runs of flushSyncQueue are interchangeable.                      *)
EXTENDS OfflineSync, TLC

CONSTANT Office    \* the tab in which both sessions are used

MCSessionsIn == [t \in Tabs |-> IF t = Office THEN Sessions ELSE Editors]

MCRoom == [t \in Tabs |-> IF t = Office THEN MaxOps ELSE 1]

UnderWay == {<<"submit", t>> : t \in {u \in Tabs : submitting[u]}}
            \cup {<<"import", t>> : t \in {u \in Tabs : importing[u] # NoOne}}
            \cup {<<"patch", a>> : a \in {b \in Assets : patch[b] # NoOne}}
            \cup {<<"flush", f>> : f \in {g \in Flights : flight[g].tab \in Tabs \ {Office}}}

Imports == {<<"import", Office>>}

Written(r) == {k \in 1..Len(r.log) : r.log[k] = Elsewhere}

\* The operations a tab made, evidence and media for two.
Weight(t) == Cardinality({i \in 1..Len(ops[t]) : ops[t][i].kind # "seeded"})
             + Cardinality({i \in 1..Len(ops[t]) : ops[t][i].kind \in {"evidence", "media"}})

\* Bound: the other tab makes an operation when the office has made two at most, the office a
\* third when the other has made none and no write of the rest of the world is in a record;
\* versions are set back once, a record holds one write of the rest of the world, and one thing
\* besides the office's flushes is under way, an import when there are two of them.
Small ==
    /\ Cardinality(UnderWay) <= 1
    /\ (\A f \in Flights : flight[f] # Idle) => UnderWay \subseteq Imports
    /\ Weight(Office) = MaxOps => UnderWay \subseteq Imports /\ \A a \in Assets : Written(server[a]) = {}
    /\ Weight(Office) <= MaxOps
    /\ \A t \in Tabs \ {Office} :
          Weight(t) > 0 => Weight(t) = 1 /\ Weight(Office) < MaxOps /\ importing[Office] = NoOne
    /\ \A t \in Tabs \ {Office} : importing[t] = NoOne
    /\ Cardinality({a \in Assets : torn[a]}) + Cardinality(rewound) <= 1
    /\ \A a \in Assets : Cardinality(Written(server[a])) <= 1 /\ server[a].version <= Len(server[a].log) + 2

Interchangeable == Permutations(Flights)
=============================================================================
