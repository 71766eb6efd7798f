--------------------------- MODULE DeparturesCache ----------------------------
(***************************************************************************)
(* What the ingester promises of the departures database: the list of a    *)
(* location changes only by an ingestion, which combines the departures    *)
(* that are in the database at that moment with a batch of new ones, drops *)
(* the expired ones and sorts the rest, all at once.                       *)
(***************************************************************************)
EXTENDS Departures

CONSTANT Batches    \* the sets of departures that an ingestion may bring

VARIABLES now,      \* the clock
          cache     \* the departures database

vars == <<now, cache>>

Init == /\ now \in Times
        /\ cache = [l \in Locations |-> << >>]

\* The clock may have been read some time before the list is stored.
Ingest(l) ==
    /\ \E new \in Batches, t \in 0 .. now :
         \E list \in Refreshed(cache[l], new, t) : cache' = [cache EXCEPT ![l] = list]
    /\ UNCHANGED now

Tick == /\ now < MaxTime
        /\ now' = now + 1
        /\ UNCHANGED cache

Next == Tick \/ \E l \in Locations : Ingest(l)

Spec == Init /\ [][Next]_vars
=============================================================================
