----------------------------- MODULE CombineLoop ------------------------------
(***************************************************************************)
(* What ingestLocation computes between reading a list and writing it,     *)
(* loop iteration by loop iteration as the code does it:                   *)
(* combineCachedAndNewDepartures with its map newDeps,                     *)
(* removeExpiredDepartures compacting the slice in place, and sort.Sort.   *)
(* Module Departures has the same computation in closed form (Refreshed),  *)
(* which Ingester uses for one atomic step.                                *)
(***************************************************************************)
EXTENDS Departures

CONSTANTS Candidates,   \* departures that the lists are made of
          MaxCached,    \* bound on the length of the cached list
          MaxNew        \* bound on the number of new departures

ASSUME CombineLoopAssumption == Candidates \subseteq Departure

VARIABLES cachedList,    \* the list read from the cache
          newDepartures, \* the departures of the group
          instant,       \* time.Now()
          loop,          \* "map", "replace", "append", "expire", "sort", "done"
          position,      \* where the loop that is running is
          keptSoFar,     \* removeExpiredDepartures: how many were kept
          newDeps,       \* the map, as the set of its values
          departures     \* departures.Departures

loopVars == <<cachedList, newDepartures, instant, loop, position, keptSoFar, newDeps, departures>>

ListsOf(n) == UNION { [1 .. k -> Candidates] : k \in 0 .. n }

LoopInit ==
    /\ cachedList \in ListsOf(MaxCached)
    /\ newDepartures \in ListsOf(MaxNew)
    /\ instant \in Times
    /\ loop = "map" /\ position = 1 /\ keptSoFar = 0
    /\ newDeps = {}
    /\ departures = cachedList

Without(ref) == {n \in newDeps : n.journeyRef # ref}

\* This loop, over list, is at its end: the one called next begins.
Ends(this, list, next) ==
    /\ loop = this /\ position > Len(list)
    /\ loop' = next /\ position' = 1
    /\ UNCHANGED <<cachedList, newDepartures, instant, keptSoFar, newDeps>>

\* newDeps[departure.JourneyRef] = departure
MapNew ==
    \/ /\ loop = "map" /\ position <= Len(newDepartures)
       /\ newDeps' = Without(newDepartures[position].journeyRef) \cup {newDepartures[position]}
       /\ position' = position + 1
       /\ UNCHANGED <<cachedList, newDepartures, instant, loop, keptSoFar, departures>>
    \/ Ends("map", newDepartures, "replace") /\ UNCHANGED departures

\* Variant: without delete(newDeps, ref).
ReplaceKeepingEntry ==
    \/ /\ loop = "replace" /\ position <= Len(departures)
       /\ LET same == newDeps \ Without(departures[position].journeyRef)
          IN  departures' = [departures EXCEPT ![position] = IF same # {} THEN CHOOSE n \in same : TRUE ELSE @]
       /\ position' = position + 1
       /\ UNCHANGED <<cachedList, newDepartures, instant, loop, keptSoFar, newDeps>>
    \/ Ends("replace", departures, "append") /\ UNCHANGED departures

Replace ==
    \/ /\ loop = "replace" /\ position <= Len(departures)
       /\ LET same == newDeps \ Without(departures[position].journeyRef)
          IN  departures' = [departures EXCEPT ![position] = IF same # {} THEN CHOOSE n \in same : TRUE ELSE @]
       /\ newDeps' = Without(departures[position].journeyRef)
       /\ position' = position + 1
       /\ UNCHANGED <<cachedList, newDepartures, instant, loop, keptSoFar>>
    \/ Ends("replace", departures, "append") /\ UNCHANGED departures

\* The order of a range over a map is not specified.
AppendNew ==
    \/ /\ loop = "append"
       /\ \E n \in newDeps :
            /\ departures' = Append(departures, n)
            /\ newDeps' = newDeps \ {n}
       /\ UNCHANGED <<cachedList, newDepartures, instant, loop, position, keptSoFar>>
    \/ /\ loop = "append" /\ newDeps = {}
       /\ loop' = "expire"
       /\ UNCHANGED <<cachedList, newDepartures, instant, position, keptSoFar, newDeps, departures>>

\* Variant: the slice is not cut.
RemoveExpiredUncut ==
    \/ /\ loop = "expire" /\ position <= Len(departures)
       /\ IF Expired(departures[position], instant)
          THEN UNCHANGED <<departures, keptSoFar>>
          ELSE /\ departures' = [departures EXCEPT ![keptSoFar + 1] = departures[position]]
               /\ keptSoFar' = keptSoFar + 1
       /\ position' = position + 1
       /\ UNCHANGED <<cachedList, newDepartures, instant, loop, newDeps>>
    \/ Ends("expire", departures, "sort") /\ UNCHANGED departures

\* Kept departures move to the front of the slice, which is cut at the end.
RemoveExpired ==
    \/ /\ loop = "expire" /\ position <= Len(departures)
       /\ IF Expired(departures[position], instant)
          THEN UNCHANGED <<departures, keptSoFar>>
          ELSE /\ departures' = [departures EXCEPT ![keptSoFar + 1] = departures[position]]
               /\ keptSoFar' = keptSoFar + 1
       /\ position' = position + 1
       /\ UNCHANGED <<cachedList, newDepartures, instant, loop, newDeps>>
    \/ Ends("expire", departures, "sort") /\ departures' = SubSeq(departures, 1, keptSoFar)

\* sort.Sort: some permutation that is in the order of Less.
Sort ==
    /\ loop = "sort"
    /\ \E p \in Bijection(DOMAIN departures, DOMAIN departures) :
         LET sorted == [k \in DOMAIN departures |-> departures[p[k]]]
         IN  InOrder(sorted) /\ departures' = sorted
    /\ loop' = "done"
    /\ UNCHANGED <<cachedList, newDepartures, instant, position, keptSoFar, newDeps>>

LoopNext == MapNew \/ Replace \/ AppendNew \/ RemoveExpired \/ Sort

LoopSpec == LoopInit /\ [][LoopNext]_loopVars

-----------------------------------------------------------------------------
(* Properties *)

\* The loops, with the entries deleted from the map, the slice overwritten
\* while it is read and cut afterwards, compute what Refreshed says, for
\* every cached list: unsorted ones and ones with a journey twice included.
LoopsComputeRefreshed ==
    loop = "done" =>
        departures \in Refreshed(cachedList, NewDeps(newDepartures, DOMAIN newDepartures), instant)

\* A new departure wins over the cached one of its journey, and a journey that
\* the cache has once, or not at all, is there at most once afterwards.
NewestOnce ==
    loop = "done" /\ NoDuplicates(cachedList) =>
        /\ NoDuplicates(departures)
        /\ \A k \in DOMAIN departures : \A n \in NewDeps(newDepartures, DOMAIN newDepartures) :
             departures[k].journeyRef = n.journeyRef => departures[k] = n
=============================================================================
