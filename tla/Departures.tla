------------------------------ MODULE Departures ------------------------------
(***************************************************************************)
(* The departure of model/internal.go and the pure steps of the ingester   *)
(* on lists of departures: which departure of a message is the one that    *)
(* counts (NewDeps), what a cached list becomes when it is combined with   *)
(* new departures (Combined), which departures are dropped (Expired), and  *)
(* the order they are stored in (Before).                                  *)
(*                                                                         *)
(* Times are instants (natural numbers): a departure time is always parsed *)
(* from RFC 3339 before it is compared.  A text that does not parse is     *)
(* part of a malformed message, see Ingester.  Journey references, and the *)
(* letters of service numbers, are natural numbers: all that the code does *)
(* with them here is to compare them.                                      *)
(***************************************************************************)
EXTENDS Naturals, Sequences, FiniteSets, SequencesExt

CONSTANTS JourneyRefs,    \* journeyRef, "a unique identifier for the journey at the location"
          Services,       \* serviceNumber with its operatorCode
          NumberOf,       \* the serviceNumber of a service and its parts
          Stops,          \* ATCO codes of stops
          Areas,          \* ATCO codes of stop areas
          Places,         \* destinationAtcocode
          Destinations,   \* texts shown as the destination
          MaxTime,        \* bound on the instants
          NoTime,         \* a nil ExpectedDepartureTime
          Nil             \* a part that a service number does not have

ASSUME DeparturesAssumption ==
    /\ JourneyRefs \subseteq Nat
    /\ MaxTime \in Nat
    /\ NoTime \notin Nat
    /\ Stops \cap Areas = {}

\* GetServiceNumberParts gives two services the same parts.
SameParts(s, t) ==
    /\ NumberOf[s].prefix = NumberOf[t].prefix
    /\ NumberOf[s].digits = NumberOf[t].digits
    /\ NumberOf[s].suffix = NumberOf[t].suffix

\* A service number is taken to be written in one way: case and leading zeros,
\* which GetServiceNumberParts drops, do not tell two of them apart.
ASSUME NumbersAssumption ==
    /\ Nil \notin Nat
    /\ NumberOf \in [ Services -> [ text : Nat, prefix : Nat \cup {Nil},
                                   digits : Nat \cup {Nil}, suffix : Nat \cup {Nil} ] ]
    /\ \A s, t \in Services : NumberOf[s].text = NumberOf[t].text <=> SameParts(s, t)
    /\ \A s \in Services : NumberOf[s].digits = Nil => NumberOf[s].suffix = Nil

Times == 0 .. MaxTime

\* The keys of the departures database.
Locations == Stops \cup Areas

Departure == [ journeyRef       : JourneyRefs,
               aimed            : Times,
               expected         : Times \cup {NoTime},
               location         : Stops,
               service          : Services,
               destinationPlace : Places,
               destination      : Destinations ]

\* The expected time if the departure is tracked, the aimed time otherwise.
DepartureTime(d) == IF d.expected # NoTime THEN d.expected ELSE d.aimed

\* removeExpiredDepartures drops d when its time is Before(now): a departure
\* that leaves at this very instant is kept.
Expired(d, now) == DepartureTime(d) < now

\* lessByServiceNumber, of two numbers that are not the same text: by prefix, by
\* digits and by suffix.  One without a prefix or a suffix comes before those with
\* one, but one without digits comes after those with digits.
LessByServiceNumber(m, n) ==
    \/ /\ m.prefix # n.prefix
       /\ (m.prefix = Nil \/ (n.prefix # Nil /\ m.prefix < n.prefix))
    \/ m.prefix = n.prefix /\ n.digits = Nil
    \/ /\ m.prefix = n.prefix /\ m.digits # Nil /\ n.digits # Nil
       /\ \/ m.digits < n.digits
          \/ /\ m.digits = n.digits
             /\ (m.suffix = Nil \/ (n.suffix # Nil /\ m.suffix < n.suffix))

\* ByDepartureTime.Less: by time, then by service number, then by journey.
Before(d, e) ==
    LET m == NumberOf[d.service]
        n == NumberOf[e.service]
    IN  \/ DepartureTime(d) < DepartureTime(e)
        \/ /\ DepartureTime(d) = DepartureTime(e)
           /\ \/ m.text # n.text /\ LessByServiceNumber(m, n)
              \/ m.text = n.text /\ d.journeyRef < e.journeyRef

-----------------------------------------------------------------------------
(* combineCachedAndNewDepartures *)

\* The values of the map newDeps, built from the departures at the positions
\* g of the list m: of those with one journeyRef the last one counts.
NewDeps(m, g) ==
    { m[k] : k \in {i \in g : \A j \in g : m[j].journeyRef = m[i].journeyRef => j <= i} }

\* No earlier departure of the list has the reference of its i-th one: the
\* entry of newDeps is deleted when the reference is met, so that a later
\* departure with it stays as it is.
IsFirst(cached, i) ==
    \A j \in DOMAIN cached : cached[j].journeyRef = cached[i].journeyRef => i <= j

\* What is at position i after "replace existing departures".
Replaced(cached, new, i) ==
    IF IsFirst(cached, i) /\ \E n \in new : n.journeyRef = cached[i].journeyRef
    THEN CHOOSE n \in new : n.journeyRef = cached[i].journeyRef
    ELSE cached[i]

\* Variant: entries are not deleted from newDeps when they are used.
AddedAgain(cached, new) == new

\* The new departures that no cached departure has used up.
Added(cached, new) ==
    {n \in new : \A i \in DOMAIN cached : cached[i].journeyRef # n.journeyRef}

\* The combined list as a set of tagged departures: the position for those
\* that come from the cache, 0 for those appended (in an order that is of no
\* account: newDeps is a map, and the list is sorted afterwards).
Combined(cached, new) ==
    { <<i, Replaced(cached, new, i)>> : i \in DOMAIN cached }
      \cup { <<0, n>> : n \in Added(cached, new) }

\* The lists that removeExpiredDepartures and sort.Sort may leave of the
\* combined list: its unexpired members in an order in which none is after
\* one that is Before it (sort.Sort is not stable: ties come in any order).
Refreshed(cached, new, now) ==
    LET kept == {t \in Combined(cached, new) : ~ Expired(t[2], now)}
    IN  { [k \in DOMAIN q |-> q[k][2]] :
            q \in { p \in SetToSeqs(kept) :
                      \A i, j \in DOMAIN p : i < j => ~ Before(p[j][2], p[i][2]) } }

-----------------------------------------------------------------------------
\* The list is in the order of ByDepartureTime.
InOrder(s) == \A i, j \in DOMAIN s : i < j => ~ Before(s[j], s[i])

\* A journey is listed once.
NoDuplicates(s) == \A i, j \in DOMAIN s : s[i].journeyRef = s[j].journeyRef => i = j
=============================================================================
