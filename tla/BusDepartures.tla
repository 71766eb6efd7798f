----------------------------- MODULE BusDepartures -----------------------------
(***************************************************************************)
(* The way of a bus departure from OPTIS to a passenger: optis-poller      *)
(* (optis-poller/optis_poller.go) asks OPTIS what is expected to depart    *)
(* from a bus station, drops what cannot be shown and publishes the rest   *)
(* as one message, SNS brings the message to the ingester, and the         *)
(* presenter reads the list that the ingester keeps for a stop.            *)
(*                                                                         *)
(* SNS delivers a message once, again, late or never: published messages   *)
(* stay and any of them can be delivered at any time, to several ingesters *)
(* at once.  Of an ingester this module has what it does to the list of    *)
(* the stop; Ingester has the rest.  A request to OPTIS or to SNS that     *)
(* fails changes nothing, and is left out.                                 *)
(***************************************************************************)
EXTENDS Presenter, Departures

CONSTANTS Responses,    \* what OPTIS may answer: sequences of visits to the stop
          Fields,       \* the rest of a departure: location, service, destination
          Ingesters,    \* bound on the deliveries that are in process at once
          MaxPolls      \* bound on the number of messages

\* What the poller looks at of a MonitoredStopVisit.
Visit == [ journeyRef : JourneyRefs, aimed : Times, expected : Times, origin : Times,
           cancelled : BOOLEAN ]

ASSUME BusAssumption ==
    /\ Responses \subseteq Seq(Visit)
    /\ Fields \in [ location : Stops, service : Services, destinationPlace : Places,
                    destination : Destinations ]
    /\ MaxPolls \in Nat
    /\ \A d \in Departure, t \in FirstTime .. LastTime : IsExpired(d, t) = Expired(d, t)

VARIABLES
    published,      \* the messages published, oldest first
    ingester,       \* where each delivery is, with its local variables
    delivered,      \* history: the messages that were ingested, by number
    late,           \* history: one was ingested after a newer one
    overlapped      \* history: a list was stored while another was being made of the same

delivery == <<ingester, delivered, late, overlapped>>

vars == <<presenter, published, delivery>>

Idle == [pc |-> "idle"]

Init ==
    /\ InitPresenter
    /\ published = << >>
    /\ ingester = [i \in Ingesters |-> Idle]
    /\ delivered = {} /\ late = FALSE /\ overlapped = FALSE

-----------------------------------------------------------------------------
(* optis-poller *)

\* time.Time{}, the instant that stands for a time that is not given.
Zero == 0

\* Variant: the expected departure is compared with the origin's.
KeptByExpected(v) ==
    /\ v.expected # Zero \/ v.aimed # Zero
    /\ v.expected >= v.origin
    /\ ~ v.cancelled

\* filter: hasDepartureTime, not erroneousRecord, not cancelledJourney.
Kept(v) ==
    /\ v.expected # Zero \/ v.aimed # Zero
    /\ v.aimed >= v.origin
    /\ ~ v.cancelled

\* transform: a time that is not given is written as any other, but for the
\* expected time.
Transformed(v) ==
    [ journeyRef |-> v.journeyRef, aimed |-> v.aimed,
      expected |-> IF v.expected = Zero THEN NoTime ELSE v.expected,
      location |-> Fields.location, service |-> Fields.service,
      destinationPlace |-> Fields.destinationPlace, destination |-> Fields.destination ]

\* What filter and transform make of a response, in a set: the visits that are
\* kept, in their order.
Messages(response) ==
    LET kept   == {k \in DOMAIN response : Kept(response[k])}
        places == 1 .. Cardinality(kept)
    IN  { [i \in places |-> Transformed(response[f[i]])] :
            f \in {g \in [places -> kept] : \A i, j \in places : i < j => g[i] < g[j]} }

\* Handler.
Poll ==
    /\ Len(published) < MaxPolls
    /\ \E response \in Responses : \E m \in Messages(response) : published' = Append(published, m)
    /\ UNCHANGED <<presenter, delivery>>

-----------------------------------------------------------------------------
(* SNS and the ingester *)

Goto(i, state) == ingester' = [ingester EXCEPT ![i] = state]

\* What delivered and late are after message n.
Ingested(n) ==
    /\ delivered' = delivered \cup {n}
    /\ late' = (late \/ \E m \in delivered : m > n)

\* removeExpiredDepartures leaves nothing of the message, and that is all.
Deliver(i) ==
    /\ ingester[i].pc = "idle"
    /\ \E n \in DOMAIN published :
         LET live == {k \in DOMAIN published[n] : ~ Expired(published[n][k], clock)}
         IN  \/ /\ live = {}
                /\ Ingested(n)
                /\ UNCHANGED ingester
             \/ /\ live # {}
                /\ Goto(i, [pc |-> "length", message |-> n, live |-> live])
                /\ UNCHANGED <<delivered, late>>
    /\ UNCHANGED <<presenter, published, overlapped>>

\* getDeparturesFromCache: LLEN, and LRANGE unless it was 0.
ReadLength(i) ==
    LET w == ingester[i]
    IN  /\ w.pc = "length"
        /\ Goto(i, IF list = << >>
                   THEN [pc |-> "combine", message |-> w.message, live |-> w.live, cached |-> << >>]
                   ELSE [pc |-> "range", message |-> w.message, live |-> w.live, length |-> Len(list)])
        /\ UNCHANGED <<presenter, published, delivered, late, overlapped>>

ReadList(i) ==
    LET w == ingester[i]
    IN  /\ w.pc = "range"
        /\ Goto(i, [ pc |-> "combine", message |-> w.message, live |-> w.live,
                     cached |-> SubSeq(list, 1, IF w.length < Len(list) THEN w.length ELSE Len(list)) ])
        /\ UNCHANGED <<presenter, published, delivered, late, overlapped>>

\* Variant: a journey that is in the list keeps its departure.
CombineNewOnly(i) ==
    LET w   == ingester[i]
        new == {n \in NewDeps(published[w.message], w.live) :
                  \A d \in Range(w.cached) : d.journeyRef # n.journeyRef}
    IN  /\ w.pc = "combine"
        /\ \E l \in Refreshed(w.cached, new, clock) :
             Goto(i, [pc |-> "store", message |-> w.message, list |-> l, purged |-> clock])
        /\ UNCHANGED <<presenter, published, delivered, late, overlapped>>

\* combineCachedAndNewDepartures, removeExpiredDepartures and sort.Sort.
Combine(i) ==
    LET w == ingester[i]
    IN  /\ w.pc = "combine"
        /\ \E l \in Refreshed(w.cached, NewDeps(published[w.message], w.live), clock) :
             Goto(i, [pc |-> "store", message |-> w.message, list |-> l, purged |-> clock])
        /\ UNCHANGED <<presenter, published, delivered, late, overlapped>>

\* updateCachedData.
Store(i) ==
    LET w == ingester[i]
    IN  /\ w.pc = "store"
        /\ Replace(w.list, w.purged)
        /\ Ingested(w.message)
        /\ overlapped' = (overlapped \/ \E j \in Ingesters \ {i} :
                              ingester[j].pc \in {"range", "combine", "store"})
        /\ Goto(i, Idle)
        /\ UNCHANGED published

\* A command fails, or the process ends.
Abandon(i) ==
    /\ ingester[i].pc # "idle"
    /\ Goto(i, Idle)
    /\ UNCHANGED <<presenter, published, delivered, late, overlapped>>

-----------------------------------------------------------------------------
Ingest(i) ==
    Deliver(i) \/ ReadLength(i) \/ ReadList(i) \/ Combine(i) \/ Store(i) \/ Abandon(i)

Present == Handler /\ UNCHANGED <<published, delivery>>

Next ==
    \/ Poll
    \/ \E i \in Ingesters : Ingest(i)
    \/ Present
    \/ (Receive \/ Tick) /\ UNCHANGED <<published, delivery>>

Spec == Init /\ [][Next]_vars

\* The presenter goes on whatever is ingested.
FairSpec == Spec /\ WF_vars(Present)

-----------------------------------------------------------------------------
(* Properties *)

IngesterState ==
    [pc : {"idle"}]
    \cup [pc : {"length"}, message : DOMAIN published, live : SUBSET Nat]
    \cup [pc : {"range"}, message : DOMAIN published, live : SUBSET Nat, length : Nat]
    \cup [pc : {"combine"}, message : DOMAIN published, live : SUBSET Nat, cached : Seq(Departure)]
    \cup [pc : {"store"}, message : DOMAIN published, list : Seq(Departure), purged : FirstTime .. clock]

TypeOK ==
    /\ clock \in FirstTime .. LastTime /\ now \in FirstTime .. clock
    /\ pc \in {"idle", "assign", "remove", "done", "error"}
    /\ top \in Tops \cup {1} /\ start \in Nat /\ end \in Nat
    /\ Len(deps) <= top
    /\ list \in Seq(Departure) /\ deps \in Seq(Departure)
    /\ published \in Seq(Seq(Departure)) /\ Len(published) <= MaxPolls
    /\ ingester \in [Ingesters -> IngesterState]
    /\ delivered \subseteq DOMAIN published
    /\ changed \in BOOLEAN /\ outdated \in BOOLEAN
    /\ late \in BOOLEAN /\ overlapped \in BOOLEAN

\* A message after the n-th has been ingested that has d's journey.
Superseded(n, d) ==
    \E i \in delivered : i > n /\ \E e \in Range(published[i]) : e.journeyRef = d.journeyRef

\* Unless a message overtakes another one on its way, or two are ingested at once
\* so that one list is stored between the reading and the storing of the other,
\* and however often a message is delivered, or given up, the list has what the
\* newest message says of each journey, once, whatever the clock and the
\* presenter do while it is made.  The one exception is a journey that by this
\* message has already left: such a departure is dropped on its arrival, and an
\* older one may stay in its place.
ListIsNewest ==
    (~ late /\ ~ overlapped) =>
        \A n \in delivered : \A d \in NewDeps(published[n], DOMAIN published[n]) :
            (~ Superseded(n, d) /\ ~ Expired(d, clock)) =>
                /\ \E k \in DOMAIN list : list[k] = d
                /\ \A k \in DOMAIN list : list[k].journeyRef = d.journeyRef => list[k] = d

\* Every departure that a passenger is told of is one that OPTIS reported with a
\* time, not as cancelled, and not as leaving before it leaves its origin (the
\* poller calls that an erroneous record); and a time counts as expected only if
\* OPTIS expected it.
PresentedWasKept ==
    pc = "done" =>
        \A k \in DOMAIN deps :
            \E response \in Responses : \E v \in Range(response) :
                /\ v.journeyRef = deps[k].journeyRef /\ v.aimed = deps[k].aimed
                /\ ~ v.cancelled /\ v.aimed >= v.origin
                /\ deps[k].expected = IF v.expected = Zero THEN NoTime ELSE v.expected
                /\ DepartureTime(deps[k]) # Zero
=============================================================================
