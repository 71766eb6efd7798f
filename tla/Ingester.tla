------------------------------- MODULE Ingester -------------------------------
(***************************************************************************)
(* ingester/ingester.go: the Lambda function that brings the departures    *)
(* of SNS events into the departures database.                             *)
(*                                                                         *)
(* A few instances of the function share the database.  An instance serves *)
(* one event at a time.  Handler starts a goroutine for every record of    *)
(* the event; that one starts a goroutine for the stops and one for the    *)
(* stop areas of the record's departures, and these start one per location *)
(* (a "task" below), which reads the location's list, combines it with the *)
(* new departures and writes it back.  Errors go over the channel errs to  *)
(* Handler.  The three maps in which an instance remembers what it found   *)
(* in the reference databases live as long as the instance.                *)
(***************************************************************************)
EXTENDS Departures

CONSTANTS Instances,            \* instances of the Lambda function
          Records,              \* places for the records of an event ...
          InstanceOf,           \* ... and the instance that each belongs to
          Messages,             \* the lists of departures that records carry
          Malformed,            \* a record that cannot be unmarshalled or parsed
          NoName, NoArea,       \* redis.ErrNil: the database has no such key
          CircularDestination,  \* circular services database
          LocalityName,         \* locality names database
          AreaOf,               \* stops in area database
          MaxEvents, MaxFaults  \* bounds on events delivered and on failures

ASSUME IngesterAssumption ==
    /\ InstanceOf \in [Records -> Instances]
    /\ Messages \subseteq Seq(Departure)
    /\ Malformed \notin Messages
    /\ CircularDestination \in [Services -> Destinations \cup {NoName}]
    /\ LocalityName \in [Places -> Destinations \cup {NoName}]
    /\ AreaOf \in [Stops -> Areas \cup {NoArea}]
    /\ MaxEvents \in Nat /\ MaxFaults \in Nat

VARIABLES
    now,                \* the clock
    cache,              \* departures database
    handler,            \* by instance: "idle", "serving", "closed" (errs is), "crashed"
    result,             \* by instance: what Handler last returned
    gErr,               \* by instance: an error was received from errs
    circularServices,   \* by instance: the keys of the map of that name
    localityNames,      \* by instance: the keys of the map of that name
    stopsInArea,        \* by instance: the keys of the map of that name
    msg,                \* by record: newDepartures
    live,               \* by record: its positions that are not removed as expired
    record,             \* by record: where its goroutine is
    todo,               \* by record: positions left for updateDestinationNames
    stops,              \* by record: where the stops goroutine is
    areas,              \* by record: where the stop areas goroutine is
    areaTodo,           \* by record: positions left for groupByStopArea
    task,               \* by record and location: ingestLocation's goroutine
    events, faults      \* events delivered and failures so far

memos   == <<circularServices, localityNames, stopsInArea>>
payload == <<msg, live, todo, areaTodo>>
pcs     == <<record, stops, areas, task>>
outcome == <<handler, result, gErr>>
bounds  == <<events, faults>>
vars    == <<now, cache, outcome, memos, payload, pcs, bounds>>

Tasks == Records \X Locations

Off == [pc |-> "off", len |-> 0, list |-> << >>]

RecordsOf(i) == {r \in Records : InstanceOf[r] = i}

Init ==
    /\ now \in Times
    /\ cache = [l \in Locations |-> << >>]
    /\ handler = [i \in Instances |-> "idle"]
    /\ result = [i \in Instances |-> "none"]
    /\ gErr = [i \in Instances |-> FALSE]
    /\ circularServices = [i \in Instances |-> {}]
    /\ localityNames = [i \in Instances |-> {}]
    /\ stopsInArea = [i \in Instances |-> {}]
    /\ msg = [r \in Records |-> Malformed]
    /\ live = [r \in Records |-> {}]
    /\ record = [r \in Records |-> "off"]
    /\ todo = [r \in Records |-> {}]
    /\ stops = [r \in Records |-> "off"]
    /\ areas = [r \in Records |-> "off"]
    /\ areaTodo = [r \in Records |-> {}]
    /\ task = [t \in Tasks |-> Off]
    /\ events = 0 /\ faults = 0

-----------------------------------------------------------------------------
(* What the steps have in common *)

\* The memo maps hold what the reference databases hold: a key is in the
\* map once it was looked up, whether the database has it or not.

\* Variant: the locality's name is used without asking whether there is one.
ResolvedUnchecked(d) ==
    IF CircularDestination[d.service] # NoName
    THEN CircularDestination[d.service]
    ELSE LocalityName[d.destinationPlace]

\* The destination that updateDestinationNames leaves.
Resolved(d) ==
    IF CircularDestination[d.service] # NoName
    THEN CircularDestination[d.service]
    ELSE IF LocalityName[d.destinationPlace] # NoName
         THEN LocalityName[d.destinationPlace]
         ELSE d.destination

\* The loops over a record's departures go by position.
IsNext(k, positions) == k \in positions /\ \A j \in positions : k <= j

\* groupByStop and groupByStopArea: the positions of r's departures for l.
Group(r, l) ==
    {k \in live[r] : l \in {msg[r][k].location, AreaOf[msg[r][k].location]}}

\* The goroutines for the locations of kind (Stops or Areas) that have a group.
Started(r, kind) ==
    [t \in Tasks |-> IF t[1] = r /\ t[2] \in kind /\ Group(r, t[2]) # {}
                     THEN [Off EXCEPT !.pc = "llen"]
                     ELSE task[t]]

Finished(r, kind) == \A l \in kind : task[<<r, l>>].pc \in {"off", "done"}

\* The process ends: none of its goroutines takes another step.
Dies(i) ==
    /\ handler' = [handler EXCEPT ![i] = "crashed"]
    /\ record' = [r \in Records |-> IF r \in RecordsOf(i) THEN "off" ELSE record[r]]
    /\ stops' = [r \in Records |-> IF r \in RecordsOf(i) THEN "off" ELSE stops[r]]
    /\ areas' = [r \in Records |-> IF r \in RecordsOf(i) THEN "off" ELSE areas[r]]
    /\ task' = [t \in Tasks |-> IF t[1] \in RecordsOf(i) THEN Off ELSE task[t]]
    /\ UNCHANGED <<now, cache, result, gErr, memos, payload>>

\* A call to Redis returns an error.
Fault == faults < MaxFaults /\ faults' = faults + 1 /\ UNCHANGED events

\* A goroutine sends on errs and Handler receives.  The channel is not
\* buffered, and a send on it once it is closed would be a panic.
SendErr(r) ==
    /\ handler[InstanceOf[r]] = "serving"
    /\ gErr' = [gErr EXCEPT ![InstanceOf[r]] = TRUE]

-----------------------------------------------------------------------------
(* Handler *)

\* An event with a record in each of the places of a set arrives, and Handler
\* starts the goroutines of its records.  What an earlier event left in the
\* places is gone.
Deliver(i) ==
    /\ handler[i] = "idle"
    /\ events < MaxEvents
    /\ handler' = [handler EXCEPT ![i] = "serving"]
    /\ gErr' = [gErr EXCEPT ![i] = FALSE]
    /\ \E R \in SUBSET RecordsOf(i) : \E m \in [R -> Messages \cup {Malformed}] :
         /\ msg' = [r \in Records |-> IF r \in R THEN m[r] ELSE msg[r]]
         /\ record' = [r \in Records |-> IF r \in R THEN "start"
                                         ELSE IF r \in RecordsOf(i) THEN "off" ELSE record[r]]
    /\ live' = [r \in Records |-> IF r \in RecordsOf(i) THEN {} ELSE live[r]]
    /\ stops' = [r \in Records |-> IF r \in RecordsOf(i) THEN "off" ELSE stops[r]]
    /\ areas' = [r \in Records |-> IF r \in RecordsOf(i) THEN "off" ELSE areas[r]]
    /\ task' = [t \in Tasks |-> IF t[1] \in RecordsOf(i) THEN Off ELSE task[t]]
    /\ events' = events + 1
    /\ UNCHANGED <<now, cache, result, memos, todo, areaTodo, faults>>

\* wg.Wait(); close(errs)
CloseErrs(i) ==
    /\ handler[i] = "serving"
    /\ \A r \in RecordsOf(i) : record[r] \in {"off", "done"}
    /\ handler' = [handler EXCEPT ![i] = "closed"]
    /\ UNCHANGED <<now, cache, result, gErr, memos, payload, pcs, bounds>>

\* The loop over errs ends, and Handler returns.
Return(i) ==
    /\ handler[i] = "closed"
    /\ handler' = [handler EXCEPT ![i] = "idle"]
    /\ result' = [result EXCEPT ![i] = IF gErr[i] THEN "error" ELSE "ok"]
    /\ UNCHANGED <<now, cache, gErr, memos, payload, pcs, bounds>>

-----------------------------------------------------------------------------
(* The goroutine of a record *)

\* Unmarshalling and removeExpiredDepartures.
RecordStart(r) ==
    /\ record[r] = "start"
    /\ IF msg[r] = Malformed
       THEN /\ record' = [record EXCEPT ![r] = "fail"]
            /\ UNCHANGED payload
       ELSE LET kept == {k \in DOMAIN msg[r] : ~ Expired(msg[r][k], now)}
            IN  /\ record' = [record EXCEPT ![r] = "dest"]
                /\ live' = [live EXCEPT ![r] = kept]
                /\ todo' = [todo EXCEPT ![r] = kept]
                /\ UNCHANGED <<msg, areaTodo>>
    /\ UNCHANGED <<now, cache, outcome, memos, stops, areas, task, bounds>>

\* updateDestinationNames for one departure: the circular services database
\* first, the locality names database unless the service is circular.
UpdateDestinationName(r) ==
    /\ record[r] = "dest"
    /\ \E k \in todo[r] :
        LET i == InstanceOf[r]
            d == msg[r][k]
        IN  /\ IsNext(k, todo[r])
            /\ msg' = [msg EXCEPT ![r] = [@ EXCEPT ![k] = [d EXCEPT !.destination = Resolved(d)]]]
            /\ todo' = [todo EXCEPT ![r] = @ \ {k}]
            /\ circularServices' = [circularServices EXCEPT ![i] = @ \cup {d.service}]
            /\ localityNames' =
                 IF CircularDestination[d.service] = NoName
                 THEN [localityNames EXCEPT ![i] = @ \cup {d.destinationPlace}]
                 ELSE localityNames
    /\ UNCHANGED <<now, cache, outcome, stopsInArea, live, areaTodo, pcs, bounds>>

\* Variant: the error is ignored, and the departure left as it came.
DestinationNameSkipped(r) ==
    /\ record[r] = "dest"
    /\ \E k \in todo[r] : /\ IsNext(k, todo[r])
                          /\ todo' = [todo EXCEPT ![r] = @ \ {k}]
    /\ Fault
    /\ UNCHANGED <<now, cache, outcome, memos, msg, live, areaTodo, pcs>>

\* One of the two GETs fails: nothing is remembered for its key.
DestinationNameFails(r) ==
    /\ record[r] = "dest"
    /\ \E k \in todo[r] :
        LET i == InstanceOf[r]
            d == msg[r][k]
        IN  /\ IsNext(k, todo[r])
            /\ \/ /\ d.service \notin circularServices[i]
                  /\ UNCHANGED circularServices
               \/ /\ CircularDestination[d.service] = NoName
                  /\ d.destinationPlace \notin localityNames[i]
                  /\ circularServices' = [circularServices EXCEPT ![i] = @ \cup {d.service}]
    /\ record' = [record EXCEPT ![r] = "fail"]
    /\ Fault
    /\ UNCHANGED <<now, cache, outcome, localityNames, stopsInArea, payload, stops, areas, task>>

\* All destinations are updated: the goroutines for stops and stop areas start.
StartStopsAndAreas(r) ==
    /\ record[r] = "dest" /\ todo[r] = {}
    /\ record' = [record EXCEPT ![r] = "wait"]
    /\ stops' = [stops EXCEPT ![r] = "group"]
    /\ areas' = [areas EXCEPT ![r] = "group"]
    /\ areaTodo' = [areaTodo EXCEPT ![r] = live[r]]
    /\ UNCHANGED <<now, cache, outcome, memos, msg, live, todo, task, bounds>>

\* <-stopsDone; <-stopAreasDone.  The channel done is not closed yet.
RecordDone(r) ==
    /\ record[r] = "wait" /\ stops[r] = "done" /\ areas[r] = "done"
    /\ record' = [record EXCEPT ![r] = "done"]
    /\ UNCHANGED <<now, cache, outcome, memos, payload, stops, areas, task, bounds>>

\* errs <- err; return
RecordSendsErr(r) ==
    /\ record[r] = "fail"
    /\ SendErr(r)
    /\ record' = [record EXCEPT ![r] = "done"]
    /\ UNCHANGED <<now, cache, handler, result, memos, payload, stops, areas, task, bounds>>

-----------------------------------------------------------------------------
(* The goroutines of a record for its stops and its stop areas *)

GroupByStop(r) ==
    /\ stops[r] = "group"
    /\ task' = Started(r, Stops)
    /\ stops' = [stops EXCEPT ![r] = "wait"]
    /\ UNCHANGED <<now, cache, outcome, memos, payload, record, areas, bounds>>

\* swg.Wait(); close(stopsDone)
StopsDone(r) ==
    /\ stops[r] = "wait" /\ Finished(r, Stops)
    /\ stops' = [stops EXCEPT ![r] = "done"]
    /\ UNCHANGED <<now, cache, outcome, memos, payload, record, areas, task, bounds>>

\* getStopArea finds the stop in the map with a nil value, for a stop that is
\* in no area, and dereferences it.
NilStopArea(r, stop) == stop \in stopsInArea[InstanceOf[r]] /\ AreaOf[stop] = NoArea

\* appendDepartureToStopArea for one departure.
AppendDepartureToStopArea(r) ==
    /\ areas[r] = "group"
    /\ \E k \in areaTodo[r] :
        /\ IsNext(k, areaTodo[r])
        /\ ~ NilStopArea(r, msg[r][k].location)
        /\ stopsInArea' = [stopsInArea EXCEPT ![InstanceOf[r]] = @ \cup {msg[r][k].location}]
        /\ areaTodo' = [areaTodo EXCEPT ![r] = @ \ {k}]
    /\ UNCHANGED <<now, cache, outcome, circularServices, localityNames,
                   msg, live, todo, pcs, bounds>>

StopAreaPanics(r) ==
    /\ areas[r] = "group"
    /\ \E k \in areaTodo[r] :
        IsNext(k, areaTodo[r]) /\ NilStopArea(r, msg[r][k].location)
    /\ Dies(InstanceOf[r])
    /\ UNCHANGED bounds

\* The GET fails.
StopAreaFails(r) ==
    /\ areas[r] = "group"
    /\ \E k \in areaTodo[r] :
        /\ IsNext(k, areaTodo[r])
        /\ msg[r][k].location \notin stopsInArea[InstanceOf[r]]
    /\ areas' = [areas EXCEPT ![r] = "fail"]
    /\ Fault
    /\ UNCHANGED <<now, cache, outcome, memos, payload, record, stops, task>>

\* All departures are grouped: the goroutines for the stop areas start.
GroupedByStopArea(r) ==
    /\ areas[r] = "group" /\ areaTodo[r] = {}
    /\ task' = Started(r, Areas)
    /\ areas' = [areas EXCEPT ![r] = "wait"]
    /\ UNCHANGED <<now, cache, outcome, memos, payload, record, stops, bounds>>

\* Variant: without swg.Wait().
AreasDoneEarly(r) ==
    /\ areas[r] = "wait"
    /\ areas' = [areas EXCEPT ![r] = "done"]
    /\ UNCHANGED <<now, cache, outcome, memos, payload, record, stops, task, bounds>>

\* swg.Wait(); close(stopAreasDone)
AreasDone(r) ==
    /\ areas[r] = "wait" /\ Finished(r, Areas)
    /\ areas' = [areas EXCEPT ![r] = "done"]
    /\ UNCHANGED <<now, cache, outcome, memos, payload, record, stops, task, bounds>>

\* Variant: returns without close(stopAreasDone).
AreasSendErrOnly(r) ==
    /\ areas[r] = "fail"
    /\ SendErr(r)
    /\ areas' = [areas EXCEPT ![r] = "off"]
    /\ UNCHANGED <<now, cache, handler, result, memos, payload, record, stops, task, bounds>>

AreasSendErr(r) ==
    /\ areas[r] = "fail"
    /\ SendErr(r)
    /\ areas' = [areas EXCEPT ![r] = "done"]
    /\ UNCHANGED <<now, cache, handler, result, memos, payload, record, stops, task, bounds>>

-----------------------------------------------------------------------------
(* ingestLocation, in the goroutine t = <<r, l>> of a location *)

\* LLEN: with an empty list there is nothing else to read.
ReadLength(t) ==
    /\ task[t].pc = "llen"
    /\ task' = [task EXCEPT ![t] =
                  [ pc   |-> IF cache[t[2]] = << >> THEN "combine" ELSE "lrange",
                    len  |-> Len(cache[t[2]]),
                    list |-> << >> ]]
    /\ UNCHANGED <<now, cache, outcome, memos, payload, record, stops, areas, bounds>>

\* Variant: LRANGE 0 len-2.
ReadListShort(t) ==
    /\ task[t].pc = "lrange"
    /\ task' = [task EXCEPT ![t].pc = "combine",
                            ![t].list = SubSeq(cache[t[2]], 1, Len(cache[t[2]]) - 1)]
    /\ UNCHANGED <<now, cache, outcome, memos, payload, record, stops, areas, bounds>>

\* LRANGE 0 len-1: what is left of the list as it is by now.
ReadList(t) ==
    /\ task[t].pc = "lrange"
    /\ task' = [task EXCEPT ![t].pc = "combine",
                            ![t].list = SubSeq(cache[t[2]], 1,
                                               IF task[t].len < Len(cache[t[2]])
                                               THEN task[t].len ELSE Len(cache[t[2]]))]
    /\ UNCHANGED <<now, cache, outcome, memos, payload, record, stops, areas, bounds>>

\* combineCachedAndNewDepartures, removeExpiredDepartures and sort.Sort
Combine(t) ==
    /\ task[t].pc = "combine"
    /\ \E list \in Refreshed(task[t].list, NewDeps(msg[t[1]], Group(t[1], t[2])), now) :
         task' = [task EXCEPT ![t] = [pc |-> "store", len |-> 0, list |-> list]]
    /\ UNCHANGED <<now, cache, outcome, memos, payload, record, stops, areas, bounds>>

\* updateCachedData: MULTI, DEL, RPUSH, EXEC
Store(t) ==
    /\ task[t].pc = "store"
    /\ cache' = [cache EXCEPT ![t[2]] = task[t].list]
    /\ task' = [task EXCEPT ![t] = [Off EXCEPT !.pc = "done"]]
    /\ UNCHANGED <<now, outcome, memos, payload, record, stops, areas, bounds>>

\* A command fails.  The transaction may have been executed all the same,
\* when it is the reply to EXEC that gets lost.
LocationFails(t) ==
    /\ task[t].pc \in {"llen", "lrange", "store"}
    /\ \/ UNCHANGED cache
       \/ /\ task[t].pc = "store"
          /\ cache' = [cache EXCEPT ![t[2]] = task[t].list]
    /\ task' = [task EXCEPT ![t] = [Off EXCEPT !.pc = "fail"]]
    /\ Fault
    /\ UNCHANGED <<now, outcome, memos, payload, record, stops, areas>>

\* Variant: the goroutine returns without sending its error.
LocationDropsErr(t) ==
    /\ task[t].pc = "fail"
    /\ task' = [task EXCEPT ![t].pc = "done"]
    /\ UNCHANGED <<now, cache, outcome, memos, payload, record, stops, areas, bounds>>

LocationSendsErr(t) ==
    /\ task[t].pc = "fail"
    /\ SendErr(t[1])
    /\ task' = [task EXCEPT ![t].pc = "done"]
    /\ UNCHANGED <<now, cache, handler, result, memos, payload, record, stops, areas, bounds>>

-----------------------------------------------------------------------------
(* The environment *)

Tick == /\ now < MaxTime
        /\ now' = now + 1
        /\ UNCHANGED <<cache, outcome, memos, payload, pcs, bounds>>

\* Two records of one event are in updateDestinationNames, or in
\* groupByStopArea, and one of them is about to write a map that the other
\* reads: the Go runtime may find out, and then ends the process.
MapsInUse(r, s) ==
    LET i == InstanceOf[r]
    IN  \/ /\ record[r] = "dest" /\ record[s] = "dest"
           /\ \E k \in todo[r], j \in todo[s] :
                LET d == msg[r][k]
                    e == msg[s][j]
                IN  /\ IsNext(k, todo[r]) /\ IsNext(j, todo[s])
                    /\ \/ d.service \notin circularServices[i]
                       \/ /\ CircularDestination[d.service] = NoName
                          /\ CircularDestination[e.service] = NoName
                          /\ d.destinationPlace \notin localityNames[i]
        \/ /\ areas[r] = "group" /\ areas[s] = "group" /\ areaTodo[s] # {}
           /\ \E k \in areaTodo[r] :
                /\ IsNext(k, areaTodo[r])
                /\ msg[r][k].location \notin stopsInArea[i]

ConcurrentMapAccess(i) ==
    /\ \E r, s \in RecordsOf(i) : r # s /\ MapsInUse(r, s)
    /\ Dies(i)
    /\ UNCHANGED bounds

\* The platform ends an instance in the middle of an event (a timeout).
Kill(i) ==
    /\ handler[i] = "serving"
    /\ Dies(i)
    /\ Fault

\* A new process takes the place of one that died: its maps are empty.
Restart(i) ==
    /\ handler[i] = "crashed"
    /\ handler' = [handler EXCEPT ![i] = "idle"]
    /\ result' = [result EXCEPT ![i] = "none"]
    /\ circularServices' = [circularServices EXCEPT ![i] = {}]
    /\ localityNames' = [localityNames EXCEPT ![i] = {}]
    /\ stopsInArea' = [stopsInArea EXCEPT ![i] = {}]
    /\ UNCHANGED <<now, cache, gErr, payload, pcs, bounds>>

-----------------------------------------------------------------------------
HandlerStep(i) == CloseErrs(i) \/ Return(i)

RecordStep(r) ==
    \/ RecordStart(r) \/ UpdateDestinationName(r) \/ DestinationNameFails(r)
    \/ StartStopsAndAreas(r) \/ RecordDone(r) \/ RecordSendsErr(r)

StopsStep(r) == GroupByStop(r) \/ StopsDone(r)

AreasStep(r) ==
    \/ AppendDepartureToStopArea(r) \/ StopAreaPanics(r) \/ StopAreaFails(r)
    \/ GroupedByStopArea(r) \/ AreasDone(r) \/ AreasSendErr(r)

TaskStep(t) ==
    \/ ReadLength(t) \/ ReadList(t) \/ Combine(t) \/ Store(t)
    \/ LocationFails(t) \/ LocationSendsErr(t)

Next ==
    \/ Tick
    \/ \E i \in Instances :
         Deliver(i) \/ HandlerStep(i) \/ ConcurrentMapAccess(i) \/ Kill(i) \/ Restart(i)
    \/ \E r \in Records : RecordStep(r) \/ StopsStep(r) \/ AreasStep(r)
    \/ \E t \in Tasks : TaskStep(t)

Spec == Init /\ [][Next]_vars

\* Every goroutine that can run is run by the Go scheduler in the end, and
\* every call to Redis returns.
Fairness ==
    /\ \A i \in Instances : WF_vars(HandlerStep(i))
    /\ \A r \in Records :
         WF_vars(RecordStep(r)) /\ WF_vars(StopsStep(r)) /\ WF_vars(AreasStep(r))
    /\ \A t \in Tasks : WF_vars(TaskStep(t))

FairSpec == Spec /\ Fairness

-----------------------------------------------------------------------------
(* Properties *)

TaskRecord == [ pc   : {"off", "llen", "lrange", "combine", "store", "fail", "done"},
                len  : Nat,
                list : Seq(Departure) ]

TypeOK ==
    /\ now \in Times
    /\ cache \in [Locations -> Seq(Departure)]
    /\ handler \in [Instances -> {"idle", "serving", "closed", "crashed"}]
    /\ result \in [Instances -> {"none", "ok", "error"}]
    /\ gErr \in [Instances -> BOOLEAN]
    /\ circularServices \in [Instances -> SUBSET Services]
    /\ localityNames \in [Instances -> SUBSET Places]
    /\ stopsInArea \in [Instances -> SUBSET Stops]
    /\ msg \in [Records -> Seq(Departure) \cup {Malformed}]
    /\ live \in [Records -> SUBSET Nat]
    /\ todo \in [Records -> SUBSET Nat]
    /\ areaTodo \in [Records -> SUBSET Nat]
    /\ record \in [Records -> {"off", "start", "dest", "wait", "fail", "done"}]
    /\ stops \in [Records -> {"off", "group", "wait", "done"}]
    /\ areas \in [Records -> {"off", "group", "wait", "fail", "done"}]
    /\ task \in [Tasks -> TaskRecord]
    /\ events \in 0 .. MaxEvents /\ faults \in 0 .. MaxFaults

\* Whatever ran at the same time, failed or died half-way, every list of the
\* database is in the order in which the presenter pages through it, and
\* lists a journey at most once (combineCachedAndNewDepartures).
CacheWellFormed ==
    \A l \in Locations : InOrder(cache[l]) /\ NoDuplicates(cache[l])

\* Every departure in the database is under its own stop or that stop's area,
\* and carries the destination of the reference databases: no error path of
\* updateDestinationNames or groupByStopArea lets others through.
CachedAsResolved ==
    \A l \in Locations : \A k \in DOMAIN cache[l] :
        LET d == cache[l][k]
        IN  l \in {d.location, AreaOf[d.location]} /\ d.destination = Resolved(d)

\* When errs is closed, or Handler has returned, no goroutine of the event is
\* left: none can still send on the closed channel or write to the database
\* (leaktest in ingester_test.go).
GoroutinesFinished ==
    \A i \in Instances : handler[i] # "serving" =>
        \A r \in RecordsOf(i) :
            /\ record[r] \in {"off", "done"}
            /\ stops[r] \in {"off", "done"}
            /\ areas[r] \in {"off", "done"}
            /\ Finished(r, Locations)

\* Where only one record is in process at a time: when Handler has returned
\* without an error, every new departure of the event is in the database, at
\* its stop and at the stop's area, unless its time has passed since.
SuccessMeansCached ==
    \A i \in Instances : handler[i] = "idle" /\ result[i] = "ok" =>
        \A r \in RecordsOf(i), l \in Locations :
            record[r] = "done" =>
                \A n \in NewDeps(msg[r], Group(r, l)) :
                    Expired(n, now) \/ \E k \in DOMAIN cache[l] : cache[l][k] = n

\* ingester/README.md: "When the departures are for stop(s) in a stop area,
\* combines the departures for stops and stores them in the cache, too."
\* After a success the area's list has all the journeys of the event.
AreaCombinesStops ==
    \A i \in Instances : handler[i] = "idle" /\ result[i] = "ok" =>
        \A r \in RecordsOf(i), l \in Areas :
            record[r] = "done" =>
                \A n \in NewDeps(msg[r], Group(r, l)) :
                    \/ Expired(n, now)
                    \/ \E k \in DOMAIN cache[l] : cache[l][k].journeyRef = n.journeyRef

\* ingester_test.go, "handles stops that are not in a stop area": departures
\* from such a stop do not bring the process down.
NeverCrashes == \A i \in Instances : handler[i] # "crashed"

\* Handler returns, or its process ends: no goroutine of an event waits for
\* ever for another one, or for Handler, whichever calls to Redis fail.
HandlerReturns ==
    \A i \in Instances : handler[i] = "serving" ~> handler[i] \in {"idle", "crashed"}

\* A message once updateDestinationNames is done with it.
ResolvedMessage(m) == [k \in DOMAIN m |-> [m[k] EXCEPT !.destination = Resolved(m[k])]]

\* The sets of departures that a message may bring to a location.
Batches == UNION { { NewDeps(ResolvedMessage(m), g) : g \in SUBSET DOMAIN m } : m \in Messages }

Abstract == INSTANCE DeparturesCache
            WITH Batches <- Batches, now <- now, cache <- cache

\* Where only one record is in process at a time, reading, combining and
\* writing a list amount to one atomic ingestion.
AtomicIngestion == Abstract!Spec
=============================================================================
