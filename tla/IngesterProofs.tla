---------------------------- MODULE IngesterProofs ----------------------------
(***************************************************************************)
(* Theorems about Ingester, for any number of instances, of records in an  *)
(* event, of stops, areas and departures, and without the bounds of the    *)
(* runs on events, failures and time; and about CombineLoop, for lists of  *)
(* any length:                                                             *)
(*   LoopInv  where each loop is with the list it works on: what Completed *)
(*            says of the list that is put together, Compacted of the      *)
(*            slice that is overwritten while it is read, and Lists of     *)
(*            the one that is cut and sorted.                              *)
(***************************************************************************)
EXTENDS Ingester, CombineLoop, DeparturesProofs

\* The positions that a record's goroutines still have to visit are positions
\* of its list of departures.
PositionsOK ==
    \A r \in Records :
        /\ live[r] # {} => msg[r] \in Seq(Departure) /\ live[r] \subseteq DOMAIN msg[r]
        /\ record[r] = "dest" => todo[r] \subseteq live[r]
        /\ areas[r] = "group" => areaTodo[r] \subseteq live[r]

\* Who may run: goroutines for locations only while the one that started them
\* waits, that one only while the record's goroutine waits, and that one only
\* while Handler receives from errs.
ControlOK ==
    \A r \in Records :
        /\ stops[r] # "wait" => Finished(r, Stops)
        /\ areas[r] # "wait" => Finished(r, Areas)
        /\ record[r] # "wait" => stops[r] \in {"off", "done"} /\ areas[r] \in {"off", "done"}
        /\ handler[InstanceOf[r]] # "serving" => record[r] \in {"off", "done"}

TypeInv == TypeOK /\ PositionsOK /\ ControlOK

USE IngesterAssumption, DeparturesAssumption

\* The state of a location's goroutine when it has no list at hand.
LEMMA OffType ==
    /\ Off \in TaskRecord /\ Off.pc = "off" /\ Off.list = << >>
    /\ \A pc \in {"llen", "fail", "done"} :
         /\ [Off EXCEPT !.pc = pc] \in TaskRecord
         /\ [Off EXCEPT !.pc = pc].pc = pc
         /\ [Off EXCEPT !.pc = pc].list = << >>
<1>1. << >> \in Seq(Departure)
  OBVIOUS
<1> QED
  BY <1>1 DEF Off, TaskRecord

LEMMA ResolvedType ==
    ASSUME NEW d \in Departure
    PROVE  /\ Resolved(d) \in Destinations
           /\ [d EXCEPT !.destination = Resolved(d)] \in Departure
<1>1. d.service \in Services /\ d.destinationPlace \in Places /\ d.destination \in Destinations
  BY DEF Departure
<1>2. Resolved(d) \in Destinations
  BY <1>1 DEF Resolved
<1> QED
  BY <1>2 DEF Departure

\* The departures of a record for one location are among its live ones.
LEMMA GroupType ==
    ASSUME TypeInv, NEW r \in Records, NEW l, Group(r, l) # {}
    PROVE  /\ msg[r] \in Seq(Departure)
           /\ Group(r, l) \subseteq DOMAIN msg[r]
BY DEF TypeInv, TypeOK, PositionsOK, Group

LEMMA BatchType ==
    ASSUME TypeInv, NEW r \in Records, NEW l
    PROVE  LET new == NewDeps(msg[r], Group(r, l))
           IN  /\ new \subseteq Departure
               /\ IsFiniteSet(new)
               /\ \A n, o \in new : n.journeyRef = o.journeyRef => n = o
<1>1. CASE Group(r, l) = {}
  <2>1. NewDeps(msg[r], Group(r, l)) = {}
    BY <1>1 DEF NewDeps
  <2> QED
    BY <2>1, FS_EmptySet
<1>2. CASE Group(r, l) # {}
  BY <1>2, GroupType, NewDepsBatch
<1> QED
  BY <1>1, <1>2

LEMMA TypeInit == Init => TypeInv
<1> SUFFICES ASSUME Init PROVE TypeInv
  OBVIOUS
<1>1. << >> \in Seq(Departure)
  OBVIOUS
<1>2. TypeOK
  <2>1. Off \in TaskRecord
    BY <1>1 DEF Off, TaskRecord
  <2> QED
    BY <1>1, <2>1 DEF Init, TypeOK
<1>3. PositionsOK
  BY DEF Init, PositionsOK
<1>4. ControlOK
  BY DEF Init, ControlOK, Finished, Off, Tasks, Locations
<1> QED
  BY <1>2, <1>3, <1>4 DEF TypeInv

LEMMA DiesType ==
    ASSUME TypeInv, NEW i \in Instances, Dies(i), events' \in 0 .. MaxEvents, faults' \in 0 .. MaxFaults
    PROVE  TypeInv'
<1>1. Off \in TaskRecord /\ Off.pc = "off"
  BY DEF Off, TaskRecord
<1>2. TypeOK'
  BY <1>1 DEF TypeInv, TypeOK, Dies, memos, payload, RecordsOf, TaskRecord
<1>3. PositionsOK'
  BY DEF TypeInv, TypeOK, PositionsOK, Dies, payload, RecordsOf
<1>4. ControlOK'
  BY <1>1 DEF TypeInv, TypeOK, ControlOK, Finished, Dies, RecordsOf, Tasks, Locations
<1> QED
  BY <1>2, <1>3, <1>4 DEF TypeInv

\* Steps that leave the program counters alone keep ControlOK.
LEMMA SameControl ==
    ASSUME ControlOK, UNCHANGED pcs,
           \A r \in Records : handler'[InstanceOf[r]] # "serving" =>
               handler[InstanceOf[r]] # "serving" \/ record[r] \in {"off", "done"}
    PROVE  ControlOK'
BY DEF ControlOK, Finished, pcs

LEMMA RecordTypeStep ==
    ASSUME TypeInv, NEW r \in Records, RecordStep(r)
    PROVE  TypeInv'
<1> USE DEF TypeInv
<1>1. CASE RecordStart(r)
  <2>1. record[r] = "start"
    BY <1>1 DEF RecordStart
  <2>2. handler[InstanceOf[r]] = "serving" /\ areas[r] # "group"
    BY <2>1 DEF ControlOK
  <2>3. CASE msg[r] = Malformed
    <3>1. TypeOK'
      BY <1>1, <2>3 DEF TypeOK, RecordStart, outcome, memos, payload, bounds
    <3>2. PositionsOK'
      BY <1>1, <2>3, SMTT(30) DEF TypeOK, PositionsOK, RecordStart, payload
    <3>3. ControlOK'
      BY <1>1, <2>2, <2>3 DEF TypeOK, ControlOK, Finished, RecordStart, outcome
    <3> QED
      BY <3>1, <3>2, <3>3
  <2>4. CASE msg[r] # Malformed
    <3> DEFINE kept == {k \in DOMAIN msg[r] : ~ Expired(msg[r][k], now)}
    <3>1. msg[r] \in Seq(Departure) /\ kept \subseteq DOMAIN msg[r] /\ kept \in SUBSET Nat
      BY <2>4 DEF TypeOK
    <3> HIDE DEF kept
    <3>2. /\ record' = [record EXCEPT ![r] = "dest"]
          /\ live' = [live EXCEPT ![r] = kept]
          /\ todo' = [todo EXCEPT ![r] = kept]
          /\ UNCHANGED <<msg, areaTodo>>
          /\ UNCHANGED <<now, cache, outcome, memos, stops, areas, task, bounds>>
      BY <1>1, <2>4 DEF RecordStart, kept
    <3>3. TypeOK'
      BY <3>1, <3>2 DEF TypeOK, outcome, memos, bounds
    <3>4. PositionsOK'
      BY <2>2, <3>1, <3>2 DEF TypeOK, PositionsOK
    <3>5. ControlOK'
      BY <2>2, <3>2, <2>1 DEF TypeOK, ControlOK, Finished, outcome
    <3> QED
      BY <3>3, <3>4, <3>5
  <2> QED
    BY <2>3, <2>4
<1>2. CASE UpdateDestinationName(r)
  <2>1. PICK k \in todo[r] :
          LET d == msg[r][k] IN
          /\ IsNext(k, todo[r])
          /\ msg' = [msg EXCEPT ![r] = [@ EXCEPT ![k] = [d EXCEPT !.destination = Resolved(d)]]]
          /\ todo' = [todo EXCEPT ![r] = @ \ {k}]
          /\ circularServices' = [circularServices EXCEPT ![InstanceOf[r]] = @ \cup {d.service}]
          /\ localityNames' =
               IF CircularDestination[d.service] = NoName
               THEN [localityNames EXCEPT ![InstanceOf[r]] = @ \cup {d.destinationPlace}]
               ELSE localityNames
    BY <1>2 DEF UpdateDestinationName
  <2>2. record[r] = "dest" /\ UNCHANGED <<now, cache, outcome, stopsInArea, live, areaTodo, pcs, bounds>>
    BY <1>2 DEF UpdateDestinationName
  <2>3. msg[r] \in Seq(Departure) /\ k \in DOMAIN msg[r]
    BY <2>1, <2>2 DEF PositionsOK
  <2> DEFINE d == msg[r][k]
             e == [d EXCEPT !.destination = Resolved(d)]
  <2>4. d \in Departure /\ e \in Departure
    BY <2>3, ResolvedType
  <2>5. d.service \in Services /\ d.destinationPlace \in Places
    BY <2>4 DEF Departure
  <2> HIDE DEF d, e
  <2>6. /\ msg' = [msg EXCEPT ![r] = [msg[r] EXCEPT ![k] = e]]
        /\ todo' = [todo EXCEPT ![r] = @ \ {k}]
        /\ circularServices' = [circularServices EXCEPT ![InstanceOf[r]] = @ \cup {d.service}]
        /\ localityNames' =
               IF CircularDestination[d.service] = NoName
               THEN [localityNames EXCEPT ![InstanceOf[r]] = @ \cup {d.destinationPlace}]
               ELSE localityNames
    BY <2>1 DEF d, e, TypeOK
  <2>7. /\ [msg[r] EXCEPT ![k] = e] \in Seq(Departure)
        /\ DOMAIN [msg[r] EXCEPT ![k] = e] = DOMAIN msg[r]
    BY <2>3, <2>4
  <2>8. TypeOK'
    BY <2>2, <2>5, <2>6, <2>7 DEF TypeOK, outcome, pcs, bounds
  <2>9. PositionsOK'
    BY <2>2, <2>6, <2>7 DEF TypeOK, PositionsOK, pcs
  <2>10. ControlOK'
    BY <2>2, SameControl DEF outcome
  <2> QED
    BY <2>8, <2>9, <2>10
<1>3. CASE DestinationNameFails(r)
  <2>1. PICK k \in todo[r] :
          circularServices' \in {circularServices,
              [circularServices EXCEPT ![InstanceOf[r]] = @ \cup {msg[r][k].service}]}
    BY <1>3 DEF DestinationNameFails
  <2>2. /\ record[r] = "dest" /\ record' = [record EXCEPT ![r] = "fail"]
        /\ Fault
        /\ UNCHANGED <<now, cache, outcome, localityNames, stopsInArea, payload, stops, areas, task>>
    BY <1>3 DEF DestinationNameFails
  <2>3. msg[r] \in Seq(Departure) /\ k \in DOMAIN msg[r]
    BY <2>2 DEF PositionsOK
  <2>4. msg[r][k] \in Departure
    BY <2>3
  <2>5. msg[r][k].service \in Services
    BY <2>4 DEF Departure
  <2>6. circularServices' \in [Instances -> SUBSET Services]
    BY <2>1, <2>5 DEF TypeOK
  <2>7. TypeOK'
    BY <2>2, <2>6 DEF TypeOK, Fault, outcome, payload
  <2>8. PositionsOK'
    BY <2>2 DEF TypeOK, PositionsOK, payload
  <2>9. ControlOK'
    BY <2>2 DEF TypeOK, ControlOK, Finished, outcome
  <2> QED
    BY <2>7, <2>8, <2>9
<1>4. CASE StartStopsAndAreas(r)
  <2>1. TypeOK' /\ PositionsOK'
    BY <1>4 DEF TypeOK, PositionsOK, StartStopsAndAreas, outcome, memos, bounds
  <2>2. ControlOK'
    BY <1>4 DEF TypeOK, ControlOK, Finished, StartStopsAndAreas, outcome
  <2> QED
    BY <2>1, <2>2
<1>5. CASE RecordDone(r)
  <2>1. TypeOK' /\ PositionsOK'
    BY <1>5 DEF TypeOK, PositionsOK, RecordDone, outcome, memos, payload, bounds
  <2>2. ControlOK'
    BY <1>5 DEF TypeOK, ControlOK, Finished, RecordDone, outcome
  <2> QED
    BY <2>1, <2>2
<1>6. CASE RecordSendsErr(r)
  <2>1. TypeOK' /\ PositionsOK'
    BY <1>6 DEF TypeOK, PositionsOK, RecordSendsErr, SendErr, memos, payload, bounds
  <2>2. ControlOK'
    BY <1>6 DEF TypeOK, ControlOK, Finished, RecordSendsErr, SendErr
  <2> QED
    BY <2>1, <2>2
<1> QED
  BY <1>1, <1>2, <1>3, <1>4, <1>5, <1>6 DEF RecordStep

\* Starting the goroutines of one kind of location.
LEMMA StartedType ==
    ASSUME TypeOK, NEW r \in Records, NEW kind \in SUBSET Locations
    PROVE  /\ Started(r, kind) \in [Tasks -> TaskRecord]
           /\ \A s \in Records, l \in Locations :
                s # r \/ l \notin kind => Started(r, kind)[<<s, l>>] = task[<<s, l>>]
<1> DEFINE first == [Off EXCEPT !.pc = "llen"]
<1>1. first \in TaskRecord
  BY OffType
<1>2. Started(r, kind) = [t \in Tasks |-> IF t[1] = r /\ t[2] \in kind /\ Group(r, t[2]) # {}
                                         THEN first ELSE task[t]]
  BY DEF Started
<1>3. task \in [Tasks -> TaskRecord]
  BY DEF TypeOK
<1> HIDE DEF first
<1>4. Started(r, kind) \in [Tasks -> TaskRecord]
  BY <1>1, <1>2, <1>3
<1>5. ASSUME NEW s \in Records, NEW l \in Locations, s # r \/ l \notin kind
      PROVE  Started(r, kind)[<<s, l>>] = task[<<s, l>>]
  BY <1>2, <1>5 DEF Tasks
<1> QED
  BY <1>4, <1>5

LEMMA GroupTypeStep ==
    ASSUME TypeInv, NEW r \in Records, StopsStep(r) \/ AreasStep(r)
    PROVE  TypeInv'
<1> USE DEF TypeInv
<1>0. Stops \in SUBSET Locations /\ Areas \in SUBSET Locations
  BY DEF Locations
<1>1. CASE GroupByStop(r)
  <2>1. TypeOK' /\ PositionsOK'
    BY <1>1, <1>0, StartedType DEF TypeOK, PositionsOK, GroupByStop, outcome, memos, payload, bounds
  <2>2. \A s \in Records, l \in Locations :
          s # r \/ l \notin Stops => task'[<<s, l>>] = task[<<s, l>>]
    <3>1. task' = Started(r, Stops)
      BY <1>1 DEF GroupByStop
    <3> QED
      BY <1>0, <3>1, StartedType
  <2>3. \A l \in Areas : l \in Locations /\ l \notin Stops
    BY DEF Locations
  <2>5. /\ stops[r] = "group" /\ stops' = [stops EXCEPT ![r] = "wait"]
        /\ UNCHANGED <<handler, record, areas>>
    BY <1>1 DEF GroupByStop, outcome
  <2>6. record[r] = "wait"
    BY <2>5 DEF ControlOK
  <2>7. ControlOK'
    <3>1. stops \in [Records -> {"off", "group", "wait", "done"}]
          /\ areas \in [Records -> {"off", "group", "wait", "fail", "done"}]
      BY DEF TypeOK
    <3>2. \A s \in Records :
            /\ record'[s] # "wait" => stops'[s] \in {"off", "done"} /\ areas'[s] \in {"off", "done"}
            /\ handler'[InstanceOf[s]] # "serving" => record'[s] \in {"off", "done"}
      BY <2>5, <2>6, <3>1 DEF ControlOK
    <3>3. ASSUME NEW s \in Records
          PROVE  ( /\ stops[s] # "wait" => Finished(s, Stops)
                   /\ areas[s] # "wait" => Finished(s, Areas) )'
      <4>1. /\ stops[s] # "wait" => Finished(s, Stops)
            /\ areas[s] # "wait" => Finished(s, Areas)
        BY DEF ControlOK
      <4>2. /\ s # r => stops'[s] = stops[s]
            /\ s = r => stops'[s] = "wait"
            /\ areas'[s] = areas[s]
        BY <2>5, <3>1
      <4>3. /\ s # r => (Finished(s, Stops) => Finished(s, Stops)')
            /\ Finished(s, Areas) => Finished(s, Areas)'
        BY <1>0, <2>2, <2>3 DEF Finished
      <4> QED
        BY <4>1, <4>2, <4>3
    <3> QED
      BY <3>2, <3>3 DEF ControlOK
  <2> QED
    BY <2>1, <2>7
<1>2. CASE StopsDone(r)
  <2>1. TypeOK' /\ PositionsOK'
    BY <1>2 DEF TypeOK, PositionsOK, StopsDone, outcome, memos, payload, bounds
  <2>2. ControlOK'
    BY <1>2 DEF TypeOK, ControlOK, Finished, StopsDone, outcome
  <2> QED
    BY <2>1, <2>2
<1>3. CASE AppendDepartureToStopArea(r)
  <2>1. PICK k \in areaTodo[r] :
          /\ stopsInArea' = [stopsInArea EXCEPT ![InstanceOf[r]] = @ \cup {msg[r][k].location}]
          /\ areaTodo' = [areaTodo EXCEPT ![r] = @ \ {k}]
    BY <1>3 DEF AppendDepartureToStopArea
  <2>2. areas[r] = "group" /\ UNCHANGED <<now, cache, outcome, circularServices, localityNames,
                                         msg, live, todo, pcs, bounds>>
    BY <1>3 DEF AppendDepartureToStopArea
  <2>3. msg[r][k].location \in Stops
    <3>1. msg[r] \in Seq(Departure) /\ k \in DOMAIN msg[r]
      BY <2>2 DEF PositionsOK
    <3>2. msg[r][k] \in Departure
      BY <3>1
    <3> QED
      BY <3>2 DEF Departure
  <2>4. TypeOK'
    BY <2>1, <2>2, <2>3 DEF TypeOK, outcome, pcs, bounds
  <2>5. PositionsOK'
    BY <2>1, <2>2 DEF TypeOK, PositionsOK, pcs
  <2>6. ControlOK'
    BY <2>2, SameControl DEF outcome
  <2> QED
    BY <2>4, <2>5, <2>6
<1>4. CASE StopAreaPanics(r)
  BY <1>4, DiesType DEF TypeOK, StopAreaPanics, bounds
<1>5. CASE StopAreaFails(r)
  <2>1. TypeOK' /\ PositionsOK'
    BY <1>5 DEF TypeOK, PositionsOK, StopAreaFails, Fault, outcome, memos, payload
  <2>2. ControlOK'
    BY <1>5 DEF TypeOK, ControlOK, Finished, StopAreaFails, outcome
  <2> QED
    BY <2>1, <2>2
<1>6. CASE GroupedByStopArea(r)
  <2>1. TypeOK' /\ PositionsOK'
    BY <1>6, <1>0, StartedType DEF TypeOK, PositionsOK, GroupedByStopArea, outcome, memos, payload, bounds
  <2>2. \A s \in Records, l \in Locations :
          s # r \/ l \notin Areas => task'[<<s, l>>] = task[<<s, l>>]
    <3>1. task' = Started(r, Areas)
      BY <1>6 DEF GroupedByStopArea
    <3> QED
      BY <1>0, <3>1, StartedType
  <2>3. \A l \in Stops : l \in Locations /\ l \notin Areas
    BY DEF Locations
  <2>5. /\ areas[r] = "group" /\ areas' = [areas EXCEPT ![r] = "wait"]
        /\ UNCHANGED <<handler, record, stops>>
    BY <1>6 DEF GroupedByStopArea, outcome
  <2>6. record[r] = "wait"
    BY <2>5 DEF ControlOK
  <2>7. ControlOK'
    <3>1. stops \in [Records -> {"off", "group", "wait", "done"}]
          /\ areas \in [Records -> {"off", "group", "wait", "fail", "done"}]
      BY DEF TypeOK
    <3>2. \A s \in Records :
            /\ record'[s] # "wait" => stops'[s] \in {"off", "done"} /\ areas'[s] \in {"off", "done"}
            /\ handler'[InstanceOf[s]] # "serving" => record'[s] \in {"off", "done"}
      BY <2>5, <2>6, <3>1 DEF ControlOK
    <3>3. ASSUME NEW s \in Records
          PROVE  ( /\ stops[s] # "wait" => Finished(s, Stops)
                   /\ areas[s] # "wait" => Finished(s, Areas) )'
      <4>1. /\ stops[s] # "wait" => Finished(s, Stops)
            /\ areas[s] # "wait" => Finished(s, Areas)
        BY DEF ControlOK
      <4>2. /\ s # r => areas'[s] = areas[s]
            /\ s = r => areas'[s] = "wait"
            /\ stops'[s] = stops[s]
        BY <2>5, <3>1
      <4>3. /\ s # r => (Finished(s, Areas) => Finished(s, Areas)')
            /\ Finished(s, Stops) => Finished(s, Stops)'
        BY <1>0, <2>2, <2>3 DEF Finished
      <4> QED
        BY <4>1, <4>2, <4>3
    <3> QED
      BY <3>2, <3>3 DEF ControlOK
  <2> QED
    BY <2>1, <2>7
<1>7. CASE AreasDone(r)
  <2>1. TypeOK' /\ PositionsOK'
    BY <1>7 DEF TypeOK, PositionsOK, AreasDone, outcome, memos, payload, bounds
  <2>2. ControlOK'
    BY <1>7 DEF TypeOK, ControlOK, Finished, AreasDone, outcome
  <2> QED
    BY <2>1, <2>2
<1>8. CASE AreasSendErr(r)
  <2>1. TypeOK' /\ PositionsOK'
    BY <1>8 DEF TypeOK, PositionsOK, AreasSendErr, SendErr, memos, payload, bounds
  <2>2. ControlOK'
    BY <1>8 DEF TypeOK, ControlOK, Finished, AreasSendErr, SendErr
  <2> QED
    BY <2>1, <2>2
<1> QED
  BY <1>1, <1>2, <1>3, <1>4, <1>5, <1>6, <1>7, <1>8 DEF StopsStep, AreasStep

\* A step of a location's goroutine: it was running, so that its record is
\* in process, and only its own state and its list in the database change.
LEMMA TaskFrame ==
    ASSUME TypeInv, NEW t \in Tasks, TaskStep(t)
    PROVE  /\ task[t].pc \notin {"off", "done"}
           /\ task' = [task EXCEPT ![t] = task'[t]]
           /\ UNCHANGED <<now, handler, result, memos, payload, record, stops, areas, events>>
           /\ gErr' \in [Instances -> BOOLEAN] /\ faults' \in 0 .. MaxFaults
<1>1. /\ task \in [Tasks -> TaskRecord] /\ gErr \in [Instances -> BOOLEAN]
      /\ InstanceOf[t[1]] \in Instances /\ faults \in 0 .. MaxFaults
  BY DEF TypeInv, TypeOK, Tasks
<1>2. CASE ReadLength(t) \/ ReadList(t)
  BY <1>1, <1>2 DEF ReadLength, ReadList, outcome, bounds
<1>3. CASE Combine(t) \/ Store(t)
  BY <1>1, <1>3 DEF Combine, Store, outcome, bounds
<1>4. CASE LocationFails(t)
  <2>1. faults' = faults + 1 /\ faults < MaxFaults
    BY <1>4 DEF LocationFails, Fault
  <2>2. faults' \in 0 .. MaxFaults
    BY <1>1, <2>1
  <2> QED
    BY <1>1, <1>4, <2>2 DEF LocationFails, Fault, outcome
<1>5. CASE LocationSendsErr(t)
  BY <1>1, <1>5 DEF LocationSendsErr, SendErr, bounds
<1> QED
  BY <1>2, <1>3, <1>4, <1>5 DEF TaskStep

LEMMA TaskTypeStep ==
    ASSUME TypeInv, NEW t \in Tasks, TaskStep(t)
    PROVE  TypeInv'
<1> USE DEF TypeInv
<1>1. PICK r \in Records, l \in Locations : t = <<r, l>>
  BY DEF Tasks
<1>2. cache[l] \in Seq(Departure) /\ task[t] \in TaskRecord
  BY DEF TypeOK, TaskRecord
<1>3. /\ task'[t] \in TaskRecord
      /\ cache' \in [Locations -> Seq(Departure)]
  <2>1. CASE ReadLength(t)
    BY <1>1, <1>2, <2>1 DEF ReadLength, TypeOK, TaskRecord
  <2>2. CASE ReadList(t)
    <3> DEFINE n == IF task[t].len < Len(cache[l]) THEN task[t].len ELSE Len(cache[l])
    <3>1. n \in Nat /\ n <= Len(cache[l])
      BY <1>2 DEF TaskRecord
    <3>2. SubSeq(cache[l], 1, n) \in Seq(Departure)
      BY <1>2, <3>1, Prefix
    <3>3. task'[t] = [task[t] EXCEPT !.pc = "combine", !.list = SubSeq(cache[l], 1, n)]
      BY <1>1, <2>2 DEF ReadList, TypeOK
    <3> QED
      BY <1>2, <2>2, <3>2, <3>3 DEF ReadList, TypeOK, TaskRecord
  <2>3. CASE Combine(t)
    <3>1. PICK list \in Refreshed(task[t].list, NewDeps(msg[r], Group(r, l)), now) :
            task' = [task EXCEPT ![t] = [pc |-> "store", len |-> 0, list |-> list]]
      BY <1>1, <2>3 DEF Combine
    <3>2. list \in Seq(Departure)
      BY <1>2, <3>1, BatchType, RefreshedList DEF TaskRecord
    <3> QED
      BY <2>3, <3>1, <3>2 DEF Combine, TypeOK, TaskRecord
  <2>4. CASE Store(t) \/ LocationFails(t)
    <3>1. /\ [Off EXCEPT !.pc = "done"] \in TaskRecord
          /\ [Off EXCEPT !.pc = "fail"] \in TaskRecord
          /\ task[t].list \in Seq(Departure)
      BY <1>2, OffType DEF TaskRecord
    <3>2. task'[t] \in TaskRecord
      BY <2>4, <3>1 DEF Store, LocationFails, TypeOK
    <3>3. cache' = cache \/ cache' = [cache EXCEPT ![l] = task[t].list]
      BY <1>1, <2>4 DEF Store, LocationFails
    <3> QED
      BY <3>1, <3>2, <3>3 DEF TypeOK
  <2>6. CASE LocationSendsErr(t)
    BY <1>1, <1>2, <2>6 DEF LocationSendsErr, TypeOK, TaskRecord
  <2> QED
    BY <2>1, <2>2, <2>3, <2>4, <2>6 DEF TaskStep
<1>4. TypeOK'
  <2>1. task' \in [Tasks -> TaskRecord]
    BY <1>3, TaskFrame DEF TypeOK
  <2>2. /\ UNCHANGED <<now, handler, result, memos, payload, record, stops, areas, events>>
        /\ gErr' \in [Instances -> BOOLEAN] /\ faults' \in 0 .. MaxFaults
    BY TaskFrame
  <2> QED
    BY <1>3, <2>1, <2>2 DEF TypeOK, memos, payload
<1>5. PositionsOK'
  BY TaskFrame DEF TypeOK, PositionsOK, payload
<1>6. (stops[r] = "wait" /\ l \in Stops) \/ (areas[r] = "wait" /\ l \in Areas)
  <2>1. task[<<r, l>>].pc \notin {"off", "done"}
    BY <1>1, TaskFrame
  <2>2. CASE l \in Stops
    <3>1. ~ Finished(r, Stops)
      BY <2>1, <2>2 DEF Finished
    <3> QED
      BY <2>2, <3>1 DEF ControlOK
  <2>3. CASE l \in Areas
    <3>1. ~ Finished(r, Areas)
      BY <2>1, <2>3 DEF Finished
    <3> QED
      BY <2>3, <3>1 DEF ControlOK
  <2> QED
    BY <2>2, <2>3 DEF Locations
<1>7. ControlOK'
  <2>1. \A s \in Records, k \in Locations : s # r \/ k # l => task'[<<s, k>>] = task[<<s, k>>]
    <3>1. task' = [task EXCEPT ![<<r, l>>] = task'[t]]
      BY <1>1, TaskFrame
    <3> QED
      BY <3>1 DEF TypeOK, Tasks
  <2>2. UNCHANGED <<handler, record, stops, areas>>
    BY TaskFrame
  <2>3. \A s \in Records : s # r => (Finished(s, Stops) => Finished(s, Stops)')
                                 /\ (Finished(s, Areas) => Finished(s, Areas)')
    BY <2>1 DEF Finished, Locations
  <2>4. ASSUME stops[r] # "wait" PROVE Finished(r, Stops)'
    <3>1. \A k \in Stops : k # l /\ k \in Locations
      BY <1>6, <2>4 DEF Locations
    <3> QED
      BY <2>1, <2>4, <3>1 DEF ControlOK, Finished
  <2>5. ASSUME areas[r] # "wait" PROVE Finished(r, Areas)'
    <3>1. \A k \in Areas : k # l /\ k \in Locations
      BY <1>6, <2>5 DEF Locations
    <3> QED
      BY <2>1, <2>5, <3>1 DEF ControlOK, Finished
  <2>6. ASSUME NEW s \in Records
        PROVE  ( /\ stops[s] # "wait" => Finished(s, Stops)
                 /\ areas[s] # "wait" => Finished(s, Areas) )'
    BY <2>2, <2>3, <2>4, <2>5 DEF ControlOK
  <2> QED
    BY <2>2, <2>6 DEF ControlOK
<1> QED
  BY <1>4, <1>5, <1>7

LEMMA TypeStep == TypeInv /\ [Next]_vars => TypeInv'
<1> SUFFICES ASSUME TypeInv, [Next]_vars PROVE TypeInv'
  OBVIOUS
<1> USE DEF TypeInv
<1>0. Off \in TaskRecord /\ Off.pc = "off"
  BY DEF Off, TaskRecord
<1>1. CASE Tick
  <2>1. TypeOK'
    BY <1>1 DEF TypeOK, Tick, Times, outcome, memos, payload, pcs, bounds
  <2>2. PositionsOK'
    BY <1>1 DEF TypeOK, PositionsOK, Tick, payload, pcs
  <2>3. ControlOK'
    BY <1>1, SameControl DEF Tick, outcome
  <2> QED
    BY <2>1, <2>2, <2>3
<1>2. ASSUME NEW i \in Instances, Deliver(i)
      PROVE  TypeInv'
  <2>1. PICK R \in SUBSET RecordsOf(i) : \E m \in [R -> Messages \cup {Malformed}] :
         /\ msg' = [r \in Records |-> IF r \in R THEN m[r] ELSE msg[r]]
         /\ record' = [r \in Records |-> IF r \in R THEN "start"
                                         ELSE IF r \in RecordsOf(i) THEN "off" ELSE record[r]]
    BY <1>2 DEF Deliver
  <2>2. msg' \in [Records -> Seq(Departure) \cup {Malformed}]
    BY <2>1 DEF TypeOK
  <2>3. record' \in [Records -> {"off", "start", "dest", "wait", "fail", "done"}]
    BY <2>1 DEF TypeOK
  <2>4. task' \in [Tasks -> TaskRecord]
    BY <1>2, <1>0 DEF TypeOK, Deliver
  <2>5. /\ live' \in [Records -> SUBSET Nat]
        /\ stops' \in [Records -> {"off", "group", "wait", "done"}]
        /\ areas' \in [Records -> {"off", "group", "wait", "fail", "done"}]
    BY <1>2 DEF TypeOK, Deliver
  <2>6. TypeOK'
    BY <1>2, <2>2, <2>3, <2>4, <2>5 DEF TypeOK, Deliver, memos
  <2>7. PositionsOK'
    BY <1>2, <2>1 DEF TypeOK, PositionsOK, Deliver, RecordsOf
  <2>8. ControlOK'
    BY <1>0, <1>2, <2>1 DEF TypeOK, ControlOK, Finished, Deliver, RecordsOf, Tasks, Locations
  <2> QED
    BY <2>6, <2>7, <2>8
<1>3. ASSUME NEW i \in Instances, HandlerStep(i)
      PROVE  TypeInv'
  <2>1. TypeOK'
    <3>1. CASE CloseErrs(i)
      BY <3>1 DEF TypeOK, CloseErrs, memos, payload, pcs, bounds
    <3>2. CASE Return(i)
      BY <3>2 DEF TypeOK, Return, memos, payload, pcs, bounds
    <3> QED
      BY <1>3, <3>1, <3>2 DEF HandlerStep
  <2>2. PositionsOK'
    BY <1>3 DEF TypeOK, PositionsOK, HandlerStep, CloseErrs, Return, payload, pcs
  <2>3. ControlOK'
    BY <1>3, SameControl DEF TypeOK, HandlerStep, CloseErrs, Return, RecordsOf
  <2> QED
    BY <2>1, <2>2, <2>3
<1>4. ASSUME NEW i \in Instances, ConcurrentMapAccess(i) \/ Kill(i)
      PROVE  TypeInv'
  <2>1. Dies(i) /\ events' \in 0 .. MaxEvents /\ faults' \in 0 .. MaxFaults
    BY <1>4 DEF TypeOK, ConcurrentMapAccess, Kill, Fault, bounds
  <2> QED
    BY <2>1, DiesType
<1>5. ASSUME NEW i \in Instances, Restart(i)
      PROVE  TypeInv'
  <2>1. TypeOK'
    BY <1>5 DEF TypeOK, Restart, payload, pcs, bounds
  <2>2. PositionsOK'
    BY <1>5 DEF TypeOK, PositionsOK, Restart, payload, pcs
  <2>3. ControlOK'
    BY <1>5, SameControl DEF TypeOK, Restart
  <2> QED
    BY <2>1, <2>2, <2>3
<1>6. ASSUME NEW r \in Records, RecordStep(r)
      PROVE  TypeInv'
  BY <1>6, RecordTypeStep
<1>7. ASSUME NEW r \in Records, StopsStep(r) \/ AreasStep(r)
      PROVE  TypeInv'
  BY <1>7, GroupTypeStep
<1>8. ASSUME NEW t \in Tasks, TaskStep(t)
      PROVE  TypeInv'
  BY <1>8, TaskTypeStep
<1>9. CASE UNCHANGED vars
  <2>1. TypeOK' /\ PositionsOK'
    BY <1>9 DEF TypeOK, PositionsOK, vars, outcome, memos, payload, pcs, bounds
  <2>2. ControlOK'
    BY <1>9, SameControl DEF vars, outcome
  <2> QED
    BY <2>1, <2>2
<1> QED
  BY <1>1, <1>2, <1>3, <1>4, <1>5, <1>6, <1>7, <1>8, <1>9 DEF Next

\* Every step and every behaviour keeps to the types.
THEOREM TypeCorrect == Spec => []TypeOK
<1>1. TypeInv => TypeOK
  BY DEF TypeInv
<1> QED
  BY <1>1, TypeInit, TypeStep, PTL DEF Spec

\* When errs is closed no goroutine of the event is left that could send on it
\* or write to the database, and none is when Handler has returned: the wait
\* groups and the channels stopsDone and stopAreasDone account for all of them.
THEOREM NoGoroutineLeft == Spec => []GoroutinesFinished
<1>1. TypeInv => GoroutinesFinished
  <2> SUFFICES ASSUME TypeInv, NEW i \in Instances, handler[i] # "serving", NEW r \in RecordsOf(i)
               PROVE  /\ record[r] \in {"off", "done"}
                      /\ stops[r] \in {"off", "done"}
                      /\ areas[r] \in {"off", "done"}
                      /\ Finished(r, Locations)
    BY DEF GoroutinesFinished
  <2>1. r \in Records /\ InstanceOf[r] = i
    BY DEF RecordsOf
  <2>2. ControlOK
    BY DEF TypeInv
  <2>3. record[r] \in {"off", "done"}
    BY <2>1, <2>2 DEF ControlOK
  <2>4. stops[r] \in {"off", "done"} /\ areas[r] \in {"off", "done"}
    BY <2>1, <2>2, <2>3 DEF ControlOK
  <2>5. Finished(r, Stops) /\ Finished(r, Areas)
    BY <2>1, <2>2, <2>4 DEF ControlOK
  <2> QED
    BY <2>3, <2>4, <2>5 DEF Finished, Locations
<1> QED
  BY <1>1, TypeInit, TypeStep, PTL DEF Spec

-----------------------------------------------------------------------------
(* The lists in the database.  CacheWellFormed alone is not inductive: what  *)
(* is written is what a goroutine read and combined some steps before.       *)

ListsOK ==
    /\ CacheWellFormed
    /\ \A t \in Tasks : /\ NoDuplicates(task[t].list)
                        /\ task[t].pc = "store" => InOrder(task[t].list)

LEMMA EmptyList == NoDuplicates(<< >>) /\ InOrder(<< >>)
BY DEF NoDuplicates, InOrder

\* Only goroutines for locations write to the database.  Other steps leave
\* them alone, or start them where there is a group, or end them.
LEMMA OtherSteps ==
    ASSUME TypeInv, [Next]_vars, ~ \E t \in Tasks : TaskStep(t)
    PROVE  /\ UNCHANGED cache
           /\ Tick \/ UNCHANGED now
           /\ \A t \in Tasks : \/ task'[t] = task[t]
                               \/ task'[t] = Off
                               \/ task'[t] = [Off EXCEPT !.pc = "llen"] /\ Group(t[1], t[2]) # {}
<1>1. CASE UNCHANGED <<now, cache, task>>
  BY <1>1
<1>2. ASSUME NEW i \in Instances, Deliver(i) \/ Dies(i)
      PROVE  /\ UNCHANGED <<now, cache>>
             /\ \A t \in Tasks : task'[t] = task[t] \/ task'[t] = Off
  BY <1>2 DEF Deliver, Dies
<1>3. ASSUME NEW r \in Records, NEW kind, task' = Started(r, kind)
      PROVE  \A t \in Tasks : \/ task'[t] = task[t]
                              \/ task'[t] = [Off EXCEPT !.pc = "llen"] /\ Group(t[1], t[2]) # {}
  BY <1>3 DEF Started
<1>4. CASE Tick \/ UNCHANGED vars
  BY <1>4 DEF Tick, vars, pcs
<1>5. ASSUME NEW i \in Instances,
             Deliver(i) \/ HandlerStep(i) \/ ConcurrentMapAccess(i) \/ Kill(i) \/ Restart(i)
      PROVE  UNCHANGED <<now, cache, task>> \/ Deliver(i) \/ Dies(i)
  BY <1>5 DEF HandlerStep, CloseErrs, Return, ConcurrentMapAccess, Kill, Restart, pcs
<1>6. ASSUME NEW r \in Records, RecordStep(r)
      PROVE  UNCHANGED <<now, cache, task>>
  BY <1>6 DEF RecordStep, RecordStart, UpdateDestinationName, DestinationNameFails,
              StartStopsAndAreas, RecordDone, RecordSendsErr, pcs
<1>7. ASSUME NEW r \in Records, StopsStep(r) \/ AreasStep(r)
      PROVE  \/ UNCHANGED <<now, cache, task>>
             \/ Dies(InstanceOf[r])
             \/ UNCHANGED <<now, cache>> /\ \E kind \in {Stops, Areas} : task' = Started(r, kind)
  BY <1>7 DEF StopsStep, AreasStep, GroupByStop, StopsDone, AppendDepartureToStopArea,
              StopAreaPanics, StopAreaFails, GroupedByStopArea, AreasDone, AreasSendErr, pcs
<1>8. \A r \in Records : InstanceOf[r] \in Instances
  OBVIOUS
<1>9. \/ Tick \/ UNCHANGED vars
      \/ \E i \in Instances :
           Deliver(i) \/ HandlerStep(i) \/ ConcurrentMapAccess(i) \/ Kill(i) \/ Restart(i)
      \/ \E r \in Records : RecordStep(r) \/ StopsStep(r) \/ AreasStep(r)
  BY DEF Next
<1> QED
  BY <1>1, <1>2, <1>3, <1>4, <1>5, <1>6, <1>7, <1>8, <1>9

LEMMA ListsInit == Init => ListsOK
BY EmptyList, OffType DEF Init, ListsOK, CacheWellFormed

LEMMA ListsStep == TypeInv /\ ListsOK /\ [Next]_vars => ListsOK'
<1> SUFFICES ASSUME TypeInv, ListsOK, [Next]_vars PROVE ListsOK'
  OBVIOUS
<1>1. CASE ~ \E t \in Tasks : TaskStep(t)
  BY <1>1, OtherSteps, EmptyList, OffType DEF ListsOK, CacheWellFormed
<1>2. ASSUME NEW t \in Tasks, TaskStep(t)
      PROVE  ListsOK'
  <2>1. PICK r \in Records, l \in Locations : t = <<r, l>>
    BY DEF Tasks
  <2>2. task' = [task EXCEPT ![t] = task'[t]] /\ task \in [Tasks -> TaskRecord]
    BY <1>2, TaskFrame DEF TypeInv, TypeOK
  <2>3. /\ cache \in [Locations -> Seq(Departure)] /\ task[t] \in TaskRecord
        /\ task[t].list \in Seq(Departure) /\ NoDuplicates(task[t].list)
        /\ cache[l] \in Seq(Departure) /\ NoDuplicates(cache[l])
    BY DEF TypeInv, TypeOK, ListsOK, CacheWellFormed, TaskRecord
  <2>4. /\ cache' = cache \/ (task[t].pc = "store" /\ cache' = [cache EXCEPT ![l] = task[t].list])
        /\ NoDuplicates(task'[t].list)
        /\ task'[t].pc = "store" => InOrder(task'[t].list)
    <3>1. CASE ReadLength(t)
      BY <3>1, <2>2, <2>3, EmptyList DEF ReadLength
    <3>2. CASE ReadList(t)
      <4> DEFINE n == IF task[t].len < Len(cache[l]) THEN task[t].len ELSE Len(cache[l])
      <4>1. n \in Nat /\ n <= Len(cache[l])
        BY <2>3 DEF TaskRecord
      <4>2. NoDuplicates(SubSeq(cache[l], 1, n))
        BY <2>3, <4>1, Prefix
      <4>3. task'[t] = [task[t] EXCEPT !.pc = "combine", !.list = SubSeq(cache[l], 1, n)]
        BY <2>1, <2>2, <3>2 DEF ReadList
      <4>4. task'[t].list = SubSeq(cache[l], 1, n) /\ task'[t].pc = "combine"
        BY <2>3, <4>3 DEF TaskRecord
      <4> HIDE DEF n
      <4> QED
        BY <3>2, <4>2, <4>4 DEF ReadList
    <3>3. CASE Combine(t)
      <4>1. PICK list \in Refreshed(task[t].list, NewDeps(msg[r], Group(r, l)), now) :
              task' = [task EXCEPT ![t] = [pc |-> "store", len |-> 0, list |-> list]]
        BY <2>1, <3>3 DEF Combine
      <4>2. InOrder(list) /\ NoDuplicates(list)
        <5> DEFINE new == NewDeps(msg[r], Group(r, l))
        <5>1. /\ new \in SUBSET Departure /\ IsFiniteSet(new)
              /\ \A n, o \in new : n.journeyRef = o.journeyRef => n = o
          BY BatchType
        <5>2. list \in Refreshed(task[t].list, new, now)
          BY <4>1
        <5> HIDE DEF new
        <5> QED
          BY <2>3, <5>1, <5>2, RefreshedList
      <4> QED
        BY <2>2, <3>3, <4>1, <4>2 DEF Combine
    <3>4. CASE Store(t) \/ LocationFails(t)
      <4>1. task'[t].list = << >> /\ task'[t].pc # "store"
        <5>1. \/ task' = [task EXCEPT ![t] = [Off EXCEPT !.pc = "done"]]
              \/ task' = [task EXCEPT ![t] = [Off EXCEPT !.pc = "fail"]]
          BY <3>4 DEF Store, LocationFails
        <5>2. \/ task'[t] = [Off EXCEPT !.pc = "done"]
              \/ task'[t] = [Off EXCEPT !.pc = "fail"]
          BY <2>2, <5>1
        <5> QED
          BY <5>2, OffType
      <4>2. cache' = cache \/ (task[t].pc = "store" /\ cache' = [cache EXCEPT ![l] = task[t].list])
        BY <2>1, <3>4 DEF Store, LocationFails
      <4> QED
        BY <4>1, <4>2, EmptyList
    <3>5. CASE LocationSendsErr(t)
      BY <2>2, <2>3, <3>5 DEF LocationSendsErr, TaskRecord
    <3> QED
      BY <1>2, <3>1, <3>2, <3>3, <3>4, <3>5 DEF TaskStep
  <2>5. CacheWellFormed'
    BY <2>1, <2>3, <2>4 DEF ListsOK, CacheWellFormed
  <2>6. \A u \in Tasks : u # t => task'[u] = task[u]
    BY <2>2
  <2> QED
    BY <2>4, <2>5, <2>6 DEF ListsOK
<1> QED
  BY <1>1, <1>2

\* Whatever instances and goroutines run at the same time, and wherever calls
\* fail or processes end: every list of the database is sorted, and a journey
\* is in it at most once.
THEOREM CacheAlwaysWellFormed == Spec => []CacheWellFormed
<1>1. ListsOK => CacheWellFormed
  BY DEF ListsOK
<1>2. Init => TypeInv /\ ListsOK
  BY TypeInit, ListsInit
<1>3. TypeInv /\ ListsOK /\ [Next]_vars => (TypeInv /\ ListsOK)'
  BY TypeStep, ListsStep
<1> QED
  BY <1>1, <1>2, <1>3, PTL DEF Spec

-----------------------------------------------------------------------------
(* Where departures are cached and with which destination *)

HasResolved(d) == d.destination = Resolved(d)

\* Departures that updateDestinationNames is done with have their destination,
\* all of them once the goroutines for stops and stop areas may start.
RecordsResolved ==
    \A r \in Records :
        /\ record[r] = "dest" => \A k \in live[r] \ todo[r] : HasResolved(msg[r][k])
        /\ record[r] = "wait" => \A k \in live[r] : HasResolved(msg[r][k])

Placed(d, l) == l \in {d.location, AreaOf[d.location]} /\ HasResolved(d)

PlacesOK ==
    /\ \A l \in Locations : \A k \in DOMAIN cache[l] : Placed(cache[l][k], l)
    /\ \A t \in Tasks : \A k \in DOMAIN task[t].list : Placed(task[t].list[k], t[2])

\* Looking a destination up once more would not change it.
LEMMA ResolvedOnce ==
    ASSUME NEW d \in Departure
    PROVE  HasResolved([d EXCEPT !.destination = Resolved(d)])
BY DEF HasResolved, Resolved, Departure

LEMMA RecordsResolvedStep == TypeInv /\ RecordsResolved /\ [Next]_vars => RecordsResolved'
<1> SUFFICES ASSUME TypeInv, RecordsResolved, [Next]_vars PROVE RecordsResolved'
  OBVIOUS
<1>1. CASE UNCHANGED <<record, live, todo, msg>>
  BY <1>1 DEF RecordsResolved
<1>2. CASE Tick \/ UNCHANGED vars
  BY <1>1, <1>2 DEF Tick, vars, payload, pcs
<1>3. ASSUME NEW i \in Instances, Deliver(i)
      PROVE  RecordsResolved'
  <2>1. PICK R \in SUBSET RecordsOf(i) : \E m \in [R -> Messages \cup {Malformed}] :
         /\ msg' = [r \in Records |-> IF r \in R THEN m[r] ELSE msg[r]]
         /\ record' = [r \in Records |-> IF r \in R THEN "start"
                                         ELSE IF r \in RecordsOf(i) THEN "off" ELSE record[r]]
    BY <1>3 DEF Deliver
  <2>2. /\ live' = [r \in Records |-> IF r \in RecordsOf(i) THEN {} ELSE live[r]]
        /\ UNCHANGED todo
    BY <1>3 DEF Deliver
  <2> QED
    BY <2>1, <2>2 DEF RecordsResolved
<1>4. ASSUME NEW i \in Instances, Dies(i)
      PROVE  RecordsResolved'
  BY <1>4 DEF Dies, payload, RecordsResolved
<1>5. ASSUME NEW i \in Instances,
             HandlerStep(i) \/ ConcurrentMapAccess(i) \/ Kill(i) \/ Restart(i)
      PROVE  UNCHANGED <<record, live, todo, msg>> \/ Dies(i)
  BY <1>5 DEF HandlerStep, CloseErrs, Return, ConcurrentMapAccess, Kill, Restart, payload, pcs
<1>6. ASSUME NEW r \in Records, RecordStep(r)
      PROVE  RecordsResolved'
  <2> USE DEF TypeInv
  <2>0. record \in [Records -> {"off", "start", "dest", "wait", "fail", "done"}]
    BY DEF TypeOK
  <2>1. CASE RecordStart(r)
    <3>1. CASE msg[r] = Malformed
      BY <2>0, <2>1, <3>1 DEF RecordStart, payload, RecordsResolved
    <3>2. CASE msg[r] # Malformed
      <4> DEFINE kept == {k \in DOMAIN msg[r] : ~ Expired(msg[r][k], now)}
      <4>1. /\ record' = [record EXCEPT ![r] = "dest"]
            /\ live' = [live EXCEPT ![r] = kept]
            /\ todo' = [todo EXCEPT ![r] = kept]
            /\ UNCHANGED msg
        BY <2>1, <3>2 DEF RecordStart
      <4> HIDE DEF kept
      <4> QED
        BY <2>0, <4>1 DEF TypeOK, RecordsResolved
    <3> QED
      BY <3>1, <3>2
  <2>2. CASE UpdateDestinationName(r)
    <3>1. PICK k \in todo[r] :
            /\ msg' = [msg EXCEPT ![r] = [@ EXCEPT ![k] =
                         [msg[r][k] EXCEPT !.destination = Resolved(msg[r][k])]]]
            /\ todo' = [todo EXCEPT ![r] = @ \ {k}]
      BY <2>2 DEF UpdateDestinationName
    <3>2. record[r] = "dest" /\ UNCHANGED <<live, record>>
      BY <2>2 DEF UpdateDestinationName, pcs
    <3>3. /\ msg[r] \in Seq(Departure) /\ k \in DOMAIN msg[r]
          /\ live[r] \subseteq DOMAIN msg[r]
      BY <3>1, <3>2 DEF PositionsOK
    <3> DEFINE e == [msg[r][k] EXCEPT !.destination = Resolved(msg[r][k])]
    <3>4. HasResolved(e)
      BY <3>3, ResolvedOnce
    <3>5. /\ msg'[r] = [msg[r] EXCEPT ![k] = e]
          /\ \A s \in Records : s # r => msg'[s] = msg[s]
      BY <3>1 DEF TypeOK
    <3> HIDE DEF e
    <3>6. /\ \A s \in Records : s # r => todo'[s] = todo[s]
          /\ todo'[r] = todo[r] \ {k}
      BY <3>1 DEF TypeOK
    <3>7. \A j \in live[r] \ todo'[r] : HasResolved(msg'[r][j])
      <4> SUFFICES ASSUME NEW j \in live[r] \ todo'[r] PROVE HasResolved(msg'[r][j])
        OBVIOUS
      <4>1. CASE j = k
        BY <3>3, <3>4, <3>5, <4>1
      <4>2. CASE j # k
        <5>1. j \in live[r] \ todo[r] /\ msg'[r][j] = msg[r][j]
          BY <3>3, <3>5, <3>6, <4>2
        <5>2. HasResolved(msg[r][j])
          BY <5>1, <3>2 DEF RecordsResolved
        <5> QED
          BY <5>1, <5>2
      <4> QED
        BY <4>1, <4>2
    <3> QED
      BY <3>2, <3>5, <3>6, <3>7 DEF RecordsResolved
  <2>3. CASE StartStopsAndAreas(r)
    BY <2>0, <2>3 DEF StartStopsAndAreas, RecordsResolved
  <2>4. CASE DestinationNameFails(r) \/ RecordDone(r) \/ RecordSendsErr(r)
    BY <2>0, <2>4 DEF DestinationNameFails, RecordDone, RecordSendsErr, payload, RecordsResolved
  <2> QED
    BY <1>6, <2>1, <2>2, <2>3, <2>4 DEF RecordStep
<1>7. ASSUME NEW r \in Records, StopsStep(r) \/ AreasStep(r)
      PROVE  UNCHANGED <<record, live, todo, msg>> \/ Dies(InstanceOf[r])
  BY <1>7 DEF StopsStep, AreasStep, GroupByStop, StopsDone, AppendDepartureToStopArea,
              StopAreaPanics, StopAreaFails, GroupedByStopArea, AreasDone, AreasSendErr, payload, pcs
<1>8. ASSUME NEW t \in Tasks, TaskStep(t)
      PROVE  UNCHANGED <<record, live, todo, msg>>
  BY <1>8, TaskFrame DEF payload
<1>9. \A r \in Records : InstanceOf[r] \in Instances
  OBVIOUS
<1>10. \/ Tick \/ UNCHANGED vars
       \/ \E i \in Instances :
            Deliver(i) \/ HandlerStep(i) \/ ConcurrentMapAccess(i) \/ Kill(i) \/ Restart(i)
       \/ \E r \in Records : RecordStep(r) \/ StopsStep(r) \/ AreasStep(r)
       \/ \E t \in Tasks : TaskStep(t)
  BY DEF Next
<1> QED
  BY <1>1, <1>2, <1>3, <1>4, <1>5, <1>6, <1>7, <1>8, <1>9, <1>10

\* What a goroutine for l combines belongs to l and has its destination.
LEMMA BatchPlaced ==
    ASSUME TypeInv, RecordsResolved, NEW r \in Records, NEW l \in Locations,
           record[r] = "wait"
    PROVE  \A n \in NewDeps(msg[r], Group(r, l)) : Placed(n, l)
<1> SUFFICES ASSUME NEW n \in NewDeps(msg[r], Group(r, l)) PROVE Placed(n, l)
  OBVIOUS
<1>1. PICK k \in Group(r, l) : n = msg[r][k]
  BY DEF NewDeps
<1>2. k \in live[r] /\ l \in {msg[r][k].location, AreaOf[msg[r][k].location]}
  BY DEF Group
<1>3. HasResolved(msg[r][k])
  BY <1>2 DEF RecordsResolved
<1> QED
  BY <1>1, <1>2, <1>3 DEF Placed

LEMMA PlacesStep == TypeInv /\ RecordsResolved /\ PlacesOK /\ [Next]_vars => PlacesOK'
<1> SUFFICES ASSUME TypeInv, RecordsResolved, PlacesOK, [Next]_vars PROVE PlacesOK'
  OBVIOUS
<1>1. CASE ~ \E t \in Tasks : TaskStep(t)
  <2>1. UNCHANGED cache /\ \A t \in Tasks : task'[t] = task[t] \/ task'[t].list = << >>
    BY <1>1, OtherSteps, OffType
  <2> QED
    BY <2>1 DEF PlacesOK
<1>2. ASSUME NEW t \in Tasks, TaskStep(t)
      PROVE  PlacesOK'
  <2>1. PICK r \in Records, l \in Locations : t = <<r, l>>
    BY DEF Tasks
  <2>2. task' = [task EXCEPT ![t] = task'[t]] /\ task \in [Tasks -> TaskRecord]
    BY <1>2, TaskFrame DEF TypeInv, TypeOK
  <2>3. /\ cache \in [Locations -> Seq(Departure)] /\ task[t] \in TaskRecord
        /\ task[t].list \in Seq(Departure) /\ cache[l] \in Seq(Departure)
        /\ \A k \in DOMAIN task[t].list : Placed(task[t].list[k], l)
        /\ \A k \in DOMAIN cache[l] : Placed(cache[l][k], l)
    BY <2>1 DEF TypeInv, TypeOK, PlacesOK, TaskRecord
  <2>4. /\ cache' = cache \/ cache' = [cache EXCEPT ![l] = task[t].list]
        /\ \A k \in DOMAIN task'[t].list : Placed(task'[t].list[k], l)
    <3>1. CASE ReadLength(t)
      <4>1. task'[t].list = << >>
        BY <2>2, <3>1 DEF ReadLength
      <4> QED
        BY <3>1, <4>1 DEF ReadLength
    <3>2. CASE ReadList(t)
      <4> DEFINE n == IF task[t].len < Len(cache[l]) THEN task[t].len ELSE Len(cache[l])
      <4>1. n \in Nat /\ n <= Len(cache[l])
        BY <2>3 DEF TaskRecord
      <4>2. task'[t] = [task[t] EXCEPT !.pc = "combine", !.list = SubSeq(cache[l], 1, n)]
        BY <2>1, <2>2, <3>2 DEF ReadList
      <4>3. task'[t].list = SubSeq(cache[l], 1, n)
        BY <2>3, <4>2 DEF TaskRecord
      <4> HIDE DEF n
      <4>4. \A k \in DOMAIN SubSeq(cache[l], 1, n) :
              k \in DOMAIN cache[l] /\ SubSeq(cache[l], 1, n)[k] = cache[l][k]
        BY <2>3, <4>1, Prefix
      <4> QED
        BY <2>3, <3>2, <4>3, <4>4 DEF ReadList
    <3>3. CASE Combine(t)
      <4> DEFINE new == NewDeps(msg[r], Group(r, l))
      <4>1. PICK list \in Refreshed(task[t].list, new, now) :
              task' = [task EXCEPT ![t] = [pc |-> "store", len |-> 0, list |-> list]]
        BY <2>1, <3>3 DEF Combine
      <4>2. new \in SUBSET Departure /\ IsFiniteSet(new)
        BY BatchType
      <4>3. record[r] = "wait"
        <5>1. task[<<r, l>>].pc \notin {"off", "done"}
          BY <1>2, <2>1, TaskFrame
        <5>2. ~ Finished(r, Stops) \/ ~ Finished(r, Areas)
          BY <5>1 DEF Finished, Locations
        <5> QED
          BY <5>2 DEF TypeInv, ControlOK
      <4>4. \A n \in new : Placed(n, l)
        BY <4>3, BatchPlaced
      <4> HIDE DEF new
      <4>5. \A k \in DOMAIN list : Placed(list[k], l)
        BY <2>3, <4>1, <4>2, <4>4, RefreshedList
      <4>6. task'[t].list = list
        BY <2>2, <4>1
      <4> QED
        BY <3>3, <4>5, <4>6 DEF Combine
    <3>4. CASE Store(t) \/ LocationFails(t)
      <4>1. \/ task' = [task EXCEPT ![t] = [Off EXCEPT !.pc = "done"]]
            \/ task' = [task EXCEPT ![t] = [Off EXCEPT !.pc = "fail"]]
        BY <3>4 DEF Store, LocationFails
      <4>2. task'[t].list = << >>
        BY <2>2, <4>1, OffType
      <4>3. cache' = cache \/ cache' = [cache EXCEPT ![l] = task[t].list]
        BY <2>1, <3>4 DEF Store, LocationFails
      <4> QED
        BY <4>2, <4>3
    <3>5. CASE LocationSendsErr(t)
      <4>1. task'[t].list = task[t].list
        BY <2>2, <2>3, <3>5 DEF LocationSendsErr, TaskRecord
      <4> QED
        BY <2>3, <3>5, <4>1 DEF LocationSendsErr
    <3> QED
      BY <1>2, <3>1, <3>2, <3>3, <3>4, <3>5 DEF TaskStep
  <2>5. \A m \in Locations : \A k \in DOMAIN cache'[m] : Placed(cache'[m][k], m)
    BY <2>3, <2>4 DEF PlacesOK
  <2>6. \A u \in Tasks : u # t => task'[u] = task[u]
    BY <2>2
  <2>7. \A u \in Tasks : \A k \in DOMAIN task'[u].list : Placed(task'[u].list[k], u[2])
    BY <2>1, <2>4, <2>6 DEF PlacesOK
  <2> QED
    BY <2>5, <2>7 DEF PlacesOK
<1> QED
  BY <1>1, <1>2

\* Whatever fails or ends half-way: a list of the database has departures of
\* its stop, or of the stops of its area, only, and all of them carry the
\* destination that the reference databases have for them.
THEOREM CacheAlwaysResolved == Spec => []CachedAsResolved
<1>1. PlacesOK => CachedAsResolved
  BY DEF PlacesOK, CachedAsResolved, Placed, HasResolved
<1>2. Init => TypeInv /\ RecordsResolved /\ PlacesOK
  <2>1. Init => RecordsResolved /\ PlacesOK
    BY OffType DEF Init, RecordsResolved, PlacesOK
  <2> QED
    BY <2>1, TypeInit
<1>3. TypeInv /\ RecordsResolved /\ PlacesOK /\ [Next]_vars
        => (TypeInv /\ RecordsResolved /\ PlacesOK)'
  BY TypeStep, RecordsResolvedStep, PlacesStep
<1> QED
  BY <1>1, <1>2, <1>3, PTL DEF Spec

-----------------------------------------------------------------------------
(* Atomicity.  A goroutine reads a list, combines it and writes it back in   *)
(* several steps.  The invariants say what it knows of the list that is in   *)
(* the database by then, as long as no other one is doing the same.          *)

\* No two goroutines, of whatever records and instances, are between reading
\* the list of a location and storing it.
OneAtALocation ==
    \A t, u \in Tasks :
        (/\ t[2] = u[2]
         /\ task[t].pc \in {"lrange", "combine", "store"}
         /\ task[u].pc \in {"lrange", "combine", "store"}) => t = u

WithDestination(d) == [d EXCEPT !.destination = Resolved(d)]

\* A record's departures are those of a message, with or without their
\* destinations from the reference databases.
MessagesOK ==
    \A r \in Records :
        /\ record[r] = "start" /\ msg[r] # Malformed => msg[r] \in Messages
        /\ live[r] # {} =>
             \E m \in Messages :
                 /\ DOMAIN msg[r] = DOMAIN m
                 /\ \A k \in DOMAIN m : msg[r][k] \in {m[k], WithDestination(m[k])}

\* A goroutine runs for a location that has a group of departures.
GroupsOK ==
    \A t \in Tasks : task[t].pc \notin {"off", "done"} => Group(t[1], t[2]) # {}

ReadsOK ==
    \A t \in Tasks :
        /\ task[t].pc = "lrange" => task[t].len = Len(cache[t[2]])
        /\ task[t].pc = "combine" => task[t].list = cache[t[2]]
        /\ task[t].pc = "store" =>
             \E new \in Batches, u \in 0 .. now : task[t].list \in Refreshed(cache[t[2]], new, u)

AtomicInv == TypeInv /\ RecordsResolved /\ MessagesOK /\ GroupsOK /\ ReadsOK

\* The abstract specification has the operators of Departures.
LEMMA AbstractRefreshed ==
    ASSUME NEW list, NEW new, NEW t
    PROVE  Abstract!Refreshed(list, new, t) = Refreshed(list, new, t)
<1>1. \A d : Abstract!Expired(d, t) = Expired(d, t)
  BY DEF Abstract!Expired, Expired, Abstract!DepartureTime, DepartureTime
<1>2. \A d, e : Abstract!Before(d, e) = Before(d, e)
  BY Zenon DEF Abstract!Before, Before, Abstract!LessByServiceNumber, LessByServiceNumber,
         Abstract!DepartureTime, DepartureTime
<1>3. Abstract!Combined(list, new) = Combined(list, new)
  BY Zenon DEF Abstract!Combined, Combined, Abstract!Replaced, Replaced, Abstract!IsFirst, IsFirst,
         Abstract!Added, Added
<1>4. \A S : Abstract!SetToSeqs(S) = SetToSeqs(S)
  BY Zenon DEF Abstract!SetToSeqs, SetToSeqs, Abstract!Cardinality, Cardinality
<1>5. {d \in Abstract!Combined(list, new) : ~ Abstract!Expired(d[2], t)}
        = {d \in Combined(list, new) : ~ Expired(d[2], t)}
  BY <1>1, <1>3, Zenon
<1>6. ASSUME NEW S
      PROVE  { p \in Abstract!SetToSeqs(S) :
                 \A i, j \in DOMAIN p : i < j => ~ Abstract!Before(p[j][2], p[i][2]) }
             = { p \in SetToSeqs(S) :
                 \A i, j \in DOMAIN p : i < j => ~ Before(p[j][2], p[i][2]) }
  BY <1>2, <1>4, Zenon
<1> QED
  BY <1>5, <1>6, Zenon DEF Abstract!Refreshed, Refreshed

\* How a step changes the departures of a record and the positions among them
\* that are in process.
LEMMA MessageSteps ==
    ASSUME TypeInv, [Next]_vars, NEW r \in Records
    PROVE  \/ msg'[r] = msg[r] /\ live'[r] = live[r] /\ (record'[r] = "start" => record[r] = "start")
           \/ live'[r] = {} /\ (record'[r] = "start" => msg'[r] \in Messages \cup {Malformed})
                            /\ record'[r] \in {"off", "start"}
           \/ RecordStart(r)
           \/ UpdateDestinationName(r)
<1>0. /\ msg \in [Records -> Seq(Departure) \cup {Malformed}]
      /\ live \in [Records -> SUBSET Nat] /\ todo \in [Records -> SUBSET Nat]
      /\ record \in [Records -> {"off", "start", "dest", "wait", "fail", "done"}]
  BY DEF TypeInv, TypeOK
<1>1. CASE UNCHANGED <<record, live, msg>>
  BY <1>1
<1>2. CASE Tick \/ UNCHANGED vars
  BY <1>1, <1>2 DEF Tick, vars, payload, pcs
<1>3. ASSUME NEW i \in Instances, Deliver(i)
      PROVE  \/ msg'[r] = msg[r] /\ live'[r] = live[r] /\ record'[r] = record[r]
             \/ live'[r] = {} /\ (record'[r] = "start" => msg'[r] \in Messages \cup {Malformed})
                              /\ record'[r] \in {"off", "start"}
  <2>1. PICK R \in SUBSET RecordsOf(i) : \E m \in [R -> Messages \cup {Malformed}] :
         /\ msg' = [s \in Records |-> IF s \in R THEN m[s] ELSE msg[s]]
         /\ record' = [s \in Records |-> IF s \in R THEN "start"
                                         ELSE IF s \in RecordsOf(i) THEN "off" ELSE record[s]]
    BY <1>3 DEF Deliver
  <2>2. live' = [s \in Records |-> IF s \in RecordsOf(i) THEN {} ELSE live[s]]
    BY <1>3 DEF Deliver
  <2> QED
    BY <2>1, <2>2
<1>4. ASSUME NEW i \in Instances, Dies(i)
      PROVE  msg'[r] = msg[r] /\ live'[r] = live[r] /\ (record'[r] = "start" => record[r] = "start")
  BY <1>4 DEF Dies, payload
<1>5. ASSUME NEW i \in Instances,
             HandlerStep(i) \/ ConcurrentMapAccess(i) \/ Kill(i) \/ Restart(i)
      PROVE  UNCHANGED <<record, live, msg>> \/ Dies(i)
  BY <1>5 DEF HandlerStep, CloseErrs, Return, ConcurrentMapAccess, Kill, Restart, payload, pcs
<1>6. ASSUME NEW s \in Records, RecordStep(s), s # r
      PROVE  msg'[r] = msg[r] /\ live'[r] = live[r] /\ record'[r] = record[r]
  BY <1>0, <1>6 DEF RecordStep, RecordStart, UpdateDestinationName, DestinationNameFails,
              StartStopsAndAreas, RecordDone, RecordSendsErr, payload, pcs
<1>7. ASSUME RecordStep(r)
      PROVE  \/ RecordStart(r) \/ UpdateDestinationName(r)
             \/ UNCHANGED <<msg, live>> /\ record'[r] # "start"
  BY <1>0, <1>7 DEF RecordStep, DestinationNameFails,
              StartStopsAndAreas, RecordDone, RecordSendsErr, payload, pcs
<1>8. ASSUME NEW s \in Records, StopsStep(s) \/ AreasStep(s)
      PROVE  UNCHANGED <<record, live, msg>> \/ Dies(InstanceOf[s])
  BY <1>8 DEF StopsStep, AreasStep, GroupByStop, StopsDone, AppendDepartureToStopArea,
              StopAreaPanics, StopAreaFails, GroupedByStopArea, AreasDone, AreasSendErr, payload, pcs
<1>9. ASSUME NEW t \in Tasks, TaskStep(t)
      PROVE  UNCHANGED <<record, live, msg>>
  BY <1>9, TaskFrame DEF payload
<1>10. \A s \in Records : InstanceOf[s] \in Instances
  OBVIOUS
<1>11. \/ Tick \/ UNCHANGED vars
       \/ \E i \in Instances :
            Deliver(i) \/ HandlerStep(i) \/ ConcurrentMapAccess(i) \/ Kill(i) \/ Restart(i)
       \/ \E s \in Records : RecordStep(s) \/ StopsStep(s) \/ AreasStep(s)
       \/ \E t \in Tasks : TaskStep(t)
  BY DEF Next
<1> QED
  BY <1>1, <1>2, <1>3, <1>4, <1>5, <1>6, <1>7, <1>8, <1>9, <1>10, <1>11

\* Looking a destination up once more would not change it.
LEMMA DestinationOnce ==
    ASSUME NEW d \in Departure
    PROVE  /\ WithDestination(d) \in Departure
           /\ WithDestination(WithDestination(d)) = WithDestination(d)
           /\ HasResolved(d) => WithDestination(d) = d
<1>1. WithDestination(d) \in Departure
  BY ResolvedType DEF WithDestination
<1>2. Resolved(WithDestination(d)) = WithDestination(d).destination
  BY ResolvedOnce DEF WithDestination, HasResolved
<1>3. \A e \in Departure : [e EXCEPT !.destination = e.destination] = e
  BY DEF Departure
<1> QED
  BY <1>1, <1>2, <1>3 DEF WithDestination, HasResolved

LEMMA MessagesStep == TypeInv /\ MessagesOK /\ [Next]_vars => MessagesOK'
<1> SUFFICES ASSUME TypeInv, MessagesOK, [Next]_vars, NEW r \in Records
             PROVE  ( /\ record[r] = "start" /\ msg[r] # Malformed => msg[r] \in Messages
                      /\ live[r] # {} =>
                           \E m \in Messages :
                               /\ DOMAIN msg[r] = DOMAIN m
                               /\ \A k \in DOMAIN m : msg[r][k] \in {m[k], WithDestination(m[k])} )'
  BY DEF MessagesOK
<1>0. /\ record[r] = "start" /\ msg[r] # Malformed => msg[r] \in Messages
      /\ live[r] # {} =>
           \E m \in Messages :
               /\ DOMAIN msg[r] = DOMAIN m
               /\ \A k \in DOMAIN m : msg[r][k] \in {m[k], WithDestination(m[k])}
      /\ msg \in [Records -> Seq(Departure) \cup {Malformed}]
      /\ live \in [Records -> SUBSET Nat] /\ todo \in [Records -> SUBSET Nat]
      /\ record \in [Records -> {"off", "start", "dest", "wait", "fail", "done"}]
  BY DEF MessagesOK, TypeInv, TypeOK
<1>1. ASSUME NEW d PROVE WithDestination(d)' = WithDestination(d)
  BY DEF WithDestination, Resolved
<1>2. CASE msg'[r] = msg[r] /\ live'[r] = live[r] /\ (record'[r] = "start" => record[r] = "start")
  BY <1>0, <1>2
<1>3. CASE live'[r] = {} /\ (record'[r] = "start" => msg'[r] \in Messages \cup {Malformed})
  BY <1>3
<1>4. CASE RecordStart(r)
  <2>1. record[r] = "start" /\ msg' = msg /\ record'[r] \in {"fail", "dest"}
    BY <1>0, <1>4 DEF RecordStart, payload
  <2>2. msg[r] = Malformed => live' = live
    BY <1>4 DEF RecordStart, payload
  <2> QED
    BY <1>0, <2>1, <2>2
<1>5. CASE UpdateDestinationName(r)
  <2>1. PICK k \in todo[r] :
          msg' = [msg EXCEPT ![r] = [@ EXCEPT ![k] = WithDestination(msg[r][k])]]
    BY <1>5 DEF UpdateDestinationName, WithDestination
  <2>2. record[r] = "dest" /\ live' = live /\ record' = record
    BY <1>5 DEF UpdateDestinationName, pcs
  <2>3. k \in live[r] /\ k \in DOMAIN msg[r] /\ msg[r] \in Seq(Departure)
    BY <2>1, <2>2 DEF TypeInv, PositionsOK
  <2>4. PICK m \in Messages :
           /\ DOMAIN msg[r] = DOMAIN m
           /\ \A j \in DOMAIN m : msg[r][j] \in {m[j], WithDestination(m[j])}
    BY <1>0, <2>3
  <2>5. m \in Seq(Departure) /\ m[k] \in Departure
    BY <2>3, <2>4
  <2>6. WithDestination(msg[r][k]) = WithDestination(m[k])
    BY <2>3, <2>4, <2>5, DestinationOnce
  <2>7. msg'[r] = [msg[r] EXCEPT ![k] = WithDestination(m[k])]
    BY <1>0, <2>1, <2>6
  <2>8. /\ DOMAIN msg'[r] = DOMAIN m
        /\ \A j \in DOMAIN m : msg'[r][j] \in {m[j], WithDestination(m[j])}
    BY <2>3, <2>4, <2>7
  <2> QED
    BY <2>2, <2>4, <2>8
<1> QED
  BY <1>2, <1>3, <1>4, <1>5, MessageSteps

\* While a goroutine runs for a location, the record that it belongs to waits.
LEMMA RunningWaits ==
    ASSUME TypeInv, NEW r \in Records, NEW l \in Locations,
           task[<<r, l>>].pc \notin {"off", "done"}
    PROVE  record[r] = "wait"
<1>1. ~ Finished(r, Stops) \/ ~ Finished(r, Areas)
  BY DEF Finished, Locations
<1> QED
  BY <1>1 DEF TypeInv, ControlOK

LEMMA GroupsStep == TypeInv /\ GroupsOK /\ [Next]_vars => GroupsOK'
<1> SUFFICES ASSUME TypeInv, GroupsOK, [Next]_vars,
                    NEW r \in Records, NEW l \in Locations,
                    task'[<<r, l>>].pc \notin {"off", "done"}
             PROVE  Group(r, l)' # {}
  BY DEF GroupsOK, Tasks
<1> DEFINE t == <<r, l>>
<1>1. t \in Tasks /\ t[1] = r /\ t[2] = l
  BY DEF Tasks
<1>2. TypeInv'
  BY TypeStep
<1>3. record'[r] = "wait"
  <2>1. (task[<<r, l>>].pc \notin {"off", "done"})'
    OBVIOUS
  <2> QED
    BY <1>2, <2>1 DEF TypeInv, ControlOK, Finished, Locations
<1>4. msg'[r] = msg[r] /\ live'[r] = live[r]
  <2>1. ~ RecordStart(r) /\ ~ UpdateDestinationName(r)
    BY <1>3 DEF RecordStart, UpdateDestinationName, pcs, TypeInv, TypeOK
  <2> QED
    BY <1>3, <2>1, MessageSteps
<1>5. Group(r, l)' = Group(r, l)
  BY <1>4 DEF Group
<1>6. CASE task[t].pc \notin {"off", "done"}
  BY <1>1, <1>5, <1>6 DEF GroupsOK
<1>7. CASE task[t].pc \in {"off", "done"}
  <2>1. ~ TaskStep(t)
    BY <1>1, <1>7, TaskFrame
  <2>2. \A u \in Tasks : TaskStep(u) => u = t \/ task'[t] = task[t]
    BY <1>1, TaskFrame DEF TypeInv, TypeOK
  <2>3. ~ \E u \in Tasks : TaskStep(u)
    BY <1>7, <2>1, <2>2
  <2>4. task'[t] # task[t]
    BY <1>7
  <2> QED
    BY <1>1, <1>5, <2>3, <2>4, OtherSteps, OffType
<1> QED
  BY <1>6, <1>7

LEMMA SelfSubSeq ==
    ASSUME NEW s \in Seq(Departure)
    PROVE  SubSeq(s, 1, Len(s)) = s
OBVIOUS

\* What a goroutine combines is a batch that a message may bring.
LEMMA BatchKnown ==
    ASSUME TypeInv, RecordsResolved, MessagesOK, GroupsOK, NEW r \in Records, NEW l \in Locations,
           task[<<r, l>>].pc \notin {"off", "done"}
    PROVE  NewDeps(msg[r], Group(r, l)) \in Batches
<1> DEFINE g == Group(r, l)
<1>1. record[r] = "wait" /\ g # {}
  BY RunningWaits DEF GroupsOK, Tasks
<1>2. g \subseteq live[r] /\ live[r] # {}
  BY <1>1 DEF Group
<1>3. msg[r] \in Seq(Departure) /\ g \subseteq DOMAIN msg[r]
  BY <1>1, GroupType
<1>4. PICK m \in Messages :
        /\ DOMAIN msg[r] = DOMAIN m
        /\ \A k \in DOMAIN m : msg[r][k] \in {m[k], WithDestination(m[k])}
  BY <1>2 DEF MessagesOK
<1> DEFINE resolved == ResolvedMessage(m)
<1>5. ASSUME NEW k \in g
      PROVE  msg[r][k] = resolved[k]
  <2>1. HasResolved(msg[r][k])
    BY <1>1, <1>2 DEF RecordsResolved
  <2>2. m[k] \in Departure /\ k \in DOMAIN m
    BY <1>3, <1>4
  <2>3. resolved[k] = WithDestination(m[k])
    BY <2>2 DEF WithDestination, ResolvedMessage
  <2>4. CASE msg[r][k] = m[k]
    BY <2>1, <2>2, <2>3, <2>4, DestinationOnce
  <2>5. CASE msg[r][k] = WithDestination(m[k])
    BY <2>3, <2>5
  <2> QED
    BY <1>4, <2>2, <2>4, <2>5
<1>6. g \in SUBSET DOMAIN m
  BY <1>3, <1>4
<1>7. NewDeps(resolved, g) \in Batches
  <2> HIDE DEF g
  <2>1. NewDeps(ResolvedMessage(m), g) \in { NewDeps(ResolvedMessage(m), h) : h \in SUBSET DOMAIN m }
    BY <1>6
  <2> QED
    BY <1>4, <2>1 DEF Batches
<1> HIDE DEF g, resolved
<1>8. NewDeps(msg[r], g) = NewDeps(resolved, g)
  BY <1>5 DEF NewDeps
<1> QED
  BY <1>7, <1>8 DEF g

LEMMA ReadsStep == AtomicInv /\ OneAtALocation /\ [Next]_vars => ReadsOK'
<1> SUFFICES ASSUME AtomicInv, OneAtALocation, [Next]_vars PROVE ReadsOK'
  OBVIOUS
<1> USE DEF AtomicInv
<1>0. /\ now \in Nat /\ (now' = now \/ now' = now + 1)
  <2>1. now \in Nat
    BY DEF TypeInv, TypeOK, Times
  <2>2. CASE ~ \E t \in Tasks : TaskStep(t)
    BY <2>1, <2>2, OtherSteps DEF Tick
  <2>3. CASE \E t \in Tasks : TaskStep(t)
    BY <2>1, <2>3, TaskFrame
  <2> QED
    BY <2>1, <2>2, <2>3
<1>1. CASE ~ \E t \in Tasks : TaskStep(t)
  <2>1. UNCHANGED cache
    BY <1>1, OtherSteps
  <2>2. \A t \in Tasks : task'[t] = task[t] \/ task'[t].pc \in {"off", "llen"}
    BY <1>1, OtherSteps, OffType
  <2>3. \A u \in 0 .. now : u \in 0 .. now'
    BY <1>0
  <2>4. \A list, s, new, u : (list \in Refreshed(s, new, u))' <=> list' \in Refreshed(s', new', u')
    OBVIOUS
  <2> QED
    BY <2>1, <2>2, <2>3 DEF ReadsOK
<1>2. ASSUME NEW t \in Tasks, TaskStep(t)
      PROVE  ReadsOK'
  <2>1. PICK r \in Records, l \in Locations : t = <<r, l>>
    BY DEF Tasks
  <2>2. /\ task' = [task EXCEPT ![t] = task'[t]] /\ task \in [Tasks -> TaskRecord]
        /\ UNCHANGED now /\ task[t].pc \notin {"off", "done"}
    BY <1>2, TaskFrame DEF TypeInv, TypeOK
  <2>3. /\ cache \in [Locations -> Seq(Departure)] /\ task[t] \in TaskRecord
        /\ cache[l] \in Seq(Departure)
    BY <2>1 DEF TypeInv, TypeOK
  <2>4. ASSUME NEW u \in Tasks, u # t
        PROVE  /\ task'[u] = task[u]
               /\ cache'[u[2]] = cache[u[2]] \/ task[u].pc \notin {"lrange", "combine", "store"}
    <3>1. task'[u] = task[u]
      BY <2>2, <2>4
    <3>2. cache' = cache \/ (task[t].pc = "store" /\ cache' = [cache EXCEPT ![l] = task[t].list])
      BY <1>2, <2>1 DEF TaskStep, ReadLength, ReadList, Combine, Store, LocationFails, LocationSendsErr
    <3>3. u[2] = l /\ task[t].pc = "store" => task[u].pc \notin {"lrange", "combine", "store"}
      BY <2>1, <2>4 DEF OneAtALocation
    <3> QED
      BY <2>3, <3>1, <3>2, <3>3 DEF Tasks
  <2>5. /\ task'[t].pc = "lrange" => task'[t].len = Len(cache'[l])
        /\ task'[t].pc = "combine" => task'[t].list = cache'[l]
        /\ task'[t].pc = "store" =>
             \E new \in Batches, u \in 0 .. now' : task'[t].list \in Refreshed(cache'[l], new, u)
    <3>1. CASE ReadLength(t)
      <4>1. /\ UNCHANGED cache
            /\ task'[t] = [ pc |-> IF cache[l] = << >> THEN "combine" ELSE "lrange",
                            len |-> Len(cache[l]), list |-> << >> ]
        BY <2>1, <2>2, <3>1 DEF ReadLength
      <4> QED
        BY <4>1
    <3>2. CASE ReadList(t)
      <4>1. task[t].len = Len(cache[l])
        BY <2>1, <3>2 DEF ReadsOK, ReadList
      <4>2. task'[t] = [task[t] EXCEPT !.pc = "combine", !.list = SubSeq(cache[l], 1, Len(cache[l]))]
        BY <2>1, <2>2, <3>2, <4>1 DEF ReadList
      <4>3. task'[t].pc = "combine" /\ task'[t].list = cache[l]
        BY <2>3, <4>2, SelfSubSeq DEF TaskRecord
      <4>4. UNCHANGED cache
        BY <3>2 DEF ReadList
      <4> QED
        BY <4>3, <4>4
    <3>3. CASE Combine(t)
      <4> DEFINE new == NewDeps(msg[r], Group(r, l))
      <4>1. PICK list \in Refreshed(task[t].list, new, now) :
              task' = [task EXCEPT ![t] = [pc |-> "store", len |-> 0, list |-> list]]
        BY <2>1, <3>3 DEF Combine
      <4>2. new \in Batches
        BY <2>1, <2>2, BatchKnown
      <4>3. task[t].list = cache[l] /\ UNCHANGED cache
        BY <2>1, <3>3 DEF ReadsOK, Combine
      <4>4. task'[t].pc = "store" /\ task'[t].list = list
        BY <2>2, <4>1
      <4>5. now \in 0 .. now'
        BY <1>0, <2>2
      <4> HIDE DEF new
      <4> QED
        BY <4>1, <4>2, <4>3, <4>4, <4>5
    <3>4. CASE Store(t) \/ LocationFails(t)
      <4>1. \/ task' = [task EXCEPT ![t] = [Off EXCEPT !.pc = "done"]]
            \/ task' = [task EXCEPT ![t] = [Off EXCEPT !.pc = "fail"]]
        BY <3>4 DEF Store, LocationFails
      <4>2. task'[t].pc \in {"done", "fail"}
        BY <2>2, <4>1, OffType
      <4> QED
        BY <4>2
    <3>5. CASE LocationSendsErr(t)
      <4>1. task'[t].pc = "done"
        BY <2>2, <2>3, <3>5 DEF LocationSendsErr, TaskRecord
      <4> QED
        BY <4>1
    <3> QED
      BY <1>2, <3>1, <3>2, <3>3, <3>4, <3>5 DEF TaskStep
  <2>6. \A u \in Tasks : u # t =>
          /\ task'[u].pc = "lrange" => task'[u].len = Len(cache'[u[2]])
          /\ task'[u].pc = "combine" => task'[u].list = cache'[u[2]]
          /\ task'[u].pc = "store" =>
               \E new \in Batches, v \in 0 .. now' : task'[u].list \in Refreshed(cache'[u[2]], new, v)
    BY <2>2, <2>4 DEF ReadsOK
  <2> QED
    BY <2>1, <2>5, <2>6 DEF ReadsOK
<1> QED
  BY <1>1, <1>2

LEMMA AtomicStep == AtomicInv /\ OneAtALocation /\ [Next]_vars => [Abstract!Next]_(Abstract!vars)
<1> SUFFICES ASSUME AtomicInv, OneAtALocation, [Next]_vars
             PROVE  Abstract!Next \/ UNCHANGED <<now, cache>>
  BY DEF Abstract!vars
<1> USE DEF AtomicInv
<1>1. CASE ~ \E t \in Tasks : TaskStep(t)
  <2>1. CASE UNCHANGED now
    BY <1>1, <2>1, OtherSteps
  <2>2. CASE Tick
    BY <2>2 DEF Tick, Abstract!Next, Abstract!Tick
  <2> QED
    BY <1>1, <2>1, <2>2, OtherSteps
<1>2. ASSUME NEW t \in Tasks, TaskStep(t)
      PROVE  Abstract!Next \/ UNCHANGED <<now, cache>>
  <2>1. PICK r \in Records, l \in Locations : t = <<r, l>>
    BY DEF Tasks
  <2>2. UNCHANGED now
    BY <1>2, TaskFrame
  <2>3. cache' = cache \/ (task[t].pc = "store" /\ cache' = [cache EXCEPT ![l] = task[t].list])
    BY <1>2, <2>1 DEF TaskStep, ReadLength, ReadList, Combine, Store, LocationFails, LocationSendsErr
  <2>4. ASSUME task[t].pc = "store", cache' = [cache EXCEPT ![l] = task[t].list]
        PROVE  Abstract!Next
    <3>1. PICK new \in Batches, u \in 0 .. now : task[t].list \in Refreshed(cache[l], new, u)
      BY <2>1, <2>4 DEF ReadsOK
    <3>2. task[t].list \in Abstract!Refreshed(cache[l], new, u)
      BY <3>1, AbstractRefreshed
    <3>3. Abstract!Ingest(l)
      BY <2>2, <2>4, <3>2 DEF Abstract!Ingest
    <3>4. l \in Abstract!Locations
      BY DEF Locations, Abstract!Locations
    <3> QED
      BY <3>3, <3>4 DEF Abstract!Next
  <2> QED
    BY <2>2, <2>3, <2>4
<1> QED
  BY <1>1, <1>2

LEMMA AtomicInit == Init => AtomicInv /\ Abstract!Init
<1> SUFFICES ASSUME Init PROVE AtomicInv /\ Abstract!Init
  OBVIOUS
<1>1. RecordsResolved /\ MessagesOK /\ GroupsOK /\ ReadsOK
  BY OffType DEF Init, RecordsResolved, MessagesOK, GroupsOK, ReadsOK
<1>2. Abstract!Init
  BY DEF Init, Abstract!Init, Times, Abstract!Times, Locations, Abstract!Locations
<1> QED
  BY <1>1, <1>2, TypeInit DEF AtomicInv

\* Reading, combining and writing a list, with whatever goes wrong in between,
\* amount to one atomic ingestion of a batch into the list that is in the
\* database at that moment, or to none, wherever no two goroutines do so for
\* one location at a time (the lost update is what happens where they do).
THEOREM AtomicUnlessOverlap == Spec /\ []OneAtALocation => AtomicIngestion
<1>1. AtomicInv /\ OneAtALocation /\ [Next]_vars => AtomicInv'
  BY TypeStep, RecordsResolvedStep, MessagesStep, GroupsStep, ReadsStep DEF AtomicInv
<1> QED
  BY <1>1, AtomicInit, AtomicStep, PTL DEF Spec, AtomicIngestion, Abstract!Spec

\* With one record in process at a time there is no overlap.
THEOREM AtomicForOneRecord ==
    ASSUME NEW r, Records = {r}
    PROVE  Spec => AtomicIngestion
<1>1. OneAtALocation
  BY DEF OneAtALocation, Tasks
<1> QED
  BY <1>1, AtomicUnlessOverlap, PTL

-----------------------------------------------------------------------------
(* What success means.  The invariant follows the departures of a record     *)
(* from the goroutine that starts those for its locations to the database.   *)

\* The list has every departure of the batch whose time has not passed.
Covers(s, new, t) == \A n \in new : Expired(n, t) \/ \E k \in DOMAIN s : s[k] = n

Batch(r, l) == NewDeps(msg[r], Group(r, l))

\* No error was received where Handler has returned none.
ResultOK ==
    \A i \in Instances : handler[i] = "idle" /\ result[i] = "ok" => ~ gErr[i]

\* Before its destinations are updated, nothing of a record runs or has run.
NotStarted ==
    \A r \in Records : record[r] \notin {"wait", "done"} =>
        /\ stops[r] = "off" /\ areas[r] = "off"
        /\ \A l \in Locations : task[<<r, l>>].pc = "off"

\* How far the departures of a record have come on their way to a location,
\* unless an error was received.
OnTheWay(r, l) ==
    LET pc == task[<<r, l>>].pc
    IN  /\ pc = "store" => Covers(task[<<r, l>>].list, Batch(r, l), now)
        /\ pc = "done" => gErr[InstanceOf[r]] \/ Covers(cache[l], Batch(r, l), now)
        /\ l \in Stops /\ stops[r] \in {"wait", "done"} => Group(r, l) = {} \/ pc # "off"
        /\ l \in Areas /\ areas[r] \in {"wait", "done"} =>
             gErr[InstanceOf[r]] \/ Group(r, l) = {} \/ pc # "off"
        /\ record[r] = "done" => gErr[InstanceOf[r]] \/ Covers(cache[l], Batch(r, l), now)

SuccessInv ==
    /\ TypeInv /\ ListsOK /\ ResultOK /\ NotStarted
    /\ \A r \in Records, l \in Locations : OnTheWay(r, l)

LEMMA ResultStep == TypeInv /\ ResultOK /\ [Next]_vars => ResultOK'
<1> SUFFICES ASSUME TypeInv, ResultOK, [Next]_vars, NEW j \in Instances
             PROVE  (handler[j] = "idle" /\ result[j] = "ok" => ~ gErr[j])'
  BY DEF ResultOK
<1>0. /\ handler[j] = "idle" /\ result[j] = "ok" => ~ gErr[j]
      /\ handler \in [Instances -> {"idle", "serving", "closed", "crashed"}]
      /\ result \in [Instances -> {"none", "ok", "error"}]
      /\ gErr \in [Instances -> BOOLEAN]
  BY DEF ResultOK, TypeInv, TypeOK
<1>1. CASE UNCHANGED <<handler, result, gErr>>
  BY <1>0, <1>1
<1>2. CASE Tick \/ UNCHANGED vars
  BY <1>1, <1>2 DEF Tick, vars, outcome
<1>3. ASSUME NEW i \in Instances,
             Deliver(i) \/ HandlerStep(i) \/ ConcurrentMapAccess(i) \/ Kill(i) \/ Restart(i)
      PROVE  (handler[j] = "idle" /\ result[j] = "ok" => ~ gErr[j])'
  <2>1. CASE Deliver(i)
    BY <1>0, <2>1 DEF Deliver
  <2>2. CASE CloseErrs(i)
    BY <1>0, <2>2 DEF CloseErrs
  <2>3. CASE Return(i)
    BY <1>0, <2>3 DEF Return
  <2>4. CASE Dies(i)
    BY <1>0, <2>4 DEF Dies
  <2>5. CASE Restart(i)
    BY <1>0, <2>5 DEF Restart
  <2> QED
    BY <1>3, <2>1, <2>2, <2>3, <2>4, <2>5 DEF HandlerStep, ConcurrentMapAccess, Kill
<1>4. ASSUME NEW i \in Instances, handler[i] = "serving",
             gErr' = [gErr EXCEPT ![i] = TRUE], UNCHANGED <<handler, result>>
      PROVE  (handler[j] = "idle" /\ result[j] = "ok" => ~ gErr[j])'
  BY <1>0, <1>4
<1>5. ASSUME NEW i \in Instances, Dies(i)
      PROVE  (handler[j] = "idle" /\ result[j] = "ok" => ~ gErr[j])'
  BY <1>0, <1>5 DEF Dies
<1>6. \A r \in Records : InstanceOf[r] \in Instances
  OBVIOUS
<1>7. ASSUME NEW r \in Records, RecordStep(r)
      PROVE  UNCHANGED <<handler, result, gErr>> \/ (SendErr(r) /\ UNCHANGED <<handler, result>>)
  BY <1>7 DEF RecordStep, RecordStart, UpdateDestinationName, DestinationNameFails,
              StartStopsAndAreas, RecordDone, RecordSendsErr, outcome
<1>8. ASSUME NEW r \in Records, StopsStep(r) \/ AreasStep(r)
      PROVE  \/ UNCHANGED <<handler, result, gErr>> \/ (SendErr(r) /\ UNCHANGED <<handler, result>>)
             \/ Dies(InstanceOf[r])
  BY <1>8 DEF StopsStep, AreasStep, GroupByStop, StopsDone, AppendDepartureToStopArea,
              StopAreaPanics, StopAreaFails, GroupedByStopArea, AreasDone, AreasSendErr, outcome
<1>9. ASSUME NEW t \in Tasks, TaskStep(t)
      PROVE  \/ UNCHANGED <<handler, result, gErr>>
             \/ (SendErr(t[1]) /\ UNCHANGED <<handler, result>>)
  BY <1>9 DEF TaskStep, ReadLength, ReadList, Combine, Store, LocationFails, LocationSendsErr, outcome
<1>10. \A t \in Tasks : t[1] \in Records
  BY DEF Tasks
<1>11. ASSUME NEW r \in Records, SendErr(r), UNCHANGED <<handler, result>>
       PROVE  (handler[j] = "idle" /\ result[j] = "ok" => ~ gErr[j])'
  BY <1>4, <1>6, <1>11 DEF SendErr
<1>12. \/ Tick \/ UNCHANGED vars
       \/ \E i \in Instances :
            Deliver(i) \/ HandlerStep(i) \/ ConcurrentMapAccess(i) \/ Kill(i) \/ Restart(i)
       \/ \E r \in Records : RecordStep(r) \/ StopsStep(r) \/ AreasStep(r)
       \/ \E t \in Tasks : TaskStep(t)
  BY DEF Next
<1> QED
  BY <1>1, <1>2, <1>3, <1>5, <1>6, <1>7, <1>8, <1>9, <1>10, <1>11, <1>12

\* A record's departures and goroutines stay as they are, or end, or are
\* started anew, or one of the record's own goroutines takes a step.
LEMMA ControlSteps ==
    ASSUME TypeInv, [Next]_vars, \A s, t \in Records : s = t, NEW r \in Records
    PROVE  \/ /\ UNCHANGED <<cache, msg[r], live[r], record[r], stops[r], areas[r], gErr[InstanceOf[r]]>>
              /\ \A l \in Locations : task'[<<r, l>>] = task[<<r, l>>]
              /\ now' = now \/ now' = now + 1
           \/ /\ record'[r] \in {"off", "start"} /\ stops'[r] = "off" /\ areas'[r] = "off"
              /\ \A l \in Locations : task'[<<r, l>>].pc = "off"
           \/ RecordStep(r) \/ StopsStep(r) \/ (AreasStep(r) /\ ~ StopAreaPanics(r))
           \/ \E l \in Locations : TaskStep(<<r, l>>)
<1> DEFINE Kept == /\ UNCHANGED <<cache, msg[r], live[r], record[r], stops[r], areas[r],
                                  gErr[InstanceOf[r]]>>
                   /\ \A l \in Locations : task'[<<r, l>>] = task[<<r, l>>]
                   /\ now' = now \/ now' = now + 1
           Ended == /\ record'[r] \in {"off", "start"} /\ stops'[r] = "off" /\ areas'[r] = "off"
                    /\ \A l \in Locations : task'[<<r, l>>].pc = "off"
<1>0. /\ gErr \in [Instances -> BOOLEAN] /\ InstanceOf[r] \in Instances
      /\ \A l \in Locations : <<r, l>> \in Tasks
      /\ \A t \in Tasks : \E l \in Locations : t = <<r, l>>
  BY DEF TypeInv, TypeOK, Tasks
<1>1. ASSUME UNCHANGED <<now, cache, gErr, msg, live, record, stops, areas, task>> PROVE Kept
  BY <1>1
<1>2. ASSUME Tick \/ UNCHANGED vars PROVE Kept
  BY <1>2 DEF Tick, vars, outcome, payload, pcs
<1>3. ASSUME NEW i \in Instances, Deliver(i) PROVE Kept \/ Ended
  <2>1. PICK R \in SUBSET RecordsOf(i) : \E m \in [R -> Messages \cup {Malformed}] :
         /\ msg' = [s \in Records |-> IF s \in R THEN m[s] ELSE msg[s]]
         /\ record' = [s \in Records |-> IF s \in R THEN "start"
                                         ELSE IF s \in RecordsOf(i) THEN "off" ELSE record[s]]
    BY <1>3 DEF Deliver
  <2>2. /\ live' = [s \in Records |-> IF s \in RecordsOf(i) THEN {} ELSE live[s]]
        /\ stops' = [s \in Records |-> IF s \in RecordsOf(i) THEN "off" ELSE stops[s]]
        /\ areas' = [s \in Records |-> IF s \in RecordsOf(i) THEN "off" ELSE areas[s]]
        /\ task' = [t \in Tasks |-> IF t[1] \in RecordsOf(i) THEN Off ELSE task[t]]
        /\ gErr' = [gErr EXCEPT ![i] = FALSE]
        /\ UNCHANGED <<now, cache>>
    BY <1>3 DEF Deliver
  <2>3. CASE r \in RecordsOf(i)
    <3>1. record'[r] \in {"off", "start"}
      BY <2>1, <2>3
    <3>2. stops'[r] = "off" /\ areas'[r] = "off"
      BY <2>2, <2>3
    <3>3. \A l \in Locations : task'[<<r, l>>].pc = "off"
      BY <1>0, <2>2, <2>3, OffType
    <3> QED
      BY <3>1, <3>2, <3>3
  <2>4. CASE r \notin RecordsOf(i)
    <3>1. msg'[r] = msg[r] /\ record'[r] = record[r]
      BY <2>1, <2>4
    <3>2. live'[r] = live[r] /\ stops'[r] = stops[r] /\ areas'[r] = areas[r]
      BY <2>2, <2>4
    <3>3. \A l \in Locations : task'[<<r, l>>] = task[<<r, l>>]
      BY <1>0, <2>2, <2>4
    <3>4. gErr'[InstanceOf[r]] = gErr[InstanceOf[r]]
      BY <1>0, <2>2, <2>4 DEF RecordsOf
    <3> QED
      BY <2>2, <3>1, <3>2, <3>3, <3>4
  <2> QED
    BY <2>3, <2>4
<1>4. ASSUME NEW i \in Instances, Dies(i) PROVE Kept \/ Ended
  <2>1. CASE r \in RecordsOf(i)
    BY <1>0, <1>4, <2>1, OffType DEF Dies
  <2>2. CASE r \notin RecordsOf(i)
    BY <1>0, <1>4, <2>2 DEF Dies, payload
  <2> QED
    BY <2>1, <2>2
<1>5. ASSUME NEW i \in Instances,
             HandlerStep(i) \/ ConcurrentMapAccess(i) \/ Kill(i) \/ Restart(i)
      PROVE  UNCHANGED <<now, cache, gErr, msg, live, record, stops, areas, task>> \/ Dies(i)
  BY <1>5 DEF HandlerStep, CloseErrs, Return, ConcurrentMapAccess, Kill, Restart, payload, pcs
<1>6. ASSUME StopAreaPanics(r) PROVE Dies(InstanceOf[r])
  BY <1>6 DEF StopAreaPanics
<1> HIDE DEF Kept, Ended
<1>7. \/ Tick \/ UNCHANGED vars
      \/ \E i \in Instances :
            Deliver(i) \/ HandlerStep(i) \/ ConcurrentMapAccess(i) \/ Kill(i) \/ Restart(i)
      \/ \E s \in Records : RecordStep(s) \/ StopsStep(s) \/ AreasStep(s)
      \/ \E t \in Tasks : TaskStep(t)
  BY DEF Next
<1>8. \/ Kept \/ Ended
      \/ RecordStep(r) \/ StopsStep(r) \/ (AreasStep(r) /\ ~ StopAreaPanics(r))
      \/ \E l \in Locations : TaskStep(<<r, l>>)
  BY <1>0, <1>1, <1>2, <1>3, <1>4, <1>5, <1>6, <1>7
<1> QED
  BY <1>8 DEF Kept, Ended

\* A departure that has not expired yet had not expired before.
LEMMA CoversLater ==
    ASSUME NEW s, NEW new \in SUBSET Departure, NEW t \in Nat, Covers(s, new, t)
    PROVE  Covers(s, new, t + 1)
<1> SUFFICES ASSUME NEW n \in new, ~ Expired(n, t + 1)
             PROVE  \E k \in DOMAIN s : s[k] = n
  BY DEF Covers
<1>1. ~ Expired(n, t)
  BY TimeIsNat DEF Expired
<1> QED
  BY <1>1 DEF Covers

LEMMA CoversStays ==
    ASSUME TypeInv, NEW r \in Records, NEW l \in Locations,
           msg'[r] = msg[r], live'[r] = live[r], now' = now \/ now' = now + 1
    PROVE  /\ Group(r, l)' = Group(r, l)
           /\ Batch(r, l)' = Batch(r, l)
           /\ \A s : Covers(s, Batch(r, l), now) => Covers(s, Batch(r, l), now')
<1>1. Group(r, l)' = Group(r, l) /\ Batch(r, l)' = Batch(r, l)
  BY DEF Group, Batch
<1>2. Batch(r, l) \in SUBSET Departure /\ now \in Nat
  BY BatchType DEF Batch, TypeInv, TypeOK, Times
<1> QED
  BY <1>1, <1>2, CoversLater

LEMMA OnTheWayStep ==
    ASSUME SuccessInv, [Next]_vars, \A s, t \in Records : s = t, NEW r \in Records
    PROVE  /\ (record[r] \notin {"wait", "done"} =>
                 /\ stops[r] = "off" /\ areas[r] = "off"
                 /\ \A l \in Locations : task[<<r, l>>].pc = "off")'
           /\ \A l \in Locations : OnTheWay(r, l)'
<1> DEFINE i == InstanceOf[r]
           Idle == record[r] \notin {"wait", "done"} =>
                        /\ stops[r] = "off" /\ areas[r] = "off"
                        /\ \A l \in Locations : task[<<r, l>>].pc = "off"
<1>0. /\ TypeInv /\ Idle /\ \A l \in Locations : OnTheWay(r, l)
      /\ gErr \in [Instances -> BOOLEAN] /\ i \in Instances
      /\ record \in [Records -> {"off", "start", "dest", "wait", "fail", "done"}]
      /\ stops \in [Records -> {"off", "group", "wait", "done"}]
      /\ areas \in [Records -> {"off", "group", "wait", "fail", "done"}]
      /\ task \in [Tasks -> TaskRecord]
      /\ cache \in [Locations -> Seq(Departure)]
      /\ \A l \in Locations : <<r, l>> \in Tasks
  BY DEF SuccessInv, NotStarted, TypeInv, TypeOK, Tasks
\* Steps that leave the tasks and the database alone.
<1>1. ASSUME UNCHANGED <<cache, msg[r], live[r], record[r], stops[r], areas[r], gErr[i]>>,
             \A l \in Locations : task'[<<r, l>>] = task[<<r, l>>],
             now' = now \/ now' = now + 1
      PROVE  Idle' /\ \A l \in Locations : OnTheWay(r, l)'
  <2>1. Idle'
    BY <1>0, <1>1
  <2>2. ASSUME NEW l \in Locations PROVE OnTheWay(r, l)'
    BY <1>0, <1>1, CoversStays DEF OnTheWay
  <2> QED
    BY <2>1, <2>2
<1>2. ASSUME stops'[r] = "off", areas'[r] = "off",
             \A l \in Locations : task'[<<r, l>>].pc = "off",
             record'[r] # "done" \/ gErr'[i]
      PROVE  Idle' /\ \A l \in Locations : OnTheWay(r, l)'
  BY <1>2 DEF OnTheWay
<1>3. ASSUME RecordStep(r)
      PROVE  Idle' /\ \A l \in Locations : OnTheWay(r, l)'
  <2>1. CASE RecordStart(r) \/ UpdateDestinationName(r) \/ DestinationNameFails(r)
    <3>1. /\ record[r] \in {"start", "dest"} /\ record'[r] \in {"dest", "fail"}
          /\ UNCHANGED <<stops, areas, task>>
      BY <1>0, <2>1 DEF RecordStart, UpdateDestinationName, DestinationNameFails, pcs
    <3> QED
      BY <1>0, <1>2, <3>1
  <2>2. CASE StartStopsAndAreas(r)
    <3>1. /\ record[r] = "dest" /\ record'[r] = "wait" /\ stops'[r] = "group" /\ areas'[r] = "group"
          /\ task' = task
      BY <1>0, <2>2 DEF StartStopsAndAreas
    <3> QED
      BY <1>0, <3>1 DEF OnTheWay
  <2>3. CASE RecordDone(r)
    <3>1. /\ record[r] = "wait" /\ stops[r] = "done" /\ areas[r] = "done" /\ record'[r] = "done"
          /\ UNCHANGED <<now, cache, gErr, msg, live, stops, areas, task>>
      BY <1>0, <2>3 DEF RecordDone, outcome, payload
    <3>2. Finished(r, Stops) /\ Finished(r, Areas)
      BY <1>0, <3>1 DEF TypeInv, ControlOK
    <3>3. ASSUME NEW l \in Locations PROVE OnTheWay(r, l)'
      <4>1. task[<<r, l>>].pc \in {"off", "done"}
        BY <3>2 DEF Finished, Locations
      <4>2. Group(r, l) = {} => Covers(cache[l], Batch(r, l), now)
        BY DEF Covers, Batch, NewDeps
      <4>3. gErr[i] \/ Covers(cache[l], Batch(r, l), now)
        BY <1>0, <3>1, <4>1, <4>2 DEF OnTheWay, Locations
      <4> QED
        BY <1>0, <3>1, <4>3, CoversStays DEF OnTheWay
    <3> QED
      BY <3>1, <3>3
  <2>4. CASE RecordSendsErr(r)
    <3>1. record[r] = "fail" /\ gErr'[i] /\ UNCHANGED <<stops, areas, task>>
      BY <1>0, <2>4 DEF RecordSendsErr, SendErr
    <3> QED
      BY <1>0, <1>2, <3>1
  <2> QED
    BY <1>3, <2>1, <2>2, <2>3, <2>4 DEF RecordStep
\* The goroutines for stops and for stop areas start others and wait for them.
<1>4. ASSUME NEW kind \in {Stops, Areas}, task' = Started(r, kind), record[r] = "wait",
             UNCHANGED <<now, cache, gErr, msg, live, record>>,
             \/ kind = Stops /\ areas'[r] = areas[r]
             \/ kind = Areas /\ stops'[r] = stops[r]
      PROVE  Idle' /\ \A l \in Locations : OnTheWay(r, l)'
  <2>1. ASSUME NEW l \in Locations PROVE OnTheWay(r, l)'
    <3>1. /\ ~ (l \in Stops /\ l \in Areas)
          /\ task'[<<r, l>>] = IF l \in kind /\ Group(r, l) # {} THEN [Off EXCEPT !.pc = "llen"]
                               ELSE task[<<r, l>>]
      BY <1>0, <1>4 DEF Started
    <3>2. CASE l \in kind /\ Group(r, l) # {}
      <4>1. task'[<<r, l>>].pc = "llen"
        BY <3>1, <3>2, OffType
      <4> QED
        BY <1>4, <4>1 DEF OnTheWay
    <3>3. CASE l \in kind /\ Group(r, l) = {}
      <4>1. task'[<<r, l>>] = task[<<r, l>>]
        BY <3>1, <3>3
      <4> QED
        BY <1>0, <1>4, <3>1, <3>3, <4>1, CoversStays DEF OnTheWay
    <3>4. CASE l \notin kind
      <4>1. task'[<<r, l>>] = task[<<r, l>>]
        BY <3>1, <3>4
      <4>2. (l \in Stops => stops'[r] = stops[r]) /\ (l \in Areas => areas'[r] = areas[r])
        BY <1>4, <3>4
      <4> QED
        BY <1>0, <1>4, <4>1, <4>2, CoversStays DEF OnTheWay
    <3> QED
      BY <3>2, <3>3, <3>4
  <2> QED
    BY <1>4, <2>1
<1>5. ASSUME StopsStep(r)
      PROVE  Idle' /\ \A l \in Locations : OnTheWay(r, l)'
  <2>1. stops[r] \in {"group", "wait"} /\ record[r] = "wait"
    <3>1. stops[r] \in {"group", "wait"}
      BY <1>5 DEF StopsStep, GroupByStop, StopsDone
    <3> QED
      BY <1>0, <3>1 DEF TypeInv, ControlOK
  <2>2. CASE GroupByStop(r)
    BY <1>4, <2>1, <2>2 DEF GroupByStop, outcome, payload
  <2>3. CASE StopsDone(r)
    <3>1. /\ stops[r] = "wait" /\ stops'[r] = "done"
          /\ UNCHANGED <<now, cache, gErr, msg, live, record, areas, task>>
      BY <1>0, <2>3 DEF StopsDone, outcome, payload
    <3> QED
      BY <1>0, <2>1, <3>1, CoversStays DEF OnTheWay
  <2> QED
    BY <1>5, <2>2, <2>3 DEF StopsStep
<1>6. ASSUME AreasStep(r), ~ StopAreaPanics(r)
      PROVE  Idle' /\ \A l \in Locations : OnTheWay(r, l)'
  <2>1. areas[r] \in {"group", "wait", "fail"} /\ record[r] = "wait"
    <3>1. areas[r] \in {"group", "wait", "fail"}
      BY <1>6 DEF AreasStep, AppendDepartureToStopArea, StopAreaFails, GroupedByStopArea,
                  AreasDone, AreasSendErr
    <3> QED
      BY <1>0, <3>1 DEF TypeInv, ControlOK
  <2>2. CASE AppendDepartureToStopArea(r)
    BY <1>1, <2>2 DEF AppendDepartureToStopArea, outcome, pcs
  <2>3. CASE StopAreaFails(r)
    <3>1. /\ areas'[r] = "fail"
          /\ UNCHANGED <<now, cache, gErr, msg, live, record, stops, task>>
      BY <1>0, <2>3 DEF StopAreaFails, outcome, payload
    <3> QED
      BY <1>0, <2>1, <3>1, CoversStays DEF OnTheWay
  <2>4. CASE GroupedByStopArea(r)
    BY <1>4, <2>1, <2>4 DEF GroupedByStopArea, outcome, payload
  <2>5. CASE AreasDone(r)
    <3>1. /\ areas[r] = "wait" /\ areas'[r] = "done"
          /\ UNCHANGED <<now, cache, gErr, msg, live, record, stops, task>>
      BY <1>0, <2>5 DEF AreasDone, outcome, payload
    <3> QED
      BY <1>0, <2>1, <3>1, CoversStays DEF OnTheWay
  <2>6. CASE AreasSendErr(r)
    <3>1. /\ areas'[r] = "done" /\ gErr'[i]
          /\ UNCHANGED <<now, cache, msg, live, record, stops, task>>
      BY <1>0, <2>6 DEF AreasSendErr, SendErr, payload
    <3> QED
      BY <1>0, <2>1, <3>1, CoversStays DEF OnTheWay
  <2> QED
    BY <1>6, <2>2, <2>3, <2>4, <2>5, <2>6 DEF AreasStep
<1>7. ASSUME NEW m \in Locations, TaskStep(<<r, m>>)
      PROVE  Idle' /\ \A l \in Locations : OnTheWay(r, l)'
  <2> DEFINE t == <<r, m>>
  <2>1. t \in Tasks /\ t[1] = r /\ t[2] = m
    BY DEF Tasks
  <2>2. /\ task[t].pc \notin {"off", "done"}
        /\ task' = [task EXCEPT ![t] = task'[t]]
        /\ UNCHANGED <<now, msg, live, record, stops, areas>>
    BY <1>0, <1>7, <2>1, TaskFrame DEF payload
  <2>3. record[r] = "wait"
    BY <1>0, <2>2, RunningWaits
  <2>4. \A l \in Locations : l # m => task'[<<r, l>>] = task[<<r, l>>]
    BY <1>0, <2>2
  <2>5. /\ \A l \in Locations : l # m => cache'[l] = cache[l]
        /\ gErr[i] => gErr'[i]
        /\ task'[t].pc # "off"
        /\ task'[t].pc = "store" => Covers(task'[t].list, Batch(r, m), now)
        /\ task'[t].pc = "done" => gErr'[i] \/ Covers(cache'[m], Batch(r, m), now)
    <3>1. CASE ReadLength(t)
      <4>1. UNCHANGED <<cache, gErr>> /\ task'[t].pc \in {"combine", "lrange"}
        BY <1>0, <2>1, <3>1 DEF ReadLength, outcome
      <4> QED
        BY <4>1
    <3>2. CASE ReadList(t)
      <4>1. UNCHANGED <<cache, gErr>> /\ task'[t].pc = "combine"
        BY <1>0, <2>1, <3>2 DEF ReadList, outcome, TaskRecord
      <4> QED
        BY <4>1
    <3>3. CASE Combine(t)
      <4>1. PICK list \in Refreshed(task[t].list, Batch(r, m), now) :
              task' = [task EXCEPT ![t] = [pc |-> "store", len |-> 0, list |-> list]]
        BY <2>1, <3>3 DEF Combine, Batch
      <4>2. /\ Batch(r, m) \in SUBSET Departure /\ IsFiniteSet(Batch(r, m))
            /\ \A n, o \in Batch(r, m) : n.journeyRef = o.journeyRef => n = o
        BY <1>0, BatchType DEF Batch
      <4>3. task[t].list \in Seq(Departure) /\ NoDuplicates(task[t].list)
        BY <1>0, <2>1 DEF SuccessInv, ListsOK, TaskRecord
      <4>4. Covers(list, Batch(r, m), now)
        <5>1. \A n \in Batch(r, m) : ~ Expired(n, now) => \E k \in DOMAIN list : list[k] = n
          <6> DEFINE old == task[t].list
                     new == Batch(r, m)
          <6>1. /\ old \in Seq(Departure) /\ NoDuplicates(old)
                /\ new \in SUBSET Departure /\ IsFiniteSet(new)
                /\ \A n, o \in new : n.journeyRef = o.journeyRef => n = o
                /\ list \in Refreshed(old, new, now)
            BY <4>1, <4>2, <4>3
          <6> HIDE DEF old, new
          <6>2. \A n \in new : ~ Expired(n, now) => \E k \in DOMAIN list : list[k] = n
            BY <6>1, RefreshedKeeps
          <6> QED
            BY <6>2 DEF new
        <5> QED
          BY <5>1 DEF Covers
      <4>5. task'[t].pc = "store" /\ task'[t].list = list
        BY <1>0, <2>1, <4>1
      <4>6. UNCHANGED <<cache, gErr>>
        BY <3>3 DEF Combine, outcome
      <4> QED
        BY <4>4, <4>5, <4>6
    <3>4. CASE Store(t)
      <4>1. /\ task[t].pc = "store" /\ cache' = [cache EXCEPT ![m] = task[t].list]
            /\ task'[t].pc = "done" /\ UNCHANGED gErr
        BY <1>0, <2>1, <3>4, OffType DEF Store, outcome
      <4>2. Covers(task[t].list, Batch(r, m), now)
        BY <1>0, <4>1 DEF OnTheWay
      <4> QED
        BY <1>0, <4>1, <4>2
    <3>5. CASE LocationFails(t)
      <4>1. /\ cache' = cache \/ cache' = [cache EXCEPT ![m] = task[t].list]
            /\ task'[t].pc = "fail" /\ UNCHANGED gErr
        BY <1>0, <2>1, <3>5, OffType DEF LocationFails, outcome
      <4> QED
        BY <1>0, <4>1
    <3>6. CASE LocationSendsErr(t)
      <4>1. UNCHANGED cache /\ gErr'[i] /\ task'[t].pc = "done"
        BY <1>0, <2>1, <3>6 DEF LocationSendsErr, SendErr, TaskRecord
      <4> QED
        BY <4>1
    <3> QED
      BY <1>7, <3>1, <3>2, <3>3, <3>4, <3>5, <3>6 DEF TaskStep
  <2>6. Idle'
    BY <1>0, <2>2, <2>3
  <2>7. ASSUME NEW l \in Locations PROVE OnTheWay(r, l)'
    <3>1. Batch(r, l)' = Batch(r, l) /\ Group(r, l)' = Group(r, l) /\ now' = now
      BY <2>2 DEF Batch, Group
    <3>2. CASE l = m
      BY <1>0, <2>2, <2>3, <2>5, <3>1, <3>2 DEF OnTheWay
    <3>3. CASE l # m
      BY <1>0, <2>2, <2>3, <2>4, <2>5, <3>1, <3>3 DEF OnTheWay
    <3> QED
      BY <3>2, <3>3
  <2> QED
    BY <2>6, <2>7
<1>8. ASSUME record'[r] \in {"off", "start"}, stops'[r] = "off", areas'[r] = "off",
             \A l \in Locations : task'[<<r, l>>].pc = "off"
      PROVE  Idle' /\ \A l \in Locations : OnTheWay(r, l)'
  BY <1>2, <1>8
<1> HIDE DEF Idle
<1>9. Idle' /\ \A l \in Locations : OnTheWay(r, l)'
  <2>1. CASE /\ UNCHANGED <<cache, msg[r], live[r], record[r], stops[r], areas[r], gErr[i]>>
             /\ \A l \in Locations : task'[<<r, l>>] = task[<<r, l>>]
             /\ now' = now \/ now' = now + 1
    BY <1>1, <2>1
  <2>2. CASE /\ record'[r] \in {"off", "start"} /\ stops'[r] = "off" /\ areas'[r] = "off"
             /\ \A l \in Locations : task'[<<r, l>>].pc = "off"
    BY <1>8, <2>2
  <2>3. CASE \E l \in Locations : TaskStep(<<r, l>>)
    BY <1>7, <2>3
  <2>4. TypeInv
    BY <1>0
  <2>5. \/ /\ UNCHANGED <<cache, msg[r], live[r], record[r], stops[r], areas[r], gErr[i]>>
           /\ \A l \in Locations : task'[<<r, l>>] = task[<<r, l>>]
           /\ now' = now \/ now' = now + 1
        \/ /\ record'[r] \in {"off", "start"} /\ stops'[r] = "off" /\ areas'[r] = "off"
           /\ \A l \in Locations : task'[<<r, l>>].pc = "off"
        \/ RecordStep(r) \/ StopsStep(r) \/ (AreasStep(r) /\ ~ StopAreaPanics(r))
        \/ \E l \in Locations : TaskStep(<<r, l>>)
    BY <2>4, ControlSteps
  <2> QED
    BY <1>3, <1>5, <1>6, <2>1, <2>2, <2>3, <2>5
<1> QED
  BY <1>9 DEF Idle

\* With one record in process at a time: when Handler has returned without an
\* error, every departure of its event is in the database, at its stop and at
\* the stop's area, unless its time has passed since.
THEOREM SuccessAlwaysCached ==
    ASSUME \A r, s \in Records : r = s
    PROVE  Spec => []SuccessMeansCached
<1>1. SuccessInv => SuccessMeansCached
  <2> SUFFICES ASSUME SuccessInv, NEW i \in Instances, handler[i] = "idle", result[i] = "ok",
                      NEW r \in RecordsOf(i), NEW l \in Locations, record[r] = "done"
               PROVE  Covers(cache[l], Batch(r, l), now)
    BY DEF SuccessMeansCached, Covers, Batch
  <2>1. r \in Records /\ InstanceOf[r] = i /\ ~ gErr[i]
    BY DEF SuccessInv, ResultOK, RecordsOf
  <2> QED
    BY <2>1 DEF SuccessInv, OnTheWay
<1>2. Init => SuccessInv
  <2> SUFFICES ASSUME Init PROVE SuccessInv
    OBVIOUS
  <2>1. \A r \in Records, l \in Locations : task[<<r, l>>].pc = "off"
    BY OffType DEF Init, Tasks
  <2>2. ResultOK /\ NotStarted /\ \A r \in Records, l \in Locations : OnTheWay(r, l)
    BY <2>1 DEF Init, ResultOK, NotStarted, OnTheWay
  <2> QED
    BY <2>2, TypeInit, ListsInit DEF SuccessInv
<1>3. SuccessInv /\ [Next]_vars => SuccessInv'
  <2> SUFFICES ASSUME SuccessInv, [Next]_vars PROVE SuccessInv'
    OBVIOUS
  <2>1. (TypeInv /\ ListsOK /\ ResultOK)'
    BY TypeStep, ListsStep, ResultStep DEF SuccessInv
  <2>2. NotStarted' /\ \A r \in Records, l \in Locations : OnTheWay(r, l)'
    BY OnTheWayStep DEF NotStarted
  <2> QED
    BY <2>1, <2>2 DEF SuccessInv
<1> QED
  BY <1>1, <1>2, <1>3, PTL DEF Spec

-----------------------------------------------------------------------------
(* The loops of the refresh (module CombineLoop) *)

\* The map that newDepartures are put in.
Batched == NewDeps(newDepartures, DOMAIN newDepartures)

\* s is the combined list but for rest, which is not appended yet: the cached
\* positions as Replaced says, then members of Added, each once.
Completed(c, new, s, rest) ==
    /\ s \in Seq(Departure) /\ Len(c) <= Len(s)
    /\ \A k \in 1 .. Len(c) : s[k] = Replaced(c, new, k)
    /\ \A k \in Len(c) + 1 .. Len(s) : s[k] \in Added(c, new) \ rest
    /\ \A j, k \in Len(c) + 1 .. Len(s) : s[j] = s[k] => j = k
    /\ rest \subseteq Added(c, new)
    /\ \A n \in Added(c, new) \ rest : \E k \in Len(c) + 1 .. Len(s) : s[k] = n

\* The first n departures of d are those of the first x of s that have not
\* expired at t, in the order of s: p says where they come from.
Compacted(s, x, t, d, n, p) ==
    /\ p \in [1 .. n -> 1 .. x]
    /\ \A j, k \in 1 .. n : p[j] = p[k] => j = k
    /\ \A k \in 1 .. n : d[k] = s[p[k]] /\ ~ Expired(s[p[k]], t)
    /\ \A y \in 1 .. x : ~ Expired(s[y], t) => \E k \in 1 .. n : p[k] = y

Unexpired(c, new, t) == {u \in Combined(c, new) : ~ Expired(u[2], t)}

\* d has the unexpired departures of the combined list, each once: q says which
\* one is where.
Lists(d, c, new, t, q) ==
    /\ q \in [DOMAIN d -> Unexpired(c, new, t)]
    /\ \A j, k \in DOMAIN d : q[j] = q[k] => j = k
    /\ \A u \in Unexpired(c, new, t) : \E k \in DOMAIN d : q[k] = u
    /\ \A k \in DOMAIN d : d[k] = q[k][2]

ListsInv ==
    /\ cachedList \in Seq(Departure) /\ newDepartures \in Seq(Departure)
    /\ departures \in Seq(Departure)
    /\ position \in Nat \ {0}

MapInv == loop = "map" =>
    /\ departures = cachedList
    /\ position <= Len(newDepartures) + 1
    /\ newDeps = NewDeps(newDepartures, 1 .. position - 1)

ReplaceInv == loop = "replace" =>
    /\ Len(departures) = Len(cachedList) /\ position <= Len(cachedList) + 1
    /\ \A k \in 1 .. position - 1 : departures[k] = Replaced(cachedList, Batched, k)
    /\ \A k \in position .. Len(cachedList) : departures[k] = cachedList[k]
    /\ newDeps = {n \in Batched : \A k \in 1 .. position - 1 :
                                    cachedList[k].journeyRef # n.journeyRef}

AppendInv == loop = "append" =>
    position = 1 /\ Completed(cachedList, Batched, departures, newDeps)

ExpireInv == loop = "expire" => \E s, p :
    /\ Completed(cachedList, Batched, s, {})
    /\ Len(departures) = Len(s) /\ position <= Len(s) + 1
    /\ keptSoFar \in 0 .. position - 1
    /\ \A k \in position .. Len(s) : departures[k] = s[k]
    /\ Compacted(s, position - 1, instant, departures, keptSoFar, p)

SortInv == loop \in {"sort", "done"} =>
    \E q : Lists(departures, cachedList, Batched, instant, q)

DoneInv == loop = "done" => InOrder(departures)

KeptInv == loop \in {"map", "replace", "append"} => keptSoFar = 0

LoopInv == /\ ListsInv /\ MapInv /\ ReplaceInv /\ AppendInv
           /\ ExpireInv /\ SortInv /\ DoneInv /\ KeptInv

-----------------------------------------------------------------------------

\* One more departure of the list: it takes the place of the one of its journey.
LEMMA NewDepsGrows ==
    ASSUME NEW m \in Seq(Departure), NEW p \in 1 .. Len(m)
    PROVE  NewDeps(m, 1 .. p)
             = {n \in NewDeps(m, 1 .. p - 1) : n.journeyRef # m[p].journeyRef} \cup {m[p]}
<1> DEFINE Latest(k, x) == \A j \in 1 .. x : m[j].journeyRef = m[k].journeyRef => j <= k
<1>1. p \in Nat /\ p # 0
  OBVIOUS
<1>2. \A n : n \in NewDeps(m, 1 .. p) <=> \E k \in 1 .. p : n = m[k] /\ Latest(k, p)
  BY DEF NewDeps
<1>3. \A n : n \in NewDeps(m, 1 .. p - 1) <=> \E k \in 1 .. p - 1 : n = m[k] /\ Latest(k, p - 1)
  BY DEF NewDeps
<1>4. Latest(p, p)
  BY <1>1
<1>5. \A k \in 1 .. p - 1 : k \in 1 .. p /\ k # p /\ ~ p <= k
  BY <1>1
<1>6. \A k \in 1 .. p : k = p \/ k \in 1 .. p - 1
  BY <1>1
<1>7. \A k \in 1 .. p - 1 : Latest(k, p) <=> Latest(k, p - 1) /\ m[k].journeyRef # m[p].journeyRef
  <2>1. p \in 1 .. p
    BY <1>1
  <2> QED
    BY <1>5, <1>6, <2>1
<1> HIDE DEF Latest
<1>8. ASSUME NEW n, n \in NewDeps(m, 1 .. p), n # m[p]
      PROVE  n \in NewDeps(m, 1 .. p - 1) /\ n.journeyRef # m[p].journeyRef
  BY <1>2, <1>3, <1>6, <1>7, <1>8
<1>9. ASSUME NEW n, n \in NewDeps(m, 1 .. p - 1), n.journeyRef # m[p].journeyRef
      PROVE  n \in NewDeps(m, 1 .. p)
  BY <1>2, <1>3, <1>5, <1>7, <1>9
<1>10. m[p] \in NewDeps(m, 1 .. p)
  BY <1>1, <1>2, <1>4
<1> QED
  BY <1>8, <1>9, <1>10

LEMMA NothingBatched == ASSUME NEW m PROVE NewDeps(m, 1 .. 0) = {}
BY DEF NewDeps

\* The entry that is found, and deleted, is the one that Replaced names.
LEMMA EntryUsedOnce ==
    ASSUME NEW c \in Seq(Departure), NEW new \in SUBSET Departure,
           \A n, o \in new : n.journeyRef = o.journeyRef => n = o,
           NEW p \in 1 .. Len(c)
    PROVE  LET left   == {n \in new : \A k \in 1 .. p - 1 : c[k].journeyRef # n.journeyRef}
               others == {n \in left : n.journeyRef # c[p].journeyRef}
               same   == left \ others
           IN  /\ Replaced(c, new, p) = IF same # {} THEN CHOOSE n \in same : TRUE ELSE c[p]
               /\ others = {n \in new : \A k \in 1 .. p : c[k].journeyRef # n.journeyRef}
               /\ Replaced(c, new, p) \in Departure
<1>0. PICK left, others, same :
        /\ left = {n \in new : \A k \in 1 .. p - 1 : c[k].journeyRef # n.journeyRef}
        /\ others = {n \in left : n.journeyRef # c[p].journeyRef}
        /\ same = left \ others
  OBVIOUS
<1> SUFFICES /\ Replaced(c, new, p) = IF same # {} THEN CHOOSE n \in same : TRUE ELSE c[p]
             /\ others = {n \in new : \A k \in 1 .. p : c[k].journeyRef # n.journeyRef}
             /\ Replaced(c, new, p) \in Departure
  BY <1>0
<1>1. p \in Nat /\ p # 0 /\ DOMAIN c = 1 .. Len(c) /\ c[p] \in Departure
  OBVIOUS
<1>2. \A k : k \in 1 .. p <=> k \in 1 .. p - 1 \/ k = p
  BY <1>1
<1>3. others = {n \in new : \A k \in 1 .. p : c[k].journeyRef # n.journeyRef}
  BY <1>0, <1>2
<1>4. \A n : n \in same <=> n \in left /\ n.journeyRef = c[p].journeyRef
  BY <1>0
<1>5. IsFirst(c, p) <=> \A k \in 1 .. p - 1 : c[k].journeyRef # c[p].journeyRef
  <2>1. \A k \in DOMAIN c : p <= k \/ k \in 1 .. p - 1
    BY <1>1
  <2>2. \A k \in 1 .. p - 1 : k \in DOMAIN c /\ ~ p <= k
    BY <1>1
  <2> QED
    BY <2>1, <2>2 DEF IsFirst
<1>6. CASE IsFirst(c, p) /\ \E n \in new : n.journeyRef = c[p].journeyRef
  <2>1. PICK n \in new : n.journeyRef = c[p].journeyRef
    BY <1>6
  <2>2. n \in left
    BY <1>0, <1>5, <1>6, <2>1
  <2>3. same = {n}
    BY <1>0, <1>4, <2>1, <2>2
  <2>4. Replaced(c, new, p) = CHOOSE o \in new : o.journeyRef = c[p].journeyRef
    BY <1>6 DEF Replaced
  <2>5. (CHOOSE o \in new : o.journeyRef = c[p].journeyRef) = n
    BY <2>1
  <2>6. (CHOOSE o \in same : TRUE) = n /\ same # {}
    BY <2>3
  <2> QED
    BY <1>3, <2>4, <2>5, <2>6
<1>7. CASE ~ (IsFirst(c, p) /\ \E n \in new : n.journeyRef = c[p].journeyRef)
  <2>1. Replaced(c, new, p) = c[p]
    BY <1>7 DEF Replaced
  <2>2. same = {}
    BY <1>0, <1>4, <1>5, <1>7
  <2> QED
    BY <1>1, <1>3, <2>1, <2>2
<1> QED
  BY <1>6, <1>7

\* The departures appended: each is in the list and not in the map any more.
LEMMA OneAppended ==
    ASSUME NEW c \in Seq(Departure), NEW new \in SUBSET Departure, NEW s, NEW rest, NEW n \in rest,
           Completed(c, new, s, rest)
    PROVE  Completed(c, new, Append(s, n), rest \ {n})
<1> DEFINE a == Append(s, n)
<1>1. s \in Seq(Departure) /\ Len(c) \in Nat /\ Len(s) \in Nat /\ Len(c) <= Len(s)
  BY DEF Completed
<1>2. n \in Added(c, new) /\ n \in Departure
  BY DEF Completed, Added
<1>3. /\ a \in Seq(Departure) /\ Len(a) = Len(s) + 1 /\ a[Len(s) + 1] = n
      /\ \A k \in 1 .. Len(s) : a[k] = s[k]
  BY <1>1, <1>2
<1> HIDE DEF a
<1>4. /\ \A k : k \in Len(c) + 1 .. Len(a) <=> k \in Len(c) + 1 .. Len(s) \/ k = Len(s) + 1
      /\ \A k \in Len(c) + 1 .. Len(s) : k \in 1 .. Len(s) /\ k # Len(s) + 1
      /\ \A k \in 1 .. Len(c) : k \in 1 .. Len(s)
      /\ Len(c) <= Len(a)
  BY <1>1, <1>3
<1>5. \A k \in 1 .. Len(c) : a[k] = Replaced(c, new, k)
  BY <1>3, <1>4 DEF Completed
<1>6. \A k \in Len(c) + 1 .. Len(s) : a[k] = s[k] /\ s[k] \in Added(c, new) \ rest /\ a[k] # n
  BY <1>3, <1>4 DEF Completed
<1>7. \A k \in Len(c) + 1 .. Len(a) : a[k] \in Added(c, new) \ (rest \ {n})
  BY <1>2, <1>3, <1>4, <1>6
<1>8. \A j, k \in Len(c) + 1 .. Len(a) : a[j] = a[k] => j = k
  BY <1>3, <1>4, <1>6 DEF Completed
<1>9. \A o \in Added(c, new) \ (rest \ {n}) : \E k \in Len(c) + 1 .. Len(a) : a[k] = o
  <2>1. \A o \in Added(c, new) \ rest : \E k \in Len(c) + 1 .. Len(s) : s[k] = o
    BY DEF Completed
  <2> QED
    BY <1>3, <1>4, <1>6, <2>1
<1>10. rest \ {n} \subseteq Added(c, new)
  BY DEF Completed
<1> QED
  BY <1>3, <1>4, <1>5, <1>7, <1>8, <1>9, <1>10 DEF Completed, a

\* A departure that is not expired moves to the end of those that were kept; what
\* is written over has been read.
LEMMA OneKept ==
    ASSUME NEW s \in Seq(Departure), NEW d \in Seq(Departure), Len(d) = Len(s),
           NEW x \in 1 .. Len(s), NEW n \in 0 .. x - 1, NEW t, NEW p,
           \A k \in x .. Len(s) : d[k] = s[k],
           Compacted(s, x - 1, t, d, n, p), ~ Expired(d[x], t)
    PROVE  LET e == [d EXCEPT ![n + 1] = d[x]]
           IN  /\ e \in Seq(Departure) /\ Len(e) = Len(d)
               /\ \A k \in x + 1 .. Len(s) : e[k] = s[k]
               /\ \E r : Compacted(s, x, t, e, n + 1, r)
<1> DEFINE e == [d EXCEPT ![n + 1] = d[x]]
           r == [k \in 1 .. n + 1 |-> IF k = n + 1 THEN x ELSE p[k]]
<1>1. /\ x \in Nat /\ x # 0 /\ n \in Nat /\ n + 1 \in 1 .. Len(d) /\ Len(d) \in Nat
      /\ \A k \in x + 1 .. Len(s) : k # n + 1 /\ k \in 1 .. Len(d) /\ k \in x .. Len(s)
      /\ \A k : k \in 1 .. n + 1 <=> k \in 1 .. n \/ k = n + 1
      /\ \A k \in 1 .. n : k # n + 1 /\ k \in 1 .. Len(d)
      /\ \A k : k \in 1 .. x <=> k \in 1 .. x - 1 \/ k = x
      /\ \A k \in 1 .. x - 1 : k # x
      /\ x \in x .. Len(s)
  OBVIOUS
<1>2. d[x] = s[x] /\ d[x] \in Departure
  BY <1>1
<1>3. /\ e \in Seq(Departure) /\ Len(e) = Len(d) /\ e[n + 1] = s[x]
      /\ \A k \in 1 .. Len(d) : k # n + 1 => e[k] = d[k]
  BY <1>1, <1>2
<1>4. p \in [1 .. n -> 1 .. x - 1]
  BY DEF Compacted
<1>5. r[n + 1] = x /\ \A k \in 1 .. n : r[k] = p[k] /\ p[k] \in 1 .. x - 1
  BY <1>1, <1>4
<1>6. r \in [1 .. n + 1 -> 1 .. x]
  BY <1>1, <1>4
<1> HIDE DEF e, r
<1>7. \A j, k \in 1 .. n + 1 : r[j] = r[k] => j = k
  BY <1>1, <1>5 DEF Compacted
<1>8. \A k \in 1 .. n + 1 : e[k] = s[r[k]] /\ ~ Expired(s[r[k]], t)
  BY <1>1, <1>2, <1>3, <1>5 DEF Compacted
<1>9. \A y \in 1 .. x : ~ Expired(s[y], t) => \E k \in 1 .. n + 1 : r[k] = y
  BY <1>1, <1>5 DEF Compacted
<1>10. Compacted(s, x, t, e, n + 1, r)
  BY <1>6, <1>7, <1>8, <1>9 DEF Compacted
<1>11. \A k \in x + 1 .. Len(s) : e[k] = s[k]
  BY <1>1, <1>3
<1> QED
  BY <1>3, <1>10, <1>11 DEF e

LEMMA OneDropped ==
    ASSUME NEW s \in Seq(Departure), NEW x \in 1 .. Len(s), NEW n \in 0 .. x - 1, NEW t, NEW p, NEW d,
           Compacted(s, x - 1, t, d, n, p), Expired(s[x], t)
    PROVE  Compacted(s, x, t, d, n, p)
<1>1. \A k : k \in 1 .. x <=> k \in 1 .. x - 1 \/ k = x
  OBVIOUS
<1>2. p \in [1 .. n -> 1 .. x]
  BY <1>1 DEF Compacted
<1> QED
  BY <1>1, <1>2 DEF Compacted

\* The slice that is cut lists the unexpired departures.
LEMMA CutLists ==
    ASSUME NEW c \in Seq(Departure), NEW new \in SUBSET Departure, NEW s, NEW t, NEW p,
           NEW d \in Seq(Departure), NEW n \in 0 .. Len(d), Len(d) = Len(s),
           Completed(c, new, s, {}), Compacted(s, Len(s), t, d, n, p)
    PROVE  /\ SubSeq(d, 1, n) \in Seq(Departure)
           /\ \E q : Lists(SubSeq(d, 1, n), c, new, t, q)
<1> DEFINE e == SubSeq(d, 1, n)
           tag == [k \in 1 .. Len(s) |-> <<IF k <= Len(c) THEN k ELSE 0, s[k]>>]
           q == [k \in 1 .. n |-> tag[p[k]]]
<1>1. /\ e \in Seq(Departure) /\ DOMAIN e = 1 .. n /\ \A k \in 1 .. n : e[k] = d[k]
      /\ Len(c) \in Nat /\ Len(s) \in Nat /\ DOMAIN c = 1 .. Len(c) /\ Len(c) <= Len(s)
  BY DEF Completed
<1>2. /\ \A k \in 1 .. Len(s) : k \in 1 .. Len(c) \/ (k \in Len(c) + 1 .. Len(s) /\ ~ k <= Len(c))
      /\ \A k \in 1 .. Len(c) : k \in 1 .. Len(s) /\ k <= Len(c) /\ k # 0
      /\ \A k \in Len(c) + 1 .. Len(s) : k \in 1 .. Len(s) /\ ~ k <= Len(c)
  BY <1>1
<1>3. /\ \A k \in 1 .. Len(s) : tag[k][2] = s[k]
      /\ \A k \in 1 .. Len(c) : tag[k] = <<k, Replaced(c, new, k)>> /\ tag[k][1] = k
      /\ \A k \in Len(c) + 1 .. Len(s) : tag[k] = <<0, s[k]>> /\ s[k] \in Added(c, new) /\ tag[k][1] = 0
  BY <1>2 DEF Completed
<1> HIDE DEF tag
<1>4. \A k \in 1 .. Len(s) : tag[k] \in Combined(c, new)
  <2>1. \A k \in 1 .. Len(c) : <<k, Replaced(c, new, k)>> \in Combined(c, new)
    BY <1>1 DEF Combined
  <2>2. \A o \in Added(c, new) : <<0, o>> \in Combined(c, new)
    BY DEF Combined
  <2>3. ASSUME NEW k \in 1 .. Len(c) PROVE tag[k] \in Combined(c, new)
    BY <1>3, <2>1
  <2>4. ASSUME NEW k \in Len(c) + 1 .. Len(s) PROVE tag[k] \in Combined(c, new)
    BY <1>3, <2>2
  <2> QED
    BY <1>2, <2>3, <2>4
<1>5. \A j, k \in 1 .. Len(s) : tag[j] = tag[k] => j = k
  BY <1>2, <1>3 DEF Completed
<1>6. \A u \in Combined(c, new) : \E k \in 1 .. Len(s) : tag[k] = u
  <2>1. ASSUME NEW u \in Combined(c, new) PROVE \E k \in 1 .. Len(s) : tag[k] = u
    <3>1. CASE \E k \in DOMAIN c : u = <<k, Replaced(c, new, k)>>
      BY <1>1, <1>2, <1>3, <3>1
    <3>2. CASE \E o \in Added(c, new) : u = <<0, o>>
      <4>1. PICK o \in Added(c, new) : u = <<0, o>>
        BY <3>2
      <4>2. PICK k \in Len(c) + 1 .. Len(s) : s[k] = o
        BY <4>1 DEF Completed
      <4> QED
        BY <1>2, <1>3, <4>1, <4>2
    <3> QED
      BY <3>1, <3>2 DEF Combined
  <2> QED
    BY <2>1
<1>7. \A k \in 1 .. n : p[k] \in 1 .. Len(s) /\ q[k] = tag[p[k]] /\ d[k] = s[p[k]]
  BY DEF Compacted
<1>8. q \in [1 .. n -> Unexpired(c, new, t)]
  <2>1. \A k \in 1 .. n : tag[p[k]] \in Unexpired(c, new, t)
    BY <1>3, <1>4, <1>7 DEF Compacted, Unexpired
  <2> QED
    BY <2>1
<1> HIDE DEF q
<1>9. \A j, k \in 1 .. n : q[j] = q[k] => j = k
  <2>1. \A j, k \in 1 .. n : p[j] = p[k] => j = k
    BY DEF Compacted
  <2>2. ASSUME NEW j \in 1 .. n, NEW k \in 1 .. n, q[j] = q[k] PROVE j = k
    <3>1. tag[p[j]] = tag[p[k]] /\ p[j] \in 1 .. Len(s) /\ p[k] \in 1 .. Len(s)
      BY <1>7, <2>2
    <3>2. p[j] = p[k]
      BY <1>5, <3>1
    <3> QED
      BY <2>1, <3>2
  <2> QED
    BY <2>2
<1>10. ASSUME NEW u \in Unexpired(c, new, t) PROVE \E k \in 1 .. n : q[k] = u
  <2>1. PICK y \in 1 .. Len(s) : tag[y] = u
    BY <1>6 DEF Unexpired
  <2>2. ~ Expired(s[y], t)
    BY <1>3, <2>1 DEF Unexpired
  <2>3. PICK k \in 1 .. n : p[k] = y
    BY <2>2 DEF Compacted
  <2> QED
    BY <1>7, <2>1, <2>3
<1>11. \A k \in 1 .. n : e[k] = q[k][2]
  BY <1>1, <1>3, <1>7
<1> HIDE DEF e
<1>12. Lists(e, c, new, t, q)
  BY <1>1, <1>8, <1>9, <1>10, <1>11 DEF Lists
<1> QED
  BY <1>1, <1>12 DEF e

\* A list in another order lists the same departures.
LEMMA SortLists ==
    ASSUME NEW c, NEW new, NEW t, NEW d \in Seq(Departure), NEW q, Lists(d, c, new, t, q),
           NEW p, p \in Bijection(DOMAIN d, DOMAIN d),
           NEW e, DOMAIN e = DOMAIN d, e \in Seq(Departure), \A k \in DOMAIN d : e[k] = d[p[k]]
    PROVE  \E r : Lists(e, c, new, t, r)
<1> DEFINE r == [k \in DOMAIN d |-> q[p[k]]]
<1>1. /\ p \in [DOMAIN d -> DOMAIN d]
      /\ \A y \in DOMAIN d : \E k \in DOMAIN d : p[k] = y
      /\ \A j, k \in DOMAIN d : p[j] = p[k] => j = k
  BY DEF Bijection, Injection, Surjection, IsInjective
<1>2. r \in [DOMAIN d -> Unexpired(c, new, t)] /\ \A k \in DOMAIN d : r[k] = q[p[k]]
  BY <1>1 DEF Lists
<1> HIDE DEF r
<1>3. \A j, k \in DOMAIN d : r[j] = r[k] => j = k
  BY <1>1, <1>2 DEF Lists
<1>4. ASSUME NEW u \in Unexpired(c, new, t) PROVE \E k \in DOMAIN d : r[k] = u
  <2>1. PICK y \in DOMAIN d : q[y] = u
    BY DEF Lists
  <2> QED
    BY <1>1, <1>2, <2>1
<1>5. \A k \in DOMAIN d : e[k] = r[k][2]
  BY <1>1, <1>2 DEF Lists
<1>6. Lists(e, c, new, t, r)
  BY <1>2, <1>3, <1>4, <1>5 DEF Lists
<1> QED
  BY <1>6

\* A list of the unexpired departures that is in order is a refreshed list.
LEMMA ListsRefreshed ==
    ASSUME NEW c \in Seq(Departure), NEW new \in SUBSET Departure, IsFiniteSet(new), NEW t,
           NEW d \in Seq(Departure), NEW q, Lists(d, c, new, t, q), InOrder(d)
    PROVE  d \in Refreshed(c, new, t)
<1> DEFINE keep == Unexpired(c, new, t)
<1>1. IsFiniteSet(keep)
  BY CombinedMembers, FS_Subset DEF Unexpired
<1>2. Cardinality(keep) = Len(d) /\ DOMAIN d = 1 .. Len(d) /\ Len(d) \in Nat
  <2>1. q \in Bijection(DOMAIN d, keep)
    BY DEF Bijection, Injection, Surjection, IsInjective, Lists
  <2>2. DOMAIN d = 1 .. Len(d) /\ Len(d) \in Nat
    OBVIOUS
  <2>3. IsFiniteSet(1 .. Len(d)) /\ Cardinality(1 .. Len(d)) = Len(d)
    <3>1. PICK m \in Nat : m = Len(d)
      BY <2>2
    <3>2. 1 \in Int /\ m \in Int /\ (IF 1 > m THEN 0 ELSE m - 1 + 1) = m
      OBVIOUS
    <3>3. IsFiniteSet(1 .. m) /\ Cardinality(1 .. m) = m
      BY <3>2, FS_Interval
    <3> QED
      BY <3>1, <3>3
  <2> HIDE DEF keep
  <2>4. Cardinality(DOMAIN d) = Cardinality(keep)
    BY <1>1, <2>1, <2>2, <2>3, FS_Bijection DEF ExistsBijection
  <2> QED
    BY <2>2, <2>3, <2>4
<1>3. q \in SetToSeqs(keep)
  BY <1>2 DEF SetToSeqs, Lists
<1>4. DOMAIN q = DOMAIN d /\ d = [k \in DOMAIN q |-> q[k][2]]
  BY DEF Lists
<1>5. \A j, k \in DOMAIN q : j < k => ~ Before(q[k][2], q[j][2])
  BY <1>4 DEF InOrder, Lists
<1> QED
  BY <1>3, <1>4, <1>5 DEF Refreshed, Unexpired

-----------------------------------------------------------------------------

\* The batch: typed, finite, a journey once.
LEMMA BatchedFacts ==
    ASSUME ListsInv
    PROVE  /\ Batched \in SUBSET Departure /\ IsFiniteSet(Batched)
           /\ \A n, o \in Batched : n.journeyRef = o.journeyRef => n = o
           /\ Batched = NewDeps(newDepartures, 1 .. Len(newDepartures))
<1>1. newDepartures \in Seq(Departure) /\ DOMAIN newDepartures = 1 .. Len(newDepartures)
  BY DEF ListsInv
<1> QED
  BY <1>1, NewDepsBatch DEF Batched

LEMMA LoopStarts == LoopInit => LoopInv
<1> SUFFICES ASSUME LoopInit PROVE LoopInv
  OBVIOUS
<1>1. ASSUME NEW n, NEW s \in ListsOf(n) PROVE s \in Seq(Departure)
  <2>1. PICK k \in 0 .. n : s \in [1 .. k -> Candidates]
    BY DEF ListsOf
  <2>2. k \in Nat /\ s \in [1 .. k -> Departure]
    BY <2>1, CombineLoopAssumption
  <2> QED
    BY <2>2
<1>2. ListsInv
  BY <1>1 DEF LoopInit, ListsInv
<1>3. MapInv
  <2>1. 1 - 1 = 0 /\ Len(newDepartures) \in Nat
    BY <1>2 DEF ListsInv
  <2> QED
    BY <2>1, NothingBatched DEF LoopInit, MapInv
<1> QED
  BY <1>2, <1>3 DEF LoopInit, LoopInv, ReplaceInv, AppendInv, ExpireInv, SortInv, DoneInv, KeptInv

LEMMA MapStep == LoopInv /\ MapNew => LoopInv'
<1> SUFFICES ASSUME LoopInv, MapNew PROVE LoopInv'
  OBVIOUS
<1>1. /\ loop = "map" /\ ListsInv /\ keptSoFar = 0 /\ departures = cachedList
      /\ position \in Nat \ {0} /\ position <= Len(newDepartures) + 1
      /\ Len(newDepartures) \in Nat /\ Len(cachedList) \in Nat
      /\ newDeps = NewDeps(newDepartures, 1 .. position - 1)
  BY DEF LoopInv, KeptInv, MapInv, ListsInv, MapNew, Ends
<1>2. CASE position <= Len(newDepartures)
  <2>1. /\ newDeps' = Without(newDepartures[position].journeyRef) \cup {newDepartures[position]}
        /\ position' = position + 1
        /\ UNCHANGED <<cachedList, newDepartures, instant, loop, keptSoFar, departures>>
    BY <1>1, <1>2 DEF MapNew, Ends
  <2>2. ListsInv'
    BY <1>1, <2>1 DEF ListsInv
  <2>3. position \in 1 .. Len(newDepartures) /\ newDepartures \in Seq(Departure)
    BY <1>1, <1>2 DEF ListsInv
  <2>4. newDeps' = NewDeps(newDepartures, 1 .. position)
    BY <1>1, <2>1, <2>3, NewDepsGrows DEF Without
  <2>5. position' - 1 = position /\ position' <= Len(newDepartures) + 1
    BY <2>1, <2>3
  <2>6. MapInv'
    BY <1>1, <2>1, <2>4, <2>5 DEF MapInv
  <2> QED
    BY <1>1, <2>1, <2>2, <2>6
       DEF LoopInv, ReplaceInv, AppendInv, ExpireInv, SortInv, DoneInv, KeptInv
<1>3. CASE ~ position <= Len(newDepartures)
  <2>1. /\ loop' = "replace" /\ position' = 1
        /\ UNCHANGED <<cachedList, newDepartures, instant, keptSoFar, newDeps, departures>>
    BY <1>3 DEF MapNew, Ends
  <2>2. ListsInv'
    BY <1>1, <2>1 DEF ListsInv
  <2>3. position - 1 = Len(newDepartures)
    BY <1>1, <1>3
  <2>4. newDeps = Batched /\ Batched' = Batched
    BY <1>1, <2>1, <2>3, BatchedFacts DEF Batched
  <2>5. 1 .. position' - 1 = {} /\ position' <= Len(cachedList) + 1
    BY <1>1, <2>1
  <2>6. ReplaceInv'
    BY <1>1, <2>1, <2>4, <2>5 DEF ReplaceInv
  <2> QED
    BY <1>1, <2>1, <2>2, <2>6
       DEF LoopInv, MapInv, AppendInv, ExpireInv, SortInv, DoneInv, KeptInv
<1> QED
  BY <1>2, <1>3

LEMMA ReplaceStep == LoopInv /\ Replace => LoopInv'
<1> SUFFICES ASSUME LoopInv, Replace PROVE LoopInv'
  OBVIOUS
<1>1. /\ loop = "replace" /\ ListsInv /\ keptSoFar = 0
      /\ position \in Nat \ {0} /\ position <= Len(cachedList) + 1
      /\ departures \in Seq(Departure) /\ cachedList \in Seq(Departure)
      /\ Len(cachedList) \in Nat /\ Len(departures) = Len(cachedList)
  BY DEF LoopInv, KeptInv, ReplaceInv, ListsInv, Replace, Ends
<1>2. /\ \A k \in 1 .. position - 1 : departures[k] = Replaced(cachedList, Batched, k)
      /\ \A k \in position .. Len(cachedList) : departures[k] = cachedList[k]
      /\ newDeps = {n \in Batched : \A k \in 1 .. position - 1 :
                                       cachedList[k].journeyRef # n.journeyRef}
  BY <1>1 DEF LoopInv, ReplaceInv
<1>3. CASE position <= Len(departures)
  <2>1. PICK others, same :
          /\ others = Without(departures[position].journeyRef)
          /\ same = newDeps \ others
    OBVIOUS
  <2>2. /\ departures' = [departures EXCEPT ![position] = IF same # {} THEN CHOOSE n \in same : TRUE ELSE @]
        /\ newDeps' = others
        /\ position' = position + 1
        /\ UNCHANGED <<cachedList, newDepartures, instant, loop, keptSoFar>>
    BY <1>1, <1>3, <2>1 DEF Replace, Ends
  <2>3. position \in 1 .. Len(cachedList) /\ departures[position] = cachedList[position]
    BY <1>1, <1>2, <1>3
  <2>4. others = {n \in newDeps : n.journeyRef # cachedList[position].journeyRef}
    BY <2>1, <2>3 DEF Without
  <2>5. /\ Batched \in SUBSET Departure
        /\ \A n, o \in Batched : n.journeyRef = o.journeyRef => n = o
    BY <1>1, BatchedFacts
  <2>6. /\ Replaced(cachedList, Batched, position)
              = IF same # {} THEN CHOOSE n \in same : TRUE ELSE cachedList[position]
        /\ others = {n \in Batched : \A k \in 1 .. position : cachedList[k].journeyRef # n.journeyRef}
        /\ Replaced(cachedList, Batched, position) \in Departure
    <3>1. PICK c, new, p : c = cachedList /\ new = Batched /\ p = position
      OBVIOUS
    <3>2. /\ c \in Seq(Departure) /\ new \in SUBSET Departure /\ p \in 1 .. Len(c)
          /\ \A n, o \in new : n.journeyRef = o.journeyRef => n = o
      BY <1>1, <2>3, <2>5, <3>1
    <3>3. LET left   == {n \in new : \A k \in 1 .. p - 1 : c[k].journeyRef # n.journeyRef}
              found == {n \in left : n.journeyRef # c[p].journeyRef}
              entry   == left \ found
          IN  /\ Replaced(c, new, p) = IF entry # {} THEN CHOOSE n \in entry : TRUE ELSE c[p]
              /\ found = {n \in new : \A k \in 1 .. p : c[k].journeyRef # n.journeyRef}
              /\ Replaced(c, new, p) \in Departure
      BY <3>2, EntryUsedOnce, Zenon
    <3> QED
      BY <1>2, <2>1, <2>4, <3>1, <3>3
  <2>7. departures' = [departures EXCEPT ![position] = Replaced(cachedList, Batched, position)]
    BY <2>2, <2>3, <2>6
  <2>8. /\ departures' \in Seq(Departure) /\ Len(departures') = Len(departures)
        /\ departures'[position] = Replaced(cachedList, Batched, position)
        /\ \A k \in 1 .. Len(departures) : k # position => departures'[k] = departures[k]
    BY <1>1, <2>3, <2>6, <2>7
  <2>9. ListsInv'
    BY <1>1, <2>2, <2>8 DEF ListsInv
  <2>10. /\ position' - 1 = position /\ position' <= Len(cachedList) + 1
         /\ \A k \in 1 .. position : k = position \/ (k \in 1 .. position - 1 /\ k \in 1 .. Len(departures) /\ k # position)
         /\ \A k \in position' .. Len(cachedList) :
               k \in position .. Len(cachedList) /\ k \in 1 .. Len(departures) /\ k # position
    BY <1>1, <2>2, <2>3
  <2>11. Batched' = Batched
    BY <2>2 DEF Batched
  <2>12. \A k \in 1 .. position : departures'[k] = Replaced(cachedList, Batched, k)
    BY <1>2, <2>8, <2>10
  <2>13. \A k \in position' .. Len(cachedList) : departures'[k] = cachedList[k]
    BY <1>2, <2>8, <2>10
  <2>14. ReplaceInv'
    BY <1>1, <2>2, <2>6, <2>8, <2>10, <2>11, <2>12, <2>13 DEF ReplaceInv
  <2> QED
    BY <1>1, <2>2, <2>9, <2>14
       DEF LoopInv, MapInv, AppendInv, ExpireInv, SortInv, DoneInv, KeptInv
<1>4. CASE ~ position <= Len(departures)
  <2>1. /\ loop' = "append" /\ position' = 1
        /\ UNCHANGED <<cachedList, newDepartures, instant, keptSoFar, newDeps, departures>>
    BY <1>4 DEF Replace, Ends
  <2>2. ListsInv'
    BY <1>1, <2>1 DEF ListsInv
  <2>3. position - 1 = Len(cachedList)
    BY <1>1, <1>4
  <2>4. newDeps = Added(cachedList, Batched)
    BY <1>1, <1>2, <2>3 DEF Added
  <2>5. Len(cachedList) + 1 .. Len(departures) = {}
    BY <1>1
  <2>6. Completed(cachedList, Batched, departures, newDeps)
    BY <1>1, <1>2, <2>3, <2>4, <2>5 DEF Completed
  <2>7. AppendInv'
    BY <2>1, <2>6 DEF AppendInv, Completed, Batched
  <2> QED
    BY <1>1, <2>1, <2>2, <2>7
       DEF LoopInv, MapInv, ReplaceInv, ExpireInv, SortInv, DoneInv, KeptInv
<1> QED
  BY <1>3, <1>4

LEMMA AppendLoopStep == LoopInv /\ AppendNew => LoopInv'
<1> SUFFICES ASSUME LoopInv, AppendNew PROVE LoopInv'
  OBVIOUS
<1>1. /\ loop = "append" /\ ListsInv /\ keptSoFar = 0 /\ position = 1
      /\ Completed(cachedList, Batched, departures, newDeps)
  BY DEF LoopInv, KeptInv, AppendInv, AppendNew
<1>2. Batched' = Batched /\ cachedList' = cachedList
  BY DEF Batched, AppendNew
<1>3. CASE newDeps # {}
  <2>1. PICK n \in newDeps : /\ departures' = Append(departures, n)
                             /\ newDeps' = newDeps \ {n}
                             /\ UNCHANGED <<cachedList, newDepartures, instant, loop, position, keptSoFar>>
    BY <1>3 DEF AppendNew
  <2>2. cachedList \in Seq(Departure) /\ Batched \in SUBSET Departure
    BY <1>1, BatchedFacts DEF ListsInv
  <2>3. Completed(cachedList, Batched, Append(departures, n), newDeps \ {n})
    BY <1>1, <2>2, OneAppended
  <2>4. Append(departures, n) \in Seq(Departure)
    BY <2>3 DEF Completed
  <2>5. ListsInv'
    BY <1>1, <2>1, <2>4 DEF ListsInv
  <2>6. Completed(cachedList, Batched, departures, newDeps)'
    BY <1>2, <2>1, <2>3 DEF Completed
  <2>7. AppendInv'
    BY <1>1, <2>1, <2>6 DEF AppendInv
  <2> QED
    BY <1>1, <2>1, <2>5, <2>7
       DEF LoopInv, MapInv, ReplaceInv, ExpireInv, SortInv, DoneInv, KeptInv
<1>4. CASE newDeps = {}
  <2>1. /\ loop' = "expire"
        /\ UNCHANGED <<cachedList, newDepartures, instant, position, keptSoFar, newDeps, departures>>
    BY <1>4 DEF AppendNew
  <2>2. ListsInv'
    BY <1>1, <2>1 DEF ListsInv
  <2>3. Compacted(departures, 0, instant, departures, 0, << >>)
    BY DEF Compacted
  <2>4. position - 1 = 0 /\ position <= Len(departures) + 1 /\ 0 \in 0 .. position - 1
    BY <1>1 DEF ListsInv
  <2>5. \E s, p :
          /\ Completed(cachedList, Batched, s, {})
          /\ Len(departures) = Len(s) /\ position <= Len(s) + 1
          /\ keptSoFar \in 0 .. position - 1
          /\ \A k \in position .. Len(s) : departures[k] = s[k]
          /\ Compacted(s, position - 1, instant, departures, keptSoFar, p)
    BY <1>1, <1>4, <2>3, <2>4
  <2>6. ExpireInv'
    BY <1>2, <2>1, <2>5 DEF ExpireInv
  <2> QED
    BY <1>1, <2>1, <2>2, <2>6
       DEF LoopInv, MapInv, ReplaceInv, AppendInv, SortInv, DoneInv, KeptInv
<1> QED
  BY <1>3, <1>4

LEMMA ExpireStep == LoopInv /\ RemoveExpired => LoopInv'
<1> SUFFICES ASSUME LoopInv, RemoveExpired PROVE LoopInv'
  OBVIOUS
<1>1. /\ loop = "expire" /\ ListsInv /\ position \in Nat \ {0}
      /\ cachedList \in Seq(Departure) /\ departures \in Seq(Departure)
  BY DEF LoopInv, ListsInv, RemoveExpired, Ends
<1>2. PICK s, p :
        /\ Completed(cachedList, Batched, s, {})
        /\ Len(departures) = Len(s) /\ position <= Len(s) + 1
        /\ keptSoFar \in 0 .. position - 1
        /\ \A k \in position .. Len(s) : departures[k] = s[k]
        /\ Compacted(s, position - 1, instant, departures, keptSoFar, p)
  BY <1>1 DEF LoopInv, ExpireInv
<1>3. s \in Seq(Departure) /\ Len(s) \in Nat /\ Batched \in SUBSET Departure
  BY <1>1, <1>2, BatchedFacts DEF Completed
<1>4. Batched' = Batched /\ cachedList' = cachedList /\ instant' = instant
  BY DEF Batched, RemoveExpired, Ends
<1>5. CASE position <= Len(departures)
  <2>1. /\ IF Expired(departures[position], instant)
           THEN UNCHANGED <<departures, keptSoFar>>
           ELSE /\ departures' = [departures EXCEPT ![keptSoFar + 1] = departures[position]]
                /\ keptSoFar' = keptSoFar + 1
        /\ position' = position + 1
        /\ UNCHANGED <<cachedList, newDepartures, instant, loop, newDeps>>
    BY <1>1, <1>5 DEF RemoveExpired, Ends
  <2>2. /\ position \in 1 .. Len(s) /\ position' - 1 = position /\ position' <= Len(s) + 1
        /\ departures[position] = s[position]
        /\ \A k \in position' .. Len(s) : k \in position .. Len(s)
    <3>1. position \in Nat \ {0} /\ Len(s) \in Nat /\ position <= Len(s) /\ position' = position + 1
      BY <1>1, <1>2, <1>3, <1>5, <2>1
    <3>2. /\ position \in 1 .. Len(s) /\ position' - 1 = position /\ position' <= Len(s) + 1
          /\ \A k \in position' .. Len(s) : k \in position .. Len(s)
      BY <3>1
    <3>3. departures[position] = s[position]
      BY <1>2, <3>1
    <3> QED
      BY <3>2, <3>3
  <2>3. \E r : /\ departures' \in Seq(Departure) /\ Len(departures') = Len(s)
               /\ keptSoFar' \in 0 .. position
               /\ \A k \in position' .. Len(s) : departures'[k] = s[k]
               /\ Compacted(s, position, instant, departures', keptSoFar', r)
    <3>1. CASE Expired(departures[position], instant)
      <4>1. departures' = departures /\ keptSoFar' = keptSoFar
        BY <2>1, <3>1
      <4>2. Compacted(s, position, instant, departures, keptSoFar, p)
        BY <1>2, <1>3, <2>2, <3>1, OneDropped
      <4>3. keptSoFar \in 0 .. position
        BY <1>1, <1>2
      <4> QED
        BY <1>1, <1>2, <2>2, <4>1, <4>2, <4>3
    <3>2. CASE ~ Expired(departures[position], instant)
      <4>1. /\ departures' = [departures EXCEPT ![keptSoFar + 1] = departures[position]]
            /\ keptSoFar' = keptSoFar + 1
        BY <2>1, <3>2
      <4>2. /\ departures' \in Seq(Departure) /\ Len(departures') = Len(departures)
            /\ \A k \in position + 1 .. Len(s) : departures'[k] = s[k]
            /\ \E r : Compacted(s, position, instant, departures', keptSoFar + 1, r)
        <5>1. /\ s \in Seq(Departure) /\ departures \in Seq(Departure) /\ Len(departures) = Len(s)
              /\ position \in 1 .. Len(s) /\ keptSoFar \in 0 .. position - 1
              /\ \A k \in position .. Len(s) : departures[k] = s[k]
              /\ Compacted(s, position - 1, instant, departures, keptSoFar, p)
              /\ ~ Expired(departures[position], instant)
          BY <1>1, <1>2, <1>3, <2>2, <3>2
        <5>2. PICK d, x, n, t : d = departures /\ x = position /\ n = keptSoFar /\ t = instant
          OBVIOUS
        <5>3. /\ d \in Seq(Departure) /\ Len(d) = Len(s)
              /\ x \in 1 .. Len(s) /\ n \in 0 .. x - 1
              /\ \A k \in x .. Len(s) : d[k] = s[k]
              /\ Compacted(s, x - 1, t, d, n, p)
              /\ ~ Expired(d[x], t)
          BY <5>1, <5>2
        <5>4. LET e == [d EXCEPT ![n + 1] = d[x]]
              IN  /\ e \in Seq(Departure) /\ Len(e) = Len(d)
                  /\ \A k \in x + 1 .. Len(s) : e[k] = s[k]
                  /\ \E r : Compacted(s, x, t, e, n + 1, r)
          BY <5>1, <5>3, OneKept
        <5> QED
          BY <4>1, <5>2, <5>4
      <4>3. keptSoFar + 1 \in 0 .. position
        BY <1>1, <1>2
      <4> QED
        BY <1>2, <2>1, <4>1, <4>2, <4>3
    <3> QED
      BY <3>1, <3>2
  <2>4. ListsInv'
    BY <1>1, <2>1, <2>3 DEF ListsInv
  <2>5. \E z, r :
          /\ Completed(cachedList, Batched, z, {})
          /\ Len(departures') = Len(z) /\ position' <= Len(z) + 1
          /\ keptSoFar' \in 0 .. position' - 1
          /\ \A k \in position' .. Len(z) : departures'[k] = z[k]
          /\ Compacted(z, position' - 1, instant, departures', keptSoFar', r)
    BY <1>2, <2>2, <2>3
  <2>6. ExpireInv'
    BY <1>4, <2>5 DEF ExpireInv
  <2> QED
    BY <1>1, <2>1, <2>4, <2>6
       DEF LoopInv, MapInv, ReplaceInv, AppendInv, SortInv, DoneInv, KeptInv
<1>6. CASE ~ position <= Len(departures)
  <2>1. /\ loop' = "sort" /\ position' = 1 /\ departures' = SubSeq(departures, 1, keptSoFar)
        /\ UNCHANGED <<cachedList, newDepartures, instant, keptSoFar, newDeps>>
    BY <1>6 DEF RemoveExpired, Ends
  <2>2. position - 1 = Len(s) /\ keptSoFar \in 0 .. Len(departures)
    BY <1>1, <1>2, <1>3, <1>6
  <2>3. Compacted(s, Len(s), instant, departures, keptSoFar, p)
    BY <1>2, <2>2
  <2>4. /\ SubSeq(departures, 1, keptSoFar) \in Seq(Departure)
        /\ \E q : Lists(SubSeq(departures, 1, keptSoFar), cachedList, Batched, instant, q)
    BY <1>1, <1>2, <1>3, <2>2, <2>3, CutLists
  <2>5. ListsInv'
    BY <1>1, <2>1, <2>4 DEF ListsInv
  <2>6. SortInv'
    BY <1>4, <2>1, <2>4 DEF SortInv
  <2> QED
    BY <1>1, <2>1, <2>5, <2>6
       DEF LoopInv, MapInv, ReplaceInv, AppendInv, ExpireInv, DoneInv, KeptInv
<1> QED
  BY <1>5, <1>6

LEMMA SortStep == LoopInv /\ Sort => LoopInv'
<1> SUFFICES ASSUME LoopInv, Sort PROVE LoopInv'
  OBVIOUS
<1>1. /\ loop = "sort" /\ loop' = "done" /\ ListsInv /\ departures \in Seq(Departure)
      /\ UNCHANGED <<cachedList, newDepartures, instant, position, keptSoFar, newDeps>>
  BY DEF LoopInv, ListsInv, Sort
<1>2. PICK q : Lists(departures, cachedList, Batched, instant, q)
  BY <1>1 DEF LoopInv, SortInv
<1>3. PICK p \in Bijection(DOMAIN departures, DOMAIN departures) :
        /\ departures' = [k \in DOMAIN departures |-> departures[p[k]]]
        /\ InOrder(departures')
  BY DEF Sort
<1>4. /\ departures' \in Seq(Departure)
      /\ \E r : Lists(departures', cachedList, Batched, instant, r)
  <2>1. PICK d, c, new, t : d = departures /\ c = cachedList /\ new = Batched /\ t = instant
    OBVIOUS
  <2>2. d \in Seq(Departure) /\ p \in Bijection(DOMAIN d, DOMAIN d) /\ Lists(d, c, new, t, q)
    BY <1>1, <1>2, <2>1
  <2>3. p \in [DOMAIN d -> DOMAIN d]
    BY <2>2 DEF Bijection, Injection
  <2>4. DOMAIN d = 1 .. Len(d) /\ Len(d) \in Nat /\ \A k \in DOMAIN d : d[p[k]] \in Departure
    BY <2>2, <2>3
  <2>5. PICK e : e = [k \in DOMAIN d |-> d[p[k]]]
    OBVIOUS
  <2>6. DOMAIN e = DOMAIN d /\ e \in Seq(Departure) /\ \A k \in DOMAIN d : e[k] = d[p[k]]
    BY <2>4, <2>5
  <2>7. \E r : Lists(e, c, new, t, r)
    BY <2>2, <2>6, SortLists
  <2> QED
    BY <1>3, <2>1, <2>5, <2>6, <2>7
<1>5. Batched' = Batched
  BY <1>1 DEF Batched
<1>6. ListsInv'
  BY <1>1, <1>4 DEF ListsInv
<1>7. SortInv'
  BY <1>1, <1>4, <1>5 DEF SortInv
<1>8. DoneInv'
  BY <1>3 DEF DoneInv, InOrder
<1> QED
  BY <1>1, <1>6, <1>7, <1>8
     DEF LoopInv, MapInv, ReplaceInv, AppendInv, ExpireInv, KeptInv

LEMMA LoopStays == LoopInv /\ UNCHANGED loopVars => LoopInv'
BY DEF LoopInv, ListsInv, MapInv, ReplaceInv, AppendInv, ExpireInv, SortInv, DoneInv, KeptInv,
       Batched, loopVars

LEMMA LoopInvHolds == LoopSpec => []LoopInv
<1>1. LoopInv /\ [LoopNext]_loopVars => LoopInv'
  BY MapStep, ReplaceStep, AppendLoopStep, ExpireStep, SortStep, LoopStays DEF LoopNext
<1> QED
  BY <1>1, LoopStarts, PTL DEF LoopSpec

LEMMA DoneRefreshed ==
    ASSUME LoopInv, loop = "done"
    PROVE  departures \in Refreshed(cachedList, Batched, instant)
<1>1. PICK q : Lists(departures, cachedList, Batched, instant, q)
  BY DEF LoopInv, SortInv
<1>2. /\ cachedList \in Seq(Departure) /\ departures \in Seq(Departure) /\ InOrder(departures)
      /\ Batched \in SUBSET Departure /\ IsFiniteSet(Batched)
  BY BatchedFacts DEF LoopInv, ListsInv, DoneInv
<1> QED
  BY <1>1, <1>2, ListsRefreshed

\* For cached lists and groups of any length: what the loops leave, with entries
\* deleted from the map, the slice overwritten while it is read and cut, is
\* one of the lists that Refreshed allows, which Ingester stores in one step.
THEOREM LoopsAlwaysRefresh == LoopSpec => []LoopsComputeRefreshed
<1>1. LoopInv => LoopsComputeRefreshed
  BY DoneRefreshed DEF LoopsComputeRefreshed, Batched
<1> QED
  BY <1>1, LoopInvHolds, PTL

\* Of a refreshed list: what is listed of a journey that is new is the new departure.
LEMMA NewestListed ==
    ASSUME NEW c \in Seq(Departure), NEW new \in SUBSET Departure, IsFiniteSet(new), NEW t,
           \A n, o \in new : n.journeyRef = o.journeyRef => n = o,
           NoDuplicates(c), NEW d \in Refreshed(c, new, t),
           NEW k \in DOMAIN d, NEW n \in new, d[k].journeyRef = n.journeyRef
    PROVE  d[k] = n
<1>1. PICK u \in Combined(c, new) : d[k] = u[2]
  <2> DEFINE keep == {u \in Combined(c, new) : ~ Expired(u[2], t)}
  <2>1. PICK q \in SetToSeqs(keep) : d = [j \in DOMAIN q |-> q[j][2]]
    BY DEF Refreshed
  <2>2. q \in [1 .. Cardinality(keep) -> keep]
    BY <2>1 DEF SetToSeqs
  <2>3. k \in DOMAIN q /\ d[k] = q[k][2] /\ q[k] \in keep
    <3> HIDE DEF keep
    <3> QED
      BY <2>1, <2>2
  <2> QED
    BY <2>3
<1>2. CASE \E j \in DOMAIN c : u = <<j, Replaced(c, new, j)>>
  <2>1. PICK j \in DOMAIN c : u = <<j, Replaced(c, new, j)>>
    BY <1>2
  <2>2. d[k] = Replaced(c, new, j)
    BY <1>1, <2>1
  <2>3. c[j].journeyRef = n.journeyRef
    BY <2>2 DEF Replaced
  <2>4. IsFirst(c, j)
    BY DEF IsFirst, NoDuplicates
  <2> QED
    BY <2>2, <2>3, <2>4 DEF Replaced
<1>3. CASE \E o \in Added(c, new) : u = <<0, o>>
  <2>1. d[k] \in new
    BY <1>1, <1>3 DEF Added
  <2> QED
    BY <2>1
<1> QED
  BY <1>1, <1>2, <1>3 DEF Combined

\* ... in which a new departure wins over the cached one of its journey, and a
\* journey that was cached at most once is listed at most once.
THEOREM NewestAlwaysOnce == LoopSpec => []NewestOnce
<1>1. LoopInv => NewestOnce
  <2> SUFFICES ASSUME LoopInv, loop = "done", NoDuplicates(cachedList)
               PROVE  /\ NoDuplicates(departures)
                      /\ \A k \in DOMAIN departures : \A n \in Batched :
                           departures[k].journeyRef = n.journeyRef => departures[k] = n
    BY DEF NewestOnce, Batched
  <2>1. /\ cachedList \in Seq(Departure)
        /\ Batched \in SUBSET Departure /\ IsFiniteSet(Batched)
        /\ \A n, o \in Batched : n.journeyRef = o.journeyRef => n = o
    BY BatchedFacts DEF LoopInv, ListsInv
  <2>2. departures \in Refreshed(cachedList, Batched, instant)
    BY DoneRefreshed
  <2>3. NoDuplicates(departures)
    BY <2>1, <2>2, RefreshedList
  <2>4. \A k \in DOMAIN departures : \A n \in Batched :
          departures[k].journeyRef = n.journeyRef => departures[k] = n
    BY <2>1, <2>2, NewestListed
  <2> QED
    BY <2>3, <2>4
<1> QED
  BY <1>1, LoopInvHolds, PTL
=============================================================================
