----------------------------- MODULE RailIngester -----------------------------
(***************************************************************************)
(* rail-ingester/rail_ingester.go: the Lambda function that brings station *)
(* boards into the departures database.  The poller publishes boards, SNS  *)
(* delivers each of them once or several times, at any time after it was   *)
(* published and in any order.  Handler starts a goroutine per record; it  *)
(* converts the readings on its board to instants, drops the trains that   *)
(* have left, and replaces the list of the station.                        *)
(*                                                                         *)
(* One instance is modelled: instances have nothing in common but the      *)
(* lists, on which they act like further records of one event.             *)
(***************************************************************************)
EXTENDS Trains, Sequences, FiniteSetsExt

CONSTANTS Stations,             \* ATCO codes
          Boards,               \* the boards that the poller may publish
          Malformed,            \* a message that transformToInternalModel does not get or rejects
          Records,              \* places for the records of an event
          OnTime,               \* a departure status that is neither Delayed nor a reading
          Beginnings, End,      \* first instants and last instant of the clock
          MaxEvents, MaxFaults  \* bounds on events delivered and on failures

\* A departure on a board.  The board has the readings of the clock; the instants
\* they stand for are here to state what should become of them.
Service == [ scheduled : {t \in Nat : t % Minute = 0},
             expected  : {t \in Nat : t % Minute = 0} \cup {Delayed, OnTime} ]

Board == [ station : Stations, generatedAt : Nat, services : Seq(Service) ]

ASSUME RailAssumption ==
    /\ Boards \subseteq Board /\ Malformed \notin Boards
    /\ OnTime \notin Nat /\ OnTime # Delayed
    /\ Beginnings \subseteq Nat /\ End \in Nat
    /\ {MaxEvents, MaxFaults} \subseteq Nat

VARIABLES
    now,                \* the clock
    cache,              \* departures database: the list of each station, as a set
    handler,            \* "idle", "serving", "closed" (errs is) or "crashed"
    gErr, result,       \* an error was received from errs; what Handler last returned
    record,             \* where the goroutine of each record is
    board,              \* by record: stationBoard
    departures,         \* by record: departures, with the instants they were made at
    source,             \* history: the board that each list was last made of
    newest, ordered,    \* history: the last board of each station delivered; none was late
    events, faults

database == <<cache, source>>
arrivals == <<newest, ordered>>
outcome  == <<handler, gErr, result>>
bounds   == <<events, faults>>
vars     == <<now, arrivals, database, outcome, record, board, departures, bounds>>

\* departures before the board is transformed, and the origin of an empty list.
None == [trains |-> {}, readAt |-> 0, removedAt |-> 0]
NoSource == [board |-> Malformed, readAt |-> 0, removedAt |-> 0]

Init ==
    /\ now \in Beginnings
    /\ cache = [s \in Stations |-> {}]
    /\ handler = "idle" /\ gErr = FALSE /\ result = "none"
    /\ record = [r \in Records |-> "off"]
    /\ board = [r \in Records |-> Malformed]
    /\ departures = [r \in Records |-> None]
    /\ source = [s \in Stations |-> NoSource]
    /\ newest = [s \in Stations |-> 0] /\ ordered = TRUE
    /\ events = 0 /\ faults = 0

-----------------------------------------------------------------------------
(* The clock; what SNS may deliver *)

Tick ==
    /\ now < End
    /\ now' = now + 1
    /\ UNCHANGED <<arrivals, database, outcome, record, board, departures, bounds>>

\* Whatever was published, or a message that is no board.
Message == {b \in Boards : b.generatedAt <= now} \cup {Malformed}

IsOf(m, s) == m # Malformed /\ m.station = s

\* The boards of an event arrive in the order they were generated in.
InOrder(m) ==
    \A s \in Stations : \A r \in DOMAIN m : IsOf(m[r], s) =>
        /\ newest[s] <= m[r].generatedAt
        /\ \A q \in DOMAIN m : IsOf(m[q], s) => q = r

-----------------------------------------------------------------------------
(* Handler *)

Deliver ==
    /\ handler = "idle"
    /\ events < MaxEvents
    /\ \E R \in SUBSET {r \in Records : record[r] \in {"off", "done"}} \ {{}} :
         \E m \in [R -> Message] :
            /\ record' = [r \in Records |-> IF r \in R THEN "transform"
                                            ELSE IF record[r] = "done" THEN "off" ELSE record[r]]
            /\ board' = [r \in Records |-> IF r \in R THEN m[r]
                                           ELSE IF record[r] = "done" THEN Malformed ELSE board[r]]
            /\ ordered' = (ordered /\ InOrder(m))
            /\ newest' = [s \in Stations |->
                 Max({newest[s]} \cup {m[r].generatedAt : r \in {q \in R : IsOf(m[q], s)}})]
    /\ handler' = "serving" /\ result' = "none"
    /\ events' = events + 1
    /\ UNCHANGED <<now, database, gErr, departures, faults>>

\* Variant: wg.Add is called by the goroutine itself.
CloseErrsEarly ==
    /\ handler = "serving"
    /\ \A r \in Records : record[r] \in {"off", "transform", "done"}
    /\ handler' = "closed"
    /\ UNCHANGED <<now, arrivals, database, gErr, result, record, board, departures, bounds>>

\* waitForProcessRecords: wg.Wait(); close(errs)
CloseErrs ==
    /\ handler = "serving"
    /\ \A r \in Records : record[r] \in {"off", "done"}
    /\ handler' = "closed"
    /\ UNCHANGED <<now, arrivals, database, gErr, result, record, board, departures, bounds>>

\* The loop over errs ends, and Handler returns.
Return ==
    /\ handler = "closed"
    /\ handler' = "idle"
    /\ result' = (IF gErr THEN "error" ELSE "ok") /\ gErr' = FALSE
    /\ UNCHANGED <<now, arrivals, database, record, board, departures, bounds>>

-----------------------------------------------------------------------------
(* processRecords *)

\* What Etd is: a reading or a text.
Status(v) == IF v.expected \in Nat THEN Reading(v.expected) ELSE v.expected

\* transformToInternalModel: a departure remembers its position on the board,
\* which is also its place in the list.
Transformed(b, at) ==
    { [position |-> k,
       aimed    |-> Converted(at, Reading(b.services[k].scheduled)),
       status   |-> Status(b.services[k])] : k \in DOMAIN b.services }

TransformToInternalModel(r) ==
    /\ record[r] = "transform" /\ board[r] # Malformed
    /\ record' = [record EXCEPT ![r] = "remove"]
    /\ departures' = [departures EXCEPT ![r] =
         [trains |-> Transformed(board[r], now), readAt |-> now, removedAt |-> now]]
    /\ UNCHANGED <<now, arrivals, database, outcome, board, bounds>>

\* No board, a board without a station of the table, or a service without one of
\* the values that the departure is made of.
Rejected(r) ==
    /\ record[r] = "transform" /\ board[r] = Malformed
    /\ record' = [record EXCEPT ![r] = "fail"]
    /\ UNCHANGED <<now, arrivals, database, outcome, board, departures, bounds>>

\* removeExpiredDepartures asks for the time once more.
RemoveExpiredDepartures(r) ==
    /\ record[r] = "remove"
    /\ record' = [record EXCEPT ![r] = "update"]
    /\ departures' = [departures EXCEPT ![r] =
         [trains |-> {d \in departures[r].trains : ~ TrainExpired(d, now)},
          readAt |-> departures[r].readAt, removedAt |-> now]]
    /\ UNCHANGED <<now, arrivals, database, outcome, board, bounds>>

\* The list of the station becomes what is given, and the departures are gone.
Store(r, trains) ==
    LET s == board[r].station
    IN  /\ departures' = [departures EXCEPT ![r] = None]
        /\ cache' = [cache EXCEPT ![s] = trains]
        /\ source' = [source EXCEPT ![s] =
             [board |-> board[r], readAt |-> departures[r].readAt,
              removedAt |-> departures[r].removedAt]]

\* Variant: the list is not deleted, and RPUSH appends to it.
UpdateWithoutDel(r) ==
    /\ record[r] = "update"
    /\ Store(r, cache[board[r].station] \cup departures[r].trains)
    /\ record' = [record EXCEPT ![r] = "done"]
    /\ UNCHANGED <<now, arrivals, outcome, board, bounds>>

\* updateCachedData: MULTI, DEL, RPUSH and EXEC, which Redis executes at once.
\* The branch on exitImmediately that follows is never taken: Handler closes
\* the channel when it returns, and it does not return before this goroutine
\* is done (GoroutinesFinished).
UpdateCachedData(r) ==
    /\ record[r] = "update"
    /\ Store(r, departures[r].trains)
    /\ record' = [record EXCEPT ![r] = "done"]
    /\ UNCHANGED <<now, arrivals, outcome, board, bounds>>

\* A call to Redis returns an error; that of EXEC possibly after Redis has
\* executed the transaction.
UpdateFails(r) ==
    /\ record[r] = "update"
    /\ faults < MaxFaults /\ faults' = faults + 1
    /\ \/ departures' = [departures EXCEPT ![r] = None] /\ UNCHANGED database
       \/ Store(r, departures[r].trains)
    /\ record' = [record EXCEPT ![r] = "fail"]
    /\ UNCHANGED <<now, arrivals, outcome, board, events>>

\* Variant: the goroutine does not call wg.Done when it has sent its error.
SendErrOnly(r) ==
    /\ record[r] = "fail" /\ handler = "serving"
    /\ gErr' = TRUE
    /\ record' = [record EXCEPT ![r] = "sent"]
    /\ UNCHANGED <<now, arrivals, database, handler, result, board, departures, bounds>>

\* Variant: the error is only logged.
SendErrDropped(r) ==
    /\ record[r] = "fail" /\ handler = "serving"
    /\ record' = [record EXCEPT ![r] = "done"]
    /\ UNCHANGED <<now, arrivals, database, outcome, board, departures, bounds>>

\* errs <- err, which Handler receives, and wg.Done().
SendErr(r) ==
    /\ record[r] = "fail" /\ handler = "serving"
    /\ gErr' = TRUE
    /\ record' = [record EXCEPT ![r] = "done"]
    /\ UNCHANGED <<now, arrivals, database, handler, result, board, departures, bounds>>

ProcessRecords(r) ==
    \/ TransformToInternalModel(r)
    \/ Rejected(r)
    \/ RemoveExpiredDepartures(r)
    \/ UpdateCachedData(r)
    \/ UpdateFails(r)
    \/ SendErr(r)

-----------------------------------------------------------------------------
(* The process *)

\* Lambda ends the process at any point; the event is delivered again or is not.
Kill ==
    /\ handler # "crashed"
    /\ faults < MaxFaults /\ faults' = faults + 1
    /\ handler' = "crashed" /\ gErr' = FALSE /\ result' = "none"
    /\ record' = [r \in Records |-> "off"]
    /\ board' = [r \in Records |-> Malformed]
    /\ departures' = [r \in Records |-> None]
    /\ UNCHANGED <<now, arrivals, database, events>>

Restart ==
    /\ handler = "crashed"
    /\ handler' = "idle"
    /\ UNCHANGED <<now, arrivals, database, gErr, result, record, board, departures, bounds>>

Process == CloseErrs \/ Return \/ \E r \in Records : ProcessRecords(r)

Next == Tick \/ Deliver \/ Process \/ Kill \/ Restart

Spec == Init /\ [][Next]_vars

\* The process goes on for as long as one of its goroutines can.
FairSpec == Spec /\ WF_vars(Process)

-----------------------------------------------------------------------------
(* Properties *)

\* "National rail provides departures up to two hours into the future."
Shown(t, at) == t - at <= Window /\ at - t <= Window

\* The instant that a train leaves at.
Leaves(v) == IF v.expected \in Nat THEN v.expected ELSE v.scheduled

\* What the lists were made of.
Sourced == {s \in Stations : source[s].board # Malformed}

\* ConvertDepartureTime: a stored departure is aimed at the instant that its
\* reading stood for, on whichever side of a midnight, local or UTC, its board was
\* processed, however late the board came, up to two hours after the departure.
StoredTimesExact ==
    \A s \in Sourced : \A d \in cache[s] :
        LET t == source[s].board.services[d.position].scheduled
        IN  Shown(t, source[s].readAt) => d.aimed = t

\* A list has the trains of one board, neither more, when boards are processed
\* at the same time, nor fewer: those but the ones that were known to have left
\* when expired departures were removed, their whole minute gone by.
ListIsBoard ==
    \A s \in Sourced : \A k \in DOMAIN source[s].board.services :
        LET v == source[s].board.services[k]
        IN  (/\ Shown(v.scheduled, source[s].readAt)
             /\ Shown(Leaves(v), source[s].removedAt))
              => ((\E d \in cache[s] : d.position = k)
                    <=> (v.expected = Delayed \/ source[s].removedAt < Leaves(v) + Minute))

\* When Handler has returned without an error, the list of the station of each of
\* the event's records is that of a board of the event.
SuccessMeansStored ==
    (handler = "idle" /\ result = "ok") =>
        \A r \in {q \in Records : record[q] = "done"} :
            /\ board[r] # Malformed
            /\ \E q \in Records : /\ record[q] = "done"
                                  /\ board[q].station = board[r].station
                                  /\ source[board[r].station].board = board[q]

\* No goroutine is left when errs is closed: one that were, would send on a closed
\* channel, or replace a list when another event is served.
GoroutinesFinished ==
    handler \in {"closed", "idle"} => \A r \in Records : record[r] \in {"off", "done"}

\* As long as boards arrive in the order they were generated in, one after another,
\* none replaces a newer one, whatever fails and is delivered again.
NeverOlder ==
    [][ordered' => \A s \in Sourced : source[s].board.generatedAt <= source'[s].board.generatedAt]_vars

\* Handler ends, or is killed.
HandlerReturns == handler = "serving" ~> handler \in {"idle", "crashed"}
=============================================================================
