-------------------------- MODULE RailIngesterProofs --------------------------
(***************************************************************************)
(* Proofs about Trains, for every length of the day, the window and the    *)
(* offset, and about RailIngester, for any number of stations, boards and  *)
(* records, any bounds, and the lengths of time that Trains allows.        *)
(***************************************************************************)
EXTENDS RailIngester, TLAPS

-----------------------------------------------------------------------------
(* The times of trains *)

\* A multiple of n that is less than another one is less by n at least.
LEMMA MultiplesApart ==
    ASSUME NEW n \in Nat, NEW p \in Int, NEW q \in Int, p < q
    PROVE  p * n + n <= q * n
<1>2. (q - p) * n >= 1 * n
  <2>1. q - p >= 1  OBVIOUS
  <2>. QED  BY <2>1, SMTT(30)
<1>3. (q - p) * n = q * n - p * n  BY SMTT(30)
<1>4. p * n \in Int /\ q * n \in Int  BY SMTT(30)
<1>. QED  BY <1>2, <1>3, <1>4

\* Midnight is the midnight before or after which the instant lies.
LEMMA MidnightBounds ==
    ASSUME NEW m \in Int
    PROVE  /\ Midnight(m) \in Int
           /\ Midnight(m) <= m - Offset
           /\ m - Offset < Midnight(m) + Day
<1>1. Day \in Nat \ {0} /\ Offset \in Nat  BY TrainsAssumption
<1>2. m - Offset \in Int  BY <1>1
<1>3. \A x \in Int : /\ (x \div Day) * Day \in Int
                     /\ (x \div Day) * Day <= x
                     /\ x < (x \div Day) * Day + Day
  BY <1>1, SMTT(60)
<1>. QED  BY <1>2, <1>3 DEF Midnight

\* ConvertDepartureTime: for a departure within the window around the present
\* time, the reading of the local clock is converted to the instant it stands
\* for, wherever the two lie around midnight and whatever the difference between
\* local time and UTC, on which the date depends.
THEOREM ConversionIsExact ==
    ASSUME NEW m \in Int, NEW t \in Int,
           t - m <= Window, m - t <= Window
    PROVE  Converted(m, Reading(t)) = t
<1>1. Day \in Nat \ {0} /\ Offset \in Nat /\ Offset <= Window /\ Window \in Nat /\ 2 * Window < Day
  BY TrainsAssumption
<1>. DEFINE q == (m - Offset) \div Day
            p == t \div Day
<1>2. q \in Int /\ p \in Int  BY <1>1, SMTT(60)
<1>3. Midnight(m) = q * Day  BY DEF Midnight
<1>4. /\ q * Day \in Int /\ q * Day <= m - Offset /\ m - Offset < q * Day + Day
  BY <1>3, MidnightBounds
<1>5. /\ Reading(t) = t - p * Day /\ p * Day \in Int
      /\ 0 <= Reading(t) /\ Reading(t) < Day
  BY <1>1, SMTT(60) DEF Reading
<1>. HIDE DEF q, p
<1>6. CASE p = q
  BY <1>1, <1>3, <1>4, <1>5, <1>6 DEF Converted
<1>7. CASE p < q
  <2>1. p * Day + Day <= q * Day  BY <1>1, <1>2, <1>7, MultiplesApart
  <2>2. q * Day - p * Day - Day <= 0
    <3>1. SUFFICES ASSUME p < q - 1 PROVE FALSE
      <4>1. CASE p = q - 1
        <5>1. (q - 1) * Day = q * Day - Day  BY <1>1, <1>2, SMTT(30)
        <5>. QED  BY <4>1, <5>1, <1>1, <1>4, <1>5
      <4>. QED  BY <1>2, <1>7, <4>1
    <3>2. p + 1 \in Int /\ p + 1 < q  BY <1>2, <3>1
    <3>3. (p + 1) * Day + Day <= q * Day  BY <1>1, <1>2, <3>2, MultiplesApart
    <3>4. (p + 1) * Day = p * Day + Day  BY <1>1, <1>2, SMTT(30)
    <3>. QED  BY <1>1, <1>4, <1>5, <3>3, <3>4
  <2>3. q * Day = p * Day + Day  BY <1>1, <1>4, <1>5, <2>1, <2>2
  <2>. QED  BY <1>1, <1>3, <1>4, <1>5, <2>3 DEF Converted
<1>8. CASE q < p
  <2>1. q * Day + Day <= p * Day  BY <1>1, <1>2, <1>8, MultiplesApart
  <2>2. p = q + 1
    <3>1. SUFFICES ASSUME q + 1 < p PROVE FALSE  BY <1>2, <1>8
    <3>2. q + 1 \in Int  BY <1>2
    <3>3. (q + 1) * Day + Day <= p * Day  BY <1>1, <1>2, <3>1, <3>2, MultiplesApart
    <3>4. (q + 1) * Day = q * Day + Day  BY <1>1, <1>2, SMTT(30)
    <3>. QED  BY <1>1, <1>4, <1>5, <3>3, <3>4
  <2>3. p * Day = q * Day + Day  BY <1>1, <1>2, <2>2, SMTT(30)
  <2>. QED  BY <1>1, <1>3, <1>4, <1>5, <2>3 DEF Converted
<1>. QED  BY <1>2, <1>6, <1>7, <1>8

\* The comparison to the minute is a comparison with the end of the minute.
LEMMA TruncatedBefore ==
    ASSUME NEW t \in Nat, NEW m \in Nat, t % Minute = 0
    PROVE  (t < (m \div Minute) * Minute) <=> (t + Minute <= m)
<1>1. Minute \in Nat \ {0}  BY TrainsAssumption
<1>. DEFINE p == t \div Minute
            q == m \div Minute
<1>2. p \in Int /\ q \in Int  BY <1>1, SMTT(60)
<1>3. t = p * Minute  BY <1>1, SMTT(60)
<1>4. q * Minute \in Int /\ q * Minute <= m /\ m < q * Minute + Minute  BY <1>1, SMTT(60)
<1>. HIDE DEF p, q
<1>5. CASE p < q
  <2>1. p * Minute + Minute <= q * Minute  BY <1>1, <1>2, <1>5, MultiplesApart
  <2>. QED  BY <1>1, <1>3, <1>4, <2>1 DEF q
<1>6. CASE q = p
  BY <1>1, <1>3, <1>4, <1>6 DEF q
<1>7. CASE q < p
  <2>1. q * Minute + Minute <= p * Minute  BY <1>1, <1>2, <1>7, MultiplesApart
  <2>. QED  BY <1>1, <1>3, <1>4, <2>1 DEF q
<1>. QED  BY <1>2, <1>5, <1>6, <1>7

-----------------------------------------------------------------------------
(* The boards and the lists of stations *)

USE RailAssumption

(* The inductive invariant *)

\* A departure made of a board.
Departure == [ position : Nat, aimed : Int, status : Nat \cup {Delayed, OnTime} ]

\* What is left of a board when it was read and purged at two instants.
Purged(b, readAt, removedAt) ==
    {d \in Transformed(b, readAt) : ~ TrainExpired(d, removedAt)}

Active(r) == record[r] \notin {"off", "done"}

TypeInv ==
    /\ now \in Nat
    /\ handler \in {"idle", "serving", "closed", "crashed"}
    /\ gErr \in BOOLEAN /\ result \in {"none", "ok", "error"}
    /\ record \in [Records -> {"off", "transform", "remove", "update", "fail", "done"}]
    /\ board \in [Records -> Boards \cup {Malformed}]
    /\ departures = [r \in Records |-> departures[r]]
    /\ cache = [s \in Stations |-> cache[s]]
    /\ source = [s \in Stations |-> source[s]]

\* What a goroutine holds, and what a list is.
ListsInv ==
    /\ \A r \in Records :
         /\ record[r] = "remove" =>
              /\ board[r] \in Boards /\ departures[r].readAt \in Nat
              /\ departures[r].trains = Transformed(board[r], departures[r].readAt)
         /\ record[r] = "update" =>
              /\ board[r] \in Boards
              /\ departures[r].readAt \in Nat /\ departures[r].removedAt \in Nat
              /\ departures[r].trains
                   = Purged(board[r], departures[r].readAt, departures[r].removedAt)
    /\ \A s \in Stations :
         source[s].board # Malformed =>
            /\ source[s].board \in Boards
            /\ source[s].readAt \in Nat /\ source[s].removedAt \in Nat
            /\ cache[s] = Purged(source[s].board, source[s].readAt, source[s].removedAt)

\* Records are processed only while Handler receives, and it has not returned then.
ControlInv ==
    /\ handler # "serving" => \A r \in Records : ~ Active(r)
    /\ handler \in {"serving", "closed"} => result = "none"
    /\ handler \in {"idle", "crashed"} => ~ gErr

\* The list of r's station is that of a board of the event.
Stored(r) ==
    /\ board[r] # Malformed
    /\ \E q \in Records : /\ record[q] = "done"
                          /\ board[q].station = board[r].station
                          /\ source[board[r].station].board = board[q]

\* A record that is done was stored, or else an error was or will be received.
SuccessInv ==
    \A r \in Records : record[r] = "done" =>
        \/ gErr \/ result = "error"
        \/ \E q \in Records : record[q] = "fail"
        \/ Stored(r)

\* While boards arrive in order, the one in process is the newest of its station.
OrderInv ==
    ordered =>
        /\ newest \in [Stations -> Nat]
        /\ \A s \in Stations : source[s].board # Malformed =>
             source[s].board.generatedAt <= newest[s]
        /\ \A r \in Records : Active(r) /\ board[r] # Malformed =>
             board[r].generatedAt = newest[board[r].station]

-----------------------------------------------------------------------------
(* Boards and their trains *)

\* The instants on a board are full minutes.
LEMMA ServiceTypes ==
    ASSUME NEW b \in Boards, NEW k \in DOMAIN b.services
    PROVE  /\ b.station \in Stations /\ b.generatedAt \in Nat
           /\ k \in Nat
           /\ b.services[k].scheduled \in Nat /\ b.services[k].scheduled % Minute = 0
           /\ b.services[k].expected \in Nat => b.services[k].expected % Minute = 0
           /\ b.services[k].expected \in Nat \cup {Delayed, OnTime}
<1>1. b \in Board
  OBVIOUS
<1>2. b.services \in Seq(Service)
  BY <1>1 DEF Board
<1>3. k \in Nat /\ b.services[k] \in Service
  BY <1>2
<1>4. \A v \in Service : /\ v.scheduled \in Nat /\ v.scheduled % Minute = 0
                         /\ v.expected \in Nat => v.expected % Minute = 0
                         /\ v.expected \in Nat \cup {Delayed, OnTime}
  BY TrainsAssumption DEF Service
<1> QED
  BY <1>1, <1>3, <1>4 DEF Board

LEMMA ReadingIsNat ==
    ASSUME NEW t \in Nat
    PROVE  Reading(t) \in Nat
BY TrainsAssumption, SMTT(30) DEF Reading

\* The departures of a board, one for each position.
LEMMA TransformedMembers ==
    ASSUME NEW b, NEW at, NEW d \in Transformed(b, at)
    PROVE  /\ d.position \in DOMAIN b.services
           /\ d.aimed = Converted(at, Reading(b.services[d.position].scheduled))
           /\ d.status = Status(b.services[d.position])
BY DEF Transformed

\* A train within the window is expired when, and only when, it is not delayed
\* and the minute that it leaves in has gone by.
LEMMA ExpiresOnTime ==
    ASSUME NEW b \in Boards, NEW readAt \in Nat, NEW removedAt \in Nat,
           NEW d \in Transformed(b, readAt),
           Shown(b.services[d.position].scheduled, readAt),
           Shown(Leaves(b.services[d.position]), removedAt)
    PROVE  TrainExpired(d, removedAt)
             <=> /\ b.services[d.position].expected # Delayed
                 /\ Leaves(b.services[d.position]) + Minute <= removedAt
<1> DEFINE v == b.services[d.position]
<1>1. /\ d.position \in DOMAIN b.services
      /\ d.aimed = Converted(readAt, Reading(v.scheduled))
      /\ d.status = Status(v)
  BY TransformedMembers
<1>2. /\ v.scheduled \in Nat /\ v.scheduled % Minute = 0
      /\ v.expected \in Nat => v.expected % Minute = 0
      /\ v.expected \in Nat \cup {Delayed, OnTime}
  BY <1>1, ServiceTypes
<1> HIDE DEF v
<1>3. CASE v.expected \in Nat
  <2>1. Shown(v.expected, removedAt) /\ Leaves(v) = v.expected
    BY <1>3 DEF v, Leaves
  <2>2. d.status = Reading(v.expected) /\ d.status \in Nat
    BY <1>1, <1>3, ReadingIsNat DEF Status
  <2>3. d.status # Delayed /\ v.expected # Delayed
    BY <1>3, <2>2, TrainsAssumption
  <2>4. Converted(removedAt, d.status) = v.expected
    BY <1>3, <2>1, <2>2, ConversionIsExact DEF Shown
  <2>5. TrainExpired(d, removedAt) <=> v.expected < (removedAt \div Minute) * Minute
    BY <2>2, <2>3, <2>4 DEF TrainExpired
  <2> QED
    BY <1>2, <1>3, <2>1, <2>3, <2>5, TruncatedBefore DEF v
<1>4. CASE v.expected = OnTime
  <2>1. Leaves(v) = v.scheduled /\ v.expected # Delayed
    BY <1>4 DEF Leaves
  <2>2. d.status = OnTime /\ d.status \notin Nat /\ d.status # Delayed
    BY <1>1, <1>4 DEF Status
  <2>3. d.aimed = v.scheduled
    BY <1>1, <1>2, ConversionIsExact DEF Shown, v
  <2>4. TrainExpired(d, removedAt) <=> v.scheduled < (removedAt \div Minute) * Minute
    BY <2>2, <2>3 DEF TrainExpired
  <2> QED
    BY <1>2, <2>1, <2>4, TruncatedBefore DEF v
<1>5. CASE v.expected = Delayed
  <2>1. d.status = Delayed
    BY <1>1, <1>5, TrainsAssumption DEF Status
  <2> QED
    BY <1>5, <2>1 DEF TrainExpired, v
<1> QED
  BY <1>2, <1>3, <1>4, <1>5

-----------------------------------------------------------------------------
(* Every step preserves the invariant *)

\* The types, for each action.
LEMMA TypeStep ==
    ASSUME TypeInv, [Next]_vars
    PROVE  TypeInv'
<1> USE DEF TypeInv
<1>1. CASE Tick
  BY <1>1 DEF Tick, arrivals, database, outcome, bounds
<1>2. CASE Deliver
  <2>1. PICK R \in SUBSET Records : \E m \in [R -> Message] :
           /\ record' = [r \in Records |-> IF r \in R THEN "transform"
                                           ELSE IF record[r] = "done" THEN "off" ELSE record[r]]
           /\ board' = [r \in Records |-> IF r \in R THEN m[r]
                                          ELSE IF record[r] = "done" THEN Malformed ELSE board[r]]
    BY <1>2 DEF Deliver
  <2>2. board' \in [Records -> Boards \cup {Malformed}]
    BY <2>1 DEF Message
  <2>3. record' \in [Records -> {"off", "transform", "remove", "update", "fail", "done"}]
    BY <2>1
  <2> QED
    BY <1>2, <2>2, <2>3 DEF Deliver, database
<1>3. CASE CloseErrs \/ Return
  BY <1>3 DEF CloseErrs, Return, arrivals, database, bounds
<1>4. ASSUME NEW r \in Records, TransformToInternalModel(r)
      PROVE  TypeInv'
  BY <1>4 DEF TransformToInternalModel, arrivals, database, outcome, bounds
<1>5. ASSUME NEW r \in Records, Rejected(r) \/ SendErr(r)
      PROVE  TypeInv'
  BY <1>5 DEF Rejected, SendErr, arrivals, database, outcome, bounds
<1>6. ASSUME NEW r \in Records, RemoveExpiredDepartures(r)
      PROVE  TypeInv'
  BY <1>6 DEF RemoveExpiredDepartures, arrivals, database, outcome, bounds
<1>7. ASSUME NEW r \in Records, UpdateCachedData(r)
      PROVE  TypeInv'
  BY <1>7 DEF UpdateCachedData, Store, arrivals, outcome, bounds
<1>8. ASSUME NEW r \in Records, UpdateFails(r)
      PROVE  TypeInv'
  BY <1>8 DEF UpdateFails, Store, arrivals, database, outcome
<1>9. CASE Kill
  BY <1>9 DEF Kill, arrivals, database
<1>10. CASE Restart
  BY <1>10 DEF Restart, arrivals, database, bounds
<1>11. CASE UNCHANGED vars
  BY <1>11 DEF vars, arrivals, database, outcome, bounds
<1> QED
  BY <1>1, <1>2, <1>3, <1>4, <1>5, <1>6, <1>7, <1>8, <1>9, <1>10, <1>11
  DEF Next, Process, ProcessRecords

\* Lists are replaced whole, by what is left of one board.
LEMMA ListsStep ==
    ASSUME TypeInv, ListsInv, [Next]_vars
    PROVE  ListsInv'
<1> USE DEF ListsInv
<1>1. CASE Tick
  BY <1>1 DEF Tick, database, Purged
<1>2. CASE Deliver
  <2>1. /\ UNCHANGED <<departures, cache, source>>
        /\ \A r \in Records :
             record'[r] \in {"remove", "update"} =>
               record'[r] = record[r] /\ board'[r] = board[r]
    BY <1>2 DEF Deliver, database, TypeInv
  <2> QED
    BY <2>1 DEF TypeInv, Purged
<1>3. CASE CloseErrs \/ Return \/ Restart
  BY <1>3 DEF CloseErrs, Return, Restart, database, Purged
<1>4. ASSUME NEW r \in Records, TransformToInternalModel(r)
      PROVE  ListsInv'
  <2>1. /\ UNCHANGED <<board, cache, source>>
        /\ \A q \in Records : record'[q] = IF q = r THEN "remove" ELSE record[q]
        /\ \A q \in Records \ {r} : departures'[q] = departures[q]
        /\ departures'[r].trains = Transformed(board[r], now) /\ departures'[r].readAt = now
        /\ board[r] \in Boards
    BY <1>4 DEF TransformToInternalModel, database, TypeInv
  <2> QED
    BY <2>1 DEF TypeInv, Purged
<1>5. ASSUME NEW r \in Records, Rejected(r) \/ SendErr(r)
      PROVE  ListsInv'
  <2>1. /\ UNCHANGED <<board, departures, cache, source>>
        /\ \A q \in Records : record'[q] \in {"remove", "update"} => record'[q] = record[q]
    BY <1>5 DEF Rejected, SendErr, database, TypeInv
  <2> QED
    BY <2>1 DEF Purged
<1>6. ASSUME NEW r \in Records, RemoveExpiredDepartures(r)
      PROVE  ListsInv'
  <2>1. /\ UNCHANGED <<board, cache, source>>
        /\ \A q \in Records : record'[q] = IF q = r THEN "update" ELSE record[q]
        /\ \A q \in Records \ {r} : departures'[q] = departures[q]
        /\ departures'[r].trains = {d \in departures[r].trains : ~ TrainExpired(d, now)}
        /\ departures'[r].readAt = departures[r].readAt /\ departures'[r].removedAt = now
        /\ record[r] = "remove"
    BY <1>6 DEF RemoveExpiredDepartures, database, TypeInv
  <2> QED
    BY <2>1 DEF TypeInv, Purged
<1>7. ASSUME NEW r \in Records, Store(r, departures[r].trains), record[r] = "update",
             UNCHANGED board,
             \A q \in Records : record'[q] = IF q = r THEN record'[r] ELSE record[q],
             record'[r] \in {"done", "fail"}
      PROVE  ListsInv'
  <2>1. board[r] \in Boards /\ board[r].station \in Stations
    BY <1>7 DEF Board
  <2>2. /\ \A s \in Stations \ {board[r].station} :
             cache'[s] = cache[s] /\ source'[s] = source[s]
        /\ cache'[board[r].station] = departures[r].trains
        /\ source'[board[r].station] =
             [board |-> board[r], readAt |-> departures[r].readAt,
              removedAt |-> departures[r].removedAt]
        /\ \A q \in Records \ {r} : departures'[q] = departures[q]
    BY <1>7, <2>1 DEF Store, TypeInv
  <2> QED
    BY <1>7, <2>1, <2>2 DEF Purged
<1>8. ASSUME NEW r \in Records, UpdateCachedData(r)
      PROVE  ListsInv'
  <2>1. /\ Store(r, departures[r].trains) /\ record[r] = "update" /\ UNCHANGED board
        /\ \A q \in Records : record'[q] = IF q = r THEN "done" ELSE record[q]
    BY <1>8 DEF UpdateCachedData, TypeInv
  <2> QED
    BY <1>7, <2>1
<1>9. ASSUME NEW r \in Records, UpdateFails(r)
      PROVE  ListsInv'
  <2>1. /\ record[r] = "update" /\ UNCHANGED board
        /\ \A q \in Records : record'[q] = IF q = r THEN "fail" ELSE record[q]
        /\ \/ departures' = [departures EXCEPT ![r] = None] /\ UNCHANGED database
           \/ Store(r, departures[r].trains)
    BY <1>9 DEF UpdateFails, TypeInv
  <2>2. CASE departures' = [departures EXCEPT ![r] = None] /\ UNCHANGED database
    <3>1. /\ \A q \in Records \ {r} : departures'[q] = departures[q]
          /\ UNCHANGED <<cache, source>>
      BY <2>2 DEF database, TypeInv
    <3> QED
      BY <2>1, <3>1 DEF Purged
  <2> QED
    BY <1>7, <2>1, <2>2
<1>10. CASE Kill
  <2>1. /\ UNCHANGED <<cache, source>>
        /\ \A r \in Records : record'[r] = "off"
    BY <1>10 DEF Kill, database
  <2> QED
    BY <2>1 DEF Purged
<1>11. CASE UNCHANGED vars
  BY <1>11 DEF vars, database, Purged
<1> QED
  BY <1>1, <1>2, <1>3, <1>4, <1>5, <1>6, <1>8, <1>9, <1>10, <1>11
  DEF Next, Process, ProcessRecords

\* Handler waits for the goroutines, and a process that ends has none.
LEMMA ControlStep ==
    ASSUME TypeInv, ControlInv, [Next]_vars
    PROVE  ControlInv'
<1> USE DEF ControlInv, Active
<1>1. CASE Tick
  BY <1>1 DEF Tick, outcome
<1>2. CASE Deliver
  BY <1>2 DEF Deliver
<1>3. CASE CloseErrs \/ Return \/ Restart
  BY <1>3 DEF CloseErrs, Return, Restart
<1>4. ASSUME NEW r \in Records, ProcessRecords(r)
      PROVE  ControlInv'
  <2>1. /\ Active(r) /\ UNCHANGED <<handler, result>>
    BY <1>4 DEF ProcessRecords, TransformToInternalModel, Rejected, RemoveExpiredDepartures,
                UpdateCachedData, UpdateFails, SendErr, outcome
  <2> QED
    BY <2>1, <1>4 DEF TypeInv
<1>5. CASE Kill
  BY <1>5 DEF Kill
<1>6. CASE UNCHANGED vars
  BY <1>6 DEF vars, outcome
<1> QED
  BY <1>1, <1>2, <1>3, <1>4, <1>5, <1>6 DEF Next, Process

\* What is stored is seen by the records that were done before.
LEMMA SuccessStep ==
    ASSUME TypeInv, ListsInv, ControlInv, SuccessInv, [Next]_vars
    PROVE  SuccessInv'
<1> USE DEF SuccessInv
<1>1. CASE Tick \/ UNCHANGED vars
  BY <1>1 DEF Tick, vars, database, outcome, Stored
<1>2. CASE Deliver
  <2>1. \A r \in Records : record'[r] # "done"
    BY <1>2 DEF Deliver, TypeInv
  <2> QED
    BY <2>1
<1>3. CASE CloseErrs \/ Restart
  BY <1>3 DEF CloseErrs, Restart, database, Stored
<1>4. CASE Return
  <2>1. /\ UNCHANGED <<record, board, source>>
        /\ result' = IF gErr THEN "error" ELSE "ok"
    BY <1>4 DEF Return, database
  <2>2. result # "error"
    BY <1>4 DEF Return, ControlInv
  <2> QED
    BY <2>1, <2>2 DEF Stored
<1>5. ASSUME NEW r \in Records,
             TransformToInternalModel(r) \/ Rejected(r) \/ RemoveExpiredDepartures(r)
      PROVE  SuccessInv'
  <2>1. /\ UNCHANGED <<board, source, gErr, result>>
        /\ record[r] \notin {"done", "fail"} /\ record'[r] # "done"
        /\ \A q \in Records \ {r} : record'[q] = record[q]
    BY <1>5 DEF TransformToInternalModel, Rejected, RemoveExpiredDepartures, database, outcome,
                TypeInv
  <2> QED
    BY <2>1 DEF Stored
<1>6. ASSUME NEW r \in Records, SendErr(r)
      PROVE  SuccessInv'
  BY <1>6 DEF SendErr
<1>7. ASSUME NEW r \in Records, UpdateCachedData(r)
      PROVE  SuccessInv'
  <2>1. /\ UNCHANGED <<board, gErr, result>>
        /\ record[r] = "update" /\ board[r] \in Boards
        /\ \A q \in Records : record'[q] = IF q = r THEN "done" ELSE record[q]
        /\ source' = [source EXCEPT ![board[r].station] =
             [board |-> board[r], readAt |-> departures[r].readAt,
              removedAt |-> departures[r].removedAt]]
    BY <1>7 DEF UpdateCachedData, Store, outcome, TypeInv, ListsInv
  <2>2. board[r].station \in Stations /\ source'[board[r].station].board = board[r]
    BY <2>1 DEF Board, TypeInv
  <2>3. ASSUME NEW q \in Records, record'[q] = "done", ~ gErr, result # "error",
               \A p \in Records : record[p] # "fail"
        PROVE  Stored(q)'
    <3>1. CASE q = r
      BY <2>1, <2>2, <3>1 DEF Stored
    <3>2. CASE q # r
      <4>1. Stored(q)
        BY <2>1, <2>3, <3>2
      <4>2. CASE board[q].station = board[r].station
        BY <2>1, <2>2, <4>1, <4>2 DEF Stored
      <4>3. CASE board[q].station # board[r].station
        <5>1. board[q] \in Boards /\ board[q].station \in Stations
          BY <4>1 DEF Stored, TypeInv, Board
        <5>2. source'[board[q].station] = source[board[q].station]
          BY <2>1, <4>3, <5>1 DEF TypeInv
        <5> QED
          BY <2>1, <4>1, <5>2 DEF Stored
      <4> QED
        BY <4>2, <4>3
    <3> QED
      BY <3>1, <3>2
  <2>4. \A p \in Records : record[p] = "fail" => record'[p] = "fail"
    BY <2>1
  <2> QED
    BY <2>1, <2>3, <2>4
<1>8. ASSUME NEW r \in Records, UpdateFails(r)
      PROVE  SuccessInv'
  BY <1>8 DEF UpdateFails, TypeInv
<1>9. CASE Kill
  BY <1>9 DEF Kill
<1> QED
  BY <1>1, <1>2, <1>3, <1>4, <1>5, <1>6, <1>7, <1>8, <1>9 DEF Next, Process, ProcessRecords

\* Of the numbers that Max is of, one is the largest.
LEMMA MaxOfTwo ==
    ASSUME NEW m \in Nat, NEW n \in Nat, m <= n
    PROVE  Max({m} \cup {n}) = n /\ Max({m}) = m
<1>1. \A S \in {{m} \cup {n}, {m}} : \A x \in S : (\A y \in S : x >= y) => Max(S) = x
  BY DEF Max
<1> QED
  BY <1>1

\* A board is stored while it is the newest that was delivered for its station.
LEMMA OrderStep ==
    ASSUME TypeInv, ListsInv, ControlInv, OrderInv, [Next]_vars
    PROVE  /\ OrderInv'
           /\ ordered' => \A s \in Sourced :
                source[s].board.generatedAt <= source'[s].board.generatedAt
<1> DEFINE Goal == /\ OrderInv'
                   /\ ordered' => \A s \in Sourced :
                        source[s].board.generatedAt <= source'[s].board.generatedAt
<1>0. /\ \A s \in Sourced : source[s].board.generatedAt \in Nat
      /\ \A b \in Boards : b.generatedAt \in Nat /\ b.station \in Stations
  BY DEF Sourced, ListsInv, Board
<1>1. ASSUME UNCHANGED <<newest, ordered, source, board>>,
             \A r \in Records : (Active(r))' => Active(r)
      PROVE  Goal
  BY <1>0, <1>1 DEF OrderInv, Active, Sourced
<1>2. CASE Tick \/ CloseErrs \/ Return \/ Restart \/ UNCHANGED vars
  <2>1. UNCHANGED <<newest, ordered, source, board, record>>
    BY <1>2 DEF Tick, CloseErrs, Return, Restart, vars, arrivals, database
  <2> QED
    BY <1>1, <2>1 DEF Active
<1>3. ASSUME NEW r \in Records,
             TransformToInternalModel(r) \/ Rejected(r) \/ RemoveExpiredDepartures(r) \/ SendErr(r)
      PROVE  Goal
  <2>1. /\ UNCHANGED <<newest, ordered, source, board>>
        /\ Active(r) /\ \A q \in Records \ {r} : record'[q] = record[q]
    BY <1>3 DEF TransformToInternalModel, Rejected, RemoveExpiredDepartures, SendErr, arrivals,
                database, TypeInv, Active
  <2> QED
    BY <1>1, <2>1 DEF Active
<1>4. ASSUME NEW r \in Records, UpdateCachedData(r) \/ UpdateFails(r)
      PROVE  Goal
  <2>1. /\ UNCHANGED <<newest, ordered, board>>
        /\ record[r] = "update" /\ Active(r)
        /\ \A q \in Records \ {r} : record'[q] = record[q]
        /\ board[r] \in Boards
    BY <1>4 DEF UpdateCachedData, UpdateFails, arrivals, ListsInv, TypeInv, Active
  <2>2. CASE UNCHANGED source
    BY <1>1, <2>1, <2>2 DEF Active
  <2>3. CASE Store(r, departures[r].trains)
    <3>1. /\ \A s \in Stations \ {board[r].station} : source'[s] = source[s]
          /\ source'[board[r].station].board = board[r]
      BY <1>0, <2>1, <2>3 DEF Store, TypeInv
    <3>2. ordered => board[r].generatedAt = newest[board[r].station]
      BY <1>0, <2>1 DEF OrderInv
    <3> QED
      BY <1>0, <2>1, <3>1, <3>2 DEF OrderInv, Active, Sourced
  <2> QED
    BY <1>4, <2>2, <2>3 DEF UpdateCachedData, UpdateFails, database
<1>5. CASE Deliver
  <2>1. UNCHANGED source /\ handler = "idle"
    BY <1>5 DEF Deliver, database
  <2>2. SUFFICES ASSUME ordered' PROVE OrderInv'
    BY <1>0, <2>1, <2>2 DEF OrderInv, Sourced
  <2>3. PICK R \in SUBSET {r \in Records : record[r] \in {"off", "done"}} \ {{}} : \E m \in [R -> Message] :
           /\ record' = [r \in Records |-> IF r \in R THEN "transform"
                                           ELSE IF record[r] = "done" THEN "off" ELSE record[r]]
           /\ board' = [r \in Records |-> IF r \in R THEN m[r]
                                          ELSE IF record[r] = "done" THEN Malformed ELSE board[r]]
           /\ ordered' = (ordered /\ InOrder(m))
           /\ newest' = [s \in Stations |->
                Max({newest[s]} \cup {m[r].generatedAt : r \in {q \in R : IsOf(m[q], s)}})]
    BY <1>5, Zenon DEF Deliver
  <2>4. PICK m \in [R -> Message] :
           /\ record' = [r \in Records |-> IF r \in R THEN "transform"
                                           ELSE IF record[r] = "done" THEN "off" ELSE record[r]]
           /\ board' = [r \in Records |-> IF r \in R THEN m[r]
                                          ELSE IF record[r] = "done" THEN Malformed ELSE board[r]]
           /\ ordered' = (ordered /\ InOrder(m))
           /\ newest' = [s \in Stations |->
                Max({newest[s]} \cup {m[r].generatedAt : r \in {q \in R : IsOf(m[q], s)}})]
    BY <2>3
  <2>5. ordered /\ InOrder(m) /\ newest \in [Stations -> Nat]
    BY <2>2, <2>4 DEF OrderInv
  <2>6. ASSUME NEW s \in Stations
        PROVE  /\ newest[s] <= newest'[s] /\ newest'[s] \in Nat
               /\ \A r \in R : IsOf(m[r], s) => m[r].generatedAt = newest'[s]
    <3> DEFINE times == {m[r].generatedAt : r \in {q \in R : IsOf(m[q], s)}}
    <3>1. newest'[s] = Max({newest[s]} \cup times) /\ newest[s] \in Nat
      BY <2>4, <2>5
    <3>2. CASE \E r \in R : IsOf(m[r], s)
      <4>1. PICK r \in R : IsOf(m[r], s)
        BY <3>2
      <4>2. m[r] \in Boards /\ m[r].generatedAt \in Nat
        BY <1>0, <4>1 DEF IsOf, Message
      <4>3. /\ newest[s] <= m[r].generatedAt
            /\ \A q \in R : IsOf(m[q], s) => q = r
        BY <2>5, <4>1 DEF InOrder
      <4>4. times = {m[r].generatedAt}
        BY <4>1, <4>3
      <4>5. newest'[s] = m[r].generatedAt
        <5> HIDE DEF times
        <5>1. Max({newest[s]} \cup {m[r].generatedAt}) = m[r].generatedAt
          BY <3>1, <4>2, <4>3, MaxOfTwo
        <5> QED
          BY <3>1, <4>4, <5>1
      <4> QED
        BY <4>2, <4>3, <4>5
    <3>3. CASE ~ \E r \in R : IsOf(m[r], s)
      <4>1. {newest[s]} \cup times = {newest[s]}
        BY <3>3
      <4>2. newest'[s] = newest[s]
        <5> HIDE DEF times
        <5>1. Max({newest[s]}) = newest[s]
          BY <3>1, MaxOfTwo
        <5> QED
          BY <3>1, <4>1, <5>1
      <4> QED
        BY <2>5, <3>3, <4>2
    <3> QED
      BY <3>2, <3>3
  <2>7. newest' \in [Stations -> Nat]
    BY <2>4, <2>6
  <2>8. \A s \in Stations : source'[s].board # Malformed =>
          source'[s].board.generatedAt <= newest'[s]
    <3>1. \A s \in Stations : source[s].board # Malformed =>
            source[s].board.generatedAt <= newest[s] /\ source[s].board.generatedAt \in Nat
      BY <1>0, <2>5 DEF OrderInv, Sourced
    <3> QED
      BY <2>1, <2>5, <2>6, <2>7, <3>1
  <2>9. ASSUME NEW r \in Records, (Active(r))', board'[r] # Malformed
        PROVE  board'[r].generatedAt = newest'[board'[r].station]
    <3>1. r \in R
      BY <2>1, <2>4, <2>9 DEF Active, ControlInv, TypeInv
    <3>2. board'[r] = m[r] /\ m[r] \in Boards
      BY <2>4, <2>9, <3>1 DEF Message
    <3> QED
      BY <1>0, <2>6, <3>1, <3>2, <2>9 DEF IsOf
  <2> QED
    BY <2>7, <2>8, <2>9 DEF OrderInv
<1>6. CASE Kill
  <2>1. UNCHANGED <<newest, ordered, source>> /\ \A r \in Records : ~ (Active(r))'
    BY <1>6 DEF Kill, arrivals, database, Active
  <2> QED
    BY <1>0, <2>1 DEF OrderInv, Sourced
<1> QED
  BY <1>2, <1>3, <1>4, <1>5, <1>6 DEF Next, Process, ProcessRecords

-----------------------------------------------------------------------------
(* The theorems *)

IInv == TypeInv /\ ListsInv /\ ControlInv /\ SuccessInv /\ OrderInv

LEMMA Invariant == Spec => []IInv
<1>1. Init => IInv
  <2> SUFFICES ASSUME Init PROVE IInv
    OBVIOUS
  <2> USE DEF Init
  <2>1. TypeInv
    BY DEF TypeInv
  <2>2. ListsInv /\ ControlInv /\ SuccessInv
    BY DEF ListsInv, ControlInv, Active, SuccessInv, NoSource
  <2>3. OrderInv
    BY DEF OrderInv, Active, NoSource
  <2> QED
    BY <2>1, <2>2, <2>3 DEF IInv
<1>2. IInv /\ [Next]_vars => IInv'
  BY TypeStep, ListsStep, ControlStep, SuccessStep, OrderStep DEF IInv
<1> QED
  BY <1>1, <1>2, PTL DEF Spec

\* ConvertDepartureTime, seen from the departures database: whatever boards are
\* processed at the same time, late or twice, what is stored within two hours of a
\* departure has the instant that the reading on the board stood for.
THEOREM TimesAlwaysExact == Spec => []StoredTimesExact
<1>1. ListsInv => StoredTimesExact
  <2> SUFFICES ASSUME ListsInv, NEW s \in Sourced, NEW d \in cache[s],
                      Shown(source[s].board.services[d.position].scheduled, source[s].readAt)
               PROVE  d.aimed = source[s].board.services[d.position].scheduled
    BY DEF StoredTimesExact
  <2>1. /\ source[s].board \in Boards /\ source[s].readAt \in Nat
        /\ d \in Transformed(source[s].board, source[s].readAt)
    BY DEF ListsInv, Sourced, Purged
  <2>2. /\ d.position \in DOMAIN source[s].board.services
        /\ d.aimed = Converted(source[s].readAt,
                               Reading(source[s].board.services[d.position].scheduled))
    BY <2>1, TransformedMembers
  <2>3. source[s].board.services[d.position].scheduled \in Nat
    BY <2>1, <2>2, ServiceTypes
  <2> QED
    BY <2>1, <2>2, <2>3, ConversionIsExact DEF Shown
<1> QED
  BY <1>1, Invariant, PTL DEF IInv

\* A list is what is left of one board, without the trains that have left and with
\* all others, however many records write it at the same time.
THEOREM ListAlwaysBoard == Spec => []ListIsBoard
<1>1. ListsInv => ListIsBoard
  <2> SUFFICES ASSUME ListsInv, NEW s \in Sourced, NEW k \in DOMAIN source[s].board.services,
                      Shown(source[s].board.services[k].scheduled, source[s].readAt),
                      Shown(Leaves(source[s].board.services[k]), source[s].removedAt)
               PROVE  (\E d \in cache[s] : d.position = k)
                        <=> \/ source[s].board.services[k].expected = Delayed
                            \/ source[s].removedAt
                                 < Leaves(source[s].board.services[k]) + Minute
    BY DEF ListIsBoard
  <2> DEFINE v == source[s].board.services[k]
             d == [position |-> k,
                   aimed    |-> Converted(source[s].readAt, Reading(v.scheduled)),
                   status   |-> Status(v)]
  <2>1. /\ source[s].board \in Boards
        /\ source[s].readAt \in Nat /\ source[s].removedAt \in Nat
        /\ cache[s] = Purged(source[s].board, source[s].readAt, source[s].removedAt)
    BY DEF ListsInv, Sourced
  <2>2. /\ d \in Transformed(source[s].board, source[s].readAt) /\ d.position = k
        /\ \A e \in Transformed(source[s].board, source[s].readAt) : e.position = k => e = d
    BY DEF Transformed
  <2>3. (\E e \in cache[s] : e.position = k) <=> ~ TrainExpired(d, source[s].removedAt)
    BY <2>1, <2>2 DEF Purged
  <2>4. TrainExpired(d, source[s].removedAt)
          <=> v.expected # Delayed /\ Leaves(v) + Minute <= source[s].removedAt
    BY <2>1, <2>2, ExpiresOnTime
  <2>5. Leaves(v) \in Nat /\ Minute \in Nat
    BY <2>1, ServiceTypes, TrainsAssumption DEF Leaves
  <2> QED
    BY <2>1, <2>3, <2>4, <2>5
<1> QED
  BY <1>1, Invariant, PTL DEF IInv

\* No goroutine is left when Handler closes errs or has returned.
THEOREM NoGoroutineLeft == Spec => []GoroutinesFinished
<1>1. TypeInv /\ ControlInv => GoroutinesFinished
  BY DEF TypeInv, ControlInv, Active, GoroutinesFinished
<1> QED
  BY <1>1, Invariant, PTL DEF IInv

\* An event that Handler calls a success has stored all of its stations.
THEOREM SuccessAlwaysStored == Spec => []SuccessMeansStored
<1>1. TypeInv /\ ControlInv /\ SuccessInv => SuccessMeansStored
  BY DEF TypeInv, ControlInv, Active, SuccessInv, Stored, SuccessMeansStored
<1> QED
  BY <1>1, Invariant, PTL DEF IInv

\* As long as boards arrive in the order they were generated in, no list goes back
\* to an older one, whatever fails and whenever the process ends.
THEOREM NeverOlderInOrder == Spec => NeverOlder
<1>1. IInv /\ [Next]_vars
        => [ordered' => \A s \in Sourced :
              source[s].board.generatedAt <= source'[s].board.generatedAt]_vars
  BY OrderStep DEF IInv
<1> QED
  BY <1>1, Invariant, PTL DEF Spec, NeverOlder
=============================================================================
