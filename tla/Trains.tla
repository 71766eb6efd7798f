-------------------------------- MODULE Trains --------------------------------
(***************************************************************************)
(* The times of trains: model/convert_local_departure_time.go and the part *)
(* of Departure.IsExpired in model/internal.go that is about trains.       *)
(*                                                                         *)
(* A station board has clock readings, such as "13:20", where the          *)
(* departures database has instants.  Instants and readings are integers   *)
(* in one unit of time; local midnights are the multiples of Day.          *)
(***************************************************************************)
EXTENDS Integers

CONSTANTS Day,        \* 24 hours
          Window,     \* 2 hours
          Offset,     \* how much local time is ahead of UTC, 0 or 1 hours
          Minute,     \* 1 minute
          Delayed     \* a departure status that is no reading of a clock

ASSUME TrainsAssumption ==
    /\ {Day, Window, Minute} \subseteq Nat \ {0}
    /\ Offset \in Nat /\ Offset <= Window
    /\ 2 * Window < Day
    /\ Delayed \notin Nat

\* Local midnight on the date that now has in UTC, which is what Year, Month
\* and Day of time.Now() give in a Lambda function.
Midnight(now) == ((now - Offset) \div Day) * Day

\* Variant: departures are always of this day or the next.
ConvertedForward(now, reading) ==
    LET today == Midnight(now) + reading
    IN  IF now - today > Window THEN today + Day ELSE today

\* ConvertDepartureTime: the reading on this date, the next or the last one.
\* The dates are 24 hours apart but for the two changes of the clock in a year.
Converted(now, reading) ==
    LET today == Midnight(now) + reading
    IN  IF now - today > Window THEN today + Day
        ELSE IF today - now > Window THEN today - Day
        ELSE today

\* The reading of the local clock at the instant t.
Reading(t) == t % Day

\* Departure.IsExpired, of a train with its scheduled departure, an instant that
\* was converted when its board was stored, and with a status, the reading of its
\* expected departure or a text.  A delayed train never is expired; the others are
\* compared to the minute, by their expected time if there is one.
TrainExpired(d, now) ==
    LET minute == (now \div Minute) * Minute
    IN  /\ d.status # Delayed
        /\ (IF d.status \in Nat THEN Converted(now, d.status) ELSE d.aimed) < minute
=============================================================================
