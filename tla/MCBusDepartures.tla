---------------------------- MODULE MCBusDepartures ----------------------------
(***************************************************************************)
(* Values of the constants of BusDepartures for TLC: what OPTIS may report *)
(* of five journeys from a stop.                                           *)
(***************************************************************************)
EXTENDS BusDepartures

CONSTANTS stop, place, text, i1, i2

MCNumberOf == [s \in {1} |-> [text |-> 1, prefix |-> Nil, digits |-> 1, suffix |-> Nil]]

MCFields ==
    [ location |-> stop, service |-> 1, destinationPlace |-> place, destination |-> text ]

Report(ref, aimed, expected, origin, cancelled) ==
    [ journeyRef |-> ref, aimed |-> aimed, expected |-> expected,
      origin |-> origin, cancelled |-> cancelled ]

\* Journey 1 is late, journey 2 is cancelled, the time table does not know journey
\* 3, and what is reported of journey 4 is erroneous or empty.
MCResponses ==
    { << Report(1, 1, Zero, 1, FALSE), Report(4, 1, 3, 2, FALSE), Report(5, 1, Zero, 1, FALSE) >>,
      << Report(1, 1, 3, 1, FALSE), Report(2, 2, 3, 1, TRUE), Report(3, Zero, 2, Zero, FALSE),
         Report(4, Zero, Zero, Zero, FALSE) >> }
=============================================================================
