------------------------------ MODULE MCIngester ------------------------------
(***************************************************************************)
(* Values of the constants of Ingester for TLC: two stops in one area and  *)
(* one stop in none, a circular service and a point-to-point service.      *)
(***************************************************************************)
EXTENDS Ingester

CONSTANTS s1, s2, s3, area, near, far, town, loop, text, i1, r1, r2

MCStops  == {s1, s2, s3}
MCAreas  == {area}
MCPlaces == {near, far}
MCDestinations == {town, loop, text}
MCAreaOf == (s1 :> area) @@ (s2 :> area) @@ (s3 :> NoArea)
\* The services 1 and 2, without letters.
MCNumberOf ==
    [s \in Services |-> [text |-> s, prefix |-> Nil, digits |-> s, suffix |-> Nil]]
MCCircularDestination == (1 :> NoName) @@ (2 :> loop)
MCLocalityName == (near :> town) @@ (far :> NoName)

Dep(ref, aimed, expected, stop, service, place) ==
    [ journeyRef |-> ref, aimed |-> aimed, expected |-> expected, location |-> stop,
      service |-> service, destinationPlace |-> place, destination |-> text ]

\* One journey aimed at 1, on time and late by one; a second one, at the other
\* stop of the area, that ties with the late one, and a fourth that does so at the
\* same stop; one from the stop in no area.
OnTime == Dep(1, 1, NoTime, s1, 1, near)
Late   == Dep(1, 1, 2, s1, 1, near)
Other  == Dep(2, 2, NoTime, s2, 2, near)
Tie    == Dep(4, 2, NoTime, s1, 2, near)
Remote == Dep(3, 0, 1, s3, 1, far)

OneInstance == {i1}
OneRecord   == {r1}
TwoRecords  == {r1, r2}
AllOfOne    == [r \in Records |-> i1]

WideMessages   == { <<OnTime, Late>>, <<Late>>, <<Other, OnTime>>, <<Remote, Other>> }
\* Two records have a stop and an area in common, with two journeys in each list.
SharedMessages == { <<OnTime, Tie>>, <<Late>> }
AreaMessages   == { <<OnTime>>, <<Other>> }
RemoteMessages == { <<Remote>>, <<OnTime>> }
=============================================================================
