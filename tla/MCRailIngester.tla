---------------------------- MODULE MCRailIngester ----------------------------
(***************************************************************************)
(* Values of the constants of RailIngester for TLC: hours of two units,    *)
(* that are minutes, too; local midnight at 48, and that of UTC two later. *)
(***************************************************************************)
EXTENDS RailIngester

CONSTANTS manchester, bolton, r1, r2

At(station, t, services) == [station |-> station, generatedAt |-> t, services |-> services]

Train(scheduled, expected) == [scheduled |-> scheduled, expected |-> expected]

\* Two boards of one station, with a train that is late, one on time, and one
\* delayed; and a board of another station.
MCBoards ==
    { At(manchester, 46, <<Train(46, 48), Train(50, OnTime)>>),
      At(manchester, 48, <<Train(46, Delayed), Train(50, 52)>>),
      At(bolton, 48, <<Train(48, OnTime)>>) }

MCBeginnings == {47}
=============================================================================
