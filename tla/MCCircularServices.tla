-------------------------- MODULE MCCircularServices --------------------------
(***************************************************************************)
(* Values of the constants of CircularServices for TLC: buckets in which    *)
(* the newest ZIP file comes on the second page, after a newer object that  *)
(* is no ZIP file, or is one of two, and a bucket without a ZIP file.       *)
(***************************************************************************)
EXTENDS CircularServices

CONSTANT w1

TheService(start, end, search, lines) ==
    [start |-> start, end |-> end, lines |-> lines, search |-> search]

TheFile(operators, services) == [operators |-> operators, services |-> services]

TheObject(zip, modified, files) == [zip |-> zip, modified |-> modified, files |-> files]

\* Circular until day 1, and from then on with two lines.
Renewed == TheFile(<<10>>, << TheService(0, 0, "found", <<1>>), TheService(1, NoEnd, "found", <<1, 2>>) >>)

\* Two operators; a second circular service is not looked at.
Joint == TheFile(<<20, 30>>, << TheService(0, 1, "found", <<3>>), TheService(0, NoEnd, "found", <<4>>) >>)

Future  == TheFile(<<10>>, << TheService(2, NoEnd, "found", <<5>>) >>)
Linear  == TheFile(<<10>>, << TheService(0, NoEnd, "none", <<6>>) >>)
Broken  == TheFile(<<10>>, << TheService(0, BadDate, "found", <<7>>) >>)
Broken2 == TheFile(<<10>>, << TheService(BadDate, 1, "found", <<8>>) >>)

\* The term that the second service has is tried after one that does not compile.
Sought == TheFile(<<10>>, << TheService(0, 1, "badTerm", <<8>>), TheService(0, 1, "found", <<8>>) >>)

Dropped == TheFile(<<20>>, << TheService(0, NoEnd, "found", <<9>>) >>)

Old == TheObject(TRUE, 1, <<Future, Linear, Dropped>>)

MCBuckets ==
    { << <<Old, TheObject(FALSE, 9, << >>)>>, <<TheObject(TRUE, 2, <<Renewed, Joint>>)>> >>,
      << <<Old, TheObject(TRUE, 1, <<Broken, Renewed>>)>> >>,
      << <<TheObject(TRUE, 3, <<Joint, Broken2>>)>> >>,
      << <<TheObject(TRUE, 3, <<Sought>>)>> >>,
      << <<TheObject(FALSE, 9, << >>)>> >> }
=============================================================================
