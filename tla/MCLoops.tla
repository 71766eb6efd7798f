------------------------------- MODULE MCLoops --------------------------------
(***************************************************************************)
(* The two sequential loops of the system that write over what they read,  *)
(* side by side for TLC: that of the ingester over a list (CombineLoop)    *)
(* and that of the proxy over a body (ServiceDelivery).  They share no     *)
(* state, so that each is run on all of its inputs beside one input of the *)
(* other.                                                                  *)
(*                                                                         *)
(* The candidates are two versions of one journey, a journey that ties     *)
(* with the later version in time but not in service number, and one that  *)
(* differs in the journey reference and the operator only.                 *)
(***************************************************************************)
EXTENDS CombineLoop, ServiceDelivery

CONSTANTS stop, area, place, text, k1, k2, k3

KeySymmetry == Permutations(Keys)

Number(txt, prefix, digits, suffix) ==
    [text |-> txt, prefix |-> prefix, digits |-> digits, suffix |-> suffix]

\* 12 of two operators, 12A, and A.
MCNumberOf ==
    [s \in Services |-> CASE s \in {1, 2} -> Number(1, Nil, 12, Nil)
                          [] s = 3 -> Number(2, Nil, 12, 1)
                          [] OTHER -> Number(3, 1, Nil, Nil)]

Dep(ref, aimed, expected, service) ==
    [ journeyRef |-> ref, aimed |-> aimed, expected |-> expected, location |-> stop,
      service |-> service, destinationPlace |-> place, destination |-> text ]

MCCandidates ==
    { Dep(1, 0, NoTime, 3), Dep(1, 0, 1, 3), Dep(2, 1, NoTime, 1), Dep(3, 0, 1, 2) }

\* One input of each.
EmptyLists == cachedList = << >> /\ newDepartures = << >> /\ instant = 0
OnePayload == keyOf \in [1 .. 1 -> Keys] /\ sizes = <<1>>

LoopsInit ==
    /\ EmptyLists \/ OnePayload
    /\ LoopInit /\ SplitInit

LoopsNext ==
    \/ LoopNext /\ UNCHANGED splitVars
    \/ SplitNext /\ UNCHANGED loopVars

LoopsSpec == LoopsInit /\ [][LoopsNext]_<<loopVars, splitVars>>
=============================================================================
