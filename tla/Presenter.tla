------------------------------- MODULE Presenter ------------------------------
(***************************************************************************)
(* presenter/: a Lambda function that answers requests for the next        *)
(* departures from a location.  It reads the list of the location page by  *)
(* page, each page in a call to Redis of its own, while ingesters replace  *)
(* the list.  One request at a time is modelled, for one location.         *)
(* BusDepartures says what replaces the list, and has the next-state       *)
(* relation.                                                               *)
(***************************************************************************)
EXTENDS Integers, Sequences, SequencesExt

CONSTANTS IsExpired(_, _),    \* Departure.IsExpired, of a departure and an instant
          Tops,               \* the values of the parameter top
          FirstTime, LastTime \* bounds on the clock

ASSUME PresenterAssumption ==
    Tops \subseteq Nat \ {0} /\ FirstTime \in Nat /\ LastTime \in Nat /\ FirstTime <= LastTime

VARIABLES clock, list,        \* the list of the location in the departures database
          pc, top, now, deps, start, end,     \* of Handler
          changed,            \* history: the list changed after the first page was read
          outdated            \* history: and what replaced it was purged before the request

database == <<clock, list>>
request  == <<pc, top, now, deps, start, end>>
history  == <<changed, outdated>>
presenter == <<database, request, history>>

InitPresenter ==
    /\ clock = FirstTime
    /\ list = << >>
    /\ pc = "idle"
    /\ top = 1 /\ now = FirstTime /\ deps = << >> /\ start = 0 /\ end = 0
    /\ changed = FALSE /\ outdated = FALSE

-----------------------------------------------------------------------------
(* The departures database *)

\* What is cached for the location is replaced by an ingester, which removed what
\* was expired at the instant purged.
Replace(new, purged) ==
    /\ list' = new
    /\ changed' = (pc # "idle" /\ (changed \/ new # list))
    /\ outdated' = (outdated \/ purged < now)
    /\ UNCHANGED <<clock, request>>

Tick ==
    /\ clock < LastTime
    /\ clock' = clock + 1
    /\ UNCHANGED <<list, request, history>>

-----------------------------------------------------------------------------
(* Handler *)

Receive ==
    /\ pc = "idle"
    /\ top' \in Tops
    /\ now' = clock
    /\ pc' = "assign" /\ deps' = << >> /\ start' = 0 /\ end' = top'
    /\ UNCHANGED <<database, history>>

\* assignNextDepartures: LRANGE from start to end - 1.
AssignNextDepartures ==
    /\ pc = "assign"
    /\ deps' = deps \o SubSeq(list, start + 1, IF end < Len(list) THEN end ELSE Len(list))
    /\ pc' = "remove"
    /\ IF start = 0 THEN changed' = FALSE /\ outdated' = FALSE ELSE UNCHANGED history
    /\ UNCHANGED <<database, top, now, start, end>>

AssignFails ==
    /\ pc = "assign"
    /\ pc' = "error"
    /\ UNCHANGED <<database, top, now, deps, start, end, history>>

\* removeExpiredDepartures: the number of expired departures in front.
Removed ==
    CHOOSE n \in 0 .. Len(deps) :
        /\ \A k \in 1 .. n : IsExpired(deps[k], now)
        /\ n < Len(deps) => ~IsExpired(deps[n + 1], now)

\* Variant: the first departure that is not expired goes, too.
RemoveOneMore ==
    /\ pc = "remove"
    /\ deps' = SubSeq(deps, Removed + 2, Len(deps))
    /\ IF Removed = 0 \/ Len(deps') = top
       THEN pc' = "done" /\ UNCHANGED <<start, end>>
       ELSE pc' = "assign" /\ start' = start + top /\ end' = end + Removed
    /\ UNCHANGED <<database, top, now, history>>

\* Variant: the next page starts after the expired departures.
RemoveAndReadAgain ==
    /\ pc = "remove"
    /\ deps' = SubSeq(deps, Removed + 1, Len(deps))
    /\ IF Removed = 0 \/ Len(deps') = top
       THEN pc' = "done" /\ UNCHANGED <<start, end>>
       ELSE pc' = "assign" /\ start' = start + Removed /\ end' = end + Removed
    /\ UNCHANGED <<database, top, now, history>>

\* Variant: starts over as long as there are too few departures.
RemoveUntilTop ==
    /\ pc = "remove"
    /\ IF Len(deps) - Removed = top
       THEN pc' = "done" /\ deps' = SubSeq(deps, Removed + 1, Len(deps))
       ELSE pc' = "assign" /\ deps' = << >>
    /\ UNCHANGED <<database, top, now, start, end, history>>

\* Variant: the last page is taken as it is.
RemoveNotAtEnd ==
    /\ pc = "remove"
    /\ deps' = IF Len(deps) = top /\ start > 0 THEN deps ELSE SubSeq(deps, Removed + 1, Len(deps))
    /\ IF Removed = 0 \/ Len(deps') = top
       THEN pc' = "done" /\ UNCHANGED <<start, end>>
       ELSE pc' = "assign" /\ start' = start + top /\ end' = end + Removed
    /\ UNCHANGED <<database, top, now, history>>

\* The loop goes on with as many departures as were removed, from start + top.
RemoveExpiredDepartures ==
    /\ pc = "remove"
    /\ deps' = SubSeq(deps, Removed + 1, Len(deps))
    /\ IF Removed = 0 \/ Len(deps') = top
       THEN pc' = "done" /\ UNCHANGED <<start, end>>
       ELSE pc' = "assign" /\ start' = start + top /\ end' = end + Removed
    /\ UNCHANGED <<database, top, now, history>>

\* What is transformed and returned is deps; the variables of Handler are gone.
Return ==
    /\ pc \in {"done", "error"}
    /\ pc' = "idle" /\ top' = 1 /\ now' = FirstTime /\ deps' = << >> /\ start' = 0 /\ end' = 0
    /\ changed' = FALSE /\ outdated' = FALSE
    /\ UNCHANGED database

Handler == AssignNextDepartures \/ AssignFails \/ RemoveExpiredDepartures \/ Return

-----------------------------------------------------------------------------
(* Properties *)

\* The comment in Handler, "remove expired departures": what is presented was
\* not expired when the request came, even if the list is replaced by a shorter
\* one or by another one between two pages.  It takes lists in which expired
\* departures come first: those of buses, not a board with a delayed train.  And
\* it takes lists that were purged no earlier than the request came: an ingester
\* that takes its time to store one brings back what is expired.
NoExpiredPresented ==
    (pc = "done" /\ ~outdated) => \A k \in DOMAIN deps : ~IsExpired(deps[k], now)

\* The comment goes on "up to limit": of a list that nobody replaces meanwhile
\* the expired departures, which are in front, are passed over, and the next are
\* presented, top of them if there are as many, in their order, none of them twice.
PresentsNext ==
    (pc = "done" /\ ~changed) =>
        \E n \in 0 .. Len(list) :
            /\ \A k \in DOMAIN list : IsExpired(list[k], now) <=> k <= n
            /\ deps = SubSeq(list, n + 1, IF n + top < Len(list) THEN n + top ELSE Len(list))

\* However often the list is replaced, the loop over the pages ends.
HandlerReturns == pc = "assign" ~> pc \in {"done", "error"}
=============================================================================
