------------------------------ MODULE SiriProxy -------------------------------
(***************************************************************************)
(* siri-proxy/siri_proxy.go: the subscriptions that the proxy remembers,   *)
(* the heartbeats that it sends to their consumers, and the forwarding of  *)
(* what the target server publishes.                                       *)
(*                                                                         *)
(* net/http runs each request in a goroutine: a client is such a goroutine *)
(* with a SubscriptionRequest or a TerminateSubscriptionRequest, a feed is *)
(* one with a ServiceDelivery (module ServiceDelivery takes its body       *)
(* apart).  Every heartbeat has two goroutines more, one for its ticker    *)
(* and one for its timer.                                                  *)
(*                                                                         *)
(* sp.Subscriptions is a slice that is read and written without a lock.    *)
(* Its header is the record subs, arrays are the arrays that it was ever   *)
(* in; the fields of the header are read and written one at a time.        *)
(***************************************************************************)
EXTENDS Integers, Sequences, SequencesExt, FiniteSets, FiniteSetsExt

CONSTANTS Clients, Feeds,
          Requestors, SubscriptionRefs,
          Addresses,        \* ConsumerAddress
          Scenarios,        \* what may come, each once: requests, and publications,
                            \* which are the keys of the deliveries in a body, in
                            \* their order; the clients that are there for them;
                            \* bounds on the statuses of a SubscriptionResponse and
                            \* on the clock
          DefaultInterval,  \* DefaultHeartbeatNotificationInterval
          Nil               \* a cell of an array that is not used yet

\* What passes the checks of Handler.  Time starts at 0.  A HeartbeatInterval of 0,
\* with which time.NewTicker panics, is left out.
SubscriptionRequest ==
    [ kind : {"subscribe"}, requestor : Requestors, refs : SUBSET SubscriptionRefs,
      address : Addresses, interval : Nat \ {0},
      terms : [SubscriptionRefs -> Nat] ]     \* InitialTerminationTime, of each

Termination == [kind : {"terminate"}, requestor : Requestors, refs : Seq(SubscriptionRefs)]

TerminationOfAll == [kind : {"terminateAll"}, requestor : Requestors]

Key == [requestor : Requestors, ref : SubscriptionRefs]

Publication == [kind : {"publish"}, keys : Seq(Key) \ {<< >>}]

SiriSubscription ==
    [ requestor : Requestors, ref : SubscriptionRefs, address : Addresses,
      interval : Nat \ {0}, term : Nat ]

ASSUME SiriProxyAssumption ==
    /\ Clients \cap Feeds = {}
    /\ \A s \in Scenarios :
         /\ s.coming \subseteq SubscriptionRequest \cup Termination \cup TerminationOfAll
                                                  \cup Publication
         /\ s.clients \subseteq Clients /\ s.statuses \in Nat /\ s.until \in Nat
    /\ DefaultInterval \in Nat \ {0}
    /\ Nil \notin SiriSubscription

VARIABLES arrays,       \* the arrays of sp.Subscriptions, as long as their capacity
          subs,         \* sp.Subscriptions: an array and a length
          registered,   \* sp.HeartbeatSubscriptions: an index of beats, or 0
          beats,        \* every SiriHeartbeatSubscription there has been
          now,
          client,       \* where each client is, with its local variables
          feed,         \* where each feed is, with its local variables
          scenario,     \* the member of Scenarios that this is, which does not change
          pending,      \* the requests and publications that are still to come
          crashed,      \* the process has been brought down
          stable        \* history: what was stored ever since a feed's loop began

vars == <<arrays, subs, registered, beats, now, client, feed, scenario, pending, crashed, stable>>

Idle == [pc |-> "idle"]

Parts == {"arr", "len"}

Init ==
    /\ arrays = << << >> >>
    /\ subs = [arr |-> 1, len |-> 0]
    /\ registered = [a \in Addresses |-> 0]
    /\ beats = << >>
    /\ now = 0
    /\ client = [c \in Clients |-> Idle]
    /\ feed = [f \in Feeds |-> Idle]
    /\ scenario \in Scenarios /\ pending = scenario.coming
    /\ crashed = FALSE
    /\ stable = [f \in Feeds |-> {}]

-----------------------------------------------------------------------------
(* The slice *)

Goto(c, state) == client' = [client EXCEPT ![c] = state]

\* A header whose fields were read or written apart may reach past its array,
\* or to cells that are not used yet.
PastEnd(h)  == h.len > Len(arrays[h.arr])
Readable(h) == ~PastEnd(h) /\ \A k \in 1 .. h.len : arrays[h.arr][k] # Nil

Stored == SubSeq(arrays[subs.arr], 1, subs.len)

\* What is stored, also while the header is being written.
Listed == {arrays[subs.arr][k] : k \in 1 .. Min({subs.len, Len(arrays[subs.arr])})} \ {Nil}

\* A copy of the header, not read yet, and a loop that is at its first cell.
NewPass == [header |-> [arr |-> 1, len |-> 0], unread |-> Parts, n |-> 1, kept |-> 0]

\* The subscriptions that the client's loop over the slice removes.
Goes(w, s) ==
    /\ s.requestor = w.request.requestor
    /\ \/ w.pc = "remove" /\ s.ref \in Range(w.refs)
       \/ w.pc = "terminateAll"
       \/ w.pc = "terminate" /\ s.ref = Head(w.request.refs)

Removing(w) == w.pc \in {"remove", "terminateAll"} \/ (w.pc = "terminate" /\ w.request.refs # << >>)

\* What range and append begin with.
Load(c) ==
    /\ Removing(client[c]) \/ client[c].pc = "store"
    /\ \E part \in client[c].pass.unread :
         Goto(c, [client[c] EXCEPT !.pass.header[part] = subs[part], !.pass.unread = @ \ {part}])
    /\ UNCHANGED <<arrays, subs, registered, beats, now, feed, pending, crashed>>

Looping(w) == Removing(w) /\ w.pass.unread = {} /\ w.pass.n <= w.pass.header.len

InArray(w) == w.pass.n <= Len(arrays[w.pass.header.arr])

Visited(w) == arrays[w.pass.header.arr][w.pass.n]

DropCell(c) ==
    LET w == client[c]
    IN  /\ Looping(w) /\ InArray(w) /\ Visited(w) # Nil
        /\ Goes(w, Visited(w))
        /\ Goto(c, [w EXCEPT !.pass.n = @ + 1])
        /\ UNCHANGED <<arrays, subs, registered, beats, now, feed, pending, crashed>>

\* The cell that is written is one of the slice as it is by now.
KeepCell(c) ==
    LET w == client[c]
    IN  /\ Looping(w) /\ InArray(w) /\ Visited(w) # Nil
        /\ ~Goes(w, Visited(w))
        /\ w.pass.kept < subs.len /\ w.pass.kept < Len(arrays[subs.arr])
        /\ arrays' = [arrays EXCEPT ![subs.arr][w.pass.kept + 1] = Visited(w)]
        /\ Goto(c, [w EXCEPT !.pass.n = @ + 1, !.pass.kept = @ + 1])
        /\ UNCHANGED <<subs, registered, beats, now, feed, pending, crashed>>

Passed(w) == Removing(w) /\ w.pass.unread = {} /\ w.pass.n > w.pass.header.len

\* So is the slice that is cut: it loses what was appended to it meanwhile.
Cut(w) ==
    /\ Passed(w) /\ w.pass.kept <= Len(arrays[subs.arr])
    /\ subs' = [subs EXCEPT !.len = w.pass.kept]
    /\ UNCHANGED arrays

-----------------------------------------------------------------------------
(* SubscriptionRequest *)

ReceiveSubscription(c) ==
    /\ client[c].pc = "idle"
    /\ \E r \in pending :
         /\ r.kind = "subscribe"
         /\ Goto(c, [pc |-> "target", request |-> r])
         /\ pending' = pending \ {r}
    /\ UNCHANGED <<arrays, subs, registered, beats, now, feed, crashed>>

\* The target server cannot be reached, or does not answer with a
\* SubscriptionResponse.
TargetFails(c) ==
    /\ client[c].pc = "target"
    /\ Goto(c, Idle)
    /\ UNCHANGED <<arrays, subs, registered, beats, now, feed, pending, crashed>>

\* The statuses that are true name subscriptions of the request, some of them
\* more than once.
TargetConfirms(c) ==
    /\ client[c].pc = "target"
    /\ \E n \in 0 .. scenario.statuses : \E refs \in [1 .. n -> client[c].request.refs] :
         Goto(c, [ pc |-> "remove", request |-> client[c].request, refs |-> refs,
                   pass |-> NewPass ])
    /\ UNCHANGED <<arrays, subs, registered, beats, now, feed, pending, crashed>>

\* Remove updated subscriptions from those already stored.
RemoveUpdated(c) ==
    /\ client[c].pc = "remove"
    /\ Cut(client[c])
    /\ Goto(c, [client[c] EXCEPT !.pc = "store", !.pass = NewPass])
    /\ UNCHANGED <<registered, beats, now, feed, pending, crashed>>

\* Variant: what the target server confirms twice is kept twice.
WithDuplicates(refs) == refs

\* s without what is in gone.
Kept(s, gone) ==
    LET kept[k \in 0 .. Len(s)] ==
            IF k = 0 THEN << >>
            ELSE IF s[k] \in gone THEN kept[k - 1] ELSE Append(kept[k - 1], s[k])
    IN  kept[Len(s)]

\* The first of each, as the map seen makes of the confirmed subscriptions.
WithoutDuplicates(refs) ==
    LET again  == {k \in DOMAIN refs : \E j \in 1 .. k - 1 : refs[j] = refs[k]}
        firsts == Kept([k \in DOMAIN refs |-> k], again)
    IN  [k \in DOMAIN firsts |-> refs[firsts[k]]]

Requested(r, ref) == [ requestor |-> r.requestor, ref  |-> ref, address |-> r.address,
                       interval  |-> r.interval,  term |-> r.terms[ref] ]

\* append: when the header has been read the cells behind the slice are written if
\* there is room, else a new array of up to twice the length.  The header is
\* written in WriteHeader.
Store(c) ==
    LET h    == client[c].pass.header
        refs == WithoutDuplicates(client[c].refs)
        new  == [k \in DOMAIN refs |-> Requested(client[c].request, refs[k])]
        all  == SubSeq(arrays[h.arr], 1, h.len) \o new
        room == Len(arrays[h.arr])
        Continue(arr) == Goto(c, [ pc |-> "header", request |-> client[c].request,
                                   next |-> [arr |-> arr, len |-> Len(all)],
                                   unwritten |-> Parts ])
    IN  /\ client[c].pc = "store" /\ client[c].pass.unread = {}
        /\ ~PastEnd(h)
        /\ \/ /\ Len(all) <= room
              /\ arrays' = [arrays EXCEPT ![h.arr] = all \o SubSeq(@, Len(all) + 1, room)]
              /\ Continue(h.arr)
           \/ /\ Len(all) > room
              /\ \E extra \in 0 .. Len(all) :
                   arrays' = Append(arrays, all \o [k \in 1 .. extra |-> Nil])
              /\ Continue(Len(arrays) + 1)
        /\ UNCHANGED <<subs, registered, beats, now, feed, pending, crashed>>

WriteHeader(c) ==
    /\ client[c].pc = "header"
    /\ \E part \in client[c].unwritten :
         LET left == client[c].unwritten \ {part}
         IN  /\ subs' = [subs EXCEPT ![part] = client[c].next[part]]
             /\ Goto(c, IF left = {} THEN [pc |-> "measure", address |-> client[c].request.address]
                                     ELSE [client[c] EXCEPT !.unwritten = left])
    /\ UNCHANGED <<arrays, registered, beats, now, feed, pending, crashed>>

-----------------------------------------------------------------------------
(* initialiseHeartbeatNotifications *)

Shortest(mine) == IF mine = {} THEN DefaultInterval ELSE Min({s.interval : s \in mine})

\* Variant: nil when there is no subscription.
LatestOrNil(mine) == IF mine = {} THEN -1 ELSE Max({s.term : s \in mine})

Latest(mine) == IF mine = {} THEN now ELSE Max({s.term : s \in mine})

Measure(c) ==
    LET a    == client[c].address
        mine == {s \in Range(Stored) : s.address = a}
    IN  /\ client[c].pc = "measure"
        /\ Readable(subs)
        /\ Goto(c, [ pc |-> "stop", address |-> a, interval |-> Shortest(mine),
                     term |-> Latest(mine) ])
        /\ UNCHANGED <<arrays, subs, registered, beats, now, feed, pending, crashed>>

\* Ticker.Stop() and Timer.Stop(): a timer that has fired stays so.
StoppedBeat(b) == [b EXCEPT !.ticking = FALSE,
                            !.timer = IF @ = "armed" THEN "stopped" ELSE @]

\* Variant: the ticker is left to tick.
UnregisterOnly(c) ==
    LET a == client[c].address
    IN  /\ client[c].pc = "stop"
        /\ registered' = [registered EXCEPT ![a] = 0]
        /\ Goto(c, [client[c] EXCEPT !.pc = "create"])
        /\ UNCHANGED <<arrays, subs, beats, now, feed, pending, crashed>>

\* Check for existing heartbeat subscription and remove it.
StopHeartbeat(c) ==
    LET a == client[c].address
    IN  /\ client[c].pc = "stop"
        /\ beats' = [b \in DOMAIN beats |->
                       IF b = registered[a] THEN StoppedBeat(beats[b]) ELSE beats[b]]
        /\ registered' = [registered EXCEPT ![a] = 0]
        /\ Goto(c, [client[c] EXCEPT !.pc = "create"])
        /\ UNCHANGED <<arrays, subs, now, feed, pending, crashed>>

CreateHeartbeat(c) ==
    LET w == client[c]
    IN  /\ w.pc = "create"
        /\ beats' = Append(beats, [ address |-> w.address, interval |-> w.interval,
                                    term |-> w.term, ticking |-> TRUE, timer |-> "armed" ])
        /\ Goto(c, [pc |-> "register", address |-> w.address, beat |-> Len(beats) + 1])
        /\ UNCHANGED <<arrays, subs, registered, now, feed, pending, crashed>>

RegisterHeartbeat(c) ==
    /\ client[c].pc = "register"
    /\ registered' = [registered EXCEPT ![client[c].address] = client[c].beat]
    /\ Goto(c, Idle)
    /\ UNCHANGED <<arrays, subs, beats, now, feed, pending, crashed>>

-----------------------------------------------------------------------------
(* TerminateSubscriptionRequest: removeSubscription *)

ReceiveTermination(c) ==
    /\ client[c].pc = "idle"
    /\ \E r \in pending :
         /\ r.kind \in {"terminateAll", "terminate"}
         /\ Goto(c, [pc |-> r.kind, request |-> r, pass |-> NewPass])
         /\ pending' = pending \ {r}
    /\ UNCHANGED <<arrays, subs, registered, beats, now, feed, crashed>>

\* All is set: the function returns before it comes to the heartbeats.
RemoveAll(c) ==
    /\ client[c].pc = "terminateAll"
    /\ Cut(client[c])
    /\ Goto(c, Idle)
    /\ UNCHANGED <<registered, beats, now, feed, pending, crashed>>

\* On to the next one of the request's SubscriptionRefs.
RemoveNext(c) ==
    /\ client[c].pc = "terminate"
    /\ Cut(client[c])
    /\ Goto(c, [client[c] EXCEPT !.request.refs = Tail(@), !.pass = NewPass])
    /\ UNCHANGED <<registered, beats, now, feed, pending, crashed>>

\* Heartbeat notifications - remove redundant: from here on the map is iterated
\* over, without the lock.
SweepBegins(c) ==
    /\ client[c].pc = "terminate"
    /\ client[c].request.refs = << >>
    /\ Goto(c, [ pc |-> "sweep", visited |-> {},
                 entries |-> {a \in Addresses : registered[a] # 0} ])
    /\ UNCHANGED <<arrays, subs, registered, beats, now, feed, pending, crashed>>

\* Update if interval has changed: since the first subscription of the address.
Keeps(b, mine) ==
    /\ mine # {}
    /\ LET found == Stored[Min(mine)]
       IN  beats[b].interval = found.interval /\ beats[b].term = found.term

\* The iteration produces an entry that it has not produced yet, maybe one
\* that was added since it began.  If the heartbeat is not kept as it is, ticker
\* and timer are stopped; two goroutines more wait for them, to no effect.
SweepAddress(c) ==
    LET w == client[c]
    IN  /\ w.pc = "sweep"
        /\ Readable(subs)
        /\ \E a \in Addresses \ w.visited :
             LET b    == registered[a]
                 mine == {k \in DOMAIN Stored : Stored[k].address = a}
             IN  /\ b # 0
                 /\ beats' = IF Keeps(b, mine) THEN beats ELSE [beats EXCEPT ![b] = StoppedBeat(@)]
                 /\ Goto(c, [ pc |-> IF mine = {} THEN "delete" ELSE "sweep", address |-> a,
                              entries |-> w.entries, visited |-> w.visited \cup {a} ])
        /\ UNCHANGED <<arrays, subs, registered, now, feed, pending, crashed>>

\* Variant: the entry is left.
SweepLeaves(c) ==
    /\ client[c].pc = "delete"
    /\ Goto(c, [client[c] EXCEPT !.pc = "sweep"])
    /\ UNCHANGED <<arrays, subs, registered, beats, now, feed, pending, crashed>>

SweepDelete(c) ==
    LET w == client[c]
    IN  /\ w.pc = "delete"
        /\ registered' = [registered EXCEPT ![w.address] = 0]
        /\ Goto(c, [w EXCEPT !.pc = "sweep"])
        /\ UNCHANGED <<arrays, subs, beats, now, feed, pending, crashed>>

\* An entry that is deleted before it is reached is not produced.
SweepEnds(c) ==
    /\ client[c].pc = "sweep"
    /\ \A a \in client[c].entries \ client[c].visited : registered[a] = 0
    /\ Goto(c, Idle)
    /\ UNCHANGED <<arrays, subs, registered, beats, now, feed, pending, crashed>>

-----------------------------------------------------------------------------
(* initialiseHeartbeatNotificationTimer *)

TimerFires(b) ==
    /\ beats[b].timer = "armed"
    /\ now >= beats[b].term
    /\ beats' = [beats EXCEPT ![b].timer = "fired"]
    /\ UNCHANGED <<arrays, subs, registered, now, client, feed, pending, crashed>>

\* Variant: the ticker is not stopped.
TimerLeavesTicker(b) ==
    /\ beats[b].timer = "fired"
    /\ beats' = [beats EXCEPT ![b].timer = "expired"]
    /\ UNCHANGED <<arrays, subs, registered, now, client, feed, pending, crashed>>

TimerStopsTicker(b) ==
    /\ beats[b].timer = "fired"
    /\ beats' = [beats EXCEPT ![b].timer = "expired", ![b].ticking = FALSE]
    /\ UNCHANGED <<arrays, subs, registered, now, client, feed, pending, crashed>>

\* The entry of the address is deleted, whichever heartbeat is its value.
TimerDeletes(b) ==
    /\ beats[b].timer = "expired"
    /\ beats' = [beats EXCEPT ![b].timer = "done"]
    /\ registered' = [registered EXCEPT ![beats[b].address] = 0]
    /\ UNCHANGED <<arrays, subs, now, client, feed, pending, crashed>>

Tick ==
    /\ now < scenario.until
    /\ now' = now + 1
    /\ UNCHANGED <<arrays, subs, registered, beats, client, feed, pending, crashed>>

-----------------------------------------------------------------------------
(* ServiceDelivery: handleServiceDeliveryPublication, the last loop *)

\* For the next delivery the loop takes a copy of the header of the slice.
Ranging(keys) == [ pc |-> "range", keys |-> keys, n |-> 1, header |-> [arr |-> 1, len |-> 0],
                   unread |-> Parts, sent |-> << >> ]

FeedGoto(f, state) == feed' = [feed EXCEPT ![f] = state]

Publish(f) ==
    /\ feed[f].pc = "idle"
    /\ \E p \in pending :
         /\ p.kind = "publish"
         /\ FeedGoto(f, Ranging(p.keys))
         /\ pending' = pending \ {p}
    /\ UNCHANGED <<arrays, subs, registered, beats, now, client, crashed>>

CopyHeader(f) ==
    /\ feed[f].pc = "range"
    /\ \E part \in feed[f].unread :
         FeedGoto(f, [feed[f] EXCEPT
                        !.header[part] = subs[part],
                        !.unread = @ \ {part},
                        !.pc = IF feed[f].unread = {part} THEN "visit" ELSE "range"])
    /\ UNCHANGED <<arrays, subs, registered, beats, now, client, pending, crashed>>

Current(f) == arrays[feed[f].header.arr][feed[f].n]

Reading(f) ==
    /\ feed[f].pc = "visit"
    /\ feed[f].n <= feed[f].header.len
    /\ feed[f].n <= Len(arrays[feed[f].header.arr])
    /\ Current(f) # Nil

IsFor(s, key) == s.requestor = key.requestor /\ s.ref = key.ref

\* Variant: the loop ends with the first subscription that does not match.
SkipRest(f) ==
    /\ Reading(f)
    /\ ~IsFor(Current(f), Head(feed[f].keys))
    /\ FeedGoto(f, [feed[f] EXCEPT !.n = feed[f].header.len + 1])
    /\ UNCHANGED <<arrays, subs, registered, beats, now, client, pending, crashed>>

Skip(f) ==
    /\ Reading(f)
    /\ ~IsFor(Current(f), Head(feed[f].keys))
    /\ FeedGoto(f, [feed[f] EXCEPT !.n = @ + 1])
    /\ UNCHANGED <<arrays, subs, registered, beats, now, client, pending, crashed>>

Post(f) ==
    /\ Reading(f)
    /\ IsFor(Current(f), Head(feed[f].keys))
    /\ FeedGoto(f, [feed[f] EXCEPT !.pc = "post", !.sent = Append(@, Current(f))])
    /\ UNCHANGED <<arrays, subs, registered, beats, now, client, pending, crashed>>

Posted(f) ==
    /\ feed[f].pc = "post"
    /\ FeedGoto(f, [feed[f] EXCEPT !.pc = "visit", !.n = @ + 1])
    /\ UNCHANGED <<arrays, subs, registered, beats, now, client, pending, crashed>>

\* The consumer cannot be reached or answers with an error: the feed gets an
\* error, and neither the other consumers nor the other deliveries their turn.
PostFails(f) ==
    /\ feed[f].pc = "post"
    /\ FeedGoto(f, Idle)
    /\ UNCHANGED <<arrays, subs, registered, beats, now, client, pending, crashed>>

NextDelivery(f) ==
    /\ feed[f].pc = "visit"
    /\ feed[f].n > feed[f].header.len
    /\ FeedGoto(f, IF Len(feed[f].keys) = 1 THEN Idle ELSE Ranging(Tail(feed[f].keys)))
    /\ UNCHANGED <<arrays, subs, registered, beats, now, client, pending, crashed>>

-----------------------------------------------------------------------------
(* Undefined behaviour of the data races *)

\* Memory past an array is read or written.
Faults(w) ==
    \/ w.pc \in {"measure", "sweep"} /\ PastEnd(subs)
    \/ Looping(w) /\ ~InArray(w)
    \/ /\ Looping(w) /\ InArray(w) /\ Visited(w) # Nil /\ ~Goes(w, Visited(w))
       /\ w.pass.kept < subs.len /\ w.pass.kept >= Len(arrays[subs.arr])
    \/ w.pc = "store" /\ w.pass.unread = {} /\ PastEnd(w.pass.header)

\* The nil pointer of an unused cell is followed, or an index or a bound is out
\* of range, because the slice has become shorter.
Panics(w) ==
    \/ w.pc \in {"measure", "sweep"} /\ ~PastEnd(subs) /\ ~Readable(subs)
    \/ /\ Looping(w) /\ InArray(w)
       /\ \/ Visited(w) = Nil
          \/ ~Goes(w, Visited(w)) /\ w.pass.kept >= subs.len
    \/ Passed(w) /\ w.pass.kept > Len(arrays[subs.arr])

\* A fault ends the process, or the memory looks like unused cells; net/http
\* recovers from a panic by ending the request.
ClientMisreads(c) ==
    /\ \/ Faults(client[c]) /\ crashed' = TRUE /\ UNCHANGED client
       \/ (Faults(client[c]) \/ Panics(client[c])) /\ Goto(c, Idle) /\ UNCHANGED crashed
    /\ UNCHANGED <<arrays, subs, registered, beats, now, feed, pending>>

FeedMisreads(f) ==
    /\ feed[f].pc = "visit"
    /\ feed[f].n <= feed[f].header.len
    /\ ~Reading(f)
    /\ \/ feed[f].n > Len(arrays[feed[f].header.arr]) /\ crashed' = TRUE /\ UNCHANGED feed
       \/ FeedGoto(f, Idle) /\ UNCHANGED crashed
    /\ UNCHANGED <<arrays, subs, registered, beats, now, client, pending>>

\* The runtime ends the process when it notices that a map is iterated over
\* while it is written to.
MapRace(c) ==
    /\ client[c].pc = "sweep"
    /\ \/ \E d \in Clients \ {c} : client[d].pc \in {"stop", "register", "delete"}
       \/ \E b \in DOMAIN beats : beats[b].timer = "expired"
    /\ crashed' = TRUE
    /\ UNCHANGED <<arrays, subs, registered, beats, now, client, feed, pending>>

-----------------------------------------------------------------------------
(* The proxy *)

Client(c) ==
    \/ ReceiveSubscription(c) \/ TargetFails(c) \/ TargetConfirms(c)
    \/ Load(c) \/ DropCell(c) \/ KeepCell(c) \/ RemoveUpdated(c) \/ Store(c) \/ WriteHeader(c)
    \/ Measure(c) \/ StopHeartbeat(c) \/ CreateHeartbeat(c) \/ RegisterHeartbeat(c)
    \/ ReceiveTermination(c) \/ RemoveAll(c) \/ RemoveNext(c)
    \/ SweepBegins(c) \/ SweepAddress(c) \/ SweepDelete(c) \/ SweepEnds(c)
    \/ ClientMisreads(c) \/ MapRace(c)

Timer(b) == TimerFires(b) \/ TimerStopsTicker(b) \/ TimerDeletes(b)

Feed(f) ==
    \/ Publish(f) \/ CopyHeader(f) \/ Skip(f) \/ Post(f) \/ Posted(f) \/ PostFails(f)
    \/ NextDelivery(f) \/ FeedMisreads(f)

\* Keeps the history variable up to date in every step.
Watch ==
    stable' = [f \in Feeds |->
                 IF feed'[f].pc = "range" /\ feed'[f].unread = Parts
                 THEN Listed'
                 ELSE stable[f] \cap Listed']

Running(A) == ~crashed /\ A /\ Watch /\ UNCHANGED scenario

Next ==
    \/ \E c \in scenario.clients : Running(Client(c))
    \/ \E b \in DOMAIN beats : Running(Timer(b))
    \/ \E f \in Feeds : Running(Feed(f))
    \/ Running(Tick)

Spec == Init /\ [][Next]_vars

-----------------------------------------------------------------------------
(* Properties *)

Heartbeat == [ address : Addresses, interval : Nat \ {0}, term : Nat, ticking : BOOLEAN,
               timer : {"armed", "stopped", "fired", "expired", "done"} ]

Header == [arr : DOMAIN arrays, len : Nat]

Pass == [header : Header, unread : SUBSET Parts, n : Nat \ {0}, kept : Nat]

ClientState ==
    [pc : {"idle"}]
    \cup [pc : {"target"}, request : SubscriptionRequest]
    \cup [ pc : {"remove", "store"}, request : SubscriptionRequest, refs : Seq(SubscriptionRefs),
            pass : Pass ]
    \cup [pc : {"header"}, request : SubscriptionRequest, next : Header, unwritten : SUBSET Parts]
    \cup [pc : {"measure"}, address : Addresses]
    \cup [pc : {"stop", "create"}, address : Addresses, interval : Nat \ {0}, term : Nat]
    \cup [pc : {"register"}, address : Addresses, beat : DOMAIN beats]
    \cup [pc : {"terminateAll"}, request : TerminationOfAll, pass : Pass]
    \cup [pc : {"terminate"}, request : Termination, pass : Pass]
    \cup [pc : {"sweep"}, visited : SUBSET Addresses, entries : SUBSET Addresses]
    \cup [ pc : {"sweep", "delete"}, address : Addresses, visited : SUBSET Addresses,
            entries : SUBSET Addresses ]

FeedState ==
    [pc : {"idle"}]
    \cup [ pc : {"range", "visit", "post"}, keys : Seq(Key) \ {<< >>}, n : Nat \ {0},
            header : Header, unread : SUBSET Parts, sent : Seq(SiriSubscription) ]

TypeOK ==
    /\ arrays \in Seq(Seq(SiriSubscription \cup {Nil})) /\ subs \in Header
    /\ beats \in Seq(Heartbeat)
    /\ registered \in [Addresses -> 0 .. Len(beats)]
    /\ \A a \in Addresses : registered[a] # 0 => beats[registered[a]].address = a
    /\ client \in [Clients -> ClientState] /\ feed \in [Feeds -> FeedState]
    /\ scenario \in Scenarios /\ pending \subseteq scenario.coming
    /\ now \in 0 .. scenario.until /\ crashed \in BOOLEAN
    /\ stable \in [Feeds -> SUBSET SiriSubscription]

\* What may come.  With two clients at once, the slice and the map are written by
\* both of them.
Alone(x) == \A c, d \in x.clients : c = d

\* Nothing is terminated, and a subscription is asked for by one request only, so
\* that the loops over the slice write every cell where it is.
OnlyNew(x) ==
    /\ \A r \in x.coming : r.kind \in {"subscribe", "publish"}
    /\ \A q, r \in x.coming \cap SubscriptionRequest :
          (q.requestor = r.requestor /\ q.refs \cap r.refs # {}) => q = r

\* Requests come one after another, or there are no more than two.
AtMostTwo(x) == Alone(x) \/ Cardinality(x.coming \cap SubscriptionRequest) <= 2

\* Requests come one after another.
OneByOne == Alone(scenario)

Quiet == ~crashed /\ \A c \in Clients : client[c].pc = "idle"

\* handleSubscriptionRequestResponse, "Remove updated subscriptions from those
\* already stored" and "Remove duplicates": between requests that come one after
\* another, a subscription is stored once, however often it was requested,
\* confirmed and terminated.
UniqueSubscriptions ==
    (OneByOne /\ Quiet) => \A j, k \in DOMAIN Stored :
        (Stored[j].requestor = Stored[k].requestor /\ Stored[j].ref = Stored[k].ref) => j = k

\* siri-proxy/README.md: what is published "is then sent" to the client.  When
\* the loop has come to its end, the delivery has been sent once to every
\* consumer whose subscription was stored all the while, although append writes
\* cells and header in the meantime: of requests for new subscriptions that come
\* one after another, or of two at once.  With more at once, the cells that one
\* writes may be those of another's subscription in the array that the loop reads;
\* a termination moves subscriptions to cells that the loop has passed.
SentToSubscribers ==
    (OnlyNew(scenario) /\ AtMostTwo(scenario)) =>
        \A f \in Feeds : (feed[f].pc = "visit" /\ feed[f].n > feed[f].header.len) =>
            \A s \in stable[f] : IsFor(s, Head(feed[f].keys)) =>
                Cardinality({k \in DOMAIN feed[f].sent : feed[f].sent[k] = s}) = 1

\* initialiseHeartbeatNotifications, "Check for existing heartbeat subscription
\* and remove it": after requests that come one after another, a consumer is sent
\* heartbeats by one ticker only, unless the timer of a heartbeat fired before the
\* heartbeat was replaced.
SingleHeartbeat ==
    OneByOne => \A a \in Addresses :
        LET mine   == {b \in DOMAIN beats : beats[b].address = a}
            InTime == \A b, d \in mine : b < d => beats[b].timer \in {"armed", "stopped"}
        IN  InTime => Cardinality({b \in mine : beats[b].ticking}) <= 1

\* siri_proxy_test.go, "expected HeartbeatTicker to be present for subscription":
\* between requests that come one after another, the consumer of a subscription
\* that has not expired is sent heartbeats at least as often as the subscription
\* asks for.  A termination that leaves a subscription with another interval or
\* another end than the heartbeat's breaks it: the ticker is stopped for good.
HeartbeatTicks ==
    (OneByOne /\ Quiet) => \A s \in Listed : now < s.term =>
        \E b \in DOMAIN beats :
            beats[b].address = s.address /\ beats[b].ticking /\ beats[b].interval <= s.interval

\* removeSubscription, "Heartbeat notifications - remove redundant": whenever the
\* iteration over HeartbeatSubscriptions may end, no entry is left whose consumer
\* has no subscription any more, be it that all were terminated before, with a
\* request that returns early, that the subscription went to another consumer,
\* or that timers delete entries meanwhile.
RedundantRemoved ==
    OneByOne => \A c \in scenario.clients :
        (/\ client[c].pc = "sweep"
         /\ \A a \in client[c].entries \ client[c].visited : registered[a] = 0) =>
            \A a \in Addresses : registered[a] # 0 => \E s \in Listed : s.address = a

\* A ticker does not tick for ever, because there is a timer that will stop it,
\* also when a race has left the heartbeat without an entry, or with one that
\* was deleted and stored again: no consumer is sent heartbeats without end.
TickerHasTimer ==
    \A b \in DOMAIN beats : beats[b].ticking => beats[b].timer \in {"armed", "fired"}
=============================================================================
