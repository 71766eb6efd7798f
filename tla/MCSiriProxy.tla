------------------------------ MODULE MCSiriProxy -----------------------------
(***************************************************************************)
(* Values of the constants of SiriProxy for TLC.                           *)
(***************************************************************************)
EXTENDS SiriProxy

CONSTANTS c1, c2, f1, op1, op2, home, away

\* With the same InitialTerminationTime for each of its subscriptions, or with one
\* for each of them.
Subscribe(requestor, refs, address, interval, term) ==
    [ kind |-> "subscribe", requestor |-> requestor, refs |-> refs, address |-> address,
      interval |-> interval, terms |-> [r \in SubscriptionRefs |-> term] ]
SubscribeEach(requestor, terms, address, interval) ==
    [ kind |-> "subscribe", requestor |-> requestor, refs |-> DOMAIN terms, address |-> address,
      interval |-> interval,
      terms |-> [r \in SubscriptionRefs |-> IF r \in DOMAIN terms THEN terms[r] ELSE 0] ]
TerminateAll(requestor)    == [kind |-> "terminateAll", requestor |-> requestor]
Terminate(requestor, refs) == [kind |-> "terminate", requestor |-> requestor, refs |-> refs]

ForKey(requestor, ref) == [requestor |-> requestor, ref |-> ref]
Body(keys) == [kind |-> "publish", keys |-> keys]

TwoClients == {c1, c2}
OneFeed    == {f1}
TwoAddresses == {home, away}

MCRequestors == {op1, op2}
MCRefs       == 1 .. 3

\* Two subscriptions that end one after the other, an update of the first, and one
\* of another requestor with the same SubscriptionRef.
Updates ==
    { SubscribeEach(op1, <<1, 2>>, home, 2), Subscribe(op1, {1}, home, 1, 2),
      Subscribe(op2, {1}, home, 2, 2) }

\* Everything of an address has the same interval and the same end.
Terminations ==
    { Subscribe(op1, {1, 2}, home, 1, 1), Subscribe(op2, {1}, away, 1, 1),
      Terminate(op1, <<1>>), Terminate(op1, <<2>>) }

Renewals ==
    { Subscribe(op1, {1, 2}, home, 1, 1), Subscribe(op1, {1, 3}, home, 1, 1),
      Terminate(op1, <<1>>), Terminate(op1, <<2, 3>>) }

\* Two subscriptions of an address, of which one is terminated.
Removals ==
    { Subscribe(op1, {1}, home, 1, 1), Subscribe(op2, {1}, home, 2, 2), Terminate(op2, <<1>>) }

\* A subscription that goes to another consumer, one that ends with all of its
\* requestor, and another's that is terminated by name.
Moves ==
    { Subscribe(op1, {1}, home, 1, 1), Subscribe(op1, {1}, away, 1, 1),
      Subscribe(op2, {1}, home, 1, 1), Terminate(op2, <<1>>) }

Ends ==
    { Subscribe(op1, {1}, home, 1, 1), TerminateAll(op1),
      Subscribe(op2, {1}, away, 1, 1), Terminate(op2, <<1>>) }

Pair == { Subscribe(op1, {1}, home, 1, 1), Subscribe(op2, {1}, home, 2, 1) }

AllRemovals == { Subscribe(op1, {1}, home, 1, 1), TerminateAll(op1) }

\* New subscriptions only, of two requestors and for two addresses.
Deliveries ==
    { Subscribe(op1, {1}, home, 1, 2), Subscribe(op2, {1}, away, 1, 2),
      Body(<<ForKey(op1, 1), ForKey(op2, 1)>>) }

Scenario(coming, clients, statuses, until) ==
    [coming |-> coming, clients |-> clients, statuses |-> statuses, until |-> until]

\* One client after another, and two of them and a publication at once.
MCScenarios ==
    { Scenario(Updates, {c1}, 2, 1), Scenario(Terminations, {c1}, 2, 1),
      Scenario(Renewals, {c1}, 2, 1), Scenario(Removals, {c1}, 1, 1),
      Scenario(Moves, {c1}, 1, 1), Scenario(Ends, {c1}, 1, 1),
      Scenario(Pair, TwoClients, 1, 1), Scenario(Removals, TwoClients, 1, 0),
      Scenario(AllRemovals, TwoClients, 1, 1), Scenario(Deliveries, TwoClients, 1, 0) }

\* Two subscriptions of an address that differ in their ends.
HeartbeatScenarios == { Scenario(Removals, {c1}, 1, 1) }
=============================================================================
