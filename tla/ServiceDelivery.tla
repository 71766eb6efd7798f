---------------------------- MODULE ServiceDelivery ---------------------------
(***************************************************************************)
(* siri-proxy/siri_proxy.go, handleServiceDeliveryPublication: how a       *)
(* published body with several payloads is taken apart into one delivery   *)
(* per subscription.  Header, payloads and footer are slices of the one    *)
(* buffer that holds the body, and payloads of one subscription are put    *)
(* together with append, which writes to the buffer.                       *)
(*                                                                         *)
(* A cell of the buffer stands for some bytes: <<p, k>> is the k-th cell   *)
(* of the p-th payload as it was received.  The payloads lie next to each  *)
(* other, with the footer after the last one.                              *)
(***************************************************************************)
EXTENDS Naturals, Sequences

CONSTANTS Keys,         \* subscriptions: a SubscriptionRef with a SubscriberRef
          MaxPayloads,  \* bound on the payloads of a body
          MaxCells      \* bound on the cells of a payload

ASSUME ServiceDeliveryAssumption ==
    MaxPayloads \in Nat \ {0} /\ MaxCells \in Nat \ {0}

VARIABLES keyOf,        \* the subscription of each payload, as received
          sizes,        \* the number of cells of each payload
          buffer,       \* rb, without the header
          at,           \* the payload that the loop is at
          deliveries    \* slices of buffer, each for a subscription

splitVars == <<keyOf, sizes, buffer, at, deliveries>>

\* The p-th payload as it was received.
Payload(p) == [k \in 1 .. sizes[p] |-> <<p, k>>]

\* The sequences of parts put together, up to the n-th, for every n.
Joined(parts) ==
    LET joined[n \in 0 .. Len(parts)] == IF n = 0 THEN << >> ELSE joined[n - 1] \o parts[n]
    IN  joined

\* The body up to the n-th payload.
Text == Joined([p \in DOMAIN keyOf |-> Payload(p)])

\* payloadStarts[p] and payloadEnds[p].
StartOf(p) == Len(Text[p - 1]) + 1
EndOf(p)   == Len(Text[p])

Footer == <<0, 0>>

SplitInit ==
    /\ \E n \in 1 .. MaxPayloads :
         keyOf \in [1 .. n -> Keys] /\ sizes \in [1 .. n -> 1 .. MaxCells]
    /\ buffer = Append(Text[Len(keyOf)], Footer)
    /\ at = 1
    /\ deliveries = << >>

\* What xml.Unmarshal finds in the payload: the subscription of whatever
\* is in the buffer there by now.
Found == keyOf[buffer[StartOf(at)][1]]

Joins(j) == deliveries[j].key = Found /\ \A h \in 1 .. j - 1 : deliveries[h].key # Found

\* Variant: with a cell left out.
OverwriteNext(to) ==
    buffer' = [c \in DOMAIN buffer |->
                 IF c \in to + 2 .. to + 1 + sizes[at]
                 THEN buffer[StartOf(at) + c - (to + 2)]
                 ELSE buffer[c]]

\* append(d.Payload, p...): the capacity of d.Payload reaches to the end of
\* the buffer, so that p is copied to the cells after d.Payload.
Overwrite(to) ==
    buffer' = [c \in DOMAIN buffer |->
                 IF c \in to + 1 .. to + sizes[at]
                 THEN buffer[StartOf(at) + c - (to + 1)]
                 ELSE buffer[c]]

\* Variant: the length of d.Payload stays as it is.
AppendBehind ==
    /\ at \in DOMAIN sizes
    /\ \E j \in DOMAIN deliveries : Joins(j) /\ Overwrite(deliveries[j].to)
    /\ at' = at + 1
    /\ UNCHANGED <<keyOf, sizes, deliveries>>

\* The payload joins the first delivery for its subscription.
AppendPayload ==
    /\ at \in DOMAIN sizes
    /\ \E j \in DOMAIN deliveries :
         /\ Joins(j)
         /\ Overwrite(deliveries[j].to)
         /\ deliveries' = [deliveries EXCEPT ![j].to = @ + sizes[at]]
    /\ at' = at + 1
    /\ UNCHANGED <<keyOf, sizes>>

\* Variant: whether or not the payload was appended.
NewDeliveryToo ==
    /\ at \in DOMAIN sizes
    /\ deliveries' = Append(deliveries, [ key  |-> Found,
                                          from |-> StartOf(at),
                                          to   |-> EndOf(at) ])
    /\ at' = at + 1
    /\ UNCHANGED <<keyOf, sizes, buffer>>

\* The payload is the first one for its subscription.
NewDelivery ==
    /\ at \in DOMAIN sizes
    /\ \A j \in DOMAIN deliveries : deliveries[j].key # Found
    /\ deliveries' = Append(deliveries, [ key  |-> Found,
                                          from |-> StartOf(at),
                                          to   |-> EndOf(at) ])
    /\ at' = at + 1
    /\ UNCHANGED <<keyOf, sizes, buffer>>

SplitNext == AppendPayload \/ NewDelivery

SplitSpec == SplitInit /\ [][SplitNext]_splitVars

-----------------------------------------------------------------------------
(* Properties *)

\* The bytes that go to the consumer, between header and footer.
Body(j) == SubSeq(buffer, deliveries[j].from, deliveries[j].to)

\* The payloads for a subscription as they were received, in their order.
ReceivedUpTo(n, key) ==
    Joined([p \in DOMAIN keyOf |-> IF keyOf[p] = key THEN Payload(p) ELSE << >>])[n]

Received(key) == ReceivedUpTo(Len(keyOf), key)

Sent == at > Len(keyOf)

\* siri-proxy/README.md: data that the target server publishes "is then sent
\* unmodified to the client": every delivery consists of the payloads for its
\* subscription, whatever else the buffer was used for.
Unmodified == Sent => \A j \in DOMAIN deliveries : Body(j) = Received(deliveries[j].key)

\* No payload for another subscription comes between two for the same one.
Grouped ==
    \A p, q \in DOMAIN keyOf : keyOf[p] = keyOf[q] => \A r \in p .. q : keyOf[r] = keyOf[p]

\* ... which is so when the payloads for each subscription lie together, as
\* they do in siri_proxy_test.go: append then copies a payload onto itself.
UnmodifiedIfGrouped == Grouped => Unmodified

\* For every body, grouped or not, append leaves alone what is not read yet:
\* the payloads that the loop is still to parse, and the footer.
UnreadIntact ==
    /\ \A p \in at .. Len(keyOf) :
         SubSeq(buffer, StartOf(p), EndOf(p)) = Payload(p)
    /\ buffer[Len(buffer)] = Footer

\* There is one delivery for each subscription of the body, and it is as long
\* as the payloads for it, so that no consumer is left out or sent to twice.
OneDeliveryEach ==
    /\ \A j, h \in DOMAIN deliveries : deliveries[j].key = deliveries[h].key => j = h
    /\ Sent => \A p \in DOMAIN keyOf : \E j \in DOMAIN deliveries :
                  /\ deliveries[j].key = keyOf[p]
                  /\ Len(Body(j)) = Len(Received(keyOf[p]))
=============================================================================
