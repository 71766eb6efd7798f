----------------------------- MODULE SiriProxyProofs -------------------------
(***************************************************************************)
(* Theorems about SiriProxy, for any clients, feeds, addresses, requests   *)
(* and capacities, and without the bounds of the run on requests and time. *)
(*                                                                         *)
(* The types are inductive by themselves, with any number of requests at   *)
(* once.  The rest is about requests that come one after another           *)
(* (OneByOne), while timers fire and publications are sent between any two *)
(* of their steps:                                                         *)
(*   BeatsInv      the entry of an address is its newest heartbeat, and    *)
(*                 whatever ticks is registered or about to be;            *)
(*   SliceInv      the slice, as it will be when its header is written,    *)
(*                 has no duplicates but for the cells that the loop over  *)
(*                 it has passed, and is never misread;                    *)
(*   SweepInv      an entry without a subscription has still to be         *)
(*                 produced by the iteration over the map, or is about to  *)
(*                 be deleted.                                             *)
(* The deliveries are about requests for new subscriptions (OnlyNew):      *)
(*   NewInv        a subscription keeps the position that it was stored at;*)
(*   FeedInv       the loop over the slice comes to everything that was    *)
(*                 stored all the while, or has sent to it once.           *)
(* What a delivery consists of is proved of ServiceDelivery, for any body  *)
(* and any size of its payloads:                                           *)
(*   DeliveryInv   what the loop has not come to is intact, and so is      *)
(*                 everything where payloads are grouped; the deliveries   *)
(*                 are as long as what was received for them.              *)
(***************************************************************************)
EXTENDS SiriProxy, ServiceDelivery, SequenceTheorems, FiniteSetTheorems,
        WellFoundedInduction, TLAPS

-----------------------------------------------------------------------------
\* Sequences, and what the loops over them keep.

\* What holds of 0, and of k if it holds of k - 1, holds up to n.
LEMMA Induction ==
    ASSUME NEW n \in Nat, NEW T, 0 \in T, \A k \in 1 .. n : k - 1 \in T => k \in T
    PROVE  0 .. n \subseteq T
<1> DEFINE Left == (0 .. n) \ T
           R == OpToRel(<, Nat)
<1>1. \A x, y \in Nat : <<y, x>> \in R <=> y < x
  BY DEF OpToRel
<1>2. IsWellFoundedOn(R, Nat)
  BY NatLessThanWellFounded
<1>3. Left \subseteq Nat
  OBVIOUS
<1> HIDE DEF R
<1> SUFFICES ASSUME Left # {} PROVE FALSE
  OBVIOUS
<1>4. PICK x \in Left : \A y \in Left : <<y, x>> \notin R
  BY <1>2, <1>3, WFMin
<1>5. x \in 1 .. n
  OBVIOUS
<1>6. x - 1 \notin Left
  <2>1. x - 1 \in Nat /\ x \in Nat /\ x - 1 < x
    BY <1>5
  <2> QED
    BY <1>1, <1>4, <2>1
<1> QED
  BY <1>5, <1>6

\* kept is what is kept of s, position by position.
KeptBy(s, gone, kept) ==
    /\ Kept(s, gone) = kept[Len(s)]
    /\ kept[0] = << >>
    /\ \A k \in 1 .. Len(s) :
          kept[k] = IF s[k] \in gone THEN kept[k - 1] ELSE Append(kept[k - 1], s[k])

\* The recursion of Kept is defined for every position.
LEMMA KeptSteps ==
    ASSUME NEW S, NEW s \in Seq(S), NEW gone
    PROVE  \E kept \in [0 .. Len(s) -> Seq(S)] : KeptBy(s, gone, kept)
<1> DEFINE Step(g, k) == IF k = 0 THEN << >>
                         ELSE IF s[k] \in gone THEN g[k - 1] ELSE Append(g[k - 1], s[k])
           Fits(g, n) == \A k \in 0 .. n : g[k] = Step(g, k)
           T == {n \in 0 .. Len(s) : \E g \in [0 .. n -> Seq(S)] : Fits(g, n)}
<1>1. Len(s) \in Nat
  OBVIOUS
<1>2. 0 \in T
  <2> DEFINE g == [k \in 0 .. 0 |-> << >>]
  <2>1. g \in [0 .. 0 -> Seq(S)] /\ Fits(g, 0)
    OBVIOUS
  <2> HIDE DEF g, Fits
  <2> QED
    BY <1>1, <2>1
<1>3. ASSUME NEW n \in 1 .. Len(s), n - 1 \in T PROVE n \in T
  <2>1. PICK g \in [0 .. n - 1 -> Seq(S)] : Fits(g, n - 1)
    BY <1>3
  <2> DEFINE h == [k \in 0 .. n |-> IF k = n THEN Step(g, n) ELSE g[k]]
  <2>2. s[n] \in S /\ g[n - 1] \in Seq(S) /\ n # 0
    OBVIOUS
  <2>3. Step(g, n) \in Seq(S)
    BY <2>2, AppendProperties
  <2>4. h \in [0 .. n -> Seq(S)]
    <3> HIDE DEF Step
    <3> QED
      BY <2>3
  <2>5. ASSUME NEW k \in 0 .. n PROVE h[k] = Step(h, k)
    <3>1. CASE k = n
      <4>1. h[n] = Step(g, n) /\ h[n - 1] = g[n - 1]
        OBVIOUS
      <4> HIDE DEF h
      <4> QED
        BY <3>1, <4>1
    <3>2. CASE k # n
      <4>1. k \in 0 .. n - 1 /\ h[k] = g[k] /\ (k # 0 => h[k - 1] = g[k - 1])
        BY <3>2
      <4>2. g[k] = Step(g, k)
        BY <2>1, <4>1
      <4> HIDE DEF h
      <4> QED
        BY <4>1, <4>2
    <3> QED
      BY <3>1, <3>2
  <2> HIDE DEF h
  <2>6. Fits(h, n)
    BY <2>5
  <2> HIDE DEF Fits
  <2> QED
    BY <2>4, <2>6
<1>4. Len(s) \in T
  <2> HIDE DEF T
  <2>1. 0 .. Len(s) \subseteq T
    BY <1>1, <1>2, <1>3, Induction
  <2> QED
    BY <2>1
<1>5. PICK g \in [0 .. Len(s) -> Seq(S)] : Fits(g, Len(s))
  BY <1>4
<1> DEFINE F == [k \in 0 .. Len(s) |-> Step(g, k)]
           kept == CHOOSE f : f = [k \in 0 .. Len(s) |-> Step(f, k)]
<1>6. g = F
  BY <1>5
<1>7. kept = [k \in 0 .. Len(s) |-> Step(kept, k)]
  BY <1>6
<1>8. Kept(s, gone) = kept[Len(s)]
  BY DEF Kept
<1> HIDE DEF kept
<1>9. ASSUME NEW k \in 0 .. Len(s) PROVE kept[k] = Step(kept, k)
  <2> HIDE DEF Step
  <2> QED
    BY <1>7
<1>10. kept \in [0 .. Len(s) -> Seq(S)]
  <2> DEFINE U == {k \in 0 .. Len(s) : kept[k] \in Seq(S)}
  <2>1. 0 \in U
    BY <1>7
  <2>2. ASSUME NEW k \in 1 .. Len(s), k - 1 \in U PROVE k \in U
    <3>1. kept[k] = Step(kept, k) /\ k \in 0 .. Len(s)
      BY <1>1, <1>9
    <3>2. k # 0 /\ s[k] \in S /\ kept[k - 1] \in Seq(S)
      BY <2>2
    <3>3. Append(kept[k - 1], s[k]) \in Seq(S)
      BY <3>2, AppendProperties
    <3> QED
      BY <3>1, <3>2, <3>3
  <2>3. 0 .. Len(s) \subseteq U
    <3> HIDE DEF U
    <3> QED
      BY <1>1, <2>1, <2>2, Induction
  <2>4. \A k \in 0 .. Len(s) : kept[k] \in Seq(S)
    BY <2>3
  <2> QED
    BY <1>7, <2>4
<1>11. kept[0] = << >>
  BY <1>1, <1>9
<1>12. ASSUME NEW k \in 1 .. Len(s)
       PROVE  kept[k] = IF s[k] \in gone THEN kept[k - 1] ELSE Append(kept[k - 1], s[k])
  BY <1>1, <1>9
<1> QED
  BY <1>8, <1>10, <1>11, <1>12 DEF KeptBy

\* What is kept of s: all that is not to go, each once, in its order.
LEMMA KeptProperties ==
    ASSUME NEW S, NEW s \in Seq(S), NEW gone
    PROVE  /\ Kept(s, gone) \in Seq(S)
           /\ Len(Kept(s, gone)) <= Len(s)
           /\ Range(Kept(s, gone)) = Range(s) \ gone
           /\ \A j, k \in DOMAIN Kept(s, gone) : j < k =>
                \E p, q \in DOMAIN s : /\ p < q
                                       /\ Kept(s, gone)[j] = s[p] /\ Kept(s, gone)[k] = s[q]
<1>1. PICK kept \in [0 .. Len(s) -> Seq(S)] : KeptBy(s, gone, kept)
  BY KeptSteps, Zenon
<1>2. /\ Kept(s, gone) = kept[Len(s)]
      /\ kept[0] = << >>
      /\ \A k \in 1 .. Len(s) :
            kept[k] = IF s[k] \in gone THEN kept[k - 1] ELSE Append(kept[k - 1], s[k])
  BY <1>1 DEF KeptBy
<1> DEFINE P(n, t) ==
             /\ Len(t) <= n
             /\ \A j \in DOMAIN t : \E p \in 1 .. n : t[j] = s[p] /\ s[p] \notin gone
             /\ \A p \in 1 .. n : s[p] \notin gone => \E j \in DOMAIN t : t[j] = s[p]
             /\ \A j, k \in DOMAIN t : j < k =>
                  \E p, q \in 1 .. n : p < q /\ t[j] = s[p] /\ t[k] = s[q]
           T == {n \in 0 .. Len(s) : P(n, kept[n])}
<1>3. Len(s) \in Nat
  OBVIOUS
<1>4. 0 \in T
  BY <1>3, <1>2
<1>5. ASSUME NEW n \in 1 .. Len(s), n - 1 \in T PROVE n \in T
  <2> DEFINE t == kept[n - 1]
  <2>1. t \in Seq(S) /\ s[n] \in S /\ n \in Nat /\ n # 0
    OBVIOUS
  <2>2. P(n - 1, t)
    BY <1>5
  <2>3. CASE s[n] \in gone
    <3>1. kept[n] = t
      BY <1>2, <2>3
    <3> HIDE DEF t
    <3>2. \A p \in 1 .. n : s[p] \notin gone => p \in 1 .. n - 1
      BY <2>1, <2>3
    <3>3. Len(t) <= n /\ 1 .. n - 1 \subseteq 1 .. n
      BY <2>1, <2>2
    <3>4. \A j \in DOMAIN t : \E p \in 1 .. n : t[j] = s[p] /\ s[p] \notin gone
      BY <2>2, <3>3
    <3>5. \A p \in 1 .. n : s[p] \notin gone => \E j \in DOMAIN t : t[j] = s[p]
      BY <2>2, <3>2
    <3>6. \A j, k \in DOMAIN t : j < k =>
             \E p, q \in 1 .. n : p < q /\ t[j] = s[p] /\ t[k] = s[q]
      BY <2>2, <3>3
    <3>7. P(n, t)
      BY <3>3, <3>4, <3>5, <3>6
    <3> HIDE DEF P
    <3> QED
      BY <3>1, <3>7
  <2>4. CASE s[n] \notin gone
    <3> DEFINE u == Append(t, s[n])
    <3>1. kept[n] = u
      BY <1>2, <2>4
    <3> HIDE DEF t
    <3>2. u \in Seq(S) /\ Len(u) = Len(t) + 1 /\ DOMAIN u = 1 .. Len(t) + 1 /\ DOMAIN t = 1 .. Len(t)
      BY <2>1, AppendProperties
    <3>3. u[Len(t) + 1] = s[n] /\ \A j \in 1 .. Len(t) : u[j] = t[j]
      BY <2>1, AppendProperties
    <3>4. Len(u) <= n
      BY <2>1, <2>2, <3>2
    <3> HIDE DEF u
    <3>5. ASSUME NEW j \in DOMAIN u PROVE \E p \in 1 .. n : u[j] = s[p] /\ s[p] \notin gone
      BY <2>1, <2>2, <2>4, <3>2, <3>3, SMTT(30)
    <3>6. ASSUME NEW p \in 1 .. n, s[p] \notin gone PROVE \E j \in DOMAIN u : u[j] = s[p]
      <4>1. CASE p = n
        BY <2>1, <3>2, <3>3, <4>1
      <4>2. CASE p # n
        <5>1. PICK j \in DOMAIN t : t[j] = s[p]
          BY <2>1, <2>2, <3>6, <4>2
        <5> QED
          BY <2>1, <3>2, <3>3, <5>1
      <4> QED
        BY <4>1, <4>2
    <3>7. ASSUME NEW j \in DOMAIN u, NEW k \in DOMAIN u, j < k
          PROVE  \E p, q \in 1 .. n : p < q /\ u[j] = s[p] /\ u[k] = s[q]
      <4>1. j \in DOMAIN t
        BY <2>1, <3>2, <3>7
      <4>2. CASE k = Len(t) + 1
        <5>1. PICK p \in 1 .. n - 1 : t[j] = s[p]
          BY <2>2, <4>1
        <5>2. p < n /\ p \in 1 .. n /\ n \in 1 .. n /\ u[j] = s[p] /\ u[k] = s[n]
          BY <2>1, <3>2, <3>3, <4>1, <4>2, <5>1
        <5> QED
          BY <5>2
      <4>3. CASE k # Len(t) + 1
        <5>1. k \in DOMAIN t
          BY <2>1, <3>2, <4>3
        <5>2. PICK p \in 1 .. n - 1, q \in 1 .. n - 1 : p < q /\ t[j] = s[p] /\ t[k] = s[q]
          BY <2>2, <3>7, <4>1, <5>1
        <5> QED
          BY <2>1, <3>2, <3>3, <4>1, <5>1, <5>2
      <4> QED
        BY <4>2, <4>3
    <3>8. P(n, u)
      BY <3>4, <3>5, <3>6, <3>7
    <3> HIDE DEF P
    <3> QED
      BY <3>1, <3>8
  <2> QED
    BY <2>3, <2>4
<1>6. P(Len(s), kept[Len(s)])
  <2>1. Len(s) \in T
    <3> HIDE DEF T
    <3>1. 0 .. Len(s) \subseteq T
      BY <1>3, <1>4, <1>5, Induction
    <3> QED
      BY <3>1
  <2> HIDE DEF P
  <2> QED
    BY <2>1
<1>7. DOMAIN s = 1 .. Len(s) /\ kept[Len(s)] \in Seq(S)
  OBVIOUS
<1> DEFINE t == kept[Len(s)]
<1>8. Len(t) <= Len(s) /\ t \in Seq(S) /\ Kept(s, gone) = t
  BY <1>2, <1>6, <1>7
<1>9. Range(t) = Range(s) \ gone
  BY <1>6, <1>7 DEF Range
<1>10. ASSUME NEW j \in DOMAIN t, NEW k \in DOMAIN t, j < k
      PROVE  \E p, q \in DOMAIN s : p < q /\ t[j] = s[p] /\ t[k] = s[q]
  <2>1. PICK p \in 1 .. Len(s), q \in 1 .. Len(s) : p < q /\ t[j] = s[p] /\ t[k] = s[q]
    BY <1>6, <1>10
  <2> QED
    BY <1>7, <2>1
<1> HIDE DEF t
<1> QED
  BY <1>8, <1>9, <1>10

\* What is left of confirmed subscriptions: each once.
LEMMA WithoutDuplicatesProperties ==
    ASSUME NEW S, NEW refs \in Seq(S)
    PROVE  /\ WithoutDuplicates(refs) \in Seq(S)
           /\ Range(WithoutDuplicates(refs)) = Range(refs)
           /\ \A j, k \in DOMAIN WithoutDuplicates(refs) :
                WithoutDuplicates(refs)[j] = WithoutDuplicates(refs)[k] => j = k
<1> DEFINE again  == {k \in DOMAIN refs : \E j \in 1 .. k - 1 : refs[j] = refs[k]}
           id     == [k \in DOMAIN refs |-> k]
           firsts == Kept(id, again)
           t      == [k \in DOMAIN firsts |-> refs[firsts[k]]]
<1>1. Len(refs) \in Nat /\ DOMAIN refs = 1 .. Len(refs)
  OBVIOUS
<1>2. /\ id \in Seq(DOMAIN refs) /\ DOMAIN id = DOMAIN refs
      /\ \A k \in DOMAIN refs : id[k] = k
  BY <1>1
<1>3. Range(id) = DOMAIN refs
  BY <1>2 DEF Range
<1> HIDE DEF id, again
<1>4. /\ firsts \in Seq(DOMAIN refs) /\ Range(firsts) = DOMAIN refs \ again
      /\ \A j, k \in DOMAIN firsts : j < k =>
           \E p, q \in DOMAIN id : p < q /\ firsts[j] = id[p] /\ firsts[k] = id[q]
  BY <1>2, <1>3, KeptProperties
<1>5. \A j, k \in DOMAIN firsts : j < k => firsts[j] < firsts[k]
  BY <1>2, <1>4
<1>6. DOMAIN firsts = 1 .. Len(firsts) /\ Len(firsts) \in Nat
      /\ \A k \in DOMAIN firsts : firsts[k] \in DOMAIN refs \ again
  BY <1>4 DEF Range
<1>7. WithoutDuplicates(refs) = t
  BY DEF WithoutDuplicates, again, id
<1> HIDE DEF firsts
<1>8. t \in Seq(S) /\ DOMAIN t = DOMAIN firsts
  BY <1>6
<1>9. \A j, k \in DOMAIN t : t[j] = t[k] => j = k
  <2>1. ASSUME NEW j \in DOMAIN t, NEW k \in DOMAIN t, j < k PROVE t[j] # t[k]
    <3>1. j \in DOMAIN firsts /\ k \in DOMAIN firsts
      BY <1>8
    <3>2. /\ firsts[j] \in 1 .. Len(refs) /\ firsts[k] \in 1 .. Len(refs) /\ firsts[j] < firsts[k]
          /\ firsts[k] \notin again /\ firsts[k] \in DOMAIN refs
      BY <1>1, <1>5, <1>6, <2>1, <3>1
    <3>3. firsts[j] \in 1 .. firsts[k] - 1
      BY <1>1, <3>2
    <3>4. refs[firsts[j]] # refs[firsts[k]]
      BY <3>2, <3>3 DEF again
    <3> QED
      BY <3>1, <3>4
  <2>2. \A j, k \in DOMAIN t : j \in Nat /\ k \in Nat
    BY <1>6, <1>8
  <2> HIDE DEF t
  <2> QED
    BY <2>1, <2>2
<1>10. Range(t) = Range(refs)
  <2>1. Range(t) \subseteq Range(refs)
    BY <1>6, <1>8 DEF Range
  <2> DEFINE T == {n \in 0 .. Len(refs) :
                     \A k \in 1 .. n : \E j \in DOMAIN refs \ again : refs[j] = refs[k]}
  <2>2. 0 \in T
    BY <1>1
  <2>3. ASSUME NEW n \in 1 .. Len(refs), n - 1 \in T PROVE n \in T
    <3>1. \A k \in 1 .. n - 1 : \E j \in DOMAIN refs \ again : refs[j] = refs[k]
      BY <2>3
    <3>2. \E j \in DOMAIN refs \ again : refs[j] = refs[n]
      <4>1. CASE n \in again
        <5>1. PICK k \in 1 .. n - 1 : refs[k] = refs[n]
          BY <4>1 DEF again
        <5> QED
          BY <3>1, <5>1
      <4>2. CASE n \notin again
        BY <1>1, <4>2
      <4> QED
        BY <4>1, <4>2
    <3>3. \A k \in 1 .. n : k \in 1 .. n - 1 \/ k = n
      BY <1>1
    <3> QED
      BY <1>1, <3>1, <3>2, <3>3
  <2>4. Len(refs) \in T
    <3> HIDE DEF T
    <3>1. 0 .. Len(refs) \subseteq T
      BY <1>1, <2>2, <2>3, Induction
    <3> QED
      BY <1>1, <3>1
  <2>5. ASSUME NEW k \in DOMAIN refs PROVE refs[k] \in Range(t)
    <3>1. PICK j \in DOMAIN refs \ again : refs[j] = refs[k]
      BY <1>1, <2>4
    <3>2. PICK i \in DOMAIN firsts : firsts[i] = j
      BY <1>4 DEF Range, firsts
    <3>3. t[i] = refs[k]
      BY <3>1, <3>2
    <3> HIDE DEF t
    <3> QED
      BY <1>8, <3>2, <3>3 DEF Range
  <2> HIDE DEF t
  <2> QED
    BY <2>1, <2>5 DEF Range
<1> HIDE DEF t
<1> QED
  BY <1>7, <1>8, <1>9, <1>10

-----------------------------------------------------------------------------
\* Types: the slice of subscriptions, the clients, the heartbeats and the feeds.

\* What a cell of an array holds: a subscription, or what make left there.
Cells == SiriSubscription \cup {Nil}

\* The subscriptions that a header makes visible.
Slice(h) == SubSeq(arrays[h.arr], 1, h.len)

\* A heartbeat is registered under the address that it was made for.
Registering ==
    \A c \in Clients :
        client[c].pc = "register" => beats[client[c].beat].address = client[c].address

\* Only the clients of the scenario are busy.
Within == \A c \in Clients : client[c].pc # "idle" => c \in scenario.clients

\* The inductive invariant of the types.
TypeInv == TypeOK /\ TickerHasTimer /\ Registering /\ Within

\* The lesser of two naturals, as Min chooses it.
LEMMA MinOfTwo ==
    ASSUME NEW m \in Nat, NEW n \in Nat
    PROVE  Min({m, n}) = IF m <= n THEN m ELSE n
<1>1. CASE m <= n
  <2>1. \A x \in {m, n} : (\A y \in {m, n} : x <= y) <=> x = m
    BY <1>1
  <2> QED
    BY <1>1, <2>1 DEF Min
<1>2. CASE ~ (m <= n)
  <2>1. \A x \in {m, n} : (\A y \in {m, n} : x <= y) <=> x = n
    BY <1>2
  <2> QED
    BY <1>2, <2>1 DEF Min
<1> QED
  BY <1>1, <1>2

\* The length and the members of a concatenation.
LEMMA Concatenated ==
    ASSUME NEW S, NEW s \in Seq(S), NEW t \in Seq(S)
    PROVE  /\ s \o t \in Seq(S) /\ Len(s \o t) = Len(s) + Len(t) /\ Len(s) \in Nat /\ Len(t) \in Nat
           /\ Len(s) <= Len(s \o t)
           /\ \A k \in 1 .. Len(s) : (s \o t)[k] = s[k]
           /\ \A k \in 1 .. Len(t) : (s \o t)[Len(s) + k] = t[k]
<1>1. s \o t \in Seq(S) /\ Len(s \o t) = Len(s) + Len(t)
  BY ConcatProperties
<1>2. Len(s) \in Nat /\ Len(t) \in Nat
  OBVIOUS
<1>3. \A k \in 1 .. Len(s) + Len(t) :
        (s \o t)[k] = IF k <= Len(s) THEN s[k] ELSE t[k - Len(s)]
  BY ConcatProperties
<1> QED
  BY <1>1, <1>2, <1>3

\* What a readable header makes visible is a sequence of subscriptions.
LEMMA SliceProperties ==
    ASSUME TypeOK, NEW h \in Header, Readable(h)
    PROVE  /\ Slice(h) \in Seq(SiriSubscription) /\ Len(Slice(h)) = h.len
           /\ DOMAIN Slice(h) = 1 .. h.len
           /\ h.len <= Len(arrays[h.arr])
           /\ \A k \in 1 .. h.len : Slice(h)[k] = arrays[h.arr][k]
<1> DEFINE A == arrays[h.arr]
<1>1. A \in Seq(Cells) /\ h.len \in Nat /\ h.arr \in DOMAIN arrays
  BY DEF TypeOK, Header, Cells
<1>2. h.len <= Len(A) /\ \A k \in 1 .. h.len : A[k] # Nil
  BY <1>1 DEF Readable, PastEnd
<1> HIDE DEF A
<1>3. \A k \in 1 .. h.len : A[k] \in SiriSubscription
  BY <1>1, <1>2 DEF Cells
<1>4. SubSeq(A, 1, h.len) = [k \in 1 .. h.len |-> A[k]]
  BY <1>1, <1>2
<1>5. [k \in 1 .. h.len |-> A[k]] \in Seq(SiriSubscription)
  BY <1>1, <1>3
<1>6. Slice(h) = SubSeq(A, 1, h.len)
  BY DEF Slice, A
<1> QED
  BY <1>1, <1>2, <1>4, <1>5, <1>6 DEF A

\* The loop over the slice writes a cell, and cuts the slice.
LEMMA CellWritten ==
    ASSUME TypeOK, NEW c \in Clients, KeepCell(c), client[c].pass \in Pass
    PROVE  /\ arrays' \in Seq(Seq(Cells)) /\ Len(arrays') = Len(arrays) /\ subs' \in Header'
           /\ Len(arrays) \in Nat
<1> DEFINE w == client[c]
           A == arrays[subs.arr]
           v == Visited(w)
           B == [A EXCEPT ![w.pass.kept + 1] = v]
<1>1. /\ arrays \in Seq(Seq(Cells)) /\ subs.arr \in DOMAIN arrays /\ subs \in Header
      /\ w.pass.header.arr \in DOMAIN arrays /\ w.pass.n \in Nat \ {0} /\ w.pass.kept \in Nat
  BY DEF TypeOK, Header, Cells, Pass
<1>2. /\ w.pass.n <= Len(arrays[w.pass.header.arr]) /\ w.pass.kept < Len(A)
      /\ arrays' = [arrays EXCEPT ![subs.arr][w.pass.kept + 1] = v] /\ subs' = subs
  BY DEF KeepCell, InArray
<1>3. A \in Seq(Cells) /\ arrays[w.pass.header.arr] \in Seq(Cells)
  BY <1>1
<1>4. v \in Cells
  <2>1. w.pass.n \in 1 .. Len(arrays[w.pass.header.arr])
    BY <1>1, <1>2, <1>3
  <2> QED
    BY <1>3, <2>1 DEF Visited
<1> HIDE DEF v
<1>5. w.pass.kept + 1 \in 1 .. Len(A)
  BY <1>1, <1>2, <1>3, SMTT(30)
<1> HIDE DEF A
<1>6. B \in Seq(Cells)
  BY <1>3, <1>4, <1>5
<1>7. arrays' = [arrays EXCEPT ![subs.arr] = B]
  BY <1>2 DEF A
<1> HIDE DEF B
<1>8. arrays' \in Seq(Seq(Cells)) /\ Len(arrays') = Len(arrays) /\ Len(arrays) \in Nat
      /\ DOMAIN arrays' = DOMAIN arrays
  BY <1>1, <1>6, <1>7
<1> QED
  BY <1>1, <1>2, <1>8 DEF Header

LEMMA SliceCut ==
    ASSUME TypeOK, NEW w, w.pass \in Pass, Cut(w)
    PROVE  /\ arrays' \in Seq(Seq(Cells)) /\ Len(arrays') = Len(arrays) /\ subs' \in Header'
           /\ Len(arrays) \in Nat
<1>1. /\ arrays \in Seq(Seq(Cells)) /\ subs \in Header /\ w.pass.kept \in Nat
      /\ arrays' = arrays /\ subs' = [subs EXCEPT !.len = w.pass.kept]
  BY DEF TypeOK, Cells, Pass, Cut
<1>2. subs' \in Header'
  BY <1>1 DEF Header
<1> QED
  BY <1>1, <1>2

\* A list begins with the list of its first elements.
LEMMA BeginsWith ==
    ASSUME NEW S, NEW s \in Seq(S), NEW t \in Seq(S), Len(t) <= Len(s),
           \A k \in 1 .. Len(t) : s[k] = t[k]
    PROVE  SubSeq(s, 1, Len(t)) = t
<1>1. PICK n \in Nat : n = Len(t) /\ n <= Len(s)
  OBVIOUS
<1>2. PICK b : b = SubSeq(s, 1, n)
  OBVIOUS
<1>3. b \in Seq(S) /\ Len(b) = n /\ \A k \in 1 .. n : b[k] = s[k]
  BY <1>1, <1>2
<1>4. b = t
  BY <1>1, <1>3
<1> QED
  BY <1>1, <1>2, <1>4

\* append, when nothing has changed since it read the header: the cells behind the
\* slice are written, or it is copied.
LEMMA Appended ==
    ASSUME TypeOK, NEW c \in Clients, Store(c), client[c].pass.header = subs, Readable(subs),
           client[c].request \in SubscriptionRequest, client[c].refs \in Seq(SubscriptionRefs)
    PROVE  LET refs == WithoutDuplicates(client[c].refs)
               new  == [k \in DOMAIN refs |-> Requested(client[c].request, refs[k])]
               all  == Stored \o new
           IN  /\ Readable(subs) /\ Stored \in Seq(SiriSubscription)
               /\ refs \in Seq(SubscriptionRefs) /\ new \in Seq(SiriSubscription)
               /\ arrays' \in Seq(Seq(Cells)) /\ Len(arrays) <= Len(arrays')
               /\ \E h \in Header' :
                    /\ Goto(c, [ pc |-> "header", request |-> client[c].request, next |-> h,
                                 unwritten |-> Parts ])
                    /\ Slice(h)' = all /\ Readable(h)'
                    /\ subs.len <= h.len
                    /\ h.arr = subs.arr \/ h.len > Len(arrays'[subs.arr])
                    /\ Stored' = Stored /\ Readable(subs)' /\ subs \in Header'
<1> DEFINE refs == WithoutDuplicates(client[c].refs)
           new  == [k \in DOMAIN refs |-> Requested(client[c].request, refs[k])]
           all  == Stored \o new
           A == arrays[subs.arr]
           State(arr) == [ pc |-> "header", request |-> client[c].request,
                           next |-> [arr |-> arr, len |-> Len(all)], unwritten |-> Parts ]
<1>1. Readable(subs) /\ subs \in Header /\ Stored = Slice(subs) /\ subs' = subs
  BY DEF Store, TypeOK, Stored, Slice
<1>2. Stored \in Seq(SiriSubscription) /\ Len(Stored) = subs.len /\ subs.len <= Len(A)
      /\ \A k \in 1 .. subs.len : Stored[k] = A[k]
  BY <1>1, SliceProperties
<1>3. refs \in Seq(SubscriptionRefs)
  BY WithoutDuplicatesProperties
<1>4. new \in Seq(SiriSubscription) /\ Len(new) = Len(refs)
  <2>1. \A k \in DOMAIN refs : refs[k] \in SubscriptionRefs
    BY <1>3
  <2> HIDE DEF refs
  <2>2. \A k \in DOMAIN refs : Requested(client[c].request, refs[k]) \in SiriSubscription
    BY <2>1 DEF Requested, SubscriptionRequest, SiriSubscription
  <2> QED
    BY <1>3, <2>2
<1> HIDE DEF refs
<1>5. /\ A \in Seq(Cells) /\ subs.arr \in DOMAIN arrays /\ Len(A) \in Nat /\ subs.len \in Nat
      /\ arrays \in Seq(Seq(Cells))
  BY DEF TypeOK, Header, Cells
<1>6. \/ /\ Len(all) <= Len(A)
         /\ arrays' = [arrays EXCEPT ![subs.arr] = all \o SubSeq(@, Len(all) + 1, Len(A))]
         /\ Goto(c, State(subs.arr))
      \/ /\ Len(all) > Len(A)
         /\ \E extra \in 0 .. Len(all) :
               arrays' = Append(arrays, all \o [k \in 1 .. extra |-> Nil])
         /\ Goto(c, State(Len(arrays) + 1))
  BY DEF Store, refs, Stored
<1> HIDE DEF new, A, State
<1>7. /\ all \in Seq(SiriSubscription) /\ Len(all) = subs.len + Len(new) /\ Len(all) \in Nat
      /\ \A k \in 1 .. subs.len : all[k] = A[k]
  <2>1. /\ all \in Seq(SiriSubscription) /\ Len(all) = Len(Stored) + Len(new)
        /\ Len(Stored) \in Nat /\ Len(new) \in Nat
        /\ \A k \in 1 .. Len(Stored) : all[k] = Stored[k]
    BY <1>2, <1>4, Concatenated
  <2> HIDE DEF all
  <2>2. ASSUME NEW k \in 1 .. subs.len PROVE all[k] = A[k]
    <3>1. k \in 1 .. Len(Stored) /\ Stored[k] = A[k]
      BY <1>2
    <3> QED
      BY <2>1, <3>1
  <2> QED
    BY <1>2, <2>1, <2>2
<1> HIDE DEF all
<1>8. all \in Seq(Cells) /\ \A k \in 1 .. Len(all) : all[k] # Nil
  <2>1. \A k \in 1 .. Len(all) : all[k] \in SiriSubscription
    BY <1>7
  <2> QED
    BY <1>7, <2>1, SiriProxyAssumption DEF Cells
<1>9. subs.len <= Len(all) /\ \A k \in 1 .. subs.len : A[k] # Nil
  <2>1. subs.len <= Len(all)
    BY <1>4, <1>5, <1>7
  <2>2. ASSUME NEW k \in 1 .. subs.len PROVE A[k] # Nil
    <3>1. k \in 1 .. Len(all) /\ all[k] = A[k]
      BY <1>5, <1>7, <2>1
    <3> QED
      BY <1>8, <3>1
  <2> QED
    BY <2>1, <2>2
<1> DEFINE Goal ==
             /\ arrays' \in Seq(Seq(Cells)) /\ Len(arrays) <= Len(arrays')
             /\ \E h \in Header' :
                    /\ Goto(c, [ pc |-> "header", request |-> client[c].request, next |-> h,
                                 unwritten |-> Parts ])
                    /\ Slice(h)' = all /\ Readable(h)'
                    /\ subs.len <= h.len
                    /\ h.arr = subs.arr \/ h.len > Len(arrays'[subs.arr])
                    /\ Stored' = Stored /\ Readable(subs)' /\ subs \in Header'
<1>10. ASSUME NEW B \in Seq(Cells), NEW arr \in DOMAIN arrays', Goto(c, State(arr)),
              arrays' \in Seq(Seq(Cells)), Len(arrays) <= Len(arrays'),
              arrays'[arr] = B, Len(all) <= Len(B), \A k \in 1 .. Len(all) : B[k] = all[k],
              arr = subs.arr \/ (arrays'[subs.arr] = A /\ Len(all) > Len(A))
       PROVE  Goal
  <2> DEFINE D == arrays'[subs.arr]
  <2>1. subs.arr \in DOMAIN arrays'
    BY <1>5, <1>10
  <2>2. [arr |-> arr, len |-> Len(all)] \in Header'
    BY <1>7, <1>10 DEF Header
  <2>3. PICK h \in Header' : h = [arr |-> arr, len |-> Len(all)]
    BY <2>2
  <2>4. h.arr = arr /\ h.len = Len(all)
    BY <2>3
  <2>5. SubSeq(B, 1, Len(all)) = all
    <3>1. /\ B \in Seq(Cells) /\ all \in Seq(Cells) /\ Len(all) <= Len(B)
          /\ \A k \in 1 .. Len(all) : B[k] = all[k]
      BY <1>8, <1>10
    <3> QED
      BY <3>1, BeginsWith
  <2>6. Slice(h)' = all
    <3>1. Slice(h)' = SubSeq(arrays'[h.arr], 1, h.len)
      BY DEF Slice
    <3> QED
      BY <1>10, <2>4, <2>5, <3>1
  <2>7. Readable(h)'
    <3>1. \A k \in 1 .. Len(all) : B[k] # Nil
      BY <1>8, <1>10
    <3>2. Readable(h)' <=> /\ ~ (h.len > Len(arrays'[h.arr]))
                           /\ \A k \in 1 .. h.len : arrays'[h.arr][k] # Nil
      BY DEF Readable, PastEnd
    <3>3. Len(all) \in Nat /\ Len(B) \in Nat /\ Len(all) <= Len(B)
      BY <1>7, <1>10
    <3> QED
      BY <1>10, <2>4, <3>1, <3>2, <3>3
  <2>8. D \in Seq(Cells) /\ subs.len <= Len(D) /\ \A k \in 1 .. subs.len : D[k] = A[k]
    <3>1. CASE arr = subs.arr
      <4>1. D = B
        BY <1>10, <3>1
      <4> HIDE DEF D
      <4>2. ASSUME NEW k \in 1 .. subs.len PROVE D[k] = A[k]
        <5>1. k \in 1 .. Len(all)
          BY <1>5, <1>7, <1>9, SMTT(30)
        <5> QED
          BY <1>7, <1>10, <4>1, <5>1
      <4>3. Len(B) \in Nat
        BY <1>10
      <4> QED
        BY <1>5, <1>7, <1>9, <1>10, <4>1, <4>2, <4>3, SMTT(30)
    <3>2. CASE arrays'[subs.arr] = A /\ Len(all) > Len(A)
      BY <1>2, <1>5, <3>2
    <3> QED
      BY <1>10, <3>1, <3>2
  <2> HIDE DEF D
  <2>9. SubSeq(D, 1, subs.len) = SubSeq(A, 1, subs.len)
    BY <1>2, <1>5, <2>8
  <2>10. Stored' = Stored
    BY <1>1, <2>9 DEF Stored, A, D
  <2>11. Readable(subs)'
    <3>1. \A k \in 1 .. subs.len : D[k] # Nil
      BY <1>9, <2>8
    <3>2. Len(D) \in Nat
      BY <2>8
    <3> QED
      BY <1>1, <1>5, <2>8, <3>1, <3>2 DEF Readable, PastEnd, D
  <2>12. subs \in Header'
    BY <1>1, <2>1 DEF Header
  <2>13. Goto(c, [pc |-> "header", request |-> client[c].request, next |-> h, unwritten |-> Parts])
    BY <1>10, <2>3 DEF State
  <2>14. h.arr = subs.arr \/ h.len > Len(arrays'[subs.arr])
    BY <1>10, <2>4
  <2>15. subs.len <= h.len
    BY <1>9, <2>4
  <2>16. \E x \in Header' :
            /\ Goto(c, [ pc |-> "header", request |-> client[c].request, next |-> x,
                         unwritten |-> Parts ])
            /\ Slice(x)' = all /\ Readable(x)'
            /\ subs.len <= x.len
            /\ x.arr = subs.arr \/ x.len > Len(arrays'[subs.arr])
            /\ Stored' = Stored /\ Readable(subs)' /\ subs \in Header'
    <3> WITNESS h \in Header'
    <3> QED
      BY <2>6, <2>7, <2>10, <2>11, <2>12, <2>13, <2>14, <2>15
  <2> QED
    BY <1>10, <2>16
<1> HIDE DEF Goal
<1>11. Goal
  <2>1. CASE /\ Len(all) <= Len(A)
             /\ arrays' = [arrays EXCEPT ![subs.arr] = all \o SubSeq(@, Len(all) + 1, Len(A))]
             /\ Goto(c, State(subs.arr))
    <3> DEFINE tail == SubSeq(A, Len(all) + 1, Len(A))
               B == all \o tail
    <3>1. arrays' = [arrays EXCEPT ![subs.arr] = B]
      BY <2>1 DEF A
    <3>2. Len(all) <= Len(A) /\ Goto(c, State(subs.arr))
      BY ONLY <2>1
    <3>3. Len(all) \in Nat /\ Len(A) \in Nat /\ A \in Seq(Cells)
      BY <1>5, <1>7
    <3>4. tail \in Seq(Cells) /\ Len(tail) = Len(A) - Len(all)
      <4>1. PICK m \in Nat : m = Len(all) + 1
        BY <3>3
      <4>2. m \in 1 .. Len(A) + 1
        BY <3>2, <3>3, <4>1
      <4>3. /\ SubSeq(A, m, Len(A)) \in Seq(Cells)
            /\ Len(SubSeq(A, m, Len(A))) = IF m <= Len(A) THEN Len(A) - m + 1 ELSE 0
        BY <3>3, <4>2, SubSeqProperties
      <4> QED
        BY <3>2, <3>3, <4>1, <4>2, <4>3
    <3> HIDE DEF tail
    <3>5. B \in Seq(Cells) /\ Len(B) = Len(A) /\ \A k \in 1 .. Len(all) : B[k] = all[k]
      <4>1. B \in Seq(Cells) /\ Len(B) = Len(all) + Len(tail) /\ \A k \in 1 .. Len(all) : B[k] = all[k]
        BY <1>8, <3>4, Concatenated
      <4>2. Len(B) = Len(A)
        BY <3>3, <3>4, <4>1
      <4> QED
        BY <4>1, <4>2
    <3> HIDE DEF B
    <3>6. arrays' \in Seq(Seq(Cells)) /\ Len(arrays') = Len(arrays) /\ arrays'[subs.arr] = B
          /\ subs.arr \in DOMAIN arrays'
      BY <1>5, <3>1, <3>5, SMTT(30)
    <3>7. Len(arrays) <= Len(arrays') /\ Len(all) <= Len(B)
      <4>1. Len(arrays) \in Nat
        BY <1>5
      <4> QED
        BY <3>2, <3>5, <3>6, <4>1
    <3> QED
      BY <1>10, <3>2, <3>5, <3>6, <3>7
  <2>2. CASE /\ Len(all) > Len(A)
             /\ \E extra \in 0 .. Len(all) :
                   arrays' = Append(arrays, all \o [k \in 1 .. extra |-> Nil])
             /\ Goto(c, State(Len(arrays) + 1))
    <3>1. PICK extra \in 0 .. Len(all) :
                   arrays' = Append(arrays, all \o [k \in 1 .. extra |-> Nil])
      BY <2>2
    <3> DEFINE none == [k \in 1 .. extra |-> Nil]
               B == all \o none
    <3>2. none \in Seq(Cells) /\ Len(none) = extra
      BY <1>7 DEF Cells
    <3> HIDE DEF none
    <3>3. B \in Seq(Cells) /\ Len(B) = Len(all) + extra /\ \A k \in 1 .. Len(all) : B[k] = all[k]
      BY <1>7, <1>8, <3>2, Concatenated
    <3>4. arrays' = Append(arrays, B)
      BY <3>1 DEF none
    <3> HIDE DEF B
    <3>5. /\ arrays' \in Seq(Seq(Cells)) /\ Len(arrays') = Len(arrays) + 1
          /\ arrays'[Len(arrays) + 1] = B /\ arrays'[subs.arr] = A
          /\ Len(arrays) + 1 \in DOMAIN arrays'
      BY <1>5, <3>3, <3>4, SMTT(30) DEF A
    <3>6. Len(arrays) <= Len(arrays') /\ Len(all) <= Len(B)
      <4>1. Len(arrays) \in Nat /\ Len(all) \in Nat
        BY <1>5, <1>7
      <4>2. Len(B) = Len(all) + extra /\ Len(arrays') = Len(arrays) + 1
        BY <3>3, <3>5
      <4> QED
        BY <4>1, <4>2
    <3> QED
      BY <1>10, <2>2, <3>3, <3>5, <3>6
  <2> QED
    BY <1>6, <2>1, <2>2
<1> QED
  BY <1>1, <1>2, <1>3, <1>4, <1>11 DEF all, new, refs, Goal

\* append, whatever header it has read: cells are written, or there is an array more.
LEMMA StoreTypes ==
    ASSUME TypeOK, NEW c \in Clients, Store(c), client[c].pass \in Pass,
           client[c].request \in SubscriptionRequest, client[c].refs \in Seq(SubscriptionRefs)
    PROVE  /\ arrays' \in Seq(Seq(Cells)) /\ Len(arrays) <= Len(arrays') /\ subs \in Header'
           /\ \E h \in Header' :
                Goto(c, [ pc |-> "header", request |-> client[c].request, next |-> h,
                          unwritten |-> Parts ])
<1> DEFINE h    == client[c].pass.header
           refs == WithoutDuplicates(client[c].refs)
           new  == [k \in DOMAIN refs |-> Requested(client[c].request, refs[k])]
           A    == arrays[h.arr]
           old  == SubSeq(A, 1, h.len)
           all  == old \o new
           State(arr) == [ pc |-> "header", request |-> client[c].request,
                           next |-> [arr |-> arr, len |-> Len(all)], unwritten |-> Parts ]
<1>1. /\ arrays \in Seq(Seq(Cells)) /\ h.arr \in DOMAIN arrays /\ h.len \in Nat /\ subs \in Header
      /\ Len(arrays) \in Nat
  BY SMTT(30) DEF TypeOK, Header, Cells, Pass
<1>2. refs \in Seq(SubscriptionRefs)
  BY WithoutDuplicatesProperties
<1>3. new \in Seq(Cells)
  <2>1. \A k \in DOMAIN refs : refs[k] \in SubscriptionRefs
    BY <1>2
  <2> HIDE DEF refs
  <2>2. \A k \in DOMAIN refs : Requested(client[c].request, refs[k]) \in Cells
    BY <2>1 DEF Requested, SubscriptionRequest, SiriSubscription, Cells
  <2> QED
    BY <1>2, <2>2
<1>4. ~ PastEnd(h)
  BY DEF Store
<1>5. \/ /\ Len(all) <= Len(A)
         /\ arrays' = [arrays EXCEPT ![h.arr] = all \o SubSeq(@, Len(all) + 1, Len(A))]
         /\ Goto(c, State(h.arr))
      \/ /\ \E extra \in 0 .. Len(all) :
               arrays' = Append(arrays, all \o [k \in 1 .. extra |-> Nil])
         /\ Goto(c, State(Len(arrays) + 1))
  BY DEF Store
<1> HIDE DEF new
<1>6. A \in Seq(Cells) /\ Len(A) \in Nat
  BY <1>1
<1>7. old \in Seq(Cells)
  <2>1. h.len <= Len(A)
    BY <1>1, <1>4, <1>6 DEF PastEnd
  <2> HIDE DEF A
  <2> QED
    BY <1>1, <1>6, <2>1
<1> HIDE DEF old
<1>8. all \in Seq(Cells) /\ Len(all) \in Nat
  BY <1>3, <1>7, Concatenated
<1> HIDE DEF all, State
<1>9. ASSUME NEW arr \in DOMAIN arrays', Goto(c, State(arr))
      PROVE  \E x \in Header' : Goto(c, [ pc |-> "header", request |-> client[c].request, next |-> x,
                                         unwritten |-> Parts ])
  <2>1. [arr |-> arr, len |-> Len(all)] \in Header'
    BY <1>8, <1>9 DEF Header
  <2> QED
    BY <1>9, <2>1 DEF State
<1>10. CASE /\ Len(all) <= Len(A)
            /\ arrays' = [arrays EXCEPT ![h.arr] = all \o SubSeq(@, Len(all) + 1, Len(A))]
            /\ Goto(c, State(h.arr))
  <2> DEFINE rest == SubSeq(A, Len(all) + 1, Len(A))
             B == all \o rest
  <2>1. arrays' = [arrays EXCEPT ![h.arr] = B]
    BY <1>10
  <2> HIDE DEF A
  <2>2. rest \in Seq(Cells)
    BY <1>6, <1>8, <1>10
  <2> HIDE DEF rest
  <2>3. B \in Seq(Cells)
    BY <1>8, <2>2, Concatenated
  <2> HIDE DEF B
  <2>4. arrays' \in Seq(Seq(Cells)) /\ Len(arrays') = Len(arrays) /\ DOMAIN arrays' = DOMAIN arrays
    BY <1>1, <2>1, <2>3
  <2>5. h.arr \in DOMAIN arrays' /\ subs \in Header'
    BY <1>1, <2>4 DEF Header
  <2>6. Len(arrays) <= Len(arrays')
    BY <1>1, <2>4
  <2> QED
    BY <1>9, <1>10, <2>4, <2>5, <2>6
<1>11. CASE /\ \E extra \in 0 .. Len(all) :
                 arrays' = Append(arrays, all \o [k \in 1 .. extra |-> Nil])
            /\ Goto(c, State(Len(arrays) + 1))
  <2>1. PICK extra \in 0 .. Len(all) :
               arrays' = Append(arrays, all \o [k \in 1 .. extra |-> Nil])
    BY <1>11
  <2> DEFINE none == [k \in 1 .. extra |-> Nil]
             B == all \o none
  <2>2. none \in Seq(Cells)
    BY <1>8 DEF Cells
  <2> HIDE DEF none
  <2>3. B \in Seq(Cells)
    BY <1>8, <2>2, Concatenated
  <2>4. arrays' = Append(arrays, B)
    BY <2>1 DEF none
  <2> HIDE DEF B
  <2>5. arrays' \in Seq(Seq(Cells)) /\ Len(arrays') = Len(arrays) + 1
        /\ DOMAIN arrays' = 1 .. Len(arrays) + 1
    BY <1>1, <2>3, <2>4
  <2>6. Len(arrays) + 1 \in DOMAIN arrays' /\ DOMAIN arrays \subseteq DOMAIN arrays'
        /\ Len(arrays) <= Len(arrays')
    BY <1>1, <2>5, SMTT(30)
  <2> QED
    BY <1>1, <1>9, <1>11, <2>5, <2>6 DEF Header
<1> QED
  BY <1>5, <1>10, <1>11

\* The conjuncts of TypeOK, each with the variables that belong together: the slice,
SliceType == arrays \in Seq(Seq(Cells)) /\ subs \in Header

\* the heartbeats and their entries,
BeatType ==
    /\ beats \in Seq(Heartbeat)
    /\ registered \in [Addresses -> 0 .. Len(beats)]
    /\ \A a \in Addresses : registered[a] # 0 => beats[registered[a]].address = a
    /\ TickerHasTimer

\* where the clients and the feeds are,
PlaceType == client \in [Clients -> ClientState] /\ feed \in [Feeds -> FeedState]

\* what has come and what time it is,
OtherType ==
    /\ scenario \in Scenarios /\ pending \subseteq scenario.coming
    /\ now \in 0 .. scenario.until /\ crashed \in BOOLEAN

\* and the history variable, which only Watch writes.
StableType == stable \in [Feeds -> SUBSET SiriSubscription]

\* Together they are the types.
LEMMA Types ==
    TypeOK /\ TickerHasTimer <=> SliceType /\ BeatType /\ PlaceType /\ OtherType /\ StableType
BY DEF TypeOK, SliceType, BeatType, PlaceType, OtherType, StableType, Cells

\* Arrays and heartbeats are never taken away.
Grown ==
    /\ arrays' \in Seq(Seq(Cells)) /\ Len(arrays) <= Len(arrays')
    /\ beats' \in Seq(Heartbeat) /\ Len(beats) <= Len(beats')

\* A state that named arrays and heartbeats that there were still does so.
LEMMA StatesStay ==
    ASSUME TypeInv, Grown
    PROVE  /\ Header \subseteq Header' /\ ClientState \subseteq ClientState'
           /\ FeedState \subseteq FeedState' /\ Pass \subseteq Pass'
<1>1. DOMAIN arrays \subseteq DOMAIN arrays' /\ DOMAIN beats \subseteq DOMAIN beats'
  <2>1. /\ Len(arrays) \in Nat /\ DOMAIN arrays = 1 .. Len(arrays)
        /\ Len(beats) \in Nat /\ DOMAIN beats = 1 .. Len(beats)
    BY DEF TypeInv, TypeOK
  <2>2. /\ Len(arrays') \in Nat /\ DOMAIN arrays' = 1 .. Len(arrays')
        /\ Len(beats') \in Nat /\ DOMAIN beats' = 1 .. Len(beats')
    BY DEF Grown
  <2> QED
    BY <2>1, <2>2 DEF Grown
<1>2. Header \subseteq Header'
  BY <1>1 DEF Header
<1>5. Pass \subseteq Pass'
  BY <1>2 DEF Pass
<1>3. ClientState \subseteq ClientState'
  <2> SUFFICES ASSUME NEW w \in ClientState PROVE w \in ClientState'
    OBVIOUS
  <2>1. CASE w \in [ pc : {"header"}, request : SubscriptionRequest, next : Header,
                     unwritten : SUBSET Parts ]
    <3>1. w \in [ pc : {"header"}, request : SubscriptionRequest, next : Header',
                  unwritten : SUBSET Parts ]
      BY <1>2, <2>1
    <3> QED
      BY <3>1 DEF ClientState
  <2>2. CASE w \in [pc : {"register"}, address : Addresses, beat : DOMAIN beats]
    <3>1. w \in [pc : {"register"}, address : Addresses, beat : DOMAIN beats']
      BY <1>1, <2>2
    <3> QED
      BY <3>1 DEF ClientState
  <2>3. CASE w \in [ pc : {"remove", "store"}, request : SubscriptionRequest,
                     refs : Seq(SubscriptionRefs), pass : Pass ]
    <3>1. w \in [ pc : {"remove", "store"}, request : SubscriptionRequest,
                  refs : Seq(SubscriptionRefs), pass : Pass' ]
      BY <1>5, <2>3
    <3> QED
      BY <3>1 DEF ClientState
  <2>4. CASE \/ w \in [pc : {"terminateAll"}, request : TerminationOfAll, pass : Pass]
             \/ w \in [pc : {"terminate"}, request : Termination, pass : Pass]
    <3>1. \/ w \in [pc : {"terminateAll"}, request : TerminationOfAll, pass : Pass']
          \/ w \in [pc : {"terminate"}, request : Termination, pass : Pass']
      BY <1>5, <2>4
    <3> QED
      BY <3>1 DEF ClientState
  <2> QED
    BY <2>1, <2>2, <2>3, <2>4 DEF ClientState
<1>4. FeedState \subseteq FeedState'
  <2> SUFFICES ASSUME NEW w \in FeedState PROVE w \in FeedState'
    OBVIOUS
  <2>1. CASE w \in [ pc : {"range", "visit", "post"}, keys : Seq(Key) \ {<< >>}, n : Nat \ {0},
                     header : Header, unread : SUBSET Parts, sent : Seq(SiriSubscription) ]
    <3>1. w \in [ pc : {"range", "visit", "post"}, keys : Seq(Key) \ {<< >>}, n : Nat \ {0},
                  header : Header', unread : SUBSET Parts, sent : Seq(SiriSubscription) ]
      BY <1>2, <2>1
    <3> QED
      BY <3>1 DEF FeedState
  <2> QED
    BY <2>1 DEF FeedState
<1> QED
  BY <1>2, <1>3, <1>4, <1>5

\* Where a client is tells what its variables are.
LEMMA StateOf ==
    ASSUME NEW w \in ClientState
    PROVE  /\ w.pc = "target" => w \in [pc : {"target"}, request : SubscriptionRequest]
           /\ w.pc \in {"remove", "store"} =>
                w \in [ pc : {"remove", "store"}, request : SubscriptionRequest,
                        refs : Seq(SubscriptionRefs), pass : Pass ]
           /\ w.pc = "header" =>
                w \in [ pc : {"header"}, request : SubscriptionRequest, next : Header,
                        unwritten : SUBSET Parts ]
           /\ w.pc = "measure" => w \in [pc : {"measure"}, address : Addresses]
           /\ w.pc \in {"stop", "create"} =>
                w \in [ pc : {"stop", "create"}, address : Addresses, interval : Nat \ {0},
                        term : Nat ]
           /\ w.pc = "register" =>
                w \in [pc : {"register"}, address : Addresses, beat : DOMAIN beats]
           /\ w.pc = "terminateAll" =>
                w \in [pc : {"terminateAll"}, request : TerminationOfAll, pass : Pass]
           /\ w.pc = "terminate" =>
                w \in [pc : {"terminate"}, request : Termination, pass : Pass]
           /\ w.pc = "sweep" =>
                \/ w \in [pc : {"sweep"}, visited : SUBSET Addresses, entries : SUBSET Addresses]
                \/ w \in [ pc : {"sweep", "delete"}, address : Addresses,
                           visited : SUBSET Addresses, entries : SUBSET Addresses ]
           /\ w.pc = "delete" =>
                w \in [ pc : {"sweep", "delete"}, address : Addresses,
                        visited : SUBSET Addresses, entries : SUBSET Addresses ]
BY DEF ClientState

\* A client that is at a loop over the slice, or at append, is there with another pass.
LEMMA PassOf ==
    ASSUME NEW w \in ClientState, Removing(w) \/ w.pc = "store"
    PROVE  /\ w.pass \in Pass /\ w.pc \in {"remove", "store", "terminateAll", "terminate"}
           /\ \A p \in Pass' : [w EXCEPT !.pass = p] \in ClientState'
<1>1. w.pc \in {"remove", "store", "terminateAll", "terminate"}
  BY DEF Removing
<1>2. CASE w.pc \in {"remove", "store"}
  <2>1. w \in [ pc : {"remove", "store"}, request : SubscriptionRequest,
                refs : Seq(SubscriptionRefs), pass : Pass ]
    BY <1>2, StateOf
  <2>2. ASSUME NEW p \in Pass' PROVE [w EXCEPT !.pass = p] \in ClientState'
    <3>1. [w EXCEPT !.pass = p] \in [ pc : {"remove", "store"}, request : SubscriptionRequest,
                                      refs : Seq(SubscriptionRefs), pass : Pass' ]
      BY <2>1, <2>2
    <3> QED
      BY <3>1 DEF ClientState
  <2> QED
    BY <1>1, <2>1, <2>2
<1>3. CASE w.pc = "terminateAll"
  <2>1. w \in [pc : {"terminateAll"}, request : TerminationOfAll, pass : Pass]
    BY <1>3, StateOf
  <2>2. ASSUME NEW p \in Pass' PROVE [w EXCEPT !.pass = p] \in ClientState'
    <3>1. [w EXCEPT !.pass = p] \in [pc : {"terminateAll"}, request : TerminationOfAll, pass : Pass']
      BY <2>1, <2>2
    <3> QED
      BY <3>1 DEF ClientState
  <2> QED
    BY <1>1, <2>1, <2>2
<1>4. CASE w.pc = "terminate"
  <2>1. w \in [pc : {"terminate"}, request : Termination, pass : Pass]
    BY <1>4, StateOf
  <2>2. ASSUME NEW p \in Pass' PROVE [w EXCEPT !.pass = p] \in ClientState'
    <3>1. [w EXCEPT !.pass = p] \in [pc : {"terminate"}, request : Termination, pass : Pass']
      BY <2>1, <2>2
    <3> QED
      BY <3>1 DEF ClientState
  <2> QED
    BY <1>1, <2>1, <2>2
<1> QED
  BY <1>1, <1>2, <1>3, <1>4

\* A pass begins.
LEMMA NewPassType ==
    ASSUME TypeOK
    PROVE  NewPass \in Pass
<1>1. 1 \in DOMAIN arrays
  <2>1. Len(arrays) \in Nat /\ DOMAIN arrays = 1 .. Len(arrays) /\ subs.arr \in DOMAIN arrays
    BY DEF TypeOK, Header
  <2> QED
    BY <2>1
<1> QED
  BY <1>1 DEF NewPass, Pass, Header

\* A client goes on, and nothing is taken away.
LEMMA ClientMoves ==
    ASSUME TypeInv, NEW c \in Clients, c \in scenario.clients, NEW w, w \in ClientState',
           Goto(c, w), UNCHANGED <<feed, scenario>>, Grown,
           w.pc = "register" => beats'[w.beat].address = w.address,
           \A b \in DOMAIN beats : beats'[b].address = beats[b].address
    PROVE  PlaceType' /\ Registering' /\ Within'
<1>1. client' = [client EXCEPT ![c] = w] /\ client \in [Clients -> ClientState]
  BY DEF Goto, TypeInv, TypeOK
<1>2. client' \in [Clients -> ClientState']
  BY <1>1, StatesStay
<1>3. feed' \in [Feeds -> FeedState']
  BY StatesStay DEF TypeInv, TypeOK
<1>4. Registering'
  <2> SUFFICES ASSUME NEW d \in Clients, client'[d].pc = "register"
               PROVE  beats'[client'[d].beat].address = client'[d].address
    BY DEF Registering
  <2>1. CASE d = c
    BY <1>1, <2>1
  <2>2. CASE d # c
    <3>1. client'[d] = client[d] /\ client[d] \in ClientState
      BY <1>1, <2>2
    <3>2. client[d].beat \in DOMAIN beats
      BY <3>1, StateOf
    <3> QED
      BY <3>1, <3>2 DEF TypeInv, Registering
  <2> QED
    BY <2>1, <2>2
<1>5. Within'
  BY <1>1 DEF TypeInv, Within
<1> QED
  BY <1>2, <1>3, <1>4, <1>5 DEF PlaceType

\* A set of naturals that is numbered has a greatest and a least member.
LEMMA Bounds ==
    ASSUME NEW n \in Nat, NEW f \in [1 .. n -> Nat], NEW I \in SUBSET (1 .. n), I # {}
    PROVE  /\ \E i \in I : \A j \in I : f[j] <= f[i]
           /\ \E i \in I : \A j \in I : f[i] <= f[j]
<1> DEFINE Bounded(k) ==
             \/ \A j \in I : j > k
             \/ /\ \E i \in I : i <= k /\ \A j \in I : j <= k => f[j] <= f[i]
                /\ \E i \in I : i <= k /\ \A j \in I : j <= k => f[i] <= f[j]
           T == {k \in 0 .. n : Bounded(k)}
<1>1. 0 \in T
  OBVIOUS
<1>2. ASSUME NEW k \in 1 .. n, k - 1 \in T PROVE k \in T
  <2>1. Bounded(k - 1)
    BY <1>2
  <2>2. \A j \in I : j \in Nat /\ f[j] \in Nat /\ (j <= k <=> j <= k - 1 \/ j = k)
    OBVIOUS
  <2>3. CASE k \notin I
    <3>1. \A j \in I : (j <= k <=> j <= k - 1) /\ (j > k <=> j > k - 1)
      BY <2>2, <2>3
    <3> QED
      BY <2>1, <3>1
  <2>4. CASE k \in I /\ \A j \in I : j > k - 1
    <3>1. \A j \in I : j <= k => j = k
      BY <2>2, <2>4
    <3>2. f[k] <= f[k] /\ k <= k
      BY <2>2, <2>4
    <3> QED
      BY <2>4, <3>1, <3>2
  <2>5. CASE k \in I /\ ~ \A j \in I : j > k - 1
    <3>1. PICK i \in I : i <= k - 1 /\ \A j \in I : j <= k - 1 => f[j] <= f[i]
      BY <2>1, <2>5
    <3>2. PICK h \in I : h <= k - 1 /\ \A j \in I : j <= k - 1 => f[h] <= f[j]
      BY <2>1, <2>5
    <3>3. f[i] \in Nat /\ f[h] \in Nat /\ f[k] \in Nat /\ k <= k /\ i <= k /\ h <= k
      BY <2>2, <2>5, <3>1, <3>2
    <3>4. \E x \in I : x <= k /\ \A j \in I : j <= k => f[j] <= f[x]
      <4>1. CASE f[i] <= f[k]
        <5>1. \A j \in I : j <= k => f[j] <= f[k]
          BY <2>2, <3>1, <3>3, <4>1
        <5> QED
          BY <2>5, <3>3, <5>1
      <4>2. CASE f[k] <= f[i]
        <5>1. \A j \in I : j <= k => f[j] <= f[i]
          BY <2>2, <3>1, <3>3, <4>2
        <5> QED
          BY <3>3, <5>1
      <4> QED
        BY <3>3, <4>1, <4>2
    <3>5. \E x \in I : x <= k /\ \A j \in I : j <= k => f[x] <= f[j]
      <4>1. CASE f[k] <= f[h]
        <5>1. \A j \in I : j <= k => f[k] <= f[j]
          BY <2>2, <3>2, <3>3, <4>1, SMTT(30)
        <5> QED
          BY <2>5, <3>3, <5>1
      <4>2. CASE f[h] <= f[k]
        <5>1. \A j \in I : j <= k => f[h] <= f[j]
          BY <2>2, <3>2, <3>3, <4>2
        <5> QED
          BY <3>3, <5>1
      <4> QED
        BY <3>3, <4>1, <4>2
    <3>6. Bounded(k)
      BY <3>4, <3>5
    <3> HIDE DEF Bounded
    <3> QED
      BY <3>6
  <2> QED
    BY <2>3, <2>4, <2>5
<1>3. Bounded(n)
  <2> HIDE DEF Bounded
  <2>1. n \in T
    <3> HIDE DEF T
    <3>1. 0 .. n \subseteq T
      BY <1>1, <1>2, Induction
    <3> QED
      BY <3>1
  <2> QED
    BY <2>1
<1>4. \A j \in I : j \in Nat /\ j <= n
  OBVIOUS
<1>5. ~ \A j \in I : j > n
  <2>1. PICK i \in I : TRUE
    OBVIOUS
  <2>2. ~ (i > n)
    BY <1>4
  <2> QED
    BY <2>2
<1>6. PICK i \in I : \A j \in I : j <= n => f[j] <= f[i]
  BY <1>3, <1>5
<1>7. PICK m \in I : \A j \in I : j <= n => f[m] <= f[j]
  BY <1>3, <1>5
<1> QED
  BY <1>4, <1>6, <1>7

\* The stored subscriptions of an address.
Those(st, a) == {s \in Range(st) : s.address = a}

\* What initialiseHeartbeatNotifications measures of them.
Measures(mine) ==
    /\ Shortest(mine) \in Nat \ {0} /\ Latest(mine) \in Nat
    /\ \A s \in mine : Shortest(mine) <= s.interval /\ s.term <= Latest(mine)
    /\ mine # {} => \E s \in mine : Shortest(mine) = s.interval
    /\ IF mine = {} THEN Latest(mine) = now ELSE \E s \in mine : Latest(mine) = s.term

\* The shortest interval and the latest end are those of some subscription,
\* or the default values if there is none.
LEMMA Measured ==
    ASSUME NEW st \in Seq(SiriSubscription), NEW a, now \in Nat
    PROVE  Measures(Those(st, a))
<1> DEFINE mine == Those(st, a)
           I == {k \in DOMAIN st : st[k].address = a}
           n == Len(st)
<1>1. n \in Nat /\ DOMAIN st = 1 .. n
  OBVIOUS
<1>2. /\ \A k \in DOMAIN st : st[k] \in SiriSubscription
      /\ \A s \in SiriSubscription : s.interval \in Nat \ {0} /\ s.term \in Nat
  <2>1. \A s \in SiriSubscription : s.interval \in Nat \ {0} /\ s.term \in Nat
    BY DEF SiriSubscription
  <2> QED
    BY <1>1, <2>1
<1>3. /\ \A s \in mine : s \in SiriSubscription /\ \E k \in I : s = st[k]
      /\ \A k \in I : st[k] \in mine
  BY <1>2 DEF Range, Those
<1>4. mine # {} <=> I # {}
  BY <1>3
<1>5. CASE mine = {}
  <2>1. Shortest({}) = DefaultInterval /\ Latest({}) = now
    BY DEF Shortest, Latest
  <2> HIDE DEF mine
  <2> QED
    BY <1>5, <2>1, SiriProxyAssumption DEF mine, Measures
<1>6. CASE mine # {}
  <2> DEFINE g == [k \in 1 .. n |-> st[k].interval]
             h == [k \in 1 .. n |-> st[k].term]
             Is == {s.interval : s \in mine}
             Ts == {s.term : s \in mine}
  <2>1. g \in [1 .. n -> Nat] /\ h \in [1 .. n -> Nat]
    BY <1>1, <1>2
  <2>2. I \in SUBSET (1 .. n) /\ I # {}
    BY <1>1, <1>4, <1>6
  <2>3. /\ \A k \in I : g[k] = st[k].interval /\ h[k] = st[k].term
        /\ \A k \in I : k \in DOMAIN st
    BY <1>1
  <2> HIDE DEF I, g, h, n, mine
  <2>4. PICK i \in I : \A j \in I : g[i] <= g[j]
    BY <1>1, <2>1, <2>2, Bounds
  <2>5. PICK x \in I : \A j \in I : h[j] <= h[x]
    BY <1>1, <2>1, <2>2, Bounds
  <2>6. \A s \in mine : st[i].interval <= s.interval /\ s.term <= st[x].term
    BY <1>3, <2>3, <2>4, <2>5
  <2>7. /\ st[i].interval \in Is /\ \A y \in Is : st[i].interval <= y
        /\ st[x].term \in Ts /\ \A y \in Ts : st[x].term >= y
    BY <1>2, <1>3, <2>3, <2>6
  <2>8. \A y \in Is \cup Ts : y \in Nat
    BY <1>2, <1>3
  <2> HIDE DEF Is, Ts
  <2>9. Min(Is) \in Is /\ \A y \in Is : Min(Is) <= y
    BY <2>7 DEF Min
  <2>10. Max(Ts) \in Ts /\ \A y \in Ts : Max(Ts) >= y
    BY <2>7 DEF Max
  <2>11. Shortest(mine) = Min(Is) /\ Latest(mine) = Max(Ts)
    BY <1>6 DEF Shortest, Latest, Is, Ts
  <2>12. \A s \in mine : Min(Is) <= s.interval /\ s.term <= Max(Ts)
    BY <1>2, <1>3, <2>8, <2>9, <2>10 DEF Is, Ts
  <2>13. (\E s \in mine : Min(Is) = s.interval) /\ (\E s \in mine : Max(Ts) = s.term)
    BY <2>9, <2>10 DEF Is, Ts
  <2>14. Min(Is) \in Nat \ {0} /\ Max(Ts) \in Nat
    BY <1>2, <1>3, <2>13
  <2> QED
    BY <1>6, <2>11, <2>12, <2>13, <2>14 DEF mine, Measures
<1> QED
  BY <1>5, <1>6

\* The types of everything but the history variable.
ProgramTypes == SliceType /\ BeatType /\ PlaceType /\ OtherType /\ Registering /\ Within

\* A step that leaves arrays and heartbeats alone takes none away.
LEMMA NothingTaken ==
    ASSUME TypeInv, UNCHANGED <<arrays, beats>>
    PROVE  Grown
BY DEF Grown, TypeInv, TypeOK, Cells

\* A client goes on, and changes nothing but what is to come.
LEMMA ClientOnlyMoves ==
    ASSUME TypeInv, NEW c \in scenario.clients, NEW w \in ClientState, Goto(c, w),
           UNCHANGED <<arrays, subs, registered, beats, now, feed, crashed, scenario>>,
           pending' \subseteq pending, w.pc # "register"
    PROVE  ProgramTypes'
<1>1. c \in Clients /\ Grown
  BY NothingTaken, SiriProxyAssumption DEF TypeInv, TypeOK
<1>2. w \in ClientState'
  BY <1>1, StatesStay
<1>3. PlaceType' /\ Registering' /\ Within'
  BY <1>1, <1>2, ClientMoves
<1>4. SliceType' /\ BeatType' /\ OtherType'
  <2>1. SliceType /\ BeatType /\ OtherType
    BY Types DEF TypeInv
  <2>2. SliceType'
    BY <2>1 DEF SliceType, Header
  <2>3. BeatType'
    BY <2>1 DEF BeatType, TickerHasTimer
  <2> QED
    BY <2>1, <2>2, <2>3 DEF OtherType
<1> QED
  BY <1>3, <1>4 DEF ProgramTypes

\* A client writes to the slice, and goes on.
LEMMA ClientWrites ==
    ASSUME TypeInv, NEW c \in scenario.clients, NEW w, w \in ClientState', Goto(c, w),
           arrays' \in Seq(Seq(Cells)), Len(arrays) <= Len(arrays'), subs' \in Header',
           UNCHANGED <<registered, beats, now, feed, pending, crashed, scenario>>,
           w.pc # "register"
    PROVE  ProgramTypes'
<1>1. c \in Clients /\ Grown
  BY SiriProxyAssumption DEF TypeInv, TypeOK, Grown
<1>2. PlaceType' /\ Registering' /\ Within'
  BY <1>1, ClientMoves
<1>3. BeatType' /\ OtherType'
  BY Types DEF TypeInv, BeatType, OtherType, TickerHasTimer
<1> QED
  BY <1>2, <1>3 DEF ProgramTypes, SliceType

\* A client changes the heartbeats, and goes on.
LEMMA ClientBeats ==
    ASSUME TypeInv, NEW c \in scenario.clients, NEW w, w \in ClientState', Goto(c, w),
           BeatType', Len(beats) <= Len(beats'),
           \A b \in DOMAIN beats : beats'[b].address = beats[b].address,
           w.pc = "register" => beats'[w.beat].address = w.address,
           UNCHANGED <<arrays, subs, now, feed, pending, crashed, scenario>>
    PROVE  ProgramTypes'
<1>1. c \in Clients /\ Grown
  BY SiriProxyAssumption DEF TypeInv, TypeOK, Grown, BeatType, Cells
<1>2. PlaceType' /\ Registering' /\ Within'
  BY <1>1, ClientMoves
<1>3. SliceType' /\ OtherType'
  BY Types DEF TypeInv, SliceType, Header, OtherType
<1> QED
  BY <1>2, <1>3 DEF ProgramTypes

\* A subscription request, from its arrival to the slice that is written.
LEMMA SubscriptionTypes ==
    ASSUME TypeInv, NEW c \in scenario.clients, UNCHANGED scenario,
           \/ ReceiveSubscription(c) \/ TargetFails(c) \/ TargetConfirms(c)
           \/ RemoveUpdated(c) \/ Store(c) \/ WriteHeader(c)
    PROVE  ProgramTypes'
<1> DEFINE w == client[c]
<1>1. c \in Clients /\ w \in ClientState /\ Idle \in ClientState
      /\ pending \subseteq SubscriptionRequest \cup Termination \cup TerminationOfAll \cup Publication
  BY SiriProxyAssumption DEF TypeInv, TypeOK, ClientState, Idle
<1>2. CASE ReceiveSubscription(c)
  <2>1. PICK r \in pending : /\ r.kind = "subscribe" /\ Goto(c, [pc |-> "target", request |-> r])
                             /\ pending' = pending \ {r}
    BY <1>2 DEF ReceiveSubscription
  <2>2. r \in SubscriptionRequest
    BY <1>1, <2>1 DEF Termination, TerminationOfAll, Publication
  <2>3. [pc |-> "target", request |-> r] \in ClientState
    BY <2>2 DEF ClientState
  <2> QED
    BY <1>2, <2>1, <2>3, ClientOnlyMoves DEF ReceiveSubscription
<1>3. CASE TargetFails(c)
  <2>1. Idle.pc = "idle" /\ Goto(c, Idle) /\ pending' \subseteq pending
    BY <1>3 DEF TargetFails, Idle
  <2>2. UNCHANGED <<arrays, subs, registered, beats, now, feed, crashed, scenario>>
    BY <1>3 DEF TargetFails
  <2>3. PICK i \in ClientState : i = Idle
    BY <1>1
  <2> QED
    BY <2>1, <2>2, <2>3, ClientOnlyMoves
<1>4. CASE TargetConfirms(c)
  <2>1. PICK n \in 0 .. scenario.statuses : \E refs \in [1 .. n -> w.request.refs] :
          Goto(c, [pc |-> "remove", request |-> w.request, refs |-> refs, pass |-> NewPass])
    BY <1>4 DEF TargetConfirms
  <2>2. PICK refs \in [1 .. n -> w.request.refs] :
          Goto(c, [pc |-> "remove", request |-> w.request, refs |-> refs, pass |-> NewPass])
    BY <2>1
  <2>3. w.request \in SubscriptionRequest /\ scenario.statuses \in Nat
    BY <1>1, <1>4, StateOf, SiriProxyAssumption DEF TargetConfirms, TypeInv, TypeOK
  <2>4. refs \in Seq(SubscriptionRefs)
    BY <2>1, <2>3 DEF SubscriptionRequest
  <2>5. [pc |-> "remove", request |-> w.request, refs |-> refs, pass |-> NewPass] \in ClientState
    BY <2>3, <2>4, NewPassType DEF ClientState, TypeInv
  <2> QED
    BY <1>4, <2>2, <2>5, ClientOnlyMoves DEF TargetConfirms
<1>5. CASE RemoveUpdated(c)
  <2>1. w \in [ pc : {"remove", "store"}, request : SubscriptionRequest,
                refs : Seq(SubscriptionRefs), pass : Pass ]
    BY <1>1, <1>5, StateOf DEF RemoveUpdated
  <2>2. /\ arrays' \in Seq(Seq(Cells)) /\ Len(arrays') = Len(arrays) /\ subs' \in Header'
        /\ Len(arrays) \in Nat /\ arrays' = arrays
    BY <1>5, <2>1, SliceCut DEF RemoveUpdated, TypeInv, Cut
  <2>3. NewPass \in Pass'
    BY <2>2, NewPassType DEF TypeInv, Pass, Header
  <2> DEFINE v == [w EXCEPT !.pc = "store", !.pass = NewPass]
  <2>4. v \in [ pc : {"remove", "store"}, request : SubscriptionRequest,
                refs : Seq(SubscriptionRefs), pass : Pass' ] /\ v.pc = "store"
    BY <2>1, <2>3
  <2>5. v \in ClientState'
    BY <2>4 DEF ClientState
  <2> HIDE DEF v
  <2>6. Goto(c, v) /\ UNCHANGED <<registered, beats, now, feed, pending, crashed>>
    BY <1>5 DEF RemoveUpdated, v
  <2> QED
    BY <2>2, <2>4, <2>5, <2>6, ClientWrites
<1>6. CASE Store(c)
  <2>1. w \in [ pc : {"remove", "store"}, request : SubscriptionRequest,
                refs : Seq(SubscriptionRefs), pass : Pass ]
    BY <1>1, <1>6, StateOf DEF Store
  <2>2. /\ arrays' \in Seq(Seq(Cells)) /\ Len(arrays) <= Len(arrays')
        /\ \E h \in Header' : Goto(c, [ pc |-> "header", request |-> w.request, next |-> h,
                                        unwritten |-> Parts ])
        /\ subs \in Header'
    BY <1>1, <1>6, <2>1, StoreTypes DEF TypeInv
  <2>3. PICK h \in Header' : Goto(c, [ pc |-> "header", request |-> w.request, next |-> h,
                                       unwritten |-> Parts ])
    BY <2>2
  <2>4. [pc |-> "header", request |-> w.request, next |-> h, unwritten |-> Parts] \in ClientState'
    BY <2>1, <2>3 DEF ClientState
  <2>5. UNCHANGED <<subs, registered, beats, now, feed, pending, crashed>>
    BY <1>6 DEF Store
  <2> QED
    BY <2>2, <2>3, <2>4, <2>5, ClientWrites
<1>7. CASE WriteHeader(c)
  <2>1. w \in [ pc : {"header"}, request : SubscriptionRequest, next : Header,
                unwritten : SUBSET Parts ]
    BY <1>1, <1>7, StateOf DEF WriteHeader
  <2>2. PICK part \in w.unwritten :
          LET left == w.unwritten \ {part}
          IN  /\ subs' = [subs EXCEPT ![part] = w.next[part]]
              /\ Goto(c, IF left = {} THEN [pc |-> "measure", address |-> w.request.address]
                                      ELSE [w EXCEPT !.unwritten = left])
    BY <1>7 DEF WriteHeader
  <2> DEFINE left == w.unwritten \ {part}
             v == IF left = {} THEN [pc |-> "measure", address |-> w.request.address]
                               ELSE [w EXCEPT !.unwritten = left]
  <2>3. v \in ClientState /\ v.pc # "register"
    <3>1. CASE left = {}
      BY <2>1, <3>1 DEF ClientState, SubscriptionRequest
    <3>2. CASE left # {}
      <4>1. v = [w EXCEPT !.unwritten = left]
        BY <3>2
      <4>2. v \in [ pc : {"header"}, request : SubscriptionRequest, next : Header,
                    unwritten : SUBSET Parts ]
        BY <2>1, <4>1
      <4> HIDE DEF v
      <4> QED
        BY <4>2 DEF ClientState
    <3> QED
      BY <3>1, <3>2
  <2>4. UNCHANGED <<arrays, registered, beats, now, feed, pending, crashed>>
    BY <1>7 DEF WriteHeader
  <2>5. subs' \in Header
    <3>1. subs \in Header /\ w.next \in Header
      BY <2>1 DEF TypeInv, TypeOK
    <3>2. part \in {"arr", "len"}
      BY <2>1 DEF Parts
    <3>3. CASE part = "arr"
      BY <2>2, <3>1, <3>3 DEF Header
    <3>4. CASE part = "len"
      BY <2>2, <3>1, <3>4 DEF Header
    <3> QED
      BY <3>2, <3>3, <3>4
  <2>6. Header' = Header /\ v \in ClientState'
    BY <2>3, <2>4, NothingTaken, StatesStay DEF Header
  <2>7. Goto(c, v)
    BY <2>2
  <2>8. arrays' \in Seq(Seq(Cells)) /\ Len(arrays) <= Len(arrays')
    BY <2>4 DEF TypeInv, TypeOK, Cells
  <2> HIDE DEF v
  <2> QED
    BY <2>3, <2>4, <2>5, <2>6, <2>7, <2>8, ClientWrites
<1> QED
  BY <1>2, <1>3, <1>4, <1>5, <1>6, <1>7

\* The loops over the slice that remove some, and what append begins with.
LEMMA LoopTypes ==
    ASSUME TypeInv, NEW c \in scenario.clients, UNCHANGED scenario,
           Load(c) \/ DropCell(c) \/ KeepCell(c)
    PROVE  ProgramTypes'
<1> DEFINE w == client[c]
<1>1. c \in Clients /\ w \in ClientState
  BY SiriProxyAssumption DEF TypeInv, TypeOK
<1>2. Removing(w) \/ w.pc = "store"
  BY DEF Load, DropCell, KeepCell, Looping
<1>3. /\ w.pass \in Pass /\ w.pc \in {"remove", "store", "terminateAll", "terminate"}
      /\ \A p \in Pass' : [w EXCEPT !.pass = p] \in ClientState'
  BY <1>1, <1>2, PassOf
<1>4. w.pass.header \in Header /\ w.pass.unread \in SUBSET Parts /\ w.pass.n \in Nat \ {0}
      /\ w.pass.kept \in Nat
  BY <1>3 DEF Pass
<1>5. ASSUME NEW p, p \in Pass', Goto(c, [w EXCEPT !.pass = p]),
             arrays' \in Seq(Seq(Cells)), Len(arrays) <= Len(arrays'), subs' \in Header',
             UNCHANGED <<registered, beats, now, feed, pending, crashed>>
      PROVE  ProgramTypes'
  <2> DEFINE v == [w EXCEPT !.pass = p]
  <2>1. v \in ClientState' /\ Goto(c, v)
    BY <1>3, <1>5
  <2>2. v.pc # "register"
    <3>1. w.pc # "register"
      BY <1>3
    <3>2. v.pc = w.pc
      BY <1>1, <1>3, StateOf
    <3> QED
      BY <3>1, <3>2
  <2> HIDE DEF v
  <2> QED
    BY <1>5, <2>1, <2>2, ClientWrites
<1>6. CASE Load(c)
  <2>1. PICK part \in w.pass.unread :
          Goto(c, [w EXCEPT !.pass.header[part] = subs[part], !.pass.unread = @ \ {part}])
    BY <1>6 DEF Load
  <2>2. UNCHANGED <<arrays, subs, registered, beats, now, feed, pending, crashed>>
    BY <1>6 DEF Load
  <2> DEFINE h == [w.pass.header EXCEPT ![part] = subs[part]]
             p == [w.pass EXCEPT !.header = h, !.unread = @ \ {part}]
  <2>3. h \in Header
    <3>1. subs \in Header /\ part \in {"arr", "len"}
      BY <1>4 DEF TypeInv, TypeOK, Parts
    <3>2. CASE part = "arr"
      BY <1>4, <3>1, <3>2 DEF Header
    <3>3. CASE part = "len"
      BY <1>4, <3>1, <3>3 DEF Header
    <3> QED
      BY <3>1, <3>2, <3>3
  <2>4. p \in Pass
    <3> HIDE DEF h
    <3> QED
      BY <1>3, <1>4, <2>3 DEF Pass
  <2>5. p \in Pass' /\ subs' \in Header'
    BY <2>2, <2>4 DEF Pass, Header, TypeInv, TypeOK
  <2>6. Goto(c, [w EXCEPT !.pass = p])
    BY <2>1
  <2>7. arrays' \in Seq(Seq(Cells)) /\ Len(arrays) <= Len(arrays')
    BY <2>2 DEF TypeInv, TypeOK, Cells
  <2> HIDE DEF p
  <2> QED
    BY <1>5, <2>2, <2>5, <2>6, <2>7
<1>7. CASE DropCell(c)
  <2> DEFINE p == [w.pass EXCEPT !.n = @ + 1]
  <2>1. UNCHANGED <<arrays, subs, registered, beats, now, feed, pending, crashed>>
        /\ Goto(c, [w EXCEPT !.pass = p])
    BY <1>7 DEF DropCell
  <2>2. p \in Pass
    BY <1>3, <1>4 DEF Pass
  <2>3. p \in Pass' /\ subs' \in Header'
    BY <2>1, <2>2 DEF Pass, Header, TypeInv, TypeOK
  <2>4. arrays' \in Seq(Seq(Cells)) /\ Len(arrays) <= Len(arrays')
    BY <2>1 DEF TypeInv, TypeOK, Cells
  <2> HIDE DEF p
  <2> QED
    BY <1>5, <2>1, <2>3, <2>4
<1>8. CASE KeepCell(c)
  <2> DEFINE p == [w.pass EXCEPT !.n = @ + 1, !.kept = @ + 1]
  <2>1. UNCHANGED <<subs, registered, beats, now, feed, pending, crashed>>
        /\ Goto(c, [w EXCEPT !.pass = p])
    BY <1>8 DEF KeepCell
  <2>2. p \in Pass
    <3>1. PICK q \in Pass : q = w.pass
      BY <1>3
    <3>2. PICK n \in Nat \ {0}, kept \in Nat : n = q.n + 1 /\ kept = q.kept + 1
      BY <3>1 DEF Pass
    <3>3. [q EXCEPT !.n = n, !.kept = kept] \in Pass
      BY <3>1, <3>2 DEF Pass
    <3> QED
      BY <3>1, <3>2, <3>3
  <2>3. /\ arrays' \in Seq(Seq(Cells)) /\ Len(arrays') = Len(arrays) /\ subs' \in Header'
        /\ Len(arrays) \in Nat
    BY <1>1, <1>3, <1>8, CellWritten DEF TypeInv
  <2>4. Grown
    BY <2>1, <2>3 DEF Grown, TypeInv, TypeOK
  <2>5. p \in Pass'
    BY <2>2, <2>4, StatesStay
  <2> HIDE DEF p
  <2> QED
    BY <1>5, <2>1, <2>3, <2>5
<1> QED
  BY <1>6, <1>7, <1>8

\* A ticker and its timer are stopped.
LEMMA Stopped ==
    ASSUME NEW b \in Heartbeat
    PROVE  /\ StoppedBeat(b) \in Heartbeat /\ ~ StoppedBeat(b).ticking
           /\ StoppedBeat(b).address = b.address /\ StoppedBeat(b).interval = b.interval
           /\ StoppedBeat(b).term = b.term
           /\ StoppedBeat(b).timer = IF b.timer = "armed" THEN "stopped" ELSE b.timer
BY DEF StoppedBeat, Heartbeat

\* The steps of initialiseHeartbeatNotifications.
LEMMA HeartbeatTypes ==
    ASSUME TypeInv, NEW c \in scenario.clients, UNCHANGED scenario,
           Measure(c) \/ StopHeartbeat(c) \/ CreateHeartbeat(c) \/ RegisterHeartbeat(c)
    PROVE  ProgramTypes'
<1> DEFINE w == client[c]
<1>1. c \in Clients /\ w \in ClientState /\ Idle \in ClientState
  BY SiriProxyAssumption DEF TypeInv, TypeOK, ClientState, Idle
<1>2. /\ beats \in Seq(Heartbeat) /\ Len(beats) \in Nat
      /\ \A b \in DOMAIN beats : b \in 1 .. Len(beats) /\ beats[b] \in Heartbeat
      /\ registered \in [Addresses -> 0 .. Len(beats)]
      /\ \A a \in Addresses : registered[a] # 0 => beats[registered[a]].address = a
      /\ \A b \in DOMAIN beats : beats[b].ticking => beats[b].timer \in {"armed", "fired"}
  BY DEF TypeInv, TypeOK, TickerHasTimer
<1>3. CASE Measure(c)
  <2> DEFINE mine == {s \in Range(Stored) : s.address = w.address}
             v == [ pc |-> "stop", address |-> w.address, interval |-> Shortest(mine),
                    term |-> Latest(mine) ]
  <2>1. w.address \in Addresses
    BY <1>1, <1>3, StateOf DEF Measure
  <2>2. Stored \in Seq(SiriSubscription)
    <3>1. Stored = Slice(subs) /\ Readable(subs) /\ subs \in Header
      BY <1>3 DEF Measure, Stored, Slice, TypeInv, TypeOK
    <3> QED
      BY <3>1, SliceProperties DEF TypeInv
  <2>3. now \in Nat
    <3>1. scenario.until \in Nat /\ now \in 0 .. scenario.until
      BY SiriProxyAssumption DEF TypeInv, TypeOK
    <3> QED
      BY <3>1
  <2>4. Shortest(mine) \in Nat \ {0} /\ Latest(mine) \in Nat
    <3>1. PICK st \in Seq(SiriSubscription) : st = Stored
      BY <2>2
    <3>2. PICK a : a = w.address
      OBVIOUS
    <3>3. Measures(Those(st, a))
      BY <2>3, Measured, Zenon
    <3>4. mine = Those(st, a)
      BY <3>1, <3>2 DEF Those
    <3> HIDE DEF mine
    <3> QED
      BY <3>3, <3>4 DEF Measures
  <2>5. Goto(c, v) /\ UNCHANGED <<arrays, subs, registered, beats, now, feed, pending, crashed>>
    BY <1>3 DEF Measure
  <2> HIDE DEF mine
  <2>6. v \in ClientState /\ v.pc # "register"
    BY <2>1, <2>4 DEF ClientState
  <2> HIDE DEF v
  <2> QED
    BY <2>5, <2>6, ClientOnlyMoves
<1>4. CASE StopHeartbeat(c)
  <2> DEFINE a == w.address
             v == [w EXCEPT !.pc = "create"]
             Beat(b) == IF b = registered[a] THEN StoppedBeat(beats[b]) ELSE beats[b]
  <2>1. /\ beats' = [b \in DOMAIN beats |-> Beat(b)]
        /\ registered' = [registered EXCEPT ![a] = 0]
        /\ Goto(c, v) /\ UNCHANGED <<arrays, subs, now, feed, pending, crashed>>
    BY <1>4 DEF StopHeartbeat
  <2>2. w \in [ pc : {"stop", "create"}, address : Addresses, interval : Nat \ {0}, term : Nat ]
    BY <1>1, <1>4, StateOf DEF StopHeartbeat
  <2>3. v \in [ pc : {"stop", "create"}, address : Addresses, interval : Nat \ {0}, term : Nat ]
        /\ v.pc = "create"
    BY <2>2
  <2> HIDE DEF v
  <2>4. v \in ClientState'
    BY <2>3 DEF ClientState
  <2>5. \A b \in DOMAIN beats : /\ Beat(b) \in Heartbeat /\ Beat(b).address = beats[b].address
                                /\ Beat(b).ticking => Beat(b).timer \in {"armed", "fired"}
    BY <1>2, Stopped
  <2> HIDE DEF Beat
  <2>6. /\ beats' \in Seq(Heartbeat) /\ Len(beats') = Len(beats) /\ DOMAIN beats' = DOMAIN beats
        /\ \A b \in DOMAIN beats : beats'[b] = Beat(b)
    BY <1>2, <2>1, <2>5
  <2>7. /\ registered' \in [Addresses -> 0 .. Len(beats')]
        /\ \A d \in Addresses : registered'[d] # 0 => beats'[registered'[d]].address = d
    <3>1. \A d \in Addresses : registered'[d] # 0 =>
             registered'[d] = registered[d] /\ registered[d] \in DOMAIN beats
      BY <1>2, <2>1
    <3>2. registered' \in [Addresses -> 0 .. Len(beats')]
      <4>1. 0 \in 0 .. Len(beats) /\ registered \in [Addresses -> 0 .. Len(beats)]
        BY <1>2
      <4>2. registered' \in [Addresses -> 0 .. Len(beats)]
        BY <2>1, <4>1
      <4> QED
        BY <2>6, <4>2
    <3>3. ASSUME NEW d \in Addresses, registered'[d] # 0 PROVE beats'[registered'[d]].address = d
      <4>1. PICK b \in DOMAIN beats : b = registered[d] /\ registered'[d] = b
        BY <3>1, <3>3
      <4>2. beats[b].address = d
        BY <1>2, <3>3, <4>1
      <4>3. beats'[b].address = d
        BY <2>5, <2>6, <4>2
      <4> QED
        BY <4>1, <4>3
    <3> QED
      BY <3>2, <3>3
  <2>8. BeatType'
    BY <2>5, <2>6, <2>7 DEF BeatType, TickerHasTimer
  <2>9. Len(beats) <= Len(beats') /\ \A b \in DOMAIN beats : beats'[b].address = beats[b].address
    BY <1>2, <2>5, <2>6
  <2> QED
    BY <2>1, <2>3, <2>4, <2>8, <2>9, ClientBeats
<1>5. CASE CreateHeartbeat(c)
  <2> DEFINE new == [ address |-> w.address, interval |-> w.interval, term |-> w.term,
                      ticking |-> TRUE, timer |-> "armed" ]
             v == [pc |-> "register", address |-> w.address, beat |-> Len(beats) + 1]
  <2>1. /\ beats' = Append(beats, new) /\ Goto(c, v)
        /\ UNCHANGED <<arrays, subs, registered, now, feed, pending, crashed>>
    BY <1>5 DEF CreateHeartbeat
  <2>2. w \in [ pc : {"stop", "create"}, address : Addresses, interval : Nat \ {0}, term : Nat ]
    BY <1>1, <1>5, StateOf DEF CreateHeartbeat
  <2>3. /\ new \in Heartbeat /\ new.address = w.address
        /\ new.ticking => new.timer \in {"armed", "fired"}
    BY <2>2 DEF Heartbeat
  <2> HIDE DEF new
  <2>4. /\ beats' \in Seq(Heartbeat) /\ Len(beats') = Len(beats) + 1
        /\ DOMAIN beats' = 1 .. Len(beats) + 1
        /\ beats'[Len(beats) + 1] = new /\ \A b \in DOMAIN beats : beats'[b] = beats[b]
    BY <1>2, <2>1, <2>3, AppendProperties
  <2>5. v \in [pc : {"register"}, address : Addresses, beat : DOMAIN beats']
    BY <1>2, <2>2, <2>4
  <2>6. v \in ClientState' /\ beats'[v.beat].address = v.address
    BY <2>3, <2>4, <2>5 DEF ClientState
  <2>7. /\ registered' \in [Addresses -> 0 .. Len(beats')]
        /\ \A d \in Addresses : registered'[d] # 0 => beats'[registered'[d]].address = d
    <3>1. registered' = registered
      BY <2>1
    <3>2. \A d \in Addresses : registered[d] # 0 => registered[d] \in DOMAIN beats
      BY <1>2
    <3>3. \A d \in Addresses : registered[d] \in 0 .. Len(beats) + 1
      BY <1>2
    <3> QED
      BY <1>2, <2>4, <3>1, <3>2, <3>3
  <2>8. ASSUME NEW b \in DOMAIN beats', beats'[b].ticking
        PROVE  beats'[b].timer \in {"armed", "fired"}
    <3>1. CASE b = Len(beats) + 1
      BY <2>3, <2>4, <2>8, <3>1
    <3>2. CASE b # Len(beats) + 1
      <4>1. b \in DOMAIN beats
        BY <1>2, <2>4, <3>2
      <4> QED
        BY <1>2, <2>4, <2>8, <4>1
    <3> QED
      BY <3>1, <3>2
  <2>9. BeatType'
    BY <2>4, <2>7, <2>8 DEF BeatType, TickerHasTimer
  <2>10. Len(beats) <= Len(beats') /\ \A b \in DOMAIN beats : beats'[b].address = beats[b].address
    BY <1>2, <2>4
  <2> HIDE DEF v
  <2> QED
    BY <2>1, <2>6, <2>9, <2>10, ClientBeats
<1>6. CASE RegisterHeartbeat(c)
  <2>1. /\ registered' = [registered EXCEPT ![w.address] = w.beat] /\ Goto(c, Idle)
        /\ UNCHANGED <<arrays, subs, beats, now, feed, pending, crashed>>
    BY <1>6 DEF RegisterHeartbeat
  <2>2. w \in [pc : {"register"}, address : Addresses, beat : DOMAIN beats]
    BY <1>1, <1>6, StateOf DEF RegisterHeartbeat
  <2>3. beats[w.beat].address = w.address
    BY <1>1, <1>6 DEF RegisterHeartbeat, TypeInv, Registering
  <2>4. w.beat \in 0 .. Len(beats) /\ w.address \in Addresses
    BY <1>2, <2>2
  <2>5. BeatType'
    BY <1>2, <2>1, <2>3, <2>4 DEF BeatType, TickerHasTimer
  <2>6. Len(beats) <= Len(beats') /\ \A b \in DOMAIN beats : beats'[b].address = beats[b].address
    BY <1>2, <2>1
  <2>7. Idle \in ClientState' /\ Idle.pc # "register"
    BY DEF ClientState, Idle
  <2> QED
    BY <2>1, <2>5, <2>6, <2>7, ClientBeats
<1> QED
  BY <1>3, <1>4, <1>5, <1>6

\* The steps of a termination up to the search for redundant heartbeats.
LEMMA TerminationTypes ==
    ASSUME TypeInv, NEW c \in scenario.clients, UNCHANGED scenario,
           ReceiveTermination(c) \/ RemoveAll(c) \/ RemoveNext(c)
    PROVE  ProgramTypes'
<1> DEFINE w == client[c]
<1>1. c \in Clients /\ w \in ClientState /\ Idle \in ClientState
      /\ pending \subseteq SubscriptionRequest \cup Termination \cup TerminationOfAll \cup Publication
  BY SiriProxyAssumption DEF TypeInv, TypeOK, ClientState, Idle
<1>2. CASE ReceiveTermination(c)
  <2>1. PICK r \in pending : /\ r.kind \in {"terminateAll", "terminate"}
                             /\ Goto(c, [pc |-> r.kind, request |-> r, pass |-> NewPass])
                             /\ pending' = pending \ {r}
    BY <1>2 DEF ReceiveTermination
  <2>2. \/ r.kind = "terminate" /\ r \in Termination
        \/ r.kind = "terminateAll" /\ r \in TerminationOfAll
    BY <1>1, <2>1 DEF SubscriptionRequest, Termination, TerminationOfAll, Publication
  <2> DEFINE v == [pc |-> r.kind, request |-> r, pass |-> NewPass]
  <2>3. v \in ClientState /\ v.pc # "register"
    BY <2>2, NewPassType DEF ClientState, TypeInv
  <2> HIDE DEF v
  <2>4. Goto(c, v) /\ pending' \subseteq pending
    BY <2>1 DEF v
  <2>5. UNCHANGED <<arrays, subs, registered, beats, now, feed, crashed, scenario>>
    BY <1>2 DEF ReceiveTermination
  <2> QED
    BY <2>3, <2>4, <2>5, ClientOnlyMoves
<1>4. CASE RemoveAll(c)
  <2>1. PICK i \in ClientState' : i = Idle
    BY DEF ClientState, Idle
  <2>2. i.pc # "register" /\ Goto(c, i)
        /\ UNCHANGED <<registered, beats, now, feed, pending, crashed, scenario>>
    BY <1>4, <2>1 DEF RemoveAll, Idle
  <2>3. w.pass \in Pass
    BY <1>1, <1>4, StateOf DEF RemoveAll
  <2>4. arrays' \in Seq(Seq(Cells)) /\ Len(arrays) <= Len(arrays') /\ subs' \in Header'
    BY <1>4, <2>3, SliceCut DEF RemoveAll, TypeInv
  <2> QED
    BY <2>2, <2>4, ClientWrites
<1>5. CASE RemoveNext(c)
  <2> DEFINE v == [w EXCEPT !.request.refs = Tail(@), !.pass = NewPass]
  <2>1. w \in [pc : {"terminate"}, request : Termination, pass : Pass] /\ w.request.refs # << >>
    BY <1>1, <1>5, StateOf DEF RemoveNext, Cut, Passed, Removing
  <2>2. Tail(w.request.refs) \in Seq(SubscriptionRefs)
    BY <2>1 DEF Termination
  <2>3. arrays' = arrays /\ arrays' \in Seq(Seq(Cells)) /\ Len(arrays) <= Len(arrays')
        /\ subs' \in Header'
    <3>1. arrays' = arrays /\ Cut(w) /\ w.pass \in Pass
      BY <1>5, <2>1 DEF RemoveNext, Cut
    <3>2. arrays' \in Seq(Seq(Cells)) /\ Len(arrays) <= Len(arrays') /\ subs' \in Header'
      BY <3>1, SliceCut DEF TypeInv
    <3> QED
      BY <3>1, <3>2
  <2>4. NewPass \in Pass'
    BY <2>3, NewPassType DEF TypeInv, Pass, Header
  <2>5. v \in [pc : {"terminate"}, request : Termination, pass : Pass'] /\ v.pc = "terminate"
    BY <2>1, <2>2, <2>4 DEF Termination
  <2> HIDE DEF v
  <2>6. v \in ClientState' /\ v.pc # "register"
    BY <2>5 DEF ClientState
  <2>7. Goto(c, v) /\ UNCHANGED <<registered, beats, now, feed, pending, crashed, scenario>>
    BY <1>5 DEF RemoveNext, v
  <2> QED
    BY <2>3, <2>6, <2>7, ClientWrites
<1> QED
  BY <1>2, <1>4, <1>5

\* The steps of that search.
LEMMA SweepTypes ==
    ASSUME TypeInv, NEW c \in scenario.clients, UNCHANGED scenario,
           SweepBegins(c) \/ SweepAddress(c) \/ SweepDelete(c) \/ SweepEnds(c)
    PROVE  ProgramTypes'
<1> DEFINE w == client[c]
<1>1. c \in Clients /\ w \in ClientState /\ Idle \in ClientState
  BY SiriProxyAssumption DEF TypeInv, TypeOK, ClientState, Idle
<1>2. /\ beats \in Seq(Heartbeat) /\ Len(beats) \in Nat
      /\ \A b \in DOMAIN beats : b \in 1 .. Len(beats) /\ beats[b] \in Heartbeat
      /\ registered \in [Addresses -> 0 .. Len(beats)]
      /\ \A a \in Addresses : registered[a] # 0 => beats[registered[a]].address = a
      /\ \A b \in DOMAIN beats : beats[b].ticking => beats[b].timer \in {"armed", "fired"}
  BY DEF TypeInv, TypeOK, TickerHasTimer
<1>3. CASE SweepBegins(c)
  <2> DEFINE v == [ pc |-> "sweep", visited |-> {},
                    entries |-> {a \in Addresses : registered[a] # 0} ]
  <2>1. v \in ClientState /\ v.pc # "register"
    BY DEF ClientState
  <2>2. Goto(c, v)
    BY <1>3 DEF SweepBegins
  <2> HIDE DEF v
  <2>3. UNCHANGED <<arrays, subs, registered, beats, now, feed, pending, crashed, scenario>>
    BY <1>3 DEF SweepBegins
  <2> QED
    BY <2>1, <2>2, <2>3, ClientOnlyMoves
<1>4. CASE SweepEnds(c)
  <2>1. PICK i \in ClientState : i = Idle
    BY <1>1
  <2>2. i.pc # "register" /\ Goto(c, i)
        /\ UNCHANGED <<arrays, subs, registered, beats, now, feed, pending, crashed, scenario>>
    BY <1>4, <2>1 DEF SweepEnds, Idle
  <2> QED
    BY <2>2, ClientOnlyMoves
<1>5. CASE SweepAddress(c)
  <2>1. PICK a \in Addresses \ w.visited :
          LET b    == registered[a]
              mine == {k \in DOMAIN Stored : Stored[k].address = a}
          IN  /\ b # 0
              /\ beats' = IF Keeps(b, mine) THEN beats ELSE [beats EXCEPT ![b] = StoppedBeat(@)]
              /\ Goto(c, [ pc |-> IF mine = {} THEN "delete" ELSE "sweep", address |-> a,
                           entries |-> w.entries, visited |-> w.visited \cup {a} ])
    BY <1>5 DEF SweepAddress
  <2>2. PICK b \in DOMAIN beats : b = registered[a]
    BY <1>2, <2>1
  <2>3. \/ beats' = beats
        \/ beats' = [beats EXCEPT ![b] = StoppedBeat(beats[b])]
    BY <2>1, <2>2
  <2>4. /\ beats' \in Seq(Heartbeat) /\ Len(beats') = Len(beats) /\ DOMAIN beats' = DOMAIN beats
        /\ \A d \in DOMAIN beats : /\ beats'[d].address = beats[d].address
                                   /\ beats'[d].ticking => beats'[d].timer \in {"armed", "fired"}
    <3>1. PICK new \in Heartbeat : new = StoppedBeat(beats[b]) /\ new.address = beats[b].address
                                   /\ ~ new.ticking
      BY <1>2, Stopped
    <3>2. beats' = beats \/ beats' = [beats EXCEPT ![b] = new]
      BY <2>3, <3>1
    <3> QED
      BY <1>2, <3>1, <3>2
  <2>5. UNCHANGED <<arrays, subs, registered, now, feed, pending, crashed, scenario>>
    BY <1>5 DEF SweepAddress
  <2>6. \A d \in Addresses : registered[d] # 0 => registered[d] \in DOMAIN beats
    BY <1>2
  <2>7. BeatType'
    BY <1>2, <2>4, <2>5, <2>6 DEF BeatType, TickerHasTimer
  <2>8. w.visited \in SUBSET Addresses /\ w.entries \in SUBSET Addresses
    BY <1>1, <1>5, StateOf DEF SweepAddress
  <2> DEFINE State(pc) == [ pc |-> pc, address |-> a, entries |-> w.entries,
                            visited |-> w.visited \cup {a} ]
  <2>9. \/ Goto(c, State("delete"))
        \/ Goto(c, State("sweep"))
    BY <2>1
  <2>10. /\ State("delete") \in ClientState' /\ State("delete").pc # "register"
         /\ State("sweep") \in ClientState' /\ State("sweep").pc # "register"
    BY <2>8 DEF ClientState
  <2>11. PICK v \in ClientState' : v.pc # "register" /\ Goto(c, v)
    <3> HIDE DEF State
    <3> QED
      BY <2>9, <2>10
  <2>12. Len(beats) <= Len(beats')
    BY <1>2, <2>4
  <2> QED
    BY <2>4, <2>5, <2>7, <2>11, <2>12, ClientBeats
<1>6. CASE SweepDelete(c)
  <2> DEFINE v == [w EXCEPT !.pc = "sweep"]
  <2>1. w \in [ pc : {"sweep", "delete"}, address : Addresses, visited : SUBSET Addresses,
                entries : SUBSET Addresses ]
    BY <1>1, <1>6, StateOf DEF SweepDelete
  <2>2. v \in [ pc : {"sweep", "delete"}, address : Addresses, visited : SUBSET Addresses,
                entries : SUBSET Addresses ] /\ v.pc = "sweep"
    BY <2>1
  <2>3. /\ registered' = [registered EXCEPT ![w.address] = 0] /\ Goto(c, v)
        /\ UNCHANGED <<arrays, subs, beats, now, feed, pending, crashed>>
    BY <1>6 DEF SweepDelete
  <2> HIDE DEF v
  <2>4. v \in ClientState'
    BY <2>2 DEF ClientState
  <2>5. BeatType'
    <3>1. 0 \in 0 .. Len(beats)
      BY <1>2
    <3> QED
      BY <1>2, <2>3, <3>1 DEF BeatType, TickerHasTimer
  <2>6. Len(beats) <= Len(beats') /\ \A b \in DOMAIN beats : beats'[b].address = beats[b].address
    BY <1>2, <2>3
  <2> QED
    BY <2>2, <2>3, <2>4, <2>5, <2>6, ClientBeats
<1> QED
  BY <1>3, <1>4, <1>5, <1>6

\* Whatever else is done, the clients stay where they are.
LEMMA ClientsStay ==
    ASSUME TypeInv, UNCHANGED <<arrays, subs, client, scenario>>, OtherType',
           BeatType', Len(beats) <= Len(beats'),
           \A b \in DOMAIN beats : beats'[b].address = beats[b].address,
           feed' \in [Feeds -> FeedState]
    PROVE  ProgramTypes'
<1>1. Grown
  BY DEF TypeInv, TypeOK, Grown, BeatType, Cells
<1>2. PlaceType'
  BY <1>1, StatesStay DEF PlaceType, TypeInv, TypeOK
<1>3. SliceType'
  BY Types DEF TypeInv, SliceType, Header
<1>4. Within'
  BY DEF TypeInv, Within
<1>5. Registering'
  <2> SUFFICES ASSUME NEW d \in Clients, client[d].pc = "register"
               PROVE  beats'[client[d].beat].address = client[d].address
    BY DEF Registering
  <2>1. client[d].beat \in DOMAIN beats
    BY StateOf DEF TypeInv, TypeOK
  <2> QED
    BY <2>1 DEF TypeInv, Registering
<1> QED
  BY <1>2, <1>3, <1>4, <1>5 DEF ProgramTypes

\* A timer fires, and its function stops the ticker and deletes the entry.
LEMMA TimerTypes ==
    ASSUME TypeInv, NEW b \in DOMAIN beats, Timer(b), UNCHANGED scenario
    PROVE  ProgramTypes'
<1>1. /\ beats \in Seq(Heartbeat) /\ Len(beats) \in Nat
      /\ \A d \in DOMAIN beats : d \in 1 .. Len(beats) /\ beats[d] \in Heartbeat
      /\ registered \in [Addresses -> 0 .. Len(beats)]
      /\ \A a \in Addresses : registered[a] # 0 => beats[registered[a]].address = a
      /\ \A d \in DOMAIN beats : beats[d].ticking => beats[d].timer \in {"armed", "fired"}
  BY DEF TypeInv, TypeOK, TickerHasTimer
<1>2. /\ UNCHANGED <<arrays, subs, now, client, feed, pending, crashed>>
      /\ \/ registered' = registered
         \/ registered' = [registered EXCEPT ![beats[b].address] = 0]
      /\ \/ beats[b].timer = "armed" /\ beats' = [beats EXCEPT ![b].timer = "fired"]
         \/ beats[b].timer = "fired"
            /\ beats' = [beats EXCEPT ![b].timer = "expired", ![b].ticking = FALSE]
         \/ beats[b].timer = "expired" /\ beats' = [beats EXCEPT ![b].timer = "done"]
  BY DEF Timer, TimerFires, TimerStopsTicker, TimerDeletes
<1>3. PICK new \in Heartbeat : /\ beats' = [beats EXCEPT ![b] = new]
                               /\ new.address = beats[b].address
                               /\ new.ticking => new.timer \in {"armed", "fired"}
  <2>1. CASE beats[b].timer = "armed" /\ beats' = [beats EXCEPT ![b].timer = "fired"]
    <3> DEFINE n == [beats[b] EXCEPT !.timer = "fired"]
    <3>1. n \in Heartbeat /\ n.address = beats[b].address /\ n.timer = "fired"
      BY <1>1 DEF Heartbeat
    <3>2. beats' = [beats EXCEPT ![b] = n]
      BY <2>1
    <3> HIDE DEF n
    <3> QED
      BY <3>1, <3>2
  <2>2. CASE beats' = [beats EXCEPT ![b].timer = "expired", ![b].ticking = FALSE]
    <3> DEFINE n == [beats[b] EXCEPT !.timer = "expired", !.ticking = FALSE]
    <3>1. n \in Heartbeat /\ n.address = beats[b].address /\ ~ n.ticking
      BY <1>1 DEF Heartbeat
    <3>2. beats' = [beats EXCEPT ![b] = n]
      BY <1>1, <2>2
    <3> HIDE DEF n
    <3> QED
      BY <3>1, <3>2
  <2>3. CASE beats[b].timer = "expired" /\ beats' = [beats EXCEPT ![b].timer = "done"]
    <3> DEFINE n == [beats[b] EXCEPT !.timer = "done"]
    <3>1. n \in Heartbeat /\ n.address = beats[b].address /\ ~ n.ticking
      BY <1>1, <2>3 DEF Heartbeat
    <3>2. beats' = [beats EXCEPT ![b] = n]
      BY <2>3
    <3> HIDE DEF n
    <3> QED
      BY <3>1, <3>2
  <2> QED
    BY <1>2, <2>1, <2>2, <2>3
<1>4. /\ beats' \in Seq(Heartbeat) /\ Len(beats') = Len(beats) /\ DOMAIN beats' = DOMAIN beats
      /\ \A d \in DOMAIN beats : /\ beats'[d].address = beats[d].address
                                 /\ beats'[d].ticking => beats'[d].timer \in {"armed", "fired"}
  BY <1>1, <1>3
<1>5. BeatType'
  <2>1. /\ registered' \in [Addresses -> 0 .. Len(beats)]
        /\ \A a \in Addresses : registered'[a] # 0 =>
              registered'[a] = registered[a] /\ registered[a] \in DOMAIN beats
    <3>1. 0 \in 0 .. Len(beats)
      BY <1>1
    <3> QED
      BY <1>1, <1>2, <3>1
  <2> QED
    BY <1>1, <1>4, <2>1 DEF BeatType, TickerHasTimer
<1>6. OtherType' /\ feed' \in [Feeds -> FeedState]
  BY <1>2, Types DEF TypeInv, TypeOK, OtherType
<1>7. Len(beats) <= Len(beats')
  BY <1>1, <1>4
<1> QED
  BY <1>2, <1>4, <1>5, <1>6, <1>7, ClientsStay

\* Time goes on.
LEMMA TickTypes ==
    ASSUME TypeInv, Tick, UNCHANGED scenario
    PROVE  ProgramTypes'
<1>1. scenario.until \in Nat /\ now \in 0 .. scenario.until
  BY SiriProxyAssumption DEF TypeInv, TypeOK
<1>2. now' = now + 1 /\ now < scenario.until
      /\ UNCHANGED <<arrays, subs, registered, beats, client, feed, pending, crashed>>
  BY DEF Tick
<1>3. now' \in 0 .. scenario.until
  BY <1>1, <1>2
<1>4. OtherType'
  BY <1>2, <1>3 DEF OtherType, TypeInv, TypeOK
<1>5. BeatType' /\ feed' \in [Feeds -> FeedState]
  BY <1>2, Types DEF BeatType, TickerHasTimer, TypeInv, TypeOK
<1>6. Len(beats) <= Len(beats')
  BY <1>2 DEF TypeInv, TypeOK
<1> QED
  BY <1>2, <1>4, <1>5, <1>6, ClientsStay

\* A client reads a slice whose header is being written, or two goroutines
\* meet in the map.
LEMMA RaceTypes ==
    ASSUME TypeInv, NEW c \in scenario.clients, UNCHANGED scenario,
           ClientMisreads(c) \/ MapRace(c)
    PROVE  ProgramTypes'
<1>1. CASE /\ client[c].pc # "idle" /\ crashed' = TRUE
           /\ UNCHANGED <<arrays, subs, registered, beats, now, client, feed, pending>>
  <2>1. OtherType' /\ BeatType' /\ feed' \in [Feeds -> FeedState]
    BY <1>1, Types DEF BeatType, TickerHasTimer, OtherType, TypeInv, TypeOK
  <2>2. Len(beats) <= Len(beats')
    BY <1>1 DEF TypeInv, TypeOK
  <2> QED
    BY <1>1, <2>1, <2>2, ClientsStay
<1>2. CASE /\ Goto(c, Idle)
           /\ UNCHANGED <<arrays, subs, registered, beats, now, feed, pending, crashed>>
  <2>1. PICK i \in ClientState : i = Idle
    BY DEF ClientState, Idle
  <2>2. i.pc # "register" /\ Goto(c, i)
    BY <1>2, <2>1 DEF Idle
  <2> QED
    BY <1>2, <2>2, ClientOnlyMoves
<1> QED
  <2>1. client[c].pc # "idle"
    BY DEF ClientMisreads, MapRace, Faults, Panics, Looping, Passed, Removing
  <2> QED
    BY <1>1, <1>2, <2>1 DEF ClientMisreads, MapRace

\* Where a feed is while it handles a publication.
FeedStates == [ pc : {"range", "visit", "post"}, keys : Seq(Key) \ {<< >>}, n : Nat \ {0},
                header : Header, unread : SUBSET Parts, sent : Seq(SiriSubscription) ]

\* A feed goes on, and only it.
LEMMA FeedMoves ==
    ASSUME TypeInv, NEW f \in Feeds, NEW v \in FeedState, FeedGoto(f, v),
           UNCHANGED <<arrays, subs, registered, beats, now, client, crashed, scenario>>,
           pending' \subseteq pending
    PROVE  ProgramTypes'
<1>1. OtherType' /\ BeatType'
  BY Types DEF BeatType, TickerHasTimer, OtherType, TypeInv
<1>2. feed' \in [Feeds -> FeedState]
  BY DEF FeedGoto, TypeInv, TypeOK
<1>3. Len(beats) <= Len(beats')
  BY DEF TypeInv, TypeOK
<1> QED
  BY <1>1, <1>2, <1>3, ClientsStay

\* The steps of a publication.
LEMMA FeedTypes ==
    ASSUME TypeInv, NEW f \in Feeds, Feed(f), UNCHANGED scenario
    PROVE  ProgramTypes'
<1> DEFINE w == feed[f]
<1>1. /\ w \in FeedState /\ (w.pc # "idle" => w \in FeedStates) /\ Idle \in FeedState
      /\ pending \subseteq SubscriptionRequest \cup Termination \cup TerminationOfAll \cup Publication
      /\ FeedStates \subseteq FeedState
  BY SiriProxyAssumption DEF TypeInv, TypeOK, FeedState, FeedStates, Idle
<1>2. ASSUME NEW keys \in Seq(Key) \ {<< >>} PROVE Ranging(keys) \in FeedState
  <2>1. 1 \in DOMAIN arrays
    <3>1. Len(arrays) \in Nat /\ DOMAIN arrays = 1 .. Len(arrays)
          /\ subs.arr \in DOMAIN arrays
      BY DEF TypeInv, TypeOK, Header
    <3> QED
      BY <3>1
  <2>2. [arr |-> 1, len |-> 0] \in Header
    BY <2>1 DEF Header
  <2>3. << >> \in Seq(SiriSubscription) /\ 1 \in Nat \ {0} /\ "range" \in {"range", "visit", "post"}
    OBVIOUS
  <2>4. Ranging(keys) \in FeedStates
    <3>1. PICK h \in Header : h = [arr |-> 1, len |-> 0]
      BY <2>2
    <3>2. Ranging(keys) = [ pc |-> "range", keys |-> keys, n |-> 1, header |-> h,
                            unread |-> Parts, sent |-> << >> ]
      BY <3>1 DEF Ranging
    <3> QED
      BY <2>3, <3>2 DEF FeedStates
  <2> QED
    BY <1>1, <2>4
<1>3. CASE Publish(f)
  <2>1. PICK p \in pending : /\ p.kind = "publish" /\ FeedGoto(f, Ranging(p.keys))
                             /\ pending' = pending \ {p}
    BY <1>3 DEF Publish
  <2>2. p \in Publication
    BY <1>1, <2>1 DEF SubscriptionRequest, Termination, TerminationOfAll
  <2>3. Ranging(p.keys) \in FeedState
    BY <1>2, <2>2 DEF Publication
  <2>4. UNCHANGED <<arrays, subs, registered, beats, now, client, crashed>>
    BY <1>3 DEF Publish
  <2> QED
    BY <2>1, <2>3, <2>4, FeedMoves
<1>4. CASE CopyHeader(f)
  <2>1. PICK part \in w.unread :
          FeedGoto(f, [w EXCEPT !.header[part] = subs[part], !.unread = @ \ {part},
                                !.pc = IF w.unread = {part} THEN "visit" ELSE "range"])
    BY <1>4 DEF CopyHeader
  <2> DEFINE v == [w EXCEPT !.header[part] = subs[part], !.unread = @ \ {part},
                            !.pc = IF w.unread = {part} THEN "visit" ELSE "range"]
             h == [w.header EXCEPT ![part] = subs[part]]
  <2>2. w \in FeedStates
    BY <1>1, <1>4 DEF CopyHeader
  <2>3. h \in Header
    <3>1. subs \in Header /\ w.header \in Header
      BY <2>2 DEF TypeInv, TypeOK, FeedStates
    <3>2. part = "arr" \/ part = "len"
      BY <2>1, <2>2 DEF FeedStates, Parts
    <3> QED
      BY <3>1, <3>2 DEF Header
  <2>4. v = [ pc |-> IF w.unread = {part} THEN "visit" ELSE "range", keys |-> w.keys, n |-> w.n,
              header |-> h, unread |-> w.unread \ {part}, sent |-> w.sent ]
    <3>1. v = [w EXCEPT !.header = h, !.unread = w.unread \ {part},
                        !.pc = IF w.unread = {part} THEN "visit" ELSE "range"]
      BY <2>2 DEF FeedStates
    <3> HIDE DEF v, h
    <3> QED
      BY <2>2, <3>1 DEF FeedStates
  <2>5. v \in FeedStates
    <3> HIDE DEF h
    <3>1. (IF w.unread = {part} THEN "visit" ELSE "range") \in {"range", "visit", "post"}
      OBVIOUS
    <3>2. w.unread \ {part} \in SUBSET Parts
      BY <2>2 DEF FeedStates
    <3> HIDE DEF v
    <3> QED
      BY <2>2, <2>3, <2>4, <3>1, <3>2 DEF FeedStates
  <2>6. FeedGoto(f, v) /\ UNCHANGED <<arrays, subs, registered, beats, now, client, pending, crashed>>
    BY <1>4, <2>1 DEF CopyHeader
  <2> HIDE DEF v
  <2> QED
    BY <1>1, <2>5, <2>6, FeedMoves
<1>5. CASE Skip(f)
  <2> DEFINE v == [w EXCEPT !.n = @ + 1]
  <2>1. w \in FeedStates
    BY <1>1, <1>5 DEF Skip, Reading
  <2>2. v \in FeedStates
    BY <2>1 DEF FeedStates
  <2>3. FeedGoto(f, v) /\ UNCHANGED <<arrays, subs, registered, beats, now, client, pending, crashed>>
    BY <1>5 DEF Skip
  <2> HIDE DEF v
  <2> QED
    BY <1>1, <2>2, <2>3, FeedMoves
<1>6. CASE Post(f)
  <2> DEFINE v == [w EXCEPT !.pc = "post", !.sent = Append(@, Current(f))]
  <2>1. w \in FeedStates
    BY <1>1, <1>6 DEF Post, Reading
  <2>2. Current(f) \in SiriSubscription
    <3>1. /\ w.n \in Nat \ {0} /\ w.header.arr \in DOMAIN arrays
          /\ arrays \in Seq(Seq(Cells)) /\ w.n <= Len(arrays[w.header.arr])
      BY <1>6, <2>1 DEF FeedStates, Header, TypeInv, TypeOK, Cells, Post, Reading
    <3>2. arrays[w.header.arr] \in Seq(Cells)
      BY <3>1
    <3>3. w.n \in 1 .. Len(arrays[w.header.arr])
      BY <3>1, <3>2
    <3>4. arrays[w.header.arr][w.n] \in Cells
      BY <3>2, <3>3
    <3> QED
      BY <1>6, <3>4 DEF Current, Cells, Post, Reading
  <2>3. PICK s \in SiriSubscription : s = Current(f)
    BY <2>2
  <2>4. [w EXCEPT !.pc = "post", !.sent = Append(@, s)] \in FeedStates
    <3>1. Append(w.sent, s) \in Seq(SiriSubscription)
      BY <2>1 DEF FeedStates
    <3> QED
      BY <2>1, <3>1 DEF FeedStates
  <2>5. FeedGoto(f, v) /\ UNCHANGED <<arrays, subs, registered, beats, now, client, pending, crashed>>
    BY <1>6 DEF Post
  <2>6. v \in FeedState
    BY <1>1, <2>3, <2>4
  <2> HIDE DEF v
  <2> QED
    BY <2>5, <2>6, FeedMoves
<1>7. CASE Posted(f)
  <2> DEFINE v == [w EXCEPT !.pc = "visit", !.n = @ + 1]
  <2>1. w \in FeedStates
    BY <1>1, <1>7 DEF Posted
  <2>2. v \in FeedStates
    <3> DEFINE u == [w EXCEPT !.pc = "visit"]
    <3>1. u \in FeedStates /\ u.n = w.n /\ v = [u EXCEPT !.n = w.n + 1]
      BY <2>1 DEF FeedStates
    <3>2. w.n + 1 \in Nat \ {0}
      BY <2>1 DEF FeedStates
    <3> HIDE DEF v, u
    <3> QED
      BY <3>1, <3>2 DEF FeedStates
  <2>3. FeedGoto(f, v) /\ UNCHANGED <<arrays, subs, registered, beats, now, client, pending, crashed>>
    BY <1>7 DEF Posted
  <2> HIDE DEF v
  <2> QED
    BY <1>1, <2>2, <2>3, FeedMoves
<1>8. CASE NextDelivery(f)
  <2> DEFINE v == IF Len(w.keys) = 1 THEN Idle ELSE Ranging(Tail(w.keys))
  <2>1. w \in FeedStates
    BY <1>1, <1>8 DEF NextDelivery
  <2>2. v \in FeedState
    <3>1. CASE Len(w.keys) = 1
      BY <1>1, <3>1
    <3>2. CASE Len(w.keys) # 1
      <4>1. w.keys \in Seq(Key) /\ w.keys # << >>
        BY <2>1 DEF FeedStates
      <4>2. Tail(w.keys) \in Seq(Key) /\ Len(w.keys) \in Nat
            /\ Len(Tail(w.keys)) = Len(w.keys) - 1
        BY <4>1
      <4>3. Tail(w.keys) \in Seq(Key) \ {<< >>}
        <5>1. Len(Tail(w.keys)) # 0
          BY <3>2, <4>2
        <5>2. Len(<< >>) = 0
          OBVIOUS
        <5>3. Tail(w.keys) # << >>
          BY <5>1, <5>2, Zenon
        <5> QED
          BY <4>2, <5>3
      <4>4. Ranging(Tail(w.keys)) \in FeedState
        BY <1>2, <4>3
      <4> QED
        BY <3>2, <4>4
    <3> HIDE DEF v
    <3> QED
      BY <3>1, <3>2
  <2>3. FeedGoto(f, v) /\ UNCHANGED <<arrays, subs, registered, beats, now, client, pending, crashed>>
    BY <1>8 DEF NextDelivery
  <2> HIDE DEF v
  <2> QED
    BY <2>2, <2>3, FeedMoves
<1>9. CASE /\ FeedGoto(f, Idle)
           /\ UNCHANGED <<arrays, subs, registered, beats, now, client, pending, crashed>>
  <2>1. PICK i \in FeedState : i = Idle
    BY <1>1
  <2>2. FeedGoto(f, i)
    BY <1>9, <2>1
  <2> QED
    BY <1>9, <2>2, FeedMoves
<1>10. CASE /\ crashed' = TRUE
            /\ UNCHANGED <<arrays, subs, registered, beats, now, client, feed, pending>>
  <2>1. OtherType' /\ BeatType' /\ feed' \in [Feeds -> FeedState]
    BY <1>10, Types DEF BeatType, TickerHasTimer, OtherType, TypeInv, TypeOK
  <2>2. Len(beats) <= Len(beats')
    BY <1>10 DEF TypeInv, TypeOK
  <2> QED
    BY <1>10, <2>1, <2>2, ClientsStay
<1> QED
  BY <1>3, <1>4, <1>5, <1>6, <1>7, <1>8, <1>9, <1>10 DEF Feed, PostFails, FeedMisreads

\* What Listed names are subscriptions.
LEMMA ListedType ==
    ASSUME SliceType
    PROVE  Listed \subseteq SiriSubscription
<1> DEFINE A == arrays[subs.arr]
           n == Min({subs.len, Len(A)})
<1>1. A \in Seq(Cells) /\ subs.len \in Nat /\ Len(A) \in Nat
  BY DEF SliceType, Header
<1>2. n \in Nat /\ n <= Len(A)
  BY <1>1, MinOfTwo
<1>3. Listed = {A[k] : k \in 1 .. n} \ {Nil}
  BY DEF Listed
<1> HIDE DEF A, n
<1>4. \A k \in 1 .. n : A[k] \in Cells
  BY <1>1, <1>2
<1> QED
  BY <1>3, <1>4 DEF Cells

\* The history variable keeps its type.
LEMMA WatchTypes ==
    ASSUME StableType, SliceType', Watch
    PROVE  StableType'
<1>1. Listed' \subseteq SiriSubscription
  <2>1. (SliceType => Listed \subseteq SiriSubscription)'
    BY ListedType, PTL
  <2> QED
    BY <2>1
<1> DEFINE L == Listed'
           G(f) == IF feed'[f].pc = "range" /\ feed'[f].unread = Parts THEN L ELSE stable[f] \cap L
<1>2. stable' = [f \in Feeds |-> G(f)]
  BY DEF Watch
<1>3. \A f \in Feeds : G(f) \in SUBSET SiriSubscription
  <2> HIDE DEF L
  <2>1. L \subseteq SiriSubscription
    BY <1>1 DEF L
  <2> QED
    BY <2>1 DEF StableType
<1> HIDE DEF G
<1> QED
  BY <1>2, <1>3 DEF StableType

\* The types are inductive: one case for each disjunct of Next.
LEMMA TypeStep ==
    ASSUME TypeInv, [Next]_vars
    PROVE  TypeInv'
<1>1. CASE UNCHANGED vars
  BY <1>1 DEF vars, TypeInv, TypeOK, TickerHasTimer, Registering, Within, Header, Pass,
              ClientState, FeedState
<1>2. ASSUME ProgramTypes', Watch PROVE TypeInv'
  <2>1. StableType'
    BY <1>2, WatchTypes, Types DEF TypeInv, ProgramTypes
  <2>2. (SliceType /\ BeatType /\ PlaceType /\ OtherType /\ StableType
            => TypeOK /\ TickerHasTimer)'
    BY Types, PTL
  <2> QED
    BY <1>2, <2>1, <2>2 DEF TypeInv, ProgramTypes
<1>3. ASSUME NEW c \in scenario.clients, Client(c), UNCHANGED scenario PROVE ProgramTypes'
  BY <1>3, SubscriptionTypes, LoopTypes, HeartbeatTypes, TerminationTypes, SweepTypes, RaceTypes DEF Client
<1>4. ASSUME Next PROVE ProgramTypes' /\ Watch
  <2>1. CASE \E c \in scenario.clients : Running(Client(c))
    BY <1>3, <2>1 DEF Running
  <2>2. CASE \E b \in DOMAIN beats : Running(Timer(b))
    BY <2>2, TimerTypes DEF Running
  <2>3. CASE \E f \in Feeds : Running(Feed(f))
    BY <2>3, FeedTypes DEF Running
  <2>4. CASE Running(Tick)
    BY <2>4, TickTypes DEF Running
  <2> QED
    BY <1>4, <2>1, <2>2, <2>3, <2>4 DEF Next
<1> QED
  BY <1>1, <1>2, <1>4

\* They hold at first.
LEMMA TypeInit ==
    Init => TypeInv
<1> SUFFICES ASSUME Init PROVE TypeInv
  OBVIOUS
<1>1. arrays \in Seq(Seq(Cells)) /\ DOMAIN arrays = {1} /\ subs \in Header
  BY DEF Init, Header
<1>2. /\ beats \in Seq(Heartbeat) /\ Len(beats) = 0 /\ DOMAIN beats = {}
      /\ registered = [a \in Addresses |-> 0]
  BY DEF Init
<1>3. client \in [Clients -> ClientState] /\ feed \in [Feeds -> FeedState]
  BY DEF Init, ClientState, FeedState, Idle
<1>4. scenario \in Scenarios /\ pending \subseteq scenario.coming /\ now \in 0 .. scenario.until
  BY SiriProxyAssumption DEF Init
<1>5. Registering /\ Within
  BY DEF Init, Registering, Within, Idle
<1>6. BeatType
  BY <1>2 DEF BeatType, TickerHasTimer
<1>7. StableType /\ crashed \in BOOLEAN
  BY DEF Init, StableType
<1> QED
  BY <1>1, <1>3, <1>4, <1>5, <1>6, <1>7, Types DEF TypeInv, SliceType, PlaceType, OtherType

\* Every state has the types, and the invariants of the ticker and its timer.
LEMMA TypesHold == Spec => []TypeInv
<1>1. Init => TypeInv
  BY TypeInit
<1>2. TypeInv /\ [Next]_vars => TypeInv'
  BY TypeStep
<1> QED
  BY <1>1, <1>2, PTL DEF Spec

\* The variables have the types that TypeOK says: the entries of the map are
\* heartbeats that there are, and so are the arrays that headers point into.
THEOREM TypeCorrect == Spec => []TypeOK
<1>1. TypeInv => TypeOK
  BY DEF TypeInv
<1> QED
  BY <1>1, TypesHold, PTL

\* initialiseHeartbeatNotificationTimer: every ticker that ticks has a timer that
\* will stop it, also with many clients at once, whose races leave heartbeats
\* without an entry.
THEOREM TickerAlwaysHasTimer == Spec => []TickerHasTimer
<1>1. TypeInv => TickerHasTimer
  BY DEF TypeInv
<1> QED
  BY <1>1, TypesHold, PTL


-----------------------------------------------------------------------------
\* Heartbeats: one ticker for each consumer.

\* The heartbeats of an address, and whether each was replaced before its timer fired.
Mine(a)   == {b \in DOMAIN beats : beats[b].address = a}
InTime(a) == \A b, d \in Mine(a) : b < d => beats[b].timer \in {"armed", "stopped"}

\* The heartbeat that is registered is the last of its address.
LastRegistered == \A a \in Addresses : registered[a] # 0 => \A b \in Mine(a) : b <= registered[a]

\* What a client finds of the heartbeats that it is about to replace or delete.
ClientBeat(w) ==
    /\ w.pc \in {"create", "register"} => registered[w.address] = 0
    /\ w.pc = "register" => w.beat = Len(beats)
    /\ (w.pc = "delete" /\ registered[w.address] # 0) => ~ beats[registered[w.address]].ticking

\* A client is about to register the heartbeat b.
Registers(b) == \E c \in scenario.clients : client[c].pc = "register" /\ client[c].beat = b

\* A heartbeat that ticks is registered, or about to be.
TickingRegistered ==
    \A a \in Addresses : InTime(a) =>
        \A b \in Mine(a) : beats[b].ticking => registered[a] = b \/ Registers(b)

\* The inductive invariant of the heartbeats.
BeatsInv == LastRegistered /\ (\A c \in scenario.clients : ClientBeat(client[c])) /\ TickingRegistered

\* What the types say of heartbeats and entries.
LEMMA BeatFacts ==
    ASSUME TypeInv
    PROVE  /\ beats \in Seq(Heartbeat) /\ Len(beats) \in Nat
           /\ \A b \in DOMAIN beats : b \in 1 .. Len(beats) /\ beats[b] \in Heartbeat
           /\ registered \in [Addresses -> 0 .. Len(beats)]
           /\ \A a \in Addresses : registered[a] # 0 =>
                 registered[a] \in DOMAIN beats /\ beats[registered[a]].address = a
           /\ \A b \in DOMAIN beats : /\ beats[b].ticking => beats[b].timer \in {"armed", "fired"}
                                      /\ beats[b].address \in Addresses
<1>1. /\ beats \in Seq(Heartbeat) /\ Len(beats) \in Nat
      /\ \A b \in DOMAIN beats : b \in 1 .. Len(beats) /\ beats[b] \in Heartbeat
      /\ registered \in [Addresses -> 0 .. Len(beats)]
      /\ \A a \in Addresses : registered[a] # 0 => beats[registered[a]].address = a
      /\ \A b \in DOMAIN beats : beats[b].ticking => beats[b].timer \in {"armed", "fired"}
  BY DEF TypeInv, TypeOK, TickerHasTimer
<1>2. \A b \in Heartbeat : b.address \in Addresses
  BY DEF Heartbeat
<1> QED
  BY <1>1, <1>2

\* There is no other client.
LEMMA Moved ==
    ASSUME TypeInv, OneByOne, NEW c \in scenario.clients, NEW v, Goto(c, v), UNCHANGED scenario
    PROVE  /\ c \in Clients /\ client[c] \in ClientState
           /\ \A d \in scenario.clients : d = c
           /\ \A d \in scenario'.clients : d = c /\ client'[d] = v
<1>1. c \in Clients
  BY SiriProxyAssumption DEF TypeInv, TypeOK
<1> QED
  BY <1>1 DEF Goto, OneByOne, Alone, TypeInv, TypeOK

\* A pass goes on, and leaves the rest of where the client is.
LEMMA PassFields ==
    ASSUME NEW w \in ClientState, Removing(w) \/ w.pc = "store", NEW p
    PROVE  LET v == [w EXCEPT !.pass = p]
           IN  /\ v.pc = w.pc /\ v.pass = p
               /\ v.request = w.request
               /\ w.pc \in {"remove", "store"} => v.refs = w.refs
<1>1. w.pc \in {"remove", "store", "terminateAll", "terminate"}
  BY PassOf
<1>2. CASE w.pc \in {"remove", "store"}
  <2>1. w \in [ pc : {"remove", "store"}, request : SubscriptionRequest,
                refs : Seq(SubscriptionRefs), pass : Pass ]
    BY <1>2, StateOf
  <2> QED
    BY <2>1
<1>3. CASE w.pc = "terminateAll"
  <2>1. w \in [pc : {"terminateAll"}, request : TerminationOfAll, pass : Pass]
    BY <1>3, StateOf
  <2> QED
    BY <2>1
<1>4. CASE w.pc = "terminate"
  <2>1. w \in [pc : {"terminate"}, request : Termination, pass : Pass]
    BY <1>4, StateOf
  <2> QED
    BY <2>1
<1> QED
  BY <1>1, <1>2, <1>3, <1>4

\* Where the steps take a client whose state they keep in part.
LEMMA Moves ==
    ASSUME TypeInv, NEW c \in scenario.clients
    PROVE  /\ RemoveUpdated(c) => \E v : /\ Goto(c, v) /\ v.pc = "store"
                                         /\ v.request = client[c].request /\ v.refs = client[c].refs
                                         /\ v.pass = NewPass
           /\ Store(c) => \E v : Goto(c, v) /\ v.pc = "header" /\ v.request = client[c].request
           /\ WriteHeader(c) => \E v : /\ Goto(c, v)
                                       /\ \/ v.pc = "header" /\ v.request = client[c].request
                                          \/ v.pc = "measure" /\ v.address = client[c].request.address
           /\ StopHeartbeat(c) => \E v : /\ Goto(c, v) /\ v.pc = "create"
                                         /\ v.address = client[c].address
                                         /\ v.interval = client[c].interval /\ v.term = client[c].term
           /\ CreateHeartbeat(c) => \E v : /\ Goto(c, v) /\ v.pc = "register"
                                           /\ v.address = client[c].address /\ v.beat = Len(beats) + 1
           /\ RemoveNext(c) => \E v : Goto(c, v) /\ v.pc = "terminate" /\ v.pass = NewPass
           /\ SweepDelete(c) => \E v : /\ Goto(c, v) /\ v.pc = "sweep"
                                       /\ v.entries = client[c].entries
                                       /\ v.visited = client[c].visited
           /\ (Load(c) \/ DropCell(c) \/ KeepCell(c)) => \E v : Goto(c, v) /\ v.pc = client[c].pc
           /\ (TargetFails(c) \/ RegisterHeartbeat(c) \/ RemoveAll(c) \/ SweepEnds(c)) =>
                 \E v : Goto(c, v) /\ v.pc = "idle"
<1> DEFINE w == client[c]
<1>1. w \in ClientState
  BY SiriProxyAssumption DEF TypeInv, TypeOK
<1>2. ASSUME RemoveUpdated(c)
      PROVE  \E v : /\ Goto(c, v) /\ v.pc = "store" /\ v.request = w.request /\ v.refs = w.refs
                    /\ v.pass = NewPass
  <2>1. w \in [ pc : {"remove", "store"}, request : SubscriptionRequest,
                refs : Seq(SubscriptionRefs), pass : Pass ]
    BY <1>1, <1>2, StateOf DEF RemoveUpdated
  <2>2. PICK v : v = [w EXCEPT !.pc = "store", !.pass = NewPass] /\ Goto(c, v)
    BY <1>2 DEF RemoveUpdated
  <2>3. v.pc = "store" /\ v.request = w.request /\ v.refs = w.refs /\ v.pass = NewPass
    BY <2>1, <2>2
  <2> QED
    BY <2>2, <2>3
<1>3. ASSUME Store(c)
      PROVE  \E v : Goto(c, v) /\ v.pc = "header" /\ v.request = w.request
  <2>1. PICK next : Goto(c, [ pc |-> "header", request |-> w.request, next |-> next,
                              unwritten |-> Parts ])
    BY <1>3 DEF Store
  <2> QED
    BY <2>1
<1>4. ASSUME WriteHeader(c)
      PROVE  \E v : /\ Goto(c, v)
                    /\ \/ v.pc = "header" /\ v.request = w.request
                       \/ v.pc = "measure" /\ v.address = w.request.address
  <2>1. w \in [ pc : {"header"}, request : SubscriptionRequest, next : Header,
                unwritten : SUBSET Parts ]
    BY <1>1, <1>4, StateOf DEF WriteHeader
  <2>2. PICK left : Goto(c, IF left = {}
                            THEN [pc |-> "measure", address |-> w.request.address]
                            ELSE [w EXCEPT !.unwritten = left])
    BY <1>4 DEF WriteHeader
  <2>3. CASE left = {}
    <3>1. Goto(c, [pc |-> "measure", address |-> w.request.address])
      BY <2>2, <2>3
    <3> QED
      BY <3>1
  <2>4. CASE left # {}
    <3>1. Goto(c, [w EXCEPT !.unwritten = left])
      BY <2>2, <2>4
    <3>2. [w EXCEPT !.unwritten = left].pc = "header"
          /\ [w EXCEPT !.unwritten = left].request = w.request
      BY <2>1
    <3> QED
      BY <3>1, <3>2
  <2> QED
    BY <2>3, <2>4
<1>5. ASSUME StopHeartbeat(c)
      PROVE  \E v : /\ Goto(c, v) /\ v.pc = "create" /\ v.address = w.address
                    /\ v.interval = w.interval /\ v.term = w.term
  <2>1. w \in [ pc : {"stop", "create"}, address : Addresses, interval : Nat \ {0}, term : Nat ]
    BY <1>1, <1>5, StateOf DEF StopHeartbeat
  <2>2. /\ [w EXCEPT !.pc = "create"].pc = "create"
        /\ [w EXCEPT !.pc = "create"].address = w.address
        /\ [w EXCEPT !.pc = "create"].interval = w.interval
        /\ [w EXCEPT !.pc = "create"].term = w.term
    BY <2>1
  <2>3. Goto(c, [w EXCEPT !.pc = "create"])
    BY <1>5 DEF StopHeartbeat
  <2> QED
    BY <2>2, <2>3
<1>6. ASSUME CreateHeartbeat(c)
      PROVE  \E v : /\ Goto(c, v) /\ v.pc = "register" /\ v.address = w.address
                    /\ v.beat = Len(beats) + 1
  BY <1>6 DEF CreateHeartbeat
<1>7. ASSUME RemoveNext(c) PROVE \E v : Goto(c, v) /\ v.pc = "terminate" /\ v.pass = NewPass
  <2>1. w \in [pc : {"terminate"}, request : Termination, pass : Pass]
    BY <1>1, <1>7, StateOf DEF RemoveNext
  <2>2. PICK v : v = [w EXCEPT !.request.refs = Tail(@), !.pass = NewPass] /\ Goto(c, v)
    BY <1>7 DEF RemoveNext
  <2>3. v.pc = "terminate" /\ v.pass = NewPass
    BY <2>1, <2>2
  <2> QED
    BY <2>2, <2>3
<1>8. ASSUME SweepDelete(c)
      PROVE  \E v : Goto(c, v) /\ v.pc = "sweep" /\ v.entries = w.entries /\ v.visited = w.visited
  <2>1. w \in [ pc : {"sweep", "delete"}, address : Addresses, visited : SUBSET Addresses,
                entries : SUBSET Addresses ]
    BY <1>1, <1>8, StateOf DEF SweepDelete
  <2>2. /\ [w EXCEPT !.pc = "sweep"].pc = "sweep"
        /\ [w EXCEPT !.pc = "sweep"].entries = w.entries
        /\ [w EXCEPT !.pc = "sweep"].visited = w.visited
    BY <2>1
  <2>3. Goto(c, [w EXCEPT !.pc = "sweep"])
    BY <1>8 DEF SweepDelete
  <2> QED
    BY <2>2, <2>3
<1>9. ASSUME Load(c) \/ DropCell(c) \/ KeepCell(c)
      PROVE  \E v : Goto(c, v) /\ v.pc = w.pc
  <2>1. /\ Removing(w) \/ w.pc = "store"
        /\ \E p : Goto(c, [w EXCEPT !.pass = p])
    <3>1. CASE Load(c)
      <4>1. PICK part : Goto(c, [w EXCEPT !.pass.header[part] = subs[part],
                                         !.pass.unread = @ \ {part}])
        BY <3>1 DEF Load
      <4>2. PICK p : p = [w.pass EXCEPT !.header[part] = subs[part], !.unread = @ \ {part}]
        OBVIOUS
      <4>3. Goto(c, [w EXCEPT !.pass = p])
        BY <4>1, <4>2
      <4> QED
        BY <3>1, <4>3 DEF Load
    <3>2. CASE DropCell(c) \/ KeepCell(c)
      <4>1. \/ Goto(c, [w EXCEPT !.pass.n = @ + 1])
            \/ Goto(c, [w EXCEPT !.pass.n = @ + 1, !.pass.kept = @ + 1])
        BY <3>2 DEF DropCell, KeepCell
      <4>2. PICK p, q : /\ p = [w.pass EXCEPT !.n = @ + 1]
                        /\ q = [w.pass EXCEPT !.n = @ + 1, !.kept = @ + 1]
        OBVIOUS
      <4>3. Goto(c, [w EXCEPT !.pass = p]) \/ Goto(c, [w EXCEPT !.pass = q])
        BY <4>1, <4>2
      <4> QED
        BY <3>2, <4>3 DEF DropCell, KeepCell, Looping
    <3> QED
      BY <1>9, <3>1, <3>2
  <2>2. PICK p : Goto(c, [w EXCEPT !.pass = p])
    BY <2>1
  <2>3. [w EXCEPT !.pass = p].pc = w.pc
    BY <1>1, <2>1, PassFields
  <2> QED
    BY <2>2, <2>3
<1>10. ASSUME TargetFails(c) \/ RegisterHeartbeat(c) \/ RemoveAll(c) \/ SweepEnds(c)
      PROVE  \E v : Goto(c, v) /\ v.pc = "idle"
  <2>1. PICK i : i = Idle
    OBVIOUS
  <2>2. Goto(c, i) /\ i.pc = "idle"
    BY <1>10, <2>1 DEF TargetFails, RegisterHeartbeat, RemoveAll, SweepEnds, Idle
  <2> QED
    BY <2>2
<1> QED
  BY <1>2, <1>3, <1>4, <1>5, <1>6, <1>7, <1>8, <1>9, <1>10

\* A client goes on that leaves the heartbeats alone.
LEMMA BeatsAlone ==
    ASSUME TypeInv, OneByOne, BeatsInv, NEW c \in scenario.clients, NEW v, Goto(c, v),
           UNCHANGED <<registered, beats, scenario>>,
           client[c].pc # "register", v.pc \notin {"create", "register", "delete"}
    PROVE  BeatsInv'
<1>1. \A d \in scenario.clients : d = c
  BY Moved
<1>2. \A d \in scenario'.clients : client'[d] = v
  BY Moved
<1>3. LastRegistered' /\ \A d \in scenario'.clients : ClientBeat(client[d])'
  BY <1>2 DEF BeatsInv, LastRegistered, Mine, ClientBeat
<1>4. TickingRegistered'
  <2>1. \A b : ~ Registers(b)
    BY <1>1 DEF Registers
  <2> QED
    BY <2>1 DEF BeatsInv, TickingRegistered, InTime, Mine
<1> QED
  BY <1>3, <1>4 DEF BeatsInv

\* The heartbeat of the address is stopped before another is made,
LEMMA BeatsStopped ==
    ASSUME TypeInv, OneByOne, BeatsInv, NEW c \in scenario.clients, StopHeartbeat(c),
           UNCHANGED scenario
    PROVE  BeatsInv'
<1> DEFINE a == client[c].address
           v == [client[c] EXCEPT !.pc = "create"]
<1>1. /\ beats' = [b \in DOMAIN beats |->
                     IF b = registered[a] THEN StoppedBeat(beats[b]) ELSE beats[b]]
      /\ registered' = [registered EXCEPT ![a] = 0] /\ client[c].pc = "stop" /\ Goto(c, v)
  BY DEF StopHeartbeat
<1>2. /\ \A d \in scenario.clients : d = c
      /\ \A d \in scenario'.clients : d = c /\ client'[d] = v
      /\ client[c] \in ClientState
  BY <1>1, Moved
<1>3. v.pc = "create" /\ v.address = a /\ a \in Addresses
  <2>1. client[c] \in [ pc : {"stop", "create"}, address : Addresses, interval : Nat \ {0}, term : Nat ]
    BY <1>1, <1>2, StateOf
  <2> QED
    BY <2>1
<1> HIDE DEF v
<1>4. /\ DOMAIN beats' = DOMAIN beats
      /\ \A b \in DOMAIN beats :
           /\ beats'[b].address = beats[b].address
           /\ b # registered[a] => beats'[b] = beats[b]
           /\ beats'[b].ticking => beats[b].ticking /\ b # registered[a]
           /\ beats'[b].timer \in {"armed", "stopped"} => beats[b].timer \in {"armed", "stopped"}
  BY <1>1, BeatFacts, Stopped
<1>5. registered'[a] = 0 /\ \A d \in Addresses : d # a => registered'[d] = registered[d]
  BY <1>1, <1>3, BeatFacts
<1>6. \A d : Mine(d)' = Mine(d)
  BY <1>4 DEF Mine
<1>7. LastRegistered' /\ \A d \in scenario'.clients : ClientBeat(client[d])'
  BY <1>2, <1>3, <1>5, <1>6 DEF BeatsInv, LastRegistered, ClientBeat
<1>8. TickingRegistered'
  <2> SUFFICES ASSUME NEW d \in Addresses, InTime(d)', NEW b \in Mine(d)', beats'[b].ticking
               PROVE  registered'[d] = b
    BY DEF TickingRegistered
  <2>1. InTime(d) /\ b \in Mine(d) /\ b \in DOMAIN beats
    BY <1>4, <1>6 DEF InTime, Mine
  <2>2. registered[d] = b /\ b # registered[a]
    <3>1. ~ Registers(b)
      BY <1>1, <1>2 DEF Registers
    <3> QED
      BY <1>4, <2>1, <3>1 DEF BeatsInv, TickingRegistered
  <2> QED
    BY <1>5, <2>2
<1> QED
  BY <1>7, <1>8 DEF BeatsInv

\* the new one is the last of its address,
LEMMA BeatsCreated ==
    ASSUME TypeInv, OneByOne, BeatsInv, NEW c \in scenario.clients, CreateHeartbeat(c),
           UNCHANGED scenario
    PROVE  BeatsInv'
<1> DEFINE a == client[c].address
           n == Len(beats) + 1
           v == [pc |-> "register", address |-> a, beat |-> n]
           new == [ address |-> a, interval |-> client[c].interval, term |-> client[c].term,
                    ticking |-> TRUE, timer |-> "armed" ]
<1>1. /\ beats' = Append(beats, new) /\ registered' = registered
      /\ client[c].pc = "create" /\ Goto(c, v)
  BY DEF CreateHeartbeat
<1>2. /\ \A d \in scenario.clients : d = c
      /\ \A d \in scenario'.clients : d = c /\ client'[d] = v
      /\ client[c] \in ClientState
  BY <1>1, Moved
<1>3. v.pc = "register" /\ v.address = a /\ v.beat = n /\ a \in Addresses /\ new.address = a
  <2>1. client[c] \in [ pc : {"stop", "create"}, address : Addresses, interval : Nat \ {0}, term : Nat ]
    BY <1>1, <1>2, StateOf
  <2> QED
    BY <2>1
<1> HIDE DEF v, new
<1>4. /\ DOMAIN beats' = DOMAIN beats \cup {n} /\ Len(beats') = n /\ n \in Nat
      /\ beats'[n] = new /\ \A b \in DOMAIN beats : beats'[b] = beats[b] /\ b \in Nat /\ b < n
  BY <1>1, BeatFacts
<1>5. registered[a] = 0
  BY <1>1 DEF BeatsInv, ClientBeat
<1>6. \A d, b : b \in Mine(d)' <=> b \in Mine(d) \/ (b = n /\ d = a)
  <2> SUFFICES ASSUME NEW d, NEW b PROVE b \in Mine(d)' <=> b \in Mine(d) \/ (b = n /\ d = a)
    OBVIOUS
  <2>1. b \in Mine(d)' <=> b \in DOMAIN beats' /\ beats'[b].address = d
    BY DEF Mine
  <2>2. b \in Mine(d) <=> b \in DOMAIN beats /\ beats[b].address = d
    BY DEF Mine
  <2> QED
    BY <1>3, <1>4, <2>1, <2>2
<1>7. LastRegistered' /\ \A d \in scenario'.clients : ClientBeat(client[d])'
  BY <1>1, <1>2, <1>3, <1>4, <1>5, <1>6 DEF BeatsInv, LastRegistered, ClientBeat
<1>8. TickingRegistered'
  <2> SUFFICES ASSUME NEW d \in Addresses, InTime(d)', NEW b \in Mine(d)', beats'[b].ticking
               PROVE  registered'[d] = b \/ Registers(b)'
    BY DEF TickingRegistered
  <2>1. CASE b = n
    BY <1>2, <1>3, <2>1 DEF Registers
  <2>2. CASE b # n
    <3>1. InTime(d) /\ b \in Mine(d) /\ beats[b].ticking
      <4>1. b \in Mine(d) /\ b \in DOMAIN beats
        BY <1>6, <2>2 DEF Mine
      <4>2. Mine(d) \subseteq Mine(d)' /\ Mine(d) \subseteq DOMAIN beats
        BY <1>6 DEF Mine
      <4> QED
        BY <1>4, <4>1, <4>2 DEF InTime
    <3>2. ~ Registers(b)
      BY <1>1, <1>2 DEF Registers
    <3> QED
      BY <1>1, <3>1, <3>2 DEF BeatsInv, TickingRegistered
  <2> QED
    BY <2>1, <2>2
<1> QED
  BY <1>7, <1>8 DEF BeatsInv

\* and is registered.
LEMMA BeatsRegistered ==
    ASSUME TypeInv, OneByOne, BeatsInv, NEW c \in scenario.clients, RegisterHeartbeat(c),
           UNCHANGED scenario
    PROVE  BeatsInv'
<1> DEFINE a == client[c].address
           n == client[c].beat
<1>1. /\ registered' = [registered EXCEPT ![a] = n] /\ beats' = beats
      /\ client[c].pc = "register" /\ Goto(c, Idle)
  BY DEF RegisterHeartbeat
<1>2. /\ \A d \in scenario.clients : d = c
      /\ \A d \in scenario'.clients : d = c /\ client'[d] = Idle
      /\ client[c] \in ClientState /\ c \in Clients
  <2>1. PICK i : i = Idle
    OBVIOUS
  <2> QED
    BY <1>1, <2>1, Moved
<1>3. a \in Addresses /\ n \in DOMAIN beats /\ n = Len(beats) /\ beats[n].address = a
  <2>1. client[c] \in [pc : {"register"}, address : Addresses, beat : DOMAIN beats]
    BY <1>1, <1>2, StateOf
  <2> QED
    BY <1>1, <1>2, <2>1 DEF BeatsInv, ClientBeat, TypeInv, Registering
<1>4. registered'[a] = n /\ \A d \in Addresses : d # a => registered'[d] = registered[d]
  BY <1>1, <1>3, BeatFacts
<1>5. \A d : Mine(d)' = Mine(d)
  BY <1>1 DEF Mine
<1>6. LastRegistered'
  <2>1. \A b \in DOMAIN beats : b <= n
    BY <1>3, BeatFacts
  <2> QED
    BY <1>4, <1>5, <2>1 DEF BeatsInv, LastRegistered, Mine
<1>7. \A d \in scenario'.clients : ClientBeat(client[d])'
  BY <1>2 DEF ClientBeat, Idle
<1>8. TickingRegistered'
  <2> SUFFICES ASSUME NEW d \in Addresses, InTime(d)', NEW b \in Mine(d)', beats'[b].ticking
               PROVE  registered'[d] = b
    BY DEF TickingRegistered
  <2>1. InTime(d) /\ b \in Mine(d) /\ beats[b].ticking
    BY <1>1, <1>5 DEF InTime
  <2>2. registered[d] = b \/ b = n
    BY <1>2, <2>1 DEF BeatsInv, TickingRegistered, Registers
  <2>3. registered[a] = 0 /\ b # 0
    BY <1>1, <2>1, BeatFacts DEF BeatsInv, ClientBeat, Mine
  <2>4. b = n => d = a
    BY <1>3, <2>1 DEF Mine
  <2> QED
    BY <1>4, <2>2, <2>3, <2>4
<1> QED
  BY <1>6, <1>7, <1>8 DEF BeatsInv

\* A heartbeat that does not fit is stopped, whether its entry is deleted or not.
LEMMA BeatsSwept ==
    ASSUME TypeInv, OneByOne, BeatsInv, NEW c \in scenario.clients, SweepAddress(c),
           UNCHANGED scenario
    PROVE  BeatsInv'
<1> DEFINE w == client[c]
<1>1. client[c].pc = "sweep" /\ registered' = registered
  BY DEF SweepAddress
<1>2. PICK a \in Addresses \ w.visited :
          LET b    == registered[a]
              mine == {k \in DOMAIN Stored : Stored[k].address = a}
          IN  /\ b # 0
              /\ beats' = IF Keeps(b, mine) THEN beats ELSE [beats EXCEPT ![b] = StoppedBeat(@)]
              /\ Goto(c, [ pc |-> IF mine = {} THEN "delete" ELSE "sweep", address |-> a,
                           entries |-> w.entries, visited |-> w.visited \cup {a} ])
  BY DEF SweepAddress
<1>3. PICK x \in DOMAIN beats : x = registered[a]
  BY <1>2, BeatFacts
<1>4. PICK v : /\ Goto(c, v) /\ v.pc \in {"delete", "sweep"} /\ v.address = a
               /\ \/ beats' = beats /\ v.pc = "sweep"
                  \/ beats' = [beats EXCEPT ![x] = StoppedBeat(beats[x])]
  <2> DEFINE mine == {k \in DOMAIN Stored : Stored[k].address = a}
             v == [ pc |-> IF mine = {} THEN "delete" ELSE "sweep", address |-> a,
                           entries |-> w.entries, visited |-> w.visited \cup {a} ]
  <2>1. /\ beats' = IF Keeps(x, mine) THEN beats ELSE [beats EXCEPT ![x] = StoppedBeat(beats[x])]
        /\ Goto(c, v)
    BY <1>2, <1>3
  <2>2. Keeps(x, mine) => mine # {}
    BY DEF Keeps
  <2> HIDE DEF mine
  <2>3. v.pc \in {"delete", "sweep"} /\ v.address = a /\ (mine # {} => v.pc = "sweep")
    OBVIOUS
  <2> HIDE DEF v
  <2> QED
    BY <2>1, <2>2, <2>3
<1>5. /\ \A d \in scenario.clients : d = c
      /\ \A d \in scenario'.clients : d = c /\ client'[d] = v
  BY <1>4, Moved
<1>6. /\ DOMAIN beats' = DOMAIN beats
      /\ \A b \in DOMAIN beats :
           /\ beats'[b].address = beats[b].address
           /\ beats'[b].ticking => beats[b].ticking
           /\ beats'[b].timer \in {"armed", "stopped"} => beats[b].timer \in {"armed", "stopped"}
      /\ v.pc = "delete" => ~ beats'[x].ticking
  <2>1. CASE beats' = beats /\ v.pc = "sweep"
    BY <2>1
  <2>2. CASE beats' = [beats EXCEPT ![x] = StoppedBeat(beats[x])]
    BY <1>3, <2>2, BeatFacts, Stopped
  <2> QED
    BY <1>4, <2>1, <2>2
<1>7. \A d : Mine(d)' = Mine(d)
  BY <1>6 DEF Mine
<1>8. LastRegistered' /\ \A d \in scenario'.clients : ClientBeat(client[d])'
  BY <1>1, <1>3, <1>4, <1>5, <1>6, <1>7 DEF BeatsInv, LastRegistered, ClientBeat
<1>9. TickingRegistered'
  <2> SUFFICES ASSUME NEW d \in Addresses, InTime(d)', NEW b \in Mine(d)', beats'[b].ticking
               PROVE  registered'[d] = b
    BY DEF TickingRegistered
  <2>1. InTime(d) /\ b \in Mine(d) /\ b \in DOMAIN beats
    BY <1>6, <1>7 DEF InTime, Mine
  <2>2. ~ Registers(b)
    BY <1>1, <1>5 DEF Registers
  <2> QED
    BY <1>1, <1>6, <2>1, <2>2 DEF BeatsInv, TickingRegistered
<1> QED
  BY <1>8, <1>9 DEF BeatsInv

\* An entry is deleted after its ticker was stopped.
LEMMA BeatsDeleted ==
    ASSUME TypeInv, OneByOne, BeatsInv, NEW c \in scenario.clients, SweepDelete(c),
           UNCHANGED scenario
    PROVE  BeatsInv'
<1> DEFINE a == client[c].address
           v == [client[c] EXCEPT !.pc = "sweep"]
<1>1. /\ registered' = [registered EXCEPT ![a] = 0] /\ beats' = beats
      /\ client[c].pc = "delete" /\ Goto(c, v)
  BY DEF SweepDelete
<1>2. /\ \A d \in scenario.clients : d = c
      /\ \A d \in scenario'.clients : d = c /\ client'[d] = v
      /\ client[c] \in ClientState
  BY <1>1, Moved
<1>3. v.pc = "sweep" /\ a \in Addresses
  <2>1. client[c] \in [ pc : {"sweep", "delete"}, address : Addresses, visited : SUBSET Addresses,
                        entries : SUBSET Addresses ]
    BY <1>1, <1>2, StateOf
  <2> QED
    BY <2>1
<1> HIDE DEF v
<1>4. registered'[a] = 0 /\ \A d \in Addresses : d # a => registered'[d] = registered[d]
  BY <1>1, <1>3, BeatFacts
<1>5. \A d : Mine(d)' = Mine(d)
  BY <1>1 DEF Mine
<1>6. LastRegistered' /\ \A d \in scenario'.clients : ClientBeat(client[d])'
  BY <1>2, <1>3, <1>4, <1>5 DEF BeatsInv, LastRegistered, ClientBeat
<1>7. TickingRegistered'
  <2> SUFFICES ASSUME NEW d \in Addresses, InTime(d)', NEW b \in Mine(d)', beats'[b].ticking
               PROVE  registered'[d] = b
    BY DEF TickingRegistered
  <2>1. InTime(d) /\ b \in Mine(d) /\ b \in DOMAIN beats /\ beats[b].ticking
    BY <1>1, <1>5 DEF InTime, Mine
  <2>2. registered[d] = b /\ b # 0
    <3>1. ~ Registers(b)
      BY <1>1, <1>2 DEF Registers
    <3> QED
      BY <2>1, <3>1, BeatFacts DEF BeatsInv, TickingRegistered
  <2>3. d # a
    BY <1>1, <2>1, <2>2 DEF BeatsInv, ClientBeat
  <2> QED
    BY <1>4, <2>2, <2>3
<1> QED
  BY <1>6, <1>7 DEF BeatsInv

\* The timer of a heartbeat that was not replaced in time takes it away.
LEMMA BeatsTimed ==
    ASSUME TypeInv, OneByOne, BeatsInv, NEW x \in DOMAIN beats, Timer(x), UNCHANGED scenario
    PROVE  BeatsInv'
<1>1. client' = client
  BY DEF Timer, TimerFires, TimerStopsTicker, TimerDeletes
<1>2. /\ beats \in Seq(Heartbeat)
      /\ \A b \in DOMAIN beats : beats[b] \in Heartbeat /\ beats[b].address \in Addresses
      /\ registered \in [Addresses -> 0 .. Len(beats)]
  BY BeatFacts
<1>3. /\ DOMAIN beats' = DOMAIN beats /\ Len(beats') = Len(beats)
      /\ \A b \in DOMAIN beats :
           /\ beats'[b].address = beats[b].address
           /\ beats'[b].ticking => beats[b].ticking
           /\ b # x => beats'[b] = beats[b]
      /\ beats'[x].timer \notin {"armed", "stopped"}
  <2>1. CASE beats' = [beats EXCEPT ![x].timer = "fired"]
    BY <1>2, <2>1, SMTT(30) DEF Heartbeat
  <2>2. CASE beats' = [beats EXCEPT ![x].timer = "expired", ![x].ticking = FALSE]
    <3> DEFINE new == [beats[x] EXCEPT !.timer = "expired", !.ticking = FALSE]
    <3>1. new.timer = "expired" /\ new.address = beats[x].address /\ ~ new.ticking
      BY <1>2 DEF Heartbeat
    <3>2. beats' = [beats EXCEPT ![x] = new]
      BY <1>2, <2>2
    <3> HIDE DEF new
    <3> QED
      BY <1>2, <3>1, <3>2
  <2>3. CASE beats' = [beats EXCEPT ![x].timer = "done"]
    BY <1>2, <2>3, SMTT(30) DEF Heartbeat
  <2> QED
    BY <2>1, <2>2, <2>3 DEF Timer, TimerFires, TimerStopsTicker, TimerDeletes
<1>4. \A d \in Addresses :
        \/ registered'[d] = registered[d]
        \/ registered'[d] = 0 /\ d = beats[x].address /\ beats[x].timer = "expired"
  <2>1. CASE registered' = registered
    BY <2>1
  <2>2. CASE registered' = [registered EXCEPT ![beats[x].address] = 0] /\ beats[x].timer = "expired"
    BY <1>2, <2>2
  <2> QED
    BY <2>1, <2>2 DEF Timer, TimerFires, TimerStopsTicker, TimerDeletes
<1>5. \A d : Mine(d)' = Mine(d)
  BY <1>3 DEF Mine
<1>6. LastRegistered'
  BY <1>5, <1>4 DEF BeatsInv, LastRegistered
<1>7. ASSUME NEW d \in scenario'.clients PROVE ClientBeat(client[d])'
  <2>1. ClientBeat(client[d]) /\ client'[d] = client[d]
    BY <1>1, <1>7 DEF BeatsInv
  <2>2. d \in Clients /\ client[d] \in ClientState
    BY <1>7, SiriProxyAssumption DEF TypeInv, TypeOK
  <2>3. client[d].pc \in {"create", "register", "delete"} => client[d].address \in Addresses
    BY <2>2, StateOf
  <2> QED
    BY <1>3, <1>4, <2>1, <2>3, BeatFacts DEF ClientBeat
<1>8. TickingRegistered'
  <2> SUFFICES ASSUME NEW d \in Addresses, InTime(d)', NEW b \in Mine(d)', beats'[b].ticking
               PROVE  registered'[d] = b \/ Registers(b)'
    BY DEF TickingRegistered
  <2>1. b \in Mine(d) /\ b \in DOMAIN beats /\ beats[b].ticking
    BY <1>3, <1>5 DEF Mine
  <2>2. x \in Mine(d) => \A e \in Mine(d) : ~ (x < e)
    BY <1>3, <1>5 DEF InTime
  <2>3. InTime(d)
    <3> SUFFICES ASSUME NEW e \in Mine(d), NEW g \in Mine(d), e < g
                 PROVE  beats[e].timer \in {"armed", "stopped"}
      BY DEF InTime
    <3>1. beats'[e].timer \in {"armed", "stopped"} /\ e \in DOMAIN beats
      BY <1>5 DEF InTime, Mine
    <3> QED
      BY <1>3, <3>1
  <2>4. registered[d] = b \/ Registers(b)
    BY <2>1, <2>3 DEF BeatsInv, TickingRegistered
  <2>5. Registers(b)' <=> Registers(b)
    BY <1>1 DEF Registers
  <2>6. ~ (registered[d] = b /\ d = beats[x].address /\ beats[x].timer = "expired")
    <3> SUFFICES ASSUME registered[d] = b, d = beats[x].address, beats[x].timer = "expired" PROVE FALSE
      OBVIOUS
    <3>1. x \in Mine(d) /\ b \in Nat /\ x \in Nat /\ b # 0
      BY <2>1, BeatFacts DEF Mine
    <3>2. x <= b
      BY <3>1 DEF BeatsInv, LastRegistered
    <3>3. x = b
      BY <2>1, <2>2, <3>1, <3>2
    <3> QED
      BY <2>1, <3>3, BeatFacts
  <2> QED
    BY <1>4, <2>4, <2>5, <2>6
<1> QED
  BY <1>6, <1>7, <1>8 DEF BeatsInv

\* Whatever leaves heartbeats and clients alone.
LEMMA BeatsUntouched ==
    ASSUME BeatsInv, UNCHANGED <<registered, beats, client, scenario>>
    PROVE  BeatsInv'
BY DEF BeatsInv, LastRegistered, ClientBeat, TickingRegistered, Registers, InTime, Mine

\* BeatsInv is inductive, of clients that come one after another.
LEMMA BeatsStep ==
    ASSUME TypeInv, OneByOne, BeatsInv, [Next]_vars
    PROVE  BeatsInv'
<1>1. CASE UNCHANGED vars
  BY <1>1, BeatsUntouched DEF vars
<1>2. ASSUME NEW c \in scenario.clients, Client(c), UNCHANGED scenario PROVE BeatsInv'
  <2>1. ASSUME UNCHANGED <<registered, beats>>, client[c].pc # "register",
               NEW v, Goto(c, v), v.pc \notin {"create", "register", "delete"}
        PROVE  BeatsInv'
    BY <1>2, <2>1, BeatsAlone
  <2>2. CASE ReceiveSubscription(c) \/ TargetFails(c) \/ TargetConfirms(c)
    BY <2>1, <2>2 DEF ReceiveSubscription, TargetFails, TargetConfirms, Idle
  <2>3. CASE RemoveUpdated(c)
    <3>1. PICK v : Goto(c, v) /\ v.pc = "store"
      BY <1>2, <2>3, Moves
    <3> QED
      BY <2>1, <2>3, <3>1 DEF RemoveUpdated
  <2>4. CASE Store(c)
    BY <2>1, <2>4 DEF Store
  <2>5. CASE WriteHeader(c)
    <3>1. PICK v : Goto(c, v) /\ v.pc \in {"measure", "header"}
      BY <1>2, <2>5, Moves
    <3> QED
      BY <2>1, <2>5, <3>1 DEF WriteHeader
  <2>6. CASE Measure(c)
    BY <2>1, <2>6 DEF Measure
  <2>7. CASE ReceiveTermination(c) \/ RemoveAll(c) \/ SweepBegins(c) \/ SweepEnds(c)
    BY <2>1, <2>7 DEF ReceiveTermination, RemoveAll, SweepBegins, SweepEnds, Idle
  <2>8. CASE RemoveNext(c)
    <3>1. PICK v : Goto(c, v) /\ v.pc = "terminate"
      BY <1>2, <2>8, Moves
    <3> QED
      BY <2>1, <2>8, <3>1 DEF RemoveNext
  <2>9. CASE ClientMisreads(c) \/ MapRace(c)
    <3>1. CASE UNCHANGED client
      BY <1>2, <2>9, <3>1, BeatsUntouched DEF ClientMisreads, MapRace
    <3>2. CASE Goto(c, Idle) /\ ClientMisreads(c)
      <4>1. client[c].pc # "register"
        BY <3>2 DEF ClientMisreads, Faults, Panics, Looping, Passed, Removing
      <4>2. PICK i : i = Idle
        OBVIOUS
      <4>3. Goto(c, i) /\ i.pc = "idle"
        BY <3>2, <4>2 DEF Idle
      <4> QED
        BY <2>1, <3>2, <4>1, <4>3 DEF ClientMisreads
    <3> QED
      BY <2>9, <3>1, <3>2 DEF ClientMisreads, MapRace
  <2>10. CASE Load(c) \/ DropCell(c) \/ KeepCell(c)
    <3>1. PICK v : Goto(c, v) /\ v.pc = client[c].pc
      BY <1>2, <2>10, Moves
    <3>2. client[c].pc \in {"remove", "store", "terminateAll", "terminate"}
      BY <2>10 DEF Load, DropCell, KeepCell, Looping, Removing
    <3> QED
      BY <2>1, <2>10, <3>1, <3>2 DEF Load, DropCell, KeepCell
  <2> QED
    BY <1>2, <2>2, <2>3, <2>4, <2>5, <2>6, <2>7, <2>8, <2>9, <2>10, BeatsStopped, BeatsCreated,
       BeatsRegistered, BeatsSwept, BeatsDeleted DEF Client
<1>3. CASE \E b \in DOMAIN beats : Running(Timer(b))
  BY <1>3, BeatsTimed DEF Running
<1>4. CASE \E f \in Feeds : Running(Feed(f))
  BY <1>4, BeatsUntouched DEF Running, Feed, Publish, CopyHeader, Skip, Post, Posted, PostFails,
                              NextDelivery, FeedMisreads
<1>5. CASE Running(Tick)
  BY <1>5, BeatsUntouched DEF Running, Tick
<1> QED
  BY <1>1, <1>2, <1>3, <1>4, <1>5 DEF Next, Running

\* It holds at first.
LEMMA BeatsInit ==
    Init => BeatsInv
<1> SUFFICES ASSUME Init PROVE BeatsInv
  OBVIOUS
<1>1. \A a \in Addresses : registered[a] = 0 /\ Mine(a) = {}
  BY DEF Init, Mine
<1>2. \A c \in scenario.clients : client[c].pc = "idle"
  BY SiriProxyAssumption DEF Init, Idle
<1> QED
  BY <1>1, <1>2 DEF BeatsInv, LastRegistered, ClientBeat, TickingRegistered

\* There is one ticker for each consumer.
LEMMA OneTicking ==
    ASSUME TypeInv, OneByOne => BeatsInv
    PROVE  SingleHeartbeat
<1> SUFFICES ASSUME OneByOne, NEW a \in Addresses, InTime(a)
             PROVE  Cardinality({b \in Mine(a) : beats[b].ticking}) <= 1
  BY DEF SingleHeartbeat, Mine, InTime
<1> DEFINE T == {b \in Mine(a) : beats[b].ticking}
<1>1. ASSUME NEW b \in T, NEW d \in T PROVE d = b
  <2>1. /\ registered[a] = b \/ Registers(b)
        /\ registered[a] = d \/ Registers(d)
        /\ b \in DOMAIN beats /\ beats[b].address = a /\ beats[b].address = a /\ b # 0 
        /\ d \in DOMAIN beats /\ beats[d].address = a /\ d # 0
    BY BeatFacts DEF BeatsInv, TickingRegistered, Mine
  <2>2. ASSUME NEW e \in DOMAIN beats, beats[e].address = a, Registers(e)
        PROVE  registered[a] = 0 /\ e = Len(beats)
    <3>1. PICK c \in scenario.clients : client[c].pc = "register" /\ client[c].beat = e
      BY <2>2 DEF Registers
    <3>2. c \in Clients
      BY SiriProxyAssumption DEF TypeInv, TypeOK
    <3>3. client[c].address = a
      BY <2>2, <3>1, <3>2 DEF TypeInv, Registering
    <3> QED
      BY <3>1, <3>3 DEF BeatsInv, ClientBeat
  <2> QED
    BY <2>1, <2>2
<1> HIDE DEF T
<1>2. CASE T = {}
  BY <1>2, FS_EmptySet DEF T
<1>3. CASE T # {}
  <2>1. PICK b \in T : TRUE
    BY <1>3
  <2>2. T = {b}
    BY <1>1, <2>1
  <2>3. Cardinality(T) = 1
    BY <2>2, FS_Singleton
  <2> QED
    BY <2>3 DEF T
<1> QED
  BY <1>2, <1>3 DEF T

\* The clients of the scenario are the same for ever.
LEMMA OneByOneStays ==
    ASSUME TypeInv, [Next]_vars
    PROVE  OneByOne' <=> OneByOne
BY DEF Next, Running, vars, OneByOne, Alone

\* initialiseHeartbeatNotifications stops the ticker of a consumer before it makes
\* another, and a sweep before it deletes the entry: of requests that come one
\* after another, one ticker sends to a consumer, unless a timer fired between the
\* two, and its function then deletes the entry of the successor.
THEOREM SingleHeartbeatHolds == Spec => []SingleHeartbeat
<1> DEFINE IInv == TypeInv /\ (OneByOne => BeatsInv)
<1>1. Init => IInv
  BY TypeInit, BeatsInit
<1>2. IInv /\ [Next]_vars => IInv'
  BY TypeStep, BeatsStep, OneByOneStays
<1>3. IInv => SingleHeartbeat
  BY OneTicking
<1> QED
  BY <1>1, <1>2, <1>3, PTL DEF Spec

-----------------------------------------------------------------------------
\* The slice: every subscription once.

\* The cells that the loop has passed and not written: what was in them has been
\* moved, or is removed.
Hole(w, k) == Removing(w) /\ w.pass.kept < k /\ k < w.pass.n

\* The header of the slice, as it will be when the client has written it.
HeaderOf(w) == IF w.pc = "header" THEN w.next ELSE subs

\* No subscription is stored twice, as far as the loop has come.
Cell(h, k) == arrays[h.arr][k]
Distinct(w) ==
    \A j, k \in 1 .. HeaderOf(w).len :
        (/\ ~ Hole(w, j) /\ ~ Hole(w, k)
         /\ Cell(HeaderOf(w), j).requestor = Cell(HeaderOf(w), k).requestor
         /\ Cell(HeaderOf(w), j).ref = Cell(HeaderOf(w), k).ref) => j = k

\* What a client has read of the header is as it was read.
Agrees(w) == \A part \in Parts \ w.pass.unread : w.pass.header[part] = subs[part]

\* How far the loop has come, what has been removed before it is stored again,
\* and how far the header is written.
ClientSlice(w) ==
    /\ (Removing(w) \/ w.pc = "store") => Agrees(w)
    /\ Removing(w) =>
         /\ w.pass.unread # {} => w.pass.n = 1 /\ w.pass.kept = 0
         /\ w.pass.kept < w.pass.n /\ w.pass.n <= subs.len + 1
         /\ \A k \in 1 .. w.pass.kept : ~ Goes(w, Cell(subs, k))
    /\ w.pc = "store" =>
         \A k \in 1 .. subs.len :
            ~ (Cell(subs, k).requestor = w.request.requestor /\ Cell(subs, k).ref \in Range(w.refs))
    /\ w.pc = "header" =>
         w.unwritten # {} /\ \A part \in Parts \ w.unwritten : subs[part] = w.next[part]

\* The inductive invariant of the slice.
SliceOf(w) == Readable(HeaderOf(w)) /\ Distinct(w) /\ ClientSlice(w)
SliceInv ==
    /\ \A c \in scenario.clients : SliceOf(client[c])
    /\ scenario.clients = {} => subs.len = 0

\* A client goes on to where the slice is as it should be.
LEMMA SliceMoves ==
    ASSUME TypeInv, OneByOne, NEW c \in scenario.clients, NEW v, Goto(c, v), UNCHANGED scenario,
           SliceOf(v)'
    PROVE  SliceInv'
<1>1. \A d \in scenario'.clients : client'[d] = v
  BY Moved
<1>2. \A d \in scenario'.clients : SliceOf(client[d])'
  BY <1>1 DEF SliceOf, HeaderOf, Distinct, ClientSlice, Hole, Agrees, Readable, PastEnd, Cell
<1>3. c \in scenario'.clients
  OBVIOUS
<1> QED
  BY <1>2, <1>3 DEF SliceInv

\* What the types say of the slice.
LEMMA SliceFacts ==
    ASSUME TypeInv
    PROVE  /\ arrays \in Seq(Seq(Cells)) /\ subs \in Header /\ subs.arr \in DOMAIN arrays
           /\ subs.len \in Nat /\ Len(arrays) \in Nat
           /\ \A h \in Header : /\ arrays[h.arr] \in Seq(Cells) /\ Len(arrays[h.arr]) \in Nat
                                /\ h.len \in Nat /\ h.arr \in DOMAIN arrays
           /\ \A h \in Header : Readable(h) =>
                 h.len <= Len(arrays[h.arr]) /\ \A k \in 1 .. h.len : Cell(h, k) # Nil
<1>1. arrays \in Seq(Seq(Cells)) /\ subs \in Header
  BY DEF TypeInv, TypeOK, Cells
<1>2. \A h \in Header : /\ arrays[h.arr] \in Seq(Cells) /\ Len(arrays[h.arr]) \in Nat
                        /\ h.len \in Nat /\ h.arr \in DOMAIN arrays
  BY <1>1 DEF Header
<1>3. \A h \in Header : Readable(h) =>
          h.len <= Len(arrays[h.arr]) /\ \A k \in 1 .. h.len : Cell(h, k) # Nil
  BY <1>2 DEF Readable, PastEnd, Cell
<1> QED
  BY <1>1, <1>2, <1>3

\* A client that has read the header has it as it is.
LEMMA Copied ==
    ASSUME TypeInv, NEW c \in scenario.clients, SliceOf(client[c]),
           Removing(client[c]) \/ client[c].pc = "store"
    PROVE  LET w == client[c]
           IN  /\ c \in Clients /\ w \in ClientState /\ w.pass \in Pass /\ w.pc # "header"
               /\ w.pass.n \in Nat \ {0} /\ w.pass.kept \in Nat
               /\ HeaderOf(w) = subs /\ Readable(subs)
               /\ w.pass.unread = {} => w.pass.header = subs
<1> DEFINE w == client[c]
<1>1. c \in Clients /\ w \in ClientState
  BY SiriProxyAssumption DEF TypeInv, TypeOK
<1>2. w.pass \in Pass /\ w.pc \in {"remove", "store", "terminateAll", "terminate"}
  BY <1>1, PassOf
<1>3. w.pass.header \in Header /\ w.pass.n \in Nat \ {0} /\ w.pass.kept \in Nat
  BY <1>2 DEF Pass
<1>4. HeaderOf(w) = subs /\ Readable(subs)
  BY <1>2 DEF HeaderOf, SliceOf
<1>5. ASSUME w.pass.unread = {} PROVE w.pass.header = subs
  <2>1. w.pass.header.arr = subs.arr /\ w.pass.header.len = subs.len
    <3>1. Agrees(w)
      BY DEF SliceOf, ClientSlice
    <3>2. \A part \in Parts : w.pass.header[part] = subs[part]
      BY <1>5, <3>1 DEF Agrees
    <3>3. "arr" \in Parts /\ "len" \in Parts
      BY DEF Parts
    <3> QED
      BY <3>2, <3>3
  <2>2. subs \in Header
    BY SliceFacts
  <2> QED
    BY <1>3, <2>1, <2>2 DEF Header
<1> QED
  BY <1>1, <1>2, <1>3, <1>4, <1>5

\* At a cell, and at the end of the loop.
LEMMA AtCell ==
    ASSUME TypeInv, NEW c \in scenario.clients, SliceOf(client[c]), Looping(client[c])
    PROVE  LET w == client[c]
           IN  /\ w.pass.header = subs /\ InArray(w) /\ Visited(w) = Cell(subs, w.pass.n)
               /\ w.pass.n \in 1 .. subs.len /\ w.pass.kept \in 0 .. w.pass.n - 1
               /\ Visited(w) # Nil
               /\ subs.len <= Len(arrays[subs.arr]) /\ Len(arrays[subs.arr]) \in Nat
<1> DEFINE w == client[c]
<1>1. /\ w.pass.header = subs /\ w.pass.n \in Nat \ {0} /\ w.pass.kept \in Nat /\ Readable(subs)
  BY Copied DEF Looping
<1>2. w.pass.n <= subs.len /\ w.pass.kept < w.pass.n
  BY <1>1 DEF Looping, SliceOf, ClientSlice
<1>3. /\ subs.len \in Nat /\ Len(arrays[subs.arr]) \in Nat /\ subs.len <= Len(arrays[subs.arr])
      /\ \A k \in 1 .. subs.len : Cell(subs, k) # Nil
  BY <1>1, SliceFacts
<1>4. w.pass.n \in 1 .. subs.len /\ w.pass.kept \in 0 .. w.pass.n - 1
  BY <1>1, <1>2, <1>3
<1>5. Visited(w) = Cell(subs, w.pass.n)
  BY <1>1 DEF Visited, Cell
<1>6. InArray(w)
  BY <1>1, <1>3, <1>4 DEF InArray
<1> QED
  BY <1>1, <1>3, <1>4, <1>5, <1>6

LEMMA AtEnd ==
    ASSUME TypeInv, NEW c \in scenario.clients, SliceOf(client[c]), Passed(client[c])
    PROVE  LET w == client[c]
           IN  /\ w.pass.kept \in 0 .. subs.len /\ w.pass.n = subs.len + 1
               /\ subs.len <= Len(arrays[subs.arr]) /\ Len(arrays[subs.arr]) \in Nat
<1> DEFINE w == client[c]
<1>1. /\ w.pass.header = subs /\ w.pass.n \in Nat \ {0} /\ w.pass.kept \in Nat /\ Readable(subs)
  BY Copied DEF Passed
<1>2. w.pass.n > subs.len /\ w.pass.kept < w.pass.n /\ w.pass.n <= subs.len + 1
  BY <1>1 DEF Passed, SliceOf, ClientSlice
<1>3. /\ subs.len \in Nat /\ Len(arrays[subs.arr]) \in Nat /\ subs.len <= Len(arrays[subs.arr])
  BY <1>1, SliceFacts
<1> QED
  BY <1>1, <1>2, <1>3

\* The slice is never misread by requests that come one after another.
LEMMA NoMisreads ==
    ASSUME TypeInv, NEW c \in scenario.clients, SliceOf(client[c])
    PROVE  ~ ClientMisreads(c)
<1> DEFINE w == client[c]
<1>1. ASSUME w.pc \in {"measure", "sweep"} PROVE Readable(subs) /\ ~ PastEnd(subs)
  BY <1>1 DEF SliceOf, HeaderOf, Readable
<1>2. ASSUME Looping(w)
      PROVE  /\ InArray(w) /\ Visited(w) # Nil
             /\ w.pass.kept < subs.len /\ ~ (w.pass.kept >= Len(arrays[subs.arr]))
             /\ ~ (w.pass.kept >= subs.len)
  <2>1. /\ InArray(w) /\ Visited(w) # Nil
        /\ w.pass.n \in 1 .. subs.len /\ w.pass.kept \in 0 .. w.pass.n - 1
        /\ subs.len <= Len(arrays[subs.arr]) /\ Len(arrays[subs.arr]) \in Nat
    BY <1>2, AtCell
  <2>2. subs.len \in Nat
    BY SliceFacts
  <2> QED
    BY <2>1, <2>2
<1>3. ASSUME Passed(w) PROVE ~ (w.pass.kept > Len(arrays[subs.arr]))
  <2>1. /\ w.pass.kept \in 0 .. subs.len
        /\ subs.len <= Len(arrays[subs.arr]) /\ Len(arrays[subs.arr]) \in Nat
    BY <1>3, AtEnd
  <2>2. subs.len \in Nat
    BY SliceFacts
  <2> QED
    BY <2>1, <2>2
<1>4. ASSUME w.pc = "store", w.pass.unread = {} PROVE ~ PastEnd(w.pass.header)
  <2>1. w.pass.header = subs /\ Readable(subs)
    BY <1>4, Copied
  <2> QED
    BY <2>1 DEF Readable
<1> QED
  BY <1>1, <1>2, <1>3, <1>4 DEF ClientMisreads, Faults, Panics

\* A client comes to where it does not look at the slice, or to the first cell of
\* a loop over it.
LEMMA SliceEntered ==
    ASSUME TypeInv, OneByOne, SliceInv, NEW c \in scenario.clients, UNCHANGED <<arrays, subs, scenario>>,
           client[c].pc # "header", ~ Removing(client[c]),
           NEW v, Goto(c, v), v.pc \notin {"store", "header"}, Removing(v) => v.pass = NewPass
    PROVE  SliceInv'
<1> DEFINE w == client[c]
<1>1. SliceOf(w)
  BY DEF SliceInv
<1>2. HeaderOf(w) = subs /\ HeaderOf(v)' = subs
  BY DEF HeaderOf
<1>3. \A k \in Nat : ~ Hole(w, k) /\ ~ Hole(v, k)
  BY DEF Hole, NewPass
<1>4. Readable(HeaderOf(v))'
  BY <1>1, <1>2 DEF SliceOf, Readable, PastEnd
<1>5. Distinct(v)'
  <2>1. \A k \in 1 .. subs.len : ~ Hole(w, k) /\ ~ Hole(v, k)
    BY <1>3, SliceFacts
  <2> QED
    BY <1>1, <1>2, <2>1 DEF SliceOf, Distinct, Cell
<1>6. ClientSlice(v)'
  <2>1. subs.len \in Nat
    BY SliceFacts
  <2>2. Removing(v) => /\ v.pass.unread = Parts /\ v.pass.n = 1 /\ v.pass.kept = 0
                       /\ 1 <= subs.len + 1 /\ 1 .. v.pass.kept = {}
    BY <2>1 DEF NewPass
  <2> QED
    BY <2>2 DEF ClientSlice, Agrees
<1> QED
  BY <1>4, <1>5, <1>6, SliceMoves DEF SliceOf

\* The loop goes on: to the next word of the header,
LEMMA SliceLoaded ==
    ASSUME TypeInv, OneByOne, SliceInv, NEW c \in scenario.clients, Load(c), UNCHANGED scenario
    PROVE  SliceInv'
<1> DEFINE w == client[c]
<1>1. /\ SliceOf(w) /\ UNCHANGED <<arrays, subs>> /\ (Removing(w) \/ w.pc = "store")
      /\ c \in Clients /\ w \in ClientState /\ w.pass \in Pass /\ HeaderOf(w) = subs
  BY Copied DEF SliceInv, Load
<1>2. PICK part \in w.pass.unread :
        Goto(c, [w EXCEPT !.pass.header[part] = subs[part], !.pass.unread = @ \ {part}])
  BY DEF Load
<1>3. PICK p : p = [w.pass EXCEPT !.header[part] = subs[part], !.unread = @ \ {part}]
  OBVIOUS
<1>4. PICK v : v = [w EXCEPT !.pass = p] /\ Goto(c, v)
  BY <1>2, <1>3
<1>5. v.pc = w.pc /\ v.pass = p /\ v.request = w.request /\ (w.pc \in {"remove", "store"} => v.refs = w.refs)
  BY <1>1, <1>4, PassFields
<1>6. /\ p.n = w.pass.n /\ p.kept = w.pass.kept /\ p.unread = w.pass.unread \ {part}
      /\ \A q \in Parts : p.header[q] = IF q = part THEN subs[q] ELSE w.pass.header[q]
      /\ part \in w.pass.unread
  <2>1. w.pass.header \in Header /\ w.pass.unread \subseteq {"arr", "len"} /\ part \in {"arr", "len"}
    BY <1>1 DEF Pass, Parts
  <2>2. PICK h \in Header : h = w.pass.header
    BY <2>1
  <2>3. \A q \in Parts : [h EXCEPT ![part] = subs[part]][q] = IF q = part THEN subs[q] ELSE h[q]
    BY <2>1 DEF Header, Parts
  <2>4. p.header = [h EXCEPT ![part] = subs[part]]
    BY <1>1, <1>3, <2>2 DEF Pass
  <2> QED
    BY <1>1, <1>3, <2>2, <2>3, <2>4 DEF Pass
<1>7. /\ Removing(v) <=> Removing(w)
      /\ \A s : Goes(v, s) <=> Goes(w, s)
      /\ \A k : Hole(v, k) <=> Hole(w, k)
      /\ HeaderOf(v)' = subs
  <2>1. Removing(v) <=> Removing(w)
    BY <1>5 DEF Removing
  <2>2. HeaderOf(v)' = subs
    BY <1>1, <1>5 DEF HeaderOf, Removing
  <2> QED
    BY <1>5, <1>6, <2>1, <2>2 DEF Hole, Goes
<1>8. Readable(HeaderOf(v))' /\ Distinct(v)'
  BY <1>1, <1>7 DEF SliceOf, Readable, PastEnd, Distinct, Cell
<1>9. Agrees(v)'
  <2>1. Agrees(w)
    BY <1>1 DEF SliceOf, ClientSlice
  <2> QED
    BY <1>1, <1>5, <1>6, <2>1 DEF Agrees
<1>10. ClientSlice(v)'
  <2>1. Removing(w) => w.pass.n = 1 /\ w.pass.kept = 0
    BY <1>1, <1>2 DEF SliceOf, ClientSlice
  <2>2. ASSUME Removing(v)
        PROVE  /\ p.n = 1 /\ p.kept = 0 /\ p.kept < p.n /\ p.n <= subs.len + 1
               /\ \A k \in 1 .. p.kept : ~ Goes(v, Cell(subs, k)')
    <3>1. Removing(w) /\ p.n = 1 /\ p.kept = 0 /\ subs.len \in Nat
      BY <1>6, <1>7, <2>1, <2>2, SliceFacts
    <3> QED
      BY <3>1
  <2>3. ASSUME v.pc = "store"
        PROVE  \A k \in 1 .. subs.len :
                  ~ (/\ Cell(subs, k)'.requestor = v.request.requestor
                     /\ Cell(subs, k)'.ref \in Range(v.refs))
    BY <1>1, <1>5, <2>3 DEF SliceOf, ClientSlice, Cell
  <2>4. v.pc # "header"
    BY <1>1, <1>5 DEF Removing
  <2> QED
    BY <1>1, <1>5, <1>9, <2>2, <2>3, <2>4 DEF ClientSlice, Cell
<1> QED
  BY <1>4, <1>8, <1>10, SliceMoves DEF SliceOf

\* and to the next cell: what is removed is left where it is,
LEMMA SliceDropped ==
    ASSUME TypeInv, OneByOne, SliceInv, NEW c \in scenario.clients, DropCell(c), UNCHANGED scenario
    PROVE  SliceInv'
<1> DEFINE w == client[c]
<1>1. SliceOf(w) /\ UNCHANGED <<arrays, subs>> /\ Looping(w) /\ Removing(w)
  BY DEF SliceInv, DropCell, Looping
<1>2. c \in Clients /\ w \in ClientState /\ w.pass \in Pass /\ HeaderOf(w) = subs /\ w.pc # "header"
  BY <1>1, Copied
<1>3. w.pass.n \in 1 .. subs.len /\ w.pass.kept \in 0 .. w.pass.n - 1 /\ subs.len \in Nat
  BY <1>1, AtCell, SliceFacts
<1>4. PICK p : p = [w.pass EXCEPT !.n = @ + 1]
  OBVIOUS
<1>5. PICK v : v = [w EXCEPT !.pass = p] /\ Goto(c, v)
  BY <1>4 DEF DropCell
<1>6. v.pc = w.pc /\ v.pass = p /\ v.request = w.request /\ (w.pc \in {"remove", "store"} => v.refs = w.refs)
  BY <1>1, <1>2, <1>5, PassFields
<1>7. /\ p.n = w.pass.n + 1 /\ p.kept = w.pass.kept /\ p.unread = w.pass.unread
      /\ p.header = w.pass.header
  BY <1>2, <1>4 DEF Pass
<1>8. /\ Removing(v)
      /\ \A s : Goes(v, s) <=> Goes(w, s)
      /\ \A k \in 1 .. subs.len : Hole(w, k) => Hole(v, k)
      /\ HeaderOf(v)' = subs
  <2>1. Removing(v)
    BY <1>1, <1>6 DEF Removing
  <2>2. HeaderOf(v)' = subs
    BY <1>1, <1>2, <1>6 DEF HeaderOf
  <2>3. \A k \in 1 .. subs.len : Hole(w, k) => Hole(v, k)
    <3>1. w.pass.n \in Nat /\ \A k \in 1 .. subs.len : k \in Nat
      BY <1>3
    <3> QED
      BY <1>6, <1>7, <2>1, <3>1 DEF Hole
  <2> QED
    BY <1>6, <2>1, <2>2, <2>3 DEF Goes
<1>9. Readable(HeaderOf(v))' /\ Distinct(v)'
  BY <1>1, <1>2, <1>8 DEF SliceOf, Readable, PastEnd, Distinct, Cell
<1>10. ClientSlice(v)'
  <2>1. Agrees(v)'
    BY <1>1, <1>6, <1>7 DEF SliceOf, ClientSlice, Agrees
  <2>2. p.unread = {} /\ p.kept < p.n /\ p.n <= subs.len + 1
    BY <1>1, <1>3, <1>7 DEF Looping
  <2>3. \A k \in 1 .. p.kept : ~ Goes(v, Cell(subs, k))
    BY <1>1, <1>7, <1>8 DEF SliceOf, ClientSlice
  <2> QED
    BY <1>1, <1>2, <1>6, <1>8, <2>1, <2>2, <2>3 DEF ClientSlice, Cell, Removing
<1> QED
  BY <1>5, <1>9, <1>10, SliceMoves DEF SliceOf

\* and what is kept is moved to behind what was kept before.
LEMMA SliceCellKept ==
    ASSUME TypeInv, OneByOne, SliceInv, NEW c \in scenario.clients, KeepCell(c), UNCHANGED scenario
    PROVE  SliceInv'
<1> DEFINE w == client[c]
<1>1. SliceOf(w) /\ subs' = subs /\ Looping(w) /\ Removing(w)
  BY DEF SliceInv, KeepCell, Looping
<1>2. c \in Clients /\ w \in ClientState /\ w.pass \in Pass /\ HeaderOf(w) = subs /\ w.pc # "header"
      /\ Readable(subs)
  BY <1>1, Copied
<1>3. PICK n \in Nat, kept \in Nat, len \in Nat : n = w.pass.n /\ kept = w.pass.kept /\ len = subs.len
  <2>1. w.pass.n \in Nat \ {0} /\ w.pass.kept \in Nat /\ subs.len \in Nat
    BY <1>1, Copied, SliceFacts
  <2> QED
    BY <2>1
<1>4. /\ n \in 1 .. len /\ kept \in 0 .. n - 1 /\ Visited(w) = Cell(subs, n) /\ Visited(w) # Nil
      /\ len <= Len(arrays[subs.arr]) /\ Len(arrays[subs.arr]) \in Nat
  BY <1>1, <1>3, AtCell
<1>5. PICK p : p = [w.pass EXCEPT !.n = @ + 1, !.kept = @ + 1]
  OBVIOUS
<1>6. PICK v : v = [w EXCEPT !.pass = p] /\ Goto(c, v)
  BY <1>5 DEF KeepCell
<1>7. v.pc = w.pc /\ v.pass = p /\ v.request = w.request /\ (w.pc \in {"remove", "store"} => v.refs = w.refs)
  BY <1>1, <1>2, <1>6, PassFields
<1>8. /\ p.n = n + 1 /\ p.kept = kept + 1 /\ p.unread = w.pass.unread
      /\ p.header = w.pass.header
  BY <1>2, <1>3, <1>5 DEF Pass
<1>9. /\ \A k \in 1 .. len : Cell(subs, k)' = IF k = kept + 1 THEN Cell(subs, n) ELSE Cell(subs, k)
      /\ Len(arrays'[subs.arr]) = Len(arrays[subs.arr])
  <2>1. /\ arrays \in Seq(Seq(Cells)) /\ subs.arr \in DOMAIN arrays
        /\ arrays[subs.arr] \in Seq(Cells)
    BY SliceFacts
  <2>2. PICK A \in Seq(Cells), i \in DOMAIN arrays, x \in {Cell(subs, n)} :
          A = arrays[subs.arr] /\ i = subs.arr /\ x = Cell(subs, n)
    BY <2>1
  <2>3. arrays' = [arrays EXCEPT ![i] = [A EXCEPT ![kept + 1] = x]]
    BY <1>3, <1>4, <2>2 DEF KeepCell
  <2>4. arrays'[i] = [A EXCEPT ![kept + 1] = x]
    BY <2>1, <2>2, <2>3
  <2>5. /\ Len([A EXCEPT ![kept + 1] = x]) = Len(A)
        /\ \A k \in 1 .. len : [A EXCEPT ![kept + 1] = x][k] = IF k = kept + 1 THEN x ELSE A[k]
    BY <1>4, <2>2
  <2> QED
    BY <1>1, <2>2, <2>4, <2>5 DEF Cell
<1>10. /\ Removing(v)
       /\ \A s : Goes(v, s) <=> Goes(w, s)
       /\ HeaderOf(v)' = subs
  <2>1. Removing(v)
    BY <1>1, <1>7 DEF Removing
  <2>2. HeaderOf(v)' = subs
    BY <1>1, <1>2, <1>7 DEF HeaderOf
  <2> QED
    BY <1>7, <2>1, <2>2 DEF Goes
<1>11. Readable(HeaderOf(v))'
  <2>1. \A k \in 1 .. len : Cell(subs, k) # Nil
    BY <1>2, <1>3, SliceFacts
  <2>2. \A k \in 1 .. len : Cell(subs, k)' # Nil
    BY <1>4, <1>9, <2>1
  <2> QED
    BY <1>1, <1>3, <1>4, <1>9, <1>10, <2>2 DEF Readable, PastEnd, Cell
<1>12. Distinct(v)'
  <2> DEFINE from(k) == IF k = kept + 1 THEN n ELSE k
  <2>1. ASSUME NEW k \in 1 .. len, ~ Hole(v, k)
        PROVE  from(k) \in 1 .. len /\ ~ Hole(w, from(k)) /\ Cell(subs, k)' = Cell(subs, from(k))
               /\ (k # kept + 1 => from(k) # n)
    <3>1. ~ (kept + 1 < k /\ k < n + 1)
      BY <1>7, <1>8, <1>10, <2>1 DEF Hole
    <3>2. k = kept + 1 \/ k <= kept \/ k > n
      BY <3>1
    <3>3. from(k) \in 1 .. len /\ ~ (kept < from(k) /\ from(k) < n) /\ (k # kept + 1 => from(k) # n)
      BY <1>4, <3>2
    <3> QED
      BY <1>3, <1>9, <3>3 DEF Hole
  <2>2. ASSUME NEW j \in 1 .. len, NEW k \in 1 .. len, ~ Hole(w, j), ~ Hole(w, k),
               Cell(subs, j).requestor = Cell(subs, k).requestor, Cell(subs, j).ref = Cell(subs, k).ref
        PROVE  j = k
    BY <1>1, <1>2, <1>3, <2>2 DEF SliceOf, Distinct
  <2>3. ASSUME NEW j \in 1 .. len, NEW k \in 1 .. len, ~ Hole(v, j), ~ Hole(v, k),
               (Cell(subs, j).requestor = Cell(subs, k).requestor)',
               (Cell(subs, j).ref = Cell(subs, k).ref)'
        PROVE  j = k
    <3>1. Cell(subs, from(j)).requestor = Cell(subs, from(k)).requestor
          /\ Cell(subs, from(j)).ref = Cell(subs, from(k)).ref
      BY <1>1, <2>1, <2>3
    <3>2. from(j) = from(k)
      BY <2>1, <2>2, <2>3, <3>1
    <3> QED
      BY <2>1, <2>3, <3>2
  <2> QED
    BY <1>1, <1>3, <1>10, <2>3 DEF Distinct, Cell
<1>13. ClientSlice(v)'
  <2>1. Agrees(v)'
    BY <1>1, <1>7, <1>8 DEF SliceOf, ClientSlice, Agrees
  <2>2. p.unread = {} /\ p.kept < p.n /\ p.n <= subs.len + 1
    BY <1>1, <1>3, <1>4, <1>8 DEF Looping
  <2>3. ASSUME NEW k \in 1 .. p.kept PROVE ~ Goes(v, Cell(subs, k)')
    <3>1. CASE k = kept + 1
      <4>1. ~ Goes(w, Cell(subs, n))
        BY <1>4 DEF KeepCell
      <4>2. k \in 1 .. len
        BY <1>4, <3>1
      <4> QED
        BY <1>9, <1>10, <3>1, <4>1, <4>2
    <3>2. CASE k # kept + 1
      <4>1. k \in 1 .. kept /\ k \in 1 .. len
        BY <1>4, <1>8, <3>2
      <4>2. ~ Goes(w, Cell(subs, k))
        BY <1>1, <1>3, <4>1 DEF SliceOf, ClientSlice
      <4> QED
        BY <1>9, <1>10, <3>2, <4>1, <4>2
    <3> QED
      BY <3>1, <3>2
  <2>4. v.pc \notin {"store", "header"}
    BY <1>1, <1>7 DEF Removing
  <2> QED
    BY <1>1, <1>7, <2>1, <2>2, <2>3, <2>4 DEF ClientSlice, Cell
<1> QED
  BY <1>6, <1>11, <1>12, <1>13, SliceMoves DEF SliceOf

\* The slice is cut to what was kept.
LEMMA SliceIsCut ==
    ASSUME TypeInv, OneByOne, SliceInv, NEW c \in scenario.clients, Cut(client[c]), UNCHANGED scenario,
           NEW v, Goto(c, v), v.pc # "header", (Removing(v) \/ v.pc = "store") => v.pass = NewPass,
           v.pc = "store" => /\ client[c].pc = "remove"
                             /\ v.request = client[c].request /\ v.refs = client[c].refs
    PROVE  SliceInv'
<1> DEFINE w == client[c]
<1>1. SliceOf(w) /\ arrays' = arrays /\ Passed(w) /\ Removing(w) /\ subs' = [subs EXCEPT !.len = w.pass.kept]
  BY DEF SliceInv, Cut, Passed
<1>2. HeaderOf(w) = subs /\ Readable(subs)
  BY <1>1, Copied
<1>3. PICK kept \in Nat, len \in Nat : kept = w.pass.kept /\ len = subs.len /\ kept <= len
  <2>1. w.pass.kept \in Nat /\ subs.len \in Nat /\ w.pass.kept <= subs.len
    BY <1>1, AtEnd, SliceFacts
  <2> QED
    BY <2>1
<1>4. subs'.arr = subs.arr /\ subs'.len = kept
  BY <1>1, <1>3, SliceFacts DEF Header
<1>5. HeaderOf(v)' = subs'
  BY DEF HeaderOf
<1>6. \A k \in 1 .. kept : k \in 1 .. len /\ ~ Hole(w, k)
  BY <1>3 DEF Hole
<1>7. \A k \in Nat : ~ Hole(v, k)
  BY DEF Hole, NewPass
<1>8. Readable(HeaderOf(v))'
  <2>1. len <= Len(arrays[subs.arr]) /\ \A k \in 1 .. len : Cell(subs, k) # Nil
    BY <1>2, <1>3, SliceFacts
  <2>2. kept <= Len(arrays[subs.arr])
    BY <1>3, <2>1, SliceFacts
  <2> QED
    BY <1>1, <1>4, <1>5, <1>6, <2>1, <2>2, SliceFacts DEF Readable, PastEnd, Cell
<1>9. Distinct(v)'
  <2>1. \A j, k \in 1 .. len : (/\ ~ Hole(w, j) /\ ~ Hole(w, k)
                                /\ Cell(subs, j).requestor = Cell(subs, k).requestor
                                /\ Cell(subs, j).ref = Cell(subs, k).ref) => j = k
    BY <1>1, <1>2, <1>3 DEF SliceOf, Distinct
  <2> QED
    BY <1>1, <1>4, <1>5, <1>6, <2>1 DEF Distinct, Cell
<1>10. ClientSlice(v)'
  <2>1. (Removing(v) \/ v.pc = "store") =>
           /\ Agrees(v)'
           /\ v.pass.n = 1 /\ v.pass.kept = 0 /\ 1 <= kept + 1 /\ 1 .. v.pass.kept = {}
    BY <1>3 DEF NewPass, Agrees
  <2>2. \A k \in 1 .. kept : ~ Goes(w, Cell(subs, k))
    BY <1>1, <1>3 DEF SliceOf, ClientSlice
  <2>3. v.pc = "store" => \A k \in 1 .. kept :
             ~ (Cell(subs, k).requestor = v.request.requestor /\ Cell(subs, k).ref \in Range(v.refs))
    BY <2>2 DEF Goes
  <2> QED
    BY <1>1, <1>4, <2>1, <2>3 DEF ClientSlice, Cell
<1> QED
  BY <1>8, <1>9, <1>10, SliceMoves DEF SliceOf

\* No subscription is in s twice.
Unique(s) ==
    \A j, k \in DOMAIN s : (s[j].requestor = s[k].requestor /\ s[j].ref = s[k].ref) => j = k

\* The new subscriptions are appended to what is left of the old ones.
LEMMA UniqueAppended ==
    ASSUME NEW s \in Seq(SiriSubscription), Unique(s), NEW r \in SubscriptionRequest,
           NEW refs \in Seq(SubscriptionRefs), \A j, k \in DOMAIN refs : refs[j] = refs[k] => j = k,
           \A x \in Range(s) : ~ (x.requestor = r.requestor /\ x.ref \in Range(refs)),
           NEW new \in Seq(SiriSubscription), new = [k \in DOMAIN refs |-> Requested(r, refs[k])]
    PROVE  Unique(s \o new)
<1> DEFINE all == s \o new
<1>1. /\ all \in Seq(SiriSubscription) /\ Len(all) = Len(s) + Len(new)
      /\ Len(s) \in Nat /\ Len(new) \in Nat
      /\ \A k \in 1 .. Len(s) : all[k] = s[k]
      /\ \A k \in 1 .. Len(new) : all[Len(s) + k] = new[k]
  BY Concatenated
<1>2. /\ DOMAIN all = 1 .. Len(s) + Len(new) /\ DOMAIN s = 1 .. Len(s)
      /\ DOMAIN new = 1 .. Len(new) /\ DOMAIN refs = 1 .. Len(new)
  <2>1. DOMAIN new = DOMAIN refs
    OBVIOUS
  <2> HIDE DEF all
  <2> QED
    BY <1>1, <2>1
<1> HIDE DEF all
<1>3. \A k \in 1 .. Len(new) : /\ new[k].requestor = r.requestor /\ new[k].ref = refs[k]
                               /\ new[k] = Requested(r, refs[k]) /\ refs[k] \in Range(refs)
  BY <1>2 DEF Requested, Range
<1>4. ASSUME NEW j \in DOMAIN all
      PROVE  \/ j \in 1 .. Len(s) /\ all[j] = s[j] /\ s[j] \in Range(s)
             \/ \E k \in 1 .. Len(new) : j = Len(s) + k /\ all[j] = new[k]
  <2>1. CASE j \in 1 .. Len(s)
    BY <1>1, <1>2, <2>1 DEF Range
  <2>2. CASE j \notin 1 .. Len(s)
    <3>1. Len(s) \in Nat /\ Len(new) \in Nat /\ j \in 1 .. Len(s) + Len(new)
      BY <1>1, <1>2
    <3>2. j - Len(s) \in 1 .. Len(new) /\ j = Len(s) + (j - Len(s))
      BY <2>2, <3>1
    <3>3. PICK k \in 1 .. Len(new) : j = Len(s) + k
      BY <3>2
    <3> QED
      BY <1>1, <3>3
  <2> QED
    BY <2>1, <2>2
<1>5. Unique(all)
  <2> SUFFICES ASSUME NEW j \in DOMAIN all, NEW k \in DOMAIN all,
                      all[j].requestor = all[k].requestor, all[j].ref = all[k].ref
               PROVE  j = k
    BY DEF Unique
  <2>1. CASE j \in 1 .. Len(s) /\ all[j] = s[j] /\ s[j] \in Range(s)
    <3>1. CASE k \in 1 .. Len(s) /\ all[k] = s[k]
      BY <1>2, <2>1, <3>1 DEF Unique
    <3>2. CASE \E i \in 1 .. Len(new) : k = Len(s) + i /\ all[k] = new[i]
      BY <1>3, <2>1, <3>2
    <3> QED
      BY <1>4, <3>1, <3>2
  <2>2. CASE \E i \in 1 .. Len(new) : j = Len(s) + i /\ all[j] = new[i]
    <3>1. CASE k \in 1 .. Len(s) /\ all[k] = s[k] /\ s[k] \in Range(s)
      BY <1>3, <2>2, <3>1
    <3>2. CASE \E i \in 1 .. Len(new) : k = Len(s) + i /\ all[k] = new[i]
      <4>1. PICK i \in 1 .. Len(new) : j = Len(s) + i /\ all[j] = new[i]
        BY <2>2
      <4>2. PICK m \in 1 .. Len(new) : k = Len(s) + m /\ all[k] = new[m]
        BY <3>2
      <4>3. refs[i] = refs[m] /\ i \in DOMAIN refs /\ m \in DOMAIN refs
        BY <1>2, <1>3, <4>1, <4>2
      <4>4. i = m
        BY <4>3
      <4> QED
        BY <4>1, <4>2, <4>4
    <3> QED
      BY <1>4, <3>1, <3>2
  <2> QED
    BY <1>4, <2>1, <2>2
<1> QED
  BY <1>5 DEF all

\* What was confirmed is added, each once.
LEMMA SliceStored ==
    ASSUME TypeInv, OneByOne, SliceInv, NEW c \in scenario.clients, Store(c), UNCHANGED scenario
    PROVE  SliceInv'
<1> DEFINE w == client[c]
           refs == WithoutDuplicates(w.refs)
           new  == [k \in DOMAIN refs |-> Requested(w.request, refs[k])]
<1>1. w.pc = "store" /\ w.pass.unread = {} /\ SliceOf(w)
  BY DEF Store, SliceInv
<1>2. /\ c \in Clients /\ w \in ClientState /\ HeaderOf(w) = subs /\ Readable(subs)
      /\ w.pass.header = subs
  BY <1>1, Copied
<1>3. w.request \in SubscriptionRequest /\ w.refs \in Seq(SubscriptionRefs)
  <2>1. w \in [ pc : {"remove", "store"}, request : SubscriptionRequest,
                refs : Seq(SubscriptionRefs), pass : Pass ]
    BY <1>1, <1>2, StateOf
  <2> QED
    BY <2>1
<1>4. /\ Stored \in Seq(SiriSubscription) /\ new \in Seq(SiriSubscription)
      /\ arrays' \in Seq(Seq(Cells))
      /\ \E h \in Header' :
           /\ Goto(c, [ pc |-> "header", request |-> w.request, next |-> h, unwritten |-> Parts ])
           /\ Slice(h)' = Stored \o new /\ Readable(h)'
  BY <1>1, <1>2, <1>3, Appended DEF TypeInv
<1>5. PICK h \in Header' :
           /\ Goto(c, [ pc |-> "header", request |-> w.request, next |-> h, unwritten |-> Parts ])
           /\ Slice(h)' = Stored \o new /\ Readable(h)'
  BY <1>4
<1>6. PICK v : /\ v = [ pc |-> "header", request |-> w.request, next |-> h, unwritten |-> Parts ]
               /\ Goto(c, v)
  BY <1>5
<1>7. /\ v.pc = "header" /\ v.next = h /\ v.unwritten = Parts /\ HeaderOf(v)' = h /\ ~ Removing(v)
  BY <1>6 DEF HeaderOf, Removing
<1>8. \A k \in 1 .. subs.len : Stored[k] = Cell(subs, k)
  <2>1. \A k \in 1 .. subs.len : Slice(subs)[k] = arrays[subs.arr][k]
    BY <1>2, SliceProperties, SliceFacts DEF TypeInv
  <2> QED
    BY <2>1 DEF Stored, Slice, Cell
<1>9. DOMAIN Stored = 1 .. subs.len
  <2>1. DOMAIN Slice(subs) = 1 .. subs.len
    BY <1>2, SliceProperties, SliceFacts DEF TypeInv
  <2> QED
    BY <2>1 DEF Stored, Slice
<1>10. /\ Unique(Stored)
       /\ \A s \in Range(Stored) : ~ (s.requestor = w.request.requestor /\ s.ref \in Range(w.refs))
  <2>1. \A k \in 1 .. subs.len : ~ Hole(w, k)
    BY <1>1 DEF Hole, Removing
  <2>2. \A j, k \in 1 .. subs.len : (/\ Cell(subs, j).requestor = Cell(subs, k).requestor
                                     /\ Cell(subs, j).ref = Cell(subs, k).ref) => j = k
    BY <1>1, <1>2, <2>1 DEF SliceOf, Distinct
  <2>3. \A k \in 1 .. subs.len :
          ~ (Cell(subs, k).requestor = w.request.requestor /\ Cell(subs, k).ref \in Range(w.refs))
    BY <1>1 DEF SliceOf, ClientSlice
  <2>4. Unique(Stored)
    BY <1>8, <1>9, <2>2 DEF Unique
  <2>5. \A s \in Range(Stored) : ~ (s.requestor = w.request.requestor /\ s.ref \in Range(w.refs))
    <3>1. \A s \in Range(Stored) : \E k \in 1 .. subs.len : s = Cell(subs, k)
      BY <1>8, <1>9 DEF Range
    <3> QED
      BY <2>3, <3>1
  <2> QED
    BY <2>4, <2>5
<1>11. Unique(Stored \o new)
  <2>1. /\ refs \in Seq(SubscriptionRefs) /\ Range(refs) = Range(w.refs)
        /\ \A j, k \in DOMAIN refs : refs[j] = refs[k] => j = k
    BY <1>3, WithoutDuplicatesProperties
  <2> HIDE DEF refs
  <2>2. PICK s \in Seq(SiriSubscription) : s = Stored
    BY <1>4
  <2>3. PICK r \in SubscriptionRequest : r = w.request
    BY <1>3
  <2>4. PICK n \in Seq(SiriSubscription) : n = new
    BY <1>4
  <2>5. n = [k \in DOMAIN refs |-> Requested(r, refs[k])]
    BY <2>3, <2>4
  <2> HIDE DEF new
  <2>6. Unique(s \o n)
    BY <1>10, <2>1, <2>2, <2>3, <2>5, UniqueAppended, SMTT(30)
  <2> QED
    BY <2>2, <2>4, <2>6
<1> HIDE DEF new
<1>12. Distinct(v)'
  <2>1. /\ arrays'[h.arr] \in Seq(Cells) /\ h.len \in Nat /\ h.len <= Len(arrays'[h.arr])
    BY <1>4, <1>5 DEF Header, Readable, PastEnd
  <2>2. PICK A \in Seq(Cells) : A = arrays'[h.arr]
    BY <2>1
  <2>3. DOMAIN SubSeq(A, 1, h.len) = 1 .. h.len /\ \A k \in 1 .. h.len : SubSeq(A, 1, h.len)[k] = A[k]
    BY <2>1, <2>2
  <2>4. Slice(h)' = SubSeq(A, 1, h.len)
    BY <2>2 DEF Slice
  <2>5. PICK all : all = Stored \o new
    OBVIOUS
  <2>6. DOMAIN all = 1 .. h.len /\ (\A k \in 1 .. h.len : all[k] = Cell(h, k)') /\ Unique(all)
    BY <1>5, <1>11, <2>2, <2>3, <2>4, <2>5 DEF Cell
  <2> QED
    BY <1>7, <2>6 DEF Distinct, Unique, Cell
<1>13. Readable(HeaderOf(v))'
  BY <1>5, <1>7 DEF Readable, PastEnd
<1>14. ClientSlice(v)'
  BY <1>7 DEF ClientSlice, Parts
<1> QED
  BY <1>6, <1>12, <1>13, <1>14, SliceMoves DEF SliceOf

\* The header comes to be the one that is written, in whichever order.
LEMMA SliceHeaded ==
    ASSUME TypeInv, OneByOne, SliceInv, NEW c \in scenario.clients, WriteHeader(c),
           UNCHANGED scenario
    PROVE  SliceInv'
<1> DEFINE w == client[c]
<1>1. /\ c \in Clients /\ w \in ClientState /\ w.pc = "header" /\ arrays' = arrays /\ SliceOf(w)
  BY SiriProxyAssumption DEF TypeInv, TypeOK, WriteHeader, SliceInv
<1>2. w \in [ pc : {"header"}, request : SubscriptionRequest, next : Header, unwritten : SUBSET Parts ]
  BY <1>1, StateOf
<1>3. PICK part \in w.unwritten :
        LET left == w.unwritten \ {part}
        IN  /\ subs' = [subs EXCEPT ![part] = w.next[part]]
            /\ Goto(c, IF left = {} THEN [pc |-> "measure", address |-> w.request.address]
                                    ELSE [w EXCEPT !.unwritten = left])
  BY DEF WriteHeader
<1>4. PICK h \in Header : h = w.next
  BY <1>2
<1>5. w.unwritten \subseteq Parts /\ part \in Parts /\ subs \in Header
  BY <1>2, <1>3, SliceFacts
<1>6. \A q \in Parts : subs'[q] = IF q = part THEN h[q] ELSE subs[q]
  BY <1>3, <1>4, <1>5 DEF Header, Parts
<1>7. \A q \in Parts \ (w.unwritten \ {part}) : subs'[q] = h[q]
  BY <1>1, <1>4, <1>6 DEF SliceOf, ClientSlice
<1>8. HeaderOf(w) = h /\ Readable(h)
  BY <1>1, <1>4 DEF HeaderOf, SliceOf
<1>9. \A j, k \in 1 .. h.len : (/\ Cell(h, j).requestor = Cell(h, k).requestor
                                /\ Cell(h, j).ref = Cell(h, k).ref) => j = k
  <2>1. \A k : ~ Hole(w, k)
    BY <1>1 DEF Hole, Removing
  <2> QED
    BY <1>1, <1>8, <2>1 DEF SliceOf, Distinct
<1>10. ASSUME NEW v, HeaderOf(v)' = h PROVE Readable(HeaderOf(v))' /\ Distinct(v)'
  BY <1>1, <1>8, <1>9, <1>10 DEF Readable, PastEnd, Distinct, Cell
<1>11. CASE w.unwritten = {part}
  <2>1. PICK v : v = [pc |-> "measure", address |-> w.request.address] /\ Goto(c, v)
    BY <1>3, <1>11
  <2>2. subs' = h
    <3>1. \A q \in Parts : subs'[q] = h[q]
      BY <1>7, <1>11
    <3>2. subs'.arr = h.arr /\ subs'.len = h.len
      BY <3>1 DEF Parts
    <3>3. subs' \in [arr : DOMAIN arrays, len : Nat]
      <4>1. subs \in [arr : DOMAIN arrays, len : Nat] /\ h \in [arr : DOMAIN arrays, len : Nat]
            /\ part \in {"arr", "len"}
        BY <1>5 DEF Header, Parts
      <4>2. CASE part = "arr"
        BY <1>3, <1>4, <4>1, <4>2
      <4>3. CASE part = "len"
        BY <1>3, <1>4, <4>1, <4>3
      <4> QED
        BY <4>1, <4>2, <4>3
    <3> QED
      BY <3>2, <3>3 DEF Header
  <2>3. v.pc = "measure" /\ HeaderOf(v)' = h
    BY <2>1, <2>2 DEF HeaderOf
  <2>4. ClientSlice(v)'
    BY <2>3 DEF ClientSlice, Removing
  <2> QED
    BY <1>10, <2>1, <2>3, <2>4, SliceMoves DEF SliceOf
<1>12. CASE w.unwritten # {part}
  <2>1. PICK left : left = w.unwritten \ {part} /\ left # {}
    BY <1>3, <1>12
  <2>2. PICK v : v = [w EXCEPT !.unwritten = left] /\ Goto(c, v)
    BY <1>3, <2>1
  <2>3. v.pc = "header" /\ v.next = h /\ v.unwritten = left
    BY <1>2, <1>4, <2>2
  <2>4. HeaderOf(v)' = h
    BY <2>3 DEF HeaderOf
  <2>5. ClientSlice(v)'
    BY <1>7, <2>1, <2>3 DEF ClientSlice, Removing
  <2> QED
    BY <1>10, <2>2, <2>4, <2>5, SliceMoves DEF SliceOf
<1> QED
  BY <1>11, <1>12

\* The steps that begin or go on elsewhere.
LEMMA SliceKept ==
    ASSUME TypeInv, OneByOne, SliceInv, NEW c \in scenario.clients, UNCHANGED scenario,
           \/ ReceiveSubscription(c) \/ TargetFails(c) \/ TargetConfirms(c)
           \/ Measure(c) \/ StopHeartbeat(c) \/ CreateHeartbeat(c) \/ RegisterHeartbeat(c)
           \/ ReceiveTermination(c) \/ SweepBegins(c) \/ SweepAddress(c) \/ SweepDelete(c)
           \/ SweepEnds(c)
    PROVE  SliceInv'
<1> DEFINE w == client[c]
<1>1. UNCHANGED <<arrays, subs>> /\ w.pc # "header" /\ ~ Removing(w)
  BY DEF ReceiveSubscription, TargetFails, TargetConfirms, Measure, StopHeartbeat, CreateHeartbeat,
         RegisterHeartbeat, ReceiveTermination, SweepBegins, SweepAddress, SweepDelete, SweepEnds,
         Removing
<1>2. ASSUME NEW v, Goto(c, v), v.pc \notin {"store", "header"}, Removing(v) => v.pass = NewPass
      PROVE  SliceInv'
  BY <1>1, <1>2, SliceEntered
<1>3. CASE ReceiveSubscription(c) \/ TargetFails(c) \/ Measure(c)
  BY <1>2, <1>3 DEF ReceiveSubscription, TargetFails, Measure, Idle, Removing
<1>4. CASE TargetConfirms(c)
  <2>1. PICK r, s : Goto(c, [pc |-> "remove", request |-> r, refs |-> s, pass |-> NewPass])
    BY <1>4 DEF TargetConfirms
  <2> QED
    BY <1>2, <2>1
<1>5. CASE CreateHeartbeat(c) \/ RegisterHeartbeat(c) \/ SweepBegins(c) \/ SweepEnds(c)
  BY <1>2, <1>5 DEF CreateHeartbeat, RegisterHeartbeat, SweepBegins, SweepEnds, Idle, Removing
<1>6. CASE ReceiveTermination(c)
  <2>1. PICK r \in pending : /\ r.kind \in {"terminateAll", "terminate"}
                             /\ Goto(c, [pc |-> r.kind, request |-> r, pass |-> NewPass])
    BY <1>6 DEF ReceiveTermination
  <2> QED
    BY <1>2, <2>1
<1>7. CASE StopHeartbeat(c) \/ SweepDelete(c)
  <2>1. PICK v : Goto(c, v) /\ v.pc \in {"create", "sweep"}
    BY <1>7, Moves
  <2> QED
    BY <1>2, <2>1 DEF Removing
<1>8. CASE SweepAddress(c)
  <2>1. PICK v : Goto(c, v) /\ v.pc \in {"delete", "sweep"}
    BY <1>8 DEF SweepAddress
  <2> QED
    BY <1>2, <2>1 DEF Removing
<1> QED
  BY <1>3, <1>4, <1>5, <1>6, <1>7, <1>8

\* Whatever leaves arrays, header and clients alone.
LEMMA SliceUntouched ==
    ASSUME SliceInv, UNCHANGED <<arrays, subs, client, scenario>>
    PROVE  SliceInv'
BY SMTT(30) DEF SliceInv, SliceOf, HeaderOf, Distinct, ClientSlice, Agrees, Readable, PastEnd, Cell

\* SliceInv is inductive, of clients that come one after another.
LEMMA SliceStep ==
    ASSUME TypeInv, OneByOne, SliceInv, [Next]_vars
    PROVE  SliceInv'
<1>1. CASE UNCHANGED vars
  BY <1>1, SliceUntouched DEF vars
<1>2. ASSUME NEW c \in scenario.clients, Client(c), UNCHANGED scenario PROVE SliceInv'
  <2>1. ASSUME Cut(client[c]), NEW v, Goto(c, v), v.pc # "header",
               (Removing(v) \/ v.pc = "store") => v.pass = NewPass,
               v.pc = "store" => /\ client[c].pc = "remove"
                                 /\ v.request = client[c].request /\ v.refs = client[c].refs
        PROVE  SliceInv'
    BY <1>2, <2>1, SliceIsCut
  <2>2. CASE RemoveUpdated(c)
    <3>1. PICK v : /\ Goto(c, v) /\ v.pc = "store" /\ v.pass = NewPass
                   /\ v.request = client[c].request /\ v.refs = client[c].refs
      BY <1>2, <2>2, Moves
    <3> QED
      BY <2>1, <2>2, <3>1 DEF RemoveUpdated
  <2>3. CASE RemoveAll(c)
    <3>1. PICK v : Goto(c, v) /\ v.pc = "idle"
      BY <1>2, <2>3, Moves
    <3> QED
      BY <2>1, <2>3, <3>1 DEF RemoveAll, Removing
  <2>4. CASE RemoveNext(c)
    <3>1. PICK v : Goto(c, v) /\ v.pc = "terminate" /\ v.pass = NewPass
      BY <1>2, <2>4, Moves
    <3> QED
      BY <2>1, <2>4, <3>1 DEF RemoveNext
  <2>5. CASE ClientMisreads(c)
    BY <1>2, <2>5, NoMisreads DEF SliceInv
  <2>6. CASE MapRace(c)
    BY <1>2, <2>6, SliceUntouched DEF MapRace
  <2> QED
    BY <1>2, <2>2, <2>3, <2>4, <2>5, <2>6, SliceLoaded, SliceDropped, SliceCellKept, SliceStored,
       SliceHeaded, SliceKept DEF Client
<1>3. CASE \E b \in DOMAIN beats : Running(Timer(b))
  BY <1>3, SliceUntouched DEF Running, Timer, TimerFires, TimerStopsTicker, TimerDeletes
<1>4. CASE \E f \in Feeds : Running(Feed(f))
  BY <1>4, SliceUntouched DEF Running, Feed, Publish, CopyHeader, Skip, Post, Posted, PostFails,
                              NextDelivery, FeedMisreads
<1>5. CASE Running(Tick)
  BY <1>5, SliceUntouched DEF Running, Tick
<1> QED
  BY <1>1, <1>2, <1>3, <1>4, <1>5 DEF Next, Running

\* It holds at first.
LEMMA SliceInit ==
    Init => SliceInv
<1> SUFFICES ASSUME Init PROVE SliceInv
  OBVIOUS
<1>1. arrays[1] = << >> /\ subs.arr = 1 /\ subs.len = 0
  BY DEF Init
<1>2. ASSUME NEW c \in scenario.clients PROVE SliceOf(client[c])
  <2>1. client[c].pc = "idle"
    BY SiriProxyAssumption DEF Init, Idle
  <2>2. HeaderOf(client[c]) = subs
    BY <2>1 DEF HeaderOf
  <2> QED
    BY <1>1, <2>1, <2>2 DEF SliceOf, Readable, PastEnd, Distinct, ClientSlice, Removing
<1> QED
  BY <1>1, <1>2 DEF SliceInv

\* What the types and SliceInv say of the subscriptions between two requests.
LEMMA UniqueWhenQuiet ==
    ASSUME TypeInv, OneByOne => SliceInv
    PROVE  UniqueSubscriptions
<1> SUFFICES ASSUME OneByOne, Quiet PROVE Unique(Stored)
  BY DEF UniqueSubscriptions, Unique
<1>1. SliceInv /\ subs \in Header /\ subs.len \in Nat
  BY SliceFacts
<1>2. /\ Readable(subs)
      /\ \A j, k \in 1 .. subs.len : (/\ Cell(subs, j).requestor = Cell(subs, k).requestor
                                      /\ Cell(subs, j).ref = Cell(subs, k).ref) => j = k
  <2>1. CASE scenario.clients = {}
    <3>1. subs.len = 0 /\ Len(arrays[subs.arr]) \in Nat
      BY <1>1, <2>1, SliceFacts DEF SliceInv
    <3> QED
      BY <3>1 DEF Readable, PastEnd
  <2>2. ASSUME NEW c \in scenario.clients
        PROVE  /\ Readable(subs)
               /\ \A j, k \in 1 .. subs.len : (/\ Cell(subs, j).requestor = Cell(subs, k).requestor
                                               /\ Cell(subs, j).ref = Cell(subs, k).ref) => j = k
    <3>1. client[c].pc = "idle"
      BY <2>2, SiriProxyAssumption DEF Quiet, TypeInv, TypeOK
    <3>2. HeaderOf(client[c]) = subs /\ \A k : ~ Hole(client[c], k)
      BY <3>1 DEF HeaderOf, Hole, Removing
    <3> QED
      BY <1>1, <2>2, <3>2 DEF SliceInv, SliceOf, Distinct
  <2> QED
    BY <2>1, <2>2
<1>3. DOMAIN Slice(subs) = 1 .. subs.len /\ \A k \in 1 .. subs.len : Slice(subs)[k] = arrays[subs.arr][k]
  BY <1>1, <1>2, SliceProperties DEF TypeInv
<1> QED
  BY <1>2, <1>3 DEF Unique, Stored, Slice, Cell

\* handleSubscriptionRequestResponse removes what it is about to store, and
\* WithoutDuplicates what was confirmed twice: between requests that come one after
\* another, the slice never has a subscription twice, although the loop moves
\* subscriptions cell by cell in the array that it reads, and append writes behind
\* what is left or copies it.
THEOREM UniqueSubscriptionsHold == Spec => []UniqueSubscriptions
<1> DEFINE IInv == TypeInv /\ (OneByOne => SliceInv)
<1>1. Init => IInv
  BY TypeInit, SliceInit
<1>2. IInv /\ [Next]_vars => IInv'
  BY TypeStep, SliceStep, OneByOneStays
<1>3. IInv => UniqueSubscriptions
  BY UniqueWhenQuiet
<1> QED
  BY <1>1, <1>2, <1>3, PTL DEF Spec

-----------------------------------------------------------------------------
\* Entries: none without a subscription when a sweep ends.

\* A subscription is stored for the address.
Has(a) == \E s \in Listed : s.address = a

\* A sweep knows every entry there is, and leaves it if it has a subscription.
SweepOf(w) ==
    w.pc \in {"sweep", "delete"} =>
        \A a \in Addresses : registered[a] # 0 =>
            /\ a \in w.entries
            /\ a \in w.visited => Has(a) \/ (w.pc = "delete" /\ w.address = a)

\* The inductive invariant of the entries.
SweepInv == \A c \in scenario.clients : SweepOf(client[c])

\* What can be read is what is listed.
LEMMA ReadIsListed ==
    ASSUME TypeInv, Readable(subs)
    PROVE  \A k \in DOMAIN Stored : Stored[k] \in Listed
<1> DEFINE A == arrays[subs.arr]
           n == Min({subs.len, Len(A)})
<1>1. /\ A \in Seq(Cells) /\ subs.len \in Nat /\ Len(A) \in Nat /\ subs.len <= Len(A)
      /\ \A k \in 1 .. subs.len : A[k] # Nil
  BY SliceFacts DEF Cell
<1>2. DOMAIN Slice(subs) = 1 .. subs.len /\ \A k \in 1 .. subs.len : Slice(subs)[k] = A[k]
  BY SliceFacts, SliceProperties DEF TypeInv
<1>3. n = subs.len
  BY <1>1, MinOfTwo
<1>4. Listed = {A[k] : k \in 1 .. n} \ {Nil}
  BY DEF Listed
<1> HIDE DEF A, n
<1>5. \A k \in 1 .. subs.len : A[k] \in Listed
  BY <1>1, <1>3, <1>4
<1> QED
  BY <1>2, <1>5 DEF Stored, Slice

\* No client goes on, and no entry is added.
LEMMA SweepUntouched ==
    ASSUME SweepInv, UNCHANGED <<arrays, subs, client, scenario>>,
           \A a \in Addresses : registered'[a] \in {registered[a], 0}
    PROVE  SweepInv'
<1>1. \A a : Has(a)' <=> Has(a)
  BY DEF Has, Listed
<1>2. ASSUME NEW c \in scenario.clients PROVE SweepOf(client[c])'
  BY <1>1 DEF SweepInv, SweepOf
<1> QED
  BY <1>2 DEF SweepInv

\* A client goes on to where the entries are as they should be.
LEMMA SweepMoves ==
    ASSUME TypeInv, OneByOne, NEW c \in scenario.clients, NEW v, Goto(c, v), UNCHANGED scenario,
           SweepOf(v)'
    PROVE  SweepInv'
<1>1. \A d \in scenario'.clients : client'[d] = v
  BY Moved
<1> QED
  BY <1>1 DEF SweepInv, SweepOf

\* The steps of a sweep.
LEMMA SweepSteps ==
    ASSUME TypeInv, OneByOne, SweepInv, NEW c \in scenario.clients, UNCHANGED scenario,
           SweepBegins(c) \/ SweepAddress(c) \/ SweepDelete(c)
    PROVE  SweepInv'
<1> DEFINE w == client[c]
<1>1. c \in Clients /\ w \in ClientState /\ SweepOf(w) /\ registered \in [Addresses -> 0 .. Len(beats)]
  BY SiriProxyAssumption DEF TypeInv, TypeOK, SweepInv
<1>2. UNCHANGED <<arrays, subs>>
  BY DEF SweepBegins, SweepAddress, SweepDelete
<1>3. \A a : Has(a)' <=> Has(a)
  BY <1>2 DEF Has, Listed
<1>4. CASE SweepBegins(c)
  <2>1. PICK v : /\ v = [ pc |-> "sweep", visited |-> {},
                          entries |-> {a \in Addresses : registered[a] # 0} ]
                 /\ Goto(c, v)
    BY <1>4 DEF SweepBegins
  <2>2. registered' = registered
    BY <1>4 DEF SweepBegins
  <2>3. SweepOf(v)'
    BY <2>1, <2>2 DEF SweepOf
  <2> QED
    BY <2>1, <2>3, SweepMoves
<1>5. CASE SweepAddress(c)
  <2>1. w.pc = "sweep" /\ Readable(subs) /\ registered' = registered
    BY <1>5 DEF SweepAddress
  <2>2. PICK a \in Addresses :
          Goto(c, [ pc |-> IF {k \in DOMAIN Stored : Stored[k].address = a} = {}
                           THEN "delete" ELSE "sweep",
                    address |-> a, entries |-> w.entries, visited |-> w.visited \cup {a} ])
    BY <1>5 DEF SweepAddress
  <2>3. PICK v : /\ Goto(c, v) /\ v.entries = w.entries /\ v.visited = w.visited \cup {a}
                 /\ v.address = a
                 /\ v.pc = IF {k \in DOMAIN Stored : Stored[k].address = a} = {}
                           THEN "delete" ELSE "sweep"
    BY <2>2
  <2>4. v.pc = "delete" \/ Has(a)
    <3>1. CASE {k \in DOMAIN Stored : Stored[k].address = a} = {}
      BY <2>3, <3>1
    <3>2. CASE \E k \in DOMAIN Stored : Stored[k].address = a
      BY <2>1, <3>2, ReadIsListed DEF Has
    <3> QED
      BY <3>1, <3>2
  <2>5. \A d \in Addresses : registered[d] # 0 => d \in w.entries /\ (d \in w.visited => Has(d))
    BY <1>1, <2>1 DEF SweepOf
  <2>6. SweepOf(v)'
    BY <1>3, <2>1, <2>3, <2>4, <2>5 DEF SweepOf
  <2> QED
    BY <2>3, <2>6, SweepMoves
<1>6. CASE SweepDelete(c)
  <2>1. PICK v : Goto(c, v) /\ v.pc = "sweep" /\ v.entries = w.entries /\ v.visited = w.visited
    BY <1>6, Moves
  <2>2. w.pc = "delete" /\ registered' = [registered EXCEPT ![w.address] = 0]
    BY <1>6 DEF SweepDelete
  <2>3. \A a \in Addresses : registered'[a] # 0 => registered[a] # 0 /\ a # w.address
    BY <1>1, <2>2
  <2>4. SweepOf(v)'
    BY <1>1, <1>3, <2>1, <2>2, <2>3 DEF SweepOf
  <2> QED
    BY <2>1, <2>4, SweepMoves
<1> QED
  BY <1>4, <1>5, <1>6

\* A client goes on to anywhere else.
LEMMA SweepElsewhere ==
    ASSUME TypeInv, OneByOne, SweepInv, NEW c \in scenario.clients, NEW v, Goto(c, v),
           UNCHANGED scenario, v.pc \notin {"sweep", "delete"}
    PROVE  SweepInv'
<1>1. SweepOf(v)'
  BY DEF SweepOf
<1> QED
  BY <1>1, SweepMoves

\* SweepInv is inductive, of clients that come one after another.
LEMMA SweepStep ==
    ASSUME TypeInv, OneByOne, SweepInv, [Next]_vars
    PROVE  SweepInv'
<1>1. CASE UNCHANGED vars
  BY <1>1, SweepUntouched DEF vars
<1>2. ASSUME NEW c \in scenario.clients, Client(c), UNCHANGED scenario PROVE SweepInv'
  <2>1. ASSUME NEW v, Goto(c, v), v.pc \notin {"sweep", "delete"} PROVE SweepInv'
    BY <1>2, <2>1, SweepElsewhere
  <2>2. CASE ReceiveSubscription(c) \/ Measure(c) \/ CreateHeartbeat(c)
    BY <2>1, <2>2 DEF ReceiveSubscription, Measure, CreateHeartbeat
  <2>3. CASE TargetConfirms(c)
    <3>1. PICK r, s : Goto(c, [pc |-> "remove", request |-> r, refs |-> s, pass |-> NewPass])
      BY <2>3 DEF TargetConfirms
    <3> QED
      BY <2>1, <3>1
  <2>4. CASE TargetFails(c) \/ RegisterHeartbeat(c) \/ RemoveAll(c) \/ SweepEnds(c)
    <3>1. PICK v : Goto(c, v) /\ v.pc = "idle"
      BY <1>2, <2>4, Moves
    <3> QED
      BY <2>1, <3>1
  <2>5. CASE Load(c) \/ DropCell(c) \/ KeepCell(c)
    <3>1. PICK v : Goto(c, v) /\ v.pc = client[c].pc
      BY <1>2, <2>5, Moves
    <3>2. client[c].pc \notin {"sweep", "delete"}
      BY <2>5 DEF Load, DropCell, KeepCell, Looping, Removing
    <3> QED
      BY <2>1, <3>1, <3>2
  <2>6. CASE RemoveUpdated(c) \/ Store(c) \/ WriteHeader(c) \/ StopHeartbeat(c) \/ RemoveNext(c)
    <3>1. PICK v : Goto(c, v) /\ v.pc \in {"store", "header", "measure", "create", "terminate"}
      BY <1>2, <2>6, Moves
    <3> QED
      BY <2>1, <3>1
  <2>7. CASE ReceiveTermination(c)
    <3>1. PICK r \in pending : /\ r.kind \in {"terminateAll", "terminate"}
                               /\ Goto(c, [pc |-> r.kind, request |-> r, pass |-> NewPass])
      BY <2>7 DEF ReceiveTermination
    <3> QED
      BY <2>1, <3>1
  <2>8. CASE ClientMisreads(c)
    <3>1. CASE UNCHANGED client
      BY <1>2, <2>8, <3>1, SweepUntouched DEF ClientMisreads
    <3>2. CASE Goto(c, Idle)
      <4>1. PICK i : Goto(c, i) /\ i.pc = "idle"
        BY <3>2 DEF Idle
      <4> QED
        BY <2>1, <4>1
    <3> QED
      BY <2>8, <3>1, <3>2 DEF ClientMisreads
  <2>9. CASE MapRace(c)
    BY <1>2, <2>9, SweepUntouched DEF MapRace
  <2> QED
    BY <1>2, <2>2, <2>3, <2>4, <2>5, <2>6, <2>7, <2>8, <2>9, SweepSteps DEF Client
<1>3. ASSUME NEW b \in DOMAIN beats, Timer(b), UNCHANGED scenario PROVE SweepInv'
  <2>1. UNCHANGED <<arrays, subs, client>>
    BY <1>3 DEF Timer, TimerFires, TimerStopsTicker, TimerDeletes
  <2>2. \A a \in Addresses : registered'[a] \in {registered[a], 0}
    <3>1. CASE registered' = registered
      BY <3>1
    <3>2. CASE registered' = [registered EXCEPT ![beats[b].address] = 0]
      BY <3>2, BeatFacts
    <3> QED
      BY <1>3, <3>1, <3>2 DEF Timer, TimerFires, TimerStopsTicker, TimerDeletes
  <2> QED
    BY <1>3, <2>1, <2>2, SweepUntouched
<1>4. CASE \E f \in Feeds : Running(Feed(f))
  BY <1>4, SweepUntouched DEF Running, Feed, Publish, CopyHeader, Skip, Post, Posted, PostFails,
                              NextDelivery, FeedMisreads
<1>5. CASE Running(Tick)
  BY <1>5, SweepUntouched DEF Running, Tick
<1> QED
  BY <1>1, <1>2, <1>3, <1>4, <1>5 DEF Next, Running

\* It holds at first.
LEMMA SweepInit ==
    Init => SweepInv
<1> SUFFICES ASSUME Init, NEW c \in scenario.clients PROVE SweepOf(client[c])
  BY DEF SweepInv
<1>1. client[c].pc = "idle"
  BY SiriProxyAssumption DEF Init, Idle
<1> QED
  BY <1>1 DEF SweepOf

\* removeSubscription, "Heartbeat notifications - remove redundant": a termination
\* that comes to the iteration over HeartbeatSubscriptions, in whichever order
\* that takes the entries, leaves none without a subscription, though timers delete
\* entries all the while, and others had been left by a termination of all or by a
\* subscription that went to another consumer.
THEOREM RedundantRemovedHolds == Spec => []RedundantRemoved
<1> DEFINE IInv == TypeInv /\ (OneByOne => SweepInv)
<1>1. Init => IInv
  BY TypeInit, SweepInit
<1>2. IInv /\ [Next]_vars => IInv'
  BY TypeStep, SweepStep, OneByOneStays
<1>3. IInv => RedundantRemoved
  <2> SUFFICES ASSUME OneByOne, SweepInv, NEW c \in scenario.clients, client[c].pc = "sweep",
                      \A a \in client[c].entries \ client[c].visited : registered[a] = 0,
                      NEW a \in Addresses, registered[a] # 0
               PROVE  \E s \in Listed : s.address = a
    BY DEF RedundantRemoved
  <2> QED
    BY DEF SweepInv, SweepOf, Has
<1> QED
  BY <1>1, <1>2, <1>3, PTL DEF Spec

-----------------------------------------------------------------------------
\* Deliveries: the loop over the slice, while others append to it.

\* The subscriptions in the arrays, and the positions of one of them.
Occurring == (UNION {Range(arrays[a]) : a \in DOMAIN arrays}) \ {Nil}
Places(s) == UNION {{k \in DOMAIN arrays[a] : arrays[a][k] = s} : a \in DOMAIN arrays}

\* The request r asks for s.
Names(r, s) == s.requestor = r.requestor /\ s.ref \in r.refs

\* Nothing that r asks for has been stored.
NotYet(r) == \A s \in Occurring : ~ Names(r, s)

\* The subscription requests of the scenario.
Coming == scenario.coming \cap SubscriptionRequest

\* A client that has not stored yet what it was asked for,
Asks(w) == w.pc \in {"target", "remove", "store"}

\* of which nobody else has anything.
Asking(w) == Asks(w) =>
    /\ w.request \in Coming \ pending /\ NotYet(w.request)
    /\ w.pc # "target" => Range(w.refs) \subseteq w.request.refs

\* The loop that removes has removed nothing, so that it writes every cell where it is.
InPlace(w) == Removing(w) => w.pass.kept = w.pass.n - 1

\* Where a client never is if there are no terminations.
Ending == {"terminate", "terminateAll", "sweep", "delete"}

\* A subscription has the same position in every array that it was copied to,
\* since no cell is moved and no subscription is asked for twice.
NewInv ==
    /\ \A s \in Occurring : \A j, k \in Places(s) : j = k
    /\ \A r \in pending : r.kind = "subscribe" => NotYet(r)
    /\ \A c \in Clients : Asking(client[c]) /\ InPlace(client[c]) /\ client[c].pc \notin Ending
    /\ \A c, d \in Clients :
         (Asks(client[c]) /\ Asks(client[d]) /\ client[c].request = client[d].request) => c = d

\* What Places and Occurring are, in terms of the cells.
PlacesAre ==
    \A s : /\ \A k : k \in Places(s) <=>
                        \E a \in DOMAIN arrays : k \in DOMAIN arrays[a] /\ arrays[a][k] = s
           /\ s \in Occurring <=> s # Nil /\ Places(s) # {}
           /\ Places(s) \subseteq Nat \ {0}

\* They are so in every state with the right types,
LEMMA PlaceOf ==
    SliceType => PlacesAre
<1> SUFFICES ASSUME SliceType, NEW s
             PROVE  /\ \A k : k \in Places(s) <=>
                                \E a \in DOMAIN arrays : k \in DOMAIN arrays[a] /\ arrays[a][k] = s
                    /\ s \in Occurring <=> s # Nil /\ Places(s) # {}
                    /\ Places(s) \subseteq Nat \ {0}
  BY DEF PlacesAre
<1>1. \A a \in DOMAIN arrays : arrays[a] \in Seq(Cells) /\ DOMAIN arrays[a] \subseteq Nat \ {0}
  BY DEF SliceType
<1>2. \A k : k \in Places(s) <=>
               \E a \in DOMAIN arrays : k \in DOMAIN arrays[a] /\ arrays[a][k] = s
  BY DEF Places
<1>3. \A a \in DOMAIN arrays : s \in Range(arrays[a]) <=> \E k \in DOMAIN arrays[a] : arrays[a][k] = s
  BY DEF Range
<1>4. s \in Occurring <=> s # Nil /\ \E a \in DOMAIN arrays : s \in Range(arrays[a])
  BY DEF Occurring
<1>5. s \in Occurring <=> s # Nil /\ Places(s) # {}
  BY <1>2, <1>3, <1>4
<1> QED
  BY <1>1, <1>2, <1>5

\* and in the next one.
LEMMA PlaceOfNext ==
    SliceType' => PlacesAre'
BY PlaceOf, PTL

\* What is listed is at one position, which the header covers.
LEMMA ListedPlace ==
    ASSUME TypeInv, NewInv, NEW s \in Listed
    PROVE  /\ s \in Occurring
           /\ \A k \in Places(s) : /\ k <= subs.len /\ k \in DOMAIN arrays[subs.arr]
                                   /\ arrays[subs.arr][k] = s
<1> DEFINE A == arrays[subs.arr]
           n == Min({subs.len, Len(A)})
<1>1. SliceType
  BY Types DEF TypeInv
<1>2. A \in Seq(Cells) /\ subs.len \in Nat /\ Len(A) \in Nat /\ subs.arr \in DOMAIN arrays
  BY <1>1 DEF SliceType, Header
<1>3. n \in Nat /\ n <= Len(A) /\ n <= subs.len
  BY <1>2, MinOfTwo
<1>4. Listed = {A[k] : k \in 1 .. n} \ {Nil}
  BY DEF Listed
<1> HIDE DEF n
<1>5. PICK k \in 1 .. n : s = A[k]
  BY <1>4
<1>6. s # Nil
  BY <1>4
<1> HIDE DEF A
<1>7. k \in DOMAIN A /\ k <= subs.len
  BY <1>2, <1>3, <1>5
<1>8. k \in Places(s)
  BY <1>1, <1>2, <1>5, <1>7, PlaceOf DEF A, PlacesAre
<1>9. s \in Occurring
  BY <1>1, <1>6, <1>8, PlaceOf DEF PlacesAre
<1>10. \A j \in Places(s) : j = k
  BY <1>8, <1>9 DEF NewInv
<1> QED
  BY <1>5, <1>7, <1>9, <1>10 DEF A

\* What is behind the first n members of a sequence.
LEMMA RestProperties ==
    ASSUME NEW S, NEW s \in Seq(S), NEW n \in Nat, n <= Len(s)
    PROVE  /\ SubSeq(s, n + 1, Len(s)) \in Seq(S) /\ Len(SubSeq(s, n + 1, Len(s))) = Len(s) - n
           /\ \A k \in 1 .. Len(s) - n : SubSeq(s, n + 1, Len(s))[k] = s[n + k]
<1>1. PICK m \in Nat : m = n + 1
  OBVIOUS
<1>2. Len(s) \in Nat /\ \A k \in m .. Len(s) : s[k] \in S
  BY <1>1
<1>3. /\ SubSeq(s, m, Len(s)) \in Seq(S)
      /\ Len(SubSeq(s, m, Len(s))) = IF m <= Len(s) THEN Len(s) - m + 1 ELSE 0
      /\ \A k \in 1 .. Len(s) - m + 1 : SubSeq(s, m, Len(s))[k] = s[m + k - 1]
  BY <1>2, SubSeqProperties
<1>4. PICK rest : rest = SubSeq(s, m, Len(s))
  OBVIOUS
<1>5. Len(rest) = Len(s) - n
  BY <1>1, <1>2, <1>3, <1>4
<1>6. \A k \in 1 .. Len(s) - n : rest[k] = s[n + k]
  BY <1>1, <1>2, <1>3, <1>4
<1> QED
  BY <1>1, <1>3, <1>4, <1>5, <1>6

\* What Store writes: B, which has what is stored in front, the new ones behind
\* it, and what was there before, or nothing, behind these.
Writes(B, arr, r, refs) ==
    /\ \A a \in DOMAIN arrays' :
         IF a = arr THEN arrays'[a] = B ELSE a \in DOMAIN arrays /\ arrays'[a] = arrays[a]
    /\ \A a \in DOMAIN arrays : a \in DOMAIN arrays' /\ (a = arr => a = subs.arr)
    /\ \A k \in DOMAIN arrays[subs.arr] :
         arr = subs.arr \/ k <= subs.len => k \in DOMAIN B
    /\ \A k \in 1 .. subs.len : B[k] = arrays[subs.arr][k] /\ k \in DOMAIN arrays[subs.arr]
    /\ \A k \in DOMAIN B :
         \/ B[k] = Nil
         \/ k \in DOMAIN arrays[subs.arr] /\ B[k] = arrays[subs.arr][k]
         \/ \E j \in DOMAIN refs : k = subs.len + j /\ B[k] = Requested(r, refs[j])

\* append, cell by cell.
LEMMA StoredWhere ==
    ASSUME TypeInv, NEW c \in Clients, Store(c),
           client[c].request \in SubscriptionRequest, client[c].refs \in Seq(SubscriptionRefs),
           client[c].pass.header = subs, Readable(subs)
    PROVE  \E B \in Seq(Cells), arr \in Nat :
              Writes(B, arr, client[c].request, WithoutDuplicates(client[c].refs))
<1> DEFINE refs == WithoutDuplicates(client[c].refs)
           r == client[c].request
           new  == [k \in DOMAIN refs |-> Requested(r, refs[k])]
           all  == Stored \o new
           A == arrays[subs.arr]
<1>1. Readable(subs) /\ subs \in Header /\ Stored = Slice(subs) /\ TypeOK
  BY DEF TypeInv, TypeOK, Stored, Slice
<1>2. Stored \in Seq(SiriSubscription) /\ Len(Stored) = subs.len /\ subs.len <= Len(A)
      /\ \A k \in 1 .. subs.len : Stored[k] = A[k]
  BY <1>1, SliceProperties
<1>3. refs \in Seq(SubscriptionRefs)
  BY WithoutDuplicatesProperties
<1> HIDE DEF refs
<1>4. new \in Seq(SiriSubscription) /\ Len(new) = Len(refs) /\ DOMAIN new = DOMAIN refs
      /\ \A k \in DOMAIN refs : new[k] = Requested(r, refs[k])
  <2>1. \A k \in DOMAIN refs : refs[k] \in SubscriptionRefs
    BY <1>3
  <2>2. \A k \in DOMAIN refs : Requested(r, refs[k]) \in SiriSubscription
    BY <2>1 DEF Requested, SubscriptionRequest, SiriSubscription
  <2> HIDE DEF r
  <2> QED
    BY <1>3, <2>2
<1>5. /\ A \in Seq(Cells) /\ subs.arr \in DOMAIN arrays /\ Len(A) \in Nat /\ subs.len \in Nat
      /\ arrays \in Seq(Seq(Cells)) /\ DOMAIN A = 1 .. Len(A)
  BY <1>1 DEF TypeOK, Header, Cells
<1>6. \/ /\ Len(all) <= Len(A)
         /\ arrays' = [arrays EXCEPT ![subs.arr] = all \o SubSeq(A, Len(all) + 1, Len(A))]
      \/ /\ Len(all) > Len(A)
         /\ \E extra \in 0 .. Len(all) :
               arrays' = Append(arrays, all \o [k \in 1 .. extra |-> Nil])
  BY DEF Store, Stored, refs
<1> HIDE DEF new, A
<1>7. /\ all \in Seq(SiriSubscription) /\ Len(all) = subs.len + Len(new) /\ Len(all) \in Nat
      /\ Len(new) \in Nat
      /\ \A k \in 1 .. subs.len : all[k] = A[k]
      /\ \A j \in 1 .. Len(new) : all[subs.len + j] = new[j]
  <2>1. /\ all \in Seq(SiriSubscription) /\ Len(all) = Len(Stored) + Len(new)
        /\ Len(Stored) \in Nat /\ Len(new) \in Nat
        /\ \A k \in 1 .. Len(Stored) : all[k] = Stored[k]
        /\ \A j \in 1 .. Len(new) : all[Len(Stored) + j] = new[j]
    <3>1. PICK s \in Seq(SiriSubscription), t \in Seq(SiriSubscription) : s = Stored /\ t = new
      BY <1>2, <1>4
    <3>2. PICK u : u = s \o t
      OBVIOUS
    <3>3. /\ u \in Seq(SiriSubscription) /\ Len(u) = Len(s) + Len(t) /\ Len(s) \in Nat /\ Len(t) \in Nat
          /\ \A k \in 1 .. Len(s) : u[k] = s[k]
          /\ \A k \in 1 .. Len(t) : u[Len(s) + k] = t[k]
      BY <3>2, Concatenated
    <3> QED
      BY <3>1, <3>2, <3>3
  <2> HIDE DEF all
  <2>2. \A k \in 1 .. subs.len : k \in 1 .. Len(Stored) /\ Stored[k] = A[k]
    BY <1>2
  <2> QED
    BY <1>2, <2>1, <2>2
<1> HIDE DEF all
<1>8. ASSUME NEW k \in 1 .. Len(all)
      PROVE  \/ k \in DOMAIN A /\ all[k] = A[k]
             \/ \E j \in DOMAIN refs : k = subs.len + j /\ all[k] = Requested(r, refs[j])
  <2>1. CASE k <= subs.len
    <3>1. k \in 1 .. subs.len /\ k \in DOMAIN A
      BY <1>2, <1>5, <1>7, <2>1, SMTT(30)
    <3> QED
      BY <1>7, <3>1
  <2>2. CASE k > subs.len
    <3>1. k - subs.len \in 1 .. Len(new) /\ k = subs.len + (k - subs.len)
      BY <1>5, <1>7, <2>2, SMTT(30)
    <3>2. PICK j \in 1 .. Len(new) : k = subs.len + j
      BY <3>1
    <3>3. j \in DOMAIN refs
      BY <1>3, <1>4, <3>2
    <3>4. all[k] = Requested(r, refs[j])
      BY <1>4, <1>7, <3>2, <3>3
    <3> QED
      BY <3>2, <3>3, <3>4
  <2> QED
    BY <1>5, <1>7, <2>1, <2>2
<1>9. all \in Seq(Cells)
  BY <1>7 DEF Cells
<1>10. \A k \in 1 .. subs.len : k \in 1 .. Len(all) /\ k \in DOMAIN A
  BY <1>2, <1>5, <1>7
<1>11. CASE /\ Len(all) <= Len(A)
            /\ arrays' = [arrays EXCEPT ![subs.arr] = all \o SubSeq(A, Len(all) + 1, Len(A))]
  <2> DEFINE rest == SubSeq(A, Len(all) + 1, Len(A))
             B == all \o rest
  <2>1. Len(all) <= Len(A)
    BY ONLY <1>11
  <2>2. arrays' = [arrays EXCEPT ![subs.arr] = B]
    BY <1>11
  <2>3. rest \in Seq(Cells) /\ Len(rest) = Len(A) - Len(all)
        /\ \A k \in 1 .. Len(A) - Len(all) : rest[k] = A[Len(all) + k]
    BY <1>5, <1>7, <2>1, RestProperties
  <2> HIDE DEF rest
  <2>4. /\ B \in Seq(Cells) /\ Len(B) = Len(all) + Len(rest)
        /\ \A k \in 1 .. Len(all) : B[k] = all[k]
        /\ \A k \in 1 .. Len(rest) : B[Len(all) + k] = rest[k]
    BY <1>9, <2>3, Concatenated
  <2> HIDE DEF B
  <2>5. Len(B) = Len(A) /\ DOMAIN B = DOMAIN A
    <3>1. PICK m \in Nat, n \in Nat : m = Len(all) /\ n = Len(A)
      BY <1>5, <1>7
    <3>2. Len(rest) = n - m /\ Len(B) = m + Len(rest)
      BY <2>3, <2>4, <3>1
    <3>3. Len(B) = n
      BY <3>1, <3>2
    <3>4. DOMAIN B = 1 .. Len(B)
      BY <2>4
    <3> QED
      BY <1>5, <3>1, <3>3, <3>4
  <2>6. ASSUME NEW k \in DOMAIN B, k > Len(all) PROVE k \in DOMAIN A /\ B[k] = A[k]
    <3>1. k - Len(all) \in 1 .. Len(rest) /\ k = Len(all) + (k - Len(all))
      <4>1. PICK m \in Nat, n \in Nat : m = Len(all) /\ n = Len(A)
        BY <1>5, <1>7
      <4>2. k \in 1 .. n /\ k > m /\ Len(rest) = n - m
        BY <1>5, <2>3, <2>5, <2>6, <4>1
      <4>3. k - m \in 1 .. n - m /\ k = m + (k - m)
        BY <4>1, <4>2
      <4> QED
        BY <4>1, <4>2, <4>3
    <3>2. PICK j \in 1 .. Len(rest) : k = Len(all) + j
      BY <3>1
    <3> QED
      BY <2>3, <2>4, <2>5, <3>2
  <2>7. \A k \in DOMAIN B : k <= Len(all) => k \in 1 .. Len(all)
    BY <1>5, <1>7, <2>5
  <2>8. DOMAIN arrays' = DOMAIN arrays /\ arrays'[subs.arr] = B
        /\ \A a \in DOMAIN arrays : a # subs.arr => arrays'[a] = arrays[a]
    BY <1>5, <2>2
  <2>9. Writes(B, subs.arr, r, refs)
    <3>1. \A k \in DOMAIN B : k > Len(all) \/ k <= Len(all)
      BY <1>5, <1>7, <2>5
    <3>2. \A k \in DOMAIN B :
            \/ B[k] = Nil
            \/ k \in DOMAIN A /\ B[k] = A[k]
            \/ \E j \in DOMAIN refs : k = subs.len + j /\ B[k] = Requested(r, refs[j])
      <4> TAKE k \in DOMAIN B
      <4>1. CASE k > Len(all)
        BY <2>6, <4>1
      <4>2. CASE k <= Len(all)
        <5>1. k \in 1 .. Len(all) /\ B[k] = all[k]
          BY <2>4, <2>7, <4>2
        <5> QED
          BY <1>8, <5>1
      <4> QED
        BY <3>1, <4>1, <4>2
    <3>3. \A k \in 1 .. subs.len : B[k] = A[k] /\ k \in DOMAIN A
      BY <1>7, <1>10, <2>4
    <3> QED
      BY <2>5, <2>8, <3>2, <3>3 DEF Writes, A
  <2>10. subs.arr \in Nat
    BY <1>5
  <2> QED
    BY <2>4, <2>9, <2>10 DEF r, refs
<1>12. CASE /\ Len(all) > Len(A)
            /\ \E extra \in 0 .. Len(all) :
                  arrays' = Append(arrays, all \o [k \in 1 .. extra |-> Nil])
  <2>1. PICK extra \in 0 .. Len(all) : arrays' = Append(arrays, all \o [k \in 1 .. extra |-> Nil])
    BY <1>12
  <2> DEFINE none == [k \in 1 .. extra |-> Nil]
             B == all \o none
  <2>2. extra \in Nat
    BY <1>7, <2>1
  <2>3. none \in Seq(Cells) /\ Len(none) = extra /\ \A k \in 1 .. extra : none[k] = Nil
    BY <2>2 DEF Cells
  <2>4. arrays' = Append(arrays, B)
    BY <2>1
  <2> HIDE DEF none
  <2>5. /\ B \in Seq(Cells) /\ Len(B) = Len(all) + extra
        /\ \A k \in 1 .. Len(all) : B[k] = all[k]
        /\ \A k \in 1 .. extra : B[Len(all) + k] = Nil
    <3>1. /\ B \in Seq(Cells) /\ Len(B) = Len(all) + Len(none)
          /\ \A k \in 1 .. Len(all) : B[k] = all[k]
          /\ \A k \in 1 .. Len(none) : B[Len(all) + k] = none[k]
      <4>1. PICK s \in Seq(Cells), t \in Seq(Cells) : s = all /\ t = none
        BY <1>9, <2>3
      <4>2. /\ s \o t \in Seq(Cells) /\ Len(s \o t) = Len(s) + Len(t)
            /\ \A k \in 1 .. Len(s) : (s \o t)[k] = s[k]
            /\ \A k \in 1 .. Len(t) : (s \o t)[Len(s) + k] = t[k]
        BY Concatenated
      <4> QED
        BY <4>1, <4>2
    <3> QED
      BY <2>3, <3>1
  <2> HIDE DEF B
  <2>6. DOMAIN B = 1 .. Len(all) + extra
    BY <2>5
  <2>7. ASSUME NEW k \in DOMAIN B, k > Len(all) PROVE B[k] = Nil
    <3>1. k - Len(all) \in 1 .. extra /\ k = Len(all) + (k - Len(all))
      BY <1>7, <2>2, <2>6, <2>7
    <3>2. PICK j \in 1 .. extra : k = Len(all) + j
      BY <3>1
    <3> QED
      BY <2>5, <3>2
  <2>8. PICK n \in Nat : n = Len(arrays) /\ DOMAIN arrays = 1 .. n
    BY <1>5
  <2>9. DOMAIN arrays' = 1 .. n + 1 /\ arrays'[n + 1] = B
        /\ \A a \in 1 .. n : arrays'[a] = arrays[a]
    BY <1>5, <2>4, <2>5, <2>8, AppendProperties
  <2>10. Writes(B, n + 1, r, refs)
    <3>1. \A k \in DOMAIN B : k > Len(all) \/ k \in 1 .. Len(all)
      BY <1>7, <2>2, <2>6
    <3>2. \A k \in DOMAIN B :
            \/ B[k] = Nil
            \/ k \in DOMAIN A /\ B[k] = A[k]
            \/ \E j \in DOMAIN refs : k = subs.len + j /\ B[k] = Requested(r, refs[j])
      <4> TAKE k \in DOMAIN B
      <4>1. CASE k > Len(all)
        BY <2>7, <4>1
      <4>2. CASE k \in 1 .. Len(all)
        BY <1>8, <2>5, <4>2
      <4> QED
        BY <3>1, <4>1, <4>2
    <3>3. \A k \in 1 .. subs.len : B[k] = A[k] /\ k \in DOMAIN A
      BY <1>7, <1>10, <2>5
    <3>4. \A k \in DOMAIN A : n + 1 = subs.arr \/ k <= subs.len => k \in DOMAIN B
      <4>1. n + 1 # subs.arr
        BY <1>5, <2>8
      <4>2. \A k \in DOMAIN A : k <= subs.len => k \in 1 .. Len(all)
        BY <1>5, <1>7, SMTT(30)
      <4>3. \A k \in 1 .. Len(all) : k \in DOMAIN B
        BY <1>7, <2>2, <2>6
      <4> QED
        BY <4>1, <4>2, <4>3
    <3>5. \A a \in DOMAIN arrays' :
             IF a = n + 1 THEN arrays'[a] = B ELSE a \in DOMAIN arrays /\ arrays'[a] = arrays[a]
      BY <2>8, <2>9
    <3>6. \A a \in DOMAIN arrays : a \in DOMAIN arrays' /\ (a = n + 1 => a = subs.arr)
      BY <2>8, <2>9
    <3> QED
      BY <3>2, <3>3, <3>4, <3>5, <3>6 DEF Writes, A
  <2>11. n + 1 \in Nat
    OBVIOUS
  <2> QED
    BY <2>5, <2>10, <2>11 DEF r, refs
<1> QED
  BY <1>6, <1>11, <1>12

\* What occurred stays where it was, and so does whatever the header covers, and
\* every cell of the arrays that the header is not about.
Preserved ==
    /\ \A s \in Occurring : Places(s)' \subseteq Places(s)
    /\ \A a \in DOMAIN arrays : \A k \in DOMAIN arrays[a] :
         (a # subs.arr \/ k <= subs.len) => k \in DOMAIN arrays'[a] /\ arrays'[a][k] = arrays[a][k]

\* A client that asks, and what is in its hands.
LEMMA AskingFacts ==
    ASSUME TypeInv, NewInv, NEW c \in Clients, Asks(client[c])
    PROVE  LET w == client[c]
           IN  /\ w.request \in SubscriptionRequest /\ w.request \in Coming \ pending
               /\ NotYet(w.request)
               /\ w.pc # "target" => /\ w.refs \in Seq(SubscriptionRefs)
                                     /\ Range(w.refs) \subseteq w.request.refs
<1>1. client[c] \in ClientState
  BY DEF TypeInv, TypeOK
<1>2. client[c].pc # "target" => client[c].refs \in Seq(SubscriptionRefs)
  BY <1>1, StateOf DEF Asks
<1> QED
  BY <1>2 DEF NewInv, Asking, Coming

\* Store adds what was asked for, at one position each, and moves nothing.
LEMMA StoredNew ==
    ASSUME TypeInv, NewInv, NEW c \in Clients, Store(c), SliceType',
           client[c].pass.header = subs, Readable(subs)
    PROVE  /\ Preserved
           /\ \A s \in Occurring' : /\ s \in Occurring \/ Names(client[c].request, s)
                                    /\ \A j, k \in Places(s)' : j = k
<1> DEFINE w == client[c]
           A == arrays[subs.arr]
           Fresh(s, k, refs) == \E j \in DOMAIN refs : k = subs.len + j /\ s = Requested(w.request, refs[j])
<1>1. /\ w.request \in SubscriptionRequest /\ NotYet(w.request) /\ w.refs \in Seq(SubscriptionRefs)
      /\ Range(w.refs) \subseteq w.request.refs
  BY AskingFacts DEF Store, Asks
<1>2. PICK refs : refs = WithoutDuplicates(w.refs)
  OBVIOUS
<1>3. /\ refs \in Seq(SubscriptionRefs) /\ \A j \in DOMAIN refs : refs[j] \in w.request.refs
      /\ \A j, k \in DOMAIN refs : refs[j] = refs[k] => j = k
  <2>1. refs \in Seq(SubscriptionRefs) /\ Range(refs) = Range(w.refs)
        /\ \A j, k \in DOMAIN refs : refs[j] = refs[k] => j = k
    BY <1>1, <1>2, WithoutDuplicatesProperties
  <2> QED
    BY <1>1, <2>1 DEF Range
<1>4. PICK B \in Seq(Cells), arr \in Nat : Writes(B, arr, w.request, refs)
  BY <1>1, <1>2, StoredWhere
<1>5. PlacesAre /\ PlacesAre' /\ SliceType
  BY PlaceOf, PlaceOfNext, Types DEF TypeInv
<1>6. subs.arr \in DOMAIN arrays /\ subs.len \in Nat
  BY <1>5 DEF SliceType, Header
<1>7. ASSUME NEW s \in Occurring', NEW k \in Places(s)'
      PROVE  k \in Places(s) \/ Fresh(s, k, refs)
  <2>1. s # Nil
    BY <1>5 DEF PlacesAre
  <2>2. PICK a \in DOMAIN arrays' : k \in DOMAIN arrays'[a] /\ arrays'[a][k] = s
    BY <1>5, <1>7 DEF PlacesAre
  <2>3. CASE a # arr
    <3>1. a \in DOMAIN arrays /\ arrays'[a] = arrays[a]
      BY <1>4, <2>3 DEF Writes
    <3> QED
      BY <1>5, <2>2, <3>1 DEF PlacesAre
  <2>4. CASE a = arr
    <3>1. k \in DOMAIN B /\ B[k] = s
      BY <1>4, <2>2, <2>4 DEF Writes
    <3>2. \/ k \in DOMAIN A /\ A[k] = s
          \/ Fresh(s, k, refs)
      BY <1>4, <2>1, <3>1 DEF Writes
    <3> HIDE DEF Fresh
    <3> QED
      BY <1>5, <1>6, <3>2 DEF PlacesAre
  <2> QED
    BY <2>3, <2>4
<1>8. ASSUME NEW s, NEW k, Fresh(s, k, refs) PROVE Names(w.request, s)
  BY <1>3, <1>8 DEF Names, Requested
<1>9. ASSUME NEW s \in Occurring PROVE Places(s)' \subseteq Places(s)
  <2>1. ~ Names(w.request, s)
    BY <1>1 DEF NotYet
  <2>2. Places(s)' # {} => s \in Occurring'
    BY <1>5 DEF PlacesAre
  <2> HIDE DEF Fresh
  <2> QED
    BY <1>7, <1>8, <2>1, <2>2
<1>10. ASSUME NEW s \in Occurring' PROVE s \in Occurring \/ Names(w.request, s)
  <2>1. PICK k : k \in Places(s)'
    BY <1>5 DEF PlacesAre
  <2>2. s # Nil
    BY <1>5 DEF PlacesAre
  <2> HIDE DEF Fresh
  <2>3. k \in Places(s) \/ Names(w.request, s)
    BY <1>7, <1>8, <2>1
  <2> QED
    BY <1>5, <2>2, <2>3 DEF PlacesAre
<1>11. ASSUME NEW s \in Occurring', NEW j \in Places(s)', NEW k \in Places(s)' PROVE j = k
  <2>1. CASE s \in Occurring
    BY <1>9, <2>1 DEF NewInv
  <2>2. CASE s \notin Occurring
    <3>1. j \notin Places(s) /\ k \notin Places(s)
      <4>1. s # Nil
        BY <1>5 DEF PlacesAre
      <4> QED
        BY <1>5, <2>2, <4>1 DEF PlacesAre
    <3>2. PICK x \in DOMAIN refs : j = subs.len + x /\ s = Requested(w.request, refs[x])
      BY <1>7, <3>1
    <3>3. PICK y \in DOMAIN refs : k = subs.len + y /\ s = Requested(w.request, refs[y])
      BY <1>7, <3>1
    <3>4. refs[x] = refs[y]
      BY <3>2, <3>3 DEF Requested
    <3> QED
      BY <1>3, <3>2, <3>3, <3>4
  <2> QED
    BY <2>1, <2>2
<1>12. ASSUME NEW a \in DOMAIN arrays, NEW k \in DOMAIN arrays[a], a # subs.arr \/ k <= subs.len
       PROVE  k \in DOMAIN arrays'[a] /\ arrays'[a][k] = arrays[a][k]
  <2>1. CASE a # arr
    BY <1>4, <1>12, <2>1 DEF Writes
  <2>2. CASE a = arr
    <3>1. a = subs.arr /\ a \in DOMAIN arrays' /\ arrays'[a] = B
      BY <1>4, <2>2 DEF Writes
    <3>2. k \in 1 .. subs.len
      <4>1. DOMAIN arrays[a] \subseteq Nat \ {0}
        BY <1>5 DEF SliceType
      <4> QED
        BY <1>6, <1>12, <3>1, <4>1
    <3>3. k \in DOMAIN B /\ B[k] = A[k]
      BY <1>4, <1>12, <2>2, <3>1, <3>2 DEF Writes
    <3> QED
      BY <3>1, <3>3
  <2> QED
    BY <2>1, <2>2
<1> QED
  BY <1>9, <1>10, <1>11, <1>12 DEF Preserved

\* Nothing is stored, and nobody gets anything in hand.
LEMMA NewUntouched ==
    ASSUME NewInv, UNCHANGED <<arrays, client, scenario>>, pending' \subseteq pending
    PROVE  NewInv' /\ Preserved
<1>1. Occurring' = Occurring /\ \A s : Places(s)' = Places(s)
  BY DEF Occurring, Places
<1>2. \A r : NotYet(r)' <=> NotYet(r)
  BY <1>1 DEF NotYet
<1>3. \A v : Asking(v) => Asking(v)'
  BY <1>2 DEF Asking, Coming
<1>4. Preserved
  BY <1>1 DEF Preserved
<1> QED
  BY <1>1, <1>2, <1>3, <1>4 DEF NewInv, InPlace, Removing

\* A client goes on, and nothing is stored.
LEMMA NewMoved ==
    ASSUME TypeInv, NewInv, NEW c \in Clients, NEW v, Goto(c, v), UNCHANGED <<arrays, scenario>>,
           pending' \subseteq pending, v.pc \notin Ending, InPlace(v),
           Asks(v) => /\ v.request \in Coming \ pending' /\ NotYet(v.request)
                      /\ v.pc # "target" => Range(v.refs) \subseteq v.request.refs
                      /\ \A d \in Clients : d # c /\ Asks(client[d]) => client[d].request # v.request
    PROVE  NewInv' /\ Preserved
<1>1. client' = [client EXCEPT ![c] = v] /\ client \in [Clients -> ClientState]
  BY DEF Goto, TypeInv, TypeOK
<1>2. client'[c] = v /\ \A d \in Clients : d # c => client'[d] = client[d]
  BY <1>1
<1>3. Occurring' = Occurring /\ \A s : Places(s)' = Places(s)
  BY DEF Occurring, Places
<1>4. \A r : NotYet(r)' <=> NotYet(r)
  BY <1>3 DEF NotYet
<1>5. \A u : Asking(u) => Asking(u)'
  BY <1>4 DEF Asking, Coming
<1>6. Asking(v)'
  BY <1>4 DEF Asking, Coming
<1>7. \A d \in Clients : Asking(client[d])' /\ InPlace(client'[d]) /\ client'[d].pc \notin Ending
  <2> TAKE d \in Clients
  <2>1. (Asking(v) /\ client[d] = v => Asking(client[d]))'
    BY DEF Asking
  <2>2. CASE d = c
    BY <1>2, <1>6, <2>1, <2>2
  <2>3. CASE d # c
    <3>1. \A u : Asking(u)' /\ client'[d] = u => Asking(client[d])'
      BY DEF Asking
    <3>2. Asking(client[d]) /\ InPlace(client[d]) /\ client[d].pc \notin Ending
      BY DEF NewInv
    <3> QED
      BY <1>2, <1>5, <2>3, <3>1, <3>2
  <2> QED
    BY <2>2, <2>3
<1>8. \A d, e \in Clients :
        (Asks(client'[d]) /\ Asks(client'[e]) /\ client'[d].request = client'[e].request) => d = e
  BY <1>2 DEF NewInv
<1>9. \A r \in pending' : r.kind = "subscribe" => NotYet(r)'
  BY <1>4 DEF NewInv
<1>10. \A s \in Occurring' : \A j, k \in Places(s)' : j = k
  BY <1>3 DEF NewInv
<1>11. Preserved
  BY <1>3 DEF Preserved
<1>12. NewInv'
  BY <1>7, <1>8, <1>9, <1>10 DEF NewInv, Asks, InPlace, Removing
<1> QED
  BY <1>11, <1>12

\* The steps of the clients keep NewInv: requests are handled once, and what a
\* client stores is asked for by its own request only.
LEMMA NewStep ==
    ASSUME TypeInv, OneByOne, SliceInv, NewInv, OnlyNew(scenario), NEW c \in scenario.clients,
           Client(c), UNCHANGED scenario, SliceType'
    PROVE  NewInv' /\ Preserved /\ UNCHANGED feed
<1> DEFINE w == client[c]
<1>1. /\ c \in Clients /\ w \in ClientState /\ pending \subseteq scenario.coming
      /\ scenario.coming \subseteq SubscriptionRequest \cup Termination \cup TerminationOfAll
                                                      \cup Publication
  BY SiriProxyAssumption DEF TypeInv, TypeOK
<1>2. w.pc \notin Ending /\ SliceOf(w)
  BY <1>1 DEF NewInv, SliceInv
<1>3. UNCHANGED feed
  BY DEF Client, ReceiveSubscription, TargetFails, TargetConfirms, Load, DropCell, KeepCell, RemoveUpdated, Store, WriteHeader,
         Measure, StopHeartbeat, CreateHeartbeat, RegisterHeartbeat, ReceiveTermination, RemoveAll,
         RemoveNext, SweepBegins, SweepAddress, SweepDelete, SweepEnds, ClientMisreads, MapRace
<1>4. ASSUME NEW v, Goto(c, v), UNCHANGED arrays, pending' \subseteq pending,
             v.pc \notin Ending, ~ Asks(v)
      PROVE  NewInv' /\ Preserved
  <2>1. InPlace(v)
    BY <1>4 DEF InPlace, Removing, Asks, Ending
  <2> QED
    BY <1>1, <1>4, <2>1, NewMoved
<1>5. \A v : v.pc \in {"idle", "header", "measure", "stop", "create", "register"}
               => v.pc \notin Ending /\ ~ Asks(v)
  BY DEF Ending, Asks
<1>6. CASE ReceiveSubscription(c)
  <2>1. PICK r \in pending : /\ r.kind = "subscribe" /\ Goto(c, [pc |-> "target", request |-> r])
                             /\ pending' = pending \ {r}
    BY <1>6 DEF ReceiveSubscription
  <2>2. PICK v : v = [pc |-> "target", request |-> r]
    OBVIOUS
  <2>3. v.pc = "target" /\ v.request = r /\ Goto(c, v) /\ v.pc \notin Ending
    BY <2>1, <2>2 DEF Ending
  <2>4. r \in Coming \ pending'
    BY <1>1, <2>1 DEF Coming, Termination, TerminationOfAll, Publication
  <2>5. NotYet(r)
    BY <2>1 DEF NewInv
  <2>6. \A d \in Clients : d # c /\ Asks(client[d]) => client[d].request # r
    BY <2>1 DEF NewInv, Asking
  <2>7. UNCHANGED arrays /\ pending' \subseteq pending
    BY <1>6, <2>1 DEF ReceiveSubscription
  <2> QED
    BY <1>1, <1>3, <2>3, <2>4, <2>5, <2>6, <2>7, NewMoved DEF InPlace, Removing
<1>7. CASE TargetFails(c) \/ RegisterHeartbeat(c)
  <2>1. PICK v : Goto(c, v) /\ v.pc = "idle"
    BY <1>7, Moves
  <2>2. UNCHANGED arrays /\ pending' \subseteq pending
    BY <1>7 DEF TargetFails, RegisterHeartbeat
  <2> QED
    BY <1>3, <1>4, <1>5, <2>1, <2>2
<1>8. ASSUME w.pc \in {"target", "remove", "store"}, NEW v, Goto(c, v), v.pc \in {"remove", "store"},
             v.request = w.request, Range(v.refs) \subseteq w.request.refs, InPlace(v),
             UNCHANGED <<arrays, pending>>
      PROVE  NewInv' /\ Preserved
  <2>1. Asks(w) /\ v.pc \notin Ending
    BY <1>8 DEF Asks, Ending
  <2>2. v.request \in Coming \ pending' /\ NotYet(v.request)
    BY <1>1, <1>8, <2>1, AskingFacts
  <2>3. \A d \in Clients : d # c /\ Asks(client[d]) => client[d].request # v.request
    BY <1>1, <1>8, <2>1 DEF NewInv
  <2> QED
    BY <1>1, <1>8, <2>1, <2>2, <2>3, NewMoved
<1>9. CASE TargetConfirms(c)
  <2>1. PICK n \in 0 .. scenario.statuses : \E refs \in [1 .. n -> w.request.refs] :
          Goto(c, [pc |-> "remove", request |-> w.request, refs |-> refs, pass |-> NewPass])
    BY <1>9 DEF TargetConfirms
  <2>2. PICK refs \in [1 .. n -> w.request.refs] :
          Goto(c, [pc |-> "remove", request |-> w.request, refs |-> refs, pass |-> NewPass])
    BY <2>1
  <2>3. Range(refs) \subseteq w.request.refs
    BY DEF Range
  <2>4. PICK v : v = [pc |-> "remove", request |-> w.request, refs |-> refs, pass |-> NewPass]
    OBVIOUS
  <2>5. v.pc = "remove" /\ v.request = w.request /\ v.refs = refs /\ Goto(c, v) /\ InPlace(v)
    BY <2>2, <2>4 DEF InPlace, NewPass
  <2>6. w.pc = "target" /\ UNCHANGED <<arrays, pending>>
    BY <1>9 DEF TargetConfirms
  <2> QED
    BY <1>3, <1>8, <2>3, <2>5, <2>6
<1>10. ASSUME w.pc \in {"remove", "store"}
       PROVE  NotYet(w.request) /\ Range(w.refs) \subseteq w.request.refs /\ InPlace(w)
  <2>1. Asks(w) /\ w.pc # "target"
    BY <1>10 DEF Asks
  <2> QED
    BY <1>1, <2>1, AskingFacts DEF NewInv
<1>18. CASE RemoveUpdated(c)
  <2>1. w.pc = "remove" /\ UNCHANGED <<arrays, pending>>
    BY <1>18 DEF RemoveUpdated, Cut
  <2>2. PICK v : Goto(c, v) /\ v.pc = "store" /\ v.request = w.request /\ v.refs = w.refs
    BY <1>18, Moves
  <2>3. InPlace(v)
    BY <2>2 DEF InPlace, Removing
  <2> QED
    BY <1>3, <1>8, <1>10, <2>1, <2>2, <2>3
<1>19. ASSUME NEW p, Goto(c, [w EXCEPT !.pass = p]), UNCHANGED <<arrays, pending>>,
              w.pc \in {"remove", "store"}, w.pc = "remove" => p.kept = p.n - 1
       PROVE  NewInv' /\ Preserved
  <2>1. PICK v : v = [w EXCEPT !.pass = p] /\ Goto(c, v)
    BY <1>19
  <2>2. Removing(w) \/ w.pc = "store"
    BY <1>19 DEF Removing
  <2>3. v.pc = w.pc /\ v.pass = p /\ v.request = w.request /\ v.refs = w.refs
    BY <1>1, <1>19, <2>1, <2>2, PassFields
  <2>4. InPlace(v)
    BY <1>19, <2>3 DEF InPlace, Removing
  <2> QED
    BY <1>8, <1>10, <1>19, <2>1, <2>3, <2>4
<1>20. ASSUME Removing(w) \/ w.pc = "store"
       PROVE  /\ w.pc \in {"remove", "store"} /\ w.pass \in Pass
              /\ w.pass.n \in Nat /\ w.pass.kept \in Nat
              /\ w.pc = "remove" => w.pass.kept = w.pass.n - 1
  <2>1. w.pc \in {"remove", "store"}
    BY <1>2, <1>20 DEF Removing, Ending
  <2>2. w.pass \in Pass /\ w.pass.n \in Nat /\ w.pass.kept \in Nat
    BY <1>2, <1>20, Copied
  <2> QED
    BY <1>10, <2>1, <2>2 DEF InPlace, Removing
<1>21. CASE Load(c)
  <2>1. Removing(w) \/ w.pc = "store"
    BY <1>21 DEF Load
  <2>2. PICK part \in w.pass.unread :
          Goto(c, [w EXCEPT !.pass.header[part] = subs[part], !.pass.unread = @ \ {part}])
    BY <1>21 DEF Load
  <2>3. PICK p : p = [w.pass EXCEPT !.header[part] = subs[part], !.unread = @ \ {part}]
    OBVIOUS
  <2>4. p.n = w.pass.n /\ p.kept = w.pass.kept
    BY <1>20, <2>1, <2>3 DEF Pass
  <2>5. Goto(c, [w EXCEPT !.pass = p]) /\ UNCHANGED <<arrays, pending>>
    BY <1>21, <2>2, <2>3 DEF Load
  <2> QED
    BY <1>3, <1>19, <1>20, <2>1, <2>4, <2>5
<1>22. ASSUME Looping(w)
       PROVE  /\ w.pc = "remove" /\ w.pass.n \in 1 .. subs.len
              /\ Visited(w) = arrays[subs.arr][w.pass.n] /\ Visited(w) # Nil
              /\ w.pass.n \in DOMAIN arrays[subs.arr] /\ subs.arr \in DOMAIN arrays
              /\ arrays[subs.arr] \in Seq(Cells) /\ arrays \in Seq(Seq(Cells))
  <2>1. /\ w.pass.n \in 1 .. subs.len /\ Visited(w) = arrays[subs.arr][w.pass.n] /\ Visited(w) # Nil
        /\ subs.len <= Len(arrays[subs.arr]) /\ Len(arrays[subs.arr]) \in Nat
    BY <1>2, <1>22, AtCell DEF Cell
  <2>2. subs.arr \in DOMAIN arrays /\ arrays[subs.arr] \in Seq(Cells) /\ subs.len \in Nat
        /\ arrays \in Seq(Seq(Cells))
    BY SliceFacts
  <2>3. w.pc = "remove"
    BY <1>20, <1>22 DEF Looping, Removing
  <2> QED
    BY <2>1, <2>2, <2>3
<1>23. CASE DropCell(c)
  <2>1. Looping(w) /\ Goes(w, Visited(w))
    BY <1>23 DEF DropCell
  <2>2. Visited(w) \in Occurring
    BY <1>22, <2>1 DEF Occurring, Range
  <2>3. Names(w.request, Visited(w))
    BY <1>10, <1>22, <2>1 DEF Goes, Names
  <2> QED
    BY <1>10, <1>22, <2>1, <2>2, <2>3 DEF NotYet
<1>24. CASE KeepCell(c)
  <2>1. Looping(w) /\ UNCHANGED pending
    BY <1>24 DEF KeepCell
  <2>2. w.pass.kept = w.pass.n - 1 /\ w.pass.n \in Nat /\ w.pass.kept \in Nat /\ w.pass \in Pass
    BY <1>20, <1>22, <2>1 DEF Looping
  <2>3. PICK p : p = [w.pass EXCEPT !.n = @ + 1, !.kept = @ + 1]
    OBVIOUS
  <2>4. p.kept = p.n - 1
    BY <2>2, <2>3 DEF Pass
  <2>5. Goto(c, [w EXCEPT !.pass = p])
    BY <1>24, <2>3 DEF KeepCell
  <2>6. UNCHANGED arrays
    <3>1. w.pass.kept + 1 = w.pass.n
      BY <2>2
    <3>2. arrays' = [arrays EXCEPT ![subs.arr][w.pass.n] = arrays[subs.arr][w.pass.n]]
      BY <1>22, <1>24, <2>1, <3>1 DEF KeepCell
    <3> QED
      BY <1>22, <2>1, <3>2
  <2> QED
    BY <1>3, <1>19, <1>22, <2>1, <2>4, <2>5, <2>6
<1>11. CASE Store(c)
  <2>1. PICK v : Goto(c, v) /\ v.pc = "header" /\ v.request = w.request
    BY <1>11, Moves
  <2>2. Asks(w) /\ UNCHANGED pending /\ ~ Asks(v) /\ v.pc \notin Ending
    BY <1>11, <2>1 DEF Store, Asks, Ending
  <2>3. /\ Preserved
        /\ \A s \in Occurring' : /\ s \in Occurring \/ Names(w.request, s)
                                 /\ \A j, k \in Places(s)' : j = k
    <3>1. w.pc = "store" /\ w.pass.unread = {}
      BY <1>11 DEF Store
    <3>2. w.pass.header = subs /\ Readable(subs)
      BY <1>2, <3>1, Copied
    <3> QED
      BY <1>1, <1>11, <3>2, StoredNew
  <2>4. w.request \in Coming \ pending
    BY <1>1, <2>2, AskingFacts
  <2>5. ASSUME NEW r \in Coming, r # w.request, NotYet(r) PROVE NotYet(r)'
    <3>1. ASSUME NEW s \in Occurring' PROVE ~ Names(r, s)
      <4>1. CASE s \in Occurring
        BY <2>5, <4>1 DEF NotYet
      <4>2. CASE Names(w.request, s)
        <5>1. ~ (r.requestor = w.request.requestor /\ r.refs \cap w.request.refs # {})
          BY <2>4, <2>5 DEF OnlyNew, Coming
        <5> QED
          BY <4>2, <5>1 DEF Names
      <4> QED
        BY <2>3, <4>1, <4>2
    <3> QED
      BY <3>1 DEF NotYet
  <2>6. client' = [client EXCEPT ![c] = v] /\ client \in [Clients -> ClientState]
    BY <2>1 DEF Goto, TypeInv, TypeOK
  <2>7. client'[c] = v /\ \A d \in Clients : d # c => client'[d] = client[d]
    BY <1>1, <2>6
  <2>8. ASSUME NEW d \in Clients
        PROVE  Asking(client[d])' /\ InPlace(client'[d]) /\ client'[d].pc \notin Ending
    <3>1. CASE d = c
      BY <2>1, <2>2, <2>7, <3>1 DEF Asking, Asks, InPlace, Removing
    <3>2. CASE d # c
      <4>1. client'[d] = client[d] /\ InPlace(client[d]) /\ client[d].pc \notin Ending
        BY <2>7, <3>2 DEF NewInv
      <4>2. PICK u : u = client[d]
        OBVIOUS
      <4>3. Asks(u) => /\ u.request \in Coming \ pending /\ NotYet(u.request)
                       /\ u.pc # "target" => Range(u.refs) \subseteq u.request.refs
                       /\ u.request # w.request
        BY <1>1, <2>2, <3>2, <4>2 DEF NewInv, Asking
      <4>4. Asks(u) => u.request \in (Coming \ pending)' /\ NotYet(u.request)'
        BY <2>2, <2>5, <4>3 DEF Coming
      <4>5. Asking(u)'
        BY <4>3, <4>4 DEF Asking
      <4>6. Asking(u)' /\ client'[d] = u => Asking(client[d])'
        BY DEF Asking
      <4> QED
        BY <4>1, <4>2, <4>5, <4>6
    <3> QED
      BY <3>1, <3>2
  <2>9. ASSUME NEW r \in pending', r.kind = "subscribe" PROVE NotYet(r)'
    <3>1. r \in Coming /\ r # w.request /\ NotYet(r)
      BY <1>1, <2>2, <2>4, <2>9 DEF NewInv, Coming, Termination, TerminationOfAll, Publication
    <3> QED
      BY <2>5, <3>1
  <2>10. \A d, e \in Clients :
        (Asks(client'[d]) /\ Asks(client'[e]) /\ client'[d].request = client'[e].request) => d = e
    BY <2>2, <2>7 DEF NewInv
  <2>11. NewInv'
    BY <2>3, <2>8, <2>9, <2>10 DEF NewInv, Asks, InPlace, Removing
  <2> QED
    BY <1>3, <2>3, <2>11
<1>12. CASE WriteHeader(c)
  <2>1. PICK v : Goto(c, v) /\ v.pc \in {"header", "measure"}
    BY <1>12, Moves
  <2>2. UNCHANGED <<arrays, pending>>
    BY <1>12 DEF WriteHeader
  <2> QED
    BY <1>3, <1>4, <1>5, <2>1, <2>2
<1>13. CASE Measure(c) \/ CreateHeartbeat(c)
  <2>1. PICK v : Goto(c, v) /\ v.pc \in {"stop", "register"}
    BY <1>13 DEF Measure, CreateHeartbeat
  <2>2. UNCHANGED <<arrays, pending>>
    BY <1>13 DEF Measure, CreateHeartbeat
  <2> QED
    BY <1>3, <1>4, <1>5, <2>1, <2>2
<1>14. CASE StopHeartbeat(c)
  <2>1. PICK v : Goto(c, v) /\ v.pc = "create"
    BY <1>14, Moves
  <2>2. UNCHANGED <<arrays, pending>>
    BY <1>14 DEF StopHeartbeat
  <2> QED
    BY <1>3, <1>4, <1>5, <2>1, <2>2
<1>15. CASE ReceiveTermination(c)
  <2>1. \E r \in pending : r.kind \in {"terminateAll", "terminate"}
    BY <1>15 DEF ReceiveTermination
  <2> QED
    BY <1>1, <2>1 DEF OnlyNew
<1>16. CASE \/ RemoveAll(c) \/ RemoveNext(c) \/ SweepBegins(c) \/ SweepAddress(c) \/ SweepDelete(c)
            \/ SweepEnds(c) \/ MapRace(c)
  BY <1>2, <1>16 DEF Ending, RemoveAll, RemoveNext, SweepBegins, SweepAddress, SweepDelete, SweepEnds,
                     MapRace
<1>17. ~ ClientMisreads(c)
  BY <1>2, NoMisreads
<1> QED
  BY <1>6, <1>7, <1>9, <1>11, <1>12, <1>13, <1>14, <1>15, <1>16, <1>17, <1>18, <1>21, <1>23, <1>24
  DEF Client

\* The positions that the loop of a feed has dealt with.
Behind(w) == IF w.pc = "post" THEN w.n ELSE w.n - 1

\* How often s was sent.
Once(sent, s)  == \E k \in DOMAIN sent : \A j \in DOMAIN sent : sent[j] = s <=> j = k
Never(sent, s) == \A j \in DOMAIN sent : sent[j] # s

\* The loop comes to s, which is at position k, or has been there.
Reaches(w, s, k) ==
    /\ "len" \notin w.unread => k <= w.header.len
    /\ "arr" \notin w.unread => k \in DOMAIN arrays[w.header.arr] /\ arrays[w.header.arr][k] = s
    /\ IsFor(s, Head(w.keys)) => IF k <= Behind(w) THEN Once(w.sent, s) ELSE Never(w.sent, s)

\* The loop begins when the header has been copied.
Ranges(w) ==
    /\ w.pc \in {"visit", "post"} => w.unread = {}
    /\ w.pc = "range" => w.n = 1 /\ w.sent = << >>

\* What was stored all the while is stored now, and the loop comes to it.
Covers(f) ==
    /\ stable[f] \subseteq Listed
    /\ Ranges(feed[f])
    /\ feed[f].pc # "idle" =>
         \A s \in stable[f] : \A k \in Places(s) : Reaches(feed[f], s, k)

\* The inductive invariant of the feeds.
FeedInv == \A f \in Feeds : Covers(f)

\* The loop has not begun: nothing has been read or sent yet.
LEMMA FreshRange ==
    ASSUME SliceType', Watch, NEW f \in Feeds, feed'[f].pc = "range", feed'[f].unread = Parts,
           feed'[f].n = 1, feed'[f].sent = << >>
    PROVE  Covers(f)'
<1>1. stable'[f] = Listed'
  BY DEF Watch
<1>2. Ranges(feed[f])'
  BY DEF Ranges
<1>3. ASSUME NEW s, NEW k \in Places(s)' PROVE Reaches(feed[f], s, k)'
  <2>1. k \in Nat \ {0}
    BY PlaceOfNext DEF PlacesAre
  <2>2. ~ (k <= 1 - 1)
    BY <2>1
  <2>3. Never(feed'[f].sent, s)
    BY DEF Never
  <2>4. "len" \in feed'[f].unread /\ "arr" \in feed'[f].unread
    BY DEF Parts
  <2> QED
    BY <2>2, <2>3, <2>4 DEF Reaches, Behind
<1> QED
  BY <1>1, <1>2, <1>3 DEF Covers

\* Where a feed is that is not idle.
LEMMA FeedStateOf ==
    ASSUME TypeInv, NEW f \in Feeds, feed[f].pc # "idle"
    PROVE  /\ feed[f] \in FeedStates
           /\ feed[f].header \in Header /\ feed[f].n \in Nat \ {0} /\ feed[f].unread \in SUBSET Parts
           /\ feed[f].keys \in Seq(Key) \ {<< >>} /\ feed[f].sent \in Seq(SiriSubscription)
           /\ feed[f].pc \in {"range", "visit", "post"}
<1>1. feed[f] \in FeedState
  BY DEF TypeInv, TypeOK
<1>2. feed[f] \in FeedStates
  BY <1>1 DEF FeedState, FeedStates
<1> QED
  BY <1>2 DEF FeedStates

\* The steps of the others do not disturb the loop: they append behind what the
\* header covers.
LEMMA FeedKept ==
    ASSUME TypeInv, NewInv, FeedInv, Preserved, SliceType', Watch, NEW f \in Feeds,
           feed'[f] = feed[f]
    PROVE  Covers(f)'
<1> DEFINE w == feed[f]
<1>1. Covers(f)
  BY DEF FeedInv
<1>2. CASE w.pc = "range" /\ w.unread = Parts
  BY <1>1, <1>2, FreshRange DEF Covers, Ranges
<1>3. CASE ~ (w.pc = "range" /\ w.unread = Parts)
  <2>1. stable'[f] = stable[f] \cap Listed'
    BY <1>3 DEF Watch
  <2>2. Ranges(feed[f])'
    BY <1>1 DEF Covers, Ranges
  <2>3. ASSUME w.pc # "idle", NEW s \in stable'[f], NEW k \in Places(s)'
        PROVE  Reaches(feed[f], s, k)'
    <3>1. s \in stable[f] /\ s \in Listed
      BY <1>1, <2>1 DEF Covers
    <3>2. s \in Occurring
      BY <3>1, ListedPlace
    <3>3. k \in Places(s)
      BY <3>2 DEF Preserved
    <3>4. k <= subs.len
      BY <3>1, <3>3, ListedPlace
    <3>5. Reaches(w, s, k)
      BY <1>1, <2>3, <3>1, <3>3 DEF Covers
    <3>6. w.header.arr \in DOMAIN arrays
      BY <2>3, FeedStateOf DEF Header
    <3>7. "arr" \notin w.unread =>
             k \in DOMAIN arrays'[w.header.arr] /\ arrays'[w.header.arr][k] = s
      BY <3>4, <3>5, <3>6 DEF Reaches, Preserved
    <3> QED
      BY <3>5, <3>7 DEF Reaches
  <2> QED
    BY <2>1, <2>2, <2>3 DEF Covers
<1> QED
  BY <1>2, <1>3

\* The feed goes on with its loop.
LEMMA FeedAdvances ==
    ASSUME TypeInv, NewInv, FeedInv, UNCHANGED <<arrays, subs>>, Watch, NEW f \in Feeds,
           NEW v, FeedGoto(f, v), feed[f].pc # "idle", ~ (v.pc = "range" /\ v.unread = Parts),
           Ranges(v),
           \A s \in Listed : \A k \in Places(s) : Reaches(feed[f], s, k) => Reaches(v, s, k)
    PROVE  Covers(f)'
<1>1. Covers(f)
  BY DEF FeedInv
<1>2. feed'[f] = v
  BY DEF FeedGoto, TypeInv, TypeOK
<1>3. Listed' = Listed /\ \A s : Places(s)' = Places(s)
  BY DEF Listed, Places
<1>4. stable'[f] = stable[f] \cap Listed
  BY <1>2, <1>3 DEF Watch
<1>5. Ranges(feed[f])'
  BY <1>2 DEF Ranges
<1>6. ASSUME NEW s \in stable'[f], NEW k \in Places(s)' PROVE Reaches(feed[f], s, k)'
  <2>1. Reaches(v, s, k)
    BY <1>1, <1>3, <1>4, <1>6 DEF Covers
  <2>2. Reaches(v, s, k) /\ feed'[f] = v => Reaches(feed[f], s, k)'
    BY DEF Reaches
  <2> QED
    BY <1>2, <2>1, <2>2
<1> QED
  BY <1>3, <1>4, <1>5, <1>6 DEF Covers

\* What is added to the end of the list.
LEMMA SentOn ==
    ASSUME NEW sent \in Seq(SiriSubscription), NEW t \in SiriSubscription, NEW s
    PROVE  /\ t = s /\ Never(sent, s) => Once(Append(sent, t), s)
           /\ t # s /\ Never(sent, s) => Never(Append(sent, t), s)
           /\ t # s /\ Once(sent, s) => Once(Append(sent, t), s)
<1> DEFINE u == Append(sent, t)
           n == Len(sent)
<1>1. n \in Nat /\ DOMAIN sent = 1 .. n /\ DOMAIN u = 1 .. n + 1 /\ u[n + 1] = t
      /\ \A j \in 1 .. n : u[j] = sent[j]
  BY AppendProperties
<1> HIDE DEF u, n
<1>2. ASSUME t = s, Never(sent, s) PROVE Once(u, s)
  <2>1. \A j \in DOMAIN u : u[j] = s <=> j = n + 1
    BY <1>1, <1>2 DEF Never
  <2>2. n + 1 \in DOMAIN u
    BY <1>1
  <2> QED
    BY <2>1, <2>2 DEF Once
<1>3. ASSUME t # s, Never(sent, s) PROVE Never(u, s)
  BY <1>1, <1>3 DEF Never
<1>4. ASSUME t # s, Once(sent, s) PROVE Once(u, s)
  <2>1. PICK k \in DOMAIN sent : \A j \in DOMAIN sent : sent[j] = s <=> j = k
    BY <1>4 DEF Once
  <2>2. \A j \in DOMAIN u : u[j] = s <=> j = k
    BY <1>1, <1>4, <2>1
  <2>3. k \in DOMAIN u
    BY <1>1, <2>1
  <2> QED
    BY <2>2, <2>3 DEF Once
<1> QED
  BY <1>2, <1>3, <1>4 DEF u

\* The feed is done.
LEMMA FeedEnds ==
    ASSUME Watch, NEW f \in Feeds, feed'[f].pc = "idle"
    PROVE  Covers(f)'
<1>1. stable'[f] = stable[f] \cap Listed'
  BY DEF Watch
<1>2. Ranges(feed[f])'
  BY DEF Ranges
<1> QED
  BY <1>1, <1>2 DEF Covers

\* What a feed that reads the slice finds at the position it is at.
LEMMA FeedFinds ==
    ASSUME TypeInv, NewInv, NEW f \in Feeds, Reading(f)
    PROVE  /\ feed[f] \in FeedStates /\ Current(f) \in SiriSubscription
           /\ \A s \in Listed : \A k \in Places(s) :
                  k \in DOMAIN arrays[feed[f].header.arr] /\ arrays[feed[f].header.arr][k] = s
                      => (k = feed[f].n <=> Current(f) = s)
<1> DEFINE w == feed[f]
<1>1. w.pc = "visit" /\ w.n <= Len(arrays[w.header.arr]) /\ Current(f) # Nil
  BY DEF Reading
<1>2. w \in FeedStates /\ w.header \in Header /\ w.n \in Nat \ {0}
  BY <1>1, FeedStateOf
<1>3. w.header.arr \in DOMAIN arrays /\ arrays[w.header.arr] \in Seq(Cells) /\ SliceType
  BY <1>2, Types DEF Header, TypeInv, SliceType
<1>4. w.n \in DOMAIN arrays[w.header.arr]
  BY <1>1, <1>2, <1>3
<1>5. Current(f) = arrays[w.header.arr][w.n]
  BY DEF Current
<1>6. Current(f) \in SiriSubscription
  <2>1. arrays[w.header.arr][w.n] \in Cells
    BY <1>3, <1>4
  <2> QED
    BY <1>1, <1>5, <2>1 DEF Cells
<1>7. ASSUME NEW s \in Listed, NEW k \in Places(s),
             k \in DOMAIN arrays[w.header.arr], arrays[w.header.arr][k] = s
      PROVE  k = w.n <=> Current(f) = s
  <2>1. s \in Occurring
    BY ListedPlace
  <2>2. Current(f) = s => w.n \in Places(s)
    <3>1. PlacesAre
      BY <1>3, PlaceOf
    <3>2. w.n \in Places(s) <=>
            \E a \in DOMAIN arrays : w.n \in DOMAIN arrays[a] /\ arrays[a][w.n] = s
      BY <3>1, Zenon DEF PlacesAre
    <3> QED
      BY <1>3, <1>4, <1>5, <3>2
  <2>3. Current(f) = s => k = w.n
    BY <2>1, <2>2 DEF NewInv
  <2> QED
    BY <1>5, <1>7, <2>3
<1> QED
  BY <1>2, <1>6, <1>7

\* A field of the header is copied: the position is covered by the length, and
\* the array has s there.
LEMMA FeedCopies ==
    ASSUME TypeInv, NewInv, FeedInv, Watch, NEW f \in Feeds, CopyHeader(f)
    PROVE  Covers(f)'
<1> DEFINE w == feed[f]
<1>1. w.pc = "range" /\ UNCHANGED <<arrays, subs>>
  BY DEF CopyHeader
<1>2. PICK part \in w.unread :
        FeedGoto(f, [w EXCEPT !.header[part] = subs[part], !.unread = @ \ {part},
                              !.pc = IF w.unread = {part} THEN "visit" ELSE "range"])
  BY DEF CopyHeader
<1>3. w \in FeedStates /\ w.header \in Header /\ w.unread \subseteq Parts /\ w.n = 1 /\ w.sent = << >>
  BY <1>1, FeedStateOf DEF FeedInv, Covers, Ranges
<1>4. PICK h : h = [w.header EXCEPT ![part] = subs[part]]
  OBVIOUS
<1>5. part \in {"arr", "len"} /\ subs \in Header
  BY <1>3 DEF Parts, TypeInv, TypeOK
<1>6. /\ part = "arr" => h.arr = subs.arr /\ h.len = w.header.len
      /\ part = "len" => h.len = subs.len /\ h.arr = w.header.arr
  BY <1>3, <1>4, <1>5 DEF Header
<1>7. PICK p \in {"visit", "range"} : p = IF w.unread = {part} THEN "visit" ELSE "range"
  OBVIOUS
<1>8. PICK v : v = [w EXCEPT !.header = h, !.unread = w.unread \ {part}, !.pc = p]
  OBVIOUS
<1>9. FeedGoto(f, v)
  <2>1. PICK u \in FeedStates : u = w
    BY <1>3
  <2>2. FeedGoto(f, [u EXCEPT !.header[part] = subs[part], !.unread = @ \ {part}, !.pc = p])
    BY <1>2, <1>7, <2>1
  <2>3. [u EXCEPT !.header[part] = subs[part], !.unread = @ \ {part}, !.pc = p]
        = [u EXCEPT !.header = h, !.unread = u.unread \ {part}, !.pc = p]
    BY <1>4, <2>1 DEF FeedStates
  <2> QED
    BY <1>8, <2>1, <2>2, <2>3
<1>10. /\ v.pc = (IF w.unread = {part} THEN "visit" ELSE "range") /\ v.keys = w.keys /\ v.n = 1
       /\ v.header = h /\ v.unread = w.unread \ {part} /\ v.sent = << >>
  BY <1>3, <1>7, <1>8 DEF FeedStates
<1>11. Ranges(v)
  BY <1>10 DEF Ranges
<1>12. v.unread # Parts
  BY <1>3, <1>10
<1>13. Behind(v) = Behind(w)
  BY <1>1, <1>3, <1>10 DEF Behind
<1>14. ASSUME NEW s \in Listed, NEW k \in Places(s), Reaches(w, s, k) PROVE Reaches(v, s, k)
  <2>1. k <= subs.len /\ k \in DOMAIN arrays[subs.arr] /\ arrays[subs.arr][k] = s
    BY ListedPlace
  <2>2. "len" \notin v.unread => k <= v.header.len
    BY <1>5, <1>6, <1>10, <1>14, <2>1 DEF Reaches
  <2>3. "arr" \notin v.unread => k \in DOMAIN arrays[v.header.arr] /\ arrays[v.header.arr][k] = s
    BY <1>5, <1>6, <1>10, <1>14, <2>1 DEF Reaches
  <2>4. IsFor(s, Head(v.keys)) => IF k <= Behind(v) THEN Once(v.sent, s) ELSE Never(v.sent, s)
    BY <1>3, <1>10, <1>13, <1>14 DEF Reaches
  <2> QED
    BY <2>2, <2>3, <2>4 DEF Reaches
<1> QED
  BY <1>1, <1>9, <1>11, <1>12, <1>14, FeedAdvances

\* The loop goes on to the next position: if it leaves out s, it was not at s.
LEMMA FeedSkips ==
    ASSUME TypeInv, NewInv, FeedInv, Watch, NEW f \in Feeds, Skip(f) \/ Post(f) \/ Posted(f)
    PROVE  Covers(f)'
<1> DEFINE w == feed[f]
<1>1. w.pc \in {"visit", "post"} /\ UNCHANGED <<arrays, subs>>
  BY DEF Skip, Post, Posted, Reading
<1>2. /\ w \in FeedStates /\ w.n \in Nat \ {0} /\ w.unread = {} /\ w.sent \in Seq(SiriSubscription)
  BY <1>1, FeedStateOf DEF FeedInv, Covers, Ranges
<1>3. CASE Skip(f)
  <2>1. Reading(f) /\ w.pc = "visit" /\ ~ IsFor(Current(f), Head(w.keys))
    BY <1>3 DEF Skip, Reading
  <2>2. PICK v : v = [w EXCEPT !.n = w.n + 1]
    OBVIOUS
  <2>3. FeedGoto(f, v)
    BY <1>3, <2>2 DEF Skip
  <2>4. /\ v.pc = "visit" /\ v.n = w.n + 1 /\ v.keys = w.keys /\ v.header = w.header /\ v.unread = {}
        /\ v.sent = w.sent
    BY <1>2, <2>1, <2>2 DEF FeedStates
  <2>5. Behind(w) = w.n - 1 /\ Behind(v) = w.n
    BY <1>2, <2>1, <2>4 DEF Behind
  <2>6. ASSUME NEW s \in Listed, NEW k \in Places(s), Reaches(w, s, k) PROVE Reaches(v, s, k)
    <3>1. k \in DOMAIN arrays[w.header.arr] /\ arrays[w.header.arr][k] = s /\ k <= w.header.len
      BY <1>2, <2>6 DEF Reaches
    <3>2. IsFor(s, Head(w.keys)) => k # w.n
      BY <2>1, <3>1, FeedFinds
    <3>3. k \in Nat
      BY PlaceOf, Types DEF PlacesAre, TypeInv
    <3>4. k # w.n => (k <= Behind(w) <=> k <= Behind(v))
      BY <1>2, <2>5, <3>3
    <3> QED
      BY <2>4, <2>6, <3>1, <3>2, <3>4 DEF Reaches
  <2>7. Ranges(v) /\ v.pc # "range"
    BY <2>4 DEF Ranges
  <2> QED
    BY <1>1, <2>1, <2>3, <2>6, <2>7, FeedAdvances
<1>4. CASE Post(f)
  <2>1. Reading(f) /\ w.pc = "visit" /\ IsFor(Current(f), Head(w.keys))
    BY <1>4 DEF Post, Reading
  <2>2. PICK t \in SiriSubscription : t = Current(f)
    BY <2>1, FeedFinds
  <2>3. PICK v : v = [w EXCEPT !.pc = "post", !.sent = Append(w.sent, t)]
    OBVIOUS
  <2>4. FeedGoto(f, v)
    BY <1>4, <2>2, <2>3 DEF Post
  <2>5. /\ v.pc = "post" /\ v.n = w.n /\ v.keys = w.keys /\ v.header = w.header /\ v.unread = {}
        /\ v.sent = Append(w.sent, t)
    BY <1>2, <2>1, <2>3 DEF FeedStates
  <2>6. Behind(w) = w.n - 1 /\ Behind(v) = w.n
    BY <1>2, <2>1, <2>5 DEF Behind
  <2>7. ASSUME NEW s \in Listed, NEW k \in Places(s), Reaches(w, s, k) PROVE Reaches(v, s, k)
    <3>1. k \in DOMAIN arrays[w.header.arr] /\ arrays[w.header.arr][k] = s /\ k <= w.header.len
      BY <1>2, <2>7 DEF Reaches
    <3>2. k = w.n <=> t = s
      BY <2>1, <2>2, <3>1, FeedFinds
    <3>3. k \in Nat
      BY PlaceOf, Types DEF PlacesAre, TypeInv
    <3>4. ASSUME IsFor(s, Head(w.keys)), k = w.n PROVE k <= Behind(v) /\ Once(v.sent, s)
      <4>1. ~ (k <= Behind(w)) /\ k <= Behind(v)
        BY <1>2, <2>6, <3>4
      <4>2. Never(w.sent, s)
        BY <2>7, <3>4, <4>1 DEF Reaches
      <4> QED
        BY <1>2, <2>5, <3>2, <3>4, <4>1, <4>2, SentOn
    <3>5. ASSUME IsFor(s, Head(w.keys)), k # w.n
          PROVE  IF k <= Behind(v) THEN Once(v.sent, s) ELSE Never(v.sent, s)
      <4>1. k <= Behind(w) <=> k <= Behind(v)
        BY <1>2, <2>6, <3>3, <3>5
      <4>2. IF k <= Behind(w) THEN Once(w.sent, s) ELSE Never(w.sent, s)
        BY <2>7, <3>5 DEF Reaches
      <4> QED
        BY <1>2, <2>5, <3>2, <3>5, <4>1, <4>2, SentOn
    <3> QED
      BY <2>5, <3>1, <3>4, <3>5 DEF Reaches
  <2>8. Ranges(v) /\ v.pc # "range"
    BY <2>5 DEF Ranges
  <2> QED
    BY <1>1, <2>1, <2>4, <2>7, <2>8, FeedAdvances
<1>5. CASE Posted(f)
  <2>1. w.pc = "post"
    BY <1>5 DEF Posted
  <2>2. PICK v : v = [w EXCEPT !.pc = "visit", !.n = w.n + 1]
    OBVIOUS
  <2>3. FeedGoto(f, v)
    BY <1>5, <2>2 DEF Posted
  <2>4. /\ v.pc = "visit" /\ v.n = w.n + 1 /\ v.keys = w.keys /\ v.header = w.header /\ v.unread = {}
        /\ v.sent = w.sent
    BY <1>2, <2>1, <2>2 DEF FeedStates
  <2>5. Behind(w) = w.n /\ Behind(v) = w.n
    BY <1>2, <2>1, <2>4 DEF Behind
  <2>6. \A s \in Listed : \A k \in Places(s) : Reaches(w, s, k) => Reaches(v, s, k)
    BY <1>2, <2>4, <2>5 DEF Reaches
  <2>7. Ranges(v) /\ v.pc # "range"
    BY <2>4 DEF Ranges
  <2> QED
    BY <1>1, <2>1, <2>3, <2>6, <2>7, FeedAdvances
<1> QED
  BY <1>3, <1>4, <1>5

\* The steps of a feed.
LEMMA FeedStep ==
    ASSUME TypeInv, NewInv, FeedInv, Watch, NEW f \in Feeds, Feed(f), SliceType'
    PROVE  /\ UNCHANGED <<arrays, subs, client>> /\ pending' \subseteq pending
           /\ \A g \in Feeds : g # f => feed'[g] = feed[g]
           /\ Covers(f)'
<1>1. UNCHANGED <<arrays, subs, client>> /\ pending' \subseteq pending
  BY DEF Feed, Publish, CopyHeader, Skip, Post, Posted, PostFails, NextDelivery, FeedMisreads
<1>2. \/ UNCHANGED feed
      \/ \E v : FeedGoto(f, v)
  BY DEF Feed, Publish, CopyHeader, Skip, Post, Posted, PostFails, NextDelivery, FeedMisreads
<1>3. \A g \in Feeds : g # f => feed'[g] = feed[g]
  BY <1>2 DEF FeedGoto, TypeInv, TypeOK
<1>4. ASSUME NEW keys, FeedGoto(f, Ranging(keys)) PROVE Covers(f)'
  <2>1. feed'[f] = Ranging(keys)
    BY <1>4 DEF FeedGoto, TypeInv, TypeOK
  <2>2. /\ feed'[f].pc = "range" /\ feed'[f].unread = Parts
        /\ feed'[f].n = 1 /\ feed'[f].sent = << >>
    BY <2>1 DEF Ranging
  <2> QED
    BY <2>2, FreshRange
<1>5. ASSUME FeedGoto(f, Idle) PROVE Covers(f)'
  <2>1. feed'[f].pc = "idle"
    BY <1>5 DEF FeedGoto, TypeInv, TypeOK, Idle
  <2> QED
    BY <2>1, FeedEnds
<1>6. ASSUME Publish(f) PROVE Covers(f)'
  <2>1. PICK p : FeedGoto(f, Ranging(p.keys))
    BY <1>6 DEF Publish
  <2>2. PICK keys : keys = p.keys
    OBVIOUS
  <2> QED
    BY <1>4, <2>1, <2>2
<1>7. ASSUME NextDelivery(f) PROVE Covers(f)'
  <2>1. PICK keys : keys = Tail(feed[f].keys)
    OBVIOUS
  <2>2. FeedGoto(f, Idle) \/ FeedGoto(f, Ranging(keys))
    <3>1. FeedGoto(f, IF Len(feed[f].keys) = 1 THEN Idle ELSE Ranging(keys))
      BY <1>7, <2>1 DEF NextDelivery
    <3>2. CASE Len(feed[f].keys) = 1
      BY <3>1, <3>2
    <3>3. CASE Len(feed[f].keys) # 1
      BY <3>1, <3>3
    <3> QED
      BY <3>2, <3>3
  <2> QED
    BY <1>4, <1>5, <2>2
<1>8. ASSUME PostFails(f) PROVE Covers(f)'
  BY <1>5, <1>8 DEF PostFails
<1>9. ASSUME FeedMisreads(f) PROVE Covers(f)'
  <2>1. ASSUME UNCHANGED feed PROVE Covers(f)'
    <3>1. UNCHANGED arrays /\ feed'[f] = feed[f]
      BY <1>1, <2>1
    <3>2. Preserved
      <4>1. \A s : Places(s)' = Places(s)
        BY <3>1 DEF Places
      <4> QED
        BY <3>1, <4>1 DEF Preserved
    <3> QED
      BY <3>1, <3>2, FeedKept
  <2>2. UNCHANGED feed \/ FeedGoto(f, Idle)
    BY <1>9 DEF FeedMisreads
  <2> QED
    BY <1>5, <2>1, <2>2
<1>10. ASSUME CopyHeader(f) PROVE Covers(f)'
  BY <1>10, FeedCopies
<1>11. ASSUME Skip(f) \/ Post(f) \/ Posted(f) PROVE Covers(f)'
  BY <1>11, FeedSkips
<1>12. Covers(f)'
  BY <1>6, <1>7, <1>8, <1>9, <1>10, <1>11 DEF Feed
<1> QED
  BY <1>1, <1>3, <1>12

\* The inductive invariant of the deliveries, where it is claimed.
InOrder == OneByOne /\ OnlyNew(scenario)
DeliveriesInv == InOrder => SliceInv /\ NewInv /\ FeedInv

\* In the beginning nothing is stored, and nobody does anything.
LEMMA DeliveriesInit ==
    Init => DeliveriesInv
<1> SUFFICES ASSUME Init PROVE DeliveriesInv
  OBVIOUS
<1>1. /\ \A c \in Clients : client[c].pc = "idle"
      /\ \A f \in Feeds : feed[f].pc = "idle" /\ stable[f] = {}
  BY DEF Init, Idle
<1>2. Occurring = {}
  <2>1. DOMAIN arrays = {1} /\ arrays[1] = << >>
    BY DEF Init
  <2>2. Range(arrays[1]) = {}
    BY <2>1 DEF Range
  <2> QED
    BY <2>1, <2>2 DEF Occurring
<1>3. NewInv
  <2>1. \A r : NotYet(r)
    BY <1>2 DEF NotYet
  <2>2. \A c \in Clients : ~ Asks(client[c]) /\ InPlace(client[c]) /\ client[c].pc \notin Ending
    BY <1>1 DEF Asks, Ending, InPlace, Removing
  <2> QED
    BY <1>2, <2>1, <2>2 DEF NewInv, Asking
<1>4. FeedInv
  BY <1>1 DEF FeedInv, Covers, Ranges
<1> QED
  BY <1>3, <1>4, SliceInit DEF DeliveriesInv

\* Nothing that is stored moves, and no feed either.
LEMMA FeedsKept ==
    ASSUME TypeInv, NewInv, FeedInv, Preserved, SliceType', Watch, UNCHANGED feed
    PROVE  FeedInv'
BY FeedKept DEF FeedInv

\* Nothing happens.
LEMMA DeliveriesStutter ==
    ASSUME NewInv, FeedInv, UNCHANGED vars
    PROVE  NewInv' /\ FeedInv'
<1>1. UNCHANGED <<arrays, subs, client, feed, scenario, pending, stable>>
  BY DEF vars
<1>2. NewInv'
  BY <1>1, NewUntouched
<1>3. ASSUME NEW f \in Feeds, Covers(f) PROVE Covers(f)'
  <2>1. Listed' = Listed /\ \A s : Places(s)' = Places(s)
    BY <1>1 DEF Listed, Places
  <2>2. Ranges(feed[f])' /\ \A s, k : Reaches(feed[f], s, k)' <=> Reaches(feed[f], s, k)
    BY <1>1, <1>3 DEF Covers, Ranges, Reaches, Behind, Once, Never, IsFor
  <2> QED
    BY <1>1, <1>3, <2>1, <2>2 DEF Covers
<1> QED
  BY <1>2, <1>3 DEF FeedInv

\* One case for each disjunct of Next.
LEMMA DeliveriesStep ==
    ASSUME TypeInv, DeliveriesInv, [Next]_vars
    PROVE  DeliveriesInv'
<1>1. UNCHANGED scenario
  BY DEF vars, Next, Running
<1>2. InOrder' => InOrder
  BY <1>1 DEF InOrder, OneByOne, Alone, OnlyNew
<1> SUFFICES ASSUME InOrder PROVE SliceInv' /\ NewInv' /\ FeedInv'
  BY <1>2 DEF DeliveriesInv
<1>3. OneByOne /\ OnlyNew(scenario) /\ SliceInv /\ NewInv /\ FeedInv
  BY DEF DeliveriesInv, InOrder
<1>4. SliceInv'
  BY <1>3, SliceStep
<1>5. SliceType'
  <2>1. TypeInv'
    BY TypeStep
  <2>2. (TypeOK /\ TickerHasTimer <=> SliceType /\ BeatType /\ PlaceType /\ OtherType /\ StableType)'
    BY Types, PTL
  <2> QED
    BY <2>1, <2>2 DEF TypeInv
<1>6. CASE UNCHANGED vars
  BY <1>3, <1>4, <1>6, DeliveriesStutter
<1>7. ASSUME Next PROVE Watch
  BY <1>7 DEF Next, Running
<1>8. CASE \E c \in scenario.clients : Running(Client(c))
  <2>1. NewInv' /\ Preserved /\ UNCHANGED feed
    BY <1>1, <1>3, <1>5, <1>8, NewStep DEF Running
  <2>2. Watch
    BY <1>8 DEF Running
  <2> QED
    BY <1>3, <1>4, <1>5, <2>1, <2>2, FeedsKept
<1>9. CASE (\E b \in DOMAIN beats : Running(Timer(b))) \/ Running(Tick)
  <2>1. UNCHANGED <<arrays, client, feed>> /\ pending' = pending /\ Watch
    BY <1>9 DEF Running, Timer, TimerFires, TimerStopsTicker, TimerDeletes, Tick
  <2>2. NewInv' /\ Preserved
    BY <1>1, <1>3, <2>1, NewUntouched
  <2> QED
    BY <1>3, <1>4, <1>5, <2>1, <2>2, FeedsKept
<1>10. CASE \E f \in Feeds : Running(Feed(f))
  <2>1. PICK f \in Feeds : Feed(f) /\ Watch
    BY <1>10 DEF Running
  <2>2. /\ UNCHANGED <<arrays, subs, client>> /\ pending' \subseteq pending
        /\ \A g \in Feeds : g # f => feed'[g] = feed[g]
        /\ Covers(f)'
    BY <1>3, <1>5, <2>1, FeedStep
  <2>3. NewInv' /\ Preserved
    BY <1>1, <1>3, <2>2, NewUntouched
  <2>4. ASSUME NEW g \in Feeds, g # f PROVE Covers(g)'
    BY <1>3, <1>5, <2>1, <2>2, <2>3, <2>4, FeedKept
  <2> QED
    BY <1>4, <2>2, <2>3, <2>4 DEF FeedInv
<1> QED
  BY <1>6, <1>8, <1>9, <1>10 DEF Next

\* When the loop has come to its end, it has sent to all that it covers.
LEMMA AllSent ==
    ASSUME TypeInv, DeliveriesInv, OneByOne
    PROVE  SentToSubscribers
<1> SUFFICES ASSUME OnlyNew(scenario), NEW f \in Feeds, feed[f].pc = "visit", feed[f].n > feed[f].header.len,
                    NEW s \in stable[f], IsFor(s, Head(feed[f].keys))
             PROVE  Cardinality({k \in DOMAIN feed[f].sent : feed[f].sent[k] = s}) = 1
  BY DEF SentToSubscribers
<1> DEFINE w == feed[f]
<1>1. NewInv /\ Covers(f) /\ s \in Listed
  BY DEF DeliveriesInv, InOrder, FeedInv, Covers
<1>2. w.n \in Nat /\ w.header.len \in Nat /\ w.unread = {}
  BY <1>1, FeedStateOf DEF Covers, Ranges, Header
<1>3. PICK k \in Places(s) : k \in Nat
  BY <1>1, ListedPlace, PlaceOf, Types DEF PlacesAre, TypeInv
<1>4. Reaches(w, s, k)
  BY <1>1 DEF Covers
<1>5. k <= w.header.len
  BY <1>2, <1>4 DEF Reaches
<1>6. k <= Behind(w)
  BY <1>2, <1>3, <1>5 DEF Behind
<1>7. PICK sent : sent = w.sent
  OBVIOUS
<1>8. Once(sent, s)
  BY <1>4, <1>6, <1>7 DEF Reaches
<1>9. PICK i \in DOMAIN sent : \A j \in DOMAIN sent : sent[j] = s <=> j = i
  BY <1>8 DEF Once
<1>10. {j \in DOMAIN sent : sent[j] = s} = {i}
  BY <1>9
<1> QED
  BY <1>7, <1>10, FS_Singleton

\* handleServiceDeliveryPublication has come to the end of its loop: it has sent
\* the delivery once to every consumer whose subscription was stored all the while,
\* however far in the meantime a request has come with the loop that removes what
\* it updates (siri_proxy.go:640), with append and with the words of the header
\* (673).  The requests come one after another, since append reads the header
\* before it writes the cells, and are for new subscriptions, since to remove one
\* moves those behind it to where the loop has been.
THEOREM SentToSubscribersHolds == Spec => [](OneByOne => SentToSubscribers)
<1> DEFINE IInv == TypeInv /\ DeliveriesInv
<1>1. Init => IInv
  BY TypeInit, DeliveriesInit
<1>2. IInv /\ [Next]_vars => IInv'
  BY TypeStep, DeliveriesStep
<1>3. IInv => (OneByOne => SentToSubscribers)
  BY AllSent
<1> QED
  BY <1>1, <1>2, <1>3, PTL DEF Spec


-----------------------------------------------------------------------------
(* The payloads of a published body (module ServiceDelivery), of which     *)
(* module SiriProxy has the keys only.                                     *)

\* The recursion of Joined is defined for every position.
LEMMA JoinedSteps ==
    ASSUME NEW S, NEW parts \in Seq(Seq(S))
    PROVE  LET joined == Joined(parts)
           IN  /\ joined \in [0 .. Len(parts) -> Seq(S)] /\ joined[0] = << >>
               /\ \A n \in 1 .. Len(parts) : joined[n] = joined[n - 1] \o parts[n]
<1> DEFINE Step(g, k) == IF k = 0 THEN << >> ELSE g[k - 1] \o parts[k]
           Fits(g, n) == \A k \in 0 .. n : g[k] = Step(g, k)
           T == {n \in 0 .. Len(parts) : \E g \in [0 .. n -> Seq(S)] : Fits(g, n)}
<1>1. Len(parts) \in Nat
  OBVIOUS
<1>2. 0 \in T
  <2> DEFINE g == [k \in 0 .. 0 |-> << >>]
  <2>1. g \in [0 .. 0 -> Seq(S)] /\ Fits(g, 0)
    OBVIOUS
  <2> HIDE DEF g, Fits
  <2> QED
    BY <1>1, <2>1
<1>3. ASSUME NEW n \in 1 .. Len(parts), n - 1 \in T PROVE n \in T
  <2>1. PICK g \in [0 .. n - 1 -> Seq(S)] : Fits(g, n - 1)
    BY <1>3
  <2> DEFINE h == [k \in 0 .. n |-> IF k = n THEN Step(g, n) ELSE g[k]]
  <2>2. parts[n] \in Seq(S) /\ g[n - 1] \in Seq(S) /\ n # 0
    OBVIOUS
  <2>3. Step(g, n) \in Seq(S)
    BY <2>2, ConcatProperties
  <2>4. h \in [0 .. n -> Seq(S)]
    <3> HIDE DEF Step
    <3> QED
      BY <2>3
  <2>5. ASSUME NEW k \in 0 .. n PROVE h[k] = Step(h, k)
    <3>1. CASE k = n
      <4>1. h[n] = Step(g, n) /\ h[n - 1] = g[n - 1]
        OBVIOUS
      <4> HIDE DEF h
      <4> QED
        BY <3>1, <4>1
    <3>2. CASE k # n
      <4>1. k \in 0 .. n - 1 /\ h[k] = g[k] /\ (k # 0 => h[k - 1] = g[k - 1])
        BY <3>2
      <4>2. g[k] = Step(g, k)
        BY <2>1, <4>1
      <4> HIDE DEF h
      <4> QED
        BY <4>1, <4>2
    <3> QED
      BY <3>1, <3>2
  <2> HIDE DEF h
  <2>6. Fits(h, n)
    BY <2>5
  <2> HIDE DEF Fits
  <2> QED
    BY <2>4, <2>6
<1>4. Len(parts) \in T
  <2> HIDE DEF T
  <2>1. 0 .. Len(parts) \subseteq T
    BY <1>1, <1>2, <1>3, Induction
  <2> QED
    BY <1>1, <2>1
<1>5. PICK g \in [0 .. Len(parts) -> Seq(S)] : Fits(g, Len(parts))
  BY <1>4
<1> DEFINE F == [k \in 0 .. Len(parts) |-> Step(g, k)]
           joined == CHOOSE f : f = [k \in 0 .. Len(parts) |-> Step(f, k)]
<1>6. g = F
  BY <1>5
<1>7. joined = [k \in 0 .. Len(parts) |-> Step(joined, k)]
  BY <1>6
<1>8. Joined(parts) = joined
  BY DEF Joined
<1> HIDE DEF joined
<1>9. ASSUME NEW k \in 0 .. Len(parts) PROVE joined[k] = Step(joined, k)
  <2> HIDE DEF Step
  <2> QED
    BY <1>7
<1>10. joined[0] = << >>
  BY <1>1, <1>9
<1>11. joined \in [0 .. Len(parts) -> Seq(S)]
  <2> DEFINE U == {k \in 0 .. Len(parts) : joined[k] \in Seq(S)}
  <2>1. 0 \in U
    <3>1. << >> \in Seq(S) /\ 0 \in 0 .. Len(parts)
      BY <1>1
    <3> QED
      BY <1>10, <3>1
  <2>2. ASSUME NEW k \in 1 .. Len(parts), k - 1 \in U PROVE k \in U
    <3>1. joined[k] = Step(joined, k) /\ k \in 0 .. Len(parts)
      BY <1>1, <1>9
    <3>2. k # 0 /\ parts[k] \in Seq(S) /\ joined[k - 1] \in Seq(S)
      BY <2>2
    <3>3. joined[k - 1] \o parts[k] \in Seq(S)
      BY <3>2, ConcatProperties
    <3> QED
      BY <3>1, <3>2, <3>3
  <2>3. 0 .. Len(parts) \subseteq U
    <3> HIDE DEF U
    <3> QED
      BY <1>1, <2>1, <2>2, Induction
  <2>4. \A k \in 0 .. Len(parts) : joined[k] \in Seq(S)
    BY <2>3
  <2> QED
    BY <1>7, <2>4
<1>12. ASSUME NEW n \in 1 .. Len(parts) PROVE joined[n] = joined[n - 1] \o parts[n]
  <2>1. n \in 0 .. Len(parts) /\ n # 0
    BY <1>1
  <2>2. joined[n] = Step(joined, n)
    BY <1>9, <2>1
  <2> QED
    BY <2>1, <2>2
<1> QED
  BY <1>8, <1>10, <1>11, <1>12

\* What is put together begins with what was put together before.
LEMMA JoinedBegins ==
    ASSUME NEW S, NEW parts \in Seq(Seq(S)), NEW m \in 0 .. Len(parts), NEW n \in m .. Len(parts)
    PROVE  LET joined == Joined(parts)
           IN  /\ Len(joined[m]) <= Len(joined[n])
               /\ \A k \in 1 .. Len(joined[m]) : joined[n][k] = joined[m][k]
<1> DEFINE joined == Joined(parts)
           Begins(q) == /\ Len(joined[m]) <= Len(joined[q])
                        /\ \A k \in 1 .. Len(joined[m]) : joined[q][k] = joined[m][k]
           T == {q \in 0 .. Len(parts) : m <= q => Begins(q)}
<1>1. /\ joined \in [0 .. Len(parts) -> Seq(S)]
      /\ \A q \in 1 .. Len(parts) : joined[q] = joined[q - 1] \o parts[q]
  BY JoinedSteps, Zenon
<1>0. Len(parts) \in Nat /\ m \in Nat /\ n \in Nat /\ m <= n
  OBVIOUS
<1> HIDE DEF joined
<1>2. 0 \in T
  BY <1>0, <1>1
<1>3. ASSUME NEW q \in 1 .. Len(parts), q - 1 \in T PROVE q \in T
  <2>1. CASE m = q
    BY <1>0, <2>1
  <2>2. CASE m < q
    <3>0. q \in 0 .. Len(parts) /\ q - 1 \in 0 .. Len(parts)
      BY <1>0
    <3>1. PICK s \in Seq(S) : s = joined[q - 1]
      BY <1>1, <3>0
    <3>2. PICK t \in Seq(S) : t = joined[q]
      BY <1>1, <3>0
    <3>3. PICK u \in Seq(S) : u = parts[q]
      OBVIOUS
    <3>4. t = s \o u
      BY <1>1, <3>1, <3>2, <3>3
    <3>5. PICK r \in Seq(S) : r = joined[m]
      BY <1>0, <1>1
    <3>6. Len(r) <= Len(s) /\ \A k \in 1 .. Len(r) : s[k] = r[k]
      <4>1. m <= q - 1
        BY <1>0, <2>2
      <4>2. Begins(q - 1)
        BY <1>3, <4>1
      <4> QED
        BY <3>1, <3>5, <4>2
    <3>7. Len(s) <= Len(t) /\ \A k \in 1 .. Len(s) : t[k] = s[k]
      BY <3>4, Concatenated
    <3>8. Len(r) <= Len(t) /\ \A k \in 1 .. Len(r) : t[k] = r[k]
      <4>1. Len(r) \in Nat /\ Len(s) \in Nat /\ Len(t) \in Nat
        OBVIOUS
      <4> QED
        BY <3>6, <3>7, <4>1
    <3> QED
      BY <3>2, <3>5, <3>8
  <2>3. CASE m > q
    BY <1>0, <2>3
  <2> QED
    BY <1>0, <2>1, <2>2, <2>3
<1>4. 0 .. Len(parts) \subseteq T
  <2> HIDE DEF T
  <2> QED
    BY <1>0, <1>2, <1>3, Induction
<1>5. Begins(n)
  <2>1. n \in 0 .. Len(parts) /\ m <= n
    BY <1>0
  <2>2. n \in T
    BY <1>4, <2>1
  <2> HIDE DEF Begins
  <2> QED
    BY <2>1, <2>2
<1> QED
  BY <1>5 DEF joined

\* Of nothing comes nothing.
LEMMA NothingJoined ==
    ASSUME NEW S, NEW parts \in Seq(Seq(S)), NEW m \in 0 .. Len(parts),
           \A p \in 1 .. m : parts[p] = << >>
    PROVE  Joined(parts)[m] = << >>
<1> DEFINE joined == Joined(parts)
           T == {q \in 0 .. m : joined[q] = << >>}
<1>1. /\ joined[0] = << >>
      /\ \A q \in 1 .. Len(parts) : joined[q] = joined[q - 1] \o parts[q]
  BY JoinedSteps, Zenon
<1>0. Len(parts) \in Nat /\ m \in Nat
  OBVIOUS
<1> HIDE DEF joined
<1>2. 0 \in T
  BY <1>0, <1>1
<1>3. ASSUME NEW q \in 1 .. m, q - 1 \in T PROVE q \in T
  <2>1. q \in 1 .. Len(parts)
    BY <1>0
  <2>2. joined[q] = joined[q - 1] \o parts[q]
    BY <1>1, <2>1
  <2>3. joined[q] = << >> \o << >>
    BY <1>3, <2>2
  <2>4. << >> \in Seq(S) /\ << >> \o << >> = << >>
    BY ConcatEmptySeq
  <2> QED
    BY <2>3, <2>4
<1>4. 0 .. m \subseteq T
  <2> HIDE DEF T
  <2> QED
    BY <1>0, <1>2, <1>3, Induction
<1> QED
  BY <1>0, <1>4 DEF joined

\* What is in the buffer.
Word == Nat \X Nat

\* A delivery.
Record == [key : Keys, from : Nat \ {0}, to : Nat]

\* The payloads, and those of them that are for a subscription.
Payloads == [p \in DOMAIN keyOf |-> Payload(p)]
PayloadsFor(key) == [p \in DOMAIN keyOf |-> IF keyOf[p] = key THEN Payload(p) ELSE << >>]

\* How much of the body there is up to the p-th payload, and what for a subscription.
Length  == [p \in 0 .. Len(keyOf) |-> Len(Text[p])]
Arrived == [key \in Keys |-> [p \in 0 .. Len(keyOf) |-> ReceivedUpTo(p, key)]]

\* A body that was received, with the subscription and the size of each payload,
BodyType ==
    keyOf \in Seq(Keys) /\ Len(keyOf) # 0 /\ sizes \in [1 .. Len(keyOf) -> Nat \ {0}]

\* the buffer that holds as many cells and the footer, and the loop over the payloads.
LoopType ==
    /\ buffer \in Seq(Word) /\ Len(buffer) = Length[Len(keyOf)] + 1
    /\ at \in 1 .. Len(keyOf) + 1

\* The p-th payload is in the buffer as it was received.
Intact(p) == \A k \in 1 .. sizes[p] : buffer[Length[p - 1] + k] = <<p, k>>

\* What the loop has not come to yet is as it was received, and nothing that
\* was delivered reaches into it.
UnreadInv ==
    /\ \A p \in at .. Len(keyOf) : Intact(p)
    /\ buffer[Len(buffer)] = Footer
    /\ deliveries \in Seq(Record)
    /\ \A j \in DOMAIN deliveries : deliveries[j].to <= Length[at - 1]

\* The subscriptions of the payloads that the loop has come to have one delivery
\* each, as long as those payloads.
EachInv ==
    /\ \A j, h \in DOMAIN deliveries : deliveries[j].key = deliveries[h].key => j = h
    /\ \A p \in 1 .. at - 1 : \E j \in DOMAIN deliveries : deliveries[j].key = keyOf[p]
    /\ \A j \in DOMAIN deliveries :
         /\ \E p \in 1 .. at - 1 : deliveries[j].key = keyOf[p]
         /\ deliveries[j].to + 1 = deliveries[j].from + Len(Arrived[deliveries[j].key][at - 1])

\* Where the payloads of a subscription lie together, nothing in the buffer
\* changes, and the delivery of the last one ends where it does.
GroupedInv ==
    Grouped =>
        /\ \A p \in 1 .. Len(keyOf) : Intact(p)
        /\ \A j \in DOMAIN deliveries :
             /\ deliveries[j].key = keyOf[at - 1] => deliveries[j].to = Length[at - 1]
             /\ \A k \in 1 .. Len(Arrived[deliveries[j].key][at - 1]) :
                  buffer[deliveries[j].from + k - 1] = Arrived[deliveries[j].key][at - 1][k]

\* The inductive invariant of the loop.
DeliveryInv == BodyType /\ LoopType /\ UnreadInv /\ EachInv /\ GroupedInv

\* The payloads are sequences of cells.
LEMMA PayloadFacts ==
    ASSUME BodyType
    PROVE  /\ Len(keyOf) \in Nat
           /\ \A p \in 1 .. Len(keyOf) :
                /\ sizes[p] \in Nat \ {0} /\ Payload(p) \in Seq(Word)
                /\ Len(Payload(p)) = sizes[p]
                /\ \A k \in 1 .. sizes[p] : Payload(p)[k] = <<p, k>>
           /\ Payloads \in Seq(Seq(Word)) /\ Len(Payloads) = Len(keyOf)
           /\ \A key : PayloadsFor(key) \in Seq(Seq(Word)) /\ Len(PayloadsFor(key)) = Len(keyOf)
<1>1. Len(keyOf) \in Nat /\ DOMAIN keyOf = 1 .. Len(keyOf)
  BY DEF BodyType
<1>2. ASSUME NEW p \in 1 .. Len(keyOf)
      PROVE  /\ sizes[p] \in Nat \ {0} /\ Payload(p) \in Seq(Word)
             /\ Len(Payload(p)) = sizes[p]
             /\ \A k \in 1 .. sizes[p] : Payload(p)[k] = <<p, k>>
  <2>1. PICK n \in Nat \ {0} : n = sizes[p]
    BY DEF BodyType
  <2>2. p \in Nat /\ \A k \in 1 .. n : k \in Nat /\ <<p, k>> \in Word
    BY <1>1 DEF Word
  <2>3. Payload(p) = [k \in 1 .. n |-> <<p, k>>]
    BY <2>1 DEF Payload
  <2> QED
    BY <2>1, <2>2, <2>3
<1>3. Payloads \in Seq(Seq(Word)) /\ Len(Payloads) = Len(keyOf)
  BY <1>1, <1>2 DEF Payloads
<1>4. ASSUME NEW key PROVE PayloadsFor(key) \in Seq(Seq(Word)) /\ Len(PayloadsFor(key)) = Len(keyOf)
  <2>1. << >> \in Seq(Word)
    OBVIOUS
  <2> QED
    BY <1>1, <1>2, <2>1 DEF PayloadsFor
<1> QED
  BY <1>1, <1>2, <1>3, <1>4

\* The body grows by one payload after the other.
LEMMA TextGrows ==
    ASSUME BodyType
    PROVE  /\ \A p \in 0 .. Len(keyOf) : Text[p] \in Seq(Word) /\ Length[p] \in Nat
           /\ Length[0] = 0
           /\ \A p \in 1 .. Len(keyOf) :
                /\ Length[p] = Length[p - 1] + sizes[p]
                /\ \A k \in 1 .. sizes[p] : Text[p][Length[p - 1] + k] = <<p, k>>
           /\ \A p \in 0 .. Len(keyOf) : \A q \in p .. Len(keyOf) :
                /\ Length[p] <= Length[q]
                /\ \A k \in 1 .. Length[p] : Text[q][k] = Text[p][k]
<1> DEFINE joined == Joined(Payloads)
<1>1. Text = joined
  BY DEF Text, Payloads
<1>2. Payloads \in Seq(Seq(Word)) /\ Len(Payloads) = Len(keyOf) /\ Len(keyOf) \in Nat
  BY PayloadFacts
<1>3. /\ joined \in [0 .. Len(keyOf) -> Seq(Word)] /\ joined[0] = << >>
      /\ \A p \in 1 .. Len(keyOf) : joined[p] = joined[p - 1] \o Payloads[p]
  BY <1>2, JoinedSteps
<1>4. \A p \in 0 .. Len(keyOf) : \A q \in p .. Len(keyOf) :
         /\ Len(joined[p]) <= Len(joined[q])
         /\ \A k \in 1 .. Len(joined[p]) : joined[q][k] = joined[p][k]
  <2>1. PICK parts \in Seq(Seq(Word)) : parts = Payloads
    BY <1>2
  <2>2. Len(parts) = Len(keyOf)
    BY <1>2, <2>1
  <2>3. \A p \in 0 .. Len(parts) : \A q \in p .. Len(parts) :
           /\ Len(Joined(parts)[p]) <= Len(Joined(parts)[q])
           /\ \A k \in 1 .. Len(Joined(parts)[p]) :
                Joined(parts)[q][k] = Joined(parts)[p][k]
    BY JoinedBegins
  <2> QED
    BY <2>1, <2>2, <2>3
<1> HIDE DEF joined
<1>5. \A p \in 0 .. Len(keyOf) : joined[p] \in Seq(Word) /\ Len(joined[p]) \in Nat
  BY <1>3
<1>6. ASSUME NEW p \in 1 .. Len(keyOf)
      PROVE  /\ Len(joined[p]) = Len(joined[p - 1]) + sizes[p]
             /\ \A k \in 1 .. sizes[p] : joined[p][Len(joined[p - 1]) + k] = <<p, k>>
  <2>1. p \in 0 .. Len(keyOf) /\ p - 1 \in 0 .. Len(keyOf)
    BY <1>2
  <2>2. PICK s \in Seq(Word) : s = joined[p - 1]
    BY <1>5, <2>1
  <2>3. PICK t \in Seq(Word) : t = Payload(p)
    BY PayloadFacts
  <2>4. Payloads[p] = t
    BY <1>2, <2>3 DEF Payloads, BodyType
  <2>5. joined[p] = s \o t
    BY <1>3, <2>2, <2>4
  <2>6. Len(t) = sizes[p] /\ \A k \in 1 .. sizes[p] : t[k] = <<p, k>>
    BY <2>3, PayloadFacts
  <2>7. Len(s \o t) = Len(s) + Len(t) /\ \A k \in 1 .. Len(t) : (s \o t)[Len(s) + k] = t[k]
    BY Concatenated
  <2> QED
    BY <2>2, <2>5, <2>6, <2>7
<1>7. \A p \in 0 .. Len(keyOf) : Length[p] = Len(joined[p])
  BY <1>1 DEF Length
<1>8. 0 \in 0 .. Len(keyOf) /\ \A p \in 1 .. Len(keyOf) : p \in 0 .. Len(keyOf) /\ p - 1 \in 0 .. Len(keyOf)
  BY <1>2
<1>9. \A p \in 0 .. Len(keyOf) : \A q \in p .. Len(keyOf) : q \in 0 .. Len(keyOf)
  BY <1>2
<1>10. Length[0] = 0
  BY <1>3, <1>7, <1>8
<1>11. ASSUME NEW p \in 1 .. Len(keyOf)
       PROVE  /\ Length[p] = Length[p - 1] + sizes[p]
              /\ \A k \in 1 .. sizes[p] : joined[p][Length[p - 1] + k] = <<p, k>>
  BY <1>6, <1>7, <1>8
<1>12. ASSUME NEW p \in 0 .. Len(keyOf), NEW q \in p .. Len(keyOf)
       PROVE  /\ Length[p] <= Length[q]
              /\ \A k \in 1 .. Length[p] : joined[q][k] = joined[p][k]
  BY <1>4, <1>7, <1>9
<1> QED
  BY <1>1, <1>5, <1>7, <1>10, <1>11, <1>12

\* Where the cells of a payload are in the whole body.
LEMMA TextCells ==
    ASSUME BodyType, NEW p \in 1 .. Len(keyOf), NEW k \in 1 .. sizes[p]
    PROVE  Text[Len(keyOf)][Length[p - 1] + k] = <<p, k>>
<1>1. p \in 0 .. Len(keyOf) /\ p - 1 \in 0 .. Len(keyOf) /\ Len(keyOf) \in p .. Len(keyOf)
  BY PayloadFacts
<1>2. Length[p - 1] \in Nat /\ Length[p] = Length[p - 1] + sizes[p] /\ sizes[p] \in Nat
  BY <1>1, TextGrows, PayloadFacts
<1>3. PICK n : n = Length[p - 1] + k
  OBVIOUS
<1>4. n \in 1 .. Length[p]
  BY <1>2, <1>3
<1>5. Text[p][n] = <<p, k>>
  BY <1>3, TextGrows
<1>6. Text[Len(keyOf)][n] = Text[p][n]
  BY <1>1, <1>4, TextGrows
<1> QED
  BY <1>3, <1>5, <1>6

\* What was received for a subscription, before a payload and with it.
LEMMA ReceivedGrows ==
    ASSUME BodyType, NEW key \in Keys, NEW p \in 1 .. Len(keyOf)
    PROVE  LET before == Arrived[key][p - 1]
               after  == Arrived[key][p]
           IN  /\ before \in Seq(Word) /\ after \in Seq(Word)
               /\ keyOf[p] # key => after = before
               /\ keyOf[p] = key => /\ Len(after) = Len(before) + sizes[p]
                                    /\ \A k \in 1 .. Len(before) : after[k] = before[k]
                                    /\ \A k \in 1 .. sizes[p] : after[Len(before) + k] = <<p, k>>
<1>0. PICK before, after : before = Arrived[key][p - 1] /\ after = Arrived[key][p]
  OBVIOUS
<1> DEFINE joined == Joined(PayloadsFor(key))
<1>1. /\ PayloadsFor(key) \in Seq(Seq(Word)) /\ Len(PayloadsFor(key)) = Len(keyOf)
      /\ Len(keyOf) \in Nat
  BY PayloadFacts
<1>2. before = joined[p - 1] /\ after = joined[p]
  <2>1. p \in 0 .. Len(keyOf) /\ p - 1 \in 0 .. Len(keyOf)
    BY <1>1
  <2> QED
    BY <1>0, <2>1 DEF Arrived, ReceivedUpTo, PayloadsFor
<1>3. /\ joined \in [0 .. Len(keyOf) -> Seq(Word)]
      /\ \A q \in 1 .. Len(keyOf) : joined[q] = joined[q - 1] \o PayloadsFor(key)[q]
  BY <1>1, JoinedSteps
<1> HIDE DEF joined
<1>4. p \in 0 .. Len(keyOf) /\ p - 1 \in 0 .. Len(keyOf)
  BY <1>1
<1>5. before \in Seq(Word) /\ after \in Seq(Word)
  BY <1>2, <1>3, <1>4
<1>6. PayloadsFor(key)[p] = IF keyOf[p] = key THEN Payload(p) ELSE << >>
  BY <1>1 DEF PayloadsFor, BodyType
<1>7. ASSUME keyOf[p] # key PROVE after = before
  <2>1. after = before \o << >>
    BY <1>2, <1>3, <1>6, <1>7
  <2> QED
    BY <1>5, <2>1, ConcatEmptySeq
<1>8. ASSUME keyOf[p] = key
      PROVE  /\ Len(after) = Len(before) + sizes[p]
             /\ \A k \in 1 .. Len(before) : after[k] = before[k]
             /\ \A k \in 1 .. sizes[p] : after[Len(before) + k] = <<p, k>>
  <2>1. PICK t \in Seq(Word) : t = Payload(p)
    BY PayloadFacts
  <2>2. Len(t) = sizes[p] /\ \A k \in 1 .. sizes[p] : t[k] = <<p, k>>
    BY <2>1, PayloadFacts
  <2>3. after = before \o t
    BY <1>2, <1>3, <1>6, <1>8, <2>1
  <2>4. PICK s \in Seq(Word) : s = before
    BY <1>5
  <2>5. /\ Len(s \o t) = Len(s) + Len(t) /\ \A k \in 1 .. Len(s) : (s \o t)[k] = s[k]
        /\ \A k \in 1 .. Len(t) : (s \o t)[Len(s) + k] = t[k]
    BY Concatenated
  <2> QED
    BY <2>2, <2>3, <2>4, <2>5
<1> QED
  BY <1>0, <1>5, <1>7, <1>8

\* Nothing was received for a subscription that no payload so far is for.
LEMMA ReceivedNothing ==
    ASSUME BodyType, NEW key \in Keys, NEW p \in 0 .. Len(keyOf), \A q \in 1 .. p : keyOf[q] # key
    PROVE  Arrived[key][p] = << >>
<1>1. /\ PayloadsFor(key) \in Seq(Seq(Word)) /\ Len(PayloadsFor(key)) = Len(keyOf)
      /\ Len(keyOf) \in Nat
  BY PayloadFacts
<1>2. \A q \in 1 .. p : PayloadsFor(key)[q] = << >>
  BY <1>1 DEF PayloadsFor, BodyType
<1>3. Joined(PayloadsFor(key))[p] = << >>
  BY <1>1, <1>2, NothingJoined
<1> QED
  BY <1>3 DEF Arrived, ReceivedUpTo, PayloadsFor

\* The payloads of the body stay as they are.
LEMMA BodyStays ==
    ASSUME BodyType, UNCHANGED <<keyOf, sizes>>
    PROVE  /\ BodyType' /\ (Grouped' <=> Grouped)
           /\ Length' = Length /\ Arrived' = Arrived
<1>1. Payloads' = Payloads /\ \A key : PayloadsFor(key)' = PayloadsFor(key)
  BY DEF Payloads, PayloadsFor, Payload
<1>2. Length' = Length
  BY <1>1 DEF Length, Text, Payloads
<1>3. Arrived' = Arrived
  BY <1>1 DEF Arrived, ReceivedUpTo, PayloadsFor
<1> QED
  BY <1>2, <1>3 DEF BodyType, Grouped

\* The subscription that is found in the payload that the loop is at.
LEMMA FoundHere ==
    ASSUME BodyType, UnreadInv, at \in 1 .. Len(keyOf)
    PROVE  Found = keyOf[at] /\ keyOf[at] \in Keys /\ StartOf(at) = Length[at - 1] + 1
<1>1. Intact(at) /\ sizes[at] \in Nat \ {0}
  BY PayloadFacts, SMTT(30) DEF UnreadInv
<1>2. buffer[Length[at - 1] + 1] = <<at, 1>>
  <2>1. 1 \in 1 .. sizes[at]
    BY <1>1
  <2> QED
    BY <1>1, <2>1 DEF Intact
<1>3. StartOf(at) = Length[at - 1] + 1
  <2>1. at - 1 \in 0 .. Len(keyOf)
    BY PayloadFacts
  <2>2. Length[at - 1] = Len(Text[at - 1])
    BY <2>1 DEF Length
  <2> QED
    BY <2>2 DEF StartOf
<1>4. Found = keyOf[at]
  BY <1>2, <1>3 DEF Found
<1>5. keyOf[at] \in Keys
  BY DEF BodyType
<1> QED
  BY <1>3, <1>4, <1>5

\* append writes to cells that the loop is at or has been at, and copies a payload
\* onto itself if the delivery ends where the payload begins.
LEMMA Overwritten ==
    ASSUME BodyType, LoopType, UnreadInv, at \in 1 .. Len(keyOf), NEW to \in Nat,
           to <= Length[at - 1], Overwrite(to)
    PROVE  /\ buffer' \in Seq(Word) /\ Len(buffer') = Len(buffer)
           /\ \A c \in Length[at] + 1 .. Len(buffer) : buffer'[c] = buffer[c]
           /\ to = Length[at - 1] => buffer' = buffer
<1>1. PICK start \in Nat, z \in Nat \ {0} : start = Length[at - 1] /\ z = sizes[at]
  <2>1. at - 1 \in 0 .. Len(keyOf)
    BY PayloadFacts
  <2> QED
    BY <2>1, PayloadFacts, TextGrows
<1>2. Length[at] = start + z /\ Length[at] <= Length[Len(keyOf)]
  <2>1. at \in 0 .. Len(keyOf) /\ Len(keyOf) \in at .. Len(keyOf)
    BY PayloadFacts
  <2> QED
    BY <1>1, <2>1, TextGrows
<1>3. PICK n \in Nat : n = Len(buffer) /\ DOMAIN buffer = 1 .. n /\ start + z < n
  <2>1. Len(buffer) = Length[Len(keyOf)] + 1 /\ Len(buffer) \in Nat /\ DOMAIN buffer = 1 .. Len(buffer)
    BY DEF LoopType
  <2>2. Length[Len(keyOf)] \in Nat
    BY PayloadFacts, TextGrows
  <2> QED
    BY <1>2, <2>1, <2>2
<1>4. buffer' = [c \in 1 .. n |-> IF c \in to + 1 .. to + z THEN buffer[start + 1 + c - (to + 1)]
                                  ELSE buffer[c]]
  BY <1>1, <1>3, FoundHere DEF Overwrite
<1>5. \A c \in 1 .. n : buffer[c] \in Word
  BY <1>3 DEF LoopType
<1>6. ASSUME NEW c \in 1 .. n, c \in to + 1 .. to + z PROVE start + 1 + c - (to + 1) \in 1 .. n
  <2>1. PICK m \in 1 .. z : c = to + m
    <3>1. c - to \in 1 .. z /\ c = to + (c - to)
      BY <1>6
    <3> QED
      BY <3>1
  <2>2. start + 1 + c - (to + 1) = start + m
    BY <2>1
  <2> QED
    BY <1>3, <2>1, <2>2
<1>7. buffer' \in Seq(Word) /\ Len(buffer') = n
  <2>1. \A c \in 1 .. n : buffer'[c] \in Word
    BY <1>4, <1>5, <1>6
  <2>2. buffer' \in [1 .. n -> Word]
    BY <1>4, <2>1
  <2> QED
    BY <2>2
<1>8. ASSUME NEW c \in start + z + 1 .. n PROVE buffer'[c] = buffer[c]
  <2>1. c \in 1 .. n /\ c \notin to + 1 .. to + z
    BY <1>1, <1>3, SMTT(30)
  <2> QED
    BY <1>4, <2>1
<1>9. ASSUME to = start PROVE buffer' = buffer
  <2>1. \A c \in 1 .. n : start + 1 + c - (to + 1) = c
    BY <1>9
  <2>2. \A c \in 1 .. n : buffer'[c] = buffer[c]
    BY <1>4, <2>1
  <2> QED
    BY <1>3, <1>7, <2>2, SeqEqual DEF LoopType
<1> QED
  BY <1>1, <1>2, <1>3, <1>7, <1>8, <1>9

\* The cells of the payloads that are to come are behind those of this one.
LEMMA UnreadStays ==
    ASSUME BodyType, LoopType, UnreadInv, at \in 1 .. Len(keyOf), UNCHANGED <<keyOf, sizes>>,
           at' = at + 1, buffer' \in Seq(Word), Len(buffer') = Len(buffer),
           \A c \in Length[at] + 1 .. Len(buffer) : buffer'[c] = buffer[c]
    PROVE  /\ LoopType' /\ (\A p \in at' .. Len(keyOf') : Intact(p)')
           /\ buffer'[Len(buffer')] = Footer'
<1>1. Length' = Length /\ Len(keyOf) \in Nat
  BY BodyStays, PayloadFacts
<1>2. LoopType'
  BY <1>1 DEF LoopType
<1>3. PICK total \in Nat : total = Length[Len(keyOf)] /\ Len(buffer) = total + 1
  <2>1. Len(keyOf) \in 0 .. Len(keyOf)
    BY <1>1
  <2> QED
    BY <2>1, TextGrows DEF LoopType
<1>4. PICK here \in Nat : here = Length[at]
  BY <1>1, TextGrows
<1>5. here <= total
  <2>1. at \in 0 .. Len(keyOf) /\ Len(keyOf) \in at .. Len(keyOf)
    BY <1>1
  <2> QED
    BY <1>3, <1>4, <2>1, TextGrows
<1>6. ASSUME NEW p \in at' .. Len(keyOf') PROVE Intact(p)'
  <2>1. p \in at .. Len(keyOf) /\ p \in 1 .. Len(keyOf) /\ p - 1 \in at .. Len(keyOf) /\ p - 1 \in 0 .. Len(keyOf)
        /\ at \in 0 .. Len(keyOf)
    BY <1>1
  <2>2. PICK start \in Nat, z \in Nat : start = Length[p - 1] /\ z = sizes[p]
    BY <2>1, PayloadFacts, TextGrows
  <2>3. here <= start /\ start + z <= total
    <3>1. Length[p] = start + z /\ Length[p] <= total
      <4>1. p \in 0 .. Len(keyOf) /\ Len(keyOf) \in p .. Len(keyOf)
        BY <1>1, <2>1
      <4> QED
        BY <1>3, <2>1, <2>2, <4>1, TextGrows
    <3>2. here <= start
      BY <1>4, <2>1, <2>2, TextGrows
    <3> QED
      BY <3>1, <3>2
  <2>4. ASSUME NEW k \in 1 .. z PROVE buffer'[start + k] = <<p, k>>
    <3>1. start + k \in here + 1 .. total + 1
      BY <2>3
    <3>2. buffer'[start + k] = buffer[start + k]
      BY <1>3, <1>4, <3>1
    <3>3. buffer[start + k] = <<p, k>>
      BY <2>1, <2>2 DEF UnreadInv, Intact
    <3> QED
      BY <3>2, <3>3
  <2> QED
    BY <1>1, <2>2, <2>4 DEF Intact
<1>7. buffer'[Len(buffer')] = Footer'
  <2>1. Len(buffer') = total + 1 /\ total + 1 \in here + 1 .. total + 1
    BY <1>3, <1>5
  <2>2. buffer'[total + 1] = buffer[total + 1]
    BY <1>3, <1>4, <2>1
  <2>3. buffer[total + 1] = Footer
    BY <1>3 DEF UnreadInv
  <2> QED
    BY <2>1, <2>2, <2>3 DEF Footer
<1> QED
  BY <1>2, <1>6, <1>7

\* A sequence of deliveries, and one of them with another end.
LEMMA DeliveryFields ==
    ASSUME NEW d \in Seq(Record)
    PROVE  /\ Len(d) \in Nat /\ DOMAIN d = 1 .. Len(d)
           /\ \A h \in 1 .. Len(d) :
                d[h] \in Record /\ d[h].key \in Keys /\ d[h].from \in Nat \ {0} /\ d[h].to \in Nat
<1>1. Len(d) \in Nat /\ DOMAIN d = 1 .. Len(d)
  OBVIOUS
<1>2. ASSUME NEW h \in 1 .. Len(d)
      PROVE  d[h] \in Record /\ d[h].key \in Keys /\ d[h].from \in Nat \ {0} /\ d[h].to \in Nat
  <2>1. d[h] \in Record
    OBVIOUS
  <2> QED
    BY <2>1 DEF Record
<1> QED
  BY <1>1, <1>2

LEMMA LongerDelivery ==
    ASSUME NEW d \in Seq(Record), NEW j \in 1 .. Len(d), NEW to \in Nat,
           NEW e, e = [d EXCEPT ![j].to = to]
    PROVE  /\ e \in Seq(Record) /\ DOMAIN e = 1 .. Len(d)
           /\ \A h \in 1 .. Len(d) : /\ e[h].key = d[h].key /\ e[h].from = d[h].from
                                    /\ e[h].to = IF h = j THEN to ELSE d[h].to
<1>1. Len(d) \in Nat /\ DOMAIN d = 1 .. Len(d) /\ \A h \in 1 .. Len(d) : d[h] \in Record
  BY DeliveryFields
<1>2. PICK r \in Record : r = d[j]
  BY <1>1
<1>3. PICK l : l = [r EXCEPT !.to = to]
  OBVIOUS
<1>4. l \in Record /\ l.key = r.key /\ l.from = r.from /\ l.to = to
  BY <1>3 DEF Record
<1>5. e = [d EXCEPT ![j] = l]
  BY <1>2, <1>3
<1>6. e \in Seq(Record) /\ DOMAIN e = 1 .. Len(d)
  <2>1. \A h \in 1 .. Len(d) : e[h] \in Record
    BY <1>1, <1>4, <1>5
  <2>2. DOMAIN e = 1 .. Len(d) /\ e \in [1 .. Len(d) -> Record]
    BY <1>1, <1>5, <2>1
  <2> QED
    BY <1>1, <2>2
<1>7. ASSUME NEW h \in 1 .. Len(d)
      PROVE  e[h].key = d[h].key /\ e[h].from = d[h].from /\ e[h].to = IF h = j THEN to ELSE d[h].to
  <2>1. CASE h = j
    BY <1>1, <1>2, <1>4, <1>5, <2>1
  <2>2. CASE h # j
    BY <1>1, <1>5, <2>2
  <2> QED
    BY <2>1, <2>2
<1> QED
  BY <1>6, <1>7

\* A delivery gets longer by z cells.
LEMMA LongerBy ==
    ASSUME NEW to \in Nat, NEW from \in Nat, NEW length \in Nat, NEW z \in Nat,
           to + 1 = from + length
    PROVE  to + z + 1 = from + (length + z)
<1> QED
  OBVIOUS

\* A delivery begins behind some cell.
LEMMA BeginsBehind ==
    ASSUME NEW to \in Nat, NEW from \in Nat \ {0}, NEW length \in Nat, to + 1 = from + length
    PROVE  \E start \in Nat : from = start + 1 /\ to = start + length
<1>1. from - 1 \in Nat /\ from = (from - 1) + 1 /\ to = (from - 1) + length
  OBVIOUS
<1> QED
  BY <1>1

\* What ends before a payload of z cells, ends before the next one.
LEMMA EndsBefore ==
    ASSUME NEW end \in Nat, NEW start \in Nat, end <= start, NEW z \in Nat
    PROVE  end <= start + z /\ end + z <= start + z
<1> QED
  OBVIOUS

\* The payload that the loop is at: its subscription, where it begins and where it ends.
LEMMA ThisPayload ==
    ASSUME BodyType, LoopType, UnreadInv, EachInv, at \in DOMAIN sizes
    PROVE  /\ at \in 1 .. Len(keyOf) /\ at \in Nat \ {0} /\ Len(keyOf) \in Nat
           /\ Found = keyOf[at] /\ keyOf[at] \in Keys /\ sizes[at] \in Nat \ {0}
           /\ Length[at - 1] \in Nat /\ Length[at] = Length[at - 1] + sizes[at]
           /\ StartOf(at) = Length[at - 1] + 1 /\ EndOf(at) = Length[at]
<1>1. at \in 1 .. Len(keyOf) /\ Len(keyOf) \in Nat
  BY PayloadFacts DEF BodyType
<1>2. at - 1 \in 0 .. Len(keyOf) /\ at \in Nat \ {0}
  BY <1>1
<1>3. EndOf(at) = Length[at]
  <2>1. at \in 0 .. Len(keyOf)
    BY <1>1
  <2>2. Length[at] = Len(Text[at])
    BY <2>1 DEF Length
  <2> QED
    BY <2>2 DEF EndOf
<1> QED
  BY <1>1, <1>2, <1>3, FoundHere, PayloadFacts, TextGrows

\* A payload is appended to the delivery for its subscription.
LEMMA AppendStep ==
    ASSUME DeliveryInv, AppendPayload
    PROVE  DeliveryInv'
<1>1. /\ BodyType /\ LoopType /\ UnreadInv /\ EachInv /\ GroupedInv /\ at \in DOMAIN sizes
      /\ UNCHANGED <<keyOf, sizes>> /\ at' = at + 1
  BY DEF DeliveryInv, AppendPayload
<1>2. /\ at \in 1 .. Len(keyOf) /\ at \in Nat \ {0} /\ Len(keyOf) \in Nat
      /\ Found = keyOf[at] /\ keyOf[at] \in Keys /\ sizes[at] \in Nat \ {0}
      /\ Length[at - 1] \in Nat /\ Length[at] = Length[at - 1] + sizes[at]
  BY <1>1, ThisPayload
<1>3. PICK j \in DOMAIN deliveries :
        /\ deliveries[j].key = keyOf[at] /\ Overwrite(deliveries[j].to)
        /\ deliveries' = [deliveries EXCEPT ![j].to = deliveries[j].to + sizes[at]]
  BY <1>2 DEF AppendPayload, Joins
<1>4. PICK d \in Seq(Record), n \in Nat :
        /\ d = deliveries /\ n = Len(d) /\ DOMAIN d = 1 .. n /\ j \in 1 .. n
        /\ \A h \in 1 .. n : d[h].key \in Keys /\ d[h].from \in Nat \ {0} /\ d[h].to \in Nat
  <2>1. PICK d \in Seq(Record) : d = deliveries
    BY <1>1 DEF UnreadInv, Record
  <2> QED
    BY <1>3, <2>1, DeliveryFields
<1>5. PICK to \in Nat, z \in Nat \ {0}, start \in Nat :
        to = d[j].to /\ z = sizes[at] /\ start = Length[at - 1] /\ to <= start /\ Length[at] = start + z
  BY <1>1, <1>2, <1>3, <1>4 DEF UnreadInv
<1>6. Overwrite(to)
  BY <1>3, <1>4, <1>5
<1>7. PICK e \in Seq(Record) :
        /\ e = deliveries' /\ DOMAIN e = 1 .. n
        /\ \A h \in 1 .. n : /\ e[h].key = d[h].key /\ e[h].from = d[h].from
                            /\ e[h].to = IF h = j THEN to + z ELSE d[h].to
  <2>1. PICK t \in Nat : t = to + z
    BY <1>5
  <2>2. PICK e : e = [d EXCEPT ![j].to = t]
    OBVIOUS
  <2>3. e = deliveries'
    BY <1>3, <1>4, <1>5, <2>1, <2>2
  <2>4. /\ e \in Seq(Record) /\ DOMAIN e = 1 .. Len(d)
        /\ \A h \in 1 .. Len(d) : /\ e[h].key = d[h].key /\ e[h].from = d[h].from
                                 /\ e[h].to = IF h = j THEN t ELSE d[h].to
    <3>1. d \in Seq(Record) /\ j \in 1 .. Len(d) /\ t \in Nat /\ e = [d EXCEPT ![j].to = t]
      BY <1>4, <2>1, <2>2
    <3> QED
      BY <3>1, LongerDelivery, SMTT(30)
  <2> QED
    BY <1>4, <2>1, <2>3, <2>4
<1>8. /\ buffer' \in Seq(Word) /\ Len(buffer') = Len(buffer)
      /\ \A c \in Length[at] + 1 .. Len(buffer) : buffer'[c] = buffer[c]
      /\ to = start => buffer' = buffer
  BY <1>1, <1>2, <1>5, <1>6, Overwritten
<1>9. /\ BodyType' /\ (Grouped' <=> Grouped) /\ Length' = Length
      /\ Arrived' = Arrived /\ at' - 1 = at
  BY <1>1, <1>2, BodyStays
<1>10. LoopType' /\ UnreadInv'
  <2>1. /\ LoopType' /\ (\A p \in at' .. Len(keyOf') : Intact(p)')
        /\ buffer'[Len(buffer')] = Footer'
    BY <1>1, <1>2, <1>8, UnreadStays
  <2>2. ASSUME NEW h \in 1 .. n PROVE e[h].to <= Length[at]
    <3>1. PICK end \in Nat : end = d[h].to /\ end <= start
      BY <1>1, <1>4, <1>5 DEF UnreadInv
    <3>2. to \in Nat /\ z \in Nat /\ start \in Nat /\ to <= start
      BY <1>5
    <3>3. end <= start + z
      BY <3>1, <3>2, EndsBefore
    <3>4. to + z <= start + z
      BY <3>2, EndsBefore
    <3> QED
      BY <1>5, <1>7, <3>1, <3>3, <3>4
  <2>3. Length'[at' - 1] = Length[at]
    BY <1>9
  <2> QED
    BY <1>7, <2>1, <2>2, <2>3 DEF UnreadInv, Record
<1>11. PICK before, after : /\ before = [h \in 1 .. n |-> Arrived[d[h].key][at - 1]]
                           /\ after  = [h \in 1 .. n |-> Arrived[d[h].key][at]]
  OBVIOUS
<1>12. /\ \A g, h \in 1 .. n : d[g].key = d[h].key => g = h
       /\ \A p \in 1 .. at - 1 : \E h \in 1 .. n : d[h].key = keyOf[p]
       /\ \A h \in 1 .. n : /\ \E p \in 1 .. at - 1 : d[h].key = keyOf[p]
                           /\ d[h].to + 1 = d[h].from + Len(before[h])
  <2>1. EachInv /\ deliveries = d /\ DOMAIN d = 1 .. n
    BY <1>1, <1>4
  <2>2. \A h \in 1 .. n : Arrived[d[h].key][at - 1] = before[h]
    BY <1>11
  <2>3. \A g, h \in 1 .. n : d[g].key = d[h].key => g = h
    BY <2>1 DEF EachInv
  <2>4. \A p \in 1 .. at - 1 : \E h \in 1 .. n : d[h].key = keyOf[p]
    BY <2>1 DEF EachInv
  <2>5. ASSUME NEW h \in 1 .. n
        PROVE  (\E p \in 1 .. at - 1 : d[h].key = keyOf[p]) /\ d[h].to + 1 = d[h].from + Len(before[h])
    <3>1. h \in DOMAIN deliveries /\ deliveries[h] = d[h]
      BY <2>1
    <3>2. /\ \E p \in 1 .. at - 1 : deliveries[h].key = keyOf[p]
          /\ deliveries[h].to + 1 = deliveries[h].from + Len(Arrived[deliveries[h].key][at - 1])
      BY <2>1, <3>1, Zenon DEF EachInv
    <3>3. Arrived[deliveries[h].key][at - 1] = before[h]
      BY <2>2, <3>1
    <3> QED
      BY <3>1, <3>2, <3>3
  <2> QED
    BY <2>3, <2>4, <2>5
<1>13. Grouped =>
         /\ \A p \in 1 .. Len(keyOf) : Intact(p)
         /\ \A h \in 1 .. n :
              /\ d[h].key = keyOf[at - 1] => d[h].to = start
              /\ \A k \in 1 .. Len(before[h]) : buffer[d[h].from + k - 1] = before[h][k]
  <2>1. GroupedInv /\ deliveries = d /\ DOMAIN d = 1 .. n /\ start = Length[at - 1]
    BY <1>1, <1>4, <1>5
  <2>2. \A h \in 1 .. n : Arrived[d[h].key][at - 1] = before[h]
    BY <1>11
  <2> SUFFICES ASSUME Grouped
               PROVE  /\ \A p \in 1 .. Len(keyOf) : Intact(p)
                      /\ \A h \in 1 .. n :
                           /\ d[h].key = keyOf[at - 1] => d[h].to = start
                           /\ \A k \in 1 .. Len(before[h]) : buffer[d[h].from + k - 1] = before[h][k]
    OBVIOUS
  <2>3. \A p \in 1 .. Len(keyOf) : Intact(p)
    BY <2>1 DEF GroupedInv
  <2>4. ASSUME NEW h \in 1 .. n
        PROVE  /\ d[h].key = keyOf[at - 1] => d[h].to = start
               /\ \A k \in 1 .. Len(before[h]) : buffer[d[h].from + k - 1] = before[h][k]
    <3>1. h \in DOMAIN deliveries /\ deliveries[h] = d[h]
      BY <2>1
    <3>2. /\ deliveries[h].key = keyOf[at - 1] => deliveries[h].to = Length[at - 1]
          /\ \A k \in 1 .. Len(Arrived[deliveries[h].key][at - 1]) :
               buffer[deliveries[h].from + k - 1] = Arrived[deliveries[h].key][at - 1][k]
      BY <2>1, <3>1, Zenon DEF GroupedInv
    <3>3. Arrived[deliveries[h].key][at - 1] = before[h]
      BY <2>2, <3>1
    <3> QED
      BY <2>1, <3>1, <3>2, <3>3
  <2> QED
    BY <2>3, <2>4
<1>14. \A h \in 1 .. n : Arrived'[e[h].key][at' - 1] = after[h]
  BY <1>7, <1>9, <1>11
<1>15. ASSUME NEW h \in 1 .. n
       PROVE  /\ before[h] \in Seq(Word) /\ after[h] \in Seq(Word)
              /\ h # j => after[h] = before[h]
              /\ h = j => /\ Len(after[h]) = Len(before[h]) + z
                          /\ \A k \in 1 .. Len(before[h]) : after[h][k] = before[h][k]
                          /\ \A k \in 1 .. z : after[h][Len(before[h]) + k] = <<at, k>>
  <2>1. h # j <=> d[h].key # keyOf[at]
    BY <1>3, <1>4, <1>12
  <2>2. PICK key \in Keys : key = d[h].key
    BY <1>4
  <2>3. before[h] = Arrived[key][at - 1] /\ after[h] = Arrived[key][at]
    BY <1>11, <2>2
  <2>4. BodyType /\ key \in Keys /\ at \in 1 .. Len(keyOf)
    BY <1>1, <1>2, <2>2
  <2>5. keyOf[at] = key <=> h = j
    BY <2>1, <2>2
  <2>6. PICK r, t : r = Arrived[key][at - 1] /\ t = Arrived[key][at]
    OBVIOUS
  <2>7. /\ r \in Seq(Word) /\ t \in Seq(Word)
        /\ keyOf[at] # key => t = r
        /\ keyOf[at] = key => /\ Len(t) = Len(r) + sizes[at]
                              /\ \A k \in 1 .. Len(r) : t[k] = r[k]
                              /\ \A k \in 1 .. sizes[at] : t[Len(r) + k] = <<at, k>>
    BY <2>4, <2>6, ReceivedGrows
  <2>8. before[h] = r /\ after[h] = t /\ sizes[at] = z
    BY <1>5, <2>3, <2>6
  <2> QED
    BY <2>5, <2>7, <2>8
<1>16. ASSUME NEW h \in 1 .. n PROVE Len(before[h]) \in Nat /\ Len(after[h]) \in Nat
  BY <1>15
<1>17. EachInv'
  <2>1. \A g, h \in 1 .. n : e[g].key = e[h].key => g = h
    BY <1>7, <1>12
  <2>2. ASSUME NEW p \in 1 .. at PROVE \E h \in 1 .. n : e[h].key = keyOf[p]
    <3>1. CASE p = at
      BY <1>3, <1>4, <1>7, <3>1
    <3>2. CASE p # at
      <4>1. p \in 1 .. at - 1
        BY <1>2, <3>2
      <4> QED
        BY <1>7, <1>12, <4>1
    <3> QED
      BY <3>1, <3>2
  <2>3. ASSUME NEW h \in 1 .. n
        PROVE  /\ \E p \in 1 .. at : e[h].key = keyOf[p]
               /\ e[h].to + 1 = e[h].from + Len(after[h])
    <3>0. 1 .. at - 1 \subseteq 1 .. at
      BY <1>2
    <3>1. \E p \in 1 .. at : d[h].key = keyOf[p]
      BY <1>12, <3>0
    <3>2. d[h].to + 1 = d[h].from + Len(before[h])
      BY <1>12
    <3>3. d[h].to \in Nat /\ d[h].from \in Nat /\ Len(before[h]) \in Nat
      BY <1>4, <1>16
    <3>4. e[h].to + 1 = e[h].from + Len(after[h])
      <4>1. CASE h = j
        <5>1. e[h].to = to + z /\ Len(after[h]) = Len(before[h]) + z /\ d[h].to = to
          BY <1>5, <1>7, <1>15, <4>1
        <5> QED
          <6>1. PICK from \in Nat, l \in Nat :
                  from = d[h].from /\ l = Len(before[h]) /\ to + 1 = from + l
            BY <3>2, <3>3, <5>1
          <6>2. to \in Nat /\ z \in Nat /\ from \in Nat /\ l \in Nat /\ to + 1 = from + l
            BY <1>5, <6>1
          <6>3. to + z + 1 = from + (l + z)
            BY <6>2, LongerBy
          <6>4. e[h].from = from
            BY <1>7, <6>1
          <6> QED
            BY <5>1, <6>1, <6>3, <6>4
      <4>2. CASE h # j
        BY <1>7, <1>15, <3>2, <4>2
      <4> QED
        BY <4>1, <4>2
    <3> QED
      BY <1>7, <3>1, <3>4
  <2>4. deliveries' = e /\ DOMAIN e = 1 .. n /\ at' - 1 = at /\ keyOf' = keyOf
    BY <1>1, <1>7, <1>9
  <2>5. \A h \in 1 .. n : e[h].to + 1 = e[h].from + Len(Arrived'[e[h].key][at' - 1])
    BY <1>14, <2>3
  <2>6. \A p \in 1 .. at' - 1 : \E h \in DOMAIN e : e[h].key = keyOf'[p]
    BY <2>2, <2>4
  <2>7. \A h \in DOMAIN e : \E p \in 1 .. at' - 1 : e[h].key = keyOf'[p]
    BY <2>3, <2>4
  <2> QED
    BY <2>1, <2>4, <2>5, <2>6, <2>7 DEF EachInv
<1>18. GroupedInv'
  <2> SUFFICES ASSUME Grouped
               PROVE  /\ \A p \in 1 .. Len(keyOf) : Intact(p)'
                      /\ \A h \in 1 .. n :
                           /\ e[h].key = keyOf[at] => e[h].to = Length[at]
                           /\ \A k \in 1 .. Len(after[h]) :
                                buffer'[d[h].from + k - 1] = after[h][k]
    <3>1. keyOf'[at' - 1] = keyOf[at] /\ Length'[at' - 1] = Length[at] /\ keyOf' = keyOf
      BY <1>1, <1>9
    <3> QED
      BY <1>7, <1>9, <1>14, <3>1 DEF GroupedInv
  <2>1. PICK p \in 1 .. at - 1 : keyOf[p] = keyOf[at]
    BY <1>3, <1>4, <1>12
  <2>2. keyOf[at - 1] = keyOf[at]
    <3>1. /\ p \in DOMAIN keyOf /\ at \in DOMAIN keyOf /\ at - 1 \in p .. at
      BY <1>1, <1>2 DEF BodyType
    <3> QED
      BY <2>1, <3>1 DEF Grouped
  <2>3. to = start
    BY <1>3, <1>4, <1>5, <1>13, <2>2
  <2>4. buffer' = buffer
    BY <1>8, <2>3
  <2>5. \A q \in 1 .. Len(keyOf) : Intact(q) /\ Intact(q)'
    BY <1>1, <1>9, <1>13, <2>4 DEF Intact
  <2>6. ASSUME NEW h \in 1 .. n, e[h].key = keyOf[at] PROVE e[h].to = Length[at]
    <3>1. h = j
      BY <1>3, <1>4, <1>7, <1>12, <2>6
    <3> QED
      BY <1>5, <1>7, <2>3, <3>1
  <2>7. ASSUME NEW h \in 1 .. n, NEW k \in 1 .. Len(after[h])
        PROVE  buffer'[d[h].from + k - 1] = after[h][k]
    <3>1. \A m \in 1 .. Len(before[h]) : buffer[d[h].from + m - 1] = before[h][m]
      BY <1>13
    <3>2. PICK l \in Nat, from \in Nat : l = Len(before[h]) /\ from = d[h].from
      BY <1>4, <1>16
    <3>3. to + 1 = d[j].from + Len(before[j])
      BY <1>4, <1>5, <1>12
    <3>4. CASE h # j \/ k <= l
      <4>1. k \in 1 .. l /\ after[h][k] = before[h][k]
        BY <1>15, <3>2, <3>4
      <4> QED
        BY <2>4, <3>1, <3>2, <4>1
    <3>5. CASE h = j /\ k > l
      <4>1. PICK m \in 1 .. z : k = l + m
        <5>0. k \in 1 .. l + z
          BY <1>15, <3>2, <3>5
        <5>1. k - l \in 1 .. z /\ k = l + (k - l)
          BY <3>5, <5>0
        <5> QED
          BY <5>1
      <4>2. after[h][k] = <<at, m>>
        BY <1>15, <3>2, <3>5, <4>1
      <4>3. buffer[start + m] = <<at, m>>
        BY <1>2, <1>5, <2>5 DEF Intact
      <4>4. from + k - 1 = start + m
        <5>1. start + 1 = from + l
          BY <2>3, <3>2, <3>3, <3>5
        <5> QED
          BY <4>1, <5>1
      <4> QED
        BY <2>4, <3>2, <4>2, <4>3, <4>4
    <3> QED
      BY <3>2, <3>4, <3>5
  <2> QED
    BY <2>5, <2>6, <2>7
<1> QED
  BY <1>9, <1>10, <1>17, <1>18 DEF DeliveryInv

\* A payload is the first one for its subscription, and becomes a delivery.
LEMMA NewDeliveryStep ==
    ASSUME DeliveryInv, NewDelivery
    PROVE  DeliveryInv'
<1>1. /\ BodyType /\ LoopType /\ UnreadInv /\ EachInv /\ GroupedInv /\ at \in DOMAIN sizes
      /\ UNCHANGED <<keyOf, sizes, buffer>> /\ at' = at + 1
  BY DEF DeliveryInv, NewDelivery
<1>2. /\ at \in 1 .. Len(keyOf) /\ at \in Nat \ {0} /\ Len(keyOf) \in Nat
      /\ Found = keyOf[at] /\ keyOf[at] \in Keys /\ sizes[at] \in Nat \ {0}
      /\ Length[at - 1] \in Nat /\ Length[at] = Length[at - 1] + sizes[at]
      /\ StartOf(at) = Length[at - 1] + 1 /\ EndOf(at) = Length[at]
  BY <1>1, ThisPayload
<1>3. PICK d \in Seq(Record), n \in Nat :
        /\ d = deliveries /\ n = Len(d) /\ DOMAIN d = 1 .. n
        /\ \A h \in 1 .. n : d[h].key \in Keys /\ d[h].from \in Nat \ {0} /\ d[h].to \in Nat
  <2>1. PICK d \in Seq(Record) : d = deliveries
    BY <1>1 DEF UnreadInv, Record
  <2> QED
    BY <2>1, DeliveryFields
<1>4. \A h \in 1 .. n : d[h].key # keyOf[at]
  BY <1>2, <1>3 DEF NewDelivery
<1>5. PICK z \in Nat \ {0}, start \in Nat : z = sizes[at] /\ start = Length[at - 1] /\ Length[at] = start + z
  BY <1>2
<1>6. PICK r \in Record : /\ r.key = keyOf[at] /\ r.from = start + 1 /\ r.to = start + z
                          /\ deliveries' = Append(d, r)
  <2>1. PICK r : r = [key |-> keyOf[at], from |-> start + 1, to |-> start + z]
    OBVIOUS
  <2>2. r \in Record /\ r.key = keyOf[at] /\ r.from = start + 1 /\ r.to = start + z
    BY <1>2, <2>1 DEF Record
  <2>3. deliveries' = Append(d, r)
    BY <1>2, <1>3, <1>5, <2>1 DEF NewDelivery
  <2> QED
    BY <2>2, <2>3
<1>7. PICK e \in Seq(Record) : /\ e = deliveries' /\ DOMAIN e = 1 .. n + 1
                               /\ (\A h \in 1 .. n : e[h] = d[h]) /\ e[n + 1] = r
  <2>1. PICK e : e = Append(d, r)
    OBVIOUS
  <2>2. /\ e \in Seq(Record) /\ Len(e) = n + 1
        /\ (\A h \in 1 .. n : e[h] = d[h]) /\ e[n + 1] = r
    BY <1>3, <1>6, <2>1, AppendProperties
  <2>3. DOMAIN e = 1 .. n + 1
    BY <2>2
  <2> QED
    BY <1>6, <2>1, <2>2, <2>3
<1>8. /\ BodyType' /\ (Grouped' <=> Grouped) /\ Length' = Length
      /\ Arrived' = Arrived /\ at' - 1 = at /\ keyOf' = keyOf /\ buffer' = buffer
  BY <1>1, <1>2, BodyStays
<1>9. LoopType' /\ UnreadInv'
  <2>1. buffer' \in Seq(Word) /\ Len(buffer') = Len(buffer) /\ UNCHANGED <<keyOf, sizes>>
    BY <1>1 DEF LoopType
  <2>2. /\ LoopType' /\ (\A p \in at' .. Len(keyOf') : Intact(p)')
        /\ buffer'[Len(buffer')] = Footer'
    BY <1>1, <1>2, <2>1, UnreadStays
  <2>3. ASSUME NEW h \in 1 .. n + 1 PROVE e[h].to <= Length[at]
    <3>1. CASE h = n + 1
      BY <1>5, <1>6, <1>7, <3>1
    <3>2. CASE h \in 1 .. n
      <4>1. PICK end \in Nat : end = d[h].to /\ end <= start /\ e[h] = d[h]
        BY <1>1, <1>3, <1>5, <1>7, <3>2 DEF UnreadInv
      <4>2. z \in Nat /\ start \in Nat
        BY <1>5
      <4>3. end <= start + z
        BY <4>1, <4>2, EndsBefore
      <4> QED
        BY <1>5, <4>1, <4>3
    <3> QED
      BY <1>3, <3>1, <3>2
  <2>4. Length'[at' - 1] = Length[at]
    BY <1>8
  <2> QED
    BY <1>7, <2>2, <2>3, <2>4 DEF UnreadInv, Record
<1>10. ASSUME NEW q \in 1 .. at - 1 PROVE keyOf[q] # keyOf[at]
  <2>1. PICK h \in DOMAIN deliveries : deliveries[h].key = keyOf[q]
    BY <1>1 DEF EachInv
  <2> QED
    BY <1>3, <1>4, <2>1
<1>11. ASSUME NEW h \in 1 .. n PROVE Arrived[d[h].key][at] = Arrived[d[h].key][at - 1]
  <2>1. PICK key \in Keys : key = d[h].key /\ key # keyOf[at]
    BY <1>3, <1>4
  <2>2. Arrived[key][at] = Arrived[key][at - 1]
    BY <1>1, <1>2, <2>1, ReceivedGrows
  <2> QED
    BY <2>1, <2>2
<1>12. PICK t \in Seq(Word) :
         t = Arrived[keyOf[at]][at] /\ Len(t) = z /\ \A k \in 1 .. z : t[k] = <<at, k>>
  <2>1. PICK key \in Keys : key = keyOf[at]
    BY <1>2
  <2>2. at - 1 \in 0 .. Len(keyOf)
    BY <1>2
  <2>3. Arrived[key][at - 1] = << >>
    BY <1>1, <1>10, <2>1, <2>2, ReceivedNothing
  <2>4. PICK s, t : s = Arrived[key][at - 1] /\ t = Arrived[key][at]
    OBVIOUS
  <2>5. /\ t \in Seq(Word) /\ Len(t) = Len(s) + sizes[at]
        /\ \A k \in 1 .. sizes[at] : t[Len(s) + k] = <<at, k>>
    BY <1>1, <1>2, <2>1, <2>4, ReceivedGrows
  <2>6. Len(s) = 0
    BY <2>3, <2>4
  <2>7. Len(t) = z /\ \A k \in 1 .. z : t[k] = <<at, k>>
    BY <1>5, <2>5, <2>6
  <2> QED
    BY <2>1, <2>4, <2>5, <2>7
<1>13. EachInv'
  <2>1. ASSUME NEW g \in 1 .. n + 1, NEW h \in 1 .. n + 1, e[g].key = e[h].key PROVE g = h
    <3>1. CASE g = n + 1 /\ h \in 1 .. n
      BY <1>4, <1>6, <1>7, <2>1, <3>1
    <3>2. CASE h = n + 1 /\ g \in 1 .. n
      BY <1>4, <1>6, <1>7, <2>1, <3>2
    <3>3. CASE g \in 1 .. n /\ h \in 1 .. n
      <4>1. d[g].key = d[h].key
        BY <1>7, <2>1, <3>3
      <4> QED
        BY <1>1, <1>3, <3>3, <4>1 DEF EachInv
    <3> QED
      BY <1>3, <3>1, <3>2, <3>3
  <2>2. ASSUME NEW p \in 1 .. at PROVE \E h \in 1 .. n + 1 : e[h].key = keyOf[p]
    <3>1. CASE p = at
      <4>1. n + 1 \in 1 .. n + 1 /\ e[n + 1].key = keyOf[p]
        BY <1>3, <1>6, <1>7, <3>1
      <4> QED
        BY <4>1
    <3>2. CASE p # at
      <4>1. p \in 1 .. at - 1
        BY <1>2, <3>2
      <4>2. PICK h \in DOMAIN deliveries : deliveries[h].key = keyOf[p]
        BY <1>1, <4>1 DEF EachInv
      <4>3. h \in 1 .. n + 1 /\ e[h].key = keyOf[p]
        BY <1>3, <1>7, <4>2
      <4> QED
        BY <4>3
    <3> QED
      BY <3>1, <3>2
  <2>3. ASSUME NEW h \in 1 .. n + 1
        PROVE  /\ \E p \in 1 .. at : e[h].key = keyOf[p]
               /\ e[h].to + 1 = e[h].from + Len(Arrived[e[h].key][at])
    <3>1. CASE h = n + 1
      <4>1. e[h] = r /\ at \in 1 .. at
        BY <1>2, <1>7, <3>1
      <4>2. e[h].to + 1 = e[h].from + Len(Arrived[e[h].key][at])
        <5>1. Arrived[e[h].key][at] = t /\ e[h].to = start + z /\ e[h].from = start + 1
          BY <1>6, <1>12, <4>1
        <5>2. start + z + 1 = start + 1 + Len(t)
          <6>1. start \in Nat /\ z \in Nat /\ Len(t) = z
            BY <1>5, <1>12
          <6> QED
            BY <6>1
        <5> QED
          BY <5>1, <5>2
      <4> QED
        BY <1>6, <4>1, <4>2
    <3>2. CASE h \in 1 .. n
      <4>1. h \in DOMAIN deliveries /\ deliveries[h] = d[h] /\ e[h] = d[h]
        BY <1>3, <1>7, <3>2
      <4>2. /\ \E p \in 1 .. at - 1 : deliveries[h].key = keyOf[p]
            /\ deliveries[h].to + 1 = deliveries[h].from + Len(Arrived[deliveries[h].key][at - 1])
        BY <1>1, <4>1, Zenon DEF EachInv
      <4>3. 1 .. at - 1 \subseteq 1 .. at
        BY <1>2
      <4>4. Arrived[e[h].key][at] = Arrived[deliveries[h].key][at - 1]
        BY <1>11, <3>2, <4>1
      <4> QED
        BY <4>1, <4>2, <4>3, <4>4
    <3> QED
      BY <1>3, <3>1, <3>2
  <2>4. deliveries' = e /\ DOMAIN e = 1 .. n + 1 /\ at' - 1 = at /\ keyOf' = keyOf /\ Arrived' = Arrived
    BY <1>7, <1>8
  <2>5. \A h \in DOMAIN e : e[h].to + 1 = e[h].from + Len(Arrived'[e[h].key][at' - 1])
    BY <2>3, <2>4
  <2>6. \A p \in 1 .. at' - 1 : \E h \in DOMAIN e : e[h].key = keyOf'[p]
    BY <2>2, <2>4
  <2>7. \A h \in DOMAIN e : \E p \in 1 .. at' - 1 : e[h].key = keyOf'[p]
    BY <2>3, <2>4
  <2> QED
    BY <2>1, <2>4, <2>5, <2>6, <2>7 DEF EachInv
<1>14. GroupedInv'
  <2> SUFFICES ASSUME Grouped
               PROVE  /\ \A p \in 1 .. Len(keyOf) : Intact(p)'
                      /\ \A h \in 1 .. n + 1 :
                           /\ e[h].key = keyOf[at] => e[h].to = Length[at]
                           /\ \A k \in 1 .. Len(Arrived[e[h].key][at]) :
                                buffer[e[h].from + k - 1] = Arrived[e[h].key][at][k]
    <3>1. /\ keyOf'[at' - 1] = keyOf[at] /\ Length'[at' - 1] = Length[at] /\ keyOf' = keyOf
          /\ deliveries' = e /\ DOMAIN e = 1 .. n + 1
      BY <1>7, <1>8
    <3> QED
      BY <1>8, <3>1 DEF GroupedInv
  <2>1. \A p \in 1 .. Len(keyOf) : Intact(p)
    BY <1>1 DEF GroupedInv
  <2>2. \A p \in 1 .. Len(keyOf) : Intact(p)'
    BY <1>1, <1>8, <2>1 DEF Intact
  <2>3. ASSUME NEW h \in 1 .. n + 1
        PROVE  /\ e[h].key = keyOf[at] => e[h].to = Length[at]
               /\ \A k \in 1 .. Len(Arrived[e[h].key][at]) :
                    buffer[e[h].from + k - 1] = Arrived[e[h].key][at][k]
    <3>1. CASE h = n + 1
      <4>1. e[h].key = keyOf[at] /\ e[h].to = Length[at] /\ e[h].from = start + 1
        BY <1>5, <1>6, <1>7, <3>1
      <4>2. ASSUME NEW k \in 1 .. z PROVE buffer[start + 1 + k - 1] = t[k]
        <5>1. buffer[start + k] = <<at, k>>
          BY <1>2, <1>5, <2>1 DEF Intact
        <5>2. start + 1 + k - 1 = start + k
          BY <1>5
        <5> QED
          BY <1>12, <5>1, <5>2
      <4> QED
        BY <1>12, <4>1, <4>2
    <3>2. CASE h \in 1 .. n
      <4>1. h \in DOMAIN deliveries /\ deliveries[h] = e[h] /\ e[h] = d[h]
        BY <1>3, <1>7, <3>2
      <4>2. \A k \in 1 .. Len(Arrived[deliveries[h].key][at - 1]) :
              buffer[deliveries[h].from + k - 1] = Arrived[deliveries[h].key][at - 1][k]
        BY <1>1, <4>1, Zenon DEF GroupedInv
      <4>3. Arrived[e[h].key][at] = Arrived[deliveries[h].key][at - 1] /\ e[h].key # keyOf[at]
        BY <1>4, <1>11, <3>2, <4>1
      <4> QED
        BY <4>1, <4>2, <4>3
    <3> QED
      BY <1>3, <3>1, <3>2
  <2> QED
    BY <2>2, <2>3
<1> QED
  BY <1>8, <1>9, <1>13, <1>14 DEF DeliveryInv

\* The buffer is the body as it was received, and nothing is delivered yet.
LEMMA DeliveryInit == SplitInit => DeliveryInv
<1> SUFFICES ASSUME SplitInit PROVE DeliveryInv
  OBVIOUS
<1>1. PICK n \in 1 .. MaxPayloads :
        keyOf \in [1 .. n -> Keys] /\ sizes \in [1 .. n -> 1 .. MaxCells]
  BY DEF SplitInit
<1>2. at = 1 /\ deliveries = << >> /\ buffer = Append(Text[Len(keyOf)], Footer)
  BY DEF SplitInit
<1>3. n \in Nat \ {0} /\ keyOf \in Seq(Keys) /\ Len(keyOf) = n
  BY <1>1
<1>4. BodyType
  <2>1. sizes \in [1 .. n -> Nat \ {0}]
    BY <1>1
  <2> QED
    BY <1>3, <2>1 DEF BodyType
<1>5. n \in 0 .. n /\ 0 \in 0 .. n
  BY <1>3
<1>6. PICK text \in Seq(Word) : text = Text[n]
  BY <1>3, <1>4, <1>5, TextGrows
<1>7. Length[n] = Len(text) /\ Length[0] = 0
  BY <1>3, <1>4, <1>5, <1>6, TextGrows DEF Length
<1>8. Footer \in Word
  BY DEF Footer, Word
<1>9. PICK b : b = Append(text, Footer)
  OBVIOUS
<1>10. /\ b \in Seq(Word) /\ Len(b) = Len(text) + 1
       /\ (\A k \in 1 .. Len(text) : b[k] = text[k]) /\ b[Len(text) + 1] = Footer
  BY <1>6, <1>8, <1>9, AppendProperties
<1>11. b = buffer
  BY <1>2, <1>3, <1>6, <1>9
<1>12. LoopType
  BY <1>2, <1>3, <1>7, <1>10, <1>11 DEF LoopType
<1>13. ASSUME NEW p \in 1 .. n PROVE Intact(p)
  <2>1. p - 1 \in 0 .. n /\ p \in 0 .. n /\ n \in p .. n
    BY <1>3
  <2>2. PICK start \in Nat, z \in Nat \ {0} : start = Length[p - 1] /\ z = sizes[p]
    BY <1>3, <1>4, <2>1, PayloadFacts, TextGrows
  <2>3. Length[p] = start + z /\ Length[p] <= Length[n]
    BY <1>3, <1>4, <2>1, <2>2, TextGrows
  <2>4. ASSUME NEW k \in 1 .. z PROVE buffer[start + k] = <<p, k>>
    <3>1. text[start + k] = <<p, k>>
      BY <1>3, <1>4, <1>6, <2>2, TextCells
    <3>2. start + k \in 1 .. Len(text)
      <4>1. start + z <= Len(text) /\ Len(text) \in Nat
        BY <1>7, <2>3
      <4> QED
        BY <2>2, <4>1
    <3> QED
      BY <1>10, <1>11, <3>1, <3>2
  <2> QED
    BY <2>2, <2>4 DEF Intact
<1>14. deliveries \in Seq(Record) /\ DOMAIN deliveries = {}
  BY <1>2
<1>15. UnreadInv
  BY <1>2, <1>3, <1>10, <1>11, <1>13, <1>14 DEF UnreadInv
<1>16. EachInv
  BY <1>2, <1>14 DEF EachInv
<1>17. GroupedInv
  BY <1>3, <1>13, <1>14 DEF GroupedInv
<1> QED
  BY <1>4, <1>12, <1>15, <1>16, <1>17 DEF DeliveryInv

LEMMA DeliveryStep == DeliveryInv /\ [SplitNext]_splitVars => DeliveryInv'
<1> SUFFICES ASSUME DeliveryInv, [SplitNext]_splitVars PROVE DeliveryInv'
  OBVIOUS
<1>1. CASE AppendPayload
  BY <1>1, AppendStep
<1>2. CASE NewDelivery
  BY <1>2, NewDeliveryStep
<1>3. CASE UNCHANGED splitVars
  <2>1. UNCHANGED <<keyOf, sizes, buffer, at, deliveries>>
    BY <1>3 DEF splitVars
  <2>2. BodyType' /\ (Grouped' <=> Grouped) /\ Length' = Length /\ Arrived' = Arrived
    BY <2>1, BodyStays DEF DeliveryInv
  <2>3. BodyType /\ LoopType /\ UnreadInv /\ EachInv /\ GroupedInv
    BY DEF DeliveryInv
  <2>4. \A p : Intact(p) => Intact(p)'
    BY <2>1, <2>2 DEF Intact
  <2>5. LoopType' /\ UnreadInv'
    BY <2>1, <2>2, <2>3, <2>4 DEF LoopType, UnreadInv, Footer
  <2>6. EachInv' /\ GroupedInv'
    BY <2>1, <2>2, <2>3, <2>4 DEF EachInv, GroupedInv
  <2> QED
    BY <2>2, <2>5, <2>6 DEF DeliveryInv
<1> QED
  BY <1>1, <1>2, <1>3 DEF SplitNext

LEMMA DeliveryInvHolds == SplitSpec => []DeliveryInv
<1> QED
  BY DeliveryInit, DeliveryStep, PTL DEF SplitSpec

\* A part of a sequence.
LEMMA PartProperties ==
    ASSUME NEW S, NEW b \in Seq(S), NEW start \in Nat, NEW length \in Nat,
           start + length <= Len(b)
    PROVE  /\ SubSeq(b, start + 1, start + length) \in Seq(S)
           /\ Len(SubSeq(b, start + 1, start + length)) = length
           /\ \A k \in 1 .. length : SubSeq(b, start + 1, start + length)[k] = b[start + k]
<1>1. PICK from \in Int, to \in Int : from = start + 1 /\ to = start + length
  OBVIOUS
<1>2. /\ \A c \in from .. to : b[c] \in S
      /\ to - from + 1 = length /\ (from <= to <=> length # 0)
      /\ \A k \in 1 .. length : from + k - 1 = start + k
  BY <1>1
<1>3. /\ SubSeq(b, from, to) \in Seq(S)
      /\ Len(SubSeq(b, from, to)) = IF from <= to THEN to - from + 1 ELSE 0
      /\ \A k \in 1 .. to - from + 1 : SubSeq(b, from, to)[k] = b[from + k - 1]
  BY <1>2, SubSeqProperties
<1> QED
  BY <1>1, <1>2, <1>3

\* What the bounds of a payload in the buffer are, and what is in it if it is intact.
LEMMA IntactPayload ==
    ASSUME BodyType, LoopType, NEW p \in 1 .. Len(keyOf), Intact(p)
    PROVE  SubSeq(buffer, StartOf(p), EndOf(p)) = Payload(p)
<1>1. p - 1 \in 0 .. Len(keyOf) /\ p \in 0 .. Len(keyOf) /\ Len(keyOf) \in p .. Len(keyOf) /\ Len(keyOf) \in 0 .. Len(keyOf)
  BY PayloadFacts
<1>2. PICK start \in Nat, z \in Nat \ {0} : start = Length[p - 1] /\ z = sizes[p]
  BY <1>1, PayloadFacts, TextGrows
<1>3. Length[p] = start + z /\ Length[p] <= Length[Len(keyOf)]
  BY <1>1, <1>2, TextGrows
<1>4. StartOf(p) = start + 1 /\ EndOf(p) = start + z
  <2>1. Length[p - 1] = Len(Text[p - 1]) /\ Length[p] = Len(Text[p])
    BY <1>1 DEF Length
  <2> QED
    BY <1>2, <1>3, <2>1 DEF StartOf, EndOf
<1>5. \A k \in 1 .. z : buffer[start + k] = <<p, k>>
  BY <1>2 DEF Intact
<1>6. PICK b \in Seq(Word) : b = buffer
  BY DEF LoopType
<1>7. start + z <= Len(b)
  <2>1. start + z <= Length[Len(keyOf)] /\ Length[Len(keyOf)] \in Nat
    BY <1>1, <1>3, TextGrows
  <2>2. Len(b) = Length[Len(keyOf)] + 1
    BY <1>6 DEF LoopType
  <2> QED
    BY <1>2, <2>1, <2>2
<1>8. PICK s : s = SubSeq(b, start + 1, start + z)
  OBVIOUS
<1>9. s \in Seq(Word) /\ Len(s) = z /\ \A k \in 1 .. z : s[k] = <<p, k>>
  <2>1. b \in Seq(Word) /\ start \in Nat /\ z \in Nat /\ start + z <= Len(b)
    BY <1>2, <1>6, <1>7
  <2>2. s \in Seq(Word) /\ Len(s) = z /\ \A k \in 1 .. z : s[k] = b[start + k]
    BY <1>8, <2>1, PartProperties
  <2> QED
    BY <1>5, <1>6, <2>2
<1>10. PICK t \in Seq(Word) : t = Payload(p) /\ Len(t) = z /\ \A k \in 1 .. z : t[k] = <<p, k>>
  BY <1>2, PayloadFacts
<1>11. s = t
  BY <1>9, <1>10, SeqEqual
<1> QED
  BY <1>4, <1>6, <1>8, <1>10, <1>11

\* append leaves alone what the loop has not read yet, for every body, however
\* many payloads it has and however large they are (siri_proxy.go,
\* handleServiceDeliveryPublication).
THEOREM UnreadIntactHolds == SplitSpec => []UnreadIntact
<1>1. DeliveryInv => UnreadIntact
  <2> SUFFICES ASSUME DeliveryInv PROVE UnreadIntact
    OBVIOUS
  <2>1. BodyType /\ LoopType /\ UnreadInv
    BY DEF DeliveryInv
  <2>2. ASSUME NEW p \in at .. Len(keyOf)
        PROVE  SubSeq(buffer, StartOf(p), EndOf(p)) = Payload(p)
    <3>1. p \in 1 .. Len(keyOf) /\ Intact(p)
      BY <2>1, PayloadFacts DEF LoopType, UnreadInv
    <3> QED
      BY <2>1, <3>1, IntactPayload
  <2> QED
    BY <2>1, <2>2 DEF UnreadInv, UnreadIntact
<1> QED
  BY <1>1, DeliveryInvHolds, PTL

\* The bytes of a delivery are in the buffer, and it is as long as what was received.
LEMMA DeliveredBytes ==
    ASSUME DeliveryInv, Sent, NEW j \in DOMAIN deliveries
    PROVE  LET s == Body(j)
               t == Received(deliveries[j].key)
           IN  /\ s \in Seq(Word) /\ t \in Seq(Word) /\ Len(s) = Len(t)
               /\ \A k \in 1 .. Len(s) : s[k] = buffer[deliveries[j].from + k - 1]
               /\ t = Arrived[deliveries[j].key][at - 1]
<1>1. BodyType /\ LoopType /\ UnreadInv /\ EachInv
  BY DEF DeliveryInv
<1>2. at = Len(keyOf) + 1 /\ at - 1 = Len(keyOf) /\ Len(keyOf) \in 0 .. Len(keyOf) /\ Len(keyOf) \in 1 .. Len(keyOf)
  BY <1>1, PayloadFacts DEF Sent, LoopType, BodyType
<1>3. PICK d \in Seq(Record) : d = deliveries /\ j \in 1 .. Len(d)
  BY <1>1 DEF UnreadInv, Record
<1>4. PICK key \in Keys, from \in Nat \ {0}, to \in Nat :
        key = deliveries[j].key /\ from = deliveries[j].from /\ to = deliveries[j].to
  BY <1>3, DeliveryFields
<1>5. PICK t : t = Arrived[key][at - 1]
  OBVIOUS
<1>6. t \in Seq(Word) /\ Len(t) \in Nat
  <2>1. t \in Seq(Word)
    BY <1>1, <1>2, <1>5, ReceivedGrows
  <2> QED
    BY <2>1
<1>7. t = Received(deliveries[j].key)
  BY <1>2, <1>4, <1>5 DEF Arrived, Received
<1>8. to + 1 = from + Len(t)
  BY <1>1, <1>4, <1>5, Zenon DEF EachInv
<1>9. PICK s : s = SubSeq(buffer, from, to)
  OBVIOUS
<1>10. PICK b \in Seq(Word) : b = buffer
  BY <1>1 DEF LoopType
<1>11. PICK start \in Nat : from = start + 1 /\ to = start + Len(t)
  <2>1. PICK l \in Nat : l = Len(t) /\ to + 1 = from + l
    BY <1>6, <1>8
  <2>2. from \in Nat \ {0} /\ to \in Nat
    BY <1>4
  <2>3. \E start \in Nat : from = start + 1 /\ to = start + l
    BY <2>1, <2>2, BeginsBehind
  <2> QED
    BY <2>1, <2>3
<1>12. s \in Seq(Word) /\ Len(s) = Len(t) /\ \A k \in 1 .. Len(t) : s[k] = buffer[from + k - 1]
  <2>1. to <= Length[Len(keyOf)] /\ Length[Len(keyOf)] \in Nat
    BY <1>1, <1>2, <1>4, TextGrows DEF UnreadInv
  <2>2. Len(b) = Length[Len(keyOf)] + 1
    BY <1>1, <1>10 DEF LoopType
  <2>3. to <= Len(b)
    BY <1>4, <2>1, <2>2
  <2>4. b \in Seq(Word) /\ start \in Nat /\ Len(t) \in Nat /\ start + Len(t) <= Len(b)
    BY <1>6, <1>10, <1>11, <2>3
  <2>5. /\ SubSeq(b, start + 1, start + Len(t)) \in Seq(Word)
        /\ Len(SubSeq(b, start + 1, start + Len(t))) = Len(t)
        /\ \A k \in 1 .. Len(t) : SubSeq(b, start + 1, start + Len(t))[k] = b[start + k]
    BY <2>4, PartProperties
  <2>6. \A k \in 1 .. Len(t) : from + k - 1 = start + k
    BY <1>11
  <2> QED
    BY <1>9, <1>10, <1>11, <2>5, <2>6
<1>13. s = Body(j)
  BY <1>4, <1>9 DEF Body
<1> QED
  BY <1>4, <1>5, <1>6, <1>7, <1>12, <1>13

\* Every subscription of the body gets one delivery, as long as what was received
\* for it, for every body.
THEOREM OneDeliveryEachHolds == SplitSpec => []OneDeliveryEach
<1>1. DeliveryInv => OneDeliveryEach
  <2> SUFFICES ASSUME DeliveryInv PROVE OneDeliveryEach
    OBVIOUS
  <2>1. BodyType /\ LoopType /\ EachInv
    BY DEF DeliveryInv
  <2>2. \A j, h \in DOMAIN deliveries : deliveries[j].key = deliveries[h].key => j = h
    BY <2>1 DEF EachInv
  <2>3. ASSUME Sent, NEW p \in DOMAIN keyOf
        PROVE  \E j \in DOMAIN deliveries :
                  /\ deliveries[j].key = keyOf[p]
                  /\ Len(Body(j)) = Len(Received(keyOf[p]))
    <3>1. p \in 1 .. at - 1
      BY <2>1, <2>3, PayloadFacts DEF Sent, LoopType, BodyType
    <3>2. PICK j \in DOMAIN deliveries : deliveries[j].key = keyOf[p]
      BY <2>1, <3>1 DEF EachInv
    <3>3. Len(Body(j)) = Len(Received(deliveries[j].key))
      BY <2>3, <3>2, DeliveredBytes
    <3> QED
      BY <3>2, <3>3
  <2> QED
    BY <2>2, <2>3 DEF OneDeliveryEach
<1> QED
  BY <1>1, DeliveryInvHolds, PTL

\* Where the payloads of each subscription lie together, every delivery consists of
\* the payloads for its subscription, unmodified and in their order, for every such
\* body (siri-proxy/README.md: "sent unmodified to the client").
THEOREM UnmodifiedIfGroupedHolds == SplitSpec => []UnmodifiedIfGrouped
<1>1. DeliveryInv => UnmodifiedIfGrouped
  <2> SUFFICES ASSUME DeliveryInv, Grouped, Sent, NEW j \in DOMAIN deliveries
               PROVE  Body(j) = Received(deliveries[j].key)
    BY DEF UnmodifiedIfGrouped, Unmodified
  <2>1. PICK s, t : s = Body(j) /\ t = Received(deliveries[j].key)
    OBVIOUS
  <2>2. /\ s \in Seq(Word) /\ t \in Seq(Word) /\ Len(s) = Len(t)
        /\ \A k \in 1 .. Len(s) : s[k] = buffer[deliveries[j].from + k - 1]
        /\ t = Arrived[deliveries[j].key][at - 1]
    BY <2>1, DeliveredBytes
  <2>3. \A k \in 1 .. Len(Arrived[deliveries[j].key][at - 1]) :
          buffer[deliveries[j].from + k - 1] = Arrived[deliveries[j].key][at - 1][k]
    BY Zenon DEF DeliveryInv, GroupedInv
  <2>4. \A k \in 1 .. Len(s) : s[k] = t[k]
    BY <2>2, <2>3
  <2>5. s = t
    BY <2>2, <2>4, SeqEqual
  <2> QED
    BY <2>1, <2>5
<1> QED
  BY <1>1, DeliveryInvHolds, PTL
=============================================================================
