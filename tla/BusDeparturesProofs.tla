-------------------------- MODULE BusDeparturesProofs --------------------------
(***************************************************************************)
(* Proofs about BusDepartures, for any answers of OPTIS, any number of     *)
(* messages, in any order, and pages of any length.                        *)
(***************************************************************************)
EXTENDS BusDepartures, DeparturesProofs, SequenceTheorems, WellFoundedInduction

(* The inductive invariant *)

\* d is made of a visit that OPTIS reported and the poller keeps.
Reported(d) ==
    \E response \in Responses : \E v \in Range(response) : Kept(v) /\ d = Transformed(v)

AllReported(s) == \A k \in DOMAIN s : Reported(s[k])

\* None of the list is expired from position n on.
Fresh(s, n) == \A k \in DOMAIN s : k > n => ~ Expired(s[k], now)

ListInv ==
    /\ InOrder(list) /\ NoDuplicates(list)
    /\ AllReported(list) /\ AllReported(deps)
    /\ \A n \in DOMAIN published : AllReported(published[n])

\* In deps, expired departures come first; once one that is not has been read,
\* what is left of the list to be read is not expired.  Both unless a list came
\* between two pages that had been purged before the request.
PageInv ==
    /\ pc = "assign" =>
         /\ end <= start + top /\ Len(deps) + end <= start + top
         /\ start = 0 => deps = << >>
         /\ ~ outdated => Fresh(deps, 0) /\ (deps # << >> => Fresh(list, start))
    /\ pc = "remove" =>
         /\ end <= start + top
         /\ ~ outdated => \A i \in DOMAIN deps : ~ Expired(deps[i], now) =>
              Fresh(deps, i) /\ Fresh(list, start + top)
    /\ pc = "done" => (~ outdated => Fresh(deps, 0))

\* An ingester has a message, and of it whatever is not expired yet.
Batch(w) ==
    /\ w.live \subseteq DOMAIN published[w.message]
    /\ \A k \in DOMAIN published[w.message] :
         ~ Expired(published[w.message][k], clock) => k \in w.live

\* The list that an ingester is to store has the last of each journey of its message,
\* and of the list that it replaces what the message is not about.
Combines(w) ==
    /\ \A d \in NewDeps(published[w.message], DOMAIN published[w.message]) :
         ~ Expired(d, clock) => \E k \in DOMAIN w.list : w.list[k] = d
    /\ \A n \in DOMAIN list :
         (/\ ~ Expired(list[n], clock)
          /\ \A e \in Range(published[w.message]) : e.journeyRef # list[n].journeyRef)
           => \E k \in DOMAIN w.list : w.list[k] = list[n]

\* What an ingester has read is the list as it is, as long as no other stores one
\* meanwhile.
Ingests(w) ==
    /\ w.pc \in {"length", "range", "combine"} => Batch(w)
    /\ w.pc = "range" => (~ overlapped => w.length = Len(list))
    /\ w.pc = "combine" =>
         /\ NoDuplicates(w.cached) /\ AllReported(w.cached)
         /\ ~ overlapped => w.cached = list
    /\ w.pc = "store" =>
         /\ InOrder(w.list) /\ NoDuplicates(w.list) /\ AllReported(w.list)
         /\ \A k \in DOMAIN w.list : ~ Expired(w.list[k], w.purged)
         /\ ~ overlapped => Combines(w)

IngestInv == \A i \in Ingesters : Ingests(ingester[i])

IInv == TypeOK /\ ListInv /\ PageInv /\ IngestInv /\ ListIsNewest

-----------------------------------------------------------------------------
\* A part of a list.
LEMMA PartOf ==
    ASSUME NEW s \in Seq(Departure), NEW i \in Nat, NEW l \in Nat, l <= Len(s)
    PROVE  /\ SubSeq(s, i + 1, l) \in Seq(Departure)
           /\ Len(SubSeq(s, i + 1, l)) = IF i < l THEN l - i ELSE 0
           /\ \A k \in 1 .. Len(SubSeq(s, i + 1, l)) :
                 i + k \in DOMAIN s /\ SubSeq(s, i + 1, l)[k] = s[i + k]
<1> DEFINE p == SubSeq(s, i + 1, l)
<1>1. CASE i < l
  <2>1. p \in Seq(Departure) /\ Len(p) = l - i
    BY <1>1
  <2>2. \A k \in 1 .. l - i : i + k \in DOMAIN s /\ p[k] = s[i + k]
    BY <1>1
  <2> HIDE DEF p
  <2> QED
    BY <1>1, <2>1, <2>2 DEF p
<1>2. CASE ~ (i < l)
  <2>1. p = << >>
    BY <1>2
  <2> HIDE DEF p
  <2> QED
    BY <1>2, <2>1 DEF p
<1> QED
  BY <1>1, <1>2

\* What is expired is expired later.
LEMMA ExpiresOnce ==
    ASSUME NEW d \in Departure, NEW t \in Nat, NEW u \in Nat, t <= u, ~ Expired(d, u)
    PROVE  ~ Expired(d, t)
BY TimeIsNat DEF Expired

\* The fields of an ingester.
LEMMA FieldsOf ==
    ASSUME NEW w \in IngesterState
    PROVE  /\ w.pc \in {"idle", "length", "range", "combine", "store"}
           /\ w.pc # "idle" => w.message \in DOMAIN published
           /\ w.pc \in {"length", "range", "combine"} => w.live \in SUBSET Nat
           /\ w.pc = "range" => w.length \in Nat
           /\ w.pc = "combine" => w.cached \in Seq(Departure)
           /\ w.pc = "store" => w.list \in Seq(Departure) /\ w.purged \in FirstTime .. clock
BY DEF IngesterState

\* Messages are published and time passes: of an ingester nothing changes, unless it
\* has read the list, which another one has replaced.
LEMMA StillIngests ==
    ASSUME TypeOK, NEW w \in IngesterState, Ingests(w),
           DOMAIN published \subseteq DOMAIN published',
           \A n \in DOMAIN published : published'[n] = published[n],
           clock' \in Nat, clock <= clock',
           \/ list' = list /\ overlapped' = overlapped
           \/ overlapped' \/ w.pc \in {"idle", "length"}
    PROVE  w \in IngesterState' /\ Ingests(w)'
<1> USE PresenterAssumption
<1>1. /\ w.pc \in {"idle", "length", "range", "combine", "store"}
      /\ w.pc # "idle" => w.message \in DOMAIN published
      /\ w.pc = "store" => w.list \in Seq(Departure)
  BY FieldsOf
<1>2. /\ clock \in Nat /\ FirstTime \in Nat /\ list \in Seq(Departure)
      /\ published \in Seq(Seq(Departure))
  BY DEF TypeOK
<1>3. w \in IngesterState'
  <2>1. FirstTime .. clock \subseteq FirstTime .. clock'
    BY <1>2
  <2> QED
    BY <2>1 DEF IngesterState
<1>4. ASSUME w.pc # "idle"
      PROVE  /\ published'[w.message] = published[w.message]
             /\ published[w.message] \in Seq(Departure)
             /\ \A k \in DOMAIN published[w.message] :
                   published[w.message][k] \in Departure
  BY <1>1, <1>2, <1>4
<1>5. \A d \in Departure : ~ Expired(d, clock') => ~ Expired(d, clock)
  BY <1>2, ExpiresOnce
<1>6. ASSUME w.pc \in {"length", "range", "combine"}
      PROVE  Batch(w)'
  <2>1. Batch(w)
    BY <1>6 DEF Ingests
  <2> QED
    BY <1>4, <1>5, <1>6, <2>1 DEF Batch
<1>7. ASSUME w.pc = "store", ~ overlapped'
      PROVE  Combines(w)'
  <2>1. list' = list /\ Combines(w)
    BY <1>7 DEF Ingests
  <2>2. NewDeps(published[w.message], DOMAIN published[w.message]) \subseteq Departure
    BY <1>4, <1>7, NewDepsBatch
  <2>3. \A n \in DOMAIN list : list[n] \in Departure
    BY <1>2
  <2> QED
    BY <1>4, <1>5, <1>7, <2>1, <2>2, <2>3 DEF Combines
<1>8. Ingests(w)'
  <2>1. w.pc = "range" /\ ~ overlapped' => w.length = Len(list')
    BY DEF Ingests
  <2>2. w.pc = "combine" =>
          /\ NoDuplicates(w.cached) /\ AllReported(w.cached)
          /\ ~ overlapped' => w.cached = list'
    BY DEF Ingests
  <2>3. w.pc = "store" =>
          /\ InOrder(w.list) /\ NoDuplicates(w.list) /\ AllReported(w.list)
          /\ \A k \in DOMAIN w.list : ~ Expired(w.list[k], w.purged)
    BY DEF Ingests
  <2> QED
    BY <1>6, <1>7, <2>1, <2>2, <2>3 DEF Ingests
<1> QED
  BY <1>3, <1>8

-----------------------------------------------------------------------------
\* The invariant, one action of the specification after another.
LEMMA Invariant == Spec => []IInv
<1> USE PresenterAssumption, DeparturesAssumption
<1>1. Init => IInv
  <2> SUFFICES ASSUME Init
               PROVE  IInv
    OBVIOUS
  <2> USE DEF Init, InitPresenter
  <2>1. /\ list \in Seq(Departure) /\ deps \in Seq(Departure) /\ Len(deps) = 0
        /\ published \in Seq(Seq(Departure)) /\ Len(published) = 0
    OBVIOUS
  <2>2. MaxPolls \in Nat
    BY BusAssumption
  <2>3. TypeOK
    <3>1. /\ clock \in FirstTime .. LastTime /\ now \in FirstTime .. clock
          /\ pc \in {"idle", "assign", "remove", "done", "error"}
          /\ top \in Tops \cup {1} /\ start \in Nat /\ end \in Nat
      OBVIOUS
    <3>2. Len(deps) <= top /\ Len(published) <= MaxPolls /\ delivered \subseteq DOMAIN published
      BY <2>1, <2>2
    <3>3. changed \in BOOLEAN /\ outdated \in BOOLEAN /\ late \in BOOLEAN /\ overlapped \in BOOLEAN
      BY Zenon
    <3>4. ingester \in [Ingesters -> IngesterState]
      BY DEF Idle, IngesterState
    <3> QED
      BY <2>1, <3>1, <3>2, <3>3, <3>4, Zenon DEF TypeOK
  <2>4. ListInv /\ PageInv /\ ListIsNewest
    BY DEF ListInv, PageInv, ListIsNewest, AllReported, Fresh, InOrder, NoDuplicates
  <2>5. IngestInv
    BY DEF IngestInv, Ingests, Idle
  <2> QED
    BY <2>3, <2>4, <2>5 DEF IInv
<1>2. IInv /\ [Next]_vars => IInv'
  <2> SUFFICES ASSUME IInv, [Next]_vars
               PROVE  IInv'
    OBVIOUS
  <2> USE DEF IInv
  \* What was expired is expired later.
  <2>1. ASSUME NEW d \in Departure, NEW t \in Nat, NEW u \in Nat, t <= u, ~ Expired(d, u)
        PROVE  ~ Expired(d, t)
    BY <2>1, TimeIsNat DEF Expired
  <2>2. /\ clock \in Nat /\ now \in Nat /\ now <= clock /\ now \in FirstTime .. LastTime
        /\ start \in Nat /\ end \in Nat /\ top \in Nat \ {0}
        /\ list \in Seq(Departure) /\ deps \in Seq(Departure) /\ Len(deps) <= top
        /\ published \in Seq(Seq(Departure))
    BY DEF TypeOK
  \* A list in its order has its expired departures in front.
  <2>3. ASSUME NEW i \in DOMAIN list, ~ Expired(list[i], now)
        PROVE  Fresh(list, i)
    <3> SUFFICES ASSUME NEW k \in DOMAIN list, k > i
                 PROVE  ~ Expired(list[k], now)
      BY DEF Fresh
    <3>1. ~ Before(list[k], list[i])
      BY DEF ListInv, InOrder
    <3>2. DepartureTime(list[i]) \in Nat /\ DepartureTime(list[k]) \in Nat
      BY <2>2, TimeIsNat
    <3> QED
      BY <2>2, <2>3, <3>1, <3>2 DEF Before, Expired
  \* What steps that leave variables alone keep.
  <2>4. ASSUME UNCHANGED <<list, published, delivery>>, clock' = clock \/ clock' = clock + 1
        PROVE  /\ ListIsNewest' /\ IngestInv'
               /\ ingester' \in [Ingesters -> IngesterState'] /\ delivered' \subseteq DOMAIN published'
               /\ late' \in BOOLEAN /\ overlapped' \in BOOLEAN
    <3>1. UNCHANGED <<list, published, ingester, delivered, late, overlapped>>
      BY <2>4 DEF delivery
    <3>2. clock' \in Nat /\ clock <= clock'
      BY <2>2, <2>4
    <3>3. ingester' \in [Ingesters -> IngesterState'] /\ IngestInv'
      <4>1. ASSUME NEW j \in Ingesters
            PROVE  ingester[j] \in IngesterState' /\ Ingests(ingester[j])'
        <5>1. PICK w : w = ingester[j]
          OBVIOUS
        <5>2. w \in IngesterState /\ Ingests(w) /\ ingester'[j] = w
          BY <3>1, <5>1 DEF TypeOK, IngestInv
        <5>3. w \in IngesterState' /\ Ingests(w)'
          BY <3>1, <3>2, <5>2, StillIngests
        <5> QED
          BY <5>1, <5>2, <5>3 DEF Ingests, Batch, Combines
      <4> QED
        BY <3>1, <4>1 DEF IngestInv, TypeOK
    <3>4. ListIsNewest'
      <4>1. ASSUME NEW n \in delivered, NEW d \in NewDeps(published[n], DOMAIN published[n]),
                   ~ Expired(d, clock')
            PROVE  ~ Expired(d, clock)
        <5>1. published[n] \in Seq(Departure)
          BY <2>2 DEF TypeOK
        <5>2. d \in Departure
          BY <5>1, NewDepsBatch
        <5> QED
          BY <2>1, <2>2, <3>2, <4>1, <5>2
      <4> QED
        BY <3>1, <4>1 DEF ListIsNewest, Superseded
    <3>5. delivered' \subseteq DOMAIN published' /\ late' \in BOOLEAN /\ overlapped' \in BOOLEAN
      BY <3>1, Zenon DEF TypeOK
    <3> QED
      BY <3>3, <3>4, <3>5
  <2>5. ASSUME UNCHANGED <<list, published>>, AllReported(deps)'
        PROVE  ListInv'
    BY <2>5 DEF ListInv, AllReported
  <2>6. CASE UNCHANGED vars
    <3>0. UNCHANGED <<clock, list, pc, top, now, deps, start, end, changed, outdated,
                      published, delivery>>
      BY <2>6 DEF vars, presenter, database, request, history
    <3>1. /\ ListIsNewest' /\ IngestInv'
          /\ ingester' \in [Ingesters -> IngesterState'] /\ delivered' \subseteq DOMAIN published'
          /\ late' \in BOOLEAN /\ overlapped' \in BOOLEAN
      BY <2>4, <3>0
    <3>2. TypeOK'
      BY <3>0, <3>1, Zenon DEF TypeOK
    <3>3. ListInv'
      BY <2>5, <3>0 DEF ListInv, AllReported
    <3>4. PageInv'
      BY <3>0 DEF PageInv, Fresh
    <3> QED
      BY <3>1, <3>2, <3>3, <3>4
  <2>7. CASE AssignNextDepartures /\ UNCHANGED <<published, delivery>>
    <3> DEFINE last == IF end < Len(list) THEN end ELSE Len(list)
               page == SubSeq(list, start + 1, last)
    <3>1. /\ last \in Nat /\ last <= end /\ last <= Len(list)
          /\ page \in Seq(Departure)
          /\ Len(page) = IF start < last THEN last - start ELSE 0
          /\ \A k \in 1 .. Len(page) : start + k \in DOMAIN list /\ page[k] = list[start + k]
      <4>1. last \in Nat /\ last <= end /\ last <= Len(list)
        BY <2>2
      <4> HIDE DEF last
      <4> QED
        BY <2>2, <4>1, PartOf
    <3>2. /\ pc = "assign" /\ pc' = "remove"
          /\ deps' = deps \o page
          /\ UNCHANGED <<clock, list, top, now, start, end, published, delivery>>
          /\ ~ outdated' => start = 0 \/ ~ outdated
      BY <2>7 DEF AssignNextDepartures, database, history
    <3>0. /\ ListIsNewest' /\ IngestInv'
          /\ ingester' \in [Ingesters -> IngesterState'] /\ delivered' \subseteq DOMAIN published'
          /\ late' \in BOOLEAN /\ overlapped' \in BOOLEAN
      BY <2>4, <3>2
    <3> HIDE DEF page, last
    <3>3. /\ deps' \in Seq(Departure) /\ Len(deps') = Len(deps) + Len(page)
          /\ \A k \in 1 .. Len(deps) : deps'[k] = deps[k]
          /\ \A k \in 1 .. Len(page) : deps'[Len(deps) + k] = page[k]
      <4>1. deps \in Seq(Departure) /\ page \in Seq(Departure)
        BY <2>2, <3>1
      <4>2. deps \o page \in Seq(Departure) /\ Len(deps \o page) = Len(deps) + Len(page)
        BY <4>1
      <4>3. /\ \A k \in 1 .. Len(deps) : (deps \o page)[k] = deps[k]
            /\ \A k \in 1 .. Len(page) : (deps \o page)[Len(deps) + k] = page[k]
        BY <4>1
      <4> QED
        BY <3>2, <4>2, <4>3
    <3>4. end <= start + top /\ Len(deps) + end <= start + top
      BY <3>2 DEF PageInv
    <3>5. TypeOK'
      <4>1. changed' \in BOOLEAN /\ outdated' \in BOOLEAN
        BY <2>7, Zenon DEF AssignNextDepartures, history, TypeOK
      <4>2. Len(deps') <= top
        BY <2>2, <3>1, <3>3, <3>4
      <4>3. pc' \in {"idle", "assign", "remove", "done", "error"}
        BY <3>2
      <4> QED
        BY <3>0, <3>2, <3>3, <4>1, <4>2, <4>3, Zenon DEF TypeOK
    \* Where the departures come from.
    <3>6. ASSUME NEW k \in DOMAIN deps'
          PROVE  \/ k \in DOMAIN deps /\ deps'[k] = deps[k]
                 \/ /\ k > Len(deps) /\ start + (k - Len(deps)) \in DOMAIN list
                    /\ start + (k - Len(deps)) <= start + top
                    /\ deps'[k] = list[start + (k - Len(deps))]
      <4>1. k \in 1 .. Len(deps) + Len(page)
        BY <3>3
      <4>2. CASE k <= Len(deps)
        BY <2>2, <3>3, <4>1, <4>2
      <4>3. CASE k > Len(deps)
        <5> DEFINE j == k - Len(deps)
        <5>1. j \in 1 .. Len(page) /\ k = Len(deps) + j
          BY <2>2, <3>1, <4>1, <4>3
        <5>2. deps'[k] = page[j]
          BY <3>3, <5>1
        <5>3. start + j <= start + top
          BY <2>2, <3>1, <3>4, <5>1
        <5>4. start + j \in DOMAIN list /\ page[j] = list[start + j]
          BY <3>1, <5>1
        <5> QED
          BY <4>3, <5>2, <5>3, <5>4
      <4> QED
        BY <2>2, <4>1, <4>2, <4>3
    <3>7. AllReported(deps)'
      BY <3>6 DEF ListInv, AllReported
    <3>8. ASSUME ~ outdated', NEW i \in DOMAIN deps', ~ Expired(deps'[i], now)
          PROVE  Fresh(deps', i) /\ Fresh(list, start + top)
      <4>1. i \in Nat /\ \A k \in DOMAIN deps' : k \in Nat
        BY <3>3
      <4>2. CASE i \in DOMAIN deps
        <5>0. deps # << >>
          BY <4>2
        <5>1. Fresh(list, start) /\ Fresh(deps, 0)
          BY <2>2, <3>2, <3>8, <5>0 DEF PageInv
        <5>2. \A k \in DOMAIN list : k > start => ~ Expired(list[k], now)
          BY <5>1 DEF Fresh
        <5>3. \A k \in DOMAIN deps : ~ Expired(deps[k], now)
          BY <2>2, <5>1 DEF Fresh
        <5>4. \A k \in DOMAIN deps' : ~ Expired(deps'[k], now)
          <6> SUFFICES ASSUME NEW k \in DOMAIN deps'
                       PROVE  ~ Expired(deps'[k], now)
            OBVIOUS
          <6>1. CASE k \in DOMAIN deps /\ deps'[k] = deps[k]
            BY <5>3, <6>1
          <6>2. CASE /\ k > Len(deps) /\ start + (k - Len(deps)) \in DOMAIN list
                     /\ deps'[k] = list[start + (k - Len(deps))]
            <7>1. start + (k - Len(deps)) > start
              BY <2>2, <4>1, <6>2
            <7> QED
              BY <5>2, <6>2, <7>1
          <6> QED
            BY <3>6, <6>1, <6>2
        <5> QED
          BY <2>2, <5>2, <5>4 DEF Fresh
      <4>3. CASE i \notin DOMAIN deps
        <5> DEFINE at(k) == start + (k - Len(deps))
        <5>1. /\ i > Len(deps) /\ at(i) \in DOMAIN list /\ at(i) <= start + top
              /\ deps'[i] = list[at(i)]
          BY <3>6, <4>3
        <5>2. Fresh(list, at(i))
          BY <2>3, <3>8, <5>1
        <5>3. \A k \in DOMAIN list : k > at(i) => ~ Expired(list[k], now)
          BY <5>2 DEF Fresh
        <5>4. \A k \in DOMAIN deps' : k > i => ~ Expired(deps'[k], now)
          <6> SUFFICES ASSUME NEW k \in DOMAIN deps', k > i
                       PROVE  ~ Expired(deps'[k], now)
            OBVIOUS
          <6>1. k \notin DOMAIN deps /\ at(k) > at(i)
            BY <2>2, <4>1, <5>1
          <6>2. at(k) \in DOMAIN list /\ deps'[k] = list[at(k)]
            BY <3>6, <6>1
          <6> QED
            BY <5>3, <6>1, <6>2
        <5>5. \A k \in DOMAIN list : k > start + top => k > at(i)
          BY <2>2, <4>1, <5>1
        <5> HIDE DEF at
        <5> QED
          BY <5>3, <5>4, <5>5 DEF Fresh
      <4> QED
        BY <4>2, <4>3
    <3>9. PageInv'
      BY <3>2, <3>4, <3>8 DEF PageInv, Fresh
    <3>10. ListInv'
      BY <2>5, <3>2, <3>7
    <3> QED
      BY <3>0, <3>5, <3>9, <3>10
  <2>8. CASE RemoveExpiredDepartures /\ UNCHANGED <<published, delivery>>
    \* There is a number of expired departures in front.
    <3> DEFINE IsNumber(n) == /\ \A k \in 1 .. n : IsExpired(deps[k], now)
                              /\ n < Len(deps) => ~ IsExpired(deps[n + 1], now)
               T == {k \in 1 .. Len(deps) : ~ IsExpired(deps[k], now)}
               R == OpToRel(<, Nat)
    <3>1. \E n \in 0 .. Len(deps) : IsNumber(n)
      <4>1. CASE T = {}
        <5>1. Len(deps) \in 0 .. Len(deps) /\ IsNumber(Len(deps))
          BY <2>2, <4>1
        <5> QED
          BY <5>1
      <4>2. CASE T # {}
        <5>1. \A x, y \in Nat : <<y, x>> \in R <=> y < x
          BY DEF OpToRel
        <5>2. IsWellFoundedOn(R, Nat)
          BY NatLessThanWellFounded
        <5> HIDE DEF R
        <5>0. T \subseteq Nat
          OBVIOUS
        <5>3. PICK x \in T : \A y \in T : ~ (<<y, x>> \in R)
          BY <4>2, <5>0, <5>2, WFMin
        <5>4. x \in 1 .. Len(deps) /\ ~ IsExpired(deps[x], now)
          OBVIOUS
        <5>5. ASSUME NEW k \in 1 .. x - 1
              PROVE  IsExpired(deps[k], now)
          <6>1. k \in Nat /\ x \in Nat /\ k < x /\ k \in 1 .. Len(deps)
            BY <2>2, <5>4
          <6>2. <<k, x>> \in R
            BY <5>1, <6>1, Zenon
          <6>3. k \notin T
            BY <5>3, <6>2
          <6> QED
            BY <6>1, <6>3
        <5>6. x - 1 \in 0 .. Len(deps) /\ (x - 1) + 1 = x
          BY <2>2, <5>4
        <5>7. IsNumber(x - 1)
          BY <5>4, <5>5, <5>6
        <5> QED
          BY <5>6, <5>7
      <4> QED
        BY <4>1, <4>2
    <3>2. Removed \in 0 .. Len(deps) /\ IsNumber(Removed)
      BY <3>1 DEF Removed
    <3> HIDE DEF IsNumber, T, R
    <3>3. /\ pc = "remove" /\ deps' = SubSeq(deps, Removed + 1, Len(deps))
          /\ \/ pc' = "done" /\ UNCHANGED <<start, end>>
             \/ pc' = "assign" /\ start' = start + top /\ end' = end + Removed
          /\ UNCHANGED <<clock, list, top, now, outdated, published, delivery>>
      BY <2>8 DEF RemoveExpiredDepartures, database, history
    <3>0. /\ ListIsNewest' /\ IngestInv'
          /\ ingester' \in [Ingesters -> IngesterState'] /\ delivered' \subseteq DOMAIN published'
          /\ late' \in BOOLEAN /\ overlapped' \in BOOLEAN
      BY <2>4, <3>3
    <3>4. /\ Removed \in Nat /\ Removed <= Len(deps) /\ Len(deps) \in Nat
          /\ deps' \in Seq(Departure) /\ Len(deps') = Len(deps) - Removed
          /\ \A k \in DOMAIN deps' : Removed + k \in DOMAIN deps /\ deps'[k] = deps[Removed + k]
      BY <2>2, <3>2, <3>3
    <3>5. Removed = Len(deps) => DOMAIN deps' = {}
      BY <3>4
    <3>6. ASSUME ~ outdated, Removed < Len(deps)
          PROVE  Fresh(list, start + top) /\ \A k \in DOMAIN deps' : ~ Expired(deps'[k], now)
      <4>1. Removed + 1 \in DOMAIN deps /\ deps[Removed + 1] \in Departure
        BY <2>2, <3>4, <3>6
      <4>2. ~ Expired(deps[Removed + 1], now)
        BY <2>2, <3>2, <3>6, <4>1, BusAssumption DEF IsNumber
      <4>3. Fresh(deps, Removed + 1) /\ Fresh(list, start + top)
        BY <3>3, <3>6, <4>1, <4>2 DEF PageInv
      <4>4. ASSUME NEW k \in DOMAIN deps'
            PROVE  ~ Expired(deps'[k], now)
        <5>1. k = 1 \/ Removed + k > Removed + 1
          BY <3>4
        <5> QED
          BY <3>4, <4>2, <4>3, <5>1 DEF Fresh
      <4> QED
        BY <4>3, <4>4
    <3>7. Removed < Len(deps) \/ Removed = Len(deps)
      BY <3>4
    <3>8. ~ outdated => \A k \in DOMAIN deps' : ~ Expired(deps'[k], now)
      BY <3>5, <3>6, <3>7
    <3>9. PageInv'
      <4>1. ~ outdated' => Fresh(deps, 0)'
        BY <3>3, <3>8 DEF Fresh
      <4>2. CASE pc' = "done"
        BY <4>1, <4>2 DEF PageInv
      <4>3. CASE pc' = "assign" /\ start' = start + top /\ end' = end + Removed
        <5>1. end <= start + top
          BY <3>3 DEF PageInv
        <5>2. end' <= start' + top /\ Len(deps') + end' <= start' + top
          BY <2>2, <3>4, <4>3, <5>1
        <5>3. ~ outdated /\ deps' # << >> => Fresh(list, start + top)
          BY <3>4, <3>6, <3>7
        <5>4. ~ outdated' => (deps' # << >> => Fresh(list, start)')
          BY <3>3, <4>3, <5>3 DEF Fresh
        <5>5. start' = 0 => deps' = << >>
          BY <2>2, <4>3
        <5> QED
          BY <3>3, <4>1, <4>3, <5>2, <5>4, <5>5 DEF PageInv
      <4> QED
        BY <3>3, <4>2, <4>3
    <3>10. TypeOK'
      <4>1. changed' \in BOOLEAN /\ outdated' \in BOOLEAN
        BY <2>8, Zenon DEF RemoveExpiredDepartures, history, TypeOK
      <4>2. Len(deps') <= top /\ start' \in Nat /\ end' \in Nat
        BY <2>2, <3>3, <3>4
      <4>3. pc' \in {"idle", "assign", "remove", "done", "error"}
        BY <3>3
      <4> QED
        BY <3>0, <3>3, <3>4, <4>1, <4>2, <4>3, Zenon DEF TypeOK
    <3>11. AllReported(deps)'
      BY <3>4 DEF ListInv, AllReported
    <3>12. ListInv'
      BY <2>5, <3>3, <3>11
    <3> QED
      BY <3>0, <3>9, <3>10, <3>12
  <2>9. CASE AssignFails /\ UNCHANGED <<published, delivery>>
    <3>1. /\ pc' = "error"
          /\ UNCHANGED <<clock, list, top, now, deps, start, end, published, delivery>>
      BY <2>9 DEF AssignFails, database
    <3>0. /\ ListIsNewest' /\ IngestInv'
          /\ ingester' \in [Ingesters -> IngesterState'] /\ delivered' \subseteq DOMAIN published'
          /\ late' \in BOOLEAN /\ overlapped' \in BOOLEAN
      BY <2>4, <3>1
    <3>2. TypeOK'
      <4>1. changed' \in BOOLEAN /\ outdated' \in BOOLEAN
        BY <2>9, Zenon DEF AssignFails, history, TypeOK
      <4>2. pc' \in {"idle", "assign", "remove", "done", "error"}
        BY <3>1
      <4> QED
        BY <3>0, <3>1, <4>1, <4>2, Zenon DEF TypeOK
    <3>3. PageInv'
      BY <3>1 DEF PageInv
    <3>4. ListInv'
      BY <2>5, <3>1 DEF ListInv, AllReported
    <3> QED
      BY <3>0, <3>2, <3>3, <3>4
  <2>10. CASE Return /\ UNCHANGED <<published, delivery>>
    <3>1. /\ pc' = "idle" /\ top' = 1 /\ now' = FirstTime /\ deps' = << >> /\ start' = 0 /\ end' = 0
          /\ UNCHANGED <<clock, list, published, delivery>>
      BY <2>10 DEF Return, database
    <3>0. /\ ListIsNewest' /\ IngestInv'
          /\ ingester' \in [Ingesters -> IngesterState'] /\ delivered' \subseteq DOMAIN published'
          /\ late' \in BOOLEAN /\ overlapped' \in BOOLEAN
      BY <2>4, <3>1
    <3>2. TypeOK'
      <4>1. changed' \in BOOLEAN /\ outdated' \in BOOLEAN
        BY <2>10, Zenon DEF Return
      <4>2. /\ pc' \in {"idle", "assign", "remove", "done", "error"}
            /\ top' \in Tops \cup {1} /\ start' \in Nat /\ end' \in Nat
            /\ deps' \in Seq(Departure) /\ Len(deps') <= top'
        BY <3>1
      <4>3. now' \in FirstTime .. clock'
        BY <3>1 DEF TypeOK
      <4> QED
        BY <3>0, <3>1, <4>1, <4>2, <4>3, Zenon DEF TypeOK
    <3>3. PageInv'
      BY <3>1 DEF PageInv
    <3>4. ListInv'
      <4>1. DOMAIN deps' = {}
        BY <3>1
      <4> QED
        BY <2>5, <3>1, <4>1 DEF AllReported
    <3> QED
      BY <3>0, <3>2, <3>3, <3>4
  <2>11. CASE Receive /\ UNCHANGED <<published, delivery>>
    <3>1. /\ pc' = "assign" /\ top' \in Tops /\ now' = clock /\ deps' = << >>
          /\ start' = 0 /\ end' = top'
          /\ UNCHANGED <<clock, list, published, delivery>>
      BY <2>11 DEF Receive, database
    <3>0. /\ ListIsNewest' /\ IngestInv'
          /\ ingester' \in [Ingesters -> IngesterState'] /\ delivered' \subseteq DOMAIN published'
          /\ late' \in BOOLEAN /\ overlapped' \in BOOLEAN
      BY <2>4, <3>1
    <3>2. deps' \in Seq(Departure) /\ Len(deps') = 0 /\ DOMAIN deps' = {} /\ top' \in Nat
      BY <3>1
    <3>3. TypeOK'
      <4>1. changed' \in BOOLEAN /\ outdated' \in BOOLEAN
        BY <2>11, Zenon DEF Receive, history, TypeOK
      <4>2. /\ pc' \in {"idle", "assign", "remove", "done", "error"}
            /\ top' \in Tops \cup {1} /\ start' \in Nat /\ end' \in Nat
            /\ Len(deps') <= top'
        BY <3>1, <3>2
      <4>3. now' \in FirstTime .. clock
        BY <2>2, <3>1
      <4> QED
        BY <3>0, <3>1, <3>2, <4>1, <4>2, <4>3, Zenon DEF TypeOK
    <3>4. AllReported(deps)' /\ Fresh(deps, 0)'
      BY <3>2 DEF AllReported, Fresh
    <3>5. end' <= start' + top' /\ Len(deps') + end' <= start' + top'
      <4>1. PICK t \in Tops : top' = t
        BY <3>1
      <4>2. end' = t /\ start' = 0 /\ Len(deps') = 0
        BY <3>1, <4>1
      <4>3. t <= 0 + t /\ 0 + t <= 0 + t
        OBVIOUS
      <4> QED
        BY <4>1, <4>2, <4>3, Zenon
    <3>6. PageInv'
      BY <3>1, <3>4, <3>5 DEF PageInv
    <3>7. ListInv'
      BY <2>5, <3>1, <3>4
    <3> QED
      BY <3>0, <3>3, <3>6, <3>7
  <2>12. CASE Tick /\ UNCHANGED <<published, delivery>>
    <3>1. /\ clock < LastTime /\ clock' = clock + 1
          /\ UNCHANGED <<list, pc, top, now, deps, start, end, outdated, published, delivery>>
      BY <2>12 DEF Tick, request, history
    <3>0. /\ ListIsNewest' /\ IngestInv'
          /\ ingester' \in [Ingesters -> IngesterState'] /\ delivered' \subseteq DOMAIN published'
          /\ late' \in BOOLEAN /\ overlapped' \in BOOLEAN
      BY <2>4, <3>1
    <3>2. TypeOK'
      <4>1. changed' \in BOOLEAN /\ outdated' \in BOOLEAN
        BY <2>12, Zenon DEF Tick, history, TypeOK
      <4>2. clock' \in FirstTime .. LastTime /\ now' \in FirstTime .. clock'
        BY <2>2, <3>1 DEF TypeOK
      <4> QED
        BY <3>0, <3>1, <4>1, <4>2, Zenon DEF TypeOK
    <3>3. PageInv'
      BY <3>1 DEF PageInv, Fresh
    <3>4. ListInv'
      BY <2>5, <3>1 DEF ListInv, AllReported
    <3> QED
      BY <3>0, <3>2, <3>3, <3>4
  <2>13. CASE Poll
    <3>1. PICK response \in Responses :
            \E m \in Messages(response) : published' = Append(published, m)
      BY <2>13 DEF Poll
    <3>2. PICK m \in Messages(response) : published' = Append(published, m)
      BY <3>1
    <3>3. /\ Len(published) < MaxPolls
          /\ UNCHANGED <<clock, list, pc, top, now, deps, start, end, outdated,
                      ingester, delivered, late, overlapped>>
      BY <2>13 DEF Poll, presenter, database, request, history, delivery
    <3> DEFINE kept == {k \in DOMAIN response : Kept(response[k])}
    <3>4. response \in Seq(Visit) /\ IsFiniteSet(kept)
      BY BusAssumption, DomainFinite, FS_Subset
    <3>5. Cardinality(kept) \in Nat
      BY <3>4, FS_CardinalityType
    <3>6. PICK f \in [1 .. Cardinality(kept) -> kept] :
            m = [i \in 1 .. Cardinality(kept) |-> Transformed(response[f[i]])]
      BY DEF Messages
    <3>7. ASSUME NEW k \in kept
          PROVE  Transformed(response[k]) \in Departure /\ Reported(Transformed(response[k]))
      <4>1. response[k] \in Visit /\ Kept(response[k]) /\ response[k] \in Range(response)
        BY <3>4 DEF Range
      <4>2. Transformed(response[k]) \in Departure
        BY <4>1, BusAssumption DEF Visit, Transformed, Departure, Times
      <4> QED
        BY <4>1, <4>2 DEF Reported
    <3>8. m \in Seq(Departure) /\ AllReported(m)
      <4>1. /\ m \in [1 .. Cardinality(kept) -> Departure]
            /\ \A k \in 1 .. Cardinality(kept) : Reported(m[k])
        BY <3>6, <3>7
      <4> HIDE DEF kept
      <4> QED
        BY <3>5, <4>1 DEF AllReported
    <3>9. /\ published' \in Seq(Seq(Departure)) /\ Len(published') = Len(published) + 1
          /\ DOMAIN published \subseteq DOMAIN published'
          /\ \A n \in DOMAIN published : published'[n] = published[n]
          /\ \A n \in DOMAIN published' : n \in DOMAIN published \/ published'[n] = m
      BY <2>2, <3>2, <3>8
    <3>14. ingester' \in [Ingesters -> IngesterState'] /\ IngestInv'
      <4>1. ASSUME NEW i \in Ingesters
            PROVE  ingester[i] \in IngesterState' /\ Ingests(ingester[i])'
        <5>1. PICK w : w = ingester[i]
          OBVIOUS
        <5>2. w \in IngesterState
          BY <5>1 DEF TypeOK
        <5>4. Ingests(w) /\ ingester' = ingester
          BY <3>3, <5>1 DEF IngestInv
        <5>3. w \in IngesterState' /\ Ingests(w)'
          <6>1. clock' \in Nat /\ clock <= clock' /\ list' = list /\ overlapped' = overlapped
            BY <2>2, <3>3
          <6> QED
            BY <3>9, <5>2, <5>4, <6>1, StillIngests
        <5> QED
          BY <5>1, <5>2, <5>3, <5>4 DEF Ingests, Batch, Combines
      <4> QED
        BY <3>3, <4>1 DEF IngestInv, TypeOK
    <3>10. TypeOK'
      <4>1. /\ changed' \in BOOLEAN /\ outdated' \in BOOLEAN
            /\ late' \in BOOLEAN /\ overlapped' \in BOOLEAN
        BY <2>13, Zenon DEF Poll, presenter, history, delivery, TypeOK
      <4>2. Len(published') <= MaxPolls
        BY <2>2, <3>3, <3>9, BusAssumption
      <4>3. delivered' \subseteq DOMAIN published'
        BY <3>3, <3>9 DEF TypeOK
      <4> QED
        BY <3>3, <3>9, <3>14, <4>1, <4>2, <4>3, Zenon DEF TypeOK
    <3>11. ListInv'
      BY <3>3, <3>8, <3>9 DEF ListInv, AllReported
    <3>12. PageInv'
      BY <3>3 DEF PageInv, Fresh
    <3>13. ListIsNewest'
      <4>1. \A n \in delivered : published'[n] = published[n]
        BY <3>9 DEF TypeOK
      <4> QED
        BY <3>3, <4>1 DEF ListIsNewest, Superseded
    <3> QED
      BY <3>10, <3>11, <3>12, <3>13, <3>14
  \* An ingester goes on: what it has is of its type, the others have what they had.
  <2>14. ASSUME NEW i \in Ingesters, NEW v, Goto(i, v),
                UNCHANGED <<clock, list, pc, top, now, deps, start, end, changed, outdated, published>>,
                UNCHANGED overlapped, UNCHANGED <<delivered, late>> \/ ListIsNewest',
                delivered' \subseteq DOMAIN published, late' \in BOOLEAN,
                v \in IngesterState, Ingests(v)
         PROVE  IInv'
    <3>0. UNCHANGED <<clock, list, pc, top, now, deps, start, end, changed, outdated, published,
                      overlapped>>
      BY <2>14
    <3>1. ingester' = [ingester EXCEPT ![i] = v] /\ ingester \in [Ingesters -> IngesterState]
      BY <2>14 DEF Goto, TypeOK
    <3>2. ASSUME NEW w \in IngesterState, Ingests(w)
          PROVE  w \in IngesterState' /\ Ingests(w)'
      BY <2>2, <3>0, <3>2, StillIngests
    <3>3. ASSUME NEW j \in Ingesters
          PROVE  ingester'[j] \in IngesterState' /\ Ingests(ingester[j])'
      <4>1. PICK w : w = ingester'[j]
        OBVIOUS
      <4>2. w = v \/ w = ingester[j]
        BY <3>1, <4>1
      <4>3. CASE w = v
        <5>1. w \in IngesterState /\ Ingests(w)
          BY <2>14, <4>3
        <5> QED
          BY <3>2, <4>1, <5>1 DEF Ingests, Batch, Combines
      <4>4. CASE w = ingester[j]
        <5>1. w \in IngesterState /\ Ingests(w)
          BY <3>1, <4>4 DEF IngestInv
        <5> QED
          BY <3>2, <4>1, <5>1 DEF Ingests, Batch, Combines
      <4> QED
        BY <4>2, <4>3, <4>4
    <3>4. ingester' \in [Ingesters -> IngesterState'] /\ IngestInv'
      BY <3>1, <3>3 DEF IngestInv
    <3>5. TypeOK'
      <4>1. delivered' \subseteq DOMAIN published' /\ late' \in BOOLEAN
        BY <2>14, <3>0
      <4> QED
        BY <3>0, <3>4, <4>1, Zenon DEF TypeOK
    <3>6. ListInv' /\ PageInv'
      BY <3>0 DEF ListInv, AllReported, PageInv, Fresh
    <3>7. ListIsNewest'
      BY <2>14, <3>0 DEF ListIsNewest, Superseded
    <3> QED
      BY <3>4, <3>5, <3>6, <3>7
  <2>15. ASSUME NEW i \in Ingesters, Deliver(i)
         PROVE  IInv'
    <3>1. PICK n \in DOMAIN published :
            LET live == {k \in DOMAIN published[n] : ~ Expired(published[n][k], clock)}
            IN  \/ /\ live = {}
                   /\ Ingested(n)
                   /\ UNCHANGED ingester
                \/ /\ live # {}
                   /\ Goto(i, [pc |-> "length", message |-> n, live |-> live])
                   /\ UNCHANGED <<delivered, late>>
      BY <2>15 DEF Deliver
    <3>2. UNCHANGED <<clock, list, pc, top, now, deps, start, end, changed, outdated, published,
                      overlapped>>
      BY <2>15 DEF Deliver, presenter, database, request, history
    <3> DEFINE live == {k \in DOMAIN published[n] : ~ Expired(published[n][k], clock)}
    <3>3. CASE live # {}
      <4> DEFINE v == [pc |-> "length", message |-> n, live |-> live]
      <4>1. Goto(i, v) /\ UNCHANGED <<delivered, late>>
        BY <3>1, <3>3
      <4>2. live \in SUBSET Nat
        BY <2>2
      <4>3. v \in IngesterState
        BY <4>2 DEF IngesterState
      <4>4. Ingests(v)
        BY DEF Ingests, Batch
      <4>5. delivered' \subseteq DOMAIN published /\ late' \in BOOLEAN
        BY <4>1 DEF TypeOK
      <4> HIDE DEF v
      <4> QED
        BY <2>14, <3>2, <4>1, <4>3, <4>4, <4>5
    \* Nothing of it is worth storing.
    <3>4. CASE live = {}
      <4>1. Ingested(n) /\ ingester' = ingester
        BY <3>1, <3>4
      <4>2. Goto(i, ingester[i])
        BY <4>1 DEF Goto, TypeOK
      <4>3. PICK v : v = ingester[i]
        OBVIOUS
      <4>4. v \in IngesterState /\ Ingests(v) /\ Goto(i, v)
        BY <4>2, <4>3 DEF TypeOK, IngestInv
      <4>5. delivered' = delivered \cup {n} /\ (~ late' => ~ late)
        BY <4>1 DEF Ingested
      <4>6. delivered' \subseteq DOMAIN published
        BY <4>5 DEF TypeOK
      <4>7. late' \in BOOLEAN
        <5>1. late' = (late \/ \E m \in delivered : m > n)
          BY <4>1 DEF Ingested
        <5> QED
          BY <5>1, Zenon
      <4>8. ListIsNewest'
        <5>1. ASSUME ~ late', ~ overlapped, NEW m \in delivered',
                     NEW d \in NewDeps(published[m], DOMAIN published[m]),
                     ~ Superseded(m, d)', ~ Expired(d, clock)
              PROVE  m \in delivered /\ ~ Superseded(m, d)
          <6>1. m # n
            <7>1. ASSUME m = n PROVE FALSE
              <8>1. PICK k \in DOMAIN published[n] : d = published[n][k]
                BY <5>1, <7>1 DEF NewDeps
              <8>2. k \in live
                BY <5>1, <8>1
              <8> QED
                BY <3>4, <8>2
            <7> QED
              BY <7>1
          <6> QED
            BY <3>2, <4>5, <5>1, <6>1 DEF Superseded
        <5> QED
          BY <3>2, <4>5, <5>1 DEF ListIsNewest
      <4> QED
        BY <2>14, <3>2, <4>4, <4>6, <4>7, <4>8
    <3> QED
      BY <3>3, <3>4
  <2>16. ASSUME NEW i \in Ingesters, ReadLength(i) \/ ReadList(i) \/ Abandon(i)
         PROVE  IInv'
    <3>0. /\ UNCHANGED <<clock, list, pc, top, now, deps, start, end, changed, outdated, published,
                         overlapped>>
          /\ UNCHANGED <<delivered, late>>
      BY <2>16 DEF ReadLength, ReadList, Abandon, presenter, database, request, history
    <3>1. delivered' \subseteq DOMAIN published /\ late' \in BOOLEAN
      BY <3>0 DEF TypeOK
    <3>2. PICK w : w = ingester[i]
      OBVIOUS
    <3>3. w \in IngesterState /\ Ingests(w)
      BY <3>2 DEF TypeOK, IngestInv
    <3>4. w.pc # "idle" => w.message \in DOMAIN published
      BY <3>3, FieldsOf
    <3>5. CASE ReadLength(i)
      <4>1. w.pc = "length" /\ w.live \in SUBSET Nat /\ Batch(w)
        BY <3>2, <3>3, <3>5, FieldsOf DEF ReadLength, Ingests
      <4>2. CASE list = << >>
        <5> DEFINE v == [pc |-> "combine", message |-> w.message, live |-> w.live, cached |-> << >>]
        <5>1. Goto(i, v)
          BY <3>2, <3>5, <4>2 DEF ReadLength
        <5>2. v \in IngesterState
          BY <3>4, <4>1 DEF IngesterState
        <5>3. Ingests(v)
          BY <4>1, <4>2 DEF Ingests, Batch, NoDuplicates, AllReported
        <5> HIDE DEF v
        <5> QED
          BY <2>14, <3>0, <3>1, <5>1, <5>2, <5>3
      <4>3. CASE list # << >>
        <5> DEFINE v == [pc |-> "range", message |-> w.message, live |-> w.live, length |-> Len(list)]
        <5>1. Goto(i, v)
          BY <3>2, <3>5, <4>3 DEF ReadLength
        <5>2. Len(list) \in Nat
          BY <2>2
        <5>3. v \in IngesterState
          BY <3>4, <4>1, <5>2 DEF IngesterState
        <5>4. Ingests(v)
          BY <4>1 DEF Ingests, Batch
        <5> HIDE DEF v
        <5> QED
          BY <2>14, <3>0, <3>1, <5>1, <5>3, <5>4
      <4> QED
        BY <4>2, <4>3
    <3>6. CASE ReadList(i)
      <4>1. w.pc = "range" /\ w.live \in SUBSET Nat /\ w.length \in Nat /\ Batch(w)
        BY <3>2, <3>3, <3>6, FieldsOf DEF ReadList, Ingests
      <4> DEFINE n == IF w.length < Len(list) THEN w.length ELSE Len(list)
                 c == SubSeq(list, 1, n)
                 v == [pc |-> "combine", message |-> w.message, live |-> w.live, cached |-> c]
      <4>2. Goto(i, v)
        BY <3>2, <3>6 DEF ReadList
      <4>3. n \in Nat /\ n <= Len(list) /\ list \in Seq(Departure) /\ NoDuplicates(list)
        BY <2>2, <4>1 DEF ListInv
      <4>4. ~ overlapped => n = Len(list)
        BY <2>2, <3>3, <4>1 DEF Ingests
      <4> HIDE DEF n
      <4>5. /\ c \in Seq(Departure) /\ NoDuplicates(c)
            /\ \A k \in DOMAIN c : k \in DOMAIN list /\ c[k] = list[k]
        BY <4>3, Prefix
      <4>6. ~ overlapped => c = list
        BY <4>3, <4>4
      <4> HIDE DEF c
      <4>7. AllReported(c)
        BY <4>5 DEF ListInv, AllReported
      <4>8. v \in IngesterState
        BY <3>4, <4>1, <4>5 DEF IngesterState
      <4>9. Ingests(v)
        BY <4>1, <4>5, <4>6, <4>7 DEF Ingests, Batch
      <4> HIDE DEF v
      <4> QED
        BY <2>14, <3>0, <3>1, <4>2, <4>8, <4>9
    <3>7. CASE Abandon(i)
      <4>1. Goto(i, Idle)
        BY <3>7 DEF Abandon
      <4>2. Idle \in IngesterState /\ Ingests(Idle)
        BY DEF Idle, IngesterState, Ingests
      <4> QED
        BY <2>14, <3>0, <3>1, <4>1, <4>2
    <3> QED
      BY <2>16, <3>5, <3>6, <3>7
  <2>17. ASSUME NEW i \in Ingesters, Combine(i)
         PROVE  IInv'
    <3>0. /\ UNCHANGED <<clock, list, pc, top, now, deps, start, end, changed, outdated, published,
                         overlapped>>
          /\ UNCHANGED <<delivered, late>>
      BY <2>17 DEF Combine, presenter, database, request, history
    <3>1. delivered' \subseteq DOMAIN published /\ late' \in BOOLEAN
      BY <3>0 DEF TypeOK
    <3>2. PICK w : w = ingester[i]
      OBVIOUS
    <3>3. /\ w \in IngesterState /\ Ingests(w) /\ w.pc = "combine"
          /\ \E l \in Refreshed(w.cached, NewDeps(published[w.message], w.live), clock) :
               Goto(i, [pc |-> "store", message |-> w.message, list |-> l, purged |-> clock])
      BY <2>17, <3>2 DEF Combine, TypeOK, IngestInv
    <3>4. /\ w.message \in DOMAIN published /\ w.cached \in Seq(Departure)
          /\ NoDuplicates(w.cached) /\ AllReported(w.cached) /\ Batch(w)
          /\ ~ overlapped => w.cached = list
      BY <3>3, FieldsOf DEF Ingests
    <3> DEFINE m   == published[w.message]
               new == NewDeps(m, w.live)
    <3>5. PICK l \in Refreshed(w.cached, new, clock) :
            Goto(i, [pc |-> "store", message |-> w.message, list |-> l, purged |-> clock])
      BY <3>3
    <3>6. m \in Seq(Departure) /\ w.live \subseteq DOMAIN m
      BY <2>2, <3>4 DEF Batch
    <3>7. /\ new \in SUBSET Departure /\ IsFiniteSet(new)
          /\ \A d, e \in new : d.journeyRef = e.journeyRef => d = e
          /\ \A d \in new : \E k \in DOMAIN m : d = m[k]
      <4>1. \A d \in new : \E k \in DOMAIN m : d = m[k]
        BY <3>6 DEF NewDeps
      <4> QED
        BY <3>6, <4>1, NewDepsBatch
    <3>8. ASSUME NEW d \in NewDeps(m, DOMAIN m), ~ Expired(d, clock)
          PROVE  d \in new
      <4>1. PICK k \in DOMAIN m :
              d = m[k] /\ \A j \in DOMAIN m : m[j].journeyRef = m[k].journeyRef => j <= k
        BY DEF NewDeps
      <4>2. k \in w.live
        BY <3>4, <3>8, <4>1 DEF Batch
      <4> QED
        BY <3>6, <4>1, <4>2 DEF NewDeps
    <3> HIDE DEF new
    <3>9. /\ l \in Seq(Departure) /\ InOrder(l) /\ NoDuplicates(l)
          /\ \A k \in DOMAIN l :
               /\ ~ Expired(l[k], clock)
               /\ l[k] \in new \/ \E j \in DOMAIN w.cached : l[k] = w.cached[j]
      BY <3>4, <3>7, RefreshedList
    <3>10. /\ \A d \in new : ~ Expired(d, clock) => \E k \in DOMAIN l : l[k] = d
           /\ \A j \in DOMAIN w.cached :
                (/\ ~ Expired(w.cached[j], clock)
                 /\ \A d \in new : d.journeyRef # w.cached[j].journeyRef)
                  => \E k \in DOMAIN l : l[k] = w.cached[j]
      BY <3>4, <3>7, RefreshedKeeps
    <3>11. AllReported(l)
      BY <3>4, <3>7, <3>9 DEF ListInv, AllReported
    <3> DEFINE v == [pc |-> "store", message |-> w.message, list |-> l, purged |-> clock]
    <3>12. ASSUME ~ overlapped
           PROVE  Combines(v)
      <4>1. \A d \in NewDeps(m, DOMAIN m) : ~ Expired(d, clock) => \E k \in DOMAIN l : l[k] = d
        BY <3>8, <3>10
      <4>2. ASSUME NEW n \in DOMAIN list, ~ Expired(list[n], clock),
                   \A e \in Range(m) : e.journeyRef # list[n].journeyRef
            PROVE  \E k \in DOMAIN l : l[k] = list[n]
        <5>1. w.cached = list
          BY <3>4, <3>12
        <5>2. \A d \in new : d.journeyRef # list[n].journeyRef
          BY <3>7, <4>2 DEF Range
        <5> QED
          BY <3>10, <4>2, <5>1, <5>2
      <4> QED
        BY <4>1, <4>2 DEF Combines
    <3>13. Ingests(v)
      BY <3>9, <3>11, <3>12 DEF Ingests
    <3>14. v \in IngesterState
      <4>1. clock \in FirstTime .. clock
        BY DEF TypeOK
      <4> QED
        BY <3>4, <3>9, <4>1 DEF IngesterState
    <3>15. Goto(i, v)
      BY <3>5
    <3> HIDE DEF v
    <3> QED
      BY <2>14, <3>0, <3>1, <3>13, <3>14, <3>15
  <2>18. ASSUME NEW i \in Ingesters, Store(i)
         PROVE  IInv'
    <3>1. PICK w : w = ingester[i]
      OBVIOUS
    <3>2. /\ w \in IngesterState /\ Ingests(w) /\ w.pc = "store"
          /\ Replace(w.list, w.purged) /\ Ingested(w.message) /\ Goto(i, Idle)
          /\ overlapped' = (overlapped \/ \E j \in Ingesters \ {i} :
                              ingester[j].pc \in {"range", "combine", "store"})
          /\ published' = published
      BY <2>18, <3>1 DEF Store, TypeOK, IngestInv
    <3>3. /\ w.message \in DOMAIN published /\ w.list \in Seq(Departure)
          /\ w.purged \in FirstTime .. clock
          /\ InOrder(w.list) /\ NoDuplicates(w.list) /\ AllReported(w.list)
          /\ \A k \in DOMAIN w.list : ~ Expired(w.list[k], w.purged)
          /\ ~ overlapped => Combines(w)
      BY <3>2, FieldsOf DEF Ingests
    <3>4. /\ list' = w.list
          /\ UNCHANGED <<clock, pc, top, now, deps, start, end, published>>
          /\ ~ outdated' => ~ outdated /\ ~ (w.purged < now)
          /\ delivered' = delivered \cup {w.message}
          /\ ~ late' => ~ late /\ \A j \in delivered : ~ (j > w.message)
          /\ ~ overlapped' => /\ ~ overlapped
                              /\ \A j \in Ingesters \ {i} :
                                   ingester[j].pc \notin {"range", "combine", "store"}
      BY <3>2 DEF Replace, Ingested, request
    <3>5. /\ changed' \in BOOLEAN /\ outdated' \in BOOLEAN
          /\ late' \in BOOLEAN /\ overlapped' \in BOOLEAN
      <4>1. /\ changed' = (pc # "idle" /\ (changed \/ w.list # list))
            /\ outdated' = (outdated \/ w.purged < now)
            /\ late' = (late \/ \E j \in delivered : j > w.message)
        BY <3>2 DEF Replace, Ingested
      <4> QED
        BY <3>2, <4>1, Zenon
    <3>6. ingester' = [ingester EXCEPT ![i] = Idle] /\ ingester \in [Ingesters -> IngesterState]
      BY <3>2 DEF Goto, TypeOK
    <3>7. ASSUME NEW j \in Ingesters
          PROVE  ingester'[j] \in IngesterState' /\ Ingests(ingester[j])'
      <4>1. CASE j = i
        <5>1. ingester'[j] = Idle
          BY <3>6, <4>1
        <5>2. Idle \in IngesterState'
          BY DEF Idle, IngesterState
        <5> QED
          BY <5>1, <5>2 DEF Idle, Ingests
      <4>2. CASE j # i
        <5>1. PICK u : u = ingester[j]
          OBVIOUS
        <5>2. u \in IngesterState /\ Ingests(u) /\ ingester'[j] = u
          BY <3>6, <4>2, <5>1 DEF IngestInv
        <5>3. u.pc \in {"idle", "length", "range", "combine", "store"}
          BY <5>2, FieldsOf
        <5>4. overlapped' \/ u.pc \in {"idle", "length"}
          BY <3>4, <4>2, <5>1, <5>3
        <5>5. u \in IngesterState' /\ Ingests(u)'
          <6>1. clock' \in Nat /\ clock <= clock'
            BY <2>2, <3>4
          <6> QED
            BY <3>4, <5>2, <5>4, <6>1, StillIngests
        <5> QED
          BY <5>1, <5>2, <5>5 DEF Ingests, Batch, Combines
      <4> QED
        BY <4>1, <4>2
    <3>8. ingester' \in [Ingesters -> IngesterState'] /\ IngestInv'
      BY <3>6, <3>7 DEF IngestInv
    <3>9. TypeOK'
      <4>1. delivered' \subseteq DOMAIN published'
        BY <3>3, <3>4 DEF TypeOK
      <4>2. list' \in Seq(Departure)
        BY <3>3, <3>4
      <4> QED
        BY <3>4, <3>5, <3>8, <4>1, <4>2, Zenon DEF TypeOK
    <3>10. ListInv'
      <4>1. /\ AllReported(deps)'
            /\ \A j \in DOMAIN published' : AllReported(published'[j])
        BY <3>4 DEF ListInv, AllReported
      <4>2. InOrder(list)' /\ NoDuplicates(list)' /\ AllReported(list)'
        BY <3>3, <3>4 DEF InOrder, NoDuplicates, AllReported
      <4> QED
        BY <4>1, <4>2 DEF ListInv, AllReported
    <3>11. PageInv'
      <4>1. ASSUME ~ outdated', NEW k \in DOMAIN list'
            PROVE  ~ Expired(list'[k], now)
        <5>1. w.list[k] \in Departure /\ ~ Expired(w.list[k], w.purged)
          BY <3>3, <3>4
        <5>2. w.purged \in Nat /\ now <= w.purged
          BY <2>2, <3>3, <3>4, <4>1
        <5> QED
          BY <2>1, <2>2, <3>4, <5>1, <5>2
      <4>2. \A k : ~ outdated' => Fresh(list', k)
        BY <4>1 DEF Fresh
      <4> QED
        BY <3>4, <4>2 DEF PageInv, Fresh
    <3>12. ListIsNewest'
      <4> SUFFICES ASSUME ~ late', ~ overlapped',
                          NEW n \in delivered', NEW d \in NewDeps(published[n], DOMAIN published[n]),
                          ~ Superseded(n, d)', ~ Expired(d, clock)
                   PROVE  \E k \in DOMAIN list' : list'[k] = d
        <5>1. NoDuplicates(list)'
          BY <3>10 DEF ListInv
        <5> QED
          BY <3>4, <5>1 DEF ListIsNewest, NoDuplicates
      <4>1. ~ late /\ \A j \in delivered : j <= w.message
        <5>1. ~ late /\ \A j \in delivered : ~ (j > w.message)
          BY <3>4
        <5>2. \A j \in delivered : j \in Nat
          BY <2>2 DEF TypeOK
        <5> QED
          BY <2>2, <3>3, <5>1, <5>2
      <4>2. n \in DOMAIN published /\ d \in Range(published[n])
        <5>1. n \in DOMAIN published
          BY <3>3, <3>4 DEF TypeOK
        <5> QED
          BY <5>1 DEF NewDeps, Range
      <4>3. ~ overlapped /\ Combines(w)
        BY <3>3, <3>4
      <4> DEFINE m == published[w.message]
      \* The message has the journey: what it says last of it is stored.
      <4>4. CASE \E e \in Range(m) : e.journeyRef = d.journeyRef
        <5>1. n = w.message
          <6>1. n \in Nat /\ w.message \in Nat
            BY <2>2, <3>3, <4>2, SMTT(30)
          <6>2. n \in delivered \/ n = w.message
            BY <3>4
          <6>3. ~ (w.message > n)
            BY <3>4, <4>4 DEF Superseded
          <6> QED
            BY <4>1, <6>1, <6>2, <6>3
        <5> QED
          BY <3>4, <4>3, <5>1 DEF Combines
      \* It has not: what was stored of it before is still there.
      <4>5. CASE \A e \in Range(m) : e.journeyRef # d.journeyRef
        <5>1. n # w.message /\ n \in delivered
          BY <3>4, <4>2, <4>5
        <5>2. ~ Superseded(n, d)
          BY <3>4 DEF Superseded
        <5>3. PICK k \in DOMAIN list : list[k] = d
          BY <4>1, <4>3, <5>1, <5>2 DEF ListIsNewest
        <5> QED
          BY <3>4, <4>3, <4>5, <5>3 DEF Combines
      <4> QED
        BY <4>4, <4>5
    <3> QED
      BY <3>8, <3>9, <3>10, <3>11, <3>12
  <2> QED
    BY <2>6, <2>7, <2>8, <2>9, <2>10, <2>11, <2>12, <2>13, <2>14, <2>15, <2>16, <2>17, <2>18
       DEF Next, Present, Handler, Ingest
<1> QED
  BY <1>1, <1>2, PTL DEF Spec

-----------------------------------------------------------------------------
\* Whatever the lists that are read page by page become meanwhile, no departure
\* is presented that was expired when the request came, unless an ingester that
\* purged its list before that stores it after the first page was read:
\* removeExpiredDepartures of the presenter looks at those in front only, and that
\* is enough for the other lists.
THEOREM NeverExpired == Spec => []NoExpiredPresented
<1>1. IInv => NoExpiredPresented
  <2> SUFFICES ASSUME IInv, pc = "done", ~ outdated, NEW k \in DOMAIN deps
               PROVE  ~ IsExpired(deps[k], now)
    BY DEF NoExpiredPresented
  <2>1. deps \in Seq(Departure) /\ now \in FirstTime .. LastTime
    BY PresenterAssumption DEF IInv, TypeOK
  <2>2. deps[k] \in Departure /\ k > 0
    BY <2>1
  <2>3. ~ Expired(deps[k], now)
    BY <2>2 DEF IInv, PageInv, Fresh
  <2> QED
    BY <2>1, <2>2, <2>3, BusAssumption
<1> QED
  BY <1>1, Invariant, PTL

\* The list has the newest of each journey as long as SNS keeps the order of the
\* first deliveries and no list is stored while another ingester makes one of the
\* list that it replaces, with any number of messages delivered again, given up, and
\* ingested while others are read.
THEOREM AlwaysNewest == Spec => []ListIsNewest
<1>1. IInv => ListIsNewest
  BY DEF IInv
<1> QED
  BY <1>1, Invariant, PTL

\* From the filter of optis-poller to the answer of the presenter nothing is made
\* up: what is presented is a visit that was kept, with its times.
THEOREM AlwaysKept == Spec => []PresentedWasKept
<1>1. IInv => PresentedWasKept
  <2> SUFFICES ASSUME IInv, NEW k \in DOMAIN deps
               PROVE  \E response \in Responses : \E v \in Range(response) :
                        /\ v.journeyRef = deps[k].journeyRef /\ v.aimed = deps[k].aimed
                        /\ ~ v.cancelled /\ v.aimed >= v.origin
                        /\ deps[k].expected = IF v.expected = Zero THEN NoTime ELSE v.expected
                        /\ DepartureTime(deps[k]) # Zero
    BY DEF PresentedWasKept
  <2>1. PICK response \in Responses :
          \E v \in Range(response) : Kept(v) /\ deps[k] = Transformed(v)
    BY DEF IInv, ListInv, AllReported, Reported
  <2>2. PICK v \in Range(response) : Kept(v) /\ deps[k] = Transformed(v)
    BY <2>1
  <2>3. v.expected # NoTime
    <3>1. v \in Visit
      BY BusAssumption DEF Range
    <3> QED
      BY <3>1, DeparturesAssumption DEF Visit, Times
  <2>4. /\ v.journeyRef = deps[k].journeyRef /\ v.aimed = deps[k].aimed
        /\ ~ v.cancelled /\ v.aimed >= v.origin
        /\ deps[k].expected = IF v.expected = Zero THEN NoTime ELSE v.expected
    BY <2>2 DEF Kept, Transformed
  <2>5. DepartureTime(deps[k]) # Zero
    BY <2>2, <2>3, <2>4 DEF Kept, DepartureTime
  <2> QED
    BY <2>4, <2>5
<1> QED
  BY <1>1, Invariant, PTL

\* The variables keep their types.
THEOREM TypeCorrect == Spec => []TypeOK
<1>1. IInv => TypeOK
  BY DEF IInv
<1> QED
  BY <1>1, Invariant, PTL

-----------------------------------------------------------------------------
(* The pages *)

\* The first n of the list are expired, and no other.
FirstExpired(n) == \A k \in DOMAIN list : IsExpired(list[k], now) <=> k <= n

Least(m, n) == IF m < n THEN m ELSE n

\* With n expired departures in front, a page that follows another one starts
\* where that one ends, as long as it has expired departures only; the page in
\* which the others begin is completed by the next, and this is the last.
PageOf(n) ==
    /\ pc = "assign" /\ start > 0 /\ ~ changed =>
         /\ n > start - top
         /\ end = Least(n, start) + top
         /\ deps = SubSeq(list, Least(n, start) + 1, Least(start, Len(list)))
    /\ pc = "remove" /\ ~ changed =>
         /\ start = 0 \/ n > start - top
         /\ end = Least(n, start) + top
         /\ deps = SubSeq(list, Least(n, start) + 1, Least(Least(n, start) + top, Len(list)))
    /\ pc = "done" /\ ~ changed =>
         deps = SubSeq(list, n + 1, Least(n + top, Len(list)))

PagesInv ==
    /\ pc = "assign" /\ start = 0 => deps = << >> /\ end = top
    /\ \A n \in 0 .. Len(list) : FirstExpired(n) => PageOf(n)

\* A sorted list has its expired departures in front.
LEMMA ExpiredInFront ==
    ASSUME IInv
    PROVE  \E n \in 0 .. Len(list) : FirstExpired(n)
<1>1. /\ list \in Seq(Departure) /\ Len(list) \in Nat /\ DOMAIN list = 1 .. Len(list)
      /\ now \in FirstTime .. LastTime /\ now \in Nat
  BY PresenterAssumption DEF IInv, TypeOK
<1>2. \A k \in DOMAIN list : list[k] \in Departure /\ IsExpired(list[k], now) = Expired(list[k], now)
  BY <1>1, BusAssumption
<1>3. ASSUME NEW i \in DOMAIN list, NEW k \in DOMAIN list, i < k, ~ Expired(list[i], now)
      PROVE  ~ Expired(list[k], now)
  <2>1. ~ Before(list[k], list[i])
    BY <1>3 DEF IInv, ListInv, InOrder
  <2>2. DepartureTime(list[i]) \in Nat /\ DepartureTime(list[k]) \in Nat
    BY <1>2, TimeIsNat
  <2> QED
    BY <1>1, <1>3, <2>1, <2>2 DEF Before, Expired
<1> DEFINE fresh == {k \in DOMAIN list : ~ Expired(list[k], now)}
           R == OpToRel(<, Nat)
<1>4. CASE fresh = {}
  <2>1. FirstExpired(Len(list))
    BY <1>1, <1>2, <1>4 DEF FirstExpired
  <2> QED
    BY <1>1, <2>1
<1>5. CASE fresh # {}
  <2>1. \A x, y \in Nat : <<y, x>> \in R <=> y < x
    BY DEF OpToRel
  <2>2. IsWellFoundedOn(R, Nat)
    BY NatLessThanWellFounded
  <2> HIDE DEF R
  <2>3. fresh \subseteq Nat
    BY <1>1
  <2>4. PICK x \in fresh : \A y \in fresh : ~ (<<y, x>> \in R)
    BY <1>5, <2>2, <2>3, WFMin
  <2>5. \A y \in fresh : ~ (y < x)
    BY <2>1, <2>3, <2>4
  <2>6. x \in DOMAIN list /\ ~ Expired(list[x], now)
    OBVIOUS
  <2>7. ASSUME NEW k \in DOMAIN list
        PROVE  IsExpired(list[k], now) <=> k <= x - 1
    <3>1. CASE k < x
      <4>1. k \notin fresh
        BY <2>5, <3>1
      <4> QED
        BY <1>1, <1>2, <2>6, <3>1, <4>1
    <3>2. CASE k = x
      BY <1>1, <1>2, <2>6, <3>2
    <3>3. CASE k > x
      <4>1. ~ Expired(list[k], now)
        BY <1>1, <1>3, <2>6, <3>3
      <4> QED
        BY <1>1, <1>2, <2>6, <3>3, <4>1
    <3> QED
      BY <1>1, <2>6, <3>1, <3>2, <3>3
  <2>8. x - 1 \in 0 .. Len(list) /\ FirstExpired(x - 1)
    BY <1>1, <2>6, <2>7 DEF FirstExpired
  <2> QED
    BY <2>8
<1> QED
  BY <1>4, <1>5

\* A list in two adjoining parts.
LEMMA Adjoining ==
    ASSUME NEW s \in Seq(Departure), NEW i \in Nat, NEW j \in Nat, NEW k \in Nat,
           i <= j, j <= k \/ Len(s) <= j, k <= Len(s)
    PROVE  SubSeq(s, i + 1, Least(j, Len(s))) \o SubSeq(s, j + 1, k)
             = SubSeq(s, i + 1, Least(Len(s), IF j <= k THEN k ELSE j))
<1> DEFINE m == Least(j, Len(s))
           l == Least(Len(s), IF j <= k THEN k ELSE j)
           a == SubSeq(s, i + 1, m)
           b == SubSeq(s, j + 1, k)
           c == SubSeq(s, i + 1, l)
<1>1. Len(s) \in Nat /\ m \in Nat /\ l \in Nat /\ m <= Len(s) /\ l <= Len(s)
  BY DEF Least
<1> HIDE DEF l, m
<1>2. /\ a \in Seq(Departure) /\ Len(a) = IF i < m THEN m - i ELSE 0
      /\ \A x \in 1 .. Len(a) : a[x] = s[i + x]
  BY <1>1, PartOf
<1>3. /\ b \in Seq(Departure) /\ Len(b) = IF j < k THEN k - j ELSE 0
      /\ \A x \in 1 .. Len(b) : b[x] = s[j + x]
  BY <1>1, PartOf
<1>4. /\ c \in Seq(Departure) /\ Len(c) = IF i < l THEN l - i ELSE 0
      /\ \A x \in 1 .. Len(c) : c[x] = s[i + x]
  BY <1>1, PartOf
<1>5. Len(b) > 0 => m = j /\ l = k /\ Len(a) = j - i
  BY <1>1, <1>2, <1>3 DEF Least, l, m
<1>6. Len(b) = 0 => l = m
  BY <1>1, <1>3 DEF Least, l, m
<1> HIDE DEF a, b, c
<1>7. /\ a \o b \in Seq(Departure) /\ Len(a \o b) = Len(a) + Len(b)
      /\ \A x \in 1 .. Len(a) : (a \o b)[x] = a[x]
      /\ \A x \in 1 .. Len(b) : (a \o b)[Len(a) + x] = b[x]
  <2>1. a \in Seq(Departure) /\ b \in Seq(Departure)
    BY <1>2, <1>3
  <2>2. a \o b \in Seq(Departure) /\ Len(a \o b) = Len(a) + Len(b)
    BY <2>1
  <2>3. /\ \A x \in 1 .. Len(a) : (a \o b)[x] = a[x]
        /\ \A x \in 1 .. Len(b) : (a \o b)[Len(a) + x] = b[x]
    BY <2>1
  <2> QED
    BY <2>2, <2>3
<1>8. Len(a \o b) = Len(c)
  <2>1. CASE Len(b) = 0
    BY <1>1, <1>2, <1>4, <1>6, <1>7, <2>1
  <2>2. CASE Len(b) > 0
    <3>1. m = j /\ l = k /\ Len(a) = j - i /\ Len(b) = k - j /\ j < k
      BY <1>1, <1>3, <1>5, <2>2
    <3>2. Len(c) = k - i
      BY <1>4, <3>1
    <3> QED
      BY <1>7, <3>1, <3>2
  <2>3. Len(b) \in Nat
    BY <1>3
  <2> QED
    BY <2>1, <2>2, <2>3
<1>9. ASSUME NEW x \in 1 .. Len(c)
      PROVE  (a \o b)[x] = c[x]
  <2>1. CASE x \in 1 .. Len(a)
    BY <1>2, <1>4, <1>7, <2>1
  <2>2. CASE x \notin 1 .. Len(a)
    <3> DEFINE y == x - Len(a)
    <3>1. y \in 1 .. Len(b) /\ Len(b) > 0 /\ x = Len(a) + y
      <4>1. Len(a) \in Nat /\ Len(b) \in Nat /\ Len(c) \in Nat
        BY <1>2, <1>3, <1>4
      <4>2. Len(c) = Len(a) + Len(b)
        BY <1>7, <1>8
      <4>3. PICK m1 \in Nat, n1 \in Nat, l1 \in Nat : m1 = Len(a) /\ n1 = Len(b) /\ l1 = Len(c)
        BY <4>1
      <4>4. x \in 1 .. m1 + n1 /\ x \notin 1 .. m1
        BY <2>2, <4>2, <4>3
      <4>5. x - m1 \in 1 .. n1 /\ n1 > 0 /\ x = m1 + (x - m1)
        BY <4>3, <4>4
      <4> QED
        BY <4>3, <4>5
    <3>2. j + y = i + x
      BY <1>1, <1>5, <3>1
    <3>3. (a \o b)[x] = b[y] /\ b[y] = s[j + y]
      BY <1>3, <1>7, <3>1
    <3>4. c[x] = s[i + x]
      BY <1>4
    <3> QED
      BY <3>2, <3>3, <3>4
  <2> QED
    BY <2>1, <2>2
<1>10. a \o b = c
  BY <1>4, <1>7, <1>8, <1>9, SeqEqual
<1> QED
  BY <1>10 DEF a, b, c, l, m

LEMMA AssignPages ==
    ASSUME IInv, PagesInv, AssignNextDepartures
    PROVE  PagesInv'
<1>1. /\ start \in Nat /\ end \in Nat /\ top \in Nat \ {0} /\ list \in Seq(Departure)
      /\ Len(list) \in Nat
  BY PresenterAssumption DEF IInv, TypeOK
<1>2. /\ pc = "assign" /\ pc' = "remove" /\ UNCHANGED <<list, now, top, start, end>>
      /\ deps' = deps \o SubSeq(list, start + 1, Least(end, Len(list)))
      /\ (~ changed' => start = 0 \/ ~ changed)
  BY DEF AssignNextDepartures, database, history, Least
<1>3. SUFFICES ASSUME NEW n \in 0 .. Len(list), FirstExpired(n), start = 0 \/ ~ changed
               PROVE  /\ start = 0 \/ n > start - top
                      /\ end = Least(n, start) + top
                      /\ deps' = SubSeq(list, Least(n, start) + 1,
                                        Least(Least(n, start) + top, Len(list)))
  BY <1>2 DEF PagesInv, PageOf, FirstExpired
<1> DEFINE lo == Least(n, start)
           last == Least(end, Len(list))
<1>4. /\ start = 0 \/ n > start - top
      /\ end = lo + top
      /\ deps = SubSeq(list, lo + 1, Least(start, Len(list)))
  <2>1. CASE start = 0
    <3>1. deps = << >> /\ end = top
      BY <1>2, <2>1 DEF PagesInv
    <3>2. lo = 0 /\ Least(start, Len(list)) = 0
      BY <1>1, <2>1 DEF Least
    <3>3. SubSeq(list, 1, 0) = << >>
      BY <1>1
    <3> QED
      BY <1>1, <2>1, <3>1, <3>2, <3>3
  <2>2. CASE start # 0
    BY <1>1, <1>2, <1>3, <2>2 DEF PagesInv, PageOf
  <2> QED
    BY <2>1, <2>2
<1>5. lo \in Nat /\ lo <= start /\ last \in Nat /\ last <= Len(list) /\ start <= end
  BY <1>1, <1>4 DEF Least
<1>6. start <= last \/ Len(list) <= start
  BY <1>1, <1>5 DEF Least
<1>7. Least(Len(list), IF start <= last THEN last ELSE start) = last
  BY <1>1, <1>5, <1>6 DEF Least
<1> HIDE DEF lo, last
<1>8. SubSeq(list, lo + 1, Least(start, Len(list))) \o SubSeq(list, start + 1, last)
        = SubSeq(list, lo + 1, last)
  <2>1. SubSeq(list, lo + 1, Least(start, Len(list))) \o SubSeq(list, start + 1, last)
          = SubSeq(list, lo + 1, Least(Len(list), IF start <= last THEN last ELSE start))
    BY <1>1, <1>5, <1>6, Adjoining, Zenon
  <2> QED
    BY <1>7, <2>1
<1>9. deps' = SubSeq(list, lo + 1, Least(lo + top, Len(list)))
  BY <1>2, <1>4, <1>8 DEF last
<1> QED
  BY <1>4, <1>9 DEF lo

LEMMA RemovePages ==
    ASSUME IInv, PagesInv, RemoveExpiredDepartures
    PROVE  PagesInv'
<1>1. /\ start \in Nat /\ end \in Nat /\ top \in Nat \ {0} /\ list \in Seq(Departure)
      /\ Len(list) \in Nat
  BY PresenterAssumption DEF IInv, TypeOK
<1>2. /\ pc = "remove" /\ UNCHANGED <<list, now, top, changed>>
      /\ deps' = SubSeq(deps, Removed + 1, Len(deps))
      /\ \/ /\ Removed = 0 \/ Len(deps') = top
            /\ pc' = "done"
         \/ /\ Removed # 0
            /\ pc' = "assign" /\ start' = start + top /\ end' = end + Removed
  BY DEF RemoveExpiredDepartures, database, history
<1>3. pc' = "assign" => start' > 0
  BY <1>1, <1>2
<1>4. SUFFICES ASSUME NEW n \in 0 .. Len(list), FirstExpired(n), ~ changed
               PROVE  /\ pc' = "assign" =>
                           /\ n > start' - top
                           /\ end' = Least(n, start') + top
                           /\ deps' = SubSeq(list, Least(n, start') + 1, Least(start', Len(list)))
                      /\ pc' = "done" => deps' = SubSeq(list, n + 1, Least(n + top, Len(list)))
  <2>1. /\ pc' # "remove" /\ (pc' = "assign" => start' # 0)
        /\ \A n : FirstExpired(n)' <=> FirstExpired(n)
    BY <1>1, <1>2, <1>3 DEF FirstExpired
  <2> QED
    BY <1>2, <2>1 DEF PagesInv, PageOf
<1> DEFINE lo == Least(n, start)
           last == Least(lo + top, Len(list))
           r == Least(n, last) - lo
           IsNumber(x) == /\ \A k \in 1 .. x : IsExpired(deps[k], now)
                          /\ x < Len(deps) => ~ IsExpired(deps[x + 1], now)
<1>5. end = lo + top /\ deps = SubSeq(list, lo + 1, last)
  BY <1>2, <1>4 DEF PagesInv, PageOf
<1>6. /\ lo \in Nat /\ last \in Nat /\ lo <= last /\ last <= Len(list) /\ r \in Nat
      /\ r <= last - lo /\ lo <= n /\ last <= lo + top /\ last - lo \in Nat
  BY <1>1 DEF Least
<1>7. /\ r = 0 => lo = n
      /\ r > 0 => lo = start /\ n > start /\ lo + r = Least(n, start + top)
                  /\ last = Least(start + top, Len(list))
      /\ r < last - lo => lo + r = n
      /\ lo + r <= n
  <2>1. /\ n \in Nat /\ n <= Len(list) /\ lo + r = Least(n, last)
        /\ lo = Least(n, start) /\ last = Least(lo + top, Len(list))
    BY <1>1, <1>6 DEF Least
  <2> HIDE DEF lo, last, r
  <2>2. lo + r <= n /\ (r < last - lo => lo + r = n)
    <3>1. CASE n < last
      BY <1>6, <2>1, <3>1 DEF Least
    <3>2. CASE ~ (n < last)
      <4>1. lo + r = last /\ last <= n
        BY <1>6, <2>1, <3>2 DEF Least
      <4> QED
        BY <1>6, <4>1
    <3> QED
      BY <3>1, <3>2
  <2>3. r = 0 => lo = n
    BY <1>1, <1>6, <2>1 DEF Least
  <2>4. r > 0 => lo = start /\ n > start
    BY <1>1, <1>6, <2>1 DEF Least
  <2>5. lo = start => last = Least(start + top, Len(list)) /\ Least(n, last) = Least(n, start + top)
    BY <1>1, <1>6, <2>1 DEF Least
  <2> QED
    BY <2>1, <2>2, <2>3, <2>4, <2>5
<1> HIDE DEF lo, last, r
<1>8. /\ Len(deps) = last - lo
      /\ \A k \in 1 .. last - lo : deps[k] = list[lo + k]
      /\ SubSeq(deps, r + 1, Len(deps)) = SubSeq(list, (lo + r) + 1, last)
      /\ Len(SubSeq(list, (lo + r) + 1, last)) = last - (lo + r)
  <2>1. /\ deps \in Seq(Departure) /\ Len(deps) = last - lo
        /\ \A k \in 1 .. last - lo : deps[k] = list[lo + k]
    <3>1. /\ deps \in Seq(Departure) /\ Len(deps) = IF lo < last THEN last - lo ELSE 0
          /\ \A k \in 1 .. Len(deps) : deps[k] = list[lo + k]
      BY <1>1, <1>5, <1>6, PartOf
    <3>2. Len(deps) = last - lo
      BY <1>6, <3>1
    <3> QED
      BY <3>1, <3>2
  <2> DEFINE b == SubSeq(deps, r + 1, Len(deps))
             c == SubSeq(list, (lo + r) + 1, last)
  <2>2. /\ b \in Seq(Departure) /\ Len(b) = (last - lo) - r
        /\ \A k \in 1 .. (last - lo) - r : b[k] = deps[r + k]
    <3>1. r \in Nat /\ Len(deps) \in Nat /\ r <= Len(deps) /\ Len(deps) <= Len(deps)
      BY <1>6, <2>1
    <3>2. /\ b \in Seq(Departure) /\ Len(b) = IF r < Len(deps) THEN Len(deps) - r ELSE 0
          /\ \A k \in 1 .. Len(b) : b[k] = deps[r + k]
      BY <2>1, <3>1, PartOf, Zenon
    <3> HIDE DEF b
    <3>3. Len(b) = (last - lo) - r
      BY <2>1, <3>1, <3>2
    <3> QED
      BY <3>2, <3>3
  <2>3. lo + r \in Nat /\ lo + r <= last /\ last - (lo + r) = (last - lo) - r
    BY <1>6
  <2>4. /\ c \in Seq(Departure) /\ Len(c) = (last - lo) - r
        /\ \A k \in 1 .. (last - lo) - r : c[k] = list[(lo + r) + k]
    <3>1. /\ c \in Seq(Departure)
          /\ Len(c) = IF lo + r < last THEN last - (lo + r) ELSE 0
          /\ \A k \in 1 .. Len(c) : c[k] = list[(lo + r) + k]
      <4>1. list \in Seq(Departure) /\ lo + r \in Nat /\ last \in Nat /\ last <= Len(list)
        BY <1>1, <1>6, <2>3
      <4> QED
        BY <4>1, PartOf, Zenon
    <3> HIDE DEF c
    <3>2. Len(c) = (last - lo) - r
      BY <1>6, <2>3, <3>1
    <3> QED
      BY <3>1, <3>2
  <2> HIDE DEF b, c
  <2>5. ASSUME NEW k \in 1 .. (last - lo) - r
        PROVE  b[k] = c[k]
    <3>1. r + k \in 1 .. last - lo /\ lo + (r + k) = (lo + r) + k
      BY <1>6
    <3> QED
      BY <2>1, <2>2, <2>4, <3>1
  <2>6. b = c
    BY <2>2, <2>4, <2>5, SeqEqual
  <2> QED
    BY <2>1, <2>3, <2>4, <2>6 DEF b, c
<1>9. \A k \in 1 .. last - lo : IsExpired(deps[k], now) <=> lo + k <= n
  <2> SUFFICES ASSUME NEW k \in 1 .. last - lo
               PROVE  IsExpired(deps[k], now) <=> lo + k <= n
    OBVIOUS
  <2>1. lo + k \in DOMAIN list
    BY <1>1, <1>6
  <2> QED
    BY <1>4, <1>8, <2>1 DEF FirstExpired
<1>10. IsNumber(r)
  <2>1. ASSUME NEW k \in 1 .. r PROVE IsExpired(deps[k], now)
    <3>1. k \in 1 .. last - lo /\ lo + k <= n
      BY <1>6, <1>7
    <3> QED
      BY <1>9, <3>1
  <2>2. ASSUME r < Len(deps) PROVE ~ IsExpired(deps[r + 1], now)
    <3>1. r + 1 \in 1 .. last - lo /\ ~ (lo + (r + 1) <= n)
      BY <1>6, <1>7, <1>8, <2>2
    <3> QED
      BY <1>9, <3>1
  <2> QED
    BY <2>1, <2>2
<1>11. Removed \in 0 .. Len(deps) /\ IsNumber(Removed)
  <2>1. r \in 0 .. Len(deps)
    BY <1>6, <1>8
  <2>2. \E x \in 0 .. Len(deps) : IsNumber(x)
    BY <1>10, <2>1
  <2> QED
    BY <2>2 DEF Removed
<1>16. /\ Removed \in Nat /\ Removed <= Len(deps)
       /\ Len(deps) \in Nat /\ Len(deps) = last - lo /\ r <= Len(deps)
  <2>1. Removed \in 0 .. Len(deps) /\ Len(deps) = last - lo
    BY <1>8, <1>11
  <2> QED
    BY <1>6, <2>1
<1>12. Removed = r
  <2>1. CASE Removed < r
    <3>1. Removed + 1 \in 1 .. r /\ Removed < Len(deps)
      BY <1>6, <1>16, <2>1
    <3> QED
      BY <1>10, <1>11, <3>1
  <2>2. CASE Removed > r
    <3>1. r + 1 \in 1 .. Removed /\ r < Len(deps)
      BY <1>6, <1>16, <2>2
    <3> QED
      BY <1>10, <1>11, <3>1
  <2>3. Removed \in Nat /\ r \in Nat
    BY <1>6, <1>16
  <2> QED
    BY <2>1, <2>2, <2>3
<1> HIDE DEF IsNumber
<1>13. deps' = SubSeq(list, (lo + r) + 1, last) /\ Len(deps') = last - (lo + r)
  BY <1>2, <1>8, <1>12
<1>14. CASE r = 0
  <2>1. pc' = "done"
    BY <1>2, <1>12, <1>14
  <2>2. lo = n /\ lo + r = n
    BY <1>6, <1>7, <1>14
  <2>3. last = Least(n + top, Len(list))
    BY <2>2 DEF last
  <2> QED
    BY <1>13, <2>1, <2>2, <2>3
<1>15. CASE r > 0
  <2>1. Len(deps') # top
    BY <1>1, <1>6, <1>13, <1>15
  <2>2. pc' = "assign" /\ start' = start + top /\ end' = end + r
    BY <1>2, <1>6, <1>12, <1>15, <2>1
  <2>3. lo = start /\ n > start /\ lo + r = Least(n, start + top) /\ last = Least(start + top, Len(list))
    BY <1>7, <1>15
  <2>4. n > (start + top) - top /\ end + r = Least(n, start + top) + top
    BY <1>1, <1>5, <1>6, <2>3
  <2>5. deps' = SubSeq(list, Least(n, start + top) + 1, Least(start + top, Len(list)))
    BY <1>13, <2>3
  <2> QED
    BY <2>2, <2>4, <2>5
<1> QED
  BY <1>6, <1>14, <1>15

LEMMA PagesInvariant == Spec => []PagesInv
<1>1. Init => PagesInv
  BY DEF Init, InitPresenter, PagesInv, PageOf
<1>2. IInv /\ PagesInv /\ [Next]_vars => PagesInv'
  <2> SUFFICES ASSUME IInv, PagesInv, [Next]_vars
               PROVE  PagesInv'
    OBVIOUS
  <2>1. CASE UNCHANGED <<list, now, pc, top, deps, start, end, changed>>
    BY <2>1 DEF PagesInv, PageOf, FirstExpired
  <2>2. CASE Poll \/ Tick \/ UNCHANGED vars
    BY <2>1, <2>2 DEF Poll, Tick, vars, presenter, database, request, history
  <2>3. ASSUME NEW i \in Ingesters, Ingest(i)
        PROVE  PagesInv'
    <3>1. UNCHANGED <<now, pc, top, deps, start, end>>
      BY <2>3 DEF Ingest, Deliver, ReadLength, ReadList, Combine, Store, Abandon, Replace,
                  presenter, database, request
    <3>2. pc # "idle" /\ ~ changed' => list' = list /\ ~ changed
      <4>1. (\E l, u : Replace(l, u)) \/ UNCHANGED presenter
        BY <2>3 DEF Ingest, Deliver, ReadLength, ReadList, Combine, Store, Abandon
      <4>2. ASSUME NEW l, NEW u, Replace(l, u), ~ changed', pc # "idle"
            PROVE  list' = list /\ ~ changed
        BY <4>2 DEF Replace
      <4> QED
        BY <4>1, <4>2, Zenon DEF presenter, database, history
    <3> QED
      BY <3>1, <3>2 DEF PagesInv, PageOf, FirstExpired
  <2>4. CASE Receive
    <3>1. pc' = "assign" /\ deps' = << >> /\ start' = 0 /\ end' = top'
      BY <2>4 DEF Receive
    <3> QED
      BY <3>1 DEF PagesInv, PageOf
  <2>5. CASE AssignFails \/ Return
    <3>1. pc' \in {"error", "idle"}
      BY <2>5 DEF AssignFails, Return
    <3> QED
      BY <3>1 DEF PagesInv, PageOf
  <2> QED
    BY <2>2, <2>3, <2>4, <2>5, AssignPages, RemovePages DEF Next, Present, Handler
<1> QED
  BY <1>1, <1>2, Invariant, PTL DEF Spec

\* Of a list that is not replaced between two of its pages, the presenter takes
\* the departures that are next, as many as were asked for, without a gap or an
\* overlap where one page ends and another begins.
THEOREM AlwaysNext == Spec => []PresentsNext
<1>1. IInv /\ PagesInv => PresentsNext
  <2> SUFFICES ASSUME IInv, PagesInv, pc = "done", ~ changed
               PROVE  \E n \in 0 .. Len(list) :
                        /\ \A k \in DOMAIN list : IsExpired(list[k], now) <=> k <= n
                        /\ deps = SubSeq(list, n + 1, IF n + top < Len(list) THEN n + top ELSE Len(list))
    BY DEF PresentsNext
  <2>1. PICK n \in 0 .. Len(list) : FirstExpired(n)
    BY ExpiredInFront
  <2> QED
    BY <2>1 DEF PagesInv, PageOf, FirstExpired, Least
<1> QED
  BY <1>1, Invariant, PagesInvariant, PTL
=============================================================================
