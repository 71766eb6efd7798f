--------------------------- MODULE DeparturesProofs ---------------------------
(***************************************************************************)
(* Lemmas about the operators of Departures, for every list of departures. *)
(***************************************************************************)
EXTENDS Departures, FiniteSetTheorems, TLAPS

\* The set that a finite set is mapped to is finite.  (FS_Image says so for
\* an operator parameter, which the provers here cannot instantiate.)
LEMMA ImageFinite ==
    ASSUME NEW S, IsFiniteSet(S), NEW f, DOMAIN f = S, f = [x \in S |-> f[x]]
    PROVE  IsFiniteSet({f[x] : x \in S})
<1> DEFINE T == {f[x] : x \in S}
<1>1. f \in Surjection(S, T)
  BY DEF Surjection
<1> QED
  BY <1>1, FS_Surjection

LEMMA DomainFinite ==
    ASSUME NEW D, NEW s \in Seq(D)
    PROVE  IsFiniteSet(DOMAIN s)
<1>1. DOMAIN s = 1 .. Len(s) /\ Len(s) \in Nat
  OBVIOUS
<1> QED
  BY <1>1, FS_Interval

\* The batch of new departures of a group: typed, finite, a journey once.
LEMMA NewDepsBatch ==
    ASSUME NEW m \in Seq(Departure), NEW g, g \subseteq DOMAIN m
    PROVE  /\ NewDeps(m, g) \subseteq Departure
           /\ IsFiniteSet(NewDeps(m, g))
           /\ \A n, o \in NewDeps(m, g) : n.journeyRef = o.journeyRef => n = o
<1> DEFINE last == {i \in g : \A j \in g : m[j].journeyRef = m[i].journeyRef => j <= i}
           f == [k \in last |-> m[k]]
<1>1. NewDeps(m, g) = {f[k] : k \in last}
  BY DEF NewDeps
<1>2. NewDeps(m, g) \subseteq Departure
  BY DEF NewDeps
<1>3. IsFiniteSet(last)
  BY DomainFinite, FS_Subset
<1>4. IsFiniteSet(NewDeps(m, g))
  <2> HIDE DEF last
  <2>1. DOMAIN f = last /\ f = [x \in last |-> f[x]]
    OBVIOUS
  <2> HIDE DEF f
  <2> QED
    BY <1>1, <1>3, <2>1, ImageFinite
<1>5. ASSUME NEW k \in last, NEW j \in last, m[k].journeyRef = m[j].journeyRef
      PROVE  k = j
  <2>1. k \in Nat /\ j \in Nat
    OBVIOUS
  <2> QED
    BY <1>5, <2>1
<1>6. \A n, o \in NewDeps(m, g) : n.journeyRef = o.journeyRef => n = o
  BY <1>1, <1>5
<1> QED
  BY <1>2, <1>4, <1>6

\* A departure of the combined list is a cached one or a new one; the list
\* has finitely many; a journey that was there once is there once.
LEMMA CombinedMembers ==
    ASSUME NEW cached \in Seq(Departure), NEW new \in SUBSET Departure, IsFiniteSet(new)
    PROVE  /\ \A t \in Combined(cached, new) :
                /\ t = <<t[1], t[2]>>
                /\ t[2] \in Departure
                /\ t[2] \in new \/ \E i \in DOMAIN cached : t[2] = cached[i]
           /\ IsFiniteSet(Combined(cached, new))
           /\ ( /\ NoDuplicates(cached)
                /\ \A n, o \in new : n.journeyRef = o.journeyRef => n = o )
              => \A t, u \in Combined(cached, new) :
                    t[2].journeyRef = u[2].journeyRef => t = u
<1> DEFINE old == { <<i, Replaced(cached, new, i)>> : i \in DOMAIN cached }
           added == { <<0, n>> : n \in Added(cached, new) }
<1>1. Combined(cached, new) = old \cup added
  BY DEF Combined
<1>2. ASSUME NEW i \in DOMAIN cached
      PROVE  /\ Replaced(cached, new, i) \in new \/ Replaced(cached, new, i) = cached[i]
             /\ Replaced(cached, new, i).journeyRef = cached[i].journeyRef
  BY DEF Replaced
<1>3. \A i \in DOMAIN cached : i # 0 /\ cached[i] \in Departure
  OBVIOUS
<1>4. Added(cached, new) \subseteq new
  BY DEF Added
<1>5. \A t \in Combined(cached, new) :
                /\ t = <<t[1], t[2]>>
                /\ t[2] \in Departure
                /\ t[2] \in new \/ \E i \in DOMAIN cached : t[2] = cached[i]
  BY <1>1, <1>2, <1>3, <1>4
<1>6. IsFiniteSet(Combined(cached, new))
  <2> DEFINE f == [i \in DOMAIN cached |-> <<i, Replaced(cached, new, i)>>]
             g == [n \in Added(cached, new) |-> <<0, n>>]
  <2>1. IsFiniteSet({f[i] : i \in DOMAIN cached})
    <3>1. DOMAIN f = DOMAIN cached /\ f = [x \in DOMAIN cached |-> f[x]]
      OBVIOUS
    <3>2. IsFiniteSet(DOMAIN cached)
      BY DomainFinite
    <3> HIDE DEF f
    <3> QED
      BY <3>1, <3>2, ImageFinite
  <2>2. IsFiniteSet({g[n] : n \in Added(cached, new)})
    <3>1. DOMAIN g = Added(cached, new) /\ g = [x \in Added(cached, new) |-> g[x]]
      OBVIOUS
    <3>2. IsFiniteSet(Added(cached, new))
      BY <1>4, FS_Subset
    <3> HIDE DEF g
    <3> QED
      BY <3>1, <3>2, ImageFinite
  <2>3. old = {f[i] : i \in DOMAIN cached} /\ added = {g[n] : n \in Added(cached, new)}
    OBVIOUS
  <2> HIDE DEF f, g, old, added
  <2>4. IsFiniteSet(old) /\ IsFiniteSet(added)
    BY <2>1, <2>2, <2>3
  <2> QED
    BY <1>1, <2>4, FS_Union
<1>7. ASSUME NoDuplicates(cached),
             \A n, o \in new : n.journeyRef = o.journeyRef => n = o,
             NEW t \in Combined(cached, new), NEW u \in Combined(cached, new),
             t[2].journeyRef = u[2].journeyRef
      PROVE  t = u
  <2>1. CASE t \in old /\ u \in old
    <3>1. PICK i \in DOMAIN cached : t = <<i, Replaced(cached, new, i)>>
      BY <2>1
    <3>2. PICK j \in DOMAIN cached : u = <<j, Replaced(cached, new, j)>>
      BY <2>1
    <3>3. cached[i].journeyRef = cached[j].journeyRef
      BY <1>7, <1>2, <3>1, <3>2
    <3> QED
      BY <1>7, <3>1, <3>2, <3>3 DEF NoDuplicates
  <2>2. CASE t \in added /\ u \in added
    BY <1>7, <1>4, <2>2
  <2>3. ASSUME NEW v \in old, NEW w \in added
        PROVE  v[2].journeyRef # w[2].journeyRef
    BY <1>2 DEF Added
  <2> QED
    BY <1>1, <1>7, <2>1, <2>2, <2>3
<1> QED
  BY <1>5, <1>6, <1>7

\* A refreshed list is a list of cached and new departures, in the order of
\* ByDepartureTime, without the expired ones; a journey that the cached list
\* had at most once is there at most once.
THEOREM RefreshedList ==
    ASSUME NEW cached \in Seq(Departure), NEW new \in SUBSET Departure, IsFiniteSet(new),
           NEW now, NEW s \in Refreshed(cached, new, now)
    PROVE  /\ s \in Seq(Departure)
           /\ InOrder(s)
           /\ \A k \in DOMAIN s :
                /\ ~ Expired(s[k], now)
                /\ s[k] \in new \/ \E i \in DOMAIN cached : s[k] = cached[i]
           /\ ( /\ NoDuplicates(cached)
                /\ \A n, o \in new : n.journeyRef = o.journeyRef => n = o )
              => NoDuplicates(s)
<1> DEFINE kept == {t \in Combined(cached, new) : ~ Expired(t[2], now)}
<1>1. PICK q \in SetToSeqs(kept) :
        /\ \A i, j \in DOMAIN q : i < j => ~ Before(q[j][2], q[i][2])
        /\ s = [k \in DOMAIN q |-> q[k][2]]
  BY DEF Refreshed
<1>2. IsFiniteSet(kept)
  BY CombinedMembers, FS_Subset
<1> DEFINE n == Cardinality(kept)
<1>3. n \in Nat
  BY <1>2, FS_CardinalityType
<1>4. q \in [1 .. n -> kept] /\ \A i, j \in 1 .. n : i # j => q[i] # q[j]
  BY <1>1 DEF SetToSeqs
<1>5. \A k \in 1 .. n : q[k] \in Combined(cached, new) /\ ~ Expired(q[k][2], now)
  BY <1>4
<1>6. DOMAIN s = 1 .. n /\ \A k \in 1 .. n : s[k] = q[k][2]
  BY <1>1, <1>4
<1> HIDE DEF kept, n
<1>7. \A k \in 1 .. n : s[k] \in Departure
  BY <1>5, <1>6, CombinedMembers
<1>8. s \in Seq(Departure)
  <2>1. s = [k \in 1 .. n |-> s[k]]
    BY <1>1, <1>6
  <2> QED
    BY <1>3, <1>7, <2>1
<1>9. InOrder(s)
  BY <1>1, <1>4, <1>6 DEF InOrder
<1>10. \A k \in DOMAIN s :
         /\ ~ Expired(s[k], now)
         /\ s[k] \in new \/ \E i \in DOMAIN cached : s[k] = cached[i]
  BY <1>5, <1>6, CombinedMembers
<1>11. ASSUME NoDuplicates(cached),
              \A p, o \in new : p.journeyRef = o.journeyRef => p = o
       PROVE  NoDuplicates(s)
  <2>1. \A t, u \in Combined(cached, new) : t[2].journeyRef = u[2].journeyRef => t = u
    BY <1>11, CombinedMembers
  <2> QED
    BY <1>4, <1>5, <1>6, <2>1 DEF NoDuplicates
<1> QED
  BY <1>8, <1>9, <1>10, <1>11

\* Refreshing loses nothing: if no journey is listed twice, all new departures
\* that are not expired are there afterwards, and all such cached ones that no new
\* one replaces.
LEMMA RefreshedKeeps ==
    ASSUME NEW cached \in Seq(Departure), NEW new \in SUBSET Departure, IsFiniteSet(new),
           NEW now, NEW s \in Refreshed(cached, new, now), NoDuplicates(cached),
           \A n, o \in new : n.journeyRef = o.journeyRef => n = o
    PROVE  /\ \A n \in new : ~ Expired(n, now) => \E k \in DOMAIN s : s[k] = n
           /\ \A i \in DOMAIN cached :
                (/\ ~ Expired(cached[i], now)
                 /\ \A n \in new : n.journeyRef # cached[i].journeyRef)
                  => \E k \in DOMAIN s : s[k] = cached[i]
<1> DEFINE kept == {t \in Combined(cached, new) : ~ Expired(t[2], now)}
<1>1. PICK q \in SetToSeqs(kept) : s = [k \in DOMAIN q |-> q[k][2]]
  BY DEF Refreshed
<1>2. IsFiniteSet(kept)
  BY CombinedMembers, FS_Subset
<1> HIDE DEF kept
<1> DEFINE size == Cardinality(kept)
<1>3. size \in Nat
  BY <1>2, FS_CardinalityType
<1>4. q \in [1 .. size -> kept] /\ \A i, j \in 1 .. size : i # j => q[i] # q[j]
  BY <1>1 DEF SetToSeqs
\* As many positions as members: by the pigeonhole principle, none is left out.
<1>5. ASSUME NEW t \in kept, \A k \in 1 .. size : q[k] # t
      PROVE  FALSE
  <2>1. q \in [1 .. size -> kept \ {t}]
    BY <1>4, <1>5
  <2>2. IsFiniteSet(kept \ {t}) /\ Cardinality(kept \ {t}) = size - 1
    BY <1>2, FS_RemoveElement
  <2>3. IsFiniteSet(1 .. size) /\ Cardinality(1 .. size) = size
    BY <1>3, FS_Interval
  <2> HIDE DEF size
  <2>4. PICK x \in 1 .. size, y \in 1 .. size : x # y /\ q[x] = q[y]
    BY <1>3, <2>1, <2>2, <2>3, FS_PigeonHole
  <2> QED
    BY <1>4, <2>4
<1>6. ASSUME NEW t \in Combined(cached, new), ~ Expired(t[2], now)
      PROVE  \E k \in DOMAIN s : s[k] = t[2]
  BY <1>1, <1>4, <1>5, <1>6 DEF kept
<1>7. ASSUME NEW i \in DOMAIN cached
      PROVE  /\ <<i, Replaced(cached, new, i)>> \in Combined(cached, new)
             /\ IsFirst(cached, i)
  BY <1>7 DEF Combined, IsFirst, NoDuplicates
<1>8. ASSUME NEW n \in new, ~ Expired(n, now)
      PROVE  \E k \in DOMAIN s : s[k] = n
  <2>1. CASE \E i \in DOMAIN cached : cached[i].journeyRef = n.journeyRef
    <3>1. PICK i \in DOMAIN cached : cached[i].journeyRef = n.journeyRef
      BY <2>1
    <3>2. Replaced(cached, new, i) = n
      BY <1>7, <3>1 DEF Replaced
    <3>3. <<i, n>> \in Combined(cached, new)
      BY <1>7, <3>2
    <3> QED
      BY <1>6, <1>8, <3>3
  <2>2. CASE \A i \in DOMAIN cached : cached[i].journeyRef # n.journeyRef
    <3>1. <<0, n>> \in Combined(cached, new)
      BY <2>2 DEF Combined, Added
    <3> QED
      BY <1>6, <1>8, <3>1
  <2> QED
    BY <2>1, <2>2
<1>9. ASSUME NEW i \in DOMAIN cached, ~ Expired(cached[i], now),
             \A n \in new : n.journeyRef # cached[i].journeyRef
      PROVE  \E k \in DOMAIN s : s[k] = cached[i]
  <2>1. <<i, cached[i]>> \in Combined(cached, new)
    BY <1>7, <1>9 DEF Replaced
  <2> QED
    BY <1>6, <1>9, <2>1
<1> QED
  BY <1>8, <1>9

\* The beginning of a list has its members, and no journey twice if it has none.
LEMMA Prefix ==
    ASSUME NEW s \in Seq(Departure), NEW n \in Nat, n <= Len(s)
    PROVE  /\ SubSeq(s, 1, n) \in Seq(Departure)
           /\ \A k \in DOMAIN SubSeq(s, 1, n) : k \in DOMAIN s /\ SubSeq(s, 1, n)[k] = s[k]
           /\ NoDuplicates(s) => NoDuplicates(SubSeq(s, 1, n))
<1>1. /\ SubSeq(s, 1, n) \in Seq(Departure)
      /\ \A k \in DOMAIN SubSeq(s, 1, n) : k \in DOMAIN s /\ SubSeq(s, 1, n)[k] = s[k]
  OBVIOUS
<1> QED
  BY <1>1 DEF NoDuplicates

-----------------------------------------------------------------------------
(* The order *)

\* The times that are compared are instants.
LEMMA TimeIsNat ==
    ASSUME NEW d \in Departure
    PROVE  DepartureTime(d) \in Nat
BY DeparturesAssumption DEF DepartureTime, Departure, Times

\* Of three numbers in an order of their own, the first is before the last.
LEMMA NumbersTransitive ==
    ASSUME NEW s \in Services, NEW t \in Services, NEW u \in Services,
           NumberOf[s].text # NumberOf[t].text, NumberOf[t].text # NumberOf[u].text,
           LessByServiceNumber(NumberOf[s], NumberOf[t]),
           LessByServiceNumber(NumberOf[t], NumberOf[u])
    PROVE  /\ NumberOf[s].text # NumberOf[u].text
           /\ LessByServiceNumber(NumberOf[s], NumberOf[u])
BY SMTT(60), NumbersAssumption DEF LessByServiceNumber, SameParts

\* Of two numbers, either one is before the other, and not both.
LEMMA NumbersCompared ==
    ASSUME NEW s \in Services, NEW t \in Services, NumberOf[s].text # NumberOf[t].text
    PROVE  LessByServiceNumber(NumberOf[s], NumberOf[t])
               <=> ~ LessByServiceNumber(NumberOf[t], NumberOf[s])
BY SMTT(60), NumbersAssumption DEF LessByServiceNumber, SameParts

\* ByDepartureTime.Less is what sort.Sort takes it for: a strict order, in which
\* only departures of one journey reference, number and time are equal.
THEOREM BeforeIsStrict ==
    ASSUME NEW d \in Departure, NEW e \in Departure, NEW f \in Departure
    PROVE  /\ ~ (Before(d, e) /\ Before(e, d))
           /\ Before(d, e) /\ Before(e, f) => Before(d, f)
           /\ d.journeyRef # e.journeyRef => Before(d, e) \/ Before(e, d)
<1>1. /\ DepartureTime(d) \in Nat /\ DepartureTime(e) \in Nat /\ DepartureTime(f) \in Nat
  BY TimeIsNat
<1>2. /\ d.journeyRef \in Nat /\ e.journeyRef \in Nat /\ f.journeyRef \in Nat
      /\ d.service \in Services /\ e.service \in Services /\ f.service \in Services
  BY DeparturesAssumption DEF Departure
<1>3. ~ (Before(d, e) /\ Before(e, d))
  BY <1>1, <1>2, NumbersCompared DEF Before
<1>4. ASSUME Before(d, e), Before(e, f)
      PROVE  Before(d, f)
  <2> DEFINE m == NumberOf[d.service]
             n == NumberOf[e.service]
             o == NumberOf[f.service]
  <2>1. CASE DepartureTime(d) < DepartureTime(e) \/ DepartureTime(e) < DepartureTime(f)
    BY <1>1, <1>4, <2>1 DEF Before
  <2>2. CASE DepartureTime(d) = DepartureTime(e) /\ DepartureTime(e) = DepartureTime(f)
    <3>1. /\ \/ m.text # n.text /\ LessByServiceNumber(m, n)
             \/ m.text = n.text /\ d.journeyRef < e.journeyRef
          /\ \/ n.text # o.text /\ LessByServiceNumber(n, o)
             \/ n.text = o.text /\ e.journeyRef < f.journeyRef
      BY <1>1, <1>4, <2>2 DEF Before
    <3>2. CASE m.text = n.text
      <4>1. LessByServiceNumber(n, o) <=> LessByServiceNumber(m, o)
        BY <1>2, <3>2, NumbersAssumption DEF LessByServiceNumber, SameParts
      <4> QED
        BY <1>2, <2>2, <3>1, <3>2, <4>1 DEF Before
    <3>3. CASE n.text = o.text
      <4>1. LessByServiceNumber(m, n) <=> LessByServiceNumber(m, o)
        BY <1>2, <3>3, NumbersAssumption DEF LessByServiceNumber, SameParts
      <4> QED
        BY <1>2, <2>2, <3>1, <3>3, <4>1 DEF Before
    <3>4. CASE m.text # n.text /\ n.text # o.text
      BY <1>2, <2>2, <3>1, <3>4, NumbersTransitive DEF Before
    <3> QED
      BY <3>2, <3>3, <3>4
  <2> QED
    BY <1>1, <1>4, <2>1, <2>2 DEF Before
<1>5. d.journeyRef # e.journeyRef => Before(d, e) \/ Before(e, d)
  BY <1>1, <1>2, NumbersCompared DEF Before
<1> QED
  BY <1>3, <1>4, <1>5
=============================================================================
