------------------------ MODULE CircularServicesProofs ------------------------
(***************************************************************************)
(* The safety properties of CircularServices hold for every bucket, any    *)
(* number of files, services, workers and failures, and every capacity of  *)
(* the channels.                                                           *)
(***************************************************************************)
EXTENDS CircularServices, PipelineProofs

Started == handler \in {"errs", "ok", "error"}

\* The keys of the files that were downloaded.
Wanted == UNION {Keys(zipFiles[f]) : f \in DOMAIN zipFiles}

CircularType ==
    /\ PipelineType(Wanted)
    /\ bucket \in Buckets /\ today \in Days
    /\ handler \in {"list", "get", "errs", "ok", "error", "exited"}
    /\ page \in DOMAIN bucket
    /\ zipFiles \in Seq(File)
    /\ file \in [DOMAIN zipFiles ->
                    {"open", "read", "services", "push", "err", "lastErr", "close", "done"}]
    /\ svc \in [DOMAIN zipFiles -> Nat \ {0}]
    /\ cmds \in [DOMAIN zipFiles -> Seq(Wanted)]

\* The listing is read to its end before one of the newest ZIP files is chosen.
Listed ==
    /\ handler = "list" => objects = UNION {ZipsOn(p) : p \in 1 .. page - 1}
    /\ handler = "get" => objects = Zips
    /\ Started => \E o \in Newest(Zips) : zipFiles = o.files
    /\ ~ Started => zipFiles = << >> /\ ~ sendClosed

\* The services that a file's goroutine has gone past.
PassedOver ==
    \A f \in DOMAIN zipFiles, j \in Nat :
        /\ j \in 1 .. svc[f] - 1
        /\ j \in DOMAIN zipFiles[f].services
        => LET s == zipFiles[f].services[j]
           IN  ~ Fails(s) /\ ~ Circular(s)

\* errs is closed, and Handler returns, after the last worker has ended.
ChannelsOK ==
    /\ errsClosed \/ exitImmediately => done
    /\ handler = "ok" => done /\ errsClosed /\ ~ gErr

\* As long as no error was received, or nothing has failed, the goroutines end
\* one after the other.  A date that does not parse is an error, but no failure.
InOrder ==
    ~ gErr \/ faults = 0 =>
        /\ \A w \in Workers : Orderly(w)
        /\ done => \A w \in Workers : worker[w] = "done"
        /\ sendClosed => \A f \in DOMAIN zipFiles : file[f] = "done"

Sending(f, k) == file[f] = "push" /\ k \in Range(cmds[f])

\* The goroutine of f has found what its file has to say.
Settled(f) == file[f] \in {"push", "close", "done"}

\* As long as no error was received, every key of a file that was read is
\* accounted for or has led to an error.
NothingLost ==
    ~ gErr =>
        /\ \A f \in DOMAIN zipFiles : Settled(f) => ~ Unreadable(zipFiles[f])
        /\ \/ \A f \in DOMAIN zipFiles :
                 Settled(f) => \A k \in Keys(zipFiles[f]) : Sending(f, k) \/ Accounted(k)
           \/ \E w \in Workers : Trouble(w)

NoFailure ==
    faults = 0 =>
        /\ panicked => Zips = {}
        /\ \A w \in Workers : Unharmed(w)
        /\ \A f \in DOMAIN zipFiles : file[f] # "lastErr"

InReply == \A w \in Workers : Answered(w) /\ Flushed(w)

CircularInv ==
    /\ CircularType /\ Listed /\ PassedOver /\ ChannelsOK
    /\ InOrder /\ NothingLost /\ NoFailure /\ InReply

-----------------------------------------------------------------------------
(* Keys and commands *)

LEMMA ToLineAndOperator ==
    ASSUME NEW n \in Nat \ {0}, NEW m \in Nat, NEW x \in 0 .. (m * n) - 1
    PROVE  x % n \in 0 .. n - 1 /\ x \div n \in 0 .. m - 1
OBVIOUS

LEMMA FromLineAndOperator ==
    ASSUME NEW n \in Nat \ {0}, NEW m \in Nat, NEW a \in 0 .. m - 1, NEW b \in 0 .. n - 1
    PROVE  /\ ((n * a) + b) \div n = a /\ ((n * a) + b) % n = b
           /\ (n * a) + b \in 0 .. (m * n) - 1
OBVIOUS

\* The commands of a service are those of its lines with the operators.
LEMMA RangeOfCommands ==
    ASSUME NEW s \in Service, NEW ops \in Seq(Nat)
    PROVE  /\ Commands(s, ops) \in Seq(Nat)
           /\ Range(Commands(s, ops)) = {o + l : o \in Range(ops), l \in Range(s.lines)}
<1>1. PICK n \in Nat : n = Len(ops)
  OBVIOUS
<1>2. PICK m \in Nat : m = Len(s.lines)
  BY DEF Service
<1>3. PICK lines \in [1 .. m -> Nat] : lines = s.lines
  BY <1>2 DEF Service
<1>4. m * n \in Nat /\ ops \in [1 .. n -> Nat]
  BY <1>1
<1> DEFINE q == [i \in 1 .. m * n |-> ops[((i - 1) % n) + 1] + lines[((i - 1) \div n) + 1]]
<1>5. Commands(s, ops) = q
  BY <1>1, <1>2, <1>3 DEF Commands
<1>6. ASSUME NEW i \in 1 .. m * n
      PROVE  ((i - 1) % n) + 1 \in 1 .. n /\ ((i - 1) \div n) + 1 \in 1 .. m
  <2>1. n \in Nat \ {0}
    BY <1>6
  <2>2. PICK x \in 0 .. (m * n) - 1 : x = i - 1
    BY <1>4
  <2>3. x % n \in 0 .. n - 1 /\ x \div n \in 0 .. m - 1
    BY <2>1, ToLineAndOperator
  <2> QED
    BY <2>2, <2>3
<1>7. q \in Seq(Nat) /\ Len(q) = m * n
  <2>1. \A i \in 1 .. m * n : q[i] \in Nat
    BY <1>4, <1>6
  <2> QED
    BY <1>4, <2>1
<1>8. Range(q) = {q[i] : i \in 1 .. m * n}
  BY <1>7, RangeEquality
<1>9. Range(ops) = {ops[i] : i \in 1 .. n} /\ Range(lines) = {lines[i] : i \in 1 .. m}
  <2>1. ops \in Seq(Nat) /\ lines \in Seq(Nat) /\ Len(lines) = m
    BY <1>2, <1>3, <1>4
  <2> QED
    BY <1>1, <2>1, RangeEquality
<1>10. ASSUME NEW i \in 1 .. m * n
       PROVE  \E o \in Range(ops), l \in Range(lines) : q[i] = o + l
  BY <1>6, <1>9
<1>11. ASSUME NEW a \in 1 .. n, NEW b \in 1 .. m
       PROVE  \E i \in 1 .. m * n : q[i] = ops[a] + lines[b]
  <2>1. PICK x \in 0 .. n - 1 : x = a - 1
    OBVIOUS
  <2>2. PICK y \in 0 .. m - 1 : y = b - 1
    OBVIOUS
  <2>3. n \in Nat \ {0}
    OBVIOUS
  <2>4. /\ ((n * y) + x) \div n = y /\ ((n * y) + x) % n = x
        /\ (n * y) + x \in 0 .. (m * n) - 1
    BY <2>3, FromLineAndOperator
  <2>5. PICK i \in 1 .. m * n : i - 1 = (n * y) + x
    <3>1. PICK z \in 0 .. (m * n) - 1 : z = (n * y) + x
      BY <2>4
    <3>2. z + 1 \in 1 .. m * n /\ (z + 1) - 1 = z
      BY <1>4
    <3> QED
      BY <3>1, <3>2
  <2>6. ((i - 1) % n) + 1 = a /\ ((i - 1) \div n) + 1 = b
    BY <2>1, <2>2, <2>4, <2>5
  <2>7. q[i] = ops[((i - 1) % n) + 1] + lines[((i - 1) \div n) + 1]
    OBVIOUS
  <2> QED
    BY <2>6, <2>7
<1>12. Range(q) = {o + l : o \in Range(ops), l \in Range(lines)}
  <2> HIDE DEF q
  <2> SUFFICES ASSUME NEW k
               PROVE  k \in Range(q) <=> k \in {o + l : o \in Range(ops), l \in Range(lines)}
    OBVIOUS
  <2>1. ASSUME k \in Range(q) PROVE k \in {o + l : o \in Range(ops), l \in Range(lines)}
    BY <1>8, <1>10, <2>1
  <2>2. ASSUME NEW o \in Range(ops), NEW l \in Range(lines) PROVE o + l \in Range(q)
    BY <1>8, <1>9, <1>11
  <2> QED
    BY <2>1, <2>2
<1> HIDE DEF q
<1>13. Commands(s, ops) \in Seq(Nat)
  BY <1>5, <1>7
<1>14. Range(Commands(s, ops)) = {o + l : o \in Range(ops), l \in Range(s.lines)}
  BY <1>3, <1>5, <1>12
<1> QED
  BY <1>13, <1>14

\* The service that the keys of x are of.
First(x, k) ==
    /\ k \in DOMAIN x.services /\ Circular(x.services[k])
    /\ \A j \in 1 .. k - 1 : /\ ~ Fails(x.services[j])
                             /\ ~ Circular(x.services[j])

LEMMA KeysOfFirst ==
    ASSUME NEW x \in File, NEW k, First(x, k)
    PROVE  /\ Commands(x.services[k], x.operators) \in Seq(Keys(x))
           /\ Keys(x) = Range(Commands(x.services[k], x.operators))
           /\ ~ Unreadable(x)
<1>1. x.services \in Seq(Service) /\ x.operators \in Seq(Nat)
  BY DEF File
<1>2. k \in Nat /\ k \in 1 .. Len(x.services) /\ x.services[k] \in Service
  BY <1>1 DEF First
<1> DEFINE found == {i \in DOMAIN x.services : Circular(x.services[i])}
<1>3. \A i \in found : i \in Nat /\ k <= i
  BY <1>1, <1>2 DEF First
<1>4. {i \in found : \A j \in found : i <= j} = {k}
  BY <1>2, <1>3 DEF First
<1>5. UNION {Range(x.services[i].lines) : i \in {k}} = Range(x.services[k].lines)
  OBVIOUS
<1>6. Keys(x) = {o + l : o \in Range(x.operators), l \in Range(x.services[k].lines)}
  BY <1>4, <1>5 DEF Keys
<1>7. Keys(x) = Range(Commands(x.services[k], x.operators))
  BY <1>1, <1>2, <1>6, RangeOfCommands
<1>8. Commands(x.services[k], x.operators) \in Seq(Keys(x))
  <2>1. Commands(x.services[k], x.operators) \in Seq(Nat)
    BY <1>1, <1>2, RangeOfCommands
  <2>2. PICK q \in Seq(Nat) : q = Commands(x.services[k], x.operators)
    BY <2>1
  <2>3. q \in Seq(Range(q))
    BY <2>2, RangeOfSeq, SeqOfRange
  <2> QED
    BY <1>7, <2>2, <2>3
<1>9. ~ Unreadable(x)
  <2>1. SUFFICES ASSUME NEW i \in DOMAIN x.services, Fails(x.services[i]),
                        \A j \in 1 .. i - 1 : ~ Circular(x.services[j])
                 PROVE  FALSE
    BY DEF Unreadable
  <2>2. i \in Nat /\ i \in 1 .. Len(x.services)
    BY <1>1
  <2>3. i # k
    BY <2>1 DEF First, Current, Circular, Fails
  <2>4. i < k \/ k < i
    BY <1>2, <2>2, <2>3
  <2> QED
    BY <1>2, <2>1, <2>2, <2>4 DEF First
<1> QED
  BY <1>7, <1>8, <1>9

LEMMA NoKeys ==
    ASSUME NEW x \in File,
           \A j \in DOMAIN x.services : /\ ~ Fails(x.services[j])
                                        /\ ~ Circular(x.services[j])
    PROVE  Keys(x) = {} /\ ~ Unreadable(x)
BY DEF Keys, Unreadable

-----------------------------------------------------------------------------
(* What the steps leave alone *)

\* What a file says depends on the day only.
LEMMA SameDay ==
    ASSUME UNCHANGED <<today, zipFiles>>
    PROVE  /\ \A f : Keys(zipFiles[f])' = Keys(zipFiles[f])
           /\ \A f : Unreadable(zipFiles[f])' <=> Unreadable(zipFiles[f])
           /\ \A f : Fails(f)' <=> Fails(f)
           /\ \A f : Circular(f)' <=> Circular(f)
           /\ Wanted' = Wanted
<1>1. ASSUME NEW s
      PROVE  (Fails(s)' <=> Fails(s)) /\ (Circular(s)' <=> Circular(s))
  BY DEF Fails, Circular, Unparsed, Current
<1>2. ASSUME NEW f
      PROVE  /\ Keys(zipFiles[f])' = Keys(zipFiles[f])
             /\ Unreadable(zipFiles[f])' <=> Unreadable(zipFiles[f])
  BY <1>1 DEF Keys, Unreadable
<1>3. Wanted' = Wanted
  BY <1>2 DEF Wanted
<1> QED
  BY <1>1, <1>2, <1>3

\* The files and what their goroutines have seen stay.
LEMMA FilesAlone ==
    ASSUME UNCHANGED <<bucket, today, page, objects, zipFiles, file, svc, cmds>>
    PROVE  /\ Wanted' = Wanted /\ Zips' = Zips
           /\ PassedOver => PassedOver'
           /\ \A f : Keys(zipFiles[f])' = Keys(zipFiles[f])
           /\ \A f : Unreadable(zipFiles[f])' <=> Unreadable(zipFiles[f])
           /\ \A f : Settled(f)' <=> Settled(f)
           /\ \A f, k : Sending(f, k)' <=> Sending(f, k)
<1>1. Zips' = Zips
  BY DEF Zips, ZipsOn
<1>2. PassedOver => PassedOver'
  BY SameDay DEF PassedOver
<1>3. \A f : (Settled(f)' <=> Settled(f)) /\ \A k : Sending(f, k)' <=> Sending(f, k)
  BY DEF Settled, Sending
<1> QED
  BY <1>1, <1>2, <1>3, SameDay

LEMMA ListingAlone ==
    ASSUME Listed, UNCHANGED <<bucket, page, objects, zipFiles, sendClosed>>,
           handler' = handler \/ (Started /\ Started')
    PROVE  Listed'
<1>1. Zips' = Zips /\ \A p : ZipsOn(p)' = ZipsOn(p)
  BY DEF Zips, ZipsOn
<1>2. Newest(Zips)' = Newest(Zips)
  BY <1>1 DEF Newest
<1>3. handler' = "list" => handler = "list"
  BY DEF Started
<1>4. handler' = "get" => handler = "get"
  BY DEF Started
<1>5. Started' <=> Started
  BY DEF Started
<1> QED
  BY <1>1, <1>2, <1>3, <1>4, <1>5 DEF Listed

LEMMA WorkersAlone ==
    ASSUME UNCHANGED <<workers, exitImmediately>>
    PROVE  /\ InReply => InReply'
           /\ \A w \in Workers : (Trouble(w)' <=> Trouble(w)) /\ (Unharmed(w)' <=> Unharmed(w))
           /\ \A w \in Workers : Pending(w)' = Pending(w)
BY DEF workers, InReply, Answered, Flushed, Matched, Pending, Expected, Trouble, Unharmed

LEMMA AccountedAlone ==
    ASSUME UNCHANGED <<workers, send, applied>>, NEW k, Accounted(k)
    PROVE  Accounted(k)'
BY DEF workers, Accounted, Pending

LEMMA OrderlyAlone ==
    ASSUME UNCHANGED <<workers, send, sendClosed>>, NEW w \in Workers, Orderly(w)
    PROVE  Orderly(w)'
BY DEF workers, Orderly, Pending

-----------------------------------------------------------------------------
WorkersStep == \E w \in Workers : Running /\ PipelineStep(w) /\ UNCHANGED loader

FilesStep == \E f \in DOMAIN zipFiles : Running /\ FileStep(f)

LEMMA NextSteps ==
    ASSUME CircularType, Next
    PROVE  Handler \/ Files \/ Pipeline \/ Waiter \/ FilesStep \/ WorkersStep \/ UNCHANGED vars
<1>1. DOMAIN file = DOMAIN zipFiles
  BY DEF CircularType
<1> QED
  BY <1>1 DEF Next, FileGoes, FilesStep, WorkersStep, Sender, Flusher, Receiver, Worker,
     PipelineStep, Terminated

LEMMA CircularStarts == Init => CircularInv
<1> SUFFICES ASSUME Init PROVE CircularInv
  OBVIOUS
<1>1. /\ InitPipeline /\ handler = "list" /\ page = 1 /\ objects = {} /\ zipFiles = << >>
      /\ file = << >> /\ svc = << >> /\ cmds = << >> /\ bucket \in Buckets /\ today \in Days
  BY DEF Init
<1>2. /\ PipelineType(Wanted)
      /\ \A w \in Workers : Answered(w) /\ Flushed(w) /\ Orderly(w) /\ Unharmed(w)
  BY <1>1, PipelineStarts
<1>3. DOMAIN << >> = {}
  OBVIOUS
<1>4. CircularType
  <2>1. page \in DOMAIN bucket
    <3>1. bucket \in Seq(Seq(Object)) /\ bucket # << >>
      BY <1>1, CircularAssumption
    <3>2. Len(bucket) \in Nat /\ Len(bucket) # 0
      BY <3>1, EmptySeq
    <3> QED
      BY <1>1, <3>1, <3>2
  <2>2. \A S : << >> \in [DOMAIN << >> -> S]
    BY <1>3
  <2>3. zipFiles \in Seq(File)
    BY <1>1
  <2> QED
    BY <1>1, <1>2, <2>1, <2>2, <2>3 DEF CircularType
<1>5. Listed
  BY <1>1 DEF Listed, InitPipeline, Started
<1>6. PassedOver /\ NothingLost
  BY <1>1, <1>3 DEF PassedOver, NothingLost
<1>7. ChannelsOK /\ InOrder /\ NoFailure /\ InReply
  BY <1>1, <1>2, <1>3 DEF InitPipeline, ChannelsOK, InOrder, NoFailure, InReply
<1> QED
  BY <1>4, <1>5, <1>6, <1>7 DEF CircularInv

\* While nothing has failed the workers run only as long as errs is open.
LEMMA WorkersGoing ==
    ASSUME CircularInv, ~ gErr \/ faults = 0, NEW w \in Workers, PipelineStep(w)
    PROVE  Going /\ ~ done
<1>1. CASE done
  <2>1. Orderly(w) /\ worker[w] = "done"
    BY <1>1 DEF CircularInv, InOrder
  <2>2. PipelineType(Wanted)
    BY DEF CircularInv, CircularType
  <2> QED
    BY <2>1, <2>2, NothingAfterTheEnd
<1>2. CASE ~ done
  BY <1>2 DEF Going, CircularInv, ChannelsOK
<1> QED
  BY <1>1, <1>2

LEMMA WorkersKeepInv ==
    ASSUME CircularInv, WorkersStep
    PROVE  CircularInv'
<1>1. PICK w \in Workers : Running /\ PipelineStep(w) /\ UNCHANGED loader
  BY DEF WorkersStep
<1>2. UNCHANGED <<bucket, today, handler, page, objects, zipFiles, file, svc, cmds>>
  BY <1>1 DEF loader, env, listing, goroutines
<1>3. PipelineType(Wanted)
  BY DEF CircularInv, CircularType
<1>4. /\ UNCHANGED <<sendClosed, errsClosed, exitImmediately, done>>
      /\ gErr => gErr'
      /\ faults' \in {faults, faults + 1} /\ faults \in Nat
  BY <1>1, <1>3, PipelineFrame DEF PipelineType
<1>5. CircularType'
  <2>1. PICK C : C = Wanted
    OBVIOUS
  <2>2. PipelineType(C)'
    BY <1>1, <1>3, <2>1, PipelineTypeStep
  <2>3. Wanted' = C
    BY <1>2, <2>1, SameDay
  <2>4. PipelineType(Wanted)'
    BY <2>2, <2>3 DEF PipelineType
  <2> QED
    BY <1>2, <2>1, <2>3, <2>4 DEF CircularInv, CircularType
<1>6. Listed' /\ PassedOver'
  BY <1>2, <1>4, ListingAlone, FilesAlone DEF CircularInv
<1>7. InReply'
  BY <1>1, <1>3, RepliesStep DEF CircularInv, InReply
<1>8. ASSUME ~ gErr' \/ faults' = 0
      PROVE  /\ Going /\ ~ done
             /\ \A v \in Workers : Orderly(v)
             /\ ~ gErr' \/ Unharmed(w)
  <2>1. ~ gErr \/ faults = 0
    BY <1>4, <1>8
  <2>2. ~ gErr' \/ faults = 0
    BY <1>4, <1>8
  <2> QED
    BY <1>1, <2>1, <2>2, WorkersGoing DEF CircularInv, InOrder, NoFailure
<1>9. InOrder'
  <2>1. SUFFICES ASSUME ~ gErr' \/ faults' = 0
                 PROVE  /\ \A v \in Workers : Orderly(v)'
                        /\ ~ done
                        /\ sendClosed => \A f \in DOMAIN zipFiles : file[f] = "done"
    BY <1>2, <1>4 DEF InOrder
  <2>2. ~ gErr \/ faults = 0
    BY <1>4, <2>1
  <2>3. \A v \in Workers : Orderly(v)'
    BY <1>1, <1>3, <1>8, <2>1, OrderlyStep
  <2> QED
    BY <1>8, <2>1, <2>2, <2>3 DEF CircularInv, InOrder
<1>10. NothingLost'
  <2>1. SUFFICES ASSUME ~ gErr'
                 PROVE  /\ \A f \in DOMAIN zipFiles : Settled(f) => ~ Unreadable(zipFiles[f])
                        /\ \/ \A f \in DOMAIN zipFiles : Settled(f) =>
                                \A k \in Keys(zipFiles[f]) : Sending(f, k) \/ Accounted(k)'
                           \/ \E v \in Workers : Trouble(v)'
    BY <1>2, FilesAlone DEF NothingLost
  <2>2. /\ ~ gErr
        /\ \A f \in DOMAIN zipFiles : Settled(f) => ~ Unreadable(zipFiles[f])
        /\ \/ \A f \in DOMAIN zipFiles :
                 Settled(f) => \A k \in Keys(zipFiles[f]) : Sending(f, k) \/ Accounted(k)
           \/ \E v \in Workers : Trouble(v)
    BY <1>4, <2>1 DEF CircularInv, NothingLost
  <2>3. Going /\ \A v \in Workers : Orderly(v)
    BY <1>8, <2>1
  <2>4. CASE \E v \in Workers : Trouble(v)
    <3>1. PICK v \in Workers : Trouble(v)
      BY <2>4
    <3>2. Trouble(v)'
      BY <1>1, <1>3, <2>1, <2>3, <3>1, TroubleStays
    <3> QED
      BY <2>2, <3>2
  <2>5. CASE ~ Trouble(w)' /\ \A f \in DOMAIN zipFiles :
                 Settled(f) => \A k \in Keys(zipFiles[f]) : Sending(f, k) \/ Accounted(k)
    <3>1. Answered(w)
      BY DEF CircularInv, InReply
    <3>2. ASSUME NEW k, Accounted(k) PROVE Accounted(k)'
      BY <1>1, <1>3, <2>1, <2>3, <2>5, <3>1, <3>2, AccountedStep
    <3> QED
      BY <2>2, <2>5, <3>2
  <2> QED
    BY <2>2, <2>4, <2>5
<1>11. NoFailure'
  <2>1. SUFFICES ASSUME faults' = 0
                 PROVE  /\ panicked' => Zips = {}
                        /\ \A v \in Workers : Unharmed(v)'
                        /\ \A f \in DOMAIN zipFiles : file[f] # "lastErr"
    BY <1>2, FilesAlone DEF NoFailure
  <2>2. faults = 0 /\ faults' = faults
    BY <1>4, <2>1
  <2>3. /\ \A v \in Workers : Unharmed(v) /\ Orderly(v)
        /\ \A f \in DOMAIN zipFiles : file[f] # "lastErr"
        /\ panicked => Zips = {}
    BY <2>2 DEF CircularInv, NoFailure, InOrder
  <2>4. Going
    BY <1>8, <2>1
  <2>5. UNCHANGED panicked /\ \A v \in Workers : Unharmed(v)'
    BY <1>1, <1>3, <2>2, <2>3, <2>4, UnharmedStep
  <2> QED
    BY <2>3, <2>5
<1>12. ChannelsOK'
  <2>1. handler # "ok"
    <3>1. handler = "ok" => ~ gErr /\ ~ Going
      BY DEF CircularInv, ChannelsOK, Going
    <3> QED
      BY <1>1, <3>1, WorkersGoing
  <2> QED
    BY <1>2, <1>4, <2>1 DEF CircularInv, ChannelsOK
<1> QED
  BY <1>5, <1>6, <1>7, <1>9, <1>10, <1>11, <1>12 DEF CircularInv

-----------------------------------------------------------------------------
(* TransXChange.Download and Handler *)

\* The steps of Handler that leave the files and the workers alone.
LEMMA DownloadKeepsInv ==
    ASSUME CircularInv, Listed', handler' \in {"list", "get", "exited"}, page' \in DOMAIN bucket,
           ~ Started, faults' \in {faults, faults + 1}, panicked' \in BOOLEAN,
           faults' = 0 /\ panicked' => Zips = {},
           UNCHANGED <<channels, workers, applied, bucket, today, zipFiles, file, svc, cmds>>
    PROVE  CircularInv'
<1>1. Zips' = Zips
  BY DEF Zips, ZipsOn
<1>2. UNCHANGED <<send, sendClosed, errsClosed, gErr, exitImmediately, done>> /\ faults \in Nat
  BY DEF channels, CircularInv, CircularType, PipelineType
<1>3. CircularType'
  <2>1. Wanted' = Wanted
    BY SameDay
  <2>2. PipelineType(Wanted)'
    BY <1>2, <2>1 DEF CircularInv, CircularType, PipelineType, workers
  <2> QED
    BY <2>1, <2>2 DEF CircularInv, CircularType
<1>4. PassedOver'
  BY SameDay DEF CircularInv, PassedOver
<1>5. ChannelsOK' /\ InReply'
  BY <1>2, WorkersAlone DEF CircularInv, ChannelsOK
<1>6. InOrder'
  <2>1. \A w \in Workers : Orderly(w) => Orderly(w)'
    BY <1>2, OrderlyAlone
  <2> QED
    BY <1>2, <2>1 DEF CircularInv, InOrder, workers
<1>7. NothingLost' /\ NoFailure'
  <2>1. DOMAIN zipFiles = {}
    BY DEF CircularInv, Listed
  <2> QED
    BY <1>1, <1>2, <2>1, WorkersAlone DEF CircularInv, NothingLost, NoFailure
<1> QED
  BY <1>3, <1>4, <1>5, <1>6, <1>7 DEF CircularInv

LEMMA ListPageKeepsInv ==
    ASSUME CircularInv, ListPage
    PROVE  CircularInv'
<1>1. /\ UNCHANGED <<channels, panicked, workers, applied, faults, bucket, today, zipFiles, file, svc, cmds>>
      /\ handler = "list" /\ objects' = objects \cup ZipsOn(page)
      /\ IF page = Len(bucket) THEN handler' = "get" /\ UNCHANGED page
                               ELSE page' = page + 1 /\ UNCHANGED handler
  BY DEF ListPage, env, pipeline, goroutines
<1>2. /\ page \in 1 .. Len(bucket) /\ Len(bucket) \in Nat /\ DOMAIN bucket = 1 .. Len(bucket)
      /\ panicked \in BOOLEAN
  <2>1. bucket \in Seq(Seq(Object)) /\ page \in DOMAIN bucket
    BY CircularAssumption DEF CircularInv, CircularType
  <2> QED
    BY <2>1 DEF CircularInv, CircularType, PipelineType
<1>3. \A p : ZipsOn(p)' = ZipsOn(p)
  BY <1>1 DEF ZipsOn
<1>4. objects' = UNION {ZipsOn(p) : p \in 1 .. page}
  <2>1. objects = UNION {ZipsOn(p) : p \in 1 .. page - 1}
    BY <1>1 DEF CircularInv, Listed
  <2>2. 1 .. page = (1 .. page - 1) \cup {page}
    BY <1>2
  <2> QED
    BY <1>1, <2>1, <2>2
<1>5. Listed'
  <2>1. sendClosed' = sendClosed /\ ~ Started /\ ~ Started'
    BY <1>1 DEF channels, Started
  <2>2. zipFiles' = << >> /\ ~ sendClosed'
    BY <1>1, <2>1 DEF CircularInv, Listed
  <2>3. handler' = "list" => (objects = UNION {ZipsOn(p) : p \in 1 .. page - 1})'
    <3>1. SUFFICES ASSUME handler' = "list"
                   PROVE  objects' = UNION {ZipsOn(p)' : p \in 1 .. page' - 1}
      OBVIOUS
    <3>4. page' = page + 1
      BY <1>1, <3>1
    <3>5. PICK n \in Nat : n = page
      BY <1>2
    <3>2. page' - 1 = page
      BY <3>4, <3>5
    <3>3. 1 .. page' - 1 = 1 .. page
      BY <3>2
    <3> QED
      BY <1>3, <1>4, <3>3
  <2>4. handler' = "get" => objects' = Zips'
    <3>1. handler' = "get" => page = Len(bucket)
      BY <1>1
    <3> QED
      BY <1>1, <1>2, <1>3, <1>4, <3>1 DEF Zips
  <2>6. (handler = "get" => objects = Zips)'
    BY <2>4
  <2>7. (Started => \E o \in Newest(Zips) : zipFiles = o.files)'
    BY <2>1
  <2>8. (~ Started => zipFiles = << >> /\ ~ sendClosed)'
    BY <2>2
  <2>9. (handler = "list" => objects = UNION {ZipsOn(p) : p \in 1 .. page - 1})'
    BY <2>3
  <2> QED
    BY <2>6, <2>7, <2>8, <2>9 DEF Listed
<1>6. page' \in DOMAIN bucket
  <2>1. PICK n \in Nat : n = page
    BY <1>2
  <2>2. PICK m \in Nat : m = Len(bucket)
    BY <1>2
  <2>3. page' = n \/ (page' = n + 1 /\ n # m)
    BY <1>1, <2>1, <2>2
  <2>4. n \in 1 .. m
    BY <1>2, <2>1, <2>2
  <2>5. page' \in 1 .. m
    BY <2>3, <2>4
  <2> QED
    BY <1>2, <2>2, <2>5
<1> QED
  BY <1>1, <1>2, <1>5, <1>6, DownloadKeepsInv DEF Started, CircularInv, NoFailure

\* Every file's goroutine starts before its first service.
LEMMA GetNewestKeepsInv ==
    ASSUME CircularInv, GetNewest
    PROVE  CircularInv'
<1>1. /\ UNCHANGED <<channels, workers, applied, faults, bucket, today, page, objects>>
      /\ handler = "get"
  <2>1. UNCHANGED gErr
    BY DEF GetNewest, Panic, Quietly
  <2> QED
    BY <2>1 DEF GetNewest, env, pipeline, others, channels
<1>2. Zips' = Zips /\ objects = Zips /\ zipFiles = << >> /\ ~ sendClosed
  BY <1>1 DEF CircularInv, Listed, Zips, ZipsOn, Started
<1>3. CASE objects = {} /\ Panic /\ UNCHANGED <<handler, zipFiles, goroutines>>
  <2>1. UNCHANGED <<file, svc, cmds, sendClosed>> /\ panicked' \in BOOLEAN /\ ~ Started
    BY <1>1, <1>3 DEF goroutines, channels, Panic, Started
  <2>2. Listed'
    BY <1>1, <1>3, <2>1, ListingAlone DEF CircularInv
  <2>3. page' \in DOMAIN bucket
    BY <1>1 DEF CircularInv, CircularType
  <2> QED
    BY <1>1, <1>2, <1>3, <2>1, <2>2, <2>3, DownloadKeepsInv
<1>4. CASE \E o \in Newest(objects) :
            /\ zipFiles' = o.files
            /\ file' = [f \in DOMAIN o.files |-> "open"]
            /\ svc' = [f \in DOMAIN o.files |-> 1]
            /\ cmds' = [f \in DOMAIN o.files |-> << >>]
            /\ handler' = "errs"
            /\ Quietly
  <2>1. PICK o \in Newest(Zips) :
            /\ zipFiles' = o.files
            /\ file' = [f \in DOMAIN o.files |-> "open"]
            /\ svc' = [f \in DOMAIN o.files |-> 1]
            /\ cmds' = [f \in DOMAIN o.files |-> << >>]
            /\ handler' = "errs"
            /\ UNCHANGED panicked
    BY <1>2, <1>4 DEF Quietly
  <2>2. o.files \in Seq(File)
    <3>1. PICK p \in DOMAIN bucket : o \in Range(bucket[p])
      BY DEF Newest, Zips, ZipsOn
    <3>2. bucket \in Seq(Seq(Object))
      BY CircularAssumption DEF CircularInv, CircularType
    <3>3. bucket[p] \in Seq(Object)
      BY <3>2
    <3>4. o \in Object
      BY <3>1, <3>3, RangeOfSeq
    <3> QED
      BY <3>4 DEF Object
  <2>3. UNCHANGED <<send, sendClosed, errsClosed, gErr, exitImmediately, done>>
    BY <1>1 DEF channels
  <2>4. CircularType'
    <3>1. Wanted = {}
      BY <1>2 DEF Wanted
    <3>2. \A S : << >> \in Seq(S)
      OBVIOUS
    <3>3. Seq(Wanted) \subseteq Seq(Wanted')
      BY <3>1, SeqMonotonic
    <3>4. PipelineType(Wanted)'
      <4>1. PipelineType(Wanted)
        BY DEF CircularInv, CircularType
      <4>2. /\ send' \in Seq(Wanted') /\ applied' \in SUBSET Wanted'
            /\ recv' \in [Workers -> Seq(Wanted')] /\ unflushed' \in [Workers -> Seq(Wanted')]
            /\ inflight' \in [Workers -> Seq(Wanted')]
        BY <1>1, <2>3, <3>1, <3>3, <4>1 DEF PipelineType, workers
      <4> QED
        BY <1>1, <2>1, <2>3, <3>1, <4>1, <4>2 DEF PipelineType, workers
    <3> QED
      BY <1>1, <2>1, <2>2, <3>2, <3>4 DEF CircularInv, CircularType
  <2>5. Listed'
    <3>1. Newest(Zips)' = Newest(Zips)
      BY <1>2 DEF Newest
    <3>2. Started'
      BY <2>1 DEF Started
    <3> QED
      BY <2>1, <3>1, <3>2 DEF Listed
  <2>6. PassedOver'
    BY <2>1 DEF PassedOver
  <2>7. ChannelsOK' /\ InReply'
    BY <1>1, <2>1, <2>3, WorkersAlone DEF CircularInv, ChannelsOK
  <2>8. InOrder'
    <3>1. \A w \in Workers : Orderly(w) => Orderly(w)'
      BY <1>1, <2>3, OrderlyAlone
    <3> QED
      BY <1>1, <1>2, <2>3, <3>1 DEF CircularInv, InOrder, workers
  <2>9. NothingLost' /\ NoFailure'
    <3>1. \A f \in DOMAIN zipFiles' : file'[f] = "open" /\ ~ Settled(f)'
      BY <2>1 DEF Settled
    <3>2. NothingLost'
      BY <3>1 DEF NothingLost
    <3>3. \A w \in Workers : Unharmed(w)' <=> Unharmed(w)
      BY <1>1, <2>3, WorkersAlone
    <3>4. UNCHANGED <<faults, panicked>> /\ Zips' = Zips
      BY <1>1, <1>2, <2>1
    <3>5. NoFailure'
      BY <3>1, <3>3, <3>4 DEF CircularInv, NoFailure
    <3> QED
      BY <3>2, <3>5
  <2> QED
    BY <2>4, <2>5, <2>6, <2>7, <2>8, <2>9 DEF CircularInv
<1> QED
  BY <1>3, <1>4 DEF GetNewest

LEMMA HandlerKeepsInv ==
    ASSUME CircularInv, Handler
    PROVE  CircularInv'
<1>1. CASE DownloadFails
  <2>1. /\ UNCHANGED <<channels, panicked, workers, applied, bucket, today, page, objects, zipFiles,
                       file, svc, cmds>>
        /\ ~ Started /\ handler' = "exited" /\ faults' = faults + 1 /\ ~ Started'
    BY <1>1 DEF DownloadFails, Fault, env, pipeline, goroutines, listing, Started
  <2>2. Listed'
    BY <2>1 DEF CircularInv, Listed, channels
  <2>3. panicked \in BOOLEAN /\ page \in DOMAIN bucket /\ faults \in Nat
    BY DEF CircularInv, CircularType, PipelineType
  <2> QED
    BY <2>1, <2>2, <2>3, DownloadKeepsInv
<1>2. CASE Return
  <2>1. /\ UNCHANGED <<send, sendClosed, errsClosed, gErr, done, panicked, workers, applied, faults,
                       bucket, today, page, objects, zipFiles, file, svc, cmds>>
        /\ handler = "errs" /\ errsClosed /\ exitImmediately' = TRUE
        /\ handler' = IF gErr THEN "error" ELSE "ok"
    BY <1>2 DEF Return, pipeline, env, listing, goroutines
  <2>2. CircularType'
    <3>1. Wanted' = Wanted
      BY <2>1, SameDay
    <3>2. PipelineType(Wanted)'
      BY <2>1, <3>1 DEF CircularInv, CircularType, PipelineType, workers
    <3> QED
      BY <2>1, <3>1, <3>2 DEF CircularInv, CircularType
  <2>3. Listed' /\ PassedOver'
    BY <2>1, ListingAlone, FilesAlone DEF CircularInv, Started
  <2>4. ChannelsOK'
    BY <2>1 DEF CircularInv, ChannelsOK
  <2>5. InOrder'
    <3>1. \A w \in Workers : Orderly(w) => Orderly(w)'
      BY <2>1, OrderlyAlone
    <3> QED
      BY <2>1, <3>1 DEF CircularInv, InOrder, workers
  <2>6. NothingLost'
    <3>1. \A k : Accounted(k) => Accounted(k)'
      BY <2>1, AccountedAlone
    <3>2. \A w \in Workers : Trouble(w) => Trouble(w)'
      BY <2>1 DEF Trouble, workers
    <3> QED
      BY <2>1, <3>1, <3>2, FilesAlone DEF CircularInv, NothingLost
  <2>7. NoFailure'
    <3>1. \A w \in Workers : Unharmed(w) => Unharmed(w)'
      BY <2>1 DEF Unharmed, workers
    <3> QED
      BY <2>1, <3>1, FilesAlone DEF CircularInv, NoFailure
  <2>8. InReply'
    <3>1. ASSUME NEW w \in Workers PROVE Answered(w)' /\ Flushed(w)'
      <4>1. Answered(w) /\ Flushed(w)
        BY DEF CircularInv, InReply
      <4>2. /\ sender' = sender /\ recv' = recv /\ conn' = conn /\ unflushed' = unflushed
            /\ (Matched(w)' <=> Matched(w))
        BY <2>1 DEF workers, Matched, Pending, Expected
      <4>3. conn[w] = "up" /\ sender[w] \notin {"err", "done"} => Matched(w)
        BY <4>1 DEF Answered
      <4> QED
        BY <2>1, <4>1, <4>2, <4>3 DEF Answered, Flushed
    <3> QED
      BY <3>1 DEF InReply
  <2> QED
    BY <2>2, <2>3, <2>4, <2>5, <2>6, <2>7, <2>8 DEF CircularInv
<1> QED
  BY <1>1, <1>2, ListPageKeepsInv, GetNewestKeepsInv DEF Handler

\* wg.Wait() of Pipeline, and the goroutine that closes errs.
LEMMA WaitersKeepInv ==
    ASSUME CircularInv, Pipeline \/ Waiter
    PROVE  CircularInv'
<1>1. /\ UNCHANGED <<send, sendClosed, gErr, exitImmediately, panicked, workers, applied, faults,
                     bucket, today, handler, page, objects, zipFiles, file, svc, cmds>>
      /\ Running
  BY DEF Pipeline, PipelineDone, Waiter, CloseErrs, others, pipeline, loader, env, listing, goroutines
<1>2. \/ done' = TRUE /\ UNCHANGED errsClosed /\ (\A w \in Workers : worker[w] = "done")
      \/ errsClosed' = TRUE /\ UNCHANGED done /\ done
  BY DEF Pipeline, PipelineDone, Waiter, CloseErrs
<1>3. CircularType'
  <2>1. Wanted' = Wanted
    BY <1>1, SameDay
  <2>2. PipelineType(Wanted)'
    BY <1>1, <1>2, <2>1 DEF CircularInv, CircularType, PipelineType, workers
  <2> QED
    BY <1>1, <2>1, <2>2 DEF CircularInv, CircularType
<1>4. Listed' /\ PassedOver'
  BY <1>1, ListingAlone, FilesAlone DEF CircularInv
<1>5. ChannelsOK'
  BY <1>1, <1>2 DEF CircularInv, ChannelsOK
<1>6. InOrder'
  <2>1. \A w \in Workers : Orderly(w) => Orderly(w)'
    BY <1>1, OrderlyAlone
  <2> QED
    BY <1>1, <1>2, <2>1 DEF CircularInv, InOrder, workers
<1>7. NothingLost' /\ NoFailure' /\ InReply'
  <2>1. \A k : Accounted(k) => Accounted(k)'
    BY <1>1, AccountedAlone
  <2> QED
    BY <1>1, <2>1, WorkersAlone, FilesAlone DEF CircularInv, NothingLost, NoFailure
<1> QED
  BY <1>3, <1>4, <1>5, <1>6, <1>7 DEF CircularInv

\* wg.Wait() of processTransXChangeFiles.
LEMMA FilesKeepInv ==
    ASSUME CircularInv, Files
    PROVE  CircularInv'
<1>1. /\ UNCHANGED <<send, errsClosed, gErr, exitImmediately, done, panicked, workers, applied, faults,
                     bucket, today, handler, page, objects, zipFiles, file, svc, cmds>>
      /\ Running /\ ~ sendClosed /\ sendClosed' = TRUE
      /\ \A f \in DOMAIN zipFiles : file[f] = "done"
  BY DEF Files, CloseSend, At, others, pipeline, loader, env, listing, goroutines, CircularInv, CircularType
<1>2. CircularType'
  <2>1. Wanted' = Wanted
    BY <1>1, SameDay
  <2>2. PipelineType(Wanted)'
    BY <1>1, <2>1 DEF CircularInv, CircularType, PipelineType, workers
  <2> QED
    BY <1>1, <2>1, <2>2 DEF CircularInv, CircularType
<1>3. Listed'
  <2>1. Started /\ Started'
    BY <1>1 DEF Running, Started
  <2>2. Zips' = Zips
    BY <1>1 DEF Zips, ZipsOn
  <2>3. Newest(Zips)' = Newest(Zips)
    BY <2>2 DEF Newest
  <2> QED
    BY <1>1, <2>1, <2>3 DEF CircularInv, Listed, Started
<1>4. PassedOver' /\ ChannelsOK' /\ InReply'
  BY <1>1, FilesAlone, WorkersAlone DEF CircularInv, ChannelsOK
<1>5. InOrder'
  <2>1. ASSUME NEW w \in Workers, Orderly(w) PROVE Orderly(w)'
    BY <1>1, <2>1 DEF Orderly, Pending, workers
  <2> QED
    BY <1>1, <2>1 DEF CircularInv, InOrder, workers
<1>6. NothingLost' /\ NoFailure'
  <2>1. \A k : Accounted(k) => Accounted(k)'
    BY <1>1, AccountedAlone
  <2> QED
    BY <1>1, <2>1, WorkersAlone, FilesAlone DEF CircularInv, NothingLost, NoFailure
<1> QED
  BY <1>2, <1>3, <1>4, <1>5, <1>6 DEF CircularInv

-----------------------------------------------------------------------------
(* processTransXChangeFile *)

\* While nothing has failed the goroutine of a file runs only as long as errs and
\* send are open: the last worker ends after send is closed, and that is closed
\* after the last file.
LEMMA FilesGoing ==
    ASSUME CircularInv, ~ gErr \/ faults = 0, NEW f \in DOMAIN zipFiles, file[f] # "done"
    PROVE  Going /\ ~ done /\ ~ sendClosed
<1>1. ~ sendClosed
  BY DEF CircularInv, InOrder
<1>2. ~ done
  BY <1>1, AllStored DEF CircularInv, InOrder
<1> QED
  BY <1>1, <1>2 DEF Going, CircularInv, ChannelsOK

\* A goroutine leaves the variables of the workers and of the other files alone.
LEMMA FileFrame ==
    ASSUME CircularType, NEW f \in DOMAIN zipFiles, FileStep(f)
    PROVE  /\ UNCHANGED <<sendClosed, errsClosed, exitImmediately, done, workers, applied,
                          bucket, today, handler, page, objects, zipFiles>>
           /\ file[f] # "done" /\ file' \in [DOMAIN zipFiles ->
                    {"open", "read", "services", "push", "err", "lastErr", "close", "done"}]
           /\ \A g \in DOMAIN zipFiles \ {f} :
                file'[g] = file[g] /\ svc'[g] = svc[g] /\ cmds'[g] = cmds[g]
           /\ (gErr => gErr') /\ gErr' \in BOOLEAN /\ panicked' \in BOOLEAN
           /\ faults' \in {faults, faults + 1} /\ (faults' # faults => Fault)
           /\ faults \in Nat
<1>1. file \in [DOMAIN zipFiles ->
                    {"open", "read", "services", "push", "err", "lastErr", "close", "done"}]
      /\ DOMAIN svc = DOMAIN zipFiles /\ DOMAIN cmds = DOMAIN zipFiles
      /\ gErr \in BOOLEAN /\ panicked \in BOOLEAN /\ faults \in Nat
  BY DEF CircularType, PipelineType
<1>2. /\ UNCHANGED <<sendClosed, errsClosed, exitImmediately, done, workers, applied,
                     bucket, today, handler, page, objects, zipFiles>>
      /\ (gErr => gErr') /\ gErr' \in BOOLEAN /\ panicked' \in BOOLEAN
      /\ faults' \in {faults, faults + 1} /\ (faults' # faults => Fault)
  BY <1>1 DEF FileStep, Open, Read, NextService, PushCommand, PushCancelled, PushEnds, FileSendsErr,
     CloseFile, Alone, Quietly, Panic, SendErr, Fault, channels, pipeline, env, listing, others
<1>3. file[f] # "done"
  BY DEF FileStep, Open, Read, NextService, PushCommand, PushCancelled, PushEnds, FileSendsErr,
     CloseFile, At
<1>4. file' = file \/ \E pc \in {"read", "lastErr", "services", "err", "close", "push", "done"} :
                        file' = [file EXCEPT ![f] = pc]
  BY DEF FileStep, Open, Read, NextService, PushCommand, PushCancelled, PushEnds, FileSendsErr,
     CloseFile, Goes
<1>5. svc' = svc \/ svc' = [svc EXCEPT ![f] = @ + 1]
  BY DEF FileStep, Open, Read, NextService, PushCommand, PushCancelled, PushEnds, FileSendsErr,
     CloseFile
<1>6. cmds' = cmds \/ \E q : cmds' = [cmds EXCEPT ![f] = q]
  BY DEF FileStep, Open, Read, NextService, PushCommand, PushCancelled, PushEnds, FileSendsErr,
     CloseFile
<1> QED
  BY <1>1, <1>2, <1>3, <1>4, <1>5, <1>6

\* The three ways on from a service, and the end of the services.
LEMMA NextServiceCases ==
    ASSUME CircularInv, NEW f \in DOMAIN zipFiles, NextService(f)
    PROVE  \/ /\ Goes(f, "close") /\ UNCHANGED <<svc, cmds>>
              /\ Keys(zipFiles[f]) = {} /\ ~ Unreadable(zipFiles[f])
           \/ Goes(f, "err") /\ UNCHANGED <<svc, cmds>>
           \/ /\ Goes(f, "push") /\ UNCHANGED svc /\ ~ Unreadable(zipFiles[f])
              /\ \E q \in Seq(Keys(zipFiles[f])) :
                    cmds' = [cmds EXCEPT ![f] = q] /\ Range(q) = Keys(zipFiles[f])
           \/ /\ UNCHANGED <<file, cmds>> /\ svc' = [svc EXCEPT ![f] = @ + 1]
              /\ svc[f] \in DOMAIN zipFiles[f].services
              /\ ~ Fails(zipFiles[f].services[svc[f]])
              /\ ~ Circular(zipFiles[f].services[svc[f]])
<1>1. PICK x \in File : x = zipFiles[f]
  BY DEF CircularInv, CircularType
<1>2. x.services \in Seq(Service)
  BY DEF File
<1>3. PICK k \in Nat \ {0} : k = svc[f]
  BY DEF CircularInv, CircularType
<1>4. \A j \in 1 .. k - 1 : j \in DOMAIN x.services =>
          ~ Fails(x.services[j]) /\ ~ Circular(x.services[j])
  BY <1>1, <1>3 DEF CircularInv, PassedOver
<1>5. CASE k > Len(x.services)
  <2>1. Goes(f, "close") /\ UNCHANGED <<svc, cmds>>
    BY <1>1, <1>3, <1>5 DEF NextService
  <2>2. \A j \in DOMAIN x.services : j \in 1 .. k - 1
    BY <1>2, <1>5
  <2>3. Keys(x) = {} /\ ~ Unreadable(x)
    BY <1>4, <2>2, NoKeys
  <2> QED
    BY <1>1, <2>1, <2>3
<1>6. CASE ~ (k > Len(x.services))
  <2>1. k \in DOMAIN x.services /\ \A j \in 1 .. k - 1 : j \in DOMAIN x.services
    BY <1>2, <1>6
  <2>2. \/ Goes(f, "err") /\ UNCHANGED <<svc, cmds>>
        \/ /\ Circular(x.services[k])
           /\ Goes(f, "push") /\ UNCHANGED svc
           /\ cmds' = [cmds EXCEPT ![f] = Commands(x.services[k], x.operators)]
        \/ /\ ~ Fails(x.services[k]) /\ ~ Circular(x.services[k])
           /\ svc' = [svc EXCEPT ![f] = @ + 1] /\ UNCHANGED <<file, cmds>>
    BY <1>1, <1>3, <1>6 DEF NextService
  <2>3. CASE Circular(x.services[k])
             /\ Goes(f, "push") /\ UNCHANGED svc
             /\ cmds' = [cmds EXCEPT ![f] = Commands(x.services[k], x.operators)]
    <3>1. First(x, k)
      BY <1>4, <2>1, <2>3 DEF First
    <3>2. PICK q : q = Commands(x.services[k], x.operators)
      OBVIOUS
    <3>3. q \in Seq(Keys(x)) /\ Range(q) = Keys(x) /\ ~ Unreadable(x)
      BY <3>1, <3>2, KeysOfFirst
    <3> QED
      BY <1>1, <2>3, <3>2, <3>3
  <2> QED
    BY <1>1, <1>3, <2>1, <2>2, <2>3
<1> QED
  BY <1>5, <1>6

LEMMA FileTypeStep ==
    ASSUME CircularInv, NEW f \in DOMAIN zipFiles, FileStep(f)
    PROVE  CircularType' /\ PassedOver'
<1>1. CircularType
  BY DEF CircularInv
<1>2. /\ UNCHANGED <<sendClosed, errsClosed, exitImmediately, done, workers, applied,
                     bucket, today, handler, page, objects, zipFiles>>
      /\ file' \in [DOMAIN zipFiles ->
                    {"open", "read", "services", "push", "err", "lastErr", "close", "done"}]
      /\ gErr' \in BOOLEAN /\ panicked' \in BOOLEAN
      /\ faults' \in {faults, faults + 1} /\ faults \in Nat
  BY <1>1, FileFrame
<1>3. Wanted' = Wanted
  BY <1>2, SameDay
<1>4. cmds \in [DOMAIN zipFiles -> Seq(Wanted)] /\ send \in Seq(Wanted) /\ svc \in [DOMAIN zipFiles -> Nat \ {0}]
  BY <1>1 DEF CircularType, PipelineType
<1>5. Keys(zipFiles[f]) \subseteq Wanted
  BY DEF Wanted
<1>6. send' \in Seq(Wanted) /\ cmds' \in [DOMAIN zipFiles -> Seq(Wanted)]
  <2>1. CASE PushCommand(f)
    <3>1. cmds[f] \in Seq(Wanted) /\ cmds[f] # << >>
      BY <1>4, <2>1 DEF PushCommand
    <3>2. Head(cmds[f]) \in Wanted /\ Tail(cmds[f]) \in Seq(Wanted)
      BY <3>1, HeadTailProperties
    <3>3. Append(send, Head(cmds[f])) \in Seq(Wanted)
      BY <1>4, <3>2, AppendProperties
    <3> QED
      BY <1>4, <2>1, <3>2, <3>3 DEF PushCommand
  <2>2. CASE PushCancelled(f)
    <3>1. cmds[f] \in Seq(Wanted) /\ cmds[f] # << >>
      BY <1>4, <2>2 DEF PushCancelled
    <3>2. Tail(cmds[f]) \in Seq(Wanted)
      BY <3>1, HeadTailProperties
    <3> QED
      BY <1>4, <2>2, <3>2 DEF PushCancelled
  <2>3. CASE NextService(f)
    <3>1. send' = send
      BY <2>3 DEF NextService, Alone, channels
    <3>2. Seq(Keys(zipFiles[f])) \subseteq Seq(Wanted)
      BY <1>5, SeqMonotonic
    <3>3. cmds' = cmds \/ \E q \in Seq(Wanted) : cmds' = [cmds EXCEPT ![f] = q]
      BY <2>3, <3>2, NextServiceCases
    <3> QED
      BY <1>4, <3>1, <3>3
  <2>4. CASE Open(f) \/ Read(f) \/ PushEnds(f) \/ FileSendsErr(f) \/ CloseFile(f)
    <3>1. UNCHANGED <<send, cmds>>
      BY <2>4 DEF Open, Read, PushEnds, FileSendsErr, CloseFile, Alone, channels
    <3> QED
      BY <1>4, <3>1
  <2> QED
    BY <2>1, <2>2, <2>3, <2>4 DEF FileStep
<1>7. CircularType'
  <2>1. PipelineType(Wanted)'
    BY <1>1, <1>2, <1>3, <1>6 DEF CircularType, PipelineType, workers
  <2>2. svc' = svc \/ svc' = [svc EXCEPT ![f] = @ + 1]
    BY DEF FileStep, Open, Read, NextService, PushCommand, PushCancelled, PushEnds, FileSendsErr,
       CloseFile
  <2>3. svc' \in [DOMAIN zipFiles -> Nat \ {0}]
    BY <1>4, <2>2
  <2>4. handler' = handler /\ page' = page /\ bucket' = bucket /\ today' = today /\ zipFiles' = zipFiles
    BY <1>2
  <2> QED
    BY <1>1, <1>2, <1>3, <1>6, <2>1, <2>3, <2>4 DEF CircularType
<1>8. PassedOver'
  <2>1. \/ svc' = svc
        \/ /\ svc' = [svc EXCEPT ![f] = @ + 1]
           /\ ~ Fails(zipFiles[f].services[svc[f]])
           /\ ~ Circular(zipFiles[f].services[svc[f]])
    <3>1. CASE NextService(f)
      BY <3>1, NextServiceCases
    <3>2. CASE ~ NextService(f)
      BY <3>2 DEF FileStep, Open, Read, PushCommand, PushCancelled, PushEnds, FileSendsErr, CloseFile
    <3> QED
      BY <3>1, <3>2
  <2>2. ASSUME NEW g \in DOMAIN zipFiles, NEW j \in Nat, j \in 1 .. svc'[g] - 1,
               j \in DOMAIN zipFiles[g].services
        PROVE  /\ ~ Fails(zipFiles[g].services[j])
               /\ ~ Circular(zipFiles[g].services[j])
    <3>1. PICK n \in Nat \ {0} : n = svc[g]
      BY <1>4
    <3>2. svc'[g] = n \/ (g = f /\ svc'[g] = n + 1)
      BY <1>4, <2>1, <3>1
    <3>3. CASE j \in 1 .. n - 1
      BY <2>2, <3>1, <3>3 DEF CircularInv, PassedOver
    <3>4. CASE ~ (j \in 1 .. n - 1)
      <4>1. svc'[g] = n + 1 /\ g = f /\ j = n
        BY <2>2, <3>2, <3>4
      <4>2. svc' # svc
        BY <3>1, <4>1
      <4> QED
        BY <2>1, <3>1, <4>1, <4>2
    <3> QED
      BY <3>3, <3>4
  <2> QED
    BY <1>2, <2>2, SameDay DEF PassedOver
<1> QED
  BY <1>7, <1>8

\* A command that goes from a file's goroutine to send is not lost, and every
\* error but that of f itself stays where it is.
LEMMA FileLosesNothing ==
    ASSUME CircularInv, NEW f \in DOMAIN zipFiles, FileStep(f)
    PROVE  NothingLost'
<1>1. CircularType
  BY DEF CircularInv
<1>2. /\ UNCHANGED <<errsClosed, exitImmediately, workers, applied, today, zipFiles>>
      /\ file[f] # "done" /\ DOMAIN file' = DOMAIN zipFiles
      /\ \A g \in DOMAIN zipFiles \ {f} : file'[g] = file[g] /\ cmds'[g] = cmds[g]
      /\ gErr => gErr'
  BY <1>1, FileFrame
<1>3. /\ file \in [DOMAIN zipFiles ->
                    {"open", "read", "services", "push", "err", "lastErr", "close", "done"}]
      /\ cmds \in [DOMAIN zipFiles -> Seq(Wanted)] /\ send \in Seq(Wanted)
  BY <1>1 DEF CircularType, PipelineType
<1> SUFFICES ASSUME ~ gErr'
             PROVE  /\ \A g \in DOMAIN zipFiles : Settled(g)' => ~ Unreadable(zipFiles[g])
                    /\ \/ \A g \in DOMAIN zipFiles : Settled(g)' =>
                            \A k \in Keys(zipFiles[g]) : Sending(g, k)' \/ Accounted(k)'
                       \/ \E w \in Workers : Trouble(w)'
  BY <1>2, SameDay DEF NothingLost
<1>4. /\ ~ gErr
      /\ \A g \in DOMAIN zipFiles : Settled(g) => ~ Unreadable(zipFiles[g])
      /\ \/ \A g \in DOMAIN zipFiles :
                 Settled(g) => \A k \in Keys(zipFiles[g]) : Sending(g, k) \/ Accounted(k)
         \/ \E w \in Workers : Trouble(w)
  BY <1>2 DEF CircularInv, NothingLost
<1>5. Going /\ ~ FileSendsErr(f) /\ ~ PushCancelled(f)
  <2>1. Going
    BY <1>2, <1>4, FilesGoing
  <2> QED
    BY <2>1 DEF Going, FileSendsErr, PushCancelled, SendErr
<1>6. \A w \in Workers : Trouble(w)' <=> Trouble(w)
  BY <1>2, WorkersAlone
<1>7. \A g \in DOMAIN zipFiles \ {f} : /\ Settled(g)' <=> Settled(g)
                                       /\ \A k : Sending(g, k)' <=> Sending(g, k)
  BY <1>2 DEF Settled, Sending
<1>8. ASSUME NEW k, Accounted(k) PROVE Accounted(k)'
  <2>1. CASE PushCommand(f)
    <3>1. \A w \in Workers : Pending(w)' = Pending(w) /\ sender'[w] = sender[w] /\ cmd'[w] = cmd[w]
      BY <1>2, WorkersAlone DEF workers
    <3>2. k \in Range(send) => k \in Range(send')
      <4>1. send' = send \/ send' = Append(send, Head(cmds[f]))
        BY <2>1 DEF PushCommand
      <4>2. Head(cmds[f]) \in Wanted
        BY <1>3, <2>1, HeadTailProperties DEF PushCommand
      <4>3. Range(Append(send, Head(cmds[f]))) = Range(send) \cup {Head(cmds[f])}
        BY <1>3, <4>2, RangeOfAppend
      <4> QED
        BY <4>1, <4>3
    <3> QED
      BY <1>2, <1>8, <3>1, <3>2 DEF Accounted
  <2>2. CASE ~ PushCommand(f)
    <3>1. send' = send
      BY <1>5, <2>2 DEF FileStep, Open, Read, NextService, PushEnds, CloseFile, Alone, channels
    <3> QED
      BY <1>2, <1>8, <3>1, AccountedAlone
  <2> QED
    BY <2>1, <2>2
<1> DEFINE Safe(g) == \A k \in Keys(zipFiles[g]) : Sending(g, k) \/ Accounted(k)
<1> DEFINE SafeThen(g) == \A k \in Keys(zipFiles[g]) : Sending(g, k)' \/ Accounted(k)'
<1>9. \/ Settled(f) /\ (Safe(f) => SafeThen(f))
      \/ ~ Settled(f)'
      \/ ~ Unreadable(zipFiles[f]) /\ SafeThen(f)
  <2>1. CASE Open(f) \/ Read(f)
    <3>1. file'[f] \in {"read", "lastErr", "services", "err"}
      BY <1>3, <2>1 DEF Open, Read, Goes
    <3> QED
      BY <3>1 DEF Settled
  <2>2. CASE NextService(f)
    <3>1. CASE Goes(f, "close") /\ Keys(zipFiles[f]) = {} /\ ~ Unreadable(zipFiles[f])
      BY <3>1
    <3>2. CASE Goes(f, "err")
      BY <1>3, <3>2 DEF Goes, Settled
    <3>3. CASE /\ Goes(f, "push") /\ ~ Unreadable(zipFiles[f])
               /\ \E q \in Seq(Keys(zipFiles[f])) :
                    cmds' = [cmds EXCEPT ![f] = q] /\ Range(q) = Keys(zipFiles[f])
      BY <1>3, <3>3 DEF Goes, Sending
    <3>4. CASE UNCHANGED file
      BY <1>3, <2>2, <3>4 DEF NextService, At, Settled
    <3> QED
      BY <2>2, <3>1, <3>2, <3>3, <3>4, NextServiceCases
  <2>3. CASE PushCommand(f)
    <3>1. Settled(f) /\ At(f, "push") /\ cmds[f] # << >>
      BY <2>3 DEF PushCommand, Settled, At
    <3>2. ~ sendClosed
      BY <1>2, <1>4, FilesGoing
    <3>3. send' = Append(send, Head(cmds[f])) /\ cmds'[f] = Tail(cmds[f]) /\ file' = file
      BY <1>3, <2>3, <3>2 DEF PushCommand
    <3>4. Range(cmds[f]) = {Head(cmds[f])} \cup Range(Tail(cmds[f]))
      BY <1>3, <3>1, RangeOfTail
    <3>5. Head(cmds[f]) \in Range(send')
      <4>1. Head(cmds[f]) \in Wanted
        BY <1>3, <3>1, HeadTailProperties
      <4>2. Range(Append(send, Head(cmds[f]))) = Range(send) \cup {Head(cmds[f])}
        BY <1>3, <4>1, RangeOfAppend
      <4> QED
        BY <3>3, <4>2
    <3>6. ASSUME NEW k, Sending(f, k) PROVE Sending(f, k)' \/ Accounted(k)'
      <4>1. k = Head(cmds[f]) => Accounted(k)'
        BY <3>5 DEF Accounted
      <4> QED
        BY <3>1, <3>3, <3>4, <3>6, <4>1 DEF Sending, At
    <3> QED
      BY <1>8, <3>1, <3>6
  <2>4. CASE PushEnds(f)
    <3>1. Settled(f) /\ cmds[f] = << >>
      BY <2>4 DEF PushEnds, Settled, At
    <3>2. Range(<< >>) = {}
      BY DEF Range
    <3>3. \A k : ~ Sending(f, k)
      BY <3>1, <3>2 DEF Sending
    <3> QED
      BY <1>8, <3>1, <3>3
  <2>5. CASE CloseFile(f)
    <3>1. Settled(f) /\ \A k : ~ Sending(f, k)
      BY <2>5 DEF CloseFile, Settled, Sending, At
    <3> QED
      BY <1>8, <3>1
  <2> QED
    BY <1>5, <2>1, <2>2, <2>3, <2>4, <2>5 DEF FileStep
<1>10. \A g \in DOMAIN zipFiles : Settled(g)' => ~ Unreadable(zipFiles[g])
  BY <1>4, <1>7, <1>9
<1>11. CASE \A g \in DOMAIN zipFiles : Settled(g) => Safe(g)
  <2>1. ASSUME NEW g \in DOMAIN zipFiles \ {f}, Settled(g)' PROVE SafeThen(g)
    BY <1>7, <1>8, <1>11, <2>1
  <2>2. Settled(f)' => SafeThen(f)
    BY <1>9, <1>11
  <2> QED
    BY <1>10, <2>1, <2>2
<1> QED
  BY <1>4, <1>6, <1>10, <1>11

LEMMA FilesStepKeepsInv ==
    ASSUME CircularInv, FilesStep
    PROVE  CircularInv'
<1>1. PICK f \in DOMAIN zipFiles : Running /\ FileStep(f)
  BY DEF FilesStep
<1>2. CircularType
  BY DEF CircularInv
<1>3. /\ UNCHANGED <<sendClosed, errsClosed, exitImmediately, done, workers, applied,
                     bucket, today, handler, page, objects, zipFiles>>
      /\ file[f] # "done"
      /\ \A g \in DOMAIN zipFiles \ {f} : file'[g] = file[g]
      /\ (gErr => gErr') /\ gErr' \in BOOLEAN
      /\ faults' \in {faults, faults + 1} /\ (faults' # faults => Fault)
      /\ faults \in Nat
  BY <1>1, <1>2, FileFrame
<1>4. CircularType' /\ PassedOver'
  BY <1>1, FileTypeStep
<1>5. Listed'
  BY <1>3, ListingAlone DEF CircularInv
<1>6. ASSUME ~ gErr' \/ faults' = 0
      PROVE  /\ Going /\ ~ done /\ ~ sendClosed /\ (~ gErr \/ faults = 0)
             /\ \A w \in Workers : Orderly(w)
  <2>1. ~ gErr \/ faults = 0
    BY <1>3, <1>6
  <2> QED
    BY <1>3, <2>1, FilesGoing DEF CircularInv, InOrder
<1>7. ChannelsOK'
  <2>1. handler = "ok" => ~ gErr /\ ~ Going
    BY DEF CircularInv, ChannelsOK, Going
  <2>2. handler # "ok"
    BY <1>3, <2>1, FilesGoing
  <2> QED
    BY <1>3, <2>2 DEF CircularInv, ChannelsOK
<1>8. InOrder'
  <2>1. SUFFICES ASSUME ~ gErr' \/ faults' = 0
                 PROVE  \A w \in Workers : Orderly(w)'
    BY <1>3, <1>6 DEF InOrder
  <2>2. \A w \in Workers : Orderly(w) /\ sender[w] # "done"
    BY <1>6, <2>1 DEF Orderly
  <2> QED
    BY <1>3, <2>2 DEF Orderly, Pending, workers
<1>9. NothingLost'
  BY <1>1, FileLosesNothing
<1>10. NoFailure'
  <2>1. SUFFICES ASSUME faults' = 0
                 PROVE  /\ ~ panicked'
                        /\ \A w \in Workers : Unharmed(w)'
                        /\ \A g \in DOMAIN zipFiles : file'[g] # "lastErr"
    BY <1>3 DEF NoFailure
  <2>2. faults = 0 /\ faults' = faults /\ ~ Fault
    BY <1>3, <2>1 DEF Fault
  <2>3. \A w \in Workers : Unharmed(w)'
    BY <1>3, <2>2, WorkersAlone DEF CircularInv, NoFailure
  <2>4. Going /\ ~ sendClosed /\ ~ panicked
    BY <1>1, <1>6, <2>1 DEF Running
  <2>5. \A g \in DOMAIN zipFiles : file[g] # "lastErr"
    BY <2>2 DEF CircularInv, NoFailure
  <2>6. file'[f] # "lastErr"
    <3>1. file' = file \/ \E pc \in {"read", "services", "err", "close", "push", "done"} :
                        file' = [file EXCEPT ![f] = pc]
      BY <1>1, <2>2 DEF FileStep, Open, Read, NextService, PushCommand, PushCancelled, PushEnds,
         FileSendsErr, CloseFile, Goes
    <3>2. f \in DOMAIN file
      BY <1>2 DEF CircularType
    <3> QED
      BY <2>5, <3>1, <3>2
  <2>7. ~ panicked'
    BY <1>1, <2>4 DEF FileStep, Open, Read, NextService, PushCommand, PushCancelled, PushEnds,
       FileSendsErr, CloseFile, Alone, Quietly, SendErr, Going
  <2> QED
    BY <1>3, <2>3, <2>5, <2>6, <2>7
<1>11. InReply'
  BY <1>3, WorkersAlone DEF CircularInv
<1> QED
  BY <1>4, <1>5, <1>7, <1>8, <1>9, <1>10, <1>11 DEF CircularInv

-----------------------------------------------------------------------------
LEMMA CircularInvariant == Spec => []CircularInv
<1>1. CircularInv /\ [Next]_vars => CircularInv'
  <2> SUFFICES ASSUME CircularInv, [Next]_vars PROVE CircularInv'
    OBVIOUS
  <2>1. CASE UNCHANGED vars
    <3>1. UNCHANGED <<send, sendClosed, errsClosed, gErr, exitImmediately, done, panicked, workers,
                      applied, faults, bucket, today, handler, page, objects, zipFiles, file, svc, cmds>>
      BY <2>1 DEF vars, channels, loader, env, listing, goroutines
    <3>2. CircularType'
      <4>1. Wanted' = Wanted
        BY <3>1, SameDay
      <4>2. PipelineType(Wanted)'
        BY <3>1, <4>1 DEF CircularInv, CircularType, PipelineType, workers
      <4> QED
        BY <3>1, <4>1, <4>2 DEF CircularInv, CircularType
    <3>3. Listed' /\ PassedOver'
      BY <3>1, ListingAlone, FilesAlone DEF CircularInv
    <3>4. InOrder'
      <4>1. \A w \in Workers : Orderly(w) => Orderly(w)'
        BY <3>1, OrderlyAlone
      <4> QED
        BY <3>1, <4>1 DEF CircularInv, InOrder, workers
    <3>5. NothingLost' /\ NoFailure' /\ InReply' /\ ChannelsOK'
      <4>1. \A k : Accounted(k) => Accounted(k)'
        BY <3>1, AccountedAlone
      <4> QED
        BY <3>1, <4>1, WorkersAlone, FilesAlone
        DEF CircularInv, NothingLost, NoFailure, ChannelsOK
    <3> QED
      BY <3>2, <3>3, <3>4, <3>5 DEF CircularInv
  <2>2. CASE Next
    <3>1. CircularType
      BY DEF CircularInv
    <3> QED
      BY <2>1, <2>2, <3>1, NextSteps, HandlerKeepsInv, FilesKeepInv, WaitersKeepInv,
         FilesStepKeepsInv, WorkersKeepInv
  <2> QED
    BY <2>1, <2>2
<1> QED
  BY <1>1, CircularStarts, PTL DEF Spec

\* Wanted is what the newest ZIP file holds, once it was downloaded.
LEMMA KeysOfNewest ==
    ASSUME NEW o, zipFiles = o.files, zipFiles \in Seq(File)
    PROVE  AllKeys(o) = Wanted /\ Range(o.files) = {zipFiles[f] : f \in DOMAIN zipFiles}
<1>1. Range(zipFiles) = {zipFiles[f] : f \in DOMAIN zipFiles}
  BY DEF Range
<1> QED
  BY <1>1 DEF AllKeys, Wanted

\* Whatever fails and whenever, Redis is only sent keys of one of the newest ZIP
\* files, and of each of its files those of the first current circular service.
THEOREM OnlyNewestStored == Spec => []OnlyKeysOfNewest
<1>1. ASSUME CircularInv PROVE OnlyKeysOfNewest
  <2>1. SUFFICES ASSUME applied # {}
                 PROVE  \E o \in Newest(Zips) : applied \subseteq AllKeys(o)
    BY DEF OnlyKeysOfNewest
  <2>2. applied \subseteq Wanted /\ zipFiles \in Seq(File)
    BY <1>1 DEF CircularInv, CircularType, PipelineType
  <2>3. Started
    <3>1. ~ Started => Wanted = {}
      BY <1>1 DEF CircularInv, Listed, Wanted
    <3> QED
      BY <2>1, <2>2, <3>1
  <2>4. PICK o \in Newest(Zips) : zipFiles = o.files
    BY <1>1, <2>3 DEF CircularInv, Listed
  <2> QED
    BY <2>2, <2>4, KeysOfNewest
<1> QED
  BY <1>1, CircularInvariant, PTL

\* Handler returns nil only when every key of one of the newest ZIP files is in
\* the database and all of its files could be read.
THEOREM CircularSuccessStored == Spec => []SuccessMeansStored
<1>1. ASSUME CircularInv PROVE SuccessMeansStored
  <2>1. SUFFICES ASSUME handler = "ok"
                 PROVE  \E o \in Newest(Zips) :
                            applied = AllKeys(o) /\ ~ \E f \in Range(o.files) : Unreadable(f)
    BY DEF SuccessMeansStored
  <2>2. PICK o \in Newest(Zips) : zipFiles = o.files
    BY <1>1, <2>1 DEF CircularInv, Listed, Started
  <2>3. done /\ ~ gErr
    BY <1>1, <2>1 DEF CircularInv, ChannelsOK
  <2>4. \A w \in Workers : Orderly(w) /\ worker[w] = "done"
    BY <1>1, <2>3 DEF CircularInv, InOrder
  <2>5. /\ \A w \in Workers : ~ Trouble(w)
        /\ sendClosed
        /\ \A k : Accounted(k) => k \in applied
    BY <2>4, AllStored
  <2>6. \A f \in DOMAIN zipFiles : file[f] = "done" /\ Settled(f) /\ \A k : ~ Sending(f, k)
    BY <1>1, <2>3, <2>5 DEF CircularInv, InOrder, Settled, Sending
  <2>7. \A f \in DOMAIN zipFiles :
            ~ Unreadable(zipFiles[f]) /\ \A k \in Keys(zipFiles[f]) : Accounted(k)
    BY <1>1, <2>3, <2>5, <2>6 DEF CircularInv, NothingLost
  <2>8. Wanted \subseteq applied
    BY <2>5, <2>7 DEF Wanted
  <2>9. applied \subseteq Wanted /\ zipFiles \in Seq(File)
    BY <1>1 DEF CircularInv, CircularType, PipelineType
  <2>10. AllKeys(o) = Wanted /\ Range(o.files) = {zipFiles[f] : f \in DOMAIN zipFiles}
    BY <2>2, <2>9, KeysOfNewest
  <2>11. ASSUME NEW x \in Range(o.files) PROVE ~ Unreadable(x)
    <3>1. PICK f \in DOMAIN zipFiles : x = zipFiles[f]
      BY <2>10
    <3> QED
      BY <2>7, <3>1
  <2>12. applied = AllKeys(o)
    BY <2>8, <2>9, <2>10
  <2>13. ~ \E f \in Range(o.files) : Unreadable(f)
    BY <2>11
  <2> QED
    BY <2>12, <2>13
<1> QED
  BY <1>1, CircularInvariant, PTL

\* No date, however wrong, makes a goroutine send on a closed channel: only a
\* failure of the network, of a file or of Redis, or a bucket without a ZIP file.
THEOREM CircularNeverPanics == Spec => []NoPanicUnlessFailure
<1>1. ASSUME CircularInv PROVE NoPanicUnlessFailure
  <2>1. faults \in Nat
    BY <1>1 DEF CircularInv, CircularType, PipelineType
  <2> QED
    BY <1>1, <2>1 DEF CircularInv, NoFailure, NoPanicUnlessFailure
<1> QED
  BY <1>1, CircularInvariant, PTL
=============================================================================
