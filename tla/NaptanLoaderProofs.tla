-------------------------- MODULE NaptanLoaderProofs --------------------------
(***************************************************************************)
(* The safety properties of NaptanLoader hold for any number of rows, of   *)
(* workers and of failures, and for every capacity of the channels.        *)
(***************************************************************************)
EXTENDS NaptanLoader, PipelineProofs

LoaderType ==
    /\ PipelineType(1 .. Rows)
    /\ handler \in {"download", "errs", "ok", "error"}
    /\ producer \in {"find", "read", "push", "err", "lastErr", "close", "closeSend", "done"}
    /\ row \in 1 .. Rows + 1
    /\ producer = "push" => row <= Rows

\* errs is closed, and Handler returns, after the last worker has ended.
ChannelsOK ==
    /\ errsClosed \/ exitImmediately => done
    /\ handler = "ok" => done /\ errsClosed /\ ~ gErr

\* As long as no error was received, the goroutines end one after the other, and
\* every row that was read is accounted for or has led to an error.
InOrder ==
    ~ gErr /\ handler # "error" =>
        /\ \A w \in Workers : Orderly(w)
        /\ done => \A w \in Workers : worker[w] = "done"
        /\ sendClosed => producer = "done"
        /\ producer \in {"close", "closeSend", "done"} => row > Rows
        /\ \/ \A k \in 1 .. row - 1 : Accounted(k)
           \/ \E w \in Workers : Trouble(w)

NoFailure ==
    faults = 0 =>
        /\ ~ gErr /\ ~ panicked /\ handler # "error" /\ producer \notin {"err", "lastErr"}
        /\ \A w \in Workers : Unharmed(w)

InReply == \A w \in Workers : Answered(w) /\ Flushed(w)

\* The goroutines start once the file is there.
NotStarted == handler = "download" => InitPipeline

LoaderInv == LoaderType /\ ChannelsOK /\ InOrder /\ NoFailure /\ InReply /\ NotStarted

\* A step of a worker.
WorkersStep == \E w \in Workers : Running /\ PipelineStep(w) /\ UNCHANGED loader

LEMMA NextSteps ==
    ASSUME Next
    PROVE  \/ Handler \/ Producer \/ Pipeline \/ Waiter \/ WorkersStep \/ UNCHANGED vars
BY DEF Next, WorkersStep, Sender, Flusher, Receiver, Worker, PipelineStep, Terminated

\* The variables of the pipeline that InReply and Orderly speak of stay.
LEMMA WorkersAlone ==
    ASSUME UNCHANGED <<workers, exitImmediately>>
    PROVE  /\ InReply => InReply'
           /\ \A w \in Workers : (Trouble(w)' <=> Trouble(w)) /\ (Unharmed(w)' <=> Unharmed(w))
           /\ \A w \in Workers : Pending(w)' = Pending(w)
BY DEF workers, InReply, Answered, Flushed, Matched, Pending, Expected, Trouble, Unharmed

-----------------------------------------------------------------------------
LEMMA LoaderStarts == Init => LoaderInv
<1> SUFFICES ASSUME Init PROVE LoaderInv
  OBVIOUS
<1>1. InitPipeline /\ handler = "download" /\ producer = "find" /\ row = 1
  BY DEF Init
<1>2. /\ PipelineType(1 .. Rows)
      /\ \A w \in Workers : Answered(w) /\ Flushed(w) /\ Orderly(w) /\ Unharmed(w)
  BY <1>1, PipelineStarts
<1>3. LoaderType
  BY <1>1, <1>2, RowsAssumption DEF LoaderType
<1>4. ChannelsOK /\ InOrder /\ NoFailure
  BY <1>1, <1>2 DEF InitPipeline, ChannelsOK, InOrder, NoFailure
<1> QED
  BY <1>1, <1>2, <1>3, <1>4 DEF LoaderInv, InReply, NotStarted

\* While nothing has failed the workers run only as long as errs is open.
LEMMA WorkersGoing ==
    ASSUME LoaderInv, ~ gErr, handler # "error", NEW w \in Workers, PipelineStep(w)
    PROVE  Going
<1>1. CASE done
  <2>1. Orderly(w) /\ worker[w] = "done"
    BY <1>1 DEF LoaderInv, InOrder
  <2> QED
    BY <2>1, NothingAfterTheEnd DEF LoaderInv, LoaderType
<1>2. CASE ~ done
  BY <1>2 DEF Going, LoaderInv, ChannelsOK
<1> QED
  BY <1>1, <1>2

LEMMA WorkersKeepInv ==
    ASSUME LoaderInv, WorkersStep
    PROVE  LoaderInv'
<1>1. PICK w \in Workers : Running /\ PipelineStep(w) /\ UNCHANGED loader
  BY DEF WorkersStep
<1>2. UNCHANGED <<handler, producer, row>>
  BY <1>1 DEF loader
<1>3. PipelineType(1 .. Rows)
  BY DEF LoaderInv, LoaderType
<1>4. /\ UNCHANGED <<sendClosed, errsClosed, exitImmediately, done>>
      /\ gErr => gErr'
      /\ faults' \in {faults, faults + 1}
  BY <1>1, <1>3, PipelineFrame
<1>5. LoaderType'
  BY <1>1, <1>2, <1>3, PipelineTypeStep DEF LoaderInv, LoaderType
<1>6. InReply'
  BY <1>1, <1>3, RepliesStep DEF LoaderInv, InReply
<1>7. ASSUME ~ gErr', handler # "error"
      PROVE  Going /\ ~ gErr /\ (\A v \in Workers : Orderly(v))
  <2>1. ~ gErr
    BY <1>4, <1>7
  <2> QED
    BY <1>1, <1>7, <2>1, WorkersGoing DEF LoaderInv, InOrder
<1>8. InOrder'
  <2>1. SUFFICES ASSUME ~ gErr', handler # "error"
                 PROVE  /\ \A v \in Workers : Orderly(v)'
                        /\ done => \A v \in Workers : worker[v]' = "done"
                        /\ \/ \A k \in 1 .. row - 1 : Accounted(k)'
                           \/ \E v \in Workers : Trouble(v)'
    <3>1. ~ gErr' /\ handler # "error" =>
            (sendClosed => producer = "done") /\ (producer \in {"close", "closeSend", "done"} => row > Rows)
      BY <1>4 DEF LoaderInv, InOrder
    <3> QED
      BY <1>2, <1>4, <3>1 DEF InOrder
  <2>2. Going /\ ~ gErr /\ (\A v \in Workers : Orderly(v))
    BY <1>7, <2>1
  <2>3. \A v \in Workers : Orderly(v)'
    BY <1>1, <1>3, <2>1, <2>2, OrderlyStep
  <2>4. ~ done
    <3>1. done => worker[w] = "done"
      BY <2>1, <2>2 DEF LoaderInv, InOrder
    <3> QED
      BY <1>1, <1>3, <2>2, <3>1, NothingAfterTheEnd
  <2>5. CASE \E v \in Workers : Trouble(v)
    <3>1. PICK v \in Workers : Trouble(v)
      BY <2>5
    <3>2. Trouble(v)'
      BY <1>1, <1>3, <2>1, <2>2, <3>1, TroubleStays
    <3> QED
      BY <2>3, <2>4, <3>2
  <2>6. CASE \A k \in 1 .. row - 1 : Accounted(k)
    <3>1. Answered(w)
      BY DEF LoaderInv, InReply
    <3>2. ASSUME NEW k \in 1 .. row - 1 PROVE Accounted(k)' \/ Trouble(w)'
      BY <1>1, <1>3, <2>1, <2>2, <2>6, <3>1, AccountedStep
    <3>3. CASE Trouble(w)'
      BY <2>3, <2>4, <3>3
    <3>4. CASE ~ Trouble(w)'
      BY <2>3, <2>4, <3>2, <3>4
    <3> QED
      BY <3>3, <3>4
  <2>7. (\A k \in 1 .. row - 1 : Accounted(k)) \/ \E v \in Workers : Trouble(v)
    BY <2>1, <2>2 DEF LoaderInv, InOrder
  <2> QED
    BY <2>3, <2>4, <2>5, <2>6, <2>7
<1>9. NoFailure'
  <2>1. SUFFICES ASSUME faults' = 0
                 PROVE  /\ ~ gErr' /\ ~ panicked' /\ handler # "error" /\ producer \notin {"err", "lastErr"}
                        /\ \A v \in Workers : Unharmed(v)'
    BY <1>2 DEF NoFailure
  <2>2. faults = 0
    BY <1>3, <1>4, <2>1 DEF PipelineType
  <2>3. /\ ~ gErr /\ ~ panicked /\ handler # "error" /\ producer \notin {"err", "lastErr"}
        /\ \A v \in Workers : Unharmed(v)
    BY <2>2 DEF LoaderInv, NoFailure
  <2>4. Going /\ \A v \in Workers : Orderly(v)
    BY <1>1, <2>3, WorkersGoing DEF LoaderInv, InOrder
  <2> QED
    BY <1>1, <1>3, <2>1, <2>2, <2>3, <2>4, UnharmedStep
<1>10. ChannelsOK'
  <2>1. handler = "ok" => done /\ ~ gErr /\ handler # "error"
    BY DEF LoaderInv, ChannelsOK
  <2>2. handler # "ok"
    <3>1. handler = "ok" => ~ Going
      BY DEF LoaderInv, ChannelsOK, Going
    <3> QED
      BY <1>1, <2>1, <3>1, WorkersGoing
  <2> QED
    BY <1>2, <1>4, <2>2 DEF LoaderInv, ChannelsOK
<1>11. NotStarted'
  BY <1>1, <1>2 DEF Running, NotStarted
<1> QED
  BY <1>5, <1>6, <1>8, <1>9, <1>10, <1>11 DEF LoaderInv

-----------------------------------------------------------------------------
(* Handler *)

LEMMA HandlerKeepsInv ==
    ASSUME LoaderInv, Handler
    PROVE  LoaderInv'
<1>1. CASE Download
  <2>1. /\ UNCHANGED <<channels, panicked, workers, applied, faults, producer, row>>
        /\ handler = "download" /\ handler' = "errs"
    BY <1>1 DEF Download, pipeline
  <2>2. LoaderType'
    BY <2>1 DEF LoaderInv, LoaderType, PipelineType, channels, workers
  <2>3. InReply' /\ NoFailure'
    BY <2>1, WorkersAlone DEF LoaderInv, NoFailure, channels
  <2>4. ChannelsOK'
    BY <2>1 DEF LoaderInv, ChannelsOK, channels
  <2>5. InOrder'
    BY <2>1 DEF LoaderInv, InOrder, Orderly, Accounted, Trouble, Pending, channels, workers
  <2> QED
    BY <2>1, <2>2, <2>3, <2>4, <2>5 DEF LoaderInv, NotStarted
<1>2. CASE DownloadFails
  <2>1. /\ UNCHANGED <<send, sendClosed, errsClosed, gErr, exitImmediately, panicked, cmd, recv,
                       recvClosed, conn, unflushed, inflight, applied, row>>
        /\ handler = "download" /\ handler' = "error" /\ producer' = "done" /\ done' = TRUE
        /\ faults' = faults + 1
    BY <1>2 DEF DownloadFails, Fault
  <2>2. /\ worker' = [w \in Workers |-> "done"]
        /\ sender' = [w \in Workers |-> "done"]
        /\ flusher' = [w \in Workers |-> "done"]
        /\ receiver' = [w \in Workers |-> "done"]
    BY <1>2 DEF DownloadFails
  <2>3. LoaderType'
    <3>1. PipelineType(1 .. Rows)'
      BY <2>1, <2>2 DEF LoaderInv, LoaderType, PipelineType
    <3> QED
      BY <2>1, <3>1 DEF LoaderInv, LoaderType
  <2>4. ChannelsOK' /\ InOrder' /\ NotStarted'
    BY <2>1 DEF ChannelsOK, InOrder, NotStarted
  <2>5. NoFailure'
    BY <2>1 DEF LoaderInv, LoaderType, PipelineType, NoFailure
  <2>6. InReply'
    <3>1. InitPipeline
      BY <2>1 DEF LoaderInv, NotStarted
    <3>2. ASSUME NEW w \in Workers PROVE Answered(w)' /\ Flushed(w)'
      <4>1. /\ recv'[w] = << >> /\ inflight'[w] = << >> /\ unflushed'[w] = << >>
            /\ sender'[w] = "done" /\ receiver'[w] = "done"
        BY <2>1, <2>2, <3>1, <3>2 DEF InitPipeline
      <4>2. Len(<< >>) = 0 /\ << >> \o << >> = << >>
        BY EmptySeq, ConcatEmptySeq
      <4>3. Pending(w)' = Expected(w)'
        BY <4>1, <4>2 DEF Pending, Expected
      <4> QED
        BY <4>1, <4>2, <4>3, PipelineAssumption DEF Answered, Matched, Flushed
    <3> QED
      BY <3>2 DEF InReply
  <2> QED
    BY <2>3, <2>4, <2>5, <2>6 DEF LoaderInv
<1>3. CASE Return
  <2>1. /\ UNCHANGED <<send, sendClosed, errsClosed, gErr, done, panicked, workers, applied, faults,
                       producer, row>>
        /\ handler = "errs" /\ errsClosed /\ exitImmediately' = TRUE
        /\ handler' = IF gErr THEN "error" ELSE "ok"
    BY <1>3 DEF Return, pipeline
  <2>2. LoaderType'
    <3>1. PipelineType(1 .. Rows)'
      BY <2>1 DEF LoaderInv, LoaderType, PipelineType, workers
    <3> QED
      BY <2>1, <3>1 DEF LoaderInv, LoaderType
  <2>3. ChannelsOK' /\ NotStarted'
    BY <2>1 DEF LoaderInv, ChannelsOK, NotStarted
  <2>4. InOrder'
    BY <2>1 DEF LoaderInv, InOrder, Orderly, Accounted, Trouble, Pending, workers
  <2>5. NoFailure'
    BY <2>1 DEF LoaderInv, NoFailure, Unharmed, workers
  <2>6. InReply'
    <3>1. ASSUME NEW w \in Workers PROVE Answered(w)' /\ Flushed(w)'
      <4>1. Answered(w) /\ Flushed(w)
        BY DEF LoaderInv, InReply
      <4>2. /\ sender' = sender /\ recv' = recv /\ conn' = conn /\ unflushed' = unflushed
            /\ (Matched(w)' <=> Matched(w))
        BY <2>1 DEF workers, Matched, Pending, Expected
      <4>3. conn[w] = "up" /\ sender[w] \notin {"err", "done"} => Matched(w)
        BY <4>1 DEF Answered
      <4> QED
        BY <2>1, <4>1, <4>2, <4>3 DEF Answered, Flushed
    <3> QED
      BY <3>1 DEF InReply
  <2> QED
    BY <2>2, <2>3, <2>4, <2>5, <2>6 DEF LoaderInv
<1> QED
  BY <1>1, <1>2, <1>3 DEF Handler, HandlerStep

\* wg.Wait() of Pipeline, and the goroutine that closes errs.
LEMMA WaitersKeepInv ==
    ASSUME LoaderInv, Pipeline \/ Waiter
    PROVE  LoaderInv'
<1>1. /\ UNCHANGED <<send, sendClosed, gErr, exitImmediately, panicked, workers, applied, faults,
                     handler, producer, row>>
      /\ Running
  BY DEF Pipeline, PipelineDone, Waiter, CloseErrs, others, pipeline, loader
<1>2. \/ done' = TRUE /\ UNCHANGED errsClosed /\ (\A w \in Workers : worker[w] = "done")
      \/ errsClosed' = TRUE /\ UNCHANGED done /\ done
  BY DEF Pipeline, PipelineDone, Waiter, CloseErrs
<1>3. LoaderType'
  <2>1. PipelineType(1 .. Rows)'
    BY <1>1, <1>2 DEF LoaderInv, LoaderType, PipelineType, workers
  <2> QED
    BY <1>1, <2>1 DEF LoaderInv, LoaderType
<1>4. ChannelsOK' /\ NotStarted'
  BY <1>1, <1>2 DEF LoaderInv, ChannelsOK, NotStarted, Running
<1>5. InOrder'
  BY <1>1, <1>2 DEF LoaderInv, InOrder, Orderly, Accounted, Trouble, Pending, workers
<1>6. NoFailure' /\ InReply'
  BY <1>1, WorkersAlone DEF LoaderInv, NoFailure
<1> QED
  BY <1>3, <1>4, <1>5, <1>6 DEF LoaderInv

-----------------------------------------------------------------------------
(* processZipFile *)

\* While nothing has failed the reader of the file runs only as long as errs is
\* open: the last worker ends after send is closed, which is its last step.
LEMMA ProducerGoing ==
    ASSUME LoaderInv, ~ gErr, handler # "error", producer # "done"
    PROVE  Going
<1>1. CASE done
  <2>1. sendClosed
    BY <1>1, AllStored DEF LoaderInv, InOrder
  <2> QED
    BY <2>1 DEF LoaderInv, InOrder
<1>2. CASE ~ done
  BY <1>2 DEF Going, LoaderInv, ChannelsOK
<1> QED
  BY <1>1, <1>2

LEMMA ProducerKeepsInv ==
    ASSUME LoaderInv, Producer
    PROVE  LoaderInv'
<1>1. /\ UNCHANGED <<errsClosed, exitImmediately, done, workers, applied, handler>>
      /\ producer # "done" /\ Running /\ (gErr => gErr')
  BY DEF Producer, ProducerStep, FindFile, ReadRow, EndOfFile, PushRow, PushCancelled,
     ProducerSendsErr, CloseFile, CloseSend, SendErr, channels, pipeline, others
<1>2. PipelineType(1 .. Rows) /\ row \in 1 .. Rows + 1 /\ Rows \in Nat
  BY RowsAssumption DEF LoaderInv, LoaderType
<1>3. ASSUME ~ gErr', handler # "error"
      PROVE  Going /\ ~ gErr
  BY <1>1, <1>3, ProducerGoing
<1>4. ASSUME faults = 0
      PROVE  Going /\ ~ gErr /\ ~ panicked /\ handler # "error" /\ producer \notin {"err", "lastErr"}
  BY <1>1, <1>4, ProducerGoing DEF LoaderInv, NoFailure
<1>5. faults' \in {faults, faults + 1}
  BY DEF Producer, ProducerStep, FindFile, ReadRow, EndOfFile, PushRow, PushCancelled,
     ProducerSendsErr, CloseFile, CloseSend, Fault
<1>6. InReply' /\ NotStarted' /\ ChannelsOK'
  <2>1. handler = "ok" => handler # "error" /\ ~ gErr /\ ~ Going
    BY DEF LoaderInv, ChannelsOK, Going
  <2>2. handler # "ok"
    BY <1>1, <2>1, ProducerGoing
  <2> QED
    BY <1>1, <2>2, WorkersAlone DEF LoaderInv, ChannelsOK, NotStarted, Running
<1>7. LoaderType'
  <2>1. CASE PushRow
    <3>1. Append(send, row) \in Seq(1 .. Rows) /\ row <= Rows
      BY <1>2, <2>1 DEF PushRow, LoaderInv, LoaderType, PipelineType
    <3>2. PipelineType(1 .. Rows)'
      BY <1>1, <1>2, <2>1, <3>1 DEF PushRow, PipelineType, workers, others
    <3> QED
      BY <1>1, <1>2, <2>1, <3>1, <3>2 DEF PushRow, LoaderInv, LoaderType
  <2>2. CASE ProducerSendsErr
    <3>1. gErr' \in BOOLEAN /\ panicked' \in BOOLEAN
      BY <1>2, <2>2 DEF ProducerSendsErr, SendErr, PipelineType
    <3>2. PipelineType(1 .. Rows)'
      BY <1>1, <1>2, <2>2, <3>1 DEF ProducerSendsErr, PipelineType, workers, others
    <3> QED
      BY <1>1, <1>2, <2>2, <3>2 DEF ProducerSendsErr, LoaderInv, LoaderType
  <2>3. CASE FindFile \/ ReadRow \/ EndOfFile \/ PushCancelled \/ CloseFile
    <3>1. UNCHANGED <<send, sendClosed, gErr, panicked, row>>
      BY <2>3 DEF FindFile, ReadRow, EndOfFile, PushCancelled, CloseFile, channels
    <3>2. faults' \in Nat
      BY <1>2, <1>5 DEF PipelineType
    <3>3. PipelineType(1 .. Rows)'
      BY <1>1, <1>2, <3>1, <3>2 DEF PipelineType, workers
    <3>4. /\ producer' \in {"find", "read", "push", "err", "lastErr", "close", "closeSend", "done"}
          /\ producer' = "push" => row <= Rows
      BY <2>3 DEF FindFile, ReadRow, EndOfFile, PushCancelled, CloseFile
    <3> QED
      BY <1>1, <3>1, <3>3, <3>4 DEF LoaderInv, LoaderType
  <2>4. CASE CloseSend
    <3>1. PipelineType(1 .. Rows)'
      BY <1>1, <1>2, <2>4 DEF CloseSend, PipelineType, workers, others
    <3> QED
      BY <1>1, <1>2, <2>4, <3>1 DEF CloseSend, LoaderInv, LoaderType
  <2> QED
    BY <2>1, <2>2, <2>3, <2>4 DEF Producer, ProducerStep
<1>8. NoFailure'
  <2>1. SUFFICES ASSUME faults' = 0
                 PROVE  /\ ~ gErr' /\ ~ panicked' /\ handler # "error"
                        /\ producer' \notin {"err", "lastErr"}
                        /\ \A w \in Workers : Unharmed(w)'
    BY <1>1 DEF NoFailure
  <2>2. faults = 0 /\ faults' = faults /\ ~ Fault
    BY <1>2, <1>5, <2>1 DEF PipelineType, Fault
  <2>3. /\ ~ gErr /\ ~ panicked /\ handler # "error" /\ producer \notin {"err", "lastErr"}
        /\ \A w \in Workers : Unharmed(w)
    BY <2>2 DEF LoaderInv, NoFailure
  <2>4. ~ gErr' /\ ~ panicked' /\ producer' \notin {"err", "lastErr"}
    BY <1>4, <2>2, <2>3 DEF Going, Producer, ProducerStep, FindFile, ReadRow, EndOfFile, PushRow,
       PushCancelled, ProducerSendsErr, CloseFile, CloseSend, channels
  <2> QED
    BY <1>1, <2>3, <2>4, WorkersAlone
<1>9. InOrder'
  <2>1. SUFFICES ASSUME ~ gErr', handler # "error"
                 PROVE  /\ \A w \in Workers : Orderly(w)'
                        /\ ~ done
                        /\ sendClosed' => producer' = "done"
                        /\ producer' \in {"close", "closeSend", "done"} => row' > Rows
                        /\ \/ \A k \in 1 .. row' - 1 : Accounted(k)'
                           \/ \E w \in Workers : Trouble(w)'
    BY <1>1 DEF InOrder
  <2>2. Going /\ ~ gErr
    BY <1>3, <2>1
  <2>3. /\ \A w \in Workers : Orderly(w)
        /\ done => \A w \in Workers : worker[w] = "done"
        /\ ~ sendClosed
        /\ producer \in {"close", "closeSend"} => row > Rows
        /\ \/ \A k \in 1 .. row - 1 : Accounted(k)
           \/ \E w \in Workers : Trouble(w)
    BY <1>1, <2>1, <2>2 DEF LoaderInv, InOrder
  <2>4. ~ done
    BY <2>3, AllStored
  <2>5. \A w \in Workers : sender[w] # "done"
    BY <2>3 DEF Orderly
  <2>6. \A w \in Workers : Orderly(w)'
    BY <1>1, <2>3, <2>5 DEF Orderly, Pending, workers
  <2>7. ~ ProducerSendsErr
    BY <2>1, <2>2 DEF ProducerSendsErr, SendErr, Going
  <2>8. sendClosed' => producer' = "done"
    BY <2>3, <2>7 DEF Producer, ProducerStep, FindFile, ReadRow, EndOfFile, PushRow, PushCancelled,
       CloseFile, CloseSend, channels, others
  <2>9. producer' \in {"close", "closeSend", "done"} => row' > Rows
    BY <2>3, <2>7 DEF Producer, ProducerStep, FindFile, ReadRow, EndOfFile, PushRow, PushCancelled,
       CloseFile, CloseSend
  <2>10. ASSUME NEW w \in Workers, Trouble(w)
         PROVE  Trouble(w)'
    BY <1>1, <2>10, WorkersAlone
  <2>11. ASSUME \A k \in 1 .. row - 1 : Accounted(k), NEW k \in 1 .. row' - 1
         PROVE  Accounted(k)'
    <3>1. \A w \in Workers : Pending(w)' = Pending(w)
      BY <1>1, WorkersAlone
    <3>2. CASE PushRow
      <4>1. send' = Append(send, row) /\ row' = row + 1 /\ send \in Seq(1 .. Rows) /\ row \in 1 .. Rows
        BY <1>2, <3>2 DEF PushRow, LoaderInv, LoaderType, PipelineType
      <4>2. Range(Append(send, row)) = Range(send) \cup {row}
        <5>1. ASSUME NEW S, send \in Seq(S), row \in S
              PROVE  Range(Append(send, row)) = Range(send) \cup {row}
          BY <5>1, RangeOfAppend
        <5>2. PICK S : S = 1 .. Rows
          OBVIOUS
        <5>3. send \in Seq(S) /\ row \in S
          BY <4>1, <5>2
        <5> QED
          BY <5>1, <5>3
      <4>3. k = row \/ k \in 1 .. row - 1
        BY <2>11, <4>1
      <4> QED
        BY <1>1, <2>11, <3>1, <4>1, <4>2, <4>3 DEF Accounted, workers
    <3>3. CASE ~ PushRow
      <4>1. UNCHANGED <<send, row>>
        BY <2>7, <3>3 DEF Producer, ProducerStep, FindFile, ReadRow, EndOfFile, PushCancelled,
           CloseFile, CloseSend, channels
      <4>2. Accounted(k)
        BY <2>11, <4>1
      <4> QED
        BY <1>1, <3>1, <4>1, <4>2 DEF Accounted, workers
    <3> QED
      BY <3>2, <3>3
  <2> QED
    BY <2>3, <2>4, <2>6, <2>8, <2>9, <2>10, <2>11
<1> QED
  BY <1>6, <1>7, <1>8, <1>9 DEF LoaderInv

-----------------------------------------------------------------------------
LEMMA LoaderInvariant == Spec => []LoaderInv
<1>1. LoaderInv /\ [Next]_vars => LoaderInv'
  <2> SUFFICES ASSUME LoaderInv, [Next]_vars PROVE LoaderInv'
    OBVIOUS
  <2>1. CASE UNCHANGED vars
    <3>1. UNCHANGED <<send, sendClosed, errsClosed, gErr, exitImmediately, done, panicked, workers,
                      applied, faults, handler, producer, row>>
      BY <2>1 DEF vars, channels, loader
    <3>2. LoaderType'
      <4>1. PipelineType(1 .. Rows)'
        BY <3>1 DEF LoaderInv, LoaderType, PipelineType, workers
      <4> QED
        BY <3>1, <4>1 DEF LoaderInv, LoaderType
    <3>3. InOrder'
      BY <3>1 DEF LoaderInv, InOrder, Orderly, Accounted, Trouble, Pending, workers
    <3>4. ChannelsOK' /\ NotStarted'
      BY <3>1 DEF LoaderInv, ChannelsOK, NotStarted, InitPipeline, workers
    <3>5. NoFailure' /\ InReply'
      BY <3>1, WorkersAlone DEF LoaderInv, NoFailure
    <3> QED
      BY <3>2, <3>3, <3>4, <3>5 DEF LoaderInv
  <2> QED
    BY <2>1, NextSteps, HandlerKeepsInv, ProducerKeepsInv, WaitersKeepInv, WorkersKeepInv
<1> QED
  BY <1>1, LoaderStarts, PTL DEF Spec

\* Every command's Result channel gets the reply to that command (RepliesMatch),
\* for the goroutines of any number of workers in any order.
THEOREM RepliesAlwaysMatch == Spec => []RepliesMatch
<1>1. LoaderInv => RepliesMatch
  BY DEF LoaderInv, InReply, Answered, RepliesMatch
<1> QED
  BY <1>1, LoaderInvariant, PTL

\* The sender's flush when recv is full is enough: it never waits for room in
\* recv while the receiver waits for a reply to a command in the buffer.
THEOREM SenderNeverBlocksReceiver == Spec => []NoFlushDeadlock
<1>1. ASSUME LoaderInv PROVE NoFlushDeadlock
  <2>1. SUFFICES ASSUME NEW w \in Workers, sender[w] = "push", Len(recv[w]) = FlushAfter,
                        receiver[w] = "receive", conn[w] = "up"
                 PROVE  inflight[w] # << >>
    BY DEF NoFlushDeadlock
  <2>2. Answered(w) /\ Flushed(w) /\ inflight[w] \in Seq(1 .. Rows)
    BY <1>1 DEF LoaderInv, LoaderType, PipelineType, InReply
  <2>3. unflushed[w] = << >> /\ Pending(w) # << >>
    BY <2>1, <2>2 DEF Flushed, Answered, Matched
  <2> QED
    BY <2>2, <2>3, EmptySeq, ConcatEmptySeq DEF Pending
<1> QED
  BY <1>1, LoaderInvariant, PTL

\* A goroutine sends on a closed channel only after a failure of the network, of
\* the file or of Redis.
THEOREM NeverPanicsUnlessFailure == Spec => []NoPanicUnlessFailure
<1>1. LoaderInv => NoPanicUnlessFailure
  <2> SUFFICES ASSUME LoaderInv, panicked, ~ faults > 0 PROVE FALSE
    BY DEF NoPanicUnlessFailure
  <2>1. faults = 0
    BY DEF LoaderInv, LoaderType, PipelineType
  <2> QED
    BY <2>1 DEF LoaderInv, NoFailure
<1> QED
  BY <1>1, LoaderInvariant, PTL

\* Handler returns nil only when every row of the file is in the database.
THEOREM SuccessAlwaysStored == Spec => []SuccessMeansStored
<1>1. ASSUME LoaderInv PROVE SuccessMeansStored
  <2>1. SUFFICES ASSUME handler = "ok" PROVE applied = 1 .. Rows
    BY DEF SuccessMeansStored
  <2>2. done /\ ~ gErr /\ handler # "error"
    BY <1>1, <2>1 DEF LoaderInv, ChannelsOK
  <2>3. \A w \in Workers : Orderly(w) /\ worker[w] = "done"
    BY <1>1, <2>2 DEF LoaderInv, InOrder
  <2>4. /\ \A w \in Workers : ~ Trouble(w)
        /\ sendClosed
        /\ \A k : Accounted(k) => k \in applied
    BY <2>3, AllStored
  <2>5. row > Rows /\ \A k \in 1 .. row - 1 : Accounted(k)
    BY <1>1, <2>2, <2>4 DEF LoaderInv, InOrder
  <2>6. row \in 1 .. Rows + 1 /\ Rows \in Nat /\ applied \subseteq 1 .. Rows
    BY <1>1, RowsAssumption DEF LoaderInv, LoaderType, PipelineType
  <2>7. row - 1 = Rows
    BY <2>5, <2>6
  <2> QED
    BY <2>4, <2>5, <2>6, <2>7
<1> QED
  BY <1>1, LoaderInvariant, PTL
=============================================================================
