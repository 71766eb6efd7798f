---------------------------- MODULE PipelineProofs ----------------------------
(***************************************************************************)
(* Lemmas about the steps of RedisPipeline, for any number of workers, any *)
(* capacity of the channels and any commands, without a bound on failures. *)
(* The loaders that use the pipeline have the theorems, see                *)
(* NaptanLoaderProofs.                                                     *)
(***************************************************************************)
EXTENDS RedisPipeline, SequenceTheorems, TLAPS

\* A step of one of w's goroutines, or of its connection.
PipelineStep(w) ==
    SenderStep(w) \/ FlusherStep(w) \/ ReceiverStep(w) \/ WorkerStep(w) \/ ConnBreaks(w)

-----------------------------------------------------------------------------
(* Sequences *)

LEMMA TailOfConcat ==
    ASSUME NEW S, NEW s \in Seq(S), NEW t \in Seq(S), s # << >>
    PROVE  /\ s \o t # << >>
           /\ Tail(s \o t) = Tail(s) \o t
<1>1. s \o t \in Seq(S) /\ Tail(s) \in Seq(S) /\ Len(s) \in Nat \ {0} /\ Len(t) \in Nat
  BY EmptySeq
<1>2. Len(s \o t) = Len(s) + Len(t) /\ s \o t # << >>
  BY <1>1, ConcatProperties, EmptySeq
<1>3. Tail(s \o t) \in Seq(S) /\ Tail(s) \o t \in Seq(S)
  BY <1>1, <1>2, HeadTailProperties, ConcatProperties
<1>4. Len(Tail(s \o t)) = Len(Tail(s) \o t)
  BY <1>1, <1>2, HeadTailProperties, ConcatProperties
<1>5. ASSUME NEW i \in 1 .. Len(Tail(s \o t))
      PROVE  Tail(s \o t)[i] = (Tail(s) \o t)[i]
  BY <1>1, <1>2, HeadTailProperties, ConcatProperties
<1> QED
  BY <1>2, <1>3, <1>4, <1>5, SeqEqual

LEMMA RangeOfTail ==
    ASSUME NEW S, NEW s \in Seq(S), s # << >>
    PROVE  Range(s) = {Head(s)} \cup Range(Tail(s))
<1>1. Len(s) \in Nat \ {0} /\ Len(Tail(s)) = Len(s) - 1 /\ Head(s) = s[1] /\ Tail(s) \in Seq(S)
  BY EmptySeq, HeadTailProperties
<1>2. Range(s) = {s[i] : i \in 1 .. Len(s)} /\ Range(Tail(s)) = {Tail(s)[i] : i \in 1 .. Len(s) - 1}
  BY <1>1, RangeEquality
<1>3. \A i \in 1 .. Len(s) - 1 : Tail(s)[i] = s[i + 1]
  BY <1>1, HeadTailProperties
<1>4. \A i \in 1 .. Len(s) : i = 1 \/ (i - 1 \in 1 .. Len(s) - 1 /\ s[i] = Tail(s)[i - 1])
  BY <1>1, <1>3
<1>5. \A i \in 1 .. Len(s) - 1 : i + 1 \in 1 .. Len(s)
  BY <1>1
<1>6. ASSUME NEW x PROVE x \in Range(s) <=> x \in {Head(s)} \cup Range(Tail(s))
  <2>1. x \in Range(s) <=> \E i \in 1 .. Len(s) : x = s[i]
    BY <1>2
  <2>2. x \in Range(Tail(s)) <=> \E i \in 1 .. Len(s) - 1 : x = Tail(s)[i]
    BY <1>2
  <2>3. ASSUME x \in Range(s) PROVE x \in {Head(s)} \cup Range(Tail(s))
    BY <1>1, <1>4, <2>1, <2>2, <2>3
  <2>4. ASSUME x \in Range(Tail(s)) PROVE x \in Range(s)
    BY <1>1, <1>3, <1>5, <2>1, <2>2, <2>4
  <2>5. Head(s) \in Range(s)
    BY <1>1, <1>2
  <2> QED
    BY <2>3, <2>4, <2>5
<1> QED
  BY <1>6

LEMMA RangeOfAppend ==
    ASSUME NEW S, NEW s \in Seq(S), NEW e \in S
    PROVE  Range(Append(s, e)) = Range(s) \cup {e}
<1>1. Append(s, e) = s \o <<e>> /\ <<e>> \in Seq(S)
  BY AppendIsConcat
<1>2. Range(<<e>>) = {e}
  BY DEF Range
<1>3. Range(s \o <<e>>) = Range(s) \cup Range(<<e>>)
  BY <1>1, RangeConcatenation
<1> QED
  BY <1>1, <1>2, <1>3

-----------------------------------------------------------------------------
(* What the steps of a worker keep *)

\* The variables of the pipeline, where C are the commands.
PipelineType(C) ==
    /\ send \in Seq(C) /\ applied \in SUBSET C /\ faults \in Nat
    /\ sendClosed \in BOOLEAN /\ errsClosed \in BOOLEAN /\ gErr \in BOOLEAN
    /\ exitImmediately \in BOOLEAN /\ done \in BOOLEAN /\ panicked \in BOOLEAN
    /\ worker \in [Workers -> {"wait", "err", "done"}]
    /\ sender \in [Workers -> {"range", "send", "check", "push", "err", "done"}]
    /\ DOMAIN cmd = Workers
    /\ \A w \in Workers : sender[w] \in {"send", "check", "push"} => cmd[w] \in C
    /\ flusher \in [Workers -> {"wait", "err", "close", "done"}]
    /\ receiver \in [Workers -> {"range", "receive", "result", "error", "err", "done"}]
    /\ recv \in [Workers -> Seq(C)]
    /\ recvClosed \in [Workers -> BOOLEAN]
    /\ conn \in [Workers -> {"up", "down", "closed"}]
    /\ unflushed \in [Workers -> Seq(C)]
    /\ inflight \in [Workers -> Seq(C)]

\* RepliesMatch of the loaders.
Answered(w) ==
    conn[w] = "up" /\ (exitImmediately => sender[w] \notin {"err", "done"}) => Matched(w)

\* A sender that waits for room in recv has flushed.
Flushed(w) ==
    /\ Len(recv[w]) <= FlushAfter
    /\ sender[w] = "push" /\ Len(recv[w]) = FlushAfter /\ conn[w] = "up" => unflushed[w] = << >>

\* The order in which the goroutines of a worker end, as long as no error was
\* received.
Orderly(w) ==
    /\ flusher[w] # "wait" => sender[w] = "done"
    /\ recvClosed[w] => flusher[w] = "done"
    /\ receiver[w] = "done" => recvClosed[w] /\ recv[w] = << >>
    /\ worker[w] # "wait" => receiver[w] = "done"
    /\ conn[w] = "closed" <=> worker[w] # "wait"
    /\ conn[w] # "up" => Pending(w) = << >>
    /\ sender[w] = "done" => sendClosed /\ send = << >>

\* The command k is on its way to Redis, or was executed.
Accounted(k) ==
    \/ k \in Range(send) \/ k \in applied
    \/ \E w \in Workers : (sender[w] = "send" /\ cmd[w] = k) \/ k \in Range(Pending(w))

\* An error of w is on its way to the caller.
Trouble(w) ==
    \/ sender[w] = "err" \/ flusher[w] = "err" \/ receiver[w] \in {"error", "err"}
    \/ worker[w] = "err"
    \/ /\ conn[w] = "down"
       /\ receiver[w] = "receive" \/ recv[w] # << >> \/ sender[w] \in {"check", "push"}

Unharmed(w) ==
    /\ conn[w] # "down" /\ sender[w] # "err" /\ flusher[w] # "err"
    /\ receiver[w] \notin {"error", "err"} /\ worker[w] # "err"


LEMMA PipelineTypeStep ==
    ASSUME NEW C, PipelineType(C), NEW w \in Workers, PipelineStep(w)
    PROVE  PipelineType(C)'
<1>1. /\ recv[w] \in Seq(C) /\ inflight[w] \in Seq(C) /\ unflushed[w] \in Seq(C)
      /\ inflight[w] \o unflushed[w] \in Seq(C)
      /\ Range(inflight[w] \o unflushed[w]) \in SUBSET C
      /\ \A n \in 0 .. Len(inflight[w]) : Range(SubSeq(inflight[w], 1, n)) \in SUBSET C
  <2>1. recv[w] \in Seq(C) /\ inflight[w] \in Seq(C) /\ unflushed[w] \in Seq(C)
    BY DEF PipelineType
  <2>2. inflight[w] \o unflushed[w] \in Seq(C)
    BY <2>1, ConcatProperties
  <2>3. ASSUME NEW n \in 0 .. Len(inflight[w])
        PROVE  Range(SubSeq(inflight[w], 1, n)) \in SUBSET C
    <3>1. SubSeq(inflight[w], 1, n) \in Seq(C)
      BY <2>1
    <3> QED
      BY <3>1, RangeOfSeq
  <2> QED
    BY <2>1, <2>2, <2>3, RangeOfSeq
<1>2. ASSUME Fault PROVE faults' \in Nat
  BY <1>2 DEF Fault, PipelineType
<1>3. ASSUME SendErr \/ Panic \/ Quietly PROVE panicked' \in BOOLEAN /\ gErr' \in BOOLEAN
  BY <1>3 DEF SendErr, Panic, Quietly, PipelineType
<1>4. << >> \in Seq(C)
  BY EmptySeq
<1>22. ASSUME Flush(w) \/ FlushFails(w)
       PROVE  unflushed' \in [Workers -> Seq(C)] /\ inflight' \in [Workers -> Seq(C)]
  <2>1. CASE Flush(w)
    <3>1. /\ inflight' = [inflight EXCEPT ![w] = inflight[w] \o unflushed[w]]
          /\ unflushed' = [unflushed EXCEPT ![w] = << >>]
      BY <2>1 DEF Flush
    <3> QED
      BY <1>1, <1>4, <3>1 DEF PipelineType
  <2> QED
    BY <1>22, <2>1 DEF FlushFails, PipelineType
<1>5. CASE SenderTakes(w)
  <2>1. Head(send) \in C /\ Tail(send) \in Seq(C)
    BY <1>5, HeadTailProperties DEF SenderTakes, PipelineType
  <2> QED
    BY <1>5, <2>1 DEF SenderTakes, PipelineType, others
<1>6. CASE SenderEnds(w) \/ SenderCancelled(w)
  BY <1>6 DEF SenderEnds, SenderCancelled, PipelineType, channels
<1>7. CASE SenderSends(w)
  <2>1. Append(unflushed[w], cmd[w]) \in Seq(C)
    BY <1>1, <1>7 DEF SenderSends, PipelineType
  <2>2. CASE conn[w] = "up"
    <3>1. /\ unflushed' = [unflushed EXCEPT ![w] = Append(@, cmd[w])]
          /\ sender' = [sender EXCEPT ![w] = "check"]
      BY <1>7, <2>2 DEF SenderSends
    <3> QED
      BY <1>7, <2>1, <3>1 DEF SenderSends, PipelineType, channels
  <2>3. CASE conn[w] # "up"
    <3>1. /\ unflushed' = unflushed
          /\ \E next \in {"check", "err"} : sender' = [sender EXCEPT ![w] = next]
      BY <1>7, <2>3 DEF SenderSends
    <3> QED
      BY <1>7, <3>1 DEF SenderSends, PipelineType, channels
  <2> QED
    BY <2>2, <2>3
<1>8. CASE SenderFlushes(w)
  <2>1. /\ unflushed' \in [Workers -> Seq(C)] /\ inflight' \in [Workers -> Seq(C)]
    BY <1>8, <1>22 DEF SenderFlushes, PipelineType
  <2>2. \E next \in {"push", "err"} : sender' = [sender EXCEPT ![w] = next]
    BY <1>8 DEF SenderFlushes
  <2> QED
    BY <1>8, <2>1, <2>2 DEF SenderFlushes, PipelineType, channels
<1>9. CASE SenderPushes(w)
  <2>1. Append(recv[w], cmd[w]) \in Seq(C)
    BY <1>1, <1>9 DEF SenderPushes, PipelineType
  <2>2. recv' \in [Workers -> Seq(C)]
    BY <1>9, <2>1 DEF SenderPushes, PipelineType
  <2>3. sender' = sender \/ sender' = [sender EXCEPT ![w] = "range"]
    BY <1>9 DEF SenderPushes
  <2>5. /\ sender' \in [Workers -> {"range", "send", "check", "push", "err", "done"}]
        /\ \A v \in Workers : sender'[v] \in {"send", "check", "push"} => cmd[v] \in C
    BY <2>3 DEF PipelineType
  <2>4. panicked' \in BOOLEAN /\ gErr' \in BOOLEAN
    BY <1>3, <1>9 DEF SenderPushes
  <2> QED
    BY <1>9, <2>2, <2>4, <2>5 DEF SenderPushes, PipelineType, others
<1>10. CASE SenderSendsErr(w)
  BY <1>3, <1>10 DEF SenderSendsErr, PipelineType, others
<1>11. CASE FlusherFlushes(w)
  <2>1. /\ unflushed' \in [Workers -> Seq(C)] /\ inflight' \in [Workers -> Seq(C)]
    BY <1>11, <1>22 DEF FlusherFlushes
  <2>2. \E next \in {"close", "err"} : flusher' = [flusher EXCEPT ![w] = next]
    BY <1>11 DEF FlusherFlushes
  <2> QED
    BY <1>11, <2>1, <2>2 DEF FlusherFlushes, PipelineType, channels
<1>19. CASE FlusherCancelled(w)
  BY <1>19 DEF FlusherCancelled, PipelineType, channels
<1>21. CASE FlusherCloses(w)
  <2>1. recvClosed' \in [Workers -> BOOLEAN]
    BY <1>21 DEF FlusherCloses, PipelineType
  <2> QED
    BY <1>21, <2>1 DEF FlusherCloses, PipelineType, channels
<1>20. CASE FlusherSendsErr(w)
  BY <1>3, <1>20 DEF FlusherSendsErr, PipelineType, others
<1>12. CASE ReceiverTakes(w)
  <2>1. Tail(recv[w]) \in Seq(C)
    BY <1>1, <1>12, HeadTailProperties DEF ReceiverTakes
  <2> QED
    BY <1>12, <2>1 DEF ReceiverTakes, PipelineType, channels
<1>13. CASE ReceiverEnds(w) \/ ReceiverPasses(w)
  BY <1>13 DEF ReceiverEnds, ReceiverPasses, PipelineType, channels
<1>14. CASE Receive(w)
  <2>1. inflight[w] # << >> => Tail(inflight[w]) \in Seq(C) /\ Head(inflight[w]) \in C
    BY <1>1, HeadTailProperties
  <2> QED
    BY <1>2, <1>14, <2>1 DEF Receive, PipelineType, channels
<1>15. CASE ReceiverSendsErr(w)
  BY <1>3, <1>15 DEF ReceiverSendsErr, PipelineType, others
<1>16. CASE WorkerCloses(w)
  BY <1>1, <1>4, <1>16 DEF WorkerCloses, PipelineType, channels
<1>17. CASE WorkerSendsErr(w)
  BY <1>3, <1>17 DEF WorkerSendsErr, PipelineType, others
<1>18. CASE ConnBreaks(w)
  BY <1>1, <1>2, <1>4, <1>18 DEF ConnBreaks, PipelineType, channels
<1> QED
  BY <1>5, <1>6, <1>7, <1>8, <1>9, <1>10, <1>11, <1>12, <1>13, <1>14, <1>15, <1>16, <1>17, <1>18,
     <1>19, <1>20, <1>21
  DEF PipelineStep, SenderStep, FlusherStep, ReceiverStep, WorkerStep

\* A step of w is not noticed by the other workers, except for the command that
\* it takes from send.
LEMMA PipelineFrame ==
    ASSUME NEW C, PipelineType(C), NEW w \in Workers, PipelineStep(w)
    PROVE  /\ UNCHANGED <<sendClosed, errsClosed, exitImmediately, done>>
           /\ \A v \in Workers \ {w} :
                /\ worker'[v] = worker[v] /\ sender'[v] = sender[v] /\ cmd'[v] = cmd[v]
                /\ flusher'[v] = flusher[v] /\ receiver'[v] = receiver[v]
                /\ recv'[v] = recv[v] /\ recvClosed'[v] = recvClosed[v]
                /\ conn'[v] = conn[v]
                /\ unflushed'[v] = unflushed[v] /\ inflight'[v] = inflight[v]
           /\ send' = send \/ (send # << >> /\ send' = Tail(send))
           /\ applied \subseteq applied' /\ faults' \in {faults, faults + 1}
           /\ (gErr => gErr') /\ (panicked => panicked')
<1> DEFINE Frame(x, y) == \A v \in Workers \ {w} : y[v] = x[v]
<1> DEFINE Others == /\ Frame(worker, worker') /\ Frame(sender, sender') /\ Frame(cmd, cmd')
                     /\ Frame(flusher, flusher') /\ Frame(receiver, receiver')
                     /\ Frame(recv, recv') /\ Frame(recvClosed, recvClosed')
                     /\ Frame(conn, conn')
                     /\ Frame(unflushed, unflushed') /\ Frame(inflight, inflight')
<1> DEFINE Alone == /\ UNCHANGED <<sendClosed, errsClosed, exitImmediately, done>>
                    /\ Others
                    /\ send' = send \/ (send # << >> /\ send' = Tail(send))
                    /\ applied \subseteq applied' /\ faults' \in {faults, faults + 1}
                    /\ (gErr => gErr') /\ (panicked => panicked')
<1> SUFFICES Alone
  OBVIOUS
<1>5. faults' \in {faults, faults + 1}
  BY DEF PipelineStep, SenderStep, SenderTakes, SenderEnds, SenderSends, SenderFlushes, SenderPushes,
     SenderCancelled, SenderSendsErr, FlusherStep, FlusherFlushes, FlusherCancelled, FlusherSendsErr,
     FlusherCloses, ReceiverStep, ReceiverTakes, ReceiverEnds, Receive, ReceiverPasses,
     ReceiverSendsErr, WorkerStep, WorkerCloses, WorkerSendsErr, ConnBreaks, Fault
<1>1. CASE SenderStep(w)
  <2>1. UNCHANGED <<sendClosed, errsClosed, exitImmediately, done>>
    BY <1>1 DEF SenderStep, SenderTakes, SenderEnds, SenderSends, SenderFlushes, SenderPushes,
       SenderCancelled, SenderSendsErr, channels, others
  <2>2. UNCHANGED <<worker, flusher, receiver, recvClosed, conn, applied>>
    BY <1>1 DEF SenderStep, SenderTakes, SenderEnds, SenderSends, SenderFlushes, SenderPushes,
       SenderCancelled, SenderSendsErr
  <2>3. Frame(sender, sender')
    BY <1>1 DEF SenderStep, SenderTakes, SenderEnds, SenderSends, SenderFlushes, SenderPushes,
       SenderCancelled, SenderSendsErr, PipelineType
  <2>4. Frame(cmd, cmd')
    BY <1>1 DEF SenderStep, SenderTakes, SenderEnds, SenderSends, SenderFlushes, SenderPushes,
       SenderCancelled, SenderSendsErr, PipelineType
  <2>5. Frame(recv, recv')
    BY <1>1 DEF SenderStep, SenderTakes, SenderEnds, SenderSends, SenderFlushes, SenderPushes,
       SenderCancelled, SenderSendsErr, PipelineType
  <2>6. Frame(unflushed, unflushed')
    BY <1>1 DEF SenderStep, SenderTakes, SenderEnds, SenderSends, SenderFlushes, SenderPushes,
       SenderCancelled, SenderSendsErr, Flush, FlushFails, PipelineType
  <2>7. Frame(inflight, inflight')
    BY <1>1 DEF SenderStep, SenderTakes, SenderEnds, SenderSends, SenderFlushes, SenderPushes,
       SenderCancelled, SenderSendsErr, Flush, FlushFails, PipelineType
  <2>8. send' = send \/ (send # << >> /\ send' = Tail(send))
    <3>1. CASE SenderTakes(w)
      BY <3>1 DEF SenderTakes
    <3>2. CASE ~ SenderTakes(w)
      BY <1>1, <3>2 DEF SenderStep, SenderEnds, SenderSends, SenderFlushes, SenderPushes,
         SenderCancelled, SenderSendsErr, channels
    <3> QED
      BY <3>1, <3>2
  <2>9. (gErr => gErr') /\ (panicked => panicked')
    BY <1>1 DEF SenderStep, SenderTakes, SenderEnds, SenderSends, SenderFlushes, SenderPushes,
       SenderCancelled, SenderSendsErr, SendErr, Panic, Quietly, channels
  <2>10. Others
    BY <2>2, <2>3, <2>4, <2>5, <2>6, <2>7
  <2> HIDE DEF Others
  <2> QED
    BY <1>5, <2>1, <2>2, <2>8, <2>9, <2>10
<1>2. CASE FlusherStep(w)
  <2>1. UNCHANGED <<send, sendClosed, errsClosed, exitImmediately, done>>
    BY <1>2 DEF FlusherStep, FlusherFlushes, FlusherCancelled, FlusherSendsErr, FlusherCloses,
       channels, others
  <2>2. UNCHANGED <<worker, sender, cmd, receiver, recv, conn, applied>>
    BY <1>2 DEF FlusherStep, FlusherFlushes, FlusherCancelled, FlusherSendsErr, FlusherCloses
  <2>3. Frame(flusher, flusher') /\ Frame(recvClosed, recvClosed')
    BY <1>2 DEF FlusherStep, FlusherFlushes, FlusherCancelled, FlusherSendsErr, FlusherCloses,
       PipelineType
  <2>4. Frame(unflushed, unflushed') /\ Frame(inflight, inflight')
    BY <1>2 DEF FlusherStep, FlusherFlushes, FlusherCancelled, FlusherSendsErr, FlusherCloses,
       Flush, FlushFails, PipelineType
  <2>5. (gErr => gErr') /\ (panicked => panicked')
    BY <1>2 DEF FlusherStep, FlusherFlushes, FlusherCancelled, FlusherSendsErr, FlusherCloses,
       SendErr, channels
  <2>6. Others
    BY <2>2, <2>3, <2>4
  <2> HIDE DEF Others
  <2> QED
    BY <1>5, <2>1, <2>2, <2>4, <2>5, <2>6
<1>3. CASE ReceiverStep(w)
  <2>1. UNCHANGED <<send, sendClosed, errsClosed, exitImmediately, done>>
    BY <1>3 DEF ReceiverStep, ReceiverTakes, ReceiverEnds, Receive, ReceiverPasses,
       ReceiverSendsErr, channels, others
  <2>2. UNCHANGED <<worker, sender, cmd, flusher, recvClosed, conn, unflushed>>
    BY <1>3 DEF ReceiverStep, ReceiverTakes, ReceiverEnds, Receive, ReceiverPasses,
       ReceiverSendsErr
  <2>3. Frame(receiver, receiver') /\ Frame(recv, recv')
    BY <1>3 DEF ReceiverStep, ReceiverTakes, ReceiverEnds, Receive, ReceiverPasses,
       ReceiverSendsErr, PipelineType
  <2>4. Frame(inflight, inflight') /\ applied \subseteq applied'
    BY <1>3 DEF ReceiverStep, ReceiverTakes, ReceiverEnds, Receive, ReceiverPasses,
       ReceiverSendsErr, PipelineType
  <2>5. (gErr => gErr') /\ (panicked => panicked')
    BY <1>3 DEF ReceiverStep, ReceiverTakes, ReceiverEnds, Receive, ReceiverPasses,
       ReceiverSendsErr, SendErr, channels
  <2>6. Others
    BY <2>2, <2>3, <2>4
  <2> HIDE DEF Others
  <2> QED
    BY <1>5, <2>1, <2>2, <2>4, <2>5, <2>6
<1>4. CASE WorkerStep(w) \/ ConnBreaks(w)
  <2>1. UNCHANGED <<send, sendClosed, errsClosed, exitImmediately, done>>
    BY <1>4 DEF WorkerStep, WorkerCloses, WorkerSendsErr, ConnBreaks, channels, others
  <2>2. UNCHANGED <<sender, cmd, flusher, receiver, recv, recvClosed>>
    BY <1>4 DEF WorkerStep, WorkerCloses, WorkerSendsErr, ConnBreaks
  <2>3. Frame(worker, worker') /\ Frame(conn, conn')
    BY <1>4 DEF WorkerStep, WorkerCloses, WorkerSendsErr, ConnBreaks, PipelineType
  <2>4. Frame(unflushed, unflushed') /\ Frame(inflight, inflight') /\ applied \subseteq applied'
    BY <1>4 DEF WorkerStep, WorkerCloses, WorkerSendsErr, ConnBreaks, PipelineType
  <2>5. (gErr => gErr') /\ (panicked => panicked')
    BY <1>4 DEF WorkerStep, WorkerCloses, WorkerSendsErr, ConnBreaks, SendErr, channels
  <2>6. Others
    BY <2>2, <2>3, <2>4
  <2> HIDE DEF Others
  <2> QED
    BY <1>5, <2>1, <2>2, <2>4, <2>5, <2>6
<1> QED
  BY <1>1, <1>2, <1>3, <1>4 DEF PipelineStep

-----------------------------------------------------------------------------
(* Replies *)

\* Both sides of Matched grow at the end by the same command, or shrink at the
\* front.
LEMMA AnsweredHere ==
    ASSUME NEW C, PipelineType(C), NEW w \in Workers, PipelineStep(w), Answered(w)
    PROVE  Answered(w)'
<1> DEFINE new == IF sender[w] \in {"check", "push"} THEN <<cmd[w]>> ELSE << >>
<1>1. /\ recv[w] \in Seq(C) /\ inflight[w] \in Seq(C) /\ unflushed[w] \in Seq(C)
      /\ new \in Seq(C) /\ << >> \in Seq(C)
      /\ sender[w] = "send" => cmd[w] \in C /\ <<cmd[w]>> \in Seq(C)
  BY EmptySeq DEF PipelineType
<1>2. Pending(w) \in Seq(C) /\ Expected(w) \in Seq(C)
  BY <1>1, ConcatProperties DEF Pending, Expected
<1>3. exitImmediately' = exitImmediately
  BY PipelineFrame
<1>4. SUFFICES ASSUME conn'[w] = "up", exitImmediately => sender'[w] \notin {"err", "done"}
               PROVE  Matched(w)'
  BY <1>3 DEF Answered
<1>5. ASSUME Flush(w) PROVE Pending(w)' = Pending(w)
  <2>1. inflight'[w] = inflight[w] \o unflushed[w] /\ unflushed'[w] = << >>
    BY <1>5 DEF Flush, PipelineType
  <2> QED
    BY <1>2, <2>1, ConcatEmptySeq DEF Pending
<1>6. CASE SenderTakes(w)
  <2>1. /\ Pending(w)' = Pending(w) /\ receiver' = receiver /\ recv' = recv /\ conn' = conn
        /\ sender[w] = "range" /\ sender'[w] = "send"
    BY <1>6 DEF SenderTakes, Pending, PipelineType
  <2> QED
    BY <1>4, <2>1 DEF Answered, Matched, Expected
<1>7. CASE SenderEnds(w)
  <2>1. /\ Pending(w)' = Pending(w) /\ receiver' = receiver /\ recv' = recv /\ conn' = conn
        /\ sender[w] = "range" /\ sender'[w] = "done"
    BY <1>7 DEF SenderEnds, Pending, PipelineType
  <2> QED
    BY <1>4, <2>1 DEF Answered, Matched, Expected
<1>8. CASE SenderSends(w)
  <2>1. conn[w] = "up" /\ receiver' = receiver /\ recv' = recv /\ sender[w] = "send"
    BY <1>4, <1>8 DEF SenderSends
  <2>2. /\ inflight' = inflight /\ unflushed'[w] = Append(unflushed[w], cmd[w])
        /\ sender'[w] = "check" /\ cmd' = cmd
    BY <1>8, <2>1 DEF SenderSends, PipelineType
  <2>3. unflushed'[w] = unflushed[w] \o <<cmd[w]>>
    BY <1>1, <2>1, <2>2, AppendIsConcat
  <2>4. Pending(w)' = Pending(w) \o <<cmd[w]>>
    <3>1. Pending(w)' = inflight[w] \o (unflushed[w] \o <<cmd[w]>>)
      BY <2>2, <2>3 DEF Pending
    <3>2. (inflight[w] \o unflushed[w]) \o <<cmd[w]>> = inflight[w] \o (unflushed[w] \o <<cmd[w]>>)
      <4>1. <<cmd[w]>> \in Seq(C)
        BY <1>1, <2>1
      <4>2. \A x, y, z \in Seq(C) : (x \o y) \o z = x \o (y \o z)
        BY ConcatAssociative
      <4> QED
        BY <1>1, <4>1, <4>2, Zenon
    <3> QED
      BY <3>1, <3>2 DEF Pending
  <2>5. Expected(w) = recv[w] /\ Expected(w)' = recv[w] \o <<cmd[w]>>
    BY <1>1, <2>1, <2>2, ConcatEmptySeq DEF Expected
  <2>6. Matched(w)
    BY <2>1 DEF Answered
  <2>7. Pending(w) # << >> =>
           /\ Pending(w) \o <<cmd[w]>> # << >>
           /\ Tail(Pending(w) \o <<cmd[w]>>) = Tail(Pending(w)) \o <<cmd[w]>>
    BY <1>1, <1>2, <2>1, TailOfConcat
  <2> QED
    BY <2>1, <2>4, <2>5, <2>6, <2>7 DEF Matched
<1>9. CASE SenderFlushes(w)
  <2>1. /\ conn' = conn /\ receiver' = receiver /\ recv' = recv /\ cmd' = cmd
        /\ sender[w] = "check"
    BY <1>9 DEF SenderFlushes
  <2>2. sender'[w] = "push"
    BY <1>4, <1>9, <2>1 DEF SenderFlushes, FlushFails, PipelineType
  <2>3. Pending(w)' = Pending(w)
    <3>1. CASE UNCHANGED <<unflushed, inflight>>
      BY <3>1 DEF Pending
    <3> QED
      BY <1>5, <1>9, <3>1 DEF SenderFlushes, FlushFails
  <2> QED
    BY <1>4, <2>1, <2>2, <2>3 DEF Answered, Matched, Expected
<1>10. CASE SenderPushes(w)
  <2>1. /\ conn' = conn /\ receiver' = receiver /\ cmd' = cmd /\ sender[w] = "push"
        /\ Pending(w)' = Pending(w)
    BY <1>10 DEF SenderPushes, Pending
  <2>2. Expected(w)' = Expected(w)
    <3>1. CASE UNCHANGED <<sender, recv>>
      BY <2>1, <3>1 DEF Expected
    <3>2. CASE recv' = [recv EXCEPT ![w] = Append(@, cmd[w])] /\ sender' = [sender EXCEPT ![w] = "range"]
      <4>1. recv'[w] = Append(recv[w], cmd[w]) /\ sender'[w] = "range"
        BY <3>2 DEF PipelineType
      <4>2. cmd[w] \in C
        BY <2>1 DEF PipelineType
      <4>3. Append(recv[w], cmd[w]) = recv[w] \o <<cmd[w]>>
        BY <1>1, <4>2, AppendIsConcat
      <4>4. Append(recv[w], cmd[w]) \in Seq(C)
        BY <1>1, <4>2
      <4> QED
        BY <2>1, <4>1, <4>3, <4>4, ConcatEmptySeq DEF Expected
    <3> QED
      BY <1>10, <3>1, <3>2 DEF SenderPushes
  <2> QED
    BY <1>4, <2>1, <2>2 DEF Answered, Matched
<1>11. CASE SenderCancelled(w)
  BY <1>4, <1>11 DEF SenderCancelled, PipelineType
<1>12. CASE SenderSendsErr(w)
  <2>1. /\ conn' = conn /\ receiver' = receiver /\ recv' = recv /\ sender[w] = "err"
        /\ Pending(w)' = Pending(w) /\ sender'[w] = "done"
    BY <1>12 DEF SenderSendsErr, Pending, PipelineType
  <2> QED
    BY <1>4, <2>1 DEF Answered, Matched, Expected
<1>13. CASE FlusherStep(w)
  <2>1. /\ conn' = conn /\ receiver' = receiver /\ recv' = recv /\ cmd' = cmd /\ sender' = sender
    BY <1>13 DEF FlusherStep, FlusherFlushes, FlusherCancelled, FlusherSendsErr, FlusherCloses
  <2>2. Pending(w)' = Pending(w)
    <3>1. CASE UNCHANGED <<unflushed, inflight>>
      BY <3>1 DEF Pending
    <3> QED
      BY <1>5, <1>13, <3>1 DEF FlusherStep, FlusherFlushes, FlusherCancelled, FlusherSendsErr,
         FlusherCloses, FlushFails
  <2> QED
    BY <1>4, <2>1, <2>2 DEF Answered, Matched, Expected
<1>14. CASE ReceiverTakes(w)
  <2>1. /\ conn' = conn /\ sender' = sender /\ cmd' = cmd /\ Pending(w)' = Pending(w)
        /\ receiver[w] = "range" /\ receiver'[w] = "receive"
        /\ recv[w] # << >> /\ recv'[w] = Tail(recv[w])
    BY <1>14 DEF ReceiverTakes, Pending, PipelineType
  <2>2. Expected(w) = recv[w] \o new /\ Expected(w)' = Tail(recv[w]) \o new
    BY <2>1 DEF Expected
  <2>3. Expected(w) # << >> /\ Tail(Expected(w)) = Expected(w)'
    BY <1>1, <2>1, <2>2, TailOfConcat
  <2> QED
    BY <1>4, <2>1, <2>3 DEF Answered, Matched
<1>15. CASE ReceiverEnds(w) \/ ReceiverPasses(w)
  <2>1. /\ conn' = conn /\ sender' = sender /\ Pending(w)' = Pending(w) /\ Expected(w)' = Expected(w)
        /\ receiver[w] # "receive" /\ receiver'[w] # "receive"
    BY <1>15 DEF ReceiverEnds, ReceiverPasses, Pending, Expected, PipelineType
  <2> QED
    BY <1>4, <2>1 DEF Answered, Matched
<1>16. CASE Receive(w)
  <2>1. /\ conn' = conn /\ sender' = sender /\ Expected(w)' = Expected(w)
        /\ receiver[w] = "receive" /\ conn[w] = "up"
    BY <1>4, <1>16 DEF Receive, Expected
  <2>2. /\ receiver'[w] # "receive" /\ inflight[w] # << >>
        /\ inflight'[w] = Tail(inflight[w]) /\ unflushed' = unflushed
    BY <1>16, <2>1 DEF Receive, PipelineType
  <2>3. Pending(w)' = Tail(Pending(w))
    BY <1>1, <2>2, TailOfConcat DEF Pending
  <2> QED
    BY <1>4, <2>1, <2>2, <2>3 DEF Answered, Matched
<1>17. CASE ReceiverSendsErr(w) \/ WorkerSendsErr(w)
  <2>1. /\ conn' = conn /\ sender' = sender /\ Pending(w)' = Pending(w) /\ Expected(w)' = Expected(w)
    BY <1>17 DEF ReceiverSendsErr, WorkerSendsErr, Pending, Expected
  <2>2. (receiver[w] # "receive" /\ receiver'[w] # "receive") \/ receiver' = receiver
    BY <1>17 DEF ReceiverSendsErr, WorkerSendsErr, PipelineType
  <2> QED
    BY <1>4, <2>1, <2>2 DEF Answered, Matched
<1>18. CASE WorkerCloses(w) \/ ConnBreaks(w)
  BY <1>4, <1>18 DEF WorkerCloses, ConnBreaks, PipelineType
<1> QED
  BY <1>6, <1>7, <1>8, <1>9, <1>10, <1>11, <1>12, <1>13, <1>14, <1>15, <1>16, <1>17, <1>18
  DEF PipelineStep, SenderStep, ReceiverStep, WorkerStep

LEMMA FlushedHere ==
    ASSUME NEW C, PipelineType(C), NEW w \in Workers, PipelineStep(w), Flushed(w)
    PROVE  Flushed(w)'
<1>1. recv[w] \in Seq(C) /\ FlushAfter \in Nat \ {0}
  BY PipelineAssumption DEF PipelineType
<1>2. CASE SenderTakes(w) \/ SenderEnds(w) \/ SenderCancelled(w) \/ SenderSendsErr(w)
  <2>1. recv' = recv /\ sender'[w] # "push"
    BY <1>2 DEF SenderTakes, SenderEnds, SenderCancelled, SenderSendsErr, PipelineType
  <2> QED
    BY <2>1 DEF Flushed
<1>3. CASE SenderSends(w)
  <2>1. recv' = recv /\ sender'[w] # "push"
    BY <1>3 DEF SenderSends, PipelineType
  <2> QED
    BY <2>1 DEF Flushed
<1>4. CASE SenderFlushes(w)
  <2>1. recv' = recv
    BY <1>4 DEF SenderFlushes
  <2>2. Len(recv[w]) = FlushAfter => sender'[w] # "push" \/ unflushed'[w] = << >>
    BY <1>1, <1>4 DEF SenderFlushes, Flush, PipelineType
  <2> QED
    BY <2>1, <2>2 DEF Flushed
<1>5. CASE SenderPushes(w)
  <2>1. CASE UNCHANGED <<sender, recv>>
    BY <1>5, <2>1 DEF SenderPushes, Flushed
  <2>2. CASE ~ UNCHANGED <<sender, recv>>
    <3>1. recv'[w] = Append(recv[w], cmd[w]) /\ sender'[w] = "range" /\ Len(recv[w]) < FlushAfter
      BY <1>5, <2>2 DEF SenderPushes, PipelineType
    <3>2. cmd[w] \in C
      BY <1>5 DEF SenderPushes, PipelineType
    <3>3. Len(recv'[w]) = Len(recv[w]) + 1 /\ Len(recv[w]) \in Nat
      BY <1>1, <3>1, <3>2
    <3> QED
      BY <1>1, <3>1, <3>3 DEF Flushed
  <2> QED
    BY <2>1, <2>2
<1>6. CASE FlusherStep(w)
  <2>1. recv' = recv /\ sender' = sender /\ conn' = conn
    BY <1>6 DEF FlusherStep, FlusherFlushes, FlusherCancelled, FlusherSendsErr, FlusherCloses
  <2>2. unflushed'[w] = unflushed[w] \/ unflushed'[w] = << >>
    BY <1>6 DEF FlusherStep, FlusherFlushes, FlusherCancelled, FlusherSendsErr, FlusherCloses,
       Flush, FlushFails, PipelineType
  <2> QED
    BY <2>1, <2>2 DEF Flushed
<1>7. CASE ReceiverTakes(w)
  <2>1. recv[w] # << >> /\ recv'[w] = Tail(recv[w])
    BY <1>7 DEF ReceiverTakes, PipelineType
  <2>2. Len(recv'[w]) = Len(recv[w]) - 1 /\ Len(recv[w]) \in Nat
    BY <1>1, <2>1, HeadTailProperties
  <2> QED
    BY <1>1, <2>2 DEF Flushed
<1>8. CASE ReceiverEnds(w) \/ Receive(w) \/ ReceiverPasses(w) \/ ReceiverSendsErr(w) \/ WorkerSendsErr(w)
  <2>1. recv' = recv /\ sender' = sender /\ conn' = conn /\ unflushed' = unflushed
    BY <1>8 DEF ReceiverEnds, Receive, ReceiverPasses, ReceiverSendsErr, WorkerSendsErr
  <2> QED
    BY <2>1 DEF Flushed
<1>9. CASE WorkerCloses(w) \/ ConnBreaks(w)
  <2>1. recv' = recv /\ unflushed'[w] = << >>
    BY <1>9 DEF WorkerCloses, ConnBreaks, PipelineType
  <2> QED
    BY <2>1 DEF Flushed
<1> QED
  BY <1>2, <1>3, <1>4, <1>5, <1>6, <1>7, <1>8, <1>9
  DEF PipelineStep, SenderStep, ReceiverStep, WorkerStep

\* The same for the other workers.
LEMMA RepliesStep ==
    ASSUME NEW C, PipelineType(C), NEW w \in Workers, PipelineStep(w),
           \A v \in Workers : Answered(v) /\ Flushed(v)
    PROVE  \A v \in Workers : Answered(v)' /\ Flushed(v)'
<1>1. ASSUME NEW v \in Workers \ {w}
      PROVE  Answered(v)' /\ Flushed(v)'
  <2>1. /\ exitImmediately' = exitImmediately
        /\ sender'[v] = sender[v] /\ cmd'[v] = cmd[v] /\ receiver'[v] = receiver[v]
        /\ recv'[v] = recv[v] /\ conn'[v] = conn[v]
        /\ unflushed'[v] = unflushed[v] /\ inflight'[v] = inflight[v]
    BY PipelineFrame
  <2>2. Matched(v)' <=> Matched(v)
    BY <2>1 DEF Matched, Pending, Expected
  <2> QED
    BY <2>1, <2>2 DEF Answered, Flushed
<1> QED
  BY <1>1, AnsweredHere, FlushedHere

-----------------------------------------------------------------------------
(* The end of the goroutines *)

\* Goroutines may still send errors, and none was told to stop.
Going == ~ errsClosed /\ ~ exitImmediately

LEMMA NothingAfterTheEnd ==
    ASSUME NEW C, PipelineType(C), NEW w \in Workers, Orderly(w), worker[w] = "done"
    PROVE  ~ PipelineStep(w)
<1>1. /\ conn[w] = "closed" /\ receiver[w] = "done" /\ flusher[w] = "done" /\ sender[w] = "done"
      /\ recvClosed[w]
  BY DEF Orderly, PipelineType
<1>2. ~ SenderStep(w)
  BY <1>1 DEF SenderStep, SenderTakes, SenderEnds, SenderSends, SenderFlushes, SenderPushes,
     SenderCancelled, SenderSendsErr
<1>3. ~ FlusherStep(w)
  BY <1>1 DEF FlusherStep, FlusherFlushes, FlusherCancelled, FlusherSendsErr, FlusherCloses
<1>4. ~ ReceiverStep(w)
  BY <1>1 DEF ReceiverStep, ReceiverTakes, ReceiverEnds, Receive, ReceiverPasses, ReceiverSendsErr
<1>5. ~ WorkerStep(w) /\ ~ ConnBreaks(w)
  BY <1>1 DEF WorkerStep, WorkerCloses, WorkerSendsErr, ConnBreaks
<1> QED
  BY <1>2, <1>3, <1>4, <1>5 DEF PipelineStep

\* Until an error is received, or as long as nothing has happened to the worker,
\* none of its goroutines is cancelled and none sends an error.
LEMMA NoErrorSent ==
    ASSUME NEW w \in Workers, Going, ~ gErr' \/ Unharmed(w)
    PROVE  /\ ~ SenderCancelled(w) /\ ~ SenderSendsErr(w)
           /\ ~ FlusherCancelled(w) /\ ~ FlusherSendsErr(w)
           /\ ~ ReceiverSendsErr(w) /\ ~ WorkerSendsErr(w)
<1>1. ~ SendErr \/ Unharmed(w)
  BY DEF SendErr, Going
<1> QED
  BY <1>1 DEF Going, SenderCancelled, SenderSendsErr, FlusherCancelled, FlusherSendsErr,
     ReceiverSendsErr, WorkerSendsErr, Unharmed

LEMMA OrderlyHere ==
    ASSUME NEW C, PipelineType(C), NEW w \in Workers, PipelineStep(w), Going,
           ~ gErr' \/ Unharmed(w), Orderly(w)
    PROVE  Orderly(w)'
<1>1. sendClosed' = sendClosed
  BY PipelineFrame
<1>2. ASSUME Flush(w), conn[w] # "up" PROVE Pending(w)' = << >>
  <2>1. Pending(w) = << >> /\ inflight'[w] = inflight[w] \o unflushed[w] /\ unflushed'[w] = << >>
    BY <1>2 DEF Flush, PipelineType, Orderly
  <2> QED
    BY <2>1, EmptySeq, ConcatEmptySeq DEF Pending
<1>3. ASSUME UNCHANGED <<inflight, unflushed>> PROVE Pending(w)' = Pending(w)
  BY <1>3 DEF Pending
<1>4. ASSUME inflight'[w] = << >>, unflushed'[w] = << >> PROVE Pending(w)' = << >>
  BY <1>4, EmptySeq, ConcatEmptySeq DEF Pending
<1>5. CASE SenderTakes(w)
  <2>1. sender[w] = "range" /\ sender'[w] = "send"
    BY <1>5 DEF SenderTakes, PipelineType
  <2>2. Pending(w)' = Pending(w)
    BY <1>3, <1>5 DEF SenderTakes
  <2> QED
    BY <1>1, <1>5, <2>1, <2>2 DEF SenderTakes, Orderly
<1>6. CASE SenderEnds(w)
  <2>1. sender[w] = "range" /\ sender'[w] = "done" /\ send' = send /\ send = << >> /\ sendClosed
    BY <1>6 DEF SenderEnds, PipelineType, channels
  <2>2. Pending(w)' = Pending(w)
    BY <1>3, <1>6 DEF SenderEnds
  <2> QED
    BY <1>1, <1>6, <2>1, <2>2 DEF SenderEnds, Orderly
<1>7. CASE SenderSends(w)
  <2>1. sender[w] = "send" /\ sender'[w] \in {"check", "err"}
    BY <1>7 DEF SenderSends, PipelineType
  <2>2. conn[w] # "up" => Pending(w)' = Pending(w)
    BY <1>3, <1>7 DEF SenderSends
  <2> QED
    BY <1>1, <1>7, <2>1, <2>2 DEF SenderSends, Orderly
<1>8. CASE SenderFlushes(w)
  <2>1. sender[w] = "check" /\ sender'[w] \in {"push", "err"}
    BY <1>8 DEF SenderFlushes, PipelineType
  <2>2. conn[w] # "up" => Pending(w)' = << >>
    BY <1>2, <1>3, <1>8 DEF SenderFlushes, FlushFails, Orderly
  <2> QED
    BY <1>1, <1>8, <2>1, <2>2 DEF SenderFlushes, Orderly
<1>9. CASE SenderPushes(w)
  <2>1. sender[w] = "push" /\ sender'[w] \in {"push", "range"}
    BY <1>9 DEF SenderPushes, PipelineType
  <2>2. ~ recvClosed[w]
    BY <2>1 DEF Orderly
  <2>3. receiver[w] # "done"
    BY <2>2 DEF Orderly
  <2>4. Pending(w)' = Pending(w)
    BY <1>3, <1>9 DEF SenderPushes
  <2> QED
    BY <1>1, <1>9, <2>1, <2>2, <2>3, <2>4 DEF SenderPushes, Orderly
<1>10. CASE FlusherFlushes(w)
  <2>1. sender[w] = "done" /\ flusher[w] = "wait" /\ flusher'[w] \in {"close", "err"} /\ send' = send
    BY <1>10 DEF FlusherFlushes, PipelineType, channels
  <2>2. conn[w] # "up" => Pending(w)' = << >>
    BY <1>2, <1>3, <1>10 DEF FlusherFlushes, FlushFails, Orderly
  <2> QED
    BY <1>1, <1>10, <2>1, <2>2 DEF FlusherFlushes, Orderly
<1>11. CASE FlusherCloses(w)
  <2>1. flusher[w] = "close" /\ flusher'[w] = "done" /\ recvClosed'[w] /\ send' = send
    BY <1>11 DEF FlusherCloses, PipelineType, channels
  <2>2. Pending(w)' = Pending(w)
    BY <1>3, <1>11 DEF FlusherCloses
  <2> QED
    BY <1>1, <1>11, <2>1, <2>2 DEF FlusherCloses, Orderly
<1>12. CASE ReceiverTakes(w)
  <2>1. receiver[w] = "range" /\ receiver'[w] = "receive" /\ send' = send
    BY <1>12 DEF ReceiverTakes, PipelineType, channels
  <2>2. Pending(w)' = Pending(w)
    BY <1>3, <1>12 DEF ReceiverTakes
  <2> QED
    BY <1>1, <1>12, <2>1, <2>2 DEF ReceiverTakes, Orderly
<1>13. CASE ReceiverEnds(w) \/ ReceiverPasses(w)
  <2>1. receiver[w] # "done" /\ send' = send
    BY <1>13 DEF ReceiverEnds, ReceiverPasses, channels
  <2>2. receiver'[w] = "done" => recvClosed[w] /\ recv[w] = << >>
    BY <1>13 DEF ReceiverEnds, ReceiverPasses, PipelineType
  <2>3. Pending(w)' = Pending(w)
    BY <1>3, <1>13 DEF ReceiverEnds, ReceiverPasses
  <2> QED
    BY <1>1, <1>13, <2>1, <2>2, <2>3 DEF ReceiverEnds, ReceiverPasses, Orderly
<1>14. CASE Receive(w)
  <2>1. receiver[w] = "receive" /\ receiver'[w] \in {"result", "error"} /\ send' = send
    BY <1>14 DEF Receive, PipelineType, channels
  <2>2. conn[w] # "up" => Pending(w)' = Pending(w)
    BY <1>3, <1>14 DEF Receive
  <2> QED
    BY <1>1, <1>14, <2>1, <2>2 DEF Receive, Orderly
<1>15. CASE WorkerCloses(w)
  <2>1. /\ worker'[w] # "wait" /\ conn'[w] = "closed" /\ receiver[w] = "done" /\ send' = send
        /\ inflight'[w] = << >> /\ unflushed'[w] = << >>
    BY <1>15 DEF WorkerCloses, PipelineType, channels
  <2> QED
    BY <1>1, <1>4, <1>15, <2>1 DEF WorkerCloses, Orderly
<1>16. CASE ConnBreaks(w)
  <2>1. /\ conn[w] = "up" /\ conn'[w] = "down" /\ send' = send
        /\ inflight'[w] = << >> /\ unflushed'[w] = << >>
    BY <1>16 DEF ConnBreaks, PipelineType, channels
  <2> QED
    BY <1>1, <1>4, <1>16, <2>1 DEF ConnBreaks, Orderly
<1> QED
  BY <1>5, <1>6, <1>7, <1>8, <1>9, <1>10, <1>11, <1>12, <1>13, <1>14, <1>15, <1>16, NoErrorSent
  DEF PipelineStep, SenderStep, FlusherStep, ReceiverStep, WorkerStep

\* The other workers stay as they are; one whose sender has ended has left
\* nothing in send.
LEMMA OrderlyStep ==
    ASSUME NEW C, PipelineType(C), NEW w \in Workers, PipelineStep(w), Going,
           ~ gErr' \/ Unharmed(w), \A v \in Workers : Orderly(v)
    PROVE  \A v \in Workers : Orderly(v)'
<1>1. ASSUME NEW v \in Workers \ {w}
      PROVE  Orderly(v)'
  <2>1. /\ sender'[v] = sender[v] /\ flusher'[v] = flusher[v] /\ receiver'[v] = receiver[v]
        /\ recvClosed'[v] = recvClosed[v] /\ worker'[v] = worker[v]
        /\ recv'[v] = recv[v] /\ conn'[v] = conn[v]
        /\ unflushed'[v] = unflushed[v] /\ inflight'[v] = inflight[v]
        /\ sendClosed' = sendClosed /\ (send # << >> \/ send' = send)
    BY PipelineFrame
  <2>2. Pending(v)' = Pending(v)
    BY <2>1 DEF Pending
  <2>3. Orderly(v)
    OBVIOUS
  <2> QED
    BY <2>1, <2>2, <2>3 DEF Orderly
<1> QED
  BY <1>1, OrderlyHere

\* Nothing but a fault of the environment makes a goroutine fail.
LEMMA UnharmedStep ==
    ASSUME NEW C, PipelineType(C), NEW w \in Workers, PipelineStep(w), Going, faults' = faults,
           \A v \in Workers : Orderly(v) /\ Unharmed(v)
    PROVE  /\ UNCHANGED <<gErr, panicked>>
           /\ \A v \in Workers : Unharmed(v)'
<1>1. Orderly(w) /\ Unharmed(w) /\ ~ Fault
  BY DEF Fault, PipelineType
<1>2. /\ sender[w] # "err" /\ flusher[w] # "err" /\ receiver[w] \notin {"error", "err"}
      /\ worker[w] # "err" /\ conn[w] # "down"
  BY <1>1 DEF Unharmed
<1>3. sender[w] # "done" => ~ recvClosed[w] /\ conn[w] = "up"
  BY <1>1, <1>2 DEF Orderly, PipelineType
<1>4. flusher[w] = "wait" => conn[w] = "up"
  BY <1>1, <1>2 DEF Orderly, PipelineType
<1>5. CASE SenderStep(w)
  <2>1. UNCHANGED <<gErr, panicked, conn, flusher, receiver, worker>>
    BY <1>2, <1>3, <1>5 DEF Going, SenderStep, SenderTakes, SenderEnds, SenderSends, SenderFlushes,
       SenderPushes, SenderCancelled, SenderSendsErr, Quietly, channels
  <2>2. sender'[w] # "err"
    BY <1>2, <1>3, <1>5 DEF Going, SenderStep, SenderTakes, SenderEnds, SenderSends, SenderFlushes,
       SenderPushes, SenderCancelled, SenderSendsErr, FlushFails, PipelineType
  <2> QED
    BY <1>1, <2>1, <2>2, PipelineFrame DEF Unharmed
<1>6. CASE FlusherStep(w)
  <2>1. UNCHANGED <<gErr, panicked, conn, sender, receiver, worker>>
    BY <1>2, <1>6 DEF Going, FlusherStep, FlusherFlushes, FlusherCancelled, FlusherSendsErr,
       FlusherCloses, channels
  <2>2. flusher'[w] # "err"
    BY <1>2, <1>4, <1>6 DEF Going, FlusherStep, FlusherFlushes, FlusherCancelled, FlusherSendsErr,
       FlusherCloses, FlushFails, PipelineType
  <2> QED
    BY <1>1, <2>1, <2>2, PipelineFrame DEF Unharmed
<1>7. CASE ReceiverStep(w)
  <2>1. UNCHANGED <<gErr, panicked, conn, sender, flusher, worker>>
    BY <1>2, <1>7 DEF ReceiverStep, ReceiverTakes, ReceiverEnds, Receive, ReceiverPasses,
       ReceiverSendsErr, channels
  <2>2. receiver'[w] \notin {"error", "err"}
    <3>1. CASE Receive(w)
      <4>1. receiver' = [receiver EXCEPT ![w] = "result"]
        BY <1>1, <1>2, <3>1 DEF Receive
      <4> QED
        BY <4>1 DEF PipelineType
    <3>2. CASE ~ Receive(w)
      BY <1>2, <1>7, <3>2 DEF ReceiverStep, ReceiverTakes, ReceiverEnds, ReceiverPasses,
         ReceiverSendsErr, Going, PipelineType
    <3> QED
      BY <3>1, <3>2
  <2> QED
    BY <1>1, <2>1, <2>2, PipelineFrame DEF Unharmed
<1>8. CASE WorkerStep(w) \/ ConnBreaks(w)
  <2>1. UNCHANGED <<gErr, panicked, sender, flusher, receiver>>
    BY <1>1, <1>2, <1>8 DEF WorkerStep, WorkerCloses, WorkerSendsErr, ConnBreaks, channels
  <2>2. worker'[w] # "err" /\ conn'[w] # "down"
    BY <1>1, <1>2, <1>8 DEF WorkerStep, WorkerCloses, WorkerSendsErr, ConnBreaks, PipelineType
  <2> QED
    BY <1>1, <2>1, <2>2, PipelineFrame DEF Unharmed
<1> QED
  BY <1>5, <1>6, <1>7, <1>8 DEF PipelineStep

-----------------------------------------------------------------------------
(* No command gets lost silently *)

\* An error on its way arrives.
LEMMA TroubleStays ==
    ASSUME NEW C, PipelineType(C), NEW w \in Workers, PipelineStep(w), Going, ~ gErr',
           NEW v \in Workers, Orderly(v), Trouble(v)
    PROVE  Trouble(v)'
<1>1. CASE v # w
  BY <1>1, PipelineFrame DEF Trouble
<1>2. CASE v = w
  <2>1. ~ SenderCancelled(w) /\ ~ SenderSendsErr(w) /\ ~ FlusherCancelled(w) /\ ~ FlusherSendsErr(w)
        /\ ~ ReceiverSendsErr(w) /\ ~ WorkerSendsErr(w)
    BY NoErrorSent
  <2>2. CASE sender[w] = "err"
    <3>1. sender' = sender
      BY <2>1, <2>2 DEF PipelineStep, SenderStep, SenderTakes, SenderEnds, SenderSends, SenderFlushes,
         SenderPushes, FlusherStep, FlusherFlushes, FlusherCloses, ReceiverStep, ReceiverTakes,
         ReceiverEnds, Receive, ReceiverPasses, WorkerStep, WorkerCloses, ConnBreaks
    <3> QED
      BY <1>2, <2>2, <3>1 DEF Trouble
  <2>3. CASE flusher[w] = "err"
    <3>1. flusher' = flusher
      BY <2>1, <2>3 DEF PipelineStep, SenderStep, SenderTakes, SenderEnds, SenderSends, SenderFlushes,
         SenderPushes, FlusherStep, FlusherFlushes, FlusherCloses, ReceiverStep, ReceiverTakes,
         ReceiverEnds, Receive, ReceiverPasses, WorkerStep, WorkerCloses, ConnBreaks
    <3> QED
      BY <1>2, <2>3, <3>1 DEF Trouble
  <2>4. CASE receiver[w] \in {"error", "err"}
    <3>1. receiver' = receiver \/ receiver'[w] = "err"
      BY <2>1, <2>4 DEF PipelineStep, SenderStep, SenderTakes, SenderEnds, SenderSends, SenderFlushes,
         SenderPushes, FlusherStep, FlusherFlushes, FlusherCloses, ReceiverStep, ReceiverTakes,
         ReceiverEnds, Receive, ReceiverPasses, WorkerStep, WorkerCloses, ConnBreaks, PipelineType
    <3> QED
      BY <1>2, <2>4, <3>1 DEF Trouble
  <2>5. CASE worker[w] = "err"
    <3>1. worker' = worker
      BY <2>1, <2>5 DEF PipelineStep, SenderStep, SenderTakes, SenderEnds, SenderSends, SenderFlushes,
         SenderPushes, FlusherStep, FlusherFlushes, FlusherCloses, ReceiverStep, ReceiverTakes,
         ReceiverEnds, Receive, ReceiverPasses, WorkerStep, WorkerCloses, ConnBreaks
    <3> QED
      BY <1>2, <2>5, <3>1 DEF Trouble
  <2>6. CASE /\ conn[w] = "down"
             /\ receiver[w] = "receive" \/ recv[w] # << >> \/ sender[w] \in {"check", "push"}
    <3>1. receiver[w] # "done" /\ conn[w] = "down" /\ recv[w] \in Seq(C)
      BY <1>2, <2>6 DEF Orderly, PipelineType
    <3>2. conn' = conn
      BY <2>1, <3>1 DEF PipelineStep, SenderStep, SenderTakes, SenderEnds, SenderSends, SenderFlushes,
         SenderPushes, FlusherStep, FlusherFlushes, FlusherCloses, ReceiverStep, ReceiverTakes,
         ReceiverEnds, Receive, ReceiverPasses, WorkerStep, WorkerCloses, ConnBreaks
    <3>3. CASE SenderPushes(w)
      <4>1. CASE UNCHANGED <<sender, recv>>
        BY <1>2, <2>6, <3>2, <3>3, <4>1 DEF SenderPushes, Trouble
      <4>2. CASE ~ UNCHANGED <<sender, recv>>
        <5>1. recv'[w] = Append(recv[w], cmd[w]) /\ cmd[w] \in C
          BY <3>3, <4>2 DEF SenderPushes, PipelineType
        <5>2. recv'[w] # << >>
          BY <3>1, <5>1, AppendProperties
        <5> QED
          BY <1>2, <3>1, <3>2, <5>2 DEF Trouble
      <4> QED
        BY <4>1, <4>2
    <3>4. CASE SenderTakes(w) \/ SenderEnds(w) \/ SenderSends(w) \/ SenderFlushes(w)
      <4>1. receiver' = receiver /\ recv' = recv
        BY <3>4 DEF SenderTakes, SenderEnds, SenderSends, SenderFlushes
      <4>2. sender[w] \in {"check", "push"} => sender'[w] \in {"push", "err"}
        BY <3>4 DEF SenderTakes, SenderEnds, SenderSends, SenderFlushes, PipelineType
      <4> QED
        BY <1>2, <2>6, <3>2, <4>1, <4>2 DEF Trouble
    <3>5. CASE FlusherFlushes(w) \/ FlusherCloses(w)
      BY <1>2, <2>6, <3>2, <3>5 DEF FlusherFlushes, FlusherCloses, Trouble
    <3>6. CASE ReceiverTakes(w)
      <4>1. receiver'[w] = "receive"
        BY <3>6 DEF ReceiverTakes, PipelineType
      <4> QED
        BY <1>2, <3>1, <3>2, <4>1 DEF Trouble
    <3>7. CASE Receive(w)
      <4>1. receiver'[w] = "error"
        BY <3>1, <3>7 DEF Receive, PipelineType
      <4> QED
        BY <1>2, <4>1 DEF Trouble
    <3>8. CASE ReceiverEnds(w) \/ ReceiverPasses(w)
      <4>1. sender' = sender /\ recv' = recv /\ receiver[w] # "receive"
        BY <3>8 DEF ReceiverEnds, ReceiverPasses
      <4> QED
        BY <1>2, <2>6, <3>2, <4>1 DEF Trouble
    <3>9. ~ WorkerCloses(w) /\ ~ ConnBreaks(w)
      BY <3>1 DEF WorkerCloses, ConnBreaks
    <3> QED
      BY <2>1, <3>3, <3>4, <3>5, <3>6, <3>7, <3>8, <3>9
      DEF PipelineStep, SenderStep, FlusherStep, ReceiverStep, WorkerStep
  <2> QED
    BY <1>2, <2>2, <2>3, <2>4, <2>5, <2>6 DEF Trouble
<1> QED
  BY <1>1, <1>2

\* A command leaves send, the hands of a sender and the connection only when
\* Redis executes it, or with an error on its way.
LEMMA AccountedStep ==
    ASSUME NEW C, PipelineType(C), NEW w \in Workers, PipelineStep(w), Going, ~ gErr',
           Orderly(w), Answered(w), NEW k, Accounted(k)
    PROVE  Accounted(k)' \/ Trouble(w)'
<1>1. /\ recv[w] \in Seq(C) /\ inflight[w] \in Seq(C) /\ unflushed[w] \in Seq(C)
      /\ send \in Seq(C) /\ Pending(w) \in Seq(C)
  BY ConcatProperties DEF PipelineType, Pending
<1>17. \A x, y \in Seq(C) : Range(x \o y) = Range(x) \cup Range(y)
  BY RangeConcatenation
<1> DEFINE InHand(v) == sender[v] = "send" /\ cmd[v] = k
<1> DEFINE OnWire(v) == k \in Range(Pending(v))
<1>2. ASSUME NEW v \in Workers \ {w}, InHand(v) \/ OnWire(v)
      PROVE  Accounted(k)'
  <2>1. /\ sender'[v] = sender[v] /\ cmd'[v] = cmd[v] /\ unflushed'[v] = unflushed[v]
        /\ inflight'[v] = inflight[v]
    BY PipelineFrame
  <2>2. Pending(v)' = Pending(v)
    BY <2>1 DEF Pending
  <2> QED
    BY <1>2, <2>1, <2>2 DEF Accounted
<1>3. k \in applied => Accounted(k)'
  BY PipelineFrame DEF Accounted
<1>4. send' = send /\ k \in Range(send) => Accounted(k)'
  BY DEF Accounted
<1>5. SUFFICES ASSUME \/ k \in Range(send) /\ send' # send
                      \/ InHand(w)
                      \/ OnWire(w)
               PROVE  Accounted(k)' \/ Trouble(w)'
  BY <1>2, <1>3, <1>4 DEF Accounted
<1>6. InHand(w)' \/ OnWire(w)' => Accounted(k)'
  BY DEF Accounted
<1>7. ASSUME Flush(w) PROVE Pending(w)' = Pending(w)
  <2>1. inflight'[w] = inflight[w] \o unflushed[w] /\ unflushed'[w] = << >>
    BY <1>7 DEF Flush, PipelineType
  <2> QED
    BY <1>1, <2>1, ConcatEmptySeq DEF Pending
<1>8. ASSUME UNCHANGED <<send, unflushed, inflight>>, InHand(w) => InHand(w)'
      PROVE  Accounted(k)'
  <2>1. Pending(w)' = Pending(w)
    BY <1>8 DEF Pending
  <2> QED
    BY <1>5, <1>6, <1>8, <2>1
<1>9. CASE SenderTakes(w)
  <2>1. /\ send # << >> /\ send' = Tail(send) /\ sender[w] = "range"
        /\ sender'[w] = "send" /\ cmd'[w] = Head(send) /\ UNCHANGED <<unflushed, inflight>>
    BY <1>9 DEF SenderTakes, PipelineType
  <2>2. Pending(w)' = Pending(w)
    BY <2>1 DEF Pending
  <2>3. CASE k \in Range(send)
    <3>1. k = Head(send) \/ k \in Range(Tail(send))
      BY <1>1, <2>1, <2>3, RangeOfTail
    <3> QED
      BY <1>6, <2>1, <3>1 DEF Accounted
  <2> QED
    BY <1>5, <1>6, <2>1, <2>2, <2>3
<1>10. CASE SenderEnds(w) \/ SenderPushes(w)
  BY <1>8, <1>10 DEF SenderEnds, SenderPushes, channels
<1>11. CASE SenderSends(w)
  <2>1. send' = send /\ sender[w] = "send" /\ inflight' = inflight /\ conn' = conn
    BY <1>11 DEF SenderSends, channels
  <2>2. CASE conn[w] = "up"
    <3>1. unflushed'[w] = Append(unflushed[w], cmd[w]) /\ cmd[w] \in C
      BY <1>11, <2>2 DEF SenderSends, PipelineType
    <3>2. /\ Range(Append(unflushed[w], cmd[w])) = Range(unflushed[w]) \cup {cmd[w]}
          /\ Append(unflushed[w], cmd[w]) \in Seq(C)
      BY <1>1, <3>1, RangeOfAppend
    <3>3. /\ Range(Pending(w)) = Range(inflight[w]) \cup Range(unflushed[w])
          /\ Range(Pending(w)') = Range(inflight[w]) \cup Range(Append(unflushed[w], cmd[w]))
      <4>1. Pending(w)' = inflight[w] \o Append(unflushed[w], cmd[w])
        BY <2>1, <3>1 DEF Pending
      <4> QED
        BY <1>1, <1>17, <3>2, <4>1 DEF Pending
    <3> QED
      BY <1>5, <1>6, <2>1, <3>2, <3>3
  <2>3. CASE conn[w] # "up"
    <3>1. sender'[w] = "err" \/ (conn'[w] = "down" /\ sender'[w] = "check")
      BY <1>11, <2>1, <2>3 DEF SenderSends, PipelineType
    <3> QED
      BY <3>1 DEF Trouble
  <2> QED
    BY <2>2, <2>3
<1>12. CASE SenderFlushes(w) \/ FlusherFlushes(w)
  <2>1. send' = send /\ ~ InHand(w)
    BY <1>12 DEF SenderFlushes, FlusherFlushes, channels, Orderly
  <2>2. CASE Flush(w)
    BY <1>5, <1>6, <1>7, <2>1, <2>2
  <2>3. CASE UNCHANGED <<unflushed, inflight>>
    BY <1>8, <2>1, <2>3
  <2> QED
    BY <1>12, <2>2, <2>3 DEF SenderFlushes, FlusherFlushes, FlushFails
<1>13. CASE FlusherCloses(w) \/ ReceiverTakes(w) \/ ReceiverEnds(w) \/ ReceiverPasses(w)
  BY <1>8, <1>13 DEF FlusherCloses, ReceiverTakes, ReceiverEnds, ReceiverPasses, channels
<1>14. CASE Receive(w)
  <2>1. receiver'[w] = "error" => Trouble(w)'
    BY DEF Trouble
  <2>2. CASE receiver'[w] # "error"
    <3>1. /\ inflight[w] # << >> /\ inflight'[w] = Tail(inflight[w])
          /\ applied' = applied \cup {Head(inflight[w])}
          /\ UNCHANGED <<send, sender, cmd, unflushed>>
      BY <1>14, <2>2 DEF Receive, PipelineType, channels
    <3>2. Range(inflight[w]) = {Head(inflight[w])} \cup Range(Tail(inflight[w]))
      BY <1>1, <3>1, RangeOfTail
    <3>3. Tail(inflight[w]) \in Seq(C)
      BY <1>1, <3>1, HeadTailProperties
    <3>4. /\ Range(Pending(w)) = Range(inflight[w]) \cup Range(unflushed[w])
          /\ Range(Pending(w)') = Range(Tail(inflight[w])) \cup Range(unflushed[w])
      <4>1. Pending(w)' = Tail(inflight[w]) \o unflushed[w]
        BY <3>1 DEF Pending
      <4> QED
        BY <1>1, <1>17, <3>3, <4>1 DEF Pending
    <3>5. k = Head(inflight[w]) => Accounted(k)'
      BY <3>1 DEF Accounted
    <3> QED
      BY <1>5, <1>6, <3>1, <3>2, <3>4, <3>5
  <2> QED
    BY <2>1, <2>2
<1>15. CASE WorkerCloses(w)
  <2>1. receiver[w] = "done" /\ send' = send
    BY <1>15 DEF WorkerCloses, channels
  <2>2. OnWire(w)
    BY <1>5, <2>1 DEF Orderly
  <2>3. conn[w] = "up"
    <3>1. Range(<< >>) = {}
      BY DEF Range
    <3> QED
      BY <2>2, <3>1 DEF Orderly
  <2>4. applied' = applied \cup Range(Pending(w))
    BY <1>15, <2>3 DEF WorkerCloses, Pending
  <2> QED
    BY <2>2, <2>4 DEF Accounted
<1>16. CASE ConnBreaks(w)
  <2>1. /\ conn[w] = "up" /\ conn'[w] = "down" /\ UNCHANGED <<send, sender, cmd, receiver, recv>>
    BY <1>16 DEF ConnBreaks, PipelineType, channels
  <2>2. CASE InHand(w)
    BY <1>6, <2>1, <2>2
  <2>3. CASE OnWire(w)
    <3>1. Pending(w) # << >>
      BY <2>3 DEF Range
    <3>2. Matched(w)
      BY <2>1 DEF Answered, Going
    <3>3. receiver[w] = "receive" \/ Expected(w) # << >>
      BY <3>1, <3>2 DEF Matched
    <3>4. Expected(w) # << >> => recv[w] # << >> \/ sender[w] \in {"check", "push"}
      BY EmptySeq, ConcatEmptySeq DEF Expected
    <3> QED
      BY <2>1, <3>3, <3>4 DEF Trouble
  <2> QED
    BY <1>5, <2>1, <2>2, <2>3
<1> QED
  BY <1>9, <1>10, <1>11, <1>12, <1>13, <1>14, <1>15, <1>16, NoErrorSent
  DEF PipelineStep, SenderStep, FlusherStep, ReceiverStep, WorkerStep

-----------------------------------------------------------------------------
(* Start and end *)

LEMMA PipelineStarts ==
    ASSUME NEW C, InitPipeline
    PROVE  /\ PipelineType(C)
           /\ \A w \in Workers : Answered(w) /\ Flushed(w) /\ Orderly(w) /\ Unharmed(w)
<1>1. << >> \in Seq(C) /\ Len(<< >>) = 0 /\ << >> \o << >> = << >>
  BY EmptySeq, ConcatEmptySeq
<1>2. PipelineType(C)
  BY <1>1 DEF InitPipeline, PipelineType
<1>3. ASSUME NEW w \in Workers
      PROVE  Answered(w) /\ Flushed(w) /\ Orderly(w) /\ Unharmed(w)
  <2>1. Pending(w) = << >> /\ Expected(w) = << >>
    BY <1>1 DEF InitPipeline, Pending, Expected
  <2>2. Answered(w)
    BY <2>1 DEF InitPipeline, Answered, Matched
  <2>3. Flushed(w)
    BY <1>1, PipelineAssumption DEF InitPipeline, Flushed
  <2>4. Orderly(w)
    BY <2>1 DEF InitPipeline, Orderly
  <2>5. Unharmed(w)
    BY DEF InitPipeline, Unharmed
  <2> QED
    BY <2>2, <2>3, <2>4, <2>5
<1> QED
  BY <1>2, <1>3

\* When the last worker has ended, every command was executed.
LEMMA AllStored ==
    ASSUME \A w \in Workers : Orderly(w) /\ worker[w] = "done"
    PROVE  /\ \A w \in Workers : ~ Trouble(w)
           /\ sendClosed
           /\ \A k : Accounted(k) => k \in applied
<1>1. ASSUME NEW w \in Workers
      PROVE  /\ sender[w] = "done" /\ flusher[w] = "done" /\ receiver[w] = "done"
             /\ conn[w] = "closed" /\ Pending(w) = << >> /\ send = << >> /\ sendClosed
  BY DEF Orderly
<1>2. \A w \in Workers : ~ Trouble(w)
  BY <1>1 DEF Trouble
<1>3. send = << >> /\ sendClosed
  BY <1>1, PipelineAssumption
<1>4. Range(<< >>) = {}
  BY DEF Range
<1>5. \A k : Accounted(k) => k \in applied
  BY <1>1, <1>3, <1>4 DEF Accounted
<1> QED
  BY <1>2, <1>3, <1>5
=============================================================================
