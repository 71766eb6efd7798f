---------------------------- MODULE RedisPipeline -----------------------------
(***************************************************************************)
(* repository/redis_pipeline.go: Pipeline, the pool of workers that the    *)
(* loaders of the reference databases use to write many keys.  A worker    *)
(* owns a connection and consists of three goroutines: one that takes      *)
(* commands from the channel send and writes them to the connection, one   *)
(* that flushes the connection after the last command, and one that reads  *)
(* the replies.  They share the channel recv, with an entry for every      *)
(* command whose reply has not been asked for.                             *)
(*                                                                         *)
(* The channels send, errs and exitImmediately belong to the caller, see   *)
(* NaptanLoader, which also has the initial values and the next-state      *)
(* relation.                                                               *)
(***************************************************************************)
EXTENDS Naturals, Sequences, SequencesExt

CONSTANTS Workers,      \* rp.Pool.MaxActive goroutines with a connection each
          FlushAfter,   \* rp.FlushAfter: the capacity of recv, and of send
          MaxFaults     \* bound on failures

ASSUME PipelineAssumption ==
    Workers # {} /\ FlushAfter \in Nat \ {0} /\ MaxFaults \in Nat

VARIABLES
    (* shared with the caller *)
    send, sendClosed,   \* commands to execute (a channel, and whether it is closed)
    errsClosed,         \* the channel errs is closed
    gErr,               \* an error was received from errs
    exitImmediately,    \* that channel is closed
    done,               \* that channel is closed: Pipeline has returned
    panicked,           \* a goroutine panicked: the process is gone
    (* by worker *)
    worker,             \* startRedisWorkers
    sender, cmd,        \* sendRedisCommands, and the command in its hands
    flusher,            \* flushRedisResults
    receiver,           \* receiveRedisResults
    recv, recvClosed,   \* the channel recv
    conn,               \* the connection: "up", "down" (broken), "closed"
    unflushed,          \* commands in the buffer of the connection
    inflight,           \* commands sent to Redis whose replies were not read
    (* the environment *)
    applied,            \* the commands that Redis has executed
    faults              \* failures so far

channels == <<send, sendClosed, errsClosed, gErr, exitImmediately, done>>
workers  == <<worker, sender, cmd, flusher, receiver, recv, recvClosed,
              conn, unflushed, inflight>>

InitPipeline ==
    /\ send = << >> /\ sendClosed = FALSE
    /\ errsClosed = FALSE /\ gErr = FALSE
    /\ exitImmediately = FALSE /\ done = FALSE /\ panicked = FALSE
    /\ worker = [w \in Workers |-> "wait"]
    /\ sender = [w \in Workers |-> "range"]
    /\ cmd = [w \in Workers |-> 0]
    /\ flusher = [w \in Workers |-> "wait"]
    /\ receiver = [w \in Workers |-> "range"]
    /\ recv = [w \in Workers |-> << >>]
    /\ recvClosed = [w \in Workers |-> FALSE]
    /\ conn = [w \in Workers |-> "up"]
    /\ unflushed = [w \in Workers |-> << >>]
    /\ inflight = [w \in Workers |-> << >>]
    /\ applied = {} /\ faults = 0

\* A failure outside of the program.
Fault == faults < MaxFaults /\ faults' = faults + 1

\* errs <- err.  The channel is not buffered and the caller receives from it
\* until it is closed; after that the send is a panic.
SendErr ==
    IF errsClosed THEN panicked' = TRUE /\ UNCHANGED gErr
                  ELSE gErr' = TRUE /\ UNCHANGED panicked

Panic == panicked' = TRUE /\ UNCHANGED gErr

Quietly == UNCHANGED <<panicked, gErr>>

\* What SendErr and its like leave of the channels, and the rest of a worker.
others == <<errsClosed, exitImmediately, done>>

\* conn.Flush().  That the connection broke is noticed now or later.
Flush(w) ==
    /\ conn[w] # "closed"
    /\ inflight' = [inflight EXCEPT ![w] = @ \o unflushed[w]]
    /\ unflushed' = [unflushed EXCEPT ![w] = << >>]

FlushFails(w) == conn[w] # "up" /\ UNCHANGED <<inflight, unflushed>>

-----------------------------------------------------------------------------
(* sendRedisCommands *)

\* for cmd := range send
SenderTakes(w) ==
    /\ sender[w] = "range" /\ send # << >>
    /\ cmd' = [cmd EXCEPT ![w] = Head(send)]
    /\ send' = Tail(send)
    /\ sender' = [sender EXCEPT ![w] = "send"]
    /\ UNCHANGED <<sendClosed, gErr, panicked, others, worker, flusher, receiver, recv,
                   recvClosed, conn, unflushed, inflight, applied, faults>>

SenderEnds(w) ==
    /\ sender[w] = "range" /\ send = << >> /\ sendClosed
    /\ sender' = [sender EXCEPT ![w] = "done"]
    /\ UNCHANGED <<channels, panicked, worker, cmd, flusher, receiver, recv, recvClosed,
                   conn, unflushed, inflight, applied, faults>>

\* Variant: Send is tried again when it fails.
SenderRetries(w) ==
    /\ sender[w] = "send"
    /\ IF conn[w] = "up"
       THEN /\ unflushed' = [unflushed EXCEPT ![w] = Append(@, cmd[w])]
            /\ sender' = [sender EXCEPT ![w] = "check"]
       ELSE UNCHANGED <<unflushed, sender>>
    /\ UNCHANGED <<channels, panicked, worker, cmd, flusher, receiver, recv, recvClosed,
                   conn, inflight, applied, faults>>

\* conn.Send: with a broken connection the command may still fit in the buffer.
SenderSends(w) ==
    /\ sender[w] = "send"
    /\ \/ /\ conn[w] = "up"
          /\ unflushed' = [unflushed EXCEPT ![w] = Append(@, cmd[w])]
          /\ sender' = [sender EXCEPT ![w] = "check"]
       \/ /\ conn[w] = "down"
          /\ \E next \in {"check", "err"} : sender' = [sender EXCEPT ![w] = next]
          /\ UNCHANGED unflushed
       \/ /\ conn[w] = "closed"
          /\ sender' = [sender EXCEPT ![w] = "err"]
          /\ UNCHANGED unflushed
    /\ UNCHANGED <<channels, panicked, worker, cmd, flusher, receiver, recv, recvClosed,
                   conn, inflight, applied, faults>>

\* Variant: recv is not looked at.
SenderDoesNotFlush(w) ==
    /\ sender[w] = "check"
    /\ sender' = [sender EXCEPT ![w] = "push"]
    /\ UNCHANGED <<channels, panicked, worker, cmd, flusher, receiver, recv, recvClosed,
                   conn, unflushed, inflight, applied, faults>>

\* Variant: the next command is taken after a flush.
SenderFlushesOnly(w) ==
    /\ sender[w] = "check"
    /\ IF Len(recv[w]) = FlushAfter /\ conn[w] = "up"
       THEN Flush(w) /\ sender' = [sender EXCEPT ![w] = "range"]
       ELSE /\ sender' = [sender EXCEPT ![w] = "push"]
            /\ UNCHANGED <<unflushed, inflight>>
    /\ UNCHANGED <<channels, panicked, worker, cmd, flusher, receiver, recv, recvClosed,
                   conn, applied, faults>>

\* Flush when recv is full: the receiver waits for a reply that Redis cannot
\* give before it has the commands, and nothing is taken from recv meanwhile.
SenderFlushes(w) ==
    /\ sender[w] = "check"
    /\ IF Len(recv[w]) < FlushAfter
       THEN sender' = [sender EXCEPT ![w] = "push"] /\ UNCHANGED <<unflushed, inflight>>
       ELSE \/ Flush(w) /\ sender' = [sender EXCEPT ![w] = "push"]
            \/ FlushFails(w) /\ sender' = [sender EXCEPT ![w] = "err"]
    /\ UNCHANGED <<channels, panicked, worker, cmd, flusher, receiver, recv, recvClosed,
                   conn, applied, faults>>

\* recv <- cmd.Result, a panic when the flusher has closed recv.
SenderPushes(w) ==
    /\ sender[w] = "push"
    /\ \/ /\ recvClosed[w] /\ Panic
          /\ UNCHANGED <<sender, recv>>
       \/ /\ ~ recvClosed[w] /\ Len(recv[w]) < FlushAfter
          /\ recv' = [recv EXCEPT ![w] = Append(@, cmd[w])]
          /\ sender' = [sender EXCEPT ![w] = "range"]
          /\ Quietly
    /\ UNCHANGED <<send, sendClosed, others, worker, cmd, flusher, receiver, recvClosed,
                   conn, unflushed, inflight, applied, faults>>

\* case <-exitImmediately
SenderCancelled(w) ==
    /\ sender[w] = "push" /\ exitImmediately
    /\ sender' = [sender EXCEPT ![w] = "err"]
    /\ UNCHANGED <<channels, panicked, worker, cmd, flusher, receiver, recv, recvClosed,
                   conn, unflushed, inflight, applied, faults>>

SenderSendsErr(w) ==
    /\ sender[w] = "err"
    /\ SendErr
    /\ sender' = [sender EXCEPT ![w] = "done"]
    /\ UNCHANGED <<send, sendClosed, others, worker, cmd, flusher, receiver, recv,
                   recvClosed, conn, unflushed, inflight, applied, faults>>

SenderStep(w) ==
    \/ SenderTakes(w) \/ SenderEnds(w) \/ SenderSends(w) \/ SenderFlushes(w)
    \/ SenderPushes(w) \/ SenderCancelled(w) \/ SenderSendsErr(w)

-----------------------------------------------------------------------------
(* flushRedisResults *)

\* case <-sendDone
FlusherFlushes(w) ==
    /\ flusher[w] = "wait" /\ sender[w] = "done"
    /\ \/ Flush(w) /\ flusher' = [flusher EXCEPT ![w] = "close"]
       \/ FlushFails(w) /\ flusher' = [flusher EXCEPT ![w] = "err"]
    /\ UNCHANGED <<channels, panicked, worker, sender, cmd, receiver, recv, recvClosed,
                   conn, applied, faults>>

\* case <-exitImmediately
FlusherCancelled(w) ==
    /\ flusher[w] = "wait" /\ exitImmediately
    /\ flusher' = [flusher EXCEPT ![w] = "err"]
    /\ UNCHANGED <<channels, panicked, worker, sender, cmd, receiver, recv, recvClosed,
                   conn, unflushed, inflight, applied, faults>>

FlusherSendsErr(w) ==
    /\ flusher[w] = "err"
    /\ SendErr
    /\ flusher' = [flusher EXCEPT ![w] = "close"]
    /\ UNCHANGED <<send, sendClosed, others, worker, sender, cmd, receiver, recv,
                   recvClosed, conn, unflushed, inflight, applied, faults>>

\* defer close(recv)
FlusherCloses(w) ==
    /\ flusher[w] = "close"
    /\ flusher' = [flusher EXCEPT ![w] = "done"]
    /\ recvClosed' = [recvClosed EXCEPT ![w] = TRUE]
    /\ UNCHANGED <<channels, panicked, worker, sender, cmd, receiver, recv, conn,
                   unflushed, inflight, applied, faults>>

FlusherStep(w) ==
    FlusherFlushes(w) \/ FlusherCancelled(w) \/ FlusherSendsErr(w) \/ FlusherCloses(w)

-----------------------------------------------------------------------------
(* receiveRedisResults *)

\* for ch := range recv
ReceiverTakes(w) ==
    /\ receiver[w] = "range" /\ recv[w] # << >>
    /\ recv' = [recv EXCEPT ![w] = Tail(@)]
    /\ receiver' = [receiver EXCEPT ![w] = "receive"]
    /\ UNCHANGED <<channels, panicked, worker, sender, cmd, flusher, recvClosed, conn,
                   unflushed, inflight, applied, faults>>

ReceiverEnds(w) ==
    /\ receiver[w] = "range" /\ recv[w] = << >> /\ recvClosed[w]
    /\ receiver' = [receiver EXCEPT ![w] = "done"]
    /\ UNCHANGED <<channels, panicked, worker, sender, cmd, flusher, recv, recvClosed, conn,
                   unflushed, inflight, applied, faults>>

\* conn.Receive() waits for the reply to the oldest command: Redis executes
\* it, or answers with an error.
Receive(w) ==
    /\ receiver[w] = "receive"
    /\ \/ /\ conn[w] = "up" /\ inflight[w] # << >>
          /\ inflight' = [inflight EXCEPT ![w] = Tail(@)]
          /\ \/ /\ applied' = applied \cup {Head(inflight[w])}
                /\ receiver' = [receiver EXCEPT ![w] = "result"]
                /\ UNCHANGED faults
             \/ /\ Fault
                /\ receiver' = [receiver EXCEPT ![w] = "error"]
                /\ UNCHANGED applied
       \/ /\ conn[w] = "down"
          /\ receiver' = [receiver EXCEPT ![w] = "error"]
          /\ UNCHANGED <<inflight, applied, faults>>
    /\ UNCHANGED <<channels, panicked, worker, sender, cmd, flusher, recv, recvClosed, conn,
                   unflushed>>

\* Variant: an error goes to the command's channel only.
ReceiverPassesOnly(w) ==
    /\ receiver[w] \in {"result", "error"}
    /\ \/ receiver' = [receiver EXCEPT ![w] = "range"]
       \/ exitImmediately /\ receiver' = [receiver EXCEPT ![w] = "err"]
    /\ UNCHANGED <<channels, panicked, worker, sender, cmd, flusher, recv, recvClosed, conn,
                   unflushed, inflight, applied, faults>>

\* The result goes to the command's own channel, which has room for it, and
\* an error to errs as well; unless the select picks exitImmediately.
ReceiverPasses(w) ==
    /\ receiver[w] \in {"result", "error"}
    /\ \/ receiver' = [receiver EXCEPT ![w] = IF @ = "error" THEN "err" ELSE "range"]
       \/ exitImmediately /\ receiver' = [receiver EXCEPT ![w] = "err"]
    /\ UNCHANGED <<channels, panicked, worker, sender, cmd, flusher, recv, recvClosed, conn,
                   unflushed, inflight, applied, faults>>

ReceiverSendsErr(w) ==
    /\ receiver[w] = "err"
    /\ SendErr
    /\ receiver' = [receiver EXCEPT ![w] = "done"]
    /\ UNCHANGED <<send, sendClosed, others, worker, sender, cmd, flusher, recv, recvClosed,
                   conn, unflushed, inflight, applied, faults>>

ReceiverStep(w) ==
    \/ ReceiverTakes(w) \/ ReceiverEnds(w) \/ Receive(w) \/ ReceiverPasses(w)
    \/ ReceiverSendsErr(w)

-----------------------------------------------------------------------------
(* startRedisWorkers and Pipeline *)

\* <-connDone, and the deferred conn.Close(): a working connection that goes
\* back to the pool first flushes, and reads the replies nobody asked for.
WorkerCloses(w) ==
    /\ worker[w] = "wait" /\ receiver[w] = "done"
    /\ \/ /\ conn[w] = "up"
          /\ applied' = applied \cup Range(inflight[w] \o unflushed[w])
          /\ worker' = [worker EXCEPT ![w] = "done"]
       \/ /\ conn[w] = "down"
          /\ \E next \in {"done", "err"} : worker' = [worker EXCEPT ![w] = next]
          /\ UNCHANGED applied
    /\ conn' = [conn EXCEPT ![w] = "closed"]
    /\ inflight' = [inflight EXCEPT ![w] = << >>]
    /\ unflushed' = [unflushed EXCEPT ![w] = << >>]
    /\ UNCHANGED <<channels, panicked, sender, cmd, flusher, receiver, recv, recvClosed, faults>>

WorkerSendsErr(w) ==
    /\ worker[w] = "err"
    /\ SendErr
    /\ worker' = [worker EXCEPT ![w] = "done"]
    /\ UNCHANGED <<send, sendClosed, others, sender, cmd, flusher, receiver, recv, recvClosed,
                   conn, unflushed, inflight, applied, faults>>

WorkerStep(w) == WorkerCloses(w) \/ WorkerSendsErr(w)

\* Variant: waits for the first worker to end.
PipelineDoneEarly ==
    /\ ~ done /\ \E w \in Workers : worker[w] = "done"
    /\ done' = TRUE
    /\ UNCHANGED <<send, sendClosed, errsClosed, gErr, exitImmediately, panicked, workers,
                   applied, faults>>

\* wg.Wait(); close(done)
PipelineDone ==
    /\ ~ done /\ \A w \in Workers : worker[w] = "done"
    /\ done' = TRUE
    /\ UNCHANGED <<send, sendClosed, errsClosed, gErr, exitImmediately, panicked, workers,
                   applied, faults>>

\* The connection breaks (or was never made): of the commands that were sent
\* the first few have been executed.
ConnBreaks(w) ==
    /\ conn[w] = "up" /\ Fault
    /\ conn' = [conn EXCEPT ![w] = "down"]
    /\ \E n \in 0 .. Len(inflight[w]) :
         applied' = applied \cup Range(SubSeq(inflight[w], 1, n))
    /\ inflight' = [inflight EXCEPT ![w] = << >>]
    /\ unflushed' = [unflushed EXCEPT ![w] = << >>]
    /\ UNCHANGED <<channels, panicked, worker, sender, cmd, flusher, receiver, recv, recvClosed>>

WorkersFinished ==
    \A w \in Workers : /\ worker[w] = "done" /\ sender[w] = "done"
                       /\ flusher[w] = "done" /\ receiver[w] = "done"

-----------------------------------------------------------------------------
(* Replies *)

\* The commands whose replies are still to be read from the connection.
Pending(w) == inflight[w] \o unflushed[w]

\* The commands in recv, and the one that the sender is about to put there.
Expected(w) == recv[w] \o (IF sender[w] \in {"check", "push"} THEN <<cmd[w]>> ELSE << >>)

\* The replies that can still be read are those that the receiver will ask for,
\* after the one that it is waiting for, in this order.
Matched(w) ==
    IF receiver[w] = "receive" THEN Pending(w) # << >> /\ Tail(Pending(w)) = Expected(w)
                               ELSE Pending(w) = Expected(w)
=============================================================================
