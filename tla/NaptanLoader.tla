----------------------------- MODULE NaptanLoader -----------------------------
(***************************************************************************)
(* locality-names/locality_names.go and stops-in-area/stops_in_area.go (and *)
(* rail-references/rail_references.go, which is a copy too): a Lambda       *)
(* function that downloads the NaPTAN ZIP file, reads one CSV file of it    *)
(* and sets a key in a reference database for every row, through a          *)
(* RedisPipeline.  One call of Handler is modelled.                         *)
(***************************************************************************)
EXTENDS RedisPipeline

CONSTANT Rows       \* the number of rows of the CSV file

ASSUME RowsAssumption == Rows \in Nat

VARIABLES
    handler,        \* "download", "errs" (in the loop over errs), "ok", "error"
    producer,       \* processZipFile, then channelFileInZip
    row             \* the next row of the CSV file

loader == <<handler, producer, row>>
vars   == <<channels, panicked, workers, applied, faults, loader>>

Init ==
    /\ InitPipeline
    /\ handler = "download"
    /\ producer = "find"
    /\ row = 1

pipeline == <<workers, applied>>

\* Goroutines run once Handler has started them, and as long as the process.
Running == handler # "download" /\ ~ panicked

-----------------------------------------------------------------------------
(* Handler *)

\* The goroutines start.
Download ==
    /\ handler = "download"
    /\ handler' = "errs"
    /\ UNCHANGED <<channels, panicked, pipeline, faults, producer, row>>

DownloadFails ==
    /\ handler = "download" /\ Fault
    /\ handler' = "error"
    /\ producer' = "done"
    /\ worker' = [w \in Workers |-> "done"]
    /\ sender' = [w \in Workers |-> "done"]
    /\ flusher' = [w \in Workers |-> "done"]
    /\ receiver' = [w \in Workers |-> "done"]
    /\ done' = TRUE
    /\ UNCHANGED <<send, sendClosed, errsClosed, gErr, exitImmediately, panicked, cmd, recv,
                   recvClosed, conn, unflushed, inflight, applied, row>>

\* waitForRedisPipeline: <-done; close(errs)
CloseErrs ==
    /\ handler = "errs" /\ done /\ ~ errsClosed
    /\ errsClosed' = TRUE
    /\ UNCHANGED <<send, sendClosed, gErr, exitImmediately, done, panicked, pipeline, faults, loader>>

\* The loop over errs ends, and the deferred close(exitImmediately) runs.
Return ==
    /\ handler = "errs" /\ errsClosed
    /\ handler' = IF gErr THEN "error" ELSE "ok"
    /\ exitImmediately' = TRUE
    /\ UNCHANGED <<send, sendClosed, errsClosed, gErr, done, panicked, pipeline, faults,
                   producer, row>>

-----------------------------------------------------------------------------
(* processZipFile and channelFileInZip *)

\* The file is in the ZIP and can be opened and has a header row; or not.
FindFile ==
    /\ producer = "find"
    /\ \/ producer' = "read" /\ UNCHANGED faults
       \/ producer' \in {"err", "lastErr"} /\ Fault
    /\ UNCHANGED <<channels, panicked, pipeline, handler, row>>

ReadRow ==
    /\ producer = "read" /\ row <= Rows
    /\ \/ producer' = "push" /\ UNCHANGED faults
       \/ producer' = "err" /\ Fault
    /\ UNCHANGED <<channels, panicked, pipeline, handler, row>>

EndOfFile ==
    /\ producer = "read" /\ row > Rows
    /\ producer' = "close"
    /\ UNCHANGED <<channels, panicked, pipeline, faults, handler, row>>

PushRow ==
    /\ producer = "push" /\ Len(send) < FlushAfter
    /\ send' = Append(send, row)
    /\ row' = row + 1
    /\ producer' = "read"
    /\ UNCHANGED <<sendClosed, gErr, others, panicked, pipeline, faults, handler>>

\* case <-exitImmediately
PushCancelled ==
    /\ producer = "push" /\ exitImmediately
    /\ producer' = "err"
    /\ UNCHANGED <<channels, panicked, pipeline, faults, handler, row>>

\* errs <- err; return.  After "err" there is an open file.
ProducerSendsErr ==
    /\ producer \in {"err", "lastErr"}
    /\ SendErr
    /\ producer' = IF producer = "err" THEN "close" ELSE "closeSend"
    /\ UNCHANGED <<send, sendClosed, others, pipeline, faults, handler, row>>

\* The deferred f.Close(), which may fail.
CloseFile ==
    /\ producer = "close"
    /\ \/ producer' = "closeSend" /\ UNCHANGED faults
       \/ producer' = "lastErr" /\ Fault
    /\ UNCHANGED <<channels, panicked, pipeline, handler, row>>

\* The deferred close(send) comes last.
CloseSend ==
    /\ producer = "closeSend"
    /\ sendClosed' = TRUE
    /\ producer' = "done"
    /\ UNCHANGED <<send, gErr, others, panicked, pipeline, faults, handler, row>>

ProducerStep ==
    \/ FindFile \/ ReadRow \/ EndOfFile \/ PushRow \/ PushCancelled
    \/ ProducerSendsErr \/ CloseFile \/ CloseSend

-----------------------------------------------------------------------------
Finished == handler \in {"ok", "error"} /\ producer = "done" /\ WorkersFinished

\* Nothing is left to do: every goroutine has ended, or the process has.
Terminated == (panicked \/ Finished) /\ UNCHANGED vars

HandlerStep == Download \/ DownloadFails \/ Return

\* The steps of the pipeline leave the loader alone.
Sender(w)   == Running /\ SenderStep(w) /\ UNCHANGED loader
Flusher(w)  == Running /\ FlusherStep(w) /\ UNCHANGED loader
Receiver(w) == Running /\ ReceiverStep(w) /\ UNCHANGED loader
Worker(w)   == Running /\ WorkerStep(w) /\ UNCHANGED loader
Pipeline    == Running /\ PipelineDone /\ UNCHANGED loader
Producer    == Running /\ ProducerStep
Waiter      == Running /\ CloseErrs
Handler     == ~ panicked /\ HandlerStep

Next ==
    \/ Handler \/ Producer \/ Pipeline \/ Waiter
    \/ \E w \in Workers :
         \/ Sender(w) \/ Flusher(w) \/ Receiver(w) \/ Worker(w)
         \/ Running /\ ConnBreaks(w) /\ UNCHANGED loader
    \/ Terminated

Spec == Init /\ [][Next]_vars

\* Every goroutine that can run is run in the end; calls to Redis return.
Fairness ==
    /\ WF_vars(Handler) /\ WF_vars(Producer) /\ WF_vars(Pipeline) /\ WF_vars(Waiter)
    /\ \A w \in Workers :
         WF_vars(Sender(w)) /\ WF_vars(Flusher(w)) /\ WF_vars(Receiver(w)) /\ WF_vars(Worker(w))

FairSpec == Spec /\ Fairness

-----------------------------------------------------------------------------
(* Properties *)

\* Handler returns nil only when Redis has executed the command of every row:
\* no error of a sender, a flusher, a receiver, a worker or of the reader of
\* the file gets lost on its way over errs, and none comes after it is closed.
SuccessMeansStored == handler = "ok" => applied = 1 .. Rows

\* As long as nothing fails no goroutine sends on a closed channel.
NoPanicUnlessFailure == panicked => faults > 0

\* Replies come in the order of the commands, so that each one goes to the
\* Result channel of its command, as long as a connection works; except for the
\* last command of a sender that was cancelled before it could put the channel
\* into recv.
RepliesMatch ==
    \A w \in Workers :
        conn[w] = "up" /\ (exitImmediately => sender[w] \notin {"err", "done"}) => Matched(w)

\* Never do the sender and the receiver of a worker wait for each other: when
\* recv is full and the receiver waits for a reply, Redis has the command.
NoFlushDeadlock ==
    \A w \in Workers :
        sender[w] = "push" /\ Len(recv[w]) = FlushAfter /\ receiver[w] = "receive"
          => conn[w] # "up" \/ inflight[w] # << >>

\* Handler returns and all of its goroutines end, whatever fails (leaktest in
\* the loaders' tests); or the process ends by a panic.
AllGoroutinesEnd == <>(panicked \/ Finished)
=============================================================================
