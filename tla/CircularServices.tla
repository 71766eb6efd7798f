--------------------------- MODULE CircularServices ---------------------------
(***************************************************************************)
(* circular-services/circular_services.go and transxchange/transxchange.go: *)
(* a Lambda function that finds the newest ZIP file of a bucket, reads all  *)
(* of its TransXChange files at the same time, a goroutine for each, and    *)
(* sets a key for every line and operator of a circular service through a   *)
(* RedisPipeline.  One call of Handler is modelled.                         *)
(*                                                                          *)
(* A command is the key it sets.  Operator codes and lines are numbers such *)
(* that a sum stands for the concatenation that a key is.  The description  *)
(* of the service, which becomes the value, counts only in so far as one of *)
(* the search terms is in it, which makes the service a circular one, or    *)
(* none is, or one that is no regular expression comes first (search).      *)
(***************************************************************************)
EXTENDS RedisPipeline

CONSTANTS Buckets,          \* what is in the bucket: its listing, page by page
          Days,             \* days on which Handler may be called
          NoEnd, BadDate    \* no end date; a date that does not parse

Service ==
    [start : Nat \cup {BadDate}, end : Nat \cup {NoEnd, BadDate}, lines : Seq(Nat),
     search : {"found", "none", "badTerm"}]

File == [operators : Seq(Nat), services : Seq(Service)]

Object == [zip : BOOLEAN, modified : Nat, files : Seq(File)]

ASSUME CircularAssumption ==
    /\ Days \subseteq Nat
    /\ NoEnd \notin Nat /\ BadDate \notin Nat /\ NoEnd # BadDate
    /\ \A b \in Buckets : b \in Seq(Seq(Object)) /\ b # << >>

VARIABLES
    bucket, today,
    handler,        \* "list", "get", "errs" (in the loop over errs), "ok", "error", "exited"
    page, objects,  \* listZipObjects: the next page, and the ZIP files found so far
    zipFiles,       \* the files of the ZIP file
    file,           \* by file: where its goroutine is
    svc,            \* by file: the service it is at
    cmds            \* by file: the commands that it has left to send

env    == <<bucket, today>>
listing == <<page, objects, zipFiles>>
goroutines == <<file, svc, cmds>>
loader == <<env, handler, listing, goroutines>>
vars   == <<channels, panicked, workers, applied, faults, loader>>

pipeline == <<workers, applied>>

Init ==
    /\ InitPipeline
    /\ bucket \in Buckets /\ today \in Days
    /\ handler = "list"
    /\ page = 1 /\ objects = {} /\ zipFiles = << >>
    /\ file = << >> /\ svc = << >> /\ cmds = << >>

\* Goroutines run once Handler has started them, and as long as the process.
Running == handler \in {"errs", "ok", "error"} /\ ~ panicked

-----------------------------------------------------------------------------
(* TransXChange.Download *)

\* The ZIP files on a page of the listing.
ZipsOn(p) == {o \in Range(bucket[p]) : o.zip}

\* Variant: only the first page is asked for.
ListFirstPage ==
    /\ handler = "list"
    /\ objects' = objects \cup ZipsOn(page)
    /\ handler' = "get"
    /\ UNCHANGED <<channels, panicked, pipeline, faults, env, page, zipFiles, goroutines>>

\* listZipObjects: a page of the listing, and the next one if there is any.
ListPage ==
    /\ handler = "list"
    /\ objects' = objects \cup ZipsOn(page)
    /\ IF page = Len(bucket)
       THEN handler' = "get" /\ UNCHANGED page
       ELSE page' = page + 1 /\ UNCHANGED handler
    /\ UNCHANGED <<channels, panicked, pipeline, faults, env, zipFiles, goroutines>>

\* getLastModifiedObject: sort.Sort leaves ties in any order.
Newest(zips) == {o \in zips : \A p \in zips : p.modified <= o.modified}

\* getObject, then the goroutines start, one for each file of the ZIP.  The
\* last element of an empty slice is a panic.
GetNewest ==
    /\ handler = "get"
    /\ \/ /\ objects = {} /\ Panic
          /\ UNCHANGED <<handler, zipFiles, goroutines>>
       \/ \E o \in Newest(objects) :
            /\ zipFiles' = o.files
            /\ file' = [f \in DOMAIN o.files |-> "open"]
            /\ svc' = [f \in DOMAIN o.files |-> 1]
            /\ cmds' = [f \in DOMAIN o.files |-> << >>]
            /\ handler' = "errs"
            /\ Quietly
    /\ UNCHANGED <<send, sendClosed, others, pipeline, faults, env, page, objects>>

\* Logger.Fatal ends the process.
DownloadFails ==
    /\ handler \in {"list", "get"} /\ Fault
    /\ handler' = "exited"
    /\ UNCHANGED <<channels, panicked, pipeline, env, listing, goroutines>>

-----------------------------------------------------------------------------
(* Handler, and waitForRedisPipeline *)

\* <-done; close(errs)
CloseErrs ==
    /\ handler = "errs" /\ done /\ ~ errsClosed
    /\ errsClosed' = TRUE
    /\ UNCHANGED <<send, sendClosed, gErr, exitImmediately, done, panicked, pipeline, faults,
                   loader>>

\* The loop over errs ends, and the deferred close(exitImmediately) runs.
Return ==
    /\ handler = "errs" /\ errsClosed
    /\ handler' = IF gErr THEN "error" ELSE "ok"
    /\ exitImmediately' = TRUE
    /\ UNCHANGED <<send, sendClosed, errsClosed, gErr, done, panicked, pipeline, faults, env,
                   listing, goroutines>>

-----------------------------------------------------------------------------
(* processTransXChangeFiles and processTransXChangeFile *)

At(f, pc) == file[f] = pc

Goes(f, pc) == file' = [file EXCEPT ![f] = pc]

\* What the steps of one goroutine that only compute leave alone.
Alone == UNCHANGED <<channels, panicked, pipeline, env, handler, listing>>

Open(f) ==
    /\ At(f, "open")
    /\ \/ Goes(f, "read") /\ UNCHANGED faults
       \/ Goes(f, "lastErr") /\ Fault
    /\ UNCHANGED <<svc, cmds>> /\ Alone

\* ReadAll and Unmarshal.  An empty file is one without services.
Read(f) ==
    /\ At(f, "read")
    /\ \/ Goes(f, "services") /\ UNCHANGED faults
       \/ Goes(f, "err") /\ Fault
    /\ UNCHANGED <<svc, cmds>> /\ Alone

\* The dates that are looked at: the end date only once the service has begun.
Unparsed(s) ==
    IF s.start = BadDate THEN TRUE ELSE s.start <= today /\ s.end = BadDate

\* Not "start date is in the future", and not "end date is in the past".
Current(s) ==
    /\ ~ Unparsed(s)
    /\ s.start <= today
    /\ IF s.end = NoEnd THEN TRUE ELSE s.end >= today

\* A current service whose description contains a search term.
Circular(s) == Current(s) /\ s.search = "found"

\* A date, or a search term, is not what it should be.
Fails(s) == Unparsed(s) \/ (Current(s) /\ s.search = "badTerm")

\* addCommandToSendChan is called for each line and each operator.
Commands(s, operators) ==
    LET n == Len(operators)
    IN  [i \in 1 .. Len(s.lines) * n |->
            operators[((i - 1) % n) + 1] + s.lines[((i - 1) \div n) + 1]]

\* Variant: a date that does not parse, or a term, is passed over.
NextServiceIgnoringDates(f) ==
    /\ At(f, "services")
    /\ IF svc[f] > Len(zipFiles[f].services)
       THEN Goes(f, "close") /\ UNCHANGED <<svc, cmds>>
       ELSE LET s == zipFiles[f].services[svc[f]]
            IN  IF Circular(s)
                THEN /\ Goes(f, "push")
                     /\ cmds' = [cmds EXCEPT ![f] = Commands(s, zipFiles[f].operators)]
                     /\ UNCHANGED svc
                ELSE svc' = [svc EXCEPT ![f] = @ + 1] /\ UNCHANGED <<file, cmds>>
    /\ UNCHANGED faults /\ Alone

\* The loop over the services ends with the first current one that is circular,
\* with the first date that cannot be parsed, and with a search term that does not
\* compile.
NextService(f) ==
    /\ At(f, "services")
    /\ IF svc[f] > Len(zipFiles[f].services)
       THEN Goes(f, "close") /\ UNCHANGED <<svc, cmds>>
       ELSE LET s == zipFiles[f].services[svc[f]]
            IN  \/ Fails(s) /\ Goes(f, "err") /\ UNCHANGED <<svc, cmds>>
                \/ /\ Circular(s)
                   /\ Goes(f, "push")
                   /\ cmds' = [cmds EXCEPT ![f] = Commands(s, zipFiles[f].operators)]
                   /\ UNCHANGED svc
                \/ /\ ~ Fails(s) /\ ~ Circular(s)
                   /\ svc' = [svc EXCEPT ![f] = @ + 1]
                   /\ UNCHANGED <<file, cmds>>
    /\ UNCHANGED faults /\ Alone

\* addCommandToSendChan: case send <- command, a panic once send is closed.
PushCommand(f) ==
    /\ At(f, "push") /\ cmds[f] # << >>
    /\ IF sendClosed
       THEN Panic /\ UNCHANGED <<send, cmds>>
       ELSE /\ Len(send) < FlushAfter
            /\ send' = Append(send, Head(cmds[f]))
            /\ cmds' = [cmds EXCEPT ![f] = Tail(@)]
            /\ Quietly
    /\ UNCHANGED <<sendClosed, others, pipeline, faults, env, handler, listing, file, svc>>

\* Variant: waits for room in send whatever happens.
PushWaits(f) ==
    /\ At(f, "push") /\ cmds[f] # << >> /\ exitImmediately
    /\ UNCHANGED vars

\* case <-exitImmediately: an error, and on to the next command.
PushCancelled(f) ==
    /\ At(f, "push") /\ cmds[f] # << >> /\ exitImmediately
    /\ SendErr
    /\ cmds' = [cmds EXCEPT ![f] = Tail(@)]
    /\ UNCHANGED <<send, sendClosed, others, pipeline, faults, env, handler, listing, file, svc>>

PushEnds(f) ==
    /\ At(f, "push") /\ cmds[f] = << >>
    /\ Goes(f, "close")
    /\ UNCHANGED <<svc, cmds, faults>> /\ Alone

\* errs <- err; return.  After "err" there is an open file.
FileSendsErr(f) ==
    /\ file[f] \in {"err", "lastErr"}
    /\ SendErr
    /\ Goes(f, IF At(f, "err") THEN "close" ELSE "done")
    /\ UNCHANGED <<send, sendClosed, others, pipeline, faults, env, handler, listing, svc, cmds>>

\* The deferred f.Close(), which may fail; then wg.Done().
CloseFile(f) ==
    /\ At(f, "close")
    /\ \/ Goes(f, "done") /\ UNCHANGED faults
       \/ Goes(f, "lastErr") /\ Fault
    /\ UNCHANGED <<svc, cmds>> /\ Alone

FileStep(f) ==
    \/ Open(f) \/ Read(f) \/ NextService(f) \/ PushCommand(f) \/ PushCancelled(f)
    \/ PushEnds(f) \/ FileSendsErr(f) \/ CloseFile(f)

\* Variant: one goroutine that ends is waited for.
CloseSendFirst ==
    /\ ~ sendClosed
    /\ \E f \in DOMAIN file : At(f, "done")
    /\ sendClosed' = TRUE
    /\ UNCHANGED <<send, gErr, others, panicked, pipeline, faults, loader>>

\* wg.Wait(), then the deferred close(send).
CloseSend ==
    /\ ~ sendClosed
    /\ \A f \in DOMAIN file : At(f, "done")
    /\ sendClosed' = TRUE
    /\ UNCHANGED <<send, gErr, others, panicked, pipeline, faults, loader>>

-----------------------------------------------------------------------------
Finished ==
    /\ handler \in {"ok", "error"} /\ sendClosed /\ WorkersFinished
    /\ \A f \in DOMAIN file : At(f, "done")

\* Nothing is left to do: every goroutine has ended, or the process has.
Terminated == (panicked \/ handler = "exited" \/ Finished) /\ UNCHANGED vars

\* The steps of the pipeline leave the loader alone.
Sender(w)   == Running /\ SenderStep(w) /\ UNCHANGED loader
Flusher(w)  == Running /\ FlusherStep(w) /\ UNCHANGED loader
Receiver(w) == Running /\ ReceiverStep(w) /\ UNCHANGED loader
Worker(w)   == Running /\ WorkerStep(w) /\ UNCHANGED loader
Pipeline    == Running /\ PipelineDone /\ UNCHANGED loader
Waiter      == Running /\ CloseErrs
Files       == Running /\ CloseSend
FileGoes(f) == Running /\ f \in DOMAIN file /\ FileStep(f)
Handler     == ~ panicked /\ (ListPage \/ GetNewest \/ DownloadFails \/ Return)

\* The numbers of the files of any ZIP file.
FileNumbers ==
    UNION { DOMAIN o.files : o \in UNION { UNION {Range(p) : p \in Range(b)} : b \in Buckets } }

Next ==
    \/ Handler \/ Files \/ Pipeline \/ Waiter
    \/ \E f \in FileNumbers : FileGoes(f)
    \/ \E w \in Workers :
         \/ Sender(w) \/ Flusher(w) \/ Receiver(w) \/ Worker(w)
         \/ Running /\ ConnBreaks(w) /\ UNCHANGED loader
    \/ Terminated

Spec == Init /\ [][Next]_vars

\* Every goroutine that can run is run in the end; calls to Redis and to the
\* bucket return.
Fairness ==
    /\ WF_vars(Handler) /\ WF_vars(Files) /\ WF_vars(Pipeline) /\ WF_vars(Waiter)
    /\ \A f \in FileNumbers : WF_vars(FileGoes(f))
    /\ \A w \in Workers :
         WF_vars(Sender(w)) /\ WF_vars(Flusher(w)) /\ WF_vars(Receiver(w)) /\ WF_vars(Worker(w))

FairSpec == Spec /\ Fairness

-----------------------------------------------------------------------------
(* Properties *)

\* The keys of a file: those of its first service that is circular and runs today.
Keys(f) ==
    LET found == {k \in DOMAIN f.services : Circular(f.services[k])}
    IN  { operator + line : operator \in Range(f.operators),
            line \in UNION {Range(f.services[k].lines) :
                               k \in {i \in found : \A j \in found : i <= j}} }

AllKeys(o) == UNION {Keys(f) : f \in Range(o.files)}

\* The ZIP files of the whole bucket.
Zips == UNION {ZipsOn(p) : p \in DOMAIN bucket}

\* A date that cannot be read, or a search term that cannot be searched for, comes
\* before the service that the keys are of.
Unreadable(f) ==
    \E k \in DOMAIN f.services :
        Fails(f.services[k]) /\ \A j \in 1 .. k - 1 : ~ Circular(f.services[j])

\* Handler returns nil only when Redis has every key of one of the newest ZIP
\* files of the bucket, on whatever page of the listing it is, whichever way the
\* goroutines of its files took turns at the channel; and all its files could be
\* read as far as that takes.
SuccessMeansStored ==
    handler = "ok" =>
        \E o \in Newest(Zips) :
            applied = AllKeys(o) /\ ~ \E f \in Range(o.files) : Unreadable(f)

\* Whatever fails, no key is set of a service that does not run today or is not
\* circular, of a second service of a file, or of a ZIP file that is not the newest.
OnlyKeysOfNewest == applied # {} => \E o \in Newest(Zips) : applied \subseteq AllKeys(o)

\* As long as nothing fails and there is a ZIP file, no goroutine sends on a
\* closed channel: send is closed after the last file's goroutine, and errs
\* after the last worker.
NoPanicUnlessFailure == panicked => faults > 0 \/ Zips = {}

\* Every goroutine ends, however many files wait for room in send (leaktest in
\* TestCircularServices_Handler); or the process does.
AllGoroutinesEnd == <>(panicked \/ handler = "exited" \/ Finished)
=============================================================================
