---------------------------- MODULE HelmRecorder ----------------------------
(***************************************************************************)
(* HelmOperationRecorder (object/helm_operation_recorder.go): the log      *)
(* lines of one operation travel from the goroutines that call RecordLog   *)
(* through a bounded channel to the recorder's goroutine, which writes     *)
(* them to helm_operation_log in batches.  Finish closes the channel once  *)
(* no writer is using it, waits for the goroutine within a limit, and then *)
(* closes the task's row (HelmTasks models what that does to the row).     *)
(*                                                                         *)
(* A line is the number of lines accepted before it, plus one.             *)
(***************************************************************************)
EXTENDS Naturals, Sequences

CONSTANTS
    Writers,       \* goroutines that log: the runner, the reporter, Helm's own
    BatchSize,     \* helmOperationLogBatchSize
    MaxLines,      \* bound: lines accepted in a behaviour
    DbMayFail,     \* may a database call fail, or commit and lose its reply?
    DriverHangs,   \* may a database call outlast the end of its context?
    PanicsAllowed  \* may persisting panic?

VARIABLES
    writer,     \* where each writer stands in RecordLog
    accepted,   \* lines RecordLog has accepted
    queue,      \* the channel's buffer
    closed,     \* r.closed
    chanClosed, \* has close(r.queue) happened?
    run,        \* where the recorder's goroutine stands
    batch,      \* lines taken from the channel and not written yet
    saved,      \* rows of helm_operation_log
    batchErr,   \* is r.batchErr set?
    cancelled,  \* has persistCtx been cancelled?
    fin,        \* where Finish stands
    spent,      \* database calls Finish has had to wait for
    warned      \* has Finish logged that lines were lost?

logVars == <<accepted, queue, saved>>
finVars == <<closed, chanClosed, cancelled, fin, warned>>
vars == <<writer, logVars, run, batch, batchErr, finVars, spent>>

QueueCap == 2 * BatchSize

\* helmOperationRecorderShutdown leaves room for three calls of
\* helmOperationLogPersistTimeout.
ShutdownCalls == 3

\* "last" is the flush after the channel has been found closed and empty.
Busy == run \in {"flush", "last", "touch"}

----------------------------------------------------------------------------
(* RecordLog.  A call after Finish has begun is refused and changes nothing. *)

RecordBegin(w) ==
    /\ writer[w] = "idle" /\ ~closed /\ accepted < MaxLines
    /\ writer' = [writer EXCEPT ![w] = "sending"]
    /\ UNCHANGED <<logVars, run, batch, batchErr, finVars, spent>>

RecordEnqueue(w) ==
    /\ writer[w] = "sending" /\ Len(queue) < QueueCap /\ accepted < MaxLines
    /\ writer' = [writer EXCEPT ![w] = "idle"]
    /\ accepted' = accepted + 1
    /\ queue' = Append(queue, accepted + 1)
    /\ UNCHANGED <<saved, run, batch, batchErr, finVars, spent>>

\* The enqueue timer fires on a full channel, and the line is refused.  (A line
\* beyond the bound on lines is refused as well.)
RecordTimesOut(w) ==
    /\ writer[w] = "sending"
    /\ Len(queue) = QueueCap \/ accepted = MaxLines
    /\ writer' = [writer EXCEPT ![w] = "idle"]
    /\ UNCHANGED <<logVars, run, batch, batchErr, finVars, spent>>

----------------------------------------------------------------------------
(* run(), the recorder's goroutine.                                         *)

\* A call that begins once Finish is waiting counts against its timer.
Begins == spent' = IF chanClosed /\ spent <= ShutdownCalls THEN spent + 1 ELSE spent

\* flush() of a non-empty batch, after which the loop goes to "next".  Under a
\* cancelled context it fails before it reaches the database.
Flush(lines, call, next) ==
    \/ /\ ~cancelled
       /\ batch' = lines /\ run' = call
       /\ Begins
       /\ UNCHANGED batchErr
    \/ /\ cancelled
       /\ batch' = <<>> /\ run' = next
       /\ batchErr' = TRUE
       /\ UNCHANGED spent

TakeLine ==
    /\ run = "select" /\ queue # <<>>
    /\ queue' = Tail(queue)
    /\ LET lines == Append(batch, Head(queue))
       IN  \/ Len(lines) >= BatchSize /\ Flush(lines, "flush", "select")
           \/ /\ Len(lines) < BatchSize
              /\ batch' = lines
              /\ UNCHANGED <<run, batchErr, spent>>
    /\ UNCHANGED <<writer, accepted, saved, finVars>>

FlushTick ==
    /\ run = "select" /\ batch # <<>>
    /\ Flush(batch, "flush", "select")
    /\ UNCHANGED <<writer, logVars, finVars>>

HeartbeatTick ==
    /\ run = "select" /\ ~cancelled
    /\ run' = "touch"
    /\ Begins
    /\ UNCHANGED <<writer, logVars, batch, batchErr, finVars>>

Drained ==
    /\ run = "select" /\ chanClosed /\ queue = <<>>
    /\ \/ batch = <<>> /\ run' = "ended" /\ UNCHANGED <<batch, batchErr, spent>>
       \/ batch # <<>> /\ Flush(batch, "last", "ended")
    /\ UNCHANGED <<writer, logVars, finVars>>

AfterCall == IF run = "last" THEN "ended" ELSE "select"

PersistSucceeds ==
    /\ run \in {"flush", "last"}
    /\ saved' = saved \o batch
    /\ batch' = <<>> /\ run' = AfterCall
    /\ UNCHANGED <<writer, accepted, queue, batchErr, finVars, spent>>

\* The transaction fails, or commits and its reply is lost.  The batch is given
\* up either way.
PersistFails ==
    /\ DbMayFail \/ cancelled
    /\ run \in {"flush", "last"}
    /\ saved' \in {saved, saved \o batch}
    /\ batch' = <<>> /\ run' = AfterCall
    /\ batchErr' = TRUE
    /\ UNCHANGED <<writer, accepted, queue, finVars, spent>>

\* Variant: the recovered panic is only logged.
PersistPanicsUnnoticed ==
    /\ PanicsAllowed /\ Busy
    /\ run' = "ended"
    /\ UNCHANGED <<writer, logVars, batch, batchErr, finVars, spent>>

\* The transaction is rolled back, the panic recovered, and done closed.
PersistPanics ==
    /\ PanicsAllowed /\ Busy
    /\ run' = "ended"
    /\ batchErr' = TRUE
    /\ UNCHANGED <<writer, logVars, batch, finVars, spent>>

TouchReturns ==
    /\ run = "touch"
    /\ run' = "select"
    /\ UNCHANGED <<writer, logVars, batch, batchErr, finVars, spent>>

----------------------------------------------------------------------------
(* Finish.                                                                  *)

FinishBegins ==
    /\ fin = "none"
    /\ closed' = TRUE /\ fin' = "writers"
    /\ UNCHANGED <<writer, logVars, run, batch, batchErr, chanClosed, cancelled, warned, spent>>

\* writers.Wait(), then close(r.queue); the shutdown timer starts here, with the
\* call the goroutine may be in the middle of.
FinishCloses ==
    /\ fin = "writers"
    /\ \A w \in Writers : writer[w] = "idle"
    /\ chanClosed' = TRUE /\ fin' = "draining"
    /\ spent' = IF Busy THEN 1 ELSE 0
    /\ UNCHANGED <<writer, logVars, run, batch, batchErr, closed, cancelled, warned>>

FinishDrained ==
    /\ fin = "draining" /\ run = "ended"
    /\ cancelled' = TRUE /\ fin' = "closing"
    /\ UNCHANGED <<writer, logVars, run, batch, batchErr, closed, chanClosed, warned, spent>>

\* The shutdown timer fires: a call is still out after three have used up their
\* time, or it does not respect its context.
ShutdownExpires ==
    /\ fin = "draining" /\ Busy
    /\ spent > ShutdownCalls \/ DriverHangs
    /\ batchErr' = TRUE
    /\ cancelled' = TRUE /\ fin' = "grace"
    /\ UNCHANGED <<writer, logVars, run, batch, closed, chanClosed, warned, spent>>

\* The goroutine ends within the grace period, or Finish goes on without it.
GraceEnds ==
    /\ fin = "grace"
    /\ fin' = "closing"
    /\ UNCHANGED <<writer, logVars, run, batch, batchErr, closed, chanClosed, cancelled, warned, spent>>

\* The task's row is closed, and lost lines are reported in the server's log.
FinishReturns ==
    /\ fin = "closing"
    /\ fin' = "returned"
    /\ warned' = batchErr
    /\ UNCHANGED <<writer, logVars, run, batch, batchErr, closed, chanClosed, cancelled, spent>>

----------------------------------------------------------------------------
Init ==
    /\ writer = [w \in Writers |-> "idle"]
    /\ accepted = 0 /\ queue = <<>> /\ saved = <<>>
    /\ closed = FALSE /\ chanClosed = FALSE
    /\ run = "select" /\ batch = <<>>
    /\ batchErr = FALSE /\ cancelled = FALSE
    /\ fin = "none" /\ spent = 0 /\ warned = FALSE

RecordLog(w) == RecordBegin(w) \/ RecordEnqueue(w) \/ RecordTimesOut(w)
DbReturns == PersistSucceeds \/ PersistFails \/ PersistPanics \/ TouchReturns
Loop == TakeLine \/ FlushTick \/ HeartbeatTick \/ Drained
Finish ==
    \/ FinishBegins \/ FinishCloses \/ FinishDrained
    \/ ShutdownExpires \/ GraceEnds \/ FinishReturns

Next == (\E w \in Writers : RecordLog(w)) \/ DbReturns \/ Loop \/ Finish

Spec == Init /\ [][Next]_vars

(* A writer in its select leaves it, the goroutine's loop goes on, Finish does *)
(* what it can do next.  A call returns only if the driver respects its        *)
(* context; the loop's own choices are not fair to any one channel, except     *)
(* that a closed and empty one is seen sooner or later.                        *)
FairSpec ==
    /\ Spec
    /\ \A w \in Writers : WF_vars(RecordEnqueue(w) \/ RecordTimesOut(w))
    /\ SF_vars(TakeLine) /\ SF_vars(Drained)
    /\ WF_vars(FinishCloses \/ FinishDrained \/ ShutdownExpires \/ GraceEnds \/ FinishReturns)
    /\ ~DriverHangs => WF_vars(DbReturns)

----------------------------------------------------------------------------
(* Every variable stays in its type; the buffers within their limits.        *)
TypeOK ==
    /\ writer \in [Writers -> {"idle", "sending"}]
    /\ accepted \in 0..MaxLines
    /\ queue \in Seq(1..MaxLines) /\ Len(queue) <= QueueCap
    /\ closed \in BOOLEAN /\ chanClosed \in BOOLEAN
    /\ run \in {"select", "flush", "last", "touch", "ended"}
    /\ batch \in Seq(1..MaxLines) /\ Len(batch) <= BatchSize
    /\ saved \in Seq(1..MaxLines)
    /\ batchErr \in BOOLEAN /\ cancelled \in BOOLEAN /\ warned \in BOOLEAN
    /\ fin \in {"none", "writers", "draining", "grace", "closing", "returned"}
    /\ spent \in 0..(ShutdownCalls + 1)

(* No line is sent on the closed channel, which would end the process: the    *)
(* channel is closed only when no writer is inside its select, however a       *)
(* late RecordLog and Finish interleave.                                       *)
NoSendOnClosed == chanClosed => \A w \in Writers : writer[w] # "sending"

(* Lines are written in the order they were accepted and never twice, also    *)
(* when a batch commits and its reply is lost.                                 *)
NeverTwice == \A m, n \in 1..Len(saved) : m < n => saved[m] < saved[n]

(* An operation whose Finish has returned without a warning has all its lines *)
(* in the table: no accepted line is lost silently, through a failed batch, a  *)
(* panic, a slow database or the shutdown timer.                                *)
NoSilentLoss ==
    fin = "returned" /\ ~warned => saved = [n \in 1..accepted |-> n]

(* Finish returns, although the goroutine may have panicked in front of a full *)
(* channel and a database call may never return.                                *)
FinishTerminates == fin = "writers" ~> fin = "returned"

(* If every database call returns, the goroutine ends after Finish has begun, and *)
(* no recorder is leaked.                                                          *)
RecorderEnds == []<>~Busy => (closed ~> run = "ended")

(* What is written is what was accepted: the three above, at every moment.     *)
LinesKept == NoSendOnClosed /\ NeverTwice /\ NoSilentLoss
(* Finish comes back to its caller, and the recorder it leaves behind ends.    *)
RecorderFinishes == FinishTerminates /\ RecorderEnds
=============================================================================
