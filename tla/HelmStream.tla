----------------------------- MODULE HelmStream -----------------------------
(***************************************************************************)
(* The event stream of one Helm operation (installHelmChartStream and      *)
(* runHelmUpgradeStream in store/helm.go): the goroutine that runs the     *)
(* operation, the progress reporter (store/helm_progress.go) and the       *)
(* fail-fast watcher (store/helm_failfast.go) that it starts and stops,    *)
(* Helm's own goroutine, and the handler that copies the events to the     *)
(* browser (controllers/helm.go).  They share one bounded channel, closed  *)
(* by the goroutine that runs the operation.                               *)
(*                                                                         *)
(* What Finish does is modelled by HelmRecorder and HelmTasks; here it     *)
(* succeeds or fails.                                                      *)
(***************************************************************************)
EXTENDS Naturals, Sequences

CONSTANTS
    EventCap,     \* the channel's capacity
    MaxLines,     \* bound: log lines and warnings sent in a behaviour
    LogsLate      \* may Helm's goroutine, which outlives a cancelled call, still log?

VARIABLES
    op,        \* install or upgrade
    runner,    \* where the goroutine that runs the operation stands
    sending,   \* the event it is about to send
    after,     \* where it goes once the event is sent
    result,    \* what Helm's call returned
    reporter,  \* the progress reporter
    stopping,  \* has progress.Stop been called?
    watcher,   \* the fail-fast watcher
    unwatch,   \* has failFast.Stop been called?
    cancelled, \* is the context of Helm's call done?
    helm,      \* Helm's own goroutine
    finish,    \* what Finish has recorded
    asked,     \* the outcome Finish was asked to record
    errorLine, \* has the recorder accepted an ERROR line?
    events,    \* the channel's buffer
    chanClosed,
    browser,   \* the handler and the browser behind it
    last,      \* last event the browser has received
    lines      \* log lines and warnings sent so far

runVars == <<runner, sending, after, result>>
helpVars == <<reporter, stopping, watcher, unwatch, cancelled>>
rowVars == <<finish, asked, errorLine>>
chanVars == <<events, chanClosed>>
webVars == <<browser, last>>
vars == <<op, runVars, helpVars, helm, rowVars, chanVars, webVars, lines>>

Ended == {"error", "done"}
StreamDone == browser # "reading"

----------------------------------------------------------------------------
(* send: RecordLog, which the recorder refuses once Finish has begun, then   *)
(* the channel or the end of the request.  A repeated log line is dropped     *)
(* before that, and changes nothing.                                          *)

Line == lines < MaxLines /\ lines' = lines + 1

\* The runner starts to send an event.
Sends(event, then) ==
    /\ runner' = "sending" /\ sending' = event /\ after' = then
    /\ errorLine' = (errorLine \/ (event = "error" /\ asked = "none"))

\* finishWithError: the error first, so that the recorder still takes it.
Fails(then) == Sends("error", then)

\* Variant: the end of the request does not end a send.
PushWaits(event) == Len(events) < EventCap /\ events' = Append(events, event)

\* One side of the select of send.
Push(event) ==
    \/ Len(events) < EventCap /\ events' = Append(events, event)
    \/ StreamDone /\ events' = events

RunnerSent ==
    /\ runner = "sending"
    /\ Push(sending)
    /\ runner' = after
    /\ sending' = "none" /\ after' = "none"
    /\ UNCHANGED <<op, result, helpVars, helm, rowVars, chanClosed, webVars, lines>>

----------------------------------------------------------------------------
(* The goroutine of the operation.  An install prepares before it is marked   *)
(* as installing, an upgrade after.                                           *)

Moves(to) == runner' = to /\ UNCHANGED <<sending, after, errorLine>>
Rest == UNCHANGED <<op, finish, asked, chanVars, webVars>>

StartLoading ==
    /\ runner = "start"
    /\ Moves(IF op = "install" THEN "prepare" ELSE "mark") \/ Fails("finishError")
    /\ UNCHANGED <<result, helpVars, helm, lines>> /\ Rest

\* Configuration, node preflight, chart, values and compatibility.
Prepare ==
    /\ runner = "prepare"
    /\ \/ Sends("log", "prepare") /\ Line
       \/ Fails("finishError") /\ UNCHANGED lines
       \/ Moves(IF op = "install" THEN "mark" ELSE "launch") /\ UNCHANGED lines
    /\ UNCHANGED <<result, helpVars, helm>> /\ Rest

MarkInstalling ==
    /\ runner = "mark"
    /\ Moves(IF op = "install" THEN "launch" ELSE "prepare") \/ Fails("finishError")
    /\ UNCHANGED <<result, helpVars, helm, lines>> /\ Rest

\* The reporter, for an install the watcher, and RunWithContext.
Launch ==
    /\ runner = "launch"
    /\ Moves("helm")
    /\ reporter' = "waiting"
    /\ watcher' = IF op = "install" THEN "watching" ELSE watcher
    /\ helm' = "running"
    /\ UNCHANGED <<result, stopping, unwatch, cancelled, lines>> /\ Rest

Returns(outcome) ==
    /\ Moves(IF op = "install" THEN "stopWatcher" ELSE "stopReporter")
    /\ result' = outcome
    /\ UNCHANGED <<helpVars, lines>> /\ Rest

HelmReturns ==
    /\ runner = "helm" /\ helm = "running"
    /\ \E outcome \in {"success", "failure"} : Returns(outcome)
    /\ helm' = "ended"

\* RunWithContext returns as soon as its context is done, and leaves its
\* goroutine behind.
HelmIsCancelled ==
    /\ runner = "helm" /\ cancelled
    /\ LogsLate \/ helm = "running"
    /\ Returns("failure")
    /\ UNCHANGED helm

\* failFast.Stop: cancel the watch and wait for the goroutine.
StopWatcher ==
    /\ runner = "stopWatcher"
    /\ unwatch' = TRUE
    /\ IF watcher = "ended" THEN Moves("stopReporter") ELSE Moves("stopWatcher")
    /\ UNCHANGED <<result, reporter, stopping, watcher, cancelled, helm, lines>> /\ Rest

\* Variant: the reporter is told to stop and not waited for.
StopReporterAtOnce ==
    /\ runner = "stopReporter"
    /\ stopping' = TRUE
    /\ Moves(IF result = "success" THEN "readiness" ELSE "diagnose")
    /\ UNCHANGED <<result, reporter, watcher, unwatch, cancelled, helm, lines>> /\ Rest

\* progress.Stop: likewise.
StopReporter ==
    /\ runner = "stopReporter"
    /\ stopping' = TRUE
    /\ IF reporter = "ended"
       THEN Moves(IF result = "success" THEN "readiness" ELSE "diagnose")
       ELSE Moves("stopReporter")
    /\ UNCHANGED <<result, reporter, watcher, unwatch, cancelled, helm, lines>> /\ Rest

\* Diagnostics and cleanup of a failed operation.
Diagnose ==
    /\ runner = "diagnose"
    /\ \/ Sends("log", "diagnose") /\ Line
       \/ Fails("finishError") /\ UNCHANGED lines
    /\ UNCHANGED <<result, helpVars, helm>> /\ Rest

Readiness ==
    /\ runner = "readiness"
    /\ \/ Sends("warning", "readiness") /\ Line
       \/ Moves("finish") /\ UNCHANGED lines
    /\ UNCHANGED <<result, helpVars, helm>> /\ Rest

FinishError ==
    /\ runner = "finishError"
    /\ asked' = "failure" /\ finish' \in {"failed", "unknown"}
    /\ Moves("close")
    /\ UNCHANGED <<op, result, helpVars, helm, chanVars, webVars, lines>>

\* Finish(nil).  "done" is not logged, and an error that comes after Finish is
\* refused by the recorder.
Finish ==
    /\ runner = "finish"
    /\ asked' = "success"
    /\ \/ finish' = "succeeded" /\ Sends("done", "close")
       \/ /\ finish' = "unknown" /\ UNCHANGED errorLine
          /\ runner' = "sending" /\ sending' = "error" /\ after' = "close"
    /\ UNCHANGED <<op, result, helpVars, helm, chanVars, webVars, lines>>

\* The deferred cancelInstall and close(eventCh).
Close ==
    /\ runner = "close"
    /\ Moves("gone")
    /\ cancelled' = TRUE /\ chanClosed' = TRUE
    /\ UNCHANGED <<op, result, reporter, stopping, watcher, unwatch, helm, finish, asked,
                   events, webVars, lines>>

----------------------------------------------------------------------------
(* The progress reporter.                                                   *)

Aside == UNCHANGED <<op, runVars, rowVars, chanClosed, webVars>>

ReporterReports ==
    /\ reporter = "waiting" /\ Line
    /\ reporter' = "sending"
    /\ UNCHANGED <<stopping, watcher, unwatch, cancelled, helm, events>> /\ Aside

ReporterSent ==
    /\ reporter = "sending"
    /\ Push("log")
    /\ reporter' = "waiting"
    /\ UNCHANGED <<stopping, watcher, unwatch, cancelled, helm, lines>> /\ Aside

ReporterEnds ==
    /\ reporter = "waiting" /\ (stopping \/ cancelled)
    /\ reporter' = "ended"
    /\ UNCHANGED <<stopping, watcher, unwatch, cancelled, helm, events, lines>> /\ Aside

----------------------------------------------------------------------------
(* The fail-fast watcher, and the deadline of the operation.                 *)

\* A container has crashed past the threshold; a poll that was under way when
\* Stop was called may still end like this.  (The reason only words the error.)
WatcherTrips ==
    /\ watcher = "watching"
    /\ watcher' = "ended" /\ cancelled' = TRUE
    /\ UNCHANGED <<reporter, stopping, unwatch, helm, events, lines>> /\ Aside

WatcherEnds ==
    /\ watcher = "watching" /\ (unwatch \/ cancelled)
    /\ watcher' = "ended"
    /\ UNCHANGED <<reporter, stopping, unwatch, cancelled, helm, events, lines>> /\ Aside

Deadline ==
    /\ runner = "helm" /\ ~cancelled
    /\ cancelled' = TRUE
    /\ UNCHANGED <<reporter, stopping, watcher, unwatch, helm, events, lines>> /\ Aside

----------------------------------------------------------------------------
(* Helm's goroutine, which logs through the same send.                       *)

HelmLogs ==
    /\ helm = "running" /\ Line
    /\ LogsLate \/ runner = "helm"
    /\ helm' = "sending"
    /\ UNCHANGED <<helpVars, events>> /\ Aside

HelmSent ==
    /\ helm = "sending" /\ ~chanClosed
    /\ Push("log")
    /\ helm' = "running"
    /\ UNCHANGED <<helpVars, lines>> /\ Aside

\* The goroutine that was left behind comes to its end.
HelmEnds ==
    /\ helm = "running" /\ runner # "helm"
    /\ helm' = "ended"
    /\ UNCHANGED <<helpVars, events, lines>> /\ Aside

----------------------------------------------------------------------------
(* The handler's loop over the channel.                                      *)

BrowserReads ==
    /\ browser = "reading" /\ events # <<>>
    /\ last' = Head(events) /\ events' = Tail(events)
    /\ UNCHANGED <<op, runVars, helpVars, helm, rowVars, chanClosed, browser, lines>>

\* The connection closes or a write fails: the request's context is done.
BrowserLeaves ==
    /\ browser = "reading"
    /\ browser' = "left"
    /\ UNCHANGED <<op, runVars, helpVars, helm, rowVars, chanVars, last, lines>>

\* The loop ends with the channel, and the handler returns.
BrowserServed ==
    /\ browser = "reading" /\ chanClosed /\ events = <<>>
    /\ browser' = "served"
    /\ UNCHANGED <<op, runVars, helpVars, helm, rowVars, chanVars, last, lines>>

----------------------------------------------------------------------------
Init ==
    /\ op \in {"install", "upgrade"}
    /\ runner = "start" /\ sending = "none" /\ after = "none" /\ result = "none"
    /\ reporter = "off" /\ stopping = FALSE
    /\ watcher = "off" /\ unwatch = FALSE
    /\ cancelled = FALSE /\ helm = "idle"
    /\ finish = "none" /\ asked = "none" /\ errorLine = FALSE
    /\ events = <<>> /\ chanClosed = FALSE
    /\ browser = "reading" /\ last = "none" /\ lines = 0

Run ==
    \/ StartLoading \/ Prepare \/ MarkInstalling \/ Launch \/ HelmReturns \/ HelmIsCancelled
    \/ StopWatcher \/ StopReporter \/ Diagnose \/ Readiness \/ FinishError \/ Finish
    \/ RunnerSent \/ Close
Reporter == ReporterReports \/ ReporterSent \/ ReporterEnds
Watcher == WatcherTrips \/ WatcherEnds
Helm == HelmLogs \/ HelmSent \/ HelmEnds
Browser == BrowserReads \/ BrowserLeaves \/ BrowserServed

Next == Run \/ Reporter \/ Watcher \/ Deadline \/ Helm \/ Browser

Spec == Init /\ [][Next]_vars

(* Every goroutine goes on, the deadline passes, and the reporter sees that it *)
(* is to stop.  Whether the browser reads is not the program's to say.          *)
StalledSpec ==
    /\ Spec
    /\ WF_vars(Run) /\ WF_vars(Deadline)
    /\ WF_vars(ReporterSent) /\ SF_vars(ReporterEnds)
    /\ WF_vars(WatcherEnds) /\ WF_vars(HelmSent)

(* A browser that reads what it is sent, or goes away.                          *)
FairSpec == StalledSpec /\ WF_vars(BrowserReads \/ BrowserServed)

----------------------------------------------------------------------------
(* Every variable stays in its type, and the channel within its capacity.      *)
TypeOK ==
    /\ op \in {"install", "upgrade"}
    /\ runner \in {"start", "prepare", "mark", "launch", "helm", "stopWatcher", "stopReporter",
                   "diagnose", "readiness", "finishError", "finish", "sending", "close", "gone"}
    /\ sending \in {"none", "log", "warning"} \cup Ended
    /\ after \in {"none", "prepare", "diagnose", "readiness", "finishError", "close"}
    /\ result \in {"none", "success", "failure"}
    /\ reporter \in {"off", "waiting", "sending", "ended"}
    /\ watcher \in {"off", "watching", "ended"}
    /\ {stopping, unwatch, cancelled, errorLine, chanClosed} \subseteq BOOLEAN
    /\ helm \in {"idle", "running", "sending", "ended"}
    /\ finish \in {"none", "succeeded", "failed", "unknown"}
    /\ asked \in {"none", "success", "failure"}
    /\ events \in Seq({"log", "warning"} \cup Ended) /\ Len(events) <= EventCap
    /\ browser \in {"reading", "left", "served"}
    /\ last \in {"none", "log", "warning"} \cup Ended
    /\ lines \in 0..MaxLines

(* Nobody sends on the channel once it is closed, which would end the process:  *)
(* the goroutine waits for everything it has started before it closes it.       *)
NoSendOnClosed ==
    chanClosed => runner # "sending" /\ reporter # "sending" /\ helm # "sending"

(* The outcome is the last thing the browser hears: no progress line that was   *)
(* on its way when the operation ended comes after it.                          *)
LastWord == [][(last \in Ended) => last' = last]_vars

(* A browser that reads to the end of the stream has been told the outcome; the *)
(* stream never just stops.                                                      *)
ServedWithOutcome == browser = "served" => last \in Ended

(* "done" is only ever sent for an operation whose row was closed as succeeded,  *)
(* and after that.                                                                *)
DoneAfterFinish ==
    (last = "done" \/ \E n \in 1..Len(events) : events[n] = "done") => finish = "succeeded"

(* An operation that is closed as failed has its error among the lines given to  *)
(* the recorder while it still took them, so a browser that lost the stream and   *)
(* polls the task finds the cause.                                                *)
ErrorIsRecorded == asked = "failure" => errorLine

(* The operation ends, its row is closed and its goroutine is gone, whatever     *)
(* Helm, the watcher, the reporter and the database do.                            *)
RunnerEnds == <>(runner = "gone" /\ finish # "none")

(* What the browser, the row and the recorder are told of the outcome agrees,    *)
(* and the channel that carries it is not closed under anybody.                   *)
OutcomeAgrees == NoSendOnClosed /\ ServedWithOutcome /\ DoneAfterFinish /\ ErrorIsRecorded
=============================================================================
