------------------------- MODULE HelmStream_proofs --------------------------
(***************************************************************************)
(* Proofs about HelmStream, for every capacity of the channel and every     *)
(* number of lines.                                                         *)
(***************************************************************************)
EXTENDS HelmStream, SequenceTheorems, TLAPS

Event == {"log", "warning", "error", "done"}

----------------------------------------------------------------------------
(* The channel.                                                             *)

(* The last event the browser will have received once it has read all.       *)
Final == IF events = <<>> THEN last ELSE events[Len(events)]

SaidDone == last = "done" \/ \E n \in 1..Len(events) : events[n] = "done"

LEMMA PushEffect ==
    ASSUME events \in Seq(Event), NEW event \in Event, Push(event), UNCHANGED last
    PROVE  /\ events' \in Seq(Event)
           /\ StreamDone \/ Final' = event
           /\ SaidDone' => SaidDone \/ event = "done"
<1>1. CASE events' = events /\ StreamDone
  BY <1>1 DEF SaidDone
<1>2. CASE events' = Append(events, event)
  <2>1. /\ events' \in Seq(Event) /\ Len(events') = Len(events) + 1 /\ events' # <<>>
        /\ Len(events) \in Nat
    BY <1>2
  <2>2. events'[Len(events')] = event
    BY <1>2, <2>1
  <2>3. ASSUME NEW n \in 1..Len(events'), events'[n] = "done"
        PROVE  SaidDone \/ event = "done"
    <3>1. n \in 1..Len(events) \/ n = Len(events')
      BY <2>1
    <3>2. n \in 1..Len(events) => events'[n] = events[n]
      BY <1>2
    <3> QED
      BY <2>2, <2>3, <3>1, <3>2 DEF SaidDone
  <2> QED
    BY <2>1, <2>2, <2>3 DEF Final, SaidDone
<1> QED
  BY <1>1, <1>2 DEF Push

LEMMA ReadEffect ==
    ASSUME events \in Seq(Event), events # <<>>, last' = Head(events), events' = Tail(events)
    PROVE  /\ events' \in Seq(Event) /\ Final' = Final
           /\ SaidDone' => SaidDone
<1>1. /\ events' \in Seq(Event) /\ Len(events') = Len(events) - 1
      /\ Len(events) \in Nat /\ Len(events) > 0 /\ last' = events[1]
  OBVIOUS
<1>2. \A n \in 1..(Len(events) - 1) : events'[n] = events[n + 1]
  BY <1>1
<1>3. Final' = Final
  <2>1. CASE events' = <<>>
    <3>1. Len(events') = 0
      BY <1>1, <2>1, EmptySeq
    <3>2. Len(events) = 1
      BY <1>1, <3>1
    <3> QED
      BY <1>1, <2>1, <3>2 DEF Final
  <2>2. CASE events' # <<>>
    <3>1. Len(events') > 0
      BY <1>1, <2>2
    <3>2. events'[Len(events) - 1] = events[Len(events)]
      <4>1. Len(events) - 1 \in 1..(Len(events) - 1) /\ (Len(events) - 1) + 1 = Len(events)
        BY <1>1, <3>1
      <4> QED
        BY <1>2, <4>1
    <3> QED
      BY <1>1, <2>2, <3>2 DEF Final
  <2> QED
    BY <2>1, <2>2
<1>4. SaidDone' => SaidDone
  <2>1. 1 \in 1..Len(events)
    BY <1>1
  <2>2. ASSUME NEW n \in 1..Len(events')
        PROVE  n + 1 \in 1..Len(events) /\ events'[n] = events[n + 1]
    BY <1>1, <1>2
  <2> QED
    BY <1>1, <2>1, <2>2 DEF SaidDone
<1> QED
  BY <1>1, <1>3, <1>4

----------------------------------------------------------------------------
(* Who may still be about, by where the goroutine of the operation stands.   *)
Types ==
    /\ op \in {"install", "upgrade"}
    /\ runner \in {"start", "prepare", "mark", "launch", "helm", "stopWatcher", "stopReporter",
                   "diagnose", "readiness", "finishError", "finish", "sending", "close", "gone"}
    /\ runner = "sending" =>
          /\ sending \in Event
          /\ after \in {"prepare", "diagnose", "readiness", "finishError", "close"}
    /\ reporter \in {"off", "waiting", "sending", "ended"}
    /\ helm \in {"idle", "running", "sending", "ended"}
    /\ asked \in {"none", "success", "failure"}
    /\ events \in Seq(Event)
    /\ browser \in {"reading", "left", "served"}

Alone ==
    /\ chanClosed => runner = "gone"
    /\ reporter \in {"waiting", "sending"} => runner \in {"helm", "stopWatcher", "stopReporter"}
    /\ helm = "sending" => runner = "helm"

(* The goroutine goes to an end only with the outcome as the event it sends.  *)
Stands(places) == runner \in places \/ (runner = "sending" /\ after \in places)

Ending ==
    /\ runner = "sending" /\ after \in {"finishError", "close"} => sending \in Ended
    /\ Stands({"finishError"}) => errorLine
    /\ finish # "none" \/ asked # "none" => Stands({"close", "gone"})
    /\ asked = "failure" => errorLine

Told ==
    /\ browser = "reading" /\ runner \in {"finishError", "close", "gone"} => Final \in Ended
    /\ browser = "served" => last \in Ended
    /\ SaidDone \/ (runner = "sending" /\ sending = "done") => finish = "succeeded"

Inv == Types /\ Alone /\ Ending /\ Told

(* Steps of the goroutine that leave the channel alone, before it has finished. *)
LEMMA SilentStep ==
    ASSUME Inv,
           \/ runner' \notin {"sending", "finishError", "close", "gone"} /\ errorLine' = errorLine
           \/ \E then \in {"prepare", "diagnose", "readiness"} :
                \E event \in {"log", "warning"} : Sends(event, then)
           \/ Fails("finishError"),
           runner \notin {"sending", "finishError", "close", "gone"},
           runner' \in {"start", "prepare", "mark", "launch", "helm", "stopWatcher", "stopReporter",
                        "diagnose", "readiness", "finish", "sending"},
           reporter' \in {"off", "waiting", "sending", "ended"},
           helm' \in {"idle", "running", "sending", "ended"},
           reporter' \in {"waiting", "sending"} => runner' \in {"helm", "stopWatcher", "stopReporter"},
           helm' = "sending" => runner' = "helm",
           Rest
    PROVE  Inv'
<1>1. asked = "none" /\ finish = "none" /\ ~SaidDone
  BY DEF Inv, Ending, Told, Stands
<1>2. UNCHANGED <<op, finish, asked, events, chanClosed, browser, last>>
  BY DEF Rest, chanVars, webVars
<1>3. Final' = Final /\ SaidDone' = SaidDone
  BY <1>2 DEF Final, SaidDone
<1>4. Types'
  BY <1>2 DEF Inv, Types, Sends, Fails, Event
<1>5. Alone'
  BY <1>2 DEF Inv, Alone
<1>6. Ending'
  BY <1>1, <1>2 DEF Inv, Ending, Stands, Sends, Fails, Ended
<1>7. Told'
  BY <1>1, <1>2, <1>3 DEF Inv, Told, Sends, Fails
<1> QED
  BY <1>4, <1>5, <1>6, <1>7 DEF Inv

LEMMA RunStep ==
    ASSUME ~LogsLate, Inv, Run
    PROVE  Inv'
<1> USE DEF Moves, helpVars
<1>1. CASE StartLoading \/ MarkInstalling
  BY <1>1, SilentStep DEF StartLoading, MarkInstalling, Inv, Types, Alone, Fails, Sends
<1>2. CASE Prepare \/ Diagnose \/ Readiness
  BY <1>2, SilentStep DEF Prepare, Diagnose, Readiness, Inv, Types, Alone, Fails, Sends
<1>3. CASE Launch
  BY <1>3, SilentStep DEF Launch, Inv, Types, Alone
<1>4. CASE HelmReturns \/ HelmIsCancelled
  BY <1>4, SilentStep DEF HelmReturns, HelmIsCancelled, Returns, Inv, Types, Alone
<1>5. CASE StopWatcher \/ StopReporter
  BY <1>5, SilentStep DEF StopWatcher, StopReporter, Inv, Types, Alone
<1>6. CASE FinishError
  <2>1. /\ runner = "finishError" /\ runner' = "close" /\ asked' = "failure"
        /\ UNCHANGED <<op, sending, after, errorLine, reporter, helm, events, chanClosed, browser, last>>
    BY <1>6 DEF FinishError, chanVars, webVars
  <2>2. Final' = Final /\ SaidDone' = SaidDone /\ finish = "none"
    BY <2>1 DEF Final, SaidDone, Inv, Ending, Stands
  <2>3. Types' /\ Alone' /\ Ending'
    BY <2>1 DEF Inv, Types, Alone, Ending, Stands
  <2>4. Told'
    BY <2>1, <2>2 DEF Inv, Told
  <2> QED
    BY <2>3, <2>4 DEF Inv
<1>7. CASE Finish
  <2>1. /\ runner = "finish" /\ runner' = "sending" /\ after' = "close" /\ asked' = "success"
        /\ \/ finish' = "succeeded" /\ sending' = "done"
           \/ finish' = "unknown" /\ sending' = "error"
        /\ UNCHANGED <<op, reporter, helm, events, chanClosed, browser, last>>
    BY <1>7 DEF Finish, Sends, chanVars, webVars
  <2>2. Final' = Final /\ SaidDone' = SaidDone /\ finish = "none"
    BY <2>1 DEF Final, SaidDone, Inv, Ending, Stands
  <2>3. Types' /\ Alone' /\ Ending'
    BY <2>1 DEF Inv, Types, Alone, Ending, Stands, Event, Ended
  <2>4. Told'
    BY <2>1, <2>2 DEF Inv, Told
  <2> QED
    BY <2>3, <2>4 DEF Inv
<1>8. CASE RunnerSent
  <2>1. /\ runner = "sending" /\ sending \in Event /\ Push(sending) /\ runner' = after
        /\ UNCHANGED <<op, reporter, helm, finish, asked, errorLine, chanClosed, browser, last>>
    BY <1>8 DEF RunnerSent, Inv, Types, rowVars, webVars
  <2>2. /\ events' \in Seq(Event) /\ (StreamDone \/ Final' = sending)
        /\ SaidDone' => SaidDone \/ sending = "done"
    BY <2>1, PushEffect DEF Inv, Types
  <2>3. Types' /\ Alone' /\ Ending'
    BY <2>1, <2>2 DEF Inv, Types, Alone, Ending, Stands
  <2>4. Told'
    BY <2>1, <2>2 DEF Inv, Types, Ending, Told, StreamDone
  <2> QED
    BY <2>3, <2>4 DEF Inv
<1>9. CASE Close
  <2>1. /\ runner = "close" /\ runner' = "gone"
        /\ UNCHANGED <<op, reporter, helm, finish, asked, errorLine, events, browser, last>>
    BY <1>9 DEF Close, webVars
  <2>2. Final' = Final /\ SaidDone' = SaidDone
    BY <2>1 DEF Final, SaidDone
  <2> QED
    BY <2>1, <2>2 DEF Inv, Types, Alone, Ending, Stands, Told
<1> QED
  BY <1>1, <1>2, <1>3, <1>4, <1>5, <1>6, <1>7, <1>8, <1>9 DEF Run

LEMMA AsideStep ==
    ASSUME ~LogsLate, Inv, Reporter \/ Watcher \/ Deadline \/ Helm
    PROVE  Inv'
<1>1. UNCHANGED <<op, runner, sending, after, finish, asked, errorLine, chanClosed, browser, last>>
  BY DEF Reporter, ReporterReports, ReporterSent, ReporterEnds, Watcher, WatcherTrips, WatcherEnds,
         Deadline, Helm, HelmLogs, HelmSent, HelmEnds, Aside, runVars, rowVars, webVars
<1>2. /\ reporter' \in {"off", "waiting", "sending", "ended"}
      /\ helm' \in {"idle", "running", "sending", "ended"}
      /\ reporter' \in {"waiting", "sending"} => reporter \in {"waiting", "sending"}
      /\ helm' = "sending" => runner = "helm"
  BY DEF Inv, Types, Alone, Reporter, ReporterReports, ReporterSent, ReporterEnds, Watcher,
         WatcherTrips, WatcherEnds, Deadline, Helm, HelmLogs, HelmSent, HelmEnds, helpVars
<1>3. events' = events \/ (Push("log") /\ runner \in {"helm", "stopWatcher", "stopReporter"})
  BY DEF Inv, Alone, Reporter, ReporterReports, ReporterSent, ReporterEnds, Watcher,
         WatcherTrips, WatcherEnds, Deadline, Helm, HelmLogs, HelmSent, HelmEnds
<1>4. events' \in Seq(Event) /\ (SaidDone' => SaidDone)
  BY <1>1, <1>3, PushEffect DEF Inv, Types, Event, SaidDone
<1>5. runner \in {"finishError", "close", "gone"} => Final' = Final
  BY <1>1, <1>3 DEF Final
<1>6. Types' /\ Alone' /\ Ending'
  BY <1>1, <1>2, <1>4 DEF Inv, Types, Alone, Ending, Stands
<1>7. Told'
  BY <1>1, <1>4, <1>5 DEF Inv, Told
<1> QED
  BY <1>6, <1>7 DEF Inv

LEMMA BrowserStep ==
    ASSUME Inv, Browser
    PROVE  Inv'
<1>1. UNCHANGED <<op, runner, sending, after, reporter, helm, finish, asked, errorLine, chanClosed>>
  BY DEF Browser, BrowserReads, BrowserLeaves, BrowserServed, runVars, helpVars, rowVars, chanVars
<1>2. CASE BrowserReads
  <2>1. events' \in Seq(Event) /\ Final' = Final /\ (SaidDone' => SaidDone)
        /\ browser = "reading" /\ browser' = browser
    BY <1>2, ReadEffect DEF BrowserReads, Inv, Types
  <2> QED
    BY <1>1, <2>1 DEF Inv, Types, Alone, Ending, Stands, Told
<1>3. CASE BrowserLeaves \/ BrowserServed
  <2>1. UNCHANGED <<events, last>> /\ browser = "reading" /\ browser' \in {"left", "served"}
        /\ (browser' = "served" => chanClosed /\ events = <<>>)
    BY <1>3 DEF BrowserLeaves, BrowserServed, chanVars
  <2>2. browser' = "served" => last \in Ended
    BY <2>1 DEF Inv, Alone, Told, Final
  <2>3. SaidDone' = SaidDone
    BY <2>1 DEF SaidDone
  <2> QED
    BY <1>1, <2>1, <2>2, <2>3 DEF Inv, Types, Alone, Ending, Stands, Told
<1> QED
  BY <1>2, <1>3 DEF Browser

(* The channel is not closed under a goroutine that sends, and the browser, the *)
(* row and the recorder are told the same outcome, wherever the operation fails  *)
(* and whoever is still about; Helm's own goroutine, left behind by a cancelled   *)
(* call, is taken not to log (HelmStreamOutliving shows what it could do).         *)
THEOREM OutcomeAlwaysAgrees ==
    ASSUME ~LogsLate
    PROVE  Spec => []OutcomeAgrees
<1>1. Init => Inv
  <2> SUFFICES ASSUME Init PROVE Inv
    OBVIOUS
  <2>1. events = <<>> /\ <<>> \in Seq(Event)
    BY DEF Init
  <2>2. ~SaidDone
    <3>1. 1..Len(<<>>) = {}
      OBVIOUS
    <3> QED
      BY <2>1, <3>1 DEF Init, SaidDone
  <2> QED
    BY <2>1, <2>2 DEF Init, Inv, Types, Alone, Ending, Stands, Told
<1>2. Inv /\ [Next]_vars => Inv'
  <2>1. CASE UNCHANGED vars
    BY <2>1 DEF vars, runVars, helpVars, rowVars, chanVars, webVars, Inv, Types, Alone, Ending,
                Stands, Told, Final, SaidDone
  <2> QED
    BY <2>1, RunStep, AsideStep, BrowserStep DEF Next
<1>3. Inv => OutcomeAgrees
  BY DEF Inv, Alone, Ending, Told, SaidDone, OutcomeAgrees, NoSendOnClosed, ServedWithOutcome,
         DoneAfterFinish, ErrorIsRecorded
<1> QED
  BY <1>1, <1>2, <1>3, PTL DEF Spec
=============================================================================
