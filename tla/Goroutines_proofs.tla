-------------------------- MODULE Goroutines_proofs -------------------------
(***************************************************************************)
(* What is proved of the recorder and of the stream, each by itself, holds  *)
(* while all parts of MCGoroutines are there, one of them played and the    *)
(* others at rest.                                                          *)
(***************************************************************************)
EXTENDS MCGoroutines, TLAPS

REP == INSTANCE HelmRecorder_proofs WITH MaxLines <- RecorderLines, chanClosed <- recorderClosed,
                                         cancelled <- persistCancelled
STP == INSTANCE HelmStream_proofs WITH MaxLines <- StreamLines

allVars == <<part, reVars, stVars, meVars>>

(* A module and the one that proves about it, which extends it, have the     *)
(* same definitions; the provers see that once they are expanded.            *)
LEMMA RecorderIsOne == (RE!Init <=> REP!Init) /\ ([RE!Next]_RE!vars <=> [REP!Next]_REP!vars) /\ (RE!LinesKept <=> REP!LinesKept)
<1>1. RE!Init <=> REP!Init
  BY DEF RE!Init, REP!Init
<1>2. [RE!Next]_RE!vars <=> [REP!Next]_REP!vars
  BY DEF RE!Next, REP!Next, RE!RecordLog, REP!RecordLog, RE!RecordBegin, REP!RecordBegin,
         RE!logVars, REP!logVars, RE!finVars, REP!finVars, RE!RecordEnqueue, REP!RecordEnqueue,
         RE!QueueCap, REP!QueueCap, RE!RecordTimesOut, REP!RecordTimesOut, RE!DbReturns,
         REP!DbReturns, RE!PersistSucceeds, REP!PersistSucceeds, RE!AfterCall, REP!AfterCall,
         RE!PersistFails, REP!PersistFails, RE!PersistPanics, REP!PersistPanics, RE!Busy,
         REP!Busy, RE!TouchReturns, REP!TouchReturns, RE!Loop, REP!Loop, RE!TakeLine,
         REP!TakeLine, RE!Flush, REP!Flush, RE!Begins, REP!Begins, RE!ShutdownCalls,
         REP!ShutdownCalls, RE!FlushTick, REP!FlushTick, RE!HeartbeatTick, REP!HeartbeatTick,
         RE!Drained, REP!Drained, RE!Finish, REP!Finish, RE!FinishBegins, REP!FinishBegins,
         RE!FinishCloses, REP!FinishCloses, RE!FinishDrained, REP!FinishDrained,
         RE!ShutdownExpires, REP!ShutdownExpires, RE!GraceEnds, REP!GraceEnds, RE!FinishReturns,
         REP!FinishReturns, RE!vars, REP!vars
<1>3. RE!LinesKept <=> REP!LinesKept
  BY DEF RE!LinesKept, REP!LinesKept, RE!NoSendOnClosed, REP!NoSendOnClosed, RE!NeverTwice,
         REP!NeverTwice, RE!NoSilentLoss, REP!NoSilentLoss
<1> QED
  BY <1>1, <1>2, <1>3

LEMMA StreamIsOne == (ST!Init <=> STP!Init) /\ ([ST!Next]_ST!vars <=> [STP!Next]_STP!vars) /\ (ST!OutcomeAgrees <=> STP!OutcomeAgrees)
<1>1. ST!Init <=> STP!Init
  BY DEF ST!Init, STP!Init
<1>2. [ST!Next]_ST!vars <=> [STP!Next]_STP!vars
  BY DEF ST!Next, STP!Next, ST!Run, STP!Run, ST!StartLoading, STP!StartLoading, ST!Moves,
         STP!Moves, ST!Fails, STP!Fails, ST!Sends, STP!Sends, ST!helpVars, STP!helpVars, ST!Rest,
         STP!Rest, ST!chanVars, STP!chanVars, ST!webVars, STP!webVars, ST!Prepare, STP!Prepare,
         ST!Line, STP!Line, ST!MarkInstalling, STP!MarkInstalling, ST!Launch, STP!Launch,
         ST!HelmReturns, STP!HelmReturns, ST!Returns, STP!Returns, ST!HelmIsCancelled,
         STP!HelmIsCancelled, ST!StopWatcher, STP!StopWatcher, ST!StopReporter, STP!StopReporter,
         ST!Diagnose, STP!Diagnose, ST!Readiness, STP!Readiness, ST!FinishError, STP!FinishError,
         ST!Finish, STP!Finish, ST!RunnerSent, STP!RunnerSent, ST!Push, STP!Push, ST!StreamDone,
         STP!StreamDone, ST!rowVars, STP!rowVars, ST!Close, STP!Close, ST!Reporter, STP!Reporter,
         ST!ReporterReports, STP!ReporterReports, ST!Aside, STP!Aside, ST!runVars, STP!runVars,
         ST!ReporterSent, STP!ReporterSent, ST!ReporterEnds, STP!ReporterEnds, ST!Watcher,
         STP!Watcher, ST!WatcherTrips, STP!WatcherTrips, ST!WatcherEnds, STP!WatcherEnds,
         ST!Deadline, STP!Deadline, ST!Helm, STP!Helm, ST!HelmLogs, STP!HelmLogs, ST!HelmSent,
         STP!HelmSent, ST!HelmEnds, STP!HelmEnds, ST!Browser, STP!Browser, ST!BrowserReads,
         STP!BrowserReads, ST!BrowserLeaves, STP!BrowserLeaves, ST!BrowserServed,
         STP!BrowserServed, ST!vars, STP!vars
<1>3. ST!OutcomeAgrees <=> STP!OutcomeAgrees
  BY DEF ST!OutcomeAgrees, STP!OutcomeAgrees, ST!NoSendOnClosed, STP!NoSendOnClosed,
         ST!ServedWithOutcome, STP!ServedWithOutcome, ST!Ended, STP!Ended, ST!DoneAfterFinish,
         STP!DoneAfterFinish, ST!ErrorIsRecorded, STP!ErrorIsRecorded
<1> QED
  BY <1>1, <1>2, <1>3

(* A step of all is a step of the part that is played, and leaves the rest.   *)
LEMMA RecorderSteps == Init /\ [][Next]_allVars => REP!Spec
<1>1. Init => REP!Init
  BY RecorderIsOne DEF Init
<1>2. [Next]_allVars => [REP!Next]_REP!vars
  <2>1. [Next]_allVars => [RE!Next]_reVars
    BY DEF Next, allVars
  <2>2. [RE!Next]_reVars => [RE!Next]_RE!vars
    BY DEF reVars, RE!vars, RE!logVars, RE!finVars
  <2> QED
    BY <2>1, <2>2, RecorderIsOne
<1> QED
  BY <1>1, <1>2, PTL DEF REP!Spec

LEMMA StreamSteps == Init /\ [][Next]_allVars => STP!Spec
<1>1. Init => STP!Init
  BY StreamIsOne DEF Init
<1>2. [Next]_allVars => [STP!Next]_STP!vars
  <2>1. [Next]_allVars => [ST!Next]_stVars
    BY DEF Next, allVars
  <2>2. [ST!Next]_stVars => [ST!Next]_ST!vars
    BY DEF stVars, ST!vars, ST!runVars, ST!helpVars, ST!rowVars, ST!chanVars, ST!webVars
  <2> QED
    BY <2>1, <2>2, StreamIsOne
<1> QED
  BY <1>1, <1>2, PTL DEF STP!Spec

(* No accepted line of a log is lost without a warning, written twice or      *)
(* sent on a closed channel, for any number of writers and of lines and any   *)
(* size of the batch.                                                         *)
THEOREM LinesAlwaysKept == FairSpec => []LinesKept
<1>1. REP!Spec => []REP!LinesKept
  BY REP!LinesAlwaysKept
<1>2. REP!LinesKept => LinesKept
  BY RecorderIsOne DEF LinesKept
<1> QED
  BY <1>1, <1>2, RecorderSteps, PTL DEF FairSpec, allVars

(* The browser, the row and the recorder are told one outcome, for every      *)
(* capacity of the channel; as in the run, the goroutine Helm leaves behind   *)
(* is taken not to log.                                                       *)
THEOREM OutcomeAlwaysAgrees ==
    ASSUME ~LogsLate
    PROVE  FairSpec => []OutcomeAgrees
<1>1. STP!Spec => []STP!OutcomeAgrees
  BY STP!OutcomeAlwaysAgrees
<1>2. STP!OutcomeAgrees => OutcomeAgrees
  BY StreamIsOne DEF OutcomeAgrees
<1> QED
  BY <1>1, <1>2, StreamSteps, PTL DEF FairSpec, allVars
=============================================================================
