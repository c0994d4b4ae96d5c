---------------------------- MODULE MCGoroutines ----------------------------
(***************************************************************************)
(* The goroutines around a channel or a connection, one part at a time:    *)
(* the recorder of an operation, its stream of events to the browser, and  *)
(* the sessions of the mesh while the network comes and goes.  They meet   *)
(* in no variable; what the recorder's Finish does to the task's row is in *)
(* HelmTasks, and what the outcome of Finish means for the stream is the   *)
(* choice of HelmStream's Finish.                                          *)
(***************************************************************************)
EXTENDS Naturals

CONSTANTS Writers, BatchSize, RecorderLines, DbMayFail, DriverHangs, PanicsAllowed,
          EventCap, StreamLines, LogsLate,
          Machines, Sessions, Calls, None

VARIABLES part,
          writer, accepted, queue, closed, recorderClosed, run, batch, saved, batchErr, persistCancelled,
          fin, spent, warned,
          op, runner, sending, after, result, reporter, stopping, watcher, unwatch, cancelled, helm,
          finish, asked, errorLine, events, chanClosed, browser, last, lines,
          member, target, spanned, table, phase, owner, replaces, wire, nextID, pending, hand,
          dialing, link, at, on, id, box, outcome, request

RE == INSTANCE HelmRecorder WITH MaxLines <- RecorderLines, chanClosed <- recorderClosed,
                                 cancelled <- persistCancelled
ST == INSTANCE HelmStream WITH MaxLines <- StreamLines
ME == INSTANCE MeshSessions

reVars == <<writer, accepted, queue, closed, recorderClosed, run, batch, saved, batchErr, persistCancelled,
            fin, spent, warned>>
stVars == <<op, runner, sending, after, result, reporter, stopping, watcher, unwatch, cancelled, helm,
            finish, asked, errorLine, events, chanClosed, browser, last, lines>>
meVars == <<member, target, spanned, table, phase, owner, replaces, wire, nextID, pending, hand,
            dialing, link, at, on, id, box, outcome, request>>

Is(p) == part = p

(* The parts that are not played are at rest in one state. *)
Init == /\ part \in {"recorder", "stream", "mesh"}
        /\ RE!Init /\ ME!Init
        /\ ST!Init /\ (~Is("stream") => op = "install")

Next == /\ UNCHANGED part
        /\ \/ Is("recorder") /\ RE!Next /\ UNCHANGED <<stVars, meVars>>
           \/ Is("stream") /\ ST!Next /\ UNCHANGED <<reVars, meVars>>
           \/ Is("mesh") /\ ME!Next /\ UNCHANGED <<reVars, stVars>>

(* The fairness of each module, for the part that is played.  No call of   *)
(* the recorder's need return.                                             *)
Fairness ==
    /\ \A w \in Writers : WF_reVars(Is("recorder") /\ (RE!RecordEnqueue(w) \/ RE!RecordTimesOut(w)))
    /\ SF_reVars(Is("recorder") /\ RE!TakeLine) /\ SF_reVars(Is("recorder") /\ RE!Drained)
    /\ WF_reVars(Is("recorder") /\ (RE!FinishCloses \/ RE!FinishDrained \/ RE!ShutdownExpires
                                    \/ RE!GraceEnds \/ RE!FinishReturns))
    /\ WF_stVars(Is("stream") /\ ST!Run) /\ WF_stVars(Is("stream") /\ ST!Deadline)
    /\ WF_stVars(Is("stream") /\ ST!ReporterSent) /\ SF_stVars(Is("stream") /\ ST!ReporterEnds)
    /\ WF_stVars(Is("stream") /\ ST!WatcherEnds) /\ WF_stVars(Is("stream") /\ ST!HelmSent)
    /\ WF_stVars(Is("stream") /\ (ST!BrowserReads \/ ST!BrowserServed))
    /\ \A m \in Machines : WF_meVars(Is("mesh") /\ ME!Member(m)) /\ WF_meVars(Is("mesh") /\ ME!Drop(m))
    /\ \A s \in Sessions : WF_meVars(Is("mesh") /\ ME!Hub(s))
    /\ \A c \in Calls :
        /\ WF_meVars(Is("mesh") /\ ME!Call(c)) /\ WF_meVars(Is("mesh") /\ ME!TakesAnswer(c))
        /\ WF_meVars(Is("mesh") /\ ME!Receives(c)) /\ WF_meVars(Is("mesh") /\ ME!TimesOut(c))
FairSpec == Init /\ [][Next]_<<part, reVars, stVars, meVars>> /\ Fairness

----------------------------------------------------------------------------
(* No accepted line of a log is lost silently, written twice or sent late. *)
LinesKept == RE!LinesKept
(* Finish of the recorder returns, and its goroutine ends.                 *)
RecorderFinishes == RE!RecorderFinishes
(* The browser, the row and the recorder hear one outcome.                 *)
OutcomeAgrees == ST!OutcomeAgrees
(* The outcome comes, last.                                                *)
OutcomeComes == ST!LastWord /\ (Is("stream") => ST!RunnerEnds)
(* A member that the network lets through is connected, by the connection  *)
(* that the hub has of it.                                                 *)
Reachable == Is("mesh") => ME!Reachable
(* Calls whose connection is lost return, and what was given up stops.     *)
CallsEnd == ME!CallsEnd
(* Whatever hangs, breaks or is cancelled, every one of them comes to its  *)
(* end: the recorder, the operation with its last word, the call.          *)
GoroutinesEnd == RecorderFinishes /\ OutcomeComes /\ CallsEnd
=============================================================================
