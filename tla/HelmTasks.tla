----------------------------- MODULE HelmTasks -----------------------------
(***************************************************************************)
(* The rows of helm_operation_task (object/helm_operation.go) and what     *)
(* drives them: the HTTP handlers that create and delete rows              *)
(* (controllers/helm.go), the goroutine that runs each operation           *)
(* (store/helm.go), the recorder whose heartbeat keeps a row fresh         *)
(* (object/helm_operation_recorder.go), and the process they all live in,  *)
(* which may crash and fail the interrupted rows when it starts again.     *)
(*                                                                         *)
(* Time is counted in ticks.  A row's age is the number of ticks since its *)
(* UpdatedAt, saturating at StaleAfter, because the code only asks whether *)
(* UpdatedAt lies within helmOperationStaleAfter.                          *)
(***************************************************************************)
EXTENDS Naturals

CONSTANTS
    Releases,        \* pairs of a namespace and a release name
    Requests,        \* HTTP handlers that may be served at the same time
    MaxTasks,        \* bound: rows created in a behaviour
    StaleAfter,      \* helmOperationStaleAfter, in ticks
    HeartbeatEvery,  \* helmOperationHeartbeatInterval, in ticks
    MaxMissed,       \* bound: consecutive heartbeats the database may refuse
    MaxCrashes,      \* bound: crashes of the process in a behaviour
    DbMayFail,       \* may a database call fail, or commit and lose its reply?
    PanicsAllowed    \* may the recorder's goroutine panic?

ASSUME BoundsAssumption ==
    /\ MaxTasks \in Nat /\ MaxMissed \in Nat /\ MaxCrashes \in Nat
    /\ StaleAfter \in Nat \ {0} /\ HeartbeatEvery \in Nat \ {0}
    /\ DbMayFail \in BOOLEAN /\ PanicsAllowed \in BOOLEAN

VARIABLES
    task,     \* the rows, by id
    logged,   \* ids that have rows in helm_operation_log
    lastId,   \* the autoincrement counter of the rows
    request,  \* what each handler is in the middle of
    pc,       \* where the goroutine of each operation stands
    want,     \* outcome the goroutine asks Finish to record
    tries,    \* attempts finishTaskWithRetry has made
    answer,   \* last event of the operation's stream
    alive,    \* is the recorder's goroutine running?
    beat,     \* ticks since the recorder's last heartbeat
    missed,   \* consecutive heartbeats that failed
    hung,     \* ids whose recorder was left behind in a call of the driver
    up,       \* is the process running?
    crashes

rowVars == <<task, logged, lastId>>
runVars == <<pc, want, tries, answer>>
recVars == <<alive, beat, missed, hung>>
vars == <<rowVars, request, runVars, recVars, up, crashes>>

Tasks == 1..MaxTasks
ActiveStatus == {"pending", "running"}
Operations == {"install", "upgrade"}
NoKey == "none"
Idle == [kind |-> "idle"]

\* helmOperationFinishAttempts
FinishAttempts == 3

Row == [status : {"none", "pending", "running", "succeeded", "failed", "deleted"},
        phase : {"none", "queued", "loading", "installing", "ready", "failed"},
        key : Releases \cup {NoKey},
        release : Releases \cup {NoKey},
        operation : Operations \cup {"none"},
        msg : {"none", "own", "expired", "interrupted"},
        age : 0..StaleAfter]

NoRow == [status |-> "none", phase |-> "none", key |-> NoKey, release |-> NoKey,
          operation |-> "none", msg |-> "none", age |-> 0]

Request == {Idle}
           \cup [kind : {"absent"}, release : Releases]
           \cup [kind : {"delete"}, release : Releases \cup {NoKey}]

Active(i) == task[i].status \in ActiveStatus

\* Variant: a stale window one tick shorter.
FreshBriefly(i) == task[i].age < StaleAfter - 1

Fresh(i) == task[i].age < StaleAfter
ActiveRows(r) == {i \in Tasks : Active(i) /\ task[i].release = r}
KeyTaken(r) == \E i \in Tasks : task[i].key = r

\* The operation is allowed to change the cluster: StartLoading has succeeded
\* and Finish has not been called.
Live(i) == pc[i] \in {"preparing", "installing"}

----------------------------------------------------------------------------
(* Row updates.                                                            *)

\* Variant: active_key missing from the columns of the update.
ClosedKeepingKey(row, status, phase, msg) ==
    [row EXCEPT !.status = status, !.phase = phase, !.msg = msg, !.age = 0]

Closed(row, status, phase, msg) ==
    [status |-> status, phase |-> phase, key |-> NoKey, release |-> row.release,
     operation |-> row.operation, msg |-> msg, age |-> 0]

Failed(row, msg) == Closed(row, "failed", "failed", msg)

Moved(row, status, phase) ==
    [row EXCEPT !.status = status, !.phase = phase, !.age = 0]

NewRow(r, op) ==
    [status |-> "pending", phase |-> "queued", key |-> r, release |-> r,
     operation |-> op, msg |-> "none", age |-> 0]

\* The row a goroutine's Finish writes for the outcome it wants.
Outcome(i) ==
    IF want[i] = "success" THEN Closed(task[i], "succeeded", "ready", "none")
                           ELSE Failed(task[i], "own")

Touched(i) == IF Active(i) THEN [task EXCEPT ![i].age = 0] ELSE task

----------------------------------------------------------------------------
(* Handlers: CreateHelmOperationTask and DeleteFailedHelmInstall.          *)

\* The new row and the goroutine that will serve it.  The handler still has to
\* tell the browser the task's id.  When the reply of the commit is lost, the
\* handler gives up and the row is left behind.
Insert(rows, r, op) ==
    /\ lastId < MaxTasks
    /\ lastId' = lastId + 1
    /\ task' = [rows EXCEPT ![lastId + 1] = NewRow(r, op)]
    /\ \/ pc' = [pc EXCEPT ![lastId + 1] = "created"]
       \/ DbMayFail /\ pc' = [pc EXCEPT ![lastId + 1] = "gone"]
    /\ UNCHANGED <<logged, want, tries, answer, recVars, up, crashes>>

\* The transaction finds no active row.  Nothing is locked by that: another
\* handler may insert before this one does.
LookupAbsent(q, r) ==
    /\ up /\ request[q] = Idle
    /\ ActiveRows(r) = {}
    /\ request' = [request EXCEPT ![q] = [kind |-> "absent", release |-> r]]
    /\ UNCHANGED <<rowVars, runVars, recVars, up, crashes>>

\* The insert is refused by the unique index on active_key when another active
\* row holds the release.
RefusedByKey(q) ==
    /\ request[q].kind = "absent"
    /\ KeyTaken(request[q].release)
    /\ request' = [request EXCEPT ![q] = Idle]
    /\ UNCHANGED <<rowVars, runVars, recVars, up, crashes>>

InsertTask(q, op) ==
    /\ request[q].kind = "absent"
    /\ ~KeyTaken(request[q].release)
    /\ request' = [request EXCEPT ![q] = Idle]
    /\ Insert(task, request[q].release, op)

\* Variant: the age of the active row is not looked at.
TakeOverAnyAge(q, r, op) ==
    /\ up /\ request[q] = Idle
    /\ \E i \in ActiveRows(r) :
          /\ \A j \in ActiveRows(r) : j <= i
          /\ Insert([task EXCEPT ![i] = Failed(@, "expired")], r, op)
    /\ UNCHANGED request

\* The latest active row has not been updated within the stale window: it is
\* failed and the new row inserted in the same transaction, which holds the
\* stale row's lock.  A fresh row refuses the request, which changes nothing.
TakeOver(q, r, op) ==
    /\ up /\ request[q] = Idle
    /\ \E i \in ActiveRows(r) :
          /\ \A j \in ActiveRows(r) : j <= i
          /\ ~Fresh(i)
          /\ Insert([task EXCEPT ![i] = Failed(@, "expired")], r, op)
    /\ UNCHANGED request

\* DeleteFailedHelmInstall reads the row and checks it outside the transaction.
DeleteRead(q, i) ==
    /\ up /\ request[q] = Idle
    /\ task[i].status = "failed" /\ task[i].operation = "install"
    /\ request' = [request EXCEPT ![q] = [kind |-> "delete", release |-> task[i].release]]
    /\ UNCHANGED <<rowVars, runVars, recVars, up, crashes>>

FailedInstalls(r) ==
    {i \in Tasks : /\ task[i].release = r
                   /\ task[i].operation = "install"
                   /\ task[i].status = "failed"}

DeletedRows(r) ==
    [i \in Tasks |-> IF i \in FailedInstalls(r) THEN [task[i] EXCEPT !.status = "deleted"]
                                                ELSE task[i]]

\* Variant: only the row that was asked for goes.
DeleteLatestOnly(q) ==
    /\ request[q].kind = "delete"
    /\ LET gone == {i \in FailedInstalls(request[q].release) :
                       \A j \in FailedInstalls(request[q].release) : j <= i}
       IN  /\ task' = [i \in Tasks |-> IF i \in gone THEN [task[i] EXCEPT !.status = "deleted"]
                                                     ELSE task[i]]
           /\ logged' = logged \ gone
    /\ request' = [request EXCEPT ![q] = Idle]
    /\ UNCHANGED <<lastId, runVars, recVars, up, crashes>>

\* Variant: the logs stay.
DeleteKeepingLogs(q) ==
    /\ request[q].kind = "delete"
    /\ task' = DeletedRows(request[q].release)
    /\ request' = [request EXCEPT ![q] = Idle]
    /\ UNCHANGED <<logged, lastId, runVars, recVars, up, crashes>>

\* The transaction deletes every failed install of the release, and its logs.
DeleteCommit(q) ==
    /\ request[q].kind = "delete"
    /\ task' = DeletedRows(request[q].release)
    /\ logged' = logged \ FailedInstalls(request[q].release)
    /\ request' = [request EXCEPT ![q] = Idle]
    /\ UNCHANGED <<lastId, runVars, recVars, up, crashes>>

\* The database fails a handler, and its transaction is rolled back.
RequestFails(q) ==
    /\ DbMayFail /\ request[q] # Idle
    /\ request' = [request EXCEPT ![q] = Idle]
    /\ UNCHANGED <<rowVars, runVars, recVars, up, crashes>>

----------------------------------------------------------------------------
(* The goroutine of one operation.                                         *)

\* Finish is called with an outcome.  It closes the recorder's queue and waits;
\* the recorder's goroutine still flushes and beats until it has drained it.
Leave(i, outcome) ==
    /\ pc' = [pc EXCEPT ![i] = "draining"]
    /\ want' = [want EXCEPT ![i] = outcome]
    /\ answer' = [answer EXCEPT ![i] = IF outcome = "failure" THEN "error" ELSE @]
    /\ UNCHANGED <<tries, recVars>>

Advance(i, to) ==
    /\ pc' = [pc EXCEPT ![i] = to]
    /\ UNCHANGED <<want, tries, answer>>

\* TASK_ID has reached the browser: NewHelmOperationRecorder starts the
\* recorder's goroutine and the runner is launched.
Announce(i) ==
    /\ pc[i] = "created"
    /\ Advance(i, "start")
    /\ alive' = [alive EXCEPT ![i] = TRUE]
    /\ beat' = [beat EXCEPT ![i] = 0]
    /\ missed' = [missed EXCEPT ![i] = 0]
    /\ UNCHANGED <<rowVars, request, hung, up, crashes>>

\* Writing or flushing TASK_ID fails: finishUnstartedTask closes the row, if the
\* database lets it.
AnnounceFails(i) ==
    /\ pc[i] = "created"
    /\ Advance(i, "gone")
    /\ \/ task' = IF Active(i) THEN [task EXCEPT ![i] = Failed(@, "own")] ELSE task
       \/ DbMayFail /\ task' = task
    /\ UNCHANGED <<logged, lastId, request, recVars, up, crashes>>

\* One conditional UPDATE that moves the row, or is refused because the row is
\* not where it has to be, or fails; a failed call may have committed.
Step(i, guard, row, to) ==
    /\ \/ guard /\ task' = [task EXCEPT ![i] = row] /\ Advance(i, to) /\ UNCHANGED recVars
       \/ ~guard /\ task' = task /\ Leave(i, "failure")
       \/ DbMayFail /\ guard /\ task' = [task EXCEPT ![i] = row] /\ Leave(i, "failure")
       \/ DbMayFail /\ task' = task /\ Leave(i, "failure")
    /\ UNCHANGED <<logged, lastId, request, up, crashes>>

\* Variant: the UPDATE does not ask for a pending row.
StartLoadingAnyStatus(i) ==
    /\ pc[i] = "start"
    /\ Step(i, TRUE,
            Moved(task[i], "running", "loading"), "preparing")

StartLoading(i) ==
    /\ pc[i] = "start"
    /\ Step(i, task[i].status = "pending" /\ task[i].phase = "queued",
            Moved(task[i], "running", "loading"), "preparing")

\* Configuration, node preflight, chart loading, values and compatibility checks.
PrepareFails(i) ==
    /\ pc[i] = "preparing"
    /\ Leave(i, "failure")
    /\ UNCHANGED <<rowVars, request, up, crashes>>

MarkInstalling(i) ==
    /\ pc[i] = "preparing"
    /\ Step(i, task[i].status = "running" /\ task[i].phase = "loading",
            Moved(task[i], "running", "installing"), "installing")

\* Helm's own call returns, at the latest when its context's deadline passes.
HelmReturns(i, outcome) ==
    /\ pc[i] = "installing"
    /\ Leave(i, outcome)
    /\ UNCHANGED <<rowVars, request, up, crashes>>

----------------------------------------------------------------------------
(* Finish: it waits for the recorder, and then runs finishTaskWithRetry     *)
(* over FinishHelmOperationTaskContext.                                     *)

\* Variant: Finish does not wait for the recorder.
DrainsBeating(i) ==
    /\ pc[i] = "draining"
    /\ pc' = [pc EXCEPT ![i] = "finishing"]
    /\ UNCHANGED <<rowVars, request, want, tries, answer, recVars, up, crashes>>

\* The recorder's goroutine has drained the queue, or had panicked before.
Drains(i) ==
    /\ pc[i] = "draining"
    /\ pc' = [pc EXCEPT ![i] = "finishing"]
    /\ alive' = [alive EXCEPT ![i] = FALSE]
    /\ beat' = [beat EXCEPT ![i] = 0]
    /\ missed' = [missed EXCEPT ![i] = 0]
    /\ UNCHANGED <<rowVars, request, want, tries, answer, hung, up, crashes>>

\* The driver keeps a call of the recorder beyond its deadline, the shutdown
\* timeout and, once the context is cancelled, the grace: Finish goes on without
\* the recorder, for which only that call can still commit.
StopsWaiting(i) ==
    /\ DbMayFail /\ pc[i] = "draining" /\ alive[i]
    /\ pc' = [pc EXCEPT ![i] = "finishing"]
    /\ alive' = [alive EXCEPT ![i] = FALSE]
    /\ beat' = [beat EXCEPT ![i] = 0]
    /\ missed' = [missed EXCEPT ![i] = 0]
    /\ hung' = hung \cup {i}
    /\ UNCHANGED <<rowVars, request, want, tries, answer, up, crashes>>

Ends(i, reply) ==
    /\ pc' = [pc EXCEPT ![i] = "gone"]
    /\ answer' = [answer EXCEPT ![i] = IF want[i] = "failure" THEN @ ELSE reply]
    /\ want' = [want EXCEPT ![i] = "none"]
    /\ tries' = [tries EXCEPT ![i] = 0]

\* An error other than a deadline is retried while attempts remain.
Retries(i) ==
    \/ Ends(i, "error")
    \/ /\ tries[i] + 1 < FinishAttempts
       /\ tries' = [tries EXCEPT ![i] = @ + 1]
       /\ UNCHANGED <<pc, want, answer>>

\* Variant: the UPDATE does not ask for an active row.
FinishCommitsAnyStatus(i) ==
    /\ pc[i] = "finishing"
    /\ task' = [task EXCEPT ![i] = Outcome(i)]
    /\ Ends(i, "done")
    /\ UNCHANGED <<logged, lastId, request, recVars, up, crashes>>

FinishCommits(i) ==
    /\ pc[i] = "finishing" /\ Active(i)
    /\ task' = [task EXCEPT ![i] = Outcome(i)]
    /\ Ends(i, "done")
    /\ UNCHANGED <<logged, lastId, request, recVars, up, crashes>>

\* The UPDATE fails, having committed or not.
FinishFails(i) ==
    /\ DbMayFail /\ pc[i] = "finishing"
    /\ \/ task' = task
       \/ Active(i) /\ task' = [task EXCEPT ![i] = Outcome(i)]
    /\ Retries(i)
    /\ UNCHANGED <<logged, lastId, request, recVars, up, crashes>>

\* HelmOperationTaskHasTerminalOutcomeContext
TerminalMatches(i) ==
    IF want[i] = "success" THEN task[i].status = "succeeded"
                           ELSE task[i].status = "failed" /\ task[i].msg = "own"

\* Variant: any terminal row counts as the wanted one.
FinishTrustsTerminalRow(i) ==
    /\ pc[i] = "finishing" /\ ~Active(i)
    /\ Ends(i, "done")
    /\ UNCHANGED <<rowVars, request, recVars, up, crashes>>

\* The UPDATE matches no row, since the row is terminal or gone: the call still
\* succeeds when the row already records the wanted outcome.  Reading it may fail.
FinishFindsTerminal(i) ==
    /\ pc[i] = "finishing" /\ ~Active(i)
    /\ \/ TerminalMatches(i) /\ Ends(i, "done")
       \/ (~TerminalMatches(i) \/ DbMayFail) /\ Ends(i, "error")
    /\ UNCHANGED <<rowVars, request, recVars, up, crashes>>

----------------------------------------------------------------------------
(* The recorder's goroutine.                                               *)

\* TouchHelmOperationTaskContext, once per heartbeat interval.
Heartbeat(i) ==
    /\ alive[i] /\ beat[i] = HeartbeatEvery
    /\ beat' = [beat EXCEPT ![i] = 0]
    /\ \/ task' = Touched(i) /\ missed' = [missed EXCEPT ![i] = 0]
       \/ /\ DbMayFail /\ missed[i] < MaxMissed
          /\ task' = task /\ missed' = [missed EXCEPT ![i] = @ + 1]
    /\ UNCHANGED <<logged, lastId, request, runVars, alive, hung, up, crashes>>

\* addHelmOperationLogsContext inserts whatever has become of the row.
PersistLogs(i) ==
    /\ alive[i]
    /\ logged' = logged \cup {i}
    /\ task' = Touched(i)
    /\ UNCHANGED <<lastId, request, runVars, recVars, up, crashes>>

\* A panic while persisting is recovered, but the goroutine has ended.
RecorderPanics(i) ==
    /\ PanicsAllowed /\ alive[i]
    /\ alive' = [alive EXCEPT ![i] = FALSE]
    /\ UNCHANGED <<rowVars, request, runVars, beat, missed, hung, up, crashes>>

\* The call that a recorder was left behind in returns: a batch or a heartbeat,
\* committed or not.  Every later call of the recorder finds its context cancelled.
LateCall(i) ==
    /\ i \in hung
    /\ hung' = hung \ {i}
    /\ \/ UNCHANGED <<task, logged>>
       \/ task' = Touched(i) /\ logged' \in {logged, logged \cup {i}}
    /\ UNCHANGED <<lastId, request, runVars, alive, beat, missed, up, crashes>>

----------------------------------------------------------------------------
(* Time and the process.                                                   *)

\* A heartbeat that is due is sent before time goes on.
Tick ==
    /\ \A i \in Tasks : alive[i] => beat[i] < HeartbeatEvery
    /\ \E i \in Tasks : (Active(i) /\ Fresh(i)) \/ alive[i]
    /\ task' = [i \in Tasks |-> IF Active(i) /\ Fresh(i)
                                THEN [task[i] EXCEPT !.age = @ + 1] ELSE task[i]]
    /\ beat' = [i \in Tasks |-> IF alive[i] THEN beat[i] + 1 ELSE beat[i]]
    /\ UNCHANGED <<logged, lastId, request, runVars, alive, missed, hung, up, crashes>>

Crash ==
    /\ up /\ crashes < MaxCrashes
    /\ up' = FALSE
    /\ crashes' = crashes + 1
    /\ pc' = [i \in Tasks |-> IF pc[i] = "none" THEN "none" ELSE "gone"]
    /\ request' = [q \in Requests |-> Idle]
    /\ want' = [i \in Tasks |-> "none"]
    /\ tries' = [i \in Tasks |-> 0]
    /\ alive' = [i \in Tasks |-> FALSE]
    /\ beat' = [i \in Tasks |-> 0]
    /\ missed' = [i \in Tasks |-> 0]
    /\ hung' = {}
    /\ UNCHANGED <<rowVars, answer>>

\* FailInterruptedHelmOperationTasks runs before any request is served; main
\* only warns when it fails.
Restart ==
    /\ ~up /\ up' = TRUE
    /\ \/ task' = [i \in Tasks |-> IF Active(i) THEN Failed(task[i], "interrupted") ELSE task[i]]
       \/ DbMayFail /\ task' = task
    /\ UNCHANGED <<logged, lastId, request, runVars, recVars, crashes>>

----------------------------------------------------------------------------
Init ==
    /\ task = [i \in Tasks |-> NoRow]
    /\ logged = {}
    /\ lastId = 0
    /\ request = [q \in Requests |-> Idle]
    /\ pc = [i \in Tasks |-> "none"]
    /\ want = [i \in Tasks |-> "none"]
    /\ tries = [i \in Tasks |-> 0]
    /\ answer = [i \in Tasks |-> "none"]
    /\ alive = [i \in Tasks |-> FALSE]
    /\ beat = [i \in Tasks |-> 0]
    /\ missed = [i \in Tasks |-> 0]
    /\ hung = {}
    /\ up = TRUE
    /\ crashes = 0

Create(q) ==
    \/ \E r \in Releases : LookupAbsent(q, r)
    \/ RefusedByKey(q)
    \/ \E op \in Operations : InsertTask(q, op)
    \/ \E r \in Releases, op \in Operations : TakeOver(q, r, op)

Delete(q) == (\E i \in Tasks : DeleteRead(q, i)) \/ DeleteCommit(q)

Finish(i) ==
    \/ Drains(i) \/ StopsWaiting(i)
    \/ FinishCommits(i) \/ FinishFails(i) \/ FinishFindsTerminal(i)

Run(i) ==
    \/ Announce(i) \/ AnnounceFails(i)
    \/ StartLoading(i) \/ PrepareFails(i) \/ MarkInstalling(i)
    \/ HelmReturns(i, "success") \/ HelmReturns(i, "failure")
    \/ Finish(i)

Record(i) == Heartbeat(i) \/ PersistLogs(i) \/ RecorderPanics(i) \/ LateCall(i)

Next ==
    \/ \E q \in Requests : Create(q) \/ Delete(q) \/ RequestFails(q)
    \/ \E i \in Tasks : Run(i) \/ Record(i)
    \/ Tick \/ Crash \/ Restart

Spec == Init /\ [][Next]_vars

(* Time passes, and every step of a goroutine ends: each call it makes runs   *)
(* under a deadline (helmInstallOperationDeadline, the persistence timeouts). *)
FairSpec ==
    /\ Spec
    /\ WF_vars(Tick)
    /\ \A i \in Tasks : WF_vars(Run(i)) /\ WF_vars(Heartbeat(i))

----------------------------------------------------------------------------
(* Every variable stays in its type.                                       *)
TypeOK ==
    /\ task \in [Tasks -> Row]
    /\ logged \in SUBSET Tasks
    /\ lastId \in 0..MaxTasks
    /\ request \in [Requests -> Request]
    /\ pc \in [Tasks -> {"none", "created", "start", "preparing", "installing",
                         "draining", "finishing", "gone"}]
    /\ want \in [Tasks -> {"none", "success", "failure"}]
    /\ tries \in [Tasks -> 0..(FinishAttempts - 1)]
    /\ answer \in [Tasks -> {"none", "done", "error"}]
    /\ alive \in [Tasks -> BOOLEAN]
    /\ beat \in [Tasks -> 0..HeartbeatEvery]
    /\ missed \in [Tasks -> 0..MaxMissed]
    /\ hung \in SUBSET Tasks
    /\ up \in BOOLEAN
    /\ crashes \in 0..MaxCrashes

(* At most one row of a release is active, whatever the interleaving of     *)
(* handlers, late finishes, takeovers and restarts.                         *)
OneActiveRow ==
    \A i, j \in Tasks :
        Active(i) /\ Active(j) /\ task[i].release = task[j].release => i = j

(* The unique key is held exactly by the active rows, so a release is never  *)
(* left locked by a row that has ended nor unlocked under a row that has not. *)
KeyIffActive ==
    \A i \in Tasks : task[i].key = IF Active(i) THEN task[i].release ELSE NoKey

(* Key and rows agree: whoever asks for the release is refused by the key exactly *)
(* while a row is active, and by that row alone; and rows and goroutines are of  *)
(* their kinds.                                                                 *)
KeysExact == TypeOK /\ KeyIffActive /\ OneActiveRow

(* A row that has ended keeps its outcome: a late Finish of a goroutine whose *)
(* row was expired or interrupted, a late phase change or a heartbeat never   *)
(* rewrites it.  It can only be deleted, and only as a failed install.        *)
TerminalIsFinal ==
    [][\A i \in Tasks :
          task[i].status \in {"succeeded", "failed", "deleted"} /\ task'[i] # task[i] =>
             /\ task[i].status = "failed" /\ task[i].operation = "install"
             /\ task'[i] = [task[i] EXCEPT !.status = "deleted"]]_vars

(* The browser is told an operation is done only if its row says succeeded,  *)
(* although the row may have been expired and the release handed on meanwhile. *)
DoneMeansSucceeded ==
    \A i \in Tasks : answer[i] = "done" => task[i].status = "succeeded"

(* The stale window only ever takes a release from an operation that is still *)
(* changing the cluster when its recorder has died or the database has refused *)
(* so many heartbeats in a row that they fill the window.                     *)
TakeoverOnlyOfSilent ==
    [][\A i \in Tasks :
          Live(i) /\ task[i].msg # "expired" /\ task'[i].msg = "expired" =>
             ~alive[i] \/ (missed[i] + 1) * HeartbeatEvery >= StaleAfter]_vars

(* Two operations never change the same release at the same time.  It holds  *)
(* while recorders do not die and the heartbeats that may fail in a row do    *)
(* not fill the stale window.                                                 *)
OneLivePerRelease ==
    \A i, j \in Tasks :
        Live(i) /\ Live(j) /\ task[i].release = task[j].release => i = j

(* The table implements the lock of ReleaseLock, under the same conditions.   *)
LockState(row) ==
    CASE row.status = "none" -> "unused"
      [] row.status \in ActiveStatus -> "open"
      [] row.status = "deleted" -> "removed"
      [] OTHER -> row.status
Lock == INSTANCE ReleaseLock WITH
    Operations <- Tasks,
    NoRelease <- NoKey,
    state <- [i \in Tasks |-> LockState(task[i])],
    release <- [i \in Tasks |-> task[i].release],
    working <- {i \in Tasks : Live(i)}
ImplementsLock == Lock!Spec

(* With a database that answers, a running process has no phantom: an active  *)
(* row belongs to a handler or goroutine that will still end it, also after a  *)
(* crash and a restart.                                                       *)
NoPhantom == up => \A i \in Tasks : Active(i) => pc[i] # "gone"

(* Deleting a failed install takes the release off the list of unfinished     *)
(* installs: no earlier failed attempt takes its place.                        *)
Listed(i) ==
    /\ task[i].status \in {"pending", "running", "failed"} /\ task[i].operation = "install"
    /\ \A j \in Tasks : task[j].release = task[i].release
                        /\ task[j].status \notin {"none", "deleted"} => j <= i
DeletedStaysOff ==
    [][\A r \in Releases :
          (\E i \in Tasks : task[i].release = r /\ task[i].status = "failed"
                            /\ task'[i].status = "deleted")
          => ~\E i \in Tasks : /\ task'[i].release = r
                               /\ Listed(i)' /\ task'[i].status = "failed"]_vars

(* A deletion takes the logs with the row, and none come after it, except a    *)
(* batch of an operation that goes on although its row was expired, or the one *)
(* call that Finish's grace left behind in the driver: Finish ends the         *)
(* recorder before it closes the row.                                          *)
Orphan(i) == i \in logged /\ task[i].status = "deleted"
OrphanLogsOnlyLate ==
    [][\A i \in Tasks :
          Orphan(i)' /\ ~Orphan(i) =>
             /\ task[i].status = "deleted"
             /\ i \in hung \/ (alive[i] /\ task[i].msg = "expired")]_vars

(* A release is never blocked for good: every active row ends or goes stale,  *)
(* after which the next request takes the release over.                        *)
ReleaseFreed == \A i \in Tasks : Active(i) ~> (~Active(i) \/ ~Fresh(i))
============================================================================
