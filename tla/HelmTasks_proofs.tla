-------------------------- MODULE HelmTasks_proofs --------------------------
(***************************************************************************)
(* Proofs about HelmTasks, for every value of its constants.               *)
(***************************************************************************)
EXTENDS HelmTasks, TLAPS

----------------------------------------------------------------------------
(* The rows the updates build are rows.                                     *)

LEMMA ZeroAge == 0 \in 0..StaleAfter
BY BoundsAssumption

LEMMA AgedIsRow ==
    ASSUME NEW row \in Row, NEW age \in 0..StaleAfter
    PROVE  [row EXCEPT !.age = age] \in Row
BY DEF Row

LEMMA ClosedIsRow ==
    ASSUME NEW row \in Row,
           NEW status \in {"succeeded", "failed"},
           NEW phase \in {"ready", "failed"},
           NEW msg \in {"none", "own", "expired", "interrupted"}
    PROVE  Closed(row, status, phase, msg) \in Row
BY ZeroAge DEF Closed, Row

LEMMA MovedIsRow ==
    ASSUME NEW row \in Row, NEW phase \in {"loading", "installing"}
    PROVE  Moved(row, "running", phase) \in Row
<1> DEFINE r1 == [row EXCEPT !.status = "running", !.phase = phase]
           r2 == [r1 EXCEPT !.age = 0]
<1>1. r1 \in Row
  BY DEF Row
<1> HIDE DEF r1
<1>2. r2 \in Row
  BY <1>1, AgedIsRow, BoundsAssumption
<1> QED
  BY <1>2, Zenon DEF Moved, r1

LEMMA DeletedIsRow ==
    ASSUME NEW row \in Row
    PROVE  [row EXCEPT !.status = "deleted"] \in Row
BY DEF Row

LEMMA FailedIsRow ==
    ASSUME NEW row \in Row, NEW msg \in {"own", "expired", "interrupted"}
    PROVE  Failed(row, msg) \in Row
BY ClosedIsRow DEF Failed

LEMMA NewIsRow ==
    ASSUME NEW r \in Releases, NEW op \in Operations
    PROVE  NewRow(r, op) \in Row
BY BoundsAssumption DEF NewRow, Row, Operations

LEMMA OutcomeIsRow ==
    ASSUME TypeOK, NEW i \in Tasks
    PROVE  Outcome(i) \in Row
<1>1. task[i] \in Row
  BY DEF TypeOK
<1> QED
  BY <1>1, ClosedIsRow, FailedIsRow DEF Outcome

LEMMA TouchedIsTable ==
    ASSUME TypeOK, NEW i \in Tasks
    PROVE  Touched(i) \in [Tasks -> Row]
<1>1. task[i] \in Row /\ 0 \in 0..StaleAfter
  BY BoundsAssumption DEF TypeOK
<1>2. [task EXCEPT ![i].age = 0] \in [Tasks -> Row]
  BY <1>1, AgedIsRow DEF TypeOK
<1> QED
  BY <1>2 DEF Touched, TypeOK

(* What a conditional UPDATE of a goroutine leaves behind.                  *)
LEMMA StepKeepsType ==
    ASSUME TypeOK, NEW i \in Tasks, NEW guard \in BOOLEAN, NEW row \in Row,
           NEW to \in {"preparing", "installing"},
           Step(i, guard, row, to)
    PROVE  TypeOK'
<1>1. task' \in [Tasks -> Row]
  BY DEF TypeOK, Step
<1>2. CASE Advance(i, to) /\ UNCHANGED recVars
  BY <1>1, <1>2 DEF TypeOK, Step, Advance, recVars
<1>3. CASE Leave(i, "failure")
  BY <1>1, <1>3 DEF TypeOK, Step, Leave, recVars
<1> QED
  BY <1>2, <1>3 DEF Step

LEMMA InsertKeepsType ==
    ASSUME TypeOK, NEW rows \in [Tasks -> Row], NEW r \in Releases, NEW op \in Operations,
           Insert(rows, r, op), request' \in [Requests -> Request]
    PROVE  TypeOK'
<1>1. lastId + 1 \in Tasks /\ lastId' \in 0..MaxTasks
  BY BoundsAssumption DEF TypeOK, Insert, Tasks
<1>2. task' \in [Tasks -> Row]
  BY <1>1, NewIsRow DEF Insert
<1> QED
  BY <1>1, <1>2 DEF TypeOK, Insert, recVars

LEMMA EndsKeepsType ==
    ASSUME TypeOK, NEW i \in Tasks, NEW reply \in {"done", "error"}, Ends(i, reply)
    PROVE  /\ pc' \in [Tasks -> {"none", "created", "start", "preparing", "installing",
                                 "draining", "finishing", "gone"}]
           /\ answer' \in [Tasks -> {"none", "done", "error"}]
           /\ want' \in [Tasks -> {"none", "success", "failure"}]
           /\ tries' \in [Tasks -> 0..(FinishAttempts - 1)]
BY DEF TypeOK, Ends, FinishAttempts

(* Every variable keeps its type: the base of every other proof.            *)
THEOREM TypeCorrect == Spec => []TypeOK
<1>1. Init => TypeOK
  <2>1. NoRow \in Row /\ Idle \in Request
    BY BoundsAssumption DEF NoRow, Row, NoKey, Request
  <2> QED
    BY <2>1, BoundsAssumption DEF Init, TypeOK, FinishAttempts
<1>2. TypeOK /\ [Next]_vars => TypeOK'
  <2> SUFFICES ASSUME TypeOK, [Next]_vars
               PROVE  TypeOK'
    OBVIOUS
  <2>1. ASSUME NEW q \in Requests, NEW r \in Releases, LookupAbsent(q, r)
        PROVE  TypeOK'
    BY <2>1 DEF LookupAbsent, TypeOK, Request, rowVars, runVars, recVars
  <2>2. ASSUME NEW q \in Requests, RefusedByKey(q) \/ RequestFails(q)
        PROVE  TypeOK'
    BY <2>2 DEF RefusedByKey, RequestFails, TypeOK, Request, rowVars, runVars, recVars
  <2>3. ASSUME NEW q \in Requests, NEW op \in Operations, InsertTask(q, op)
        PROVE  TypeOK'
    <3>1. request[q].release \in Releases
      BY <2>3 DEF InsertTask, TypeOK, Request, Idle
    <3>2. request' \in [Requests -> Request]
      BY <2>3 DEF InsertTask, TypeOK, Request
    <3> QED
      BY <2>3, <3>1, <3>2, InsertKeepsType DEF InsertTask, TypeOK
  <2>4. ASSUME NEW q \in Requests, NEW r \in Releases, NEW op \in Operations,
               TakeOver(q, r, op)
        PROVE  TypeOK'
    <3>1. PICK i \in ActiveRows(r) : Insert([task EXCEPT ![i] = Failed(@, "expired")], r, op)
      BY <2>4 DEF TakeOver
    <3>2. [task EXCEPT ![i] = Failed(@, "expired")] \in [Tasks -> Row]
      BY FailedIsRow DEF TypeOK, ActiveRows
    <3> QED
      BY <2>4, <3>1, <3>2, InsertKeepsType DEF TakeOver, TypeOK
  <2>5. ASSUME NEW q \in Requests, NEW i \in Tasks, DeleteRead(q, i)
        PROVE  TypeOK'
    <3>1. task[i].release \in Releases \cup {NoKey}
      BY DEF TypeOK, Row
    <3> QED
      BY <2>5, <3>1 DEF DeleteRead, TypeOK, Request, rowVars, runVars, recVars
  <2>6. ASSUME NEW q \in Requests, DeleteCommit(q)
        PROVE  TypeOK'
    <3>1. task' \in [Tasks -> Row]
      BY <2>6, DeletedIsRow DEF DeleteCommit, DeletedRows, TypeOK
    <3> QED
      BY <2>6, <3>1 DEF DeleteCommit, TypeOK, Request, runVars, recVars
  <2>7. ASSUME NEW i \in Tasks, Announce(i)
        PROVE  TypeOK'
    BY <2>7, BoundsAssumption DEF Announce, Advance, TypeOK, rowVars
  <2>8. ASSUME NEW i \in Tasks, AnnounceFails(i)
        PROVE  TypeOK'
    <3>1. task' \in [Tasks -> Row]
      BY <2>8, FailedIsRow DEF AnnounceFails, TypeOK
    <3> QED
      BY <2>8, <3>1 DEF AnnounceFails, Advance, TypeOK, recVars
  <2>9. ASSUME NEW i \in Tasks, StartLoading(i)
        PROVE  TypeOK'
    <3>1. Moved(task[i], "running", "loading") \in Row
      BY MovedIsRow DEF TypeOK
    <3> QED
      BY <2>9, <3>1, StepKeepsType DEF StartLoading
  <2>10. ASSUME NEW i \in Tasks, MarkInstalling(i)
         PROVE  TypeOK'
    <3>1. Moved(task[i], "running", "installing") \in Row
      BY MovedIsRow DEF TypeOK
    <3> QED
      BY <2>10, <3>1, StepKeepsType DEF MarkInstalling
  <2>11. ASSUME NEW i \in Tasks, NEW outcome \in {"success", "failure"},
                Leave(i, outcome), UNCHANGED <<rowVars, request, up, crashes>>
         PROVE  TypeOK'
    BY <2>11 DEF Leave, TypeOK, rowVars, recVars
  <2>12. ASSUME NEW i \in Tasks, FinishCommits(i)
         PROVE  TypeOK'
    <3>1. task' \in [Tasks -> Row]
      BY <2>12, OutcomeIsRow DEF FinishCommits, TypeOK
    <3> QED
      BY <2>12, <3>1, EndsKeepsType DEF FinishCommits, TypeOK, recVars
  <2>13. ASSUME NEW i \in Tasks, FinishFails(i)
         PROVE  TypeOK'
    <3>1. task' \in [Tasks -> Row]
      BY <2>13, OutcomeIsRow DEF FinishFails, TypeOK
    <3>2. CASE Ends(i, "error")
      BY <2>13, <3>1, <3>2, EndsKeepsType DEF FinishFails, TypeOK, recVars
    <3>3. CASE /\ tries[i] + 1 < FinishAttempts
               /\ tries' = [tries EXCEPT ![i] = @ + 1]
               /\ UNCHANGED <<pc, want, answer>>
      BY <2>13, <3>1, <3>3 DEF FinishFails, TypeOK, recVars, FinishAttempts
    <3> QED
      BY <2>13, <3>2, <3>3 DEF FinishFails, Retries
  <2>14. ASSUME NEW i \in Tasks, FinishFindsTerminal(i)
         PROVE  TypeOK'
    BY <2>14, EndsKeepsType DEF FinishFindsTerminal, Drains, StopsWaiting, TypeOK, rowVars, recVars
  <2>15. ASSUME NEW i \in Tasks, Heartbeat(i)
         PROVE  TypeOK'
    BY <2>15, TouchedIsTable, BoundsAssumption DEF Heartbeat, TypeOK, runVars
  <2>16. ASSUME NEW i \in Tasks, PersistLogs(i)
         PROVE  TypeOK'
    BY <2>16, TouchedIsTable DEF PersistLogs, TypeOK, runVars, recVars
  <2>17. ASSUME NEW i \in Tasks, RecorderPanics(i)
         PROVE  TypeOK'
    BY <2>17 DEF RecorderPanics, TypeOK, rowVars, runVars
  <2>22. ASSUME NEW i \in Tasks, Drains(i) \/ StopsWaiting(i)
         PROVE  TypeOK'
    <3>1. 0 \in 0..HeartbeatEvery /\ 0 \in 0..MaxMissed
      BY BoundsAssumption
    <3>5. alive' = [alive EXCEPT ![i] = FALSE] /\ (hung' = hung \/ hung' = hung \cup {i})
      BY <2>22 DEF Drains, StopsWaiting
    <3>6. beat' = [beat EXCEPT ![i] = 0] /\ missed' = [missed EXCEPT ![i] = 0]
      BY <2>22 DEF Drains, StopsWaiting
    <3>2. /\ beat' \in [Tasks -> 0..HeartbeatEvery] /\ missed' \in [Tasks -> 0..MaxMissed]
          /\ alive' \in [Tasks -> BOOLEAN] /\ hung' \in SUBSET Tasks
      BY <3>1, <3>5, <3>6 DEF TypeOK
    <3>3. pc' = [pc EXCEPT ![i] = "finishing"]
      BY <2>22 DEF Drains, StopsWaiting
    <3>4. UNCHANGED <<rowVars, request, want, tries, answer, up, crashes>>
      BY <2>22 DEF Drains, StopsWaiting
    <3> QED
      BY <3>2, <3>3, <3>4 DEF TypeOK, rowVars
  <2>23. ASSUME NEW i \in Tasks, LateCall(i)
         PROVE  TypeOK'
    <3>1. task' \in [Tasks -> Row] /\ logged' \in SUBSET Tasks
      BY <2>23, TouchedIsTable DEF LateCall, TypeOK
    <3> QED
      BY <2>23, <3>1 DEF LateCall, TypeOK, runVars
  <2>18. CASE Tick
    <3>1. ASSUME NEW i \in Tasks, Fresh(i)
          PROVE  [task[i] EXCEPT !.age = @ + 1] \in Row
      <4>1. task[i] \in Row
        BY DEF TypeOK
      <4>2. task[i].age \in 0..StaleAfter
        BY <4>1 DEF Row
      <4>3. task[i].age + 1 \in 0..StaleAfter
        BY <3>1, <4>2, BoundsAssumption DEF Fresh
      <4> QED
        BY <4>1, <4>3, AgedIsRow
    <3>3. task' \in [Tasks -> Row]
      BY <2>18, <3>1 DEF Tick, TypeOK
    <3>2. beat' \in [Tasks -> 0..HeartbeatEvery]
      BY <2>18, BoundsAssumption DEF Tick, TypeOK
    <3> QED
      BY <2>18, <3>3, <3>2 DEF Tick, TypeOK, runVars
  <2>19. CASE Crash
    <3>1. crashes' \in 0..MaxCrashes
      BY <2>19, BoundsAssumption DEF Crash, TypeOK
    <3>2. request' \in [Requests -> Request]
      BY <2>19 DEF Crash, Request
    <3>3. /\ beat' \in [Tasks -> 0..HeartbeatEvery]
          /\ missed' \in [Tasks -> 0..MaxMissed]
          /\ tries' \in [Tasks -> 0..(FinishAttempts - 1)]
      BY <2>19, BoundsAssumption DEF Crash, FinishAttempts
    <3>4. /\ want' \in [Tasks -> {"none", "success", "failure"}]
          /\ pc' \in [Tasks -> {"none", "created", "start", "preparing", "installing",
                                "draining", "finishing", "gone"}]
      BY <2>19 DEF Crash
    <3>5. alive' \in [Tasks -> BOOLEAN] /\ up' \in BOOLEAN
      BY <2>19, Zenon DEF Crash
    <3> QED
      BY <2>19, <3>1, <3>2, <3>3, <3>4, <3>5 DEF Crash, TypeOK, rowVars
  <2>20. CASE Restart
    <3>1. task' \in [Tasks -> Row]
      BY <2>20, FailedIsRow DEF Restart, TypeOK
    <3> QED
      BY <2>20, <3>1 DEF Restart, TypeOK, runVars, recVars
  <2>21. CASE UNCHANGED vars
    BY <2>21 DEF vars, rowVars, runVars, recVars, TypeOK
  <2> QED
    BY <2>1, <2>2, <2>3, <2>4, <2>5, <2>6, <2>7, <2>8, <2>9, <2>10, <2>11, <2>12, <2>13,
       <2>14, <2>15, <2>16, <2>17, <2>18, <2>19, <2>20, <2>21, <2>22, <2>23
    DEF Next, Create, Delete, Run, Record, Finish, PrepareFails, HelmReturns
<1> QED
  BY <1>1, <1>2, PTL DEF Spec

----------------------------------------------------------------------------
(* The life of a row.  Whatever step is taken, a row is left alone, moves   *)
(* on, ends, is removed or is created; every theorem about rows below uses  *)
(* the actions through this lemma.                                           *)

Kept(i) == task'[i] = task[i]

SameOwner(i) ==
    task'[i].release = task[i].release /\ task'[i].operation = task[i].operation

MovedOn(i) ==
    /\ Active(i) /\ task'[i].status \in ActiveStatus
    /\ task'[i].key = task[i].key /\ task'[i].msg = task[i].msg /\ SameOwner(i)

\* Who ends a row: the handler that could not announce it, its goroutine, a
\* request that finds it stale, or the next process.
Expires(i) ==
    /\ ~Fresh(i) /\ task'[i] = Failed(task[i], "expired")
    /\ pc'[i] = pc[i] /\ UNCHANGED <<recVars, up>>

ClosedBy(i) ==
    \/ AnnounceFails(i) /\ task'[i] = Failed(task[i], "own")
    \/ (FinishCommits(i) \/ FinishFails(i)) /\ task'[i] = Outcome(i)
    \/ Expires(i)
    \/ Restart /\ task'[i] = Failed(task[i], "interrupted")

Ended(i) ==
    /\ Active(i) /\ task'[i].status \in {"succeeded", "failed"}
    /\ task'[i].key = NoKey /\ SameOwner(i)
    /\ ClosedBy(i)

Removed(i) ==
    /\ task[i].status = "failed" /\ task[i].operation = "install"
    /\ task'[i] = [task[i] EXCEPT !.status = "deleted"]
    /\ \E q \in Requests : DeleteCommit(q) /\ i \in FailedInstalls(request[q].release)

Created(i) ==
    /\ i = lastId + 1 /\ lastId' = lastId + 1
    /\ \E r \in Releases, op \in Operations : task'[i] = NewRow(r, op)

RowStep(i) == Kept(i) \/ MovedOn(i) \/ Ended(i) \/ Removed(i) \/ Created(i)

LEMMA ClosedFields ==
    ASSUME NEW row \in Row, NEW status, NEW phase, NEW msg
    PROVE  /\ Closed(row, status, phase, msg).status = status
           /\ Closed(row, status, phase, msg).key = NoKey
           /\ Closed(row, status, phase, msg).release = row.release
           /\ Closed(row, status, phase, msg).operation = row.operation
           /\ Closed(row, status, phase, msg).msg = msg
BY DEF Closed, Row

LEMMA FailedFields ==
    ASSUME NEW row \in Row, NEW msg
    PROVE  /\ Failed(row, msg).status = "failed"
           /\ Failed(row, msg).key = NoKey
           /\ Failed(row, msg).release = row.release
           /\ Failed(row, msg).operation = row.operation
           /\ Failed(row, msg).msg = msg
BY ClosedFields DEF Failed

LEMMA MovedFields ==
    ASSUME NEW row \in Row, NEW status, NEW phase
    PROVE  /\ Moved(row, status, phase).status = status
           /\ Moved(row, status, phase).key = row.key
           /\ Moved(row, status, phase).release = row.release
           /\ Moved(row, status, phase).operation = row.operation
           /\ Moved(row, status, phase).msg = row.msg
           /\ Moved(row, status, phase).age = 0
BY DEF Moved, Row

LEMMA AgedFields ==
    ASSUME NEW row \in Row, NEW age
    PROVE  /\ [row EXCEPT !.age = age].status = row.status
           /\ [row EXCEPT !.age = age].key = row.key
           /\ [row EXCEPT !.age = age].release = row.release
           /\ [row EXCEPT !.age = age].operation = row.operation
           /\ [row EXCEPT !.age = age].msg = row.msg
           /\ [row EXCEPT !.age = age].age = age
BY DEF Row

LEMMA OutcomeEnds ==
    ASSUME TypeOK, NEW i \in Tasks, Active(i), task' = [task EXCEPT ![i] = Outcome(i)],
           FinishCommits(i) \/ FinishFails(i)
    PROVE  \A j \in Tasks : RowStep(j)
<1>1. task[i] \in Row
  BY DEF TypeOK
<1>2. task'[i] = Outcome(i) /\ \A j \in Tasks : j # i => Kept(j)
  BY DEF TypeOK, Kept
<1>3. Ended(i)
  <2>1. CASE task'[i] = Closed(task[i], "succeeded", "ready", "none")
    <3>1. /\ task'[i].status = "succeeded" /\ task'[i].key = NoKey
          /\ task'[i].release = task[i].release /\ task'[i].operation = task[i].operation
      BY <2>1 DEF Closed
    <3> QED
      BY <1>2, <3>1 DEF Ended, SameOwner, ClosedBy
  <2>2. CASE task'[i] = Failed(task[i], "own")
    BY <1>1, <1>2, <2>2, FailedFields DEF Ended, SameOwner, ClosedBy
  <2> QED
    BY <1>2, <2>1, <2>2 DEF Outcome
<1> QED
  BY <1>2, <1>3 DEF RowStep

LEMMA FailingEnds ==
    ASSUME TypeOK, NEW i \in Tasks, Active(i), AnnounceFails(i),
           task' = [task EXCEPT ![i] = Failed(@, "own")]
    PROVE  \A j \in Tasks : RowStep(j)
<1>1. task[i] \in Row
  BY DEF TypeOK
<1>2. task'[i] = Failed(task[i], "own") /\ \A j \in Tasks : j # i => Kept(j)
  BY DEF TypeOK, Kept
<1>3. Ended(i)
  BY <1>1, <1>2, FailedFields DEF Ended, SameOwner, ClosedBy
<1> QED
  BY <1>2, <1>3 DEF RowStep

LEMMA TouchMovesOn ==
    ASSUME TypeOK, NEW i \in Tasks, task' = Touched(i)
    PROVE  \A j \in Tasks : RowStep(j)
<1>1. task[i] \in Row
  BY DEF TypeOK
<1>2. CASE Active(i)
  <2>1. task'[i] = [task[i] EXCEPT !.age = 0] /\ \A j \in Tasks : j # i => Kept(j)
    BY <1>2 DEF Touched, TypeOK, Kept
  <2>2. MovedOn(i)
    BY <1>1, <1>2, <2>1, AgedFields DEF MovedOn, Active, SameOwner
  <2> QED
    BY <2>1, <2>2 DEF RowStep
<1>3. CASE ~Active(i)
  BY <1>3 DEF Touched, RowStep, Kept
<1> QED
  BY <1>2, <1>3

LEMMA StepMovesOn ==
    ASSUME TypeOK, NEW i \in Tasks, NEW guard, NEW phase, NEW to,
           guard => Active(i), Step(i, guard, Moved(task[i], "running", phase), to)
    PROVE  \A j \in Tasks : RowStep(j)
<1>1. task[i] \in Row
  BY DEF TypeOK
<1>2. CASE guard /\ task' = [task EXCEPT ![i] = Moved(task[i], "running", phase)]
  <2>1. task'[i] = Moved(task[i], "running", phase) /\ \A j \in Tasks : j # i => Kept(j)
    BY <1>2 DEF TypeOK, Kept
  <2>2. MovedOn(i)
    BY <1>1, <1>2, <2>1, MovedFields DEF MovedOn, ActiveStatus, SameOwner
  <2> QED
    BY <2>1, <2>2 DEF RowStep
<1>3. CASE task' = task
  BY <1>3 DEF RowStep, Kept
<1> QED
  BY <1>2, <1>3 DEF Step

LEMMA RowLife ==
    ASSUME TypeOK, [Next]_vars
    PROVE  \A i \in Tasks : RowStep(i)
<1>1. ASSUME UNCHANGED task
      PROVE  \A i \in Tasks : RowStep(i)
  BY <1>1 DEF RowStep, Kept
<1>2. ASSUME NEW q \in Requests, NEW op \in Operations, InsertTask(q, op)
      PROVE  \A i \in Tasks : RowStep(i)
  <2>1. request[q].release \in Releases
    BY <1>2 DEF InsertTask, TypeOK, Request, Idle
  <2>2. lastId + 1 \in Tasks
    BY <1>2, BoundsAssumption DEF InsertTask, Insert, TypeOK, Tasks
  <2>3. /\ task'[lastId + 1] = NewRow(request[q].release, op)
        /\ \A i \in Tasks : i # lastId + 1 => Kept(i)
    BY <1>2, <2>2 DEF InsertTask, Insert, TypeOK, Kept
  <2> QED
    BY <1>2, <2>1, <2>3 DEF RowStep, Created, InsertTask, Insert
<1>3. ASSUME NEW q \in Requests, NEW r \in Releases, NEW op \in Operations, TakeOver(q, r, op)
      PROVE  \A i \in Tasks : RowStep(i)
  <2>1. PICK k \in ActiveRows(r) :
           ~Fresh(k) /\ Insert([task EXCEPT ![k] = Failed(@, "expired")], r, op)
    BY <1>3 DEF TakeOver
  <2>2. k \in Tasks /\ Active(k) /\ task[k] \in Row
    BY DEF ActiveRows, TypeOK
  <2>3. lastId + 1 \in Tasks
    BY <2>1, BoundsAssumption DEF Insert, TypeOK, Tasks
  <2>4. /\ task'[lastId + 1] = NewRow(r, op)
        /\ k # lastId + 1 => task'[k] = Failed(task[k], "expired")
        /\ \A i \in Tasks : i # lastId + 1 /\ i # k => Kept(i)
    BY <2>1, <2>2, <2>3 DEF Insert, TypeOK, Kept
  <2>7. k # lastId + 1 => Expires(k)
    BY <2>1, <2>2, <2>4 DEF Expires, Insert, TypeOK
  <2>5. k # lastId + 1 => Ended(k)
    BY <2>2, <2>4, <2>7, FailedFields DEF Ended, SameOwner, ClosedBy
  <2>6. Created(lastId + 1)
    BY <2>1, <2>4 DEF Created, Insert
  <2> QED
    BY <2>4, <2>5, <2>6 DEF RowStep
<1>4. ASSUME NEW q \in Requests, DeleteCommit(q)
      PROVE  \A i \in Tasks : RowStep(i)
  BY <1>4 DEF DeleteCommit, DeletedRows, FailedInstalls, RowStep, Kept, Removed
<1>5. ASSUME NEW i \in Tasks, AnnounceFails(i)
      PROVE  \A j \in Tasks : RowStep(j)
  BY <1>1, <1>5, FailingEnds DEF AnnounceFails
<1>6. ASSUME NEW i \in Tasks, StartLoading(i)
      PROVE  \A j \in Tasks : RowStep(j)
  BY <1>6, StepMovesOn DEF StartLoading, Active, ActiveStatus
<1>7. ASSUME NEW i \in Tasks, MarkInstalling(i)
      PROVE  \A j \in Tasks : RowStep(j)
  BY <1>7, StepMovesOn DEF MarkInstalling, Active, ActiveStatus
<1>8. ASSUME NEW i \in Tasks, FinishCommits(i)
      PROVE  \A j \in Tasks : RowStep(j)
  BY <1>8, OutcomeEnds DEF FinishCommits
<1>9. ASSUME NEW i \in Tasks, FinishFails(i)
      PROVE  \A j \in Tasks : RowStep(j)
  BY <1>1, <1>9, OutcomeEnds DEF FinishFails
<1>10. ASSUME NEW i \in Tasks, Heartbeat(i)
       PROVE  \A j \in Tasks : RowStep(j)
  BY <1>1, <1>10, TouchMovesOn DEF Heartbeat
<1>11. ASSUME NEW i \in Tasks, PersistLogs(i)
       PROVE  \A j \in Tasks : RowStep(j)
  BY <1>11, TouchMovesOn DEF PersistLogs
<1>14. ASSUME NEW i \in Tasks, LateCall(i)
       PROVE  \A j \in Tasks : RowStep(j)
  BY <1>1, <1>14, TouchMovesOn DEF LateCall
<1>12. CASE Tick
  <2>1. SUFFICES ASSUME NEW i \in Tasks, Active(i), task'[i] = [task[i] EXCEPT !.age = @ + 1]
                 PROVE  MovedOn(i)
    BY <1>12 DEF Tick, RowStep, Kept
  <2>2. task[i] \in Row
    BY DEF TypeOK
  <2> QED
    BY <2>1, <2>2, AgedFields DEF MovedOn, Active, SameOwner
<1>13. CASE Restart
  <2>1. SUFFICES ASSUME NEW i \in Tasks, Active(i), task'[i] = Failed(task[i], "interrupted")
                 PROVE  Ended(i)
    BY <1>1, <1>13 DEF Restart, RowStep, Kept
  <2>2. task[i] \in Row
    BY DEF TypeOK
  <2> QED
    BY <1>13, <2>1, <2>2, FailedFields DEF Ended, SameOwner, ClosedBy
<1> QED
  BY <1>1, <1>2, <1>3, <1>4, <1>5, <1>6, <1>7, <1>8, <1>9, <1>10, <1>11, <1>12, <1>13, <1>14
  DEF Next, vars, rowVars, Create, Delete, Run, Record, Finish, LookupAbsent, RefusedByKey,
      RequestFails,
      DeleteRead, Announce, PrepareFails, HelmReturns, FinishFindsTerminal, Drains,
      StopsWaiting, RecorderPanics, Crash

----------------------------------------------------------------------------
(* The unique key.                                                          *)

Keys == TypeOK /\ KeyIffActive /\ OneActiveRow

LEMMA NewRowFields ==
    ASSUME NEW r \in Releases, NEW op \in Operations
    PROVE  /\ NewRow(r, op).status = "pending"
           /\ NewRow(r, op).key = r
           /\ NewRow(r, op).release = r
BY DEF NewRow

LEMMA DeletedFields ==
    ASSUME NEW row \in Row
    PROVE  /\ [row EXCEPT !.status = "deleted"].status = "deleted"
           /\ [row EXCEPT !.status = "deleted"].key = row.key
           /\ [row EXCEPT !.status = "deleted"].release = row.release
           /\ [row EXCEPT !.status = "deleted"].operation = row.operation
           /\ [row EXCEPT !.status = "deleted"].msg = row.msg
BY DEF Row

LEMMA KeySurvives ==
    ASSUME TypeOK, KeyIffActive, NEW i \in Tasks, RowStep(i)
    PROVE  task'[i].key = IF Active(i)' THEN task'[i].release ELSE NoKey
<1>1. task[i] \in Row
  BY DEF TypeOK
<1>2. CASE Kept(i)
  BY <1>2 DEF Kept, KeyIffActive, Active
<1>3. CASE MovedOn(i)
  BY <1>3 DEF MovedOn, KeyIffActive, Active, SameOwner
<1>4. CASE Ended(i)
  BY <1>4 DEF Ended, Active, ActiveStatus
<1>5. CASE Removed(i)
  BY <1>1, <1>5, DeletedFields DEF Removed, KeyIffActive, Active, ActiveStatus
<1>6. CASE Created(i)
  BY <1>6, NewRowFields DEF Created, Active, ActiveStatus
<1> QED
  BY <1>2, <1>3, <1>4, <1>5, <1>6 DEF RowStep

(* A row that is active after a step and was not created by it was active    *)
(* before, on the same release.                                              *)
LEMMA ActiveWasActive ==
    ASSUME TypeOK, NEW i \in Tasks, RowStep(i), ~Created(i), Active(i)'
    PROVE  Active(i) /\ task'[i].release = task[i].release
<1>1. task[i] \in Row
  BY DEF TypeOK
<1>2. CASE Kept(i)
  BY <1>2 DEF Kept, Active
<1>3. CASE MovedOn(i)
  BY <1>3 DEF MovedOn, SameOwner
<1>4. CASE Removed(i)
  BY <1>1, <1>4, DeletedFields DEF Removed, Active, ActiveStatus
<1> QED
  BY <1>2, <1>3, <1>4 DEF RowStep, Ended, Active, ActiveStatus

(* The row a step creates is alone on its release: the unique index refuses  *)
(* the insert otherwise, and a takeover ends the only active row there was.   *)
LEMMA CreatedAlone ==
    ASSUME Keys, [Next]_vars, NEW i \in Tasks, Created(i),
           NEW j \in Tasks, j # i, Active(j)'
    PROVE  task'[j].release # task'[i].release
<1> USE DEF Keys
<1>1. lastId \in Nat /\ RowStep(j) /\ ~Created(j)
  BY RowLife DEF Created, TypeOK
<1>2. Active(j) /\ task'[j].release = task[j].release
  BY <1>1, ActiveWasActive
<1>3. ASSUME NEW q \in Requests, NEW op \in Operations, InsertTask(q, op)
      PROVE  task'[j].release # task'[i].release
  <2>1. request[q].release \in Releases
    BY <1>3 DEF InsertTask, TypeOK, Request, Idle
  <2>2. task'[i] = NewRow(request[q].release, op)
    BY <1>3 DEF InsertTask, Insert, Created, TypeOK
  <2>3. task[j].release # request[q].release
    BY <1>2, <1>3 DEF InsertTask, KeyTaken, KeyIffActive
  <2> QED
    BY <1>2, <2>1, <2>2, <2>3, NewRowFields
<1>4. ASSUME NEW q \in Requests, NEW r \in Releases, NEW op \in Operations, TakeOver(q, r, op)
      PROVE  task'[j].release # task'[i].release
  <2>1. PICK k \in ActiveRows(r) : Insert([task EXCEPT ![k] = Failed(@, "expired")], r, op)
    BY <1>4 DEF TakeOver
  <2>2. k \in Tasks /\ Active(k) /\ task[k].release = r /\ task[k] \in Row
    BY DEF ActiveRows, TypeOK
  <2>3. task'[i] = NewRow(r, op)
    BY <2>1 DEF Insert, Created, TypeOK
  <2>4. j # k
    BY <1>2, <2>1, <2>2, FailedFields DEF Insert, Created, TypeOK, Active, ActiveStatus
  <2>5. task[j].release # r
    BY <1>2, <2>2, <2>4 DEF OneActiveRow
  <2> QED
    BY <1>2, <2>3, <2>5, NewRowFields
<1>5. ASSUME UNCHANGED lastId
      PROVE  FALSE
  BY <1>1, <1>5 DEF Created
<1> QED
  BY <1>3, <1>4, <1>5
  DEF Next, vars, rowVars, Create, Delete, Run, Record, Finish, LookupAbsent, RefusedByKey,
      RequestFails,
      DeleteRead, DeleteCommit, Announce, AnnounceFails, StartLoading, MarkInstalling, Step,
      PrepareFails, HelmReturns, FinishCommits, FinishFails, FinishFindsTerminal, Drains,
      StopsWaiting,
      Heartbeat, PersistLogs, RecorderPanics, LateCall, Tick, Crash, Restart

THEOREM KeysInductive == Spec => []Keys
<1>1. Init => KeyIffActive /\ OneActiveRow
  <2>1. NoRow.status = "none" /\ NoRow.key = NoKey
    BY DEF NoRow
  <2>2. Init => \A i \in Tasks : task[i].status = "none" /\ task[i].key = NoKey
    BY <2>1 DEF Init
  <2> QED
    BY <2>2 DEF KeyIffActive, OneActiveRow, Active, ActiveStatus
<1>2. Keys /\ TypeOK' /\ [Next]_vars => Keys'
  <2> SUFFICES ASSUME Keys, TypeOK', [Next]_vars
               PROVE  KeyIffActive' /\ OneActiveRow'
    BY DEF Keys
  <2>1. \A i \in Tasks : RowStep(i)
    BY RowLife DEF Keys
  <2>2. KeyIffActive'
    BY <2>1, KeySurvives DEF Keys, KeyIffActive
  <2>3. ASSUME NEW i \in Tasks, NEW j \in Tasks, Active(i)', Active(j)',
               task'[i].release = task'[j].release
        PROVE  i = j
    <3>1. CASE Created(i) \/ Created(j)
      BY <2>3, <3>1, CreatedAlone
    <3>2. CASE ~Created(i) /\ ~Created(j)
      BY <2>1, <2>3, <3>2, ActiveWasActive DEF Keys, OneActiveRow
    <3> QED
      BY <3>1, <3>2
  <2>4. OneActiveRow'
    BY <2>3 DEF OneActiveRow
  <2> QED
    BY <2>2, <2>4
<1> QED
  BY <1>1, <1>2, TypeCorrect, PTL DEF Spec, Keys

(* At most one row of a release is ever active.                             *)
THEOREM OneActive == Spec => []OneActiveRow
BY KeysInductive, PTL DEF Keys

(* The unique key is held exactly by the active rows.                       *)
THEOREM KeyHeldWhileActive == Spec => []KeyIffActive
BY KeysInductive, PTL DEF Keys

(* Together, the table's promise to whoever asks for a release.             *)
THEOREM KeysAlwaysExact == Spec => []KeysExact
<1>1. Keys => KeysExact
  BY DEF Keys, KeysExact
<1> QED
  BY <1>1, KeysInductive, PTL

----------------------------------------------------------------------------
(* Ids are used once: beyond the counter there is neither row nor goroutine, *)
(* and the row the counter hands out next is not overwritten.                *)

Unused == \A i \in Tasks : i > lastId => task[i].status = "none" /\ pc[i] = "none"

LEMMA UnusedStep ==
    ASSUME TypeOK, Unused, [Next]_vars
    PROVE  Unused'
<1>1. lastId \in Nat /\ (lastId' = lastId \/ lastId' = lastId + 1)
  BY DEF TypeOK, Next, vars, rowVars, Create, Delete, Run, Record, Finish, LookupAbsent,
      RefusedByKey, RequestFails, InsertTask, TakeOver, Insert, DeleteRead, DeleteCommit, Announce,
      AnnounceFails, StartLoading, MarkInstalling, Step, PrepareFails, HelmReturns,
      FinishCommits, FinishFails, FinishFindsTerminal, Drains, StopsWaiting, Heartbeat, PersistLogs,
      RecorderPanics, LateCall, Tick, Crash, Restart
<1>2. SUFFICES ASSUME NEW i \in Tasks, i > lastId'
               PROVE  task'[i].status = "none" /\ pc'[i] = "none"
  BY DEF Unused
<1>3. i > lastId /\ task[i].status = "none" /\ pc[i] = "none" /\ ~Created(i)
  BY <1>1, <1>2 DEF Unused, Created, Tasks
<1>4. task'[i].status = "none"
  BY <1>3, RowLife DEF RowStep, Kept, MovedOn, Ended, Removed, Active, ActiveStatus
<1>5. ASSUME NEW rows, NEW r, NEW op, Insert(rows, r, op)
      PROVE  pc'[i] = "none"
  <2>1. lastId' = lastId + 1 /\ \E to : pc' = [pc EXCEPT ![lastId + 1] = to]
    BY <1>5 DEF Insert
  <2>2. i # lastId + 1
    BY <1>1, <1>2, <2>1 DEF Tasks
  <2> QED
    BY <1>3, <2>1, <2>2 DEF TypeOK
<1>6. ASSUME NEW q \in Requests, NEW op \in Operations, InsertTask(q, op)
      PROVE  pc'[i] = "none"
  BY <1>5, <1>6 DEF InsertTask
<1>7. ASSUME NEW q \in Requests, NEW r \in Releases, NEW op \in Operations, TakeOver(q, r, op)
      PROVE  pc'[i] = "none"
  BY <1>5, <1>7 DEF TakeOver
<1>8. ASSUME NEW j \in Tasks, Run(j)
      PROVE  pc'[i] = "none"
  <2>1. pc[j] # "none"
    BY <1>8 DEF Run, Finish, Announce, AnnounceFails, StartLoading, PrepareFails,
        MarkInstalling, HelmReturns, FinishCommits, FinishFails, FinishFindsTerminal, Drains,
        StopsWaiting
  <2>2. \/ pc' = pc
        \/ \E to : pc' = [pc EXCEPT ![j] = to]
    BY <1>8 DEF Run, Finish, Announce, AnnounceFails, StartLoading, PrepareFails,
        MarkInstalling, HelmReturns, FinishCommits, FinishFails, FinishFindsTerminal, Drains,
        StopsWaiting,
        Step, Advance, Leave, Ends, Retries
  <2> QED
    BY <1>3, <2>1, <2>2 DEF TypeOK
<1>9. ASSUME UNCHANGED pc
      PROVE  pc'[i] = "none"
  BY <1>3, <1>9
<1>10. ASSUME Crash
       PROVE  pc'[i] = "none"
  BY <1>3, <1>10 DEF Crash
<1>11. \/ \E q \in Requests, op \in Operations : InsertTask(q, op)
       \/ \E q \in Requests, r \in Releases, op \in Operations : TakeOver(q, r, op)
       \/ \E j \in Tasks : Run(j)
       \/ UNCHANGED pc
       \/ Crash
  BY DEF Next, vars, runVars, Create, Delete, Record, LookupAbsent, RefusedByKey, RequestFails,
      DeleteRead,
      DeleteCommit, Heartbeat, PersistLogs, RecorderPanics, LateCall, Tick, Restart
<1>12. pc'[i] = "none"
  BY <1>6, <1>7, <1>8, <1>9, <1>10, <1>11
<1> QED
  BY <1>4, <1>12

THEOREM UnusedAhead == Spec => []Unused
<1>1. Init => Unused
  BY DEF Init, Unused, NoRow
<1>2. Unused /\ TypeOK /\ [Next]_vars => Unused'
  BY UnusedStep
<1> QED
  BY <1>1, <1>2, TypeCorrect, PTL DEF Spec

----------------------------------------------------------------------------
(* A row that has ended keeps its outcome, whatever its goroutine, a request, *)
(* a restart or a late heartbeat does afterwards.                             *)
THEOREM OutcomesFinal == Spec => TerminalIsFinal
<1> DEFINE Final(i) ==
      task[i].status \in {"succeeded", "failed", "deleted"} /\ task'[i] # task[i] =>
         /\ task[i].status = "failed" /\ task[i].operation = "install"
         /\ task'[i] = [task[i] EXCEPT !.status = "deleted"]
<1>1. TypeOK /\ Unused /\ [Next]_vars => [\A i \in Tasks : Final(i)]_vars
  <2> SUFFICES ASSUME TypeOK, Unused, [Next]_vars, NEW i \in Tasks
               PROVE  Final(i)
    OBVIOUS
  <2>1. RowStep(i)
    BY RowLife
  <2>2. ASSUME Created(i)
        PROVE  task[i].status = "none"
    BY <2>2 DEF Created, Unused, TypeOK, Tasks
  <2> QED
    BY <2>1, <2>2 DEF RowStep, Kept, MovedOn, Ended, Removed, Active, ActiveStatus
<1> QED
  BY <1>1, TypeCorrect, UnusedAhead, PTL DEF Spec, TerminalIsFinal

----------------------------------------------------------------------------
(* The answer the browser gets.                                              *)

Told(i) ==
    /\ answer[i] = "done" => task[i].status = "succeeded" /\ pc[i] = "gone"
    /\ pc[i] \in {"draining", "finishing"} => want[i] # "none"

LEMMA SucceededStays ==
    ASSUME TypeOK, Unused, [Next]_vars, NEW i \in Tasks, task[i].status = "succeeded"
    PROVE  task'[i].status = "succeeded"
<1>1. RowStep(i)
  BY RowLife
<1>2. ~Created(i)
  BY DEF Created, Unused, TypeOK, Tasks
<1> QED
  BY <1>1, <1>2 DEF RowStep, Kept, MovedOn, Ended, Removed, Active, ActiveStatus

(* A goroutine that has ended does not start again.                          *)
LEMMA GoneStays ==
    ASSUME TypeOK, Unused, [Next]_vars, NEW i \in Tasks, pc[i] = "gone"
    PROVE  pc'[i] = "gone"
<1>1. i # lastId + 1
  BY DEF Unused, TypeOK, Tasks
<1>2. ASSUME NEW j \in Tasks, Run(j)
      PROVE  pc'[i] = "gone"
  <2>1. \/ pc' = pc
        \/ pc[j] # "gone" /\ \E to : pc' = [pc EXCEPT ![j] = to]
        \/ pc' = [pc EXCEPT ![j] = "gone"]
    BY <1>2 DEF Run, Finish, Announce, AnnounceFails, StartLoading, PrepareFails,
        MarkInstalling, HelmReturns, FinishCommits, FinishFails, FinishFindsTerminal, Drains,
        StopsWaiting,
        Step, Advance, Leave, Ends, Retries
  <2> QED
    BY <2>1 DEF TypeOK
<1> QED
  BY <1>1, <1>2
  DEF Next, vars, runVars, Create, Delete, Record, LookupAbsent, RefusedByKey, RequestFails,
      InsertTask,
      TakeOver, Insert, DeleteRead, DeleteCommit, Heartbeat, PersistLogs, RecorderPanics, LateCall,
      Tick, Crash, Restart, TypeOK

(* What the two ways of ending a goroutine do to the answers.                *)
LEMMA LeaveTells ==
    ASSUME TypeOK, NEW i \in Tasks, Told(i), answer[i] # "done",
           NEW j \in Tasks, NEW outcome \in {"success", "failure"}, Leave(j, outcome)
    PROVE  answer'[i] # "done" /\ (pc'[i] \in {"draining", "finishing"} => want'[i] # "none")
BY DEF Leave, Told, TypeOK

LEMMA AdvanceTells ==
    ASSUME TypeOK, NEW i \in Tasks, Told(i), answer[i] # "done",
           NEW j \in Tasks, NEW to \in {"start", "preparing", "installing", "gone"},
           Advance(j, to)
    PROVE  answer'[i] # "done" /\ (pc'[i] \in {"draining", "finishing"} => want'[i] # "none")
BY DEF Advance, Told, TypeOK

LEMMA StepTells ==
    ASSUME TypeOK, NEW i \in Tasks, Told(i), answer[i] # "done",
           NEW j \in Tasks, NEW guard, NEW row, NEW to \in {"preparing", "installing"},
           Step(j, guard, row, to)
    PROVE  answer'[i] # "done" /\ (pc'[i] \in {"draining", "finishing"} => want'[i] # "none")
<1>1. Advance(j, to) \/ Leave(j, "failure")
  BY DEF Step
<1> QED
  BY <1>1, LeaveTells, AdvanceTells

LEMMA EndsTells ==
    ASSUME TypeOK, NEW i \in Tasks, Told(i), answer[i] # "done",
           NEW j \in Tasks, NEW reply \in {"done", "error"}, Ends(j, reply)
    PROVE  /\ answer'[i] = "done" => i = j /\ reply = "done" /\ want[i] # "failure"
                                     /\ pc'[i] = "gone"
           /\ pc'[i] \in {"draining", "finishing"} => want'[i] # "none"
BY DEF Ends, Told, TypeOK

LEMMA CommitTells ==
    ASSUME TypeOK, NEW i \in Tasks, Told(i), answer[i] # "done",
           NEW j \in Tasks, FinishCommits(j)
    PROVE  Told(i)'
<1>1. Ends(j, "done") /\ task' = [task EXCEPT ![j] = Outcome(j)] /\ pc[j] = "finishing"
  BY DEF FinishCommits
<1>2. ASSUME answer'[i] = "done"
      PROVE  task'[i].status = "succeeded" /\ pc'[i] = "gone"
  <2>1. i = j /\ want[i] = "success" /\ pc'[i] = "gone"
    BY <1>1, <1>2, EndsTells DEF Told, TypeOK
  <2>2. task'[i] = Closed(task[i], "succeeded", "ready", "none")
    BY <1>1, <2>1 DEF Outcome, TypeOK
  <2> QED
    BY <2>1, <2>2 DEF Closed
<1> QED
  BY <1>1, <1>2, EndsTells DEF Told

LEMMA TerminalTells ==
    ASSUME TypeOK, NEW i \in Tasks, Told(i), answer[i] # "done",
           NEW j \in Tasks, FinishFindsTerminal(j)
    PROVE  Told(i)'
<1>1. /\ task' = task /\ pc[j] = "finishing"
      /\ Ends(j, "error") \/ (TerminalMatches(j) /\ Ends(j, "done"))
  BY DEF FinishFindsTerminal, Drains, StopsWaiting, rowVars
<1>2. ASSUME answer'[i] = "done"
      PROVE  task'[i].status = "succeeded" /\ pc'[i] = "gone"
  <2>1. i = j /\ want[i] = "success" /\ pc'[i] = "gone" /\ TerminalMatches(i)
    BY <1>1, <1>2, EndsTells DEF Told, TypeOK
  <2> QED
    BY <1>1, <2>1 DEF TerminalMatches
<1> QED
  BY <1>1, <1>2, EndsTells DEF Told

LEMMA ToldStep ==
    ASSUME TypeOK, Unused, \A i \in Tasks : Told(i), [Next]_vars, NEW i \in Tasks
    PROVE  Told(i)'
<1>1. CASE answer[i] = "done"
  <2>1. pc[i] = "gone" /\ pc'[i] = "gone" /\ task'[i].status = "succeeded"
    BY <1>1, SucceededStays, GoneStays DEF Told
  <2> QED
    BY <2>1 DEF Told
<1>2. CASE answer[i] # "done"
  <2>0. Told(i)
    OBVIOUS
  <2>1. ASSUME NEW j \in Tasks, FinishCommits(j) \/ FinishFindsTerminal(j)
        PROVE  Told(i)'
    BY <1>2, <2>0, <2>1, CommitTells, TerminalTells
  <2>2. ASSUME NEW j \in Tasks, StartLoading(j) \/ MarkInstalling(j)
        PROVE  Told(i)'
    BY <1>2, <2>0, <2>2, StepTells DEF StartLoading, MarkInstalling, Told
  <2>3. ASSUME NEW j \in Tasks, \/ PrepareFails(j) \/ HelmReturns(j, "success")
                                \/ HelmReturns(j, "failure")
        PROVE  Told(i)'
    BY <1>2, <2>0, <2>3, LeaveTells DEF PrepareFails, HelmReturns, Told
  <2>4. ASSUME NEW j \in Tasks, Announce(j) \/ AnnounceFails(j)
        PROVE  Told(i)'
    BY <1>2, <2>0, <2>4, AdvanceTells DEF Announce, AnnounceFails, Told
  <2>5. ASSUME NEW j \in Tasks, FinishFails(j)
        PROVE  Told(i)'
    <3>1. CASE Ends(j, "error")
      BY <1>2, <2>0, <3>1, EndsTells DEF Told
    <3>2. CASE UNCHANGED <<pc, want, answer>>
      BY <1>2, <2>0, <3>2 DEF Told
    <3> QED
      BY <2>5, <3>1, <3>2 DEF FinishFails, Retries
  <2>10. ASSUME NEW j \in Tasks, Drains(j) \/ StopsWaiting(j)
         PROVE  Told(i)'
    BY <1>2, <2>0, <2>10 DEF Told, Drains, StopsWaiting, TypeOK
  <2>6. ASSUME UNCHANGED runVars
        PROVE  Told(i)'
    BY <1>2, <2>0, <2>6 DEF Told, runVars
  <2>7. ASSUME NEW rows, NEW r, NEW op, Insert(rows, r, op)
        PROVE  Told(i)'
    BY <1>2, <2>0, <2>7 DEF Told, Insert, TypeOK
  <2>8. CASE Crash
    BY <1>2, <2>8 DEF Crash, Told
  <2>9. \/ \E j \in Tasks : FinishCommits(j) \/ FinishFindsTerminal(j)
        \/ \E j \in Tasks : StartLoading(j) \/ MarkInstalling(j)
        \/ \E j \in Tasks : \/ PrepareFails(j) \/ HelmReturns(j, "success")
                            \/ HelmReturns(j, "failure")
        \/ \E j \in Tasks : Announce(j) \/ AnnounceFails(j)
        \/ \E j \in Tasks : FinishFails(j)
        \/ \E j \in Tasks : Drains(j) \/ StopsWaiting(j)
        \/ UNCHANGED runVars
        \/ \E rows, r, op : Insert(rows, r, op)
        \/ Crash
    BY DEF Next, vars, Create, Delete, Run, Record, Finish, LookupAbsent, RefusedByKey,
        RequestFails,
        InsertTask, TakeOver, DeleteRead, DeleteCommit, Heartbeat, PersistLogs,
        RecorderPanics, LateCall, Tick, Restart
  <2> QED
    BY <2>1, <2>2, <2>3, <2>4, <2>5, <2>6, <2>7, <2>8, <2>9, <2>10
<1> QED
  BY <1>1, <1>2

(* A browser that is told "done" has a row that succeeded, whoever else        *)
(* closed rows of the release meanwhile.                                       *)
THEOREM DoneTruthful == Spec => []DoneMeansSucceeded
<1>1. Init => \A i \in Tasks : Told(i)
  BY DEF Init, Told
<1>2. (\A i \in Tasks : Told(i)) /\ TypeOK /\ Unused /\ [Next]_vars
      => (\A i \in Tasks : Told(i))'
  BY ToldStep
<1>3. (\A i \in Tasks : Told(i)) => DoneMeansSucceeded
  BY DEF Told, DoneMeansSucceeded
<1> QED
  BY <1>1, <1>2, <1>3, TypeCorrect, UnusedAhead, PTL DEF Spec

----------------------------------------------------------------------------
(* The age of a row.  While an operation's recorder is alive, its active row is *)
(* no older than the time since the last heartbeat that was due, plus one        *)
(* interval for each heartbeat the database has refused since.                   *)

Heard(i) ==
    Live(i) /\ alive[i] /\ Active(i) => task[i].age <= beat[i] + missed[i] * HeartbeatEvery

\* What Heard says of an operation is not touched by the step.
Still(i) == /\ task'[i] = task[i] /\ pc'[i] = pc[i] /\ alive'[i] = alive[i]
            /\ beat'[i] = beat[i] /\ missed'[i] = missed[i]

LEMMA StillHeard ==
    ASSUME NEW i \in Tasks, Heard(i), Still(i)
    PROVE  Heard(i)'
BY DEF Heard, Still, Live, Active

LEMMA OneMore ==
    ASSUME NEW m \in Nat, NEW h \in Nat
    PROVE  (m + 1) * h = m * h + h /\ m * h \in Nat
OBVIOUS

LEMMA AtMost ==
    ASSUME NEW m \in Nat, NEW n \in Nat, m <= n, NEW h \in Nat
    PROVE  m * h <= n * h
<1>1. PICK d \in Nat : n = m + d
  <2>1. n - m \in Nat /\ n = m + (n - m)
    OBVIOUS
  <2> QED
    BY <2>1
<1>2. n * h = m * h + d * h /\ m * h \in Nat /\ d * h \in Nat
  BY <1>1
<1> QED
  BY <1>2

(* The numbers of an operation, as the arithmetic below needs them.          *)
LEMMA Counts ==
    ASSUME TypeOK, NEW i \in Tasks
    PROVE  /\ task[i] \in Row /\ task[i].age \in Nat
           /\ beat[i] \in Nat /\ beat[i] <= HeartbeatEvery
           /\ missed[i] \in Nat /\ missed[i] <= MaxMissed
           /\ missed[i] * HeartbeatEvery \in Nat
           /\ 0 <= beat[i] + missed[i] * HeartbeatEvery
<1>1. task[i] \in Row /\ beat[i] \in 0..HeartbeatEvery /\ missed[i] \in 0..MaxMissed
  BY DEF TypeOK
<1>2. task[i].age \in Nat /\ beat[i] \in Nat /\ missed[i] \in Nat
  BY <1>1, BoundsAssumption DEF Row
<1>3. missed[i] * HeartbeatEvery \in Nat
  BY <1>2, OneMore, BoundsAssumption
<1> QED
  BY <1>1, <1>2, <1>3, BoundsAssumption

(* A row that is inserted is served by nobody yet, one that expires is not     *)
(* active any more.                                                            *)
LEMMA InsertHeard ==
    ASSUME TypeOK, NEW i \in Tasks, Heard(i),
           NEW rows \in [Tasks -> Row], NEW r, NEW op, Insert(rows, r, op),
           rows[i] = task[i] \/ rows[i].status = "failed"
    PROVE  Heard(i)'
<1>1. /\ alive' = alive /\ beat' = beat /\ missed' = missed
      /\ \E to \in {"created", "gone"} : pc' = [pc EXCEPT ![lastId + 1] = to]
      /\ task' = [rows EXCEPT ![lastId + 1] = NewRow(r, op)]
  BY DEF Insert, recVars
<1>2. CASE i = lastId + 1
  <2>1. pc'[i] \in {"created", "gone"}
    BY <1>1, <1>2 DEF TypeOK
  <2> QED
    BY <2>1 DEF Heard, Live
<1>3. CASE i # lastId + 1
  <2>1. pc'[i] = pc[i] /\ task'[i] = rows[i]
    BY <1>1, <1>3 DEF TypeOK
  <2>2. CASE rows[i] = task[i]
    BY <1>1, <2>1, <2>2, StillHeard DEF Still
  <2>3. CASE rows[i].status = "failed"
    BY <2>1, <2>3 DEF Heard, Active, ActiveStatus
  <2> QED
    BY <2>2, <2>3
<1> QED
  BY <1>2, <1>3

LEMMA StepHeard ==
    ASSUME TypeOK, NEW i \in Tasks, Heard(i), NEW j \in Tasks, NEW guard, NEW phase, NEW to,
           Step(j, guard, Moved(task[j], "running", phase), to)
    PROVE  Heard(i)'
<1>1. CASE i # j
  <2>1. Still(i)
    BY <1>1 DEF Step, Advance, Leave, Still, TypeOK, recVars
  <2> QED
    BY <2>1, StillHeard
<1>2. CASE i = j /\ Leave(j, "failure")
  <2>1. pc'[i] = "draining"
    BY <1>2 DEF Leave, TypeOK
  <2> QED
    BY <2>1 DEF Heard, Live
<1>3. CASE i = j /\ Advance(j, to) /\ UNCHANGED recVars
           /\ task' = [task EXCEPT ![j] = Moved(task[j], "running", phase)]
  <2>1. task'[i] = Moved(task[i], "running", phase)
    BY <1>3 DEF TypeOK
  <2>2. task'[i].age = 0
    BY <2>1, Counts, MovedFields
  <2>3. beat'[i] = beat[i] /\ missed'[i] = missed[i]
    BY <1>3 DEF recVars
  <2> QED
    BY <2>2, <2>3, Counts DEF Heard
<1> QED
  BY <1>1, <1>2, <1>3 DEF Step

LEMMA TouchHeard ==
    ASSUME TypeOK, NEW i \in Tasks, NEW j \in Tasks, task' = Touched(j), Active(i)'
    PROVE  /\ Active(i)
           /\ task'[i].age = IF i = j THEN 0 ELSE task[i].age
<1>1. task[i] \in Row
  BY DEF TypeOK
<1>2. CASE i = j /\ Active(i)
  <2>1. task'[i] = [task[i] EXCEPT !.age = 0]
    BY <1>1, <1>2 DEF Touched, TypeOK
  <2> QED
    BY <1>1, <1>2, <2>1, AgedFields DEF Active
<1>3. CASE i # j \/ ~Active(j)
  <2>1. task'[i] = task[i]
    BY <1>3 DEF Touched, TypeOK
  <2> QED
    BY <1>3, <2>1 DEF Active
<1> QED
  BY <1>2, <1>3

LEMMA HeartbeatHeard ==
    ASSUME TypeOK, NEW i \in Tasks, Heard(i), NEW j \in Tasks, Heartbeat(j)
    PROVE  Heard(i)'
<1>1. /\ pc' = pc /\ alive' = alive /\ beat[j] = HeartbeatEvery
      /\ beat' = [beat EXCEPT ![j] = 0]
  BY DEF Heartbeat, runVars
<1>2. SUFFICES ASSUME Live(i), alive[i], Active(i)'
               PROVE  task'[i].age <= beat'[i] + missed'[i] * HeartbeatEvery
  BY <1>1 DEF Heard, Live
<1>3. Active(i) /\ task[i].age <= beat[i] + missed[i] * HeartbeatEvery
  <2>1. Active(i)
    BY <1>2, TouchHeard DEF Heartbeat, Active
  <2> QED
    BY <1>2, <2>1 DEF Heard
<1>4. CASE i # j
  <2>1. beat'[i] = beat[i] /\ missed'[i] = missed[i]
    BY <1>1, <1>4 DEF Heartbeat, TypeOK
  <2>2. CASE task' = Touched(j)
    BY <1>2, <1>3, <1>4, <2>1, <2>2, TouchHeard
  <2>3. CASE task' = task
    BY <1>3, <2>1, <2>3
  <2> QED
    BY <2>2, <2>3 DEF Heartbeat
<1>5. CASE i = j /\ task' = Touched(j) /\ missed' = [missed EXCEPT ![j] = 0]
  <2>1. beat'[i] = 0 /\ missed'[i] = 0 /\ task'[i].age = 0
    BY <1>1, <1>2, <1>5, TouchHeard DEF TypeOK
  <2>2. 0 * HeartbeatEvery = 0
    BY BoundsAssumption
  <2> QED
    BY <2>1, <2>2
<1>6. CASE i = j /\ task' = task /\ missed' = [missed EXCEPT ![j] = @ + 1]
  <2>1. beat'[i] = 0 /\ missed'[i] = missed[i] + 1
    BY <1>1, <1>6 DEF TypeOK
  <2>2. (missed[i] + 1) * HeartbeatEvery = missed[i] * HeartbeatEvery + HeartbeatEvery
    BY Counts, OneMore, BoundsAssumption
  <2> QED
    BY <1>1, <1>3, <1>6, <2>1, <2>2, Counts, BoundsAssumption
<1> QED
  BY <1>4, <1>5, <1>6 DEF Heartbeat

LEMMA PersistHeard ==
    ASSUME TypeOK, NEW i \in Tasks, Heard(i), NEW j \in Tasks,
           task' = Touched(j), UNCHANGED <<runVars, alive, beat, missed>>
    PROVE  Heard(i)'
<1>1. pc' = pc /\ alive' = alive /\ beat' = beat /\ missed' = missed /\ task' = Touched(j)
  BY DEF runVars
<1>2. SUFFICES ASSUME Live(i), alive[i], Active(i)'
               PROVE  task'[i].age <= beat[i] + missed[i] * HeartbeatEvery
  BY <1>1 DEF Heard, Live
<1>3. Active(i) /\ task'[i].age = IF i = j THEN 0 ELSE task[i].age
  BY <1>1, <1>2, TouchHeard
<1> QED
  BY <1>2, <1>3, Counts DEF Heard

LEMMA TickHeard ==
    ASSUME TypeOK, NEW i \in Tasks, Heard(i), Tick
    PROVE  Heard(i)'
<1>1. pc' = pc /\ alive' = alive /\ missed' = missed
  BY DEF Tick, runVars
<1>2. SUFFICES ASSUME Live(i), alive[i], Active(i)'
               PROVE  task'[i].age <= beat'[i] + missed'[i] * HeartbeatEvery
  BY <1>1 DEF Heard, Live
<1>3. beat'[i] = beat[i] + 1 /\ missed'[i] = missed[i]
  BY <1>1, <1>2 DEF Tick
<1>4. CASE Active(i) /\ Fresh(i)
  <2>1. task'[i] = [task[i] EXCEPT !.age = @ + 1]
    BY <1>4 DEF Tick
  <2>2. task'[i].age = task[i].age + 1
    BY <2>1, Counts, AgedFields
  <2> QED
    BY <1>2, <1>3, <1>4, <2>2, Counts DEF Heard
<1>5. CASE ~(Active(i) /\ Fresh(i))
  <2>1. task'[i] = task[i]
    BY <1>5 DEF Tick
  <2> QED
    BY <1>2, <1>3, <2>1, Counts DEF Heard, Active
<1> QED
  BY <1>4, <1>5

LEMMA HeardStep ==
    ASSUME TypeOK, NEW i \in Tasks, Heard(i), [Next]_vars
    PROVE  Heard(i)'
<1>0. task[i] \in Row
  BY DEF TypeOK
<1>1. ASSUME NEW q \in Requests, NEW op \in Operations, InsertTask(q, op)
      PROVE  Heard(i)'
  BY <1>1, InsertHeard DEF InsertTask, TypeOK
<1>2. ASSUME NEW q \in Requests, NEW r \in Releases, NEW op \in Operations, TakeOver(q, r, op)
      PROVE  Heard(i)'
  <2>1. PICK j \in ActiveRows(r) : Insert([task EXCEPT ![j] = Failed(@, "expired")], r, op)
    BY <1>2 DEF TakeOver
  <2> DEFINE rows == [task EXCEPT ![j] = Failed(@, "expired")]
  <2>2. rows[i] = task[i] \/ rows[i].status = "failed"
    BY <1>0, FailedFields DEF TypeOK
  <2>3. rows \in [Tasks -> Row]
    BY FailedIsRow DEF TypeOK, ActiveRows
  <2> HIDE DEF rows
  <2>4. Insert(rows, r, op)
    BY <2>1 DEF rows
  <2> QED
    BY <2>2, <2>3, <2>4, InsertHeard
<1>3. ASSUME NEW q \in Requests, DeleteCommit(q)
      PROVE  Heard(i)'
  <2>1. /\ pc' = pc /\ alive' = alive /\ beat' = beat /\ missed' = missed
        /\ task'[i] = task[i] \/ task'[i] = [task[i] EXCEPT !.status = "deleted"]
    BY <1>3 DEF DeleteCommit, DeletedRows, runVars, recVars
  <2>2. CASE task'[i] = task[i]
    BY <2>1, <2>2, StillHeard DEF Still
  <2>3. CASE task'[i] = [task[i] EXCEPT !.status = "deleted"]
    BY <1>0, <2>3, DeletedFields DEF Heard, Active, ActiveStatus
  <2> QED
    BY <2>1, <2>2, <2>3
<1>4. ASSUME NEW j \in Tasks, Announce(j) \/ AnnounceFails(j)
      PROVE  Heard(i)'
  <2>1. CASE i = j
    <3>1. pc'[i] \in {"start", "gone"}
      BY <1>4, <2>1 DEF Announce, AnnounceFails, Advance, TypeOK
    <3> QED
      BY <3>1 DEF Heard, Live
  <2>2. CASE i # j
    BY <1>4, <2>2, StillHeard DEF Announce, AnnounceFails, Advance, TypeOK, rowVars, recVars, Still
  <2> QED
    BY <2>1, <2>2
<1>5. ASSUME NEW j \in Tasks, StartLoading(j) \/ MarkInstalling(j)
      PROVE  Heard(i)'
  BY <1>5, StepHeard DEF StartLoading, MarkInstalling
<1>6. ASSUME NEW j \in Tasks, NEW outcome, Leave(j, outcome), task' = task
      PROVE  Heard(i)'
  <2>1. CASE i = j
    <3>1. pc'[i] = "draining"
      BY <1>6, <2>1 DEF Leave, TypeOK
    <3> QED
      BY <3>1 DEF Heard, Live
  <2>2. CASE i # j
    BY <1>6, <2>2, StillHeard DEF Leave, TypeOK, Still, recVars
  <2> QED
    BY <2>1, <2>2
<1>7. ASSUME NEW j \in Tasks, Finish(j)
      PROVE  Heard(i)'
  <2>1. /\ pc[j] \in {"draining", "finishing"}
        /\ task' = task \/ task' = [task EXCEPT ![j] = Outcome(j)]
        /\ pc' = pc \/ \E to \in {"finishing", "gone"} : pc' = [pc EXCEPT ![j] = to]
    BY <1>7 DEF Finish, FinishCommits, FinishFails, FinishFindsTerminal, Drains, StopsWaiting,
        Ends, Retries, rowVars
  <2>4. \/ UNCHANGED recVars
        \/ /\ alive' = [alive EXCEPT ![j] = FALSE]
           /\ beat' = [beat EXCEPT ![j] = 0] /\ missed' = [missed EXCEPT ![j] = 0]
    BY <1>7 DEF Finish, FinishCommits, FinishFails, FinishFindsTerminal, Drains, StopsWaiting
  <2>2. CASE i = j
    <3>1. pc'[i] \in {"draining", "finishing", "gone"}
      BY <2>1, <2>2 DEF TypeOK
    <3> QED
      BY <3>1 DEF Heard, Live
  <2>3. CASE i # j
    BY <2>1, <2>3, <2>4, StillHeard DEF TypeOK, recVars, Still
  <2> QED
    BY <2>2, <2>3
<1>8. ASSUME NEW j \in Tasks, Heartbeat(j) \/ PersistLogs(j)
      PROVE  Heard(i)'
  BY <1>8, HeartbeatHeard, PersistHeard DEF PersistLogs, recVars
<1>9. ASSUME NEW j \in Tasks, RecorderPanics(j)
      PROVE  Heard(i)'
  BY <1>9 DEF RecorderPanics, LateCall, Heard, Live, Active, TypeOK, rowVars, runVars
<1>15. ASSUME NEW j \in Tasks, LateCall(j)
       PROVE  Heard(i)'
  BY <1>15, PersistHeard, StillHeard DEF LateCall, Still, runVars
<1>10. CASE Tick
  BY <1>10, TickHeard
<1>11. CASE Crash
  BY <1>11 DEF Crash, Heard, Live
<1>12. CASE Restart
  <2>1. task'[i] = task[i] \/ task'[i] = Failed(task[i], "interrupted")
    BY <1>12 DEF Restart
  <2>2. task'[i] = task[i] \/ ~Active(i)'
    BY <1>0, <2>1, FailedFields DEF Active, ActiveStatus
  <2> QED
    BY <1>12, <2>2, StillHeard DEF Restart, runVars, recVars, Still, Heard
<1>13. CASE UNCHANGED <<task, pc, recVars>>
  BY <1>13, StillHeard DEF Still, recVars
<1>14. \/ \E q \in Requests, op \in Operations : InsertTask(q, op)
       \/ \E q \in Requests, r \in Releases, op \in Operations : TakeOver(q, r, op)
       \/ \E q \in Requests : DeleteCommit(q)
       \/ \E j \in Tasks : Announce(j) \/ AnnounceFails(j)
       \/ \E j \in Tasks : StartLoading(j) \/ MarkInstalling(j)
       \/ \E j \in Tasks, outcome \in {"success", "failure"} : Leave(j, outcome) /\ task' = task
       \/ \E j \in Tasks : Finish(j) \/ Heartbeat(j) \/ PersistLogs(j) \/ RecorderPanics(j)
                           \/ LateCall(j)
       \/ Tick \/ Crash \/ Restart
       \/ UNCHANGED <<task, pc, recVars>>
  BY DEF Next, vars, rowVars, runVars, Create, Delete, Run, Record, LookupAbsent,
      RefusedByKey, RequestFails, DeleteRead, PrepareFails, HelmReturns
<1> QED
  BY <1>1, <1>2, <1>3, <1>4, <1>5, <1>6, <1>7, <1>8, <1>9, <1>10, <1>11, <1>12, <1>13, <1>14,
     <1>15

THEOREM HeardAlways == Spec => [](\A i \in Tasks : Heard(i))
<1>1. Init => \A i \in Tasks : Heard(i)
  BY DEF Init, Heard, Live
<1>2. (\A i \in Tasks : Heard(i)) /\ TypeOK /\ [Next]_vars => (\A i \in Tasks : Heard(i))'
  BY HeardStep
<1> QED
  BY <1>1, <1>2, TypeCorrect, PTL DEF Spec

(* The stale window takes a release from an operation that still changes the   *)
(* cluster only when its recorder has died, or when the heartbeats the database *)
(* has refused in a row fill the window.                                        *)
THEOREM TakeoverOfSilent == Spec => TakeoverOnlyOfSilent
<1> DEFINE Silent(i) ==
      Live(i) /\ task[i].msg # "expired" /\ task'[i].msg = "expired" =>
         ~alive[i] \/ (missed[i] + 1) * HeartbeatEvery >= StaleAfter
<1>1. TypeOK /\ Unused /\ (\A i \in Tasks : Heard(i)) /\ [Next]_vars
      => [\A i \in Tasks : Silent(i)]_vars
  <2> SUFFICES ASSUME TypeOK, Unused, NEW i \in Tasks, Heard(i), [Next]_vars,
                      Live(i), task[i].msg # "expired", task'[i].msg = "expired", alive[i]
               PROVE  (missed[i] + 1) * HeartbeatEvery >= StaleAfter
    OBVIOUS
  <2>1. task[i] \in Row /\ RowStep(i)
    BY RowLife DEF TypeOK
  <2>2. Active(i) /\ ClosedBy(i)
    <3>1. ~Created(i)
      BY DEF Created, Unused, TypeOK, Tasks, Live
    <3>2. ~Removed(i)
      BY <2>1, DeletedFields DEF Removed
    <3> QED
      BY <2>1, <3>1, <3>2 DEF RowStep, Kept, MovedOn, Ended
  <2>3. ~Fresh(i)
    <3>1. Failed(task[i], "own").msg = "own" /\ Failed(task[i], "interrupted").msg = "interrupted"
          /\ Outcome(i).msg \in {"none", "own"}
      BY <2>1, FailedFields, ClosedFields DEF Outcome
    <3> QED
      BY <2>2, <3>1 DEF ClosedBy, Expires
  <2>4. task[i].age <= beat[i] + missed[i] * HeartbeatEvery /\ StaleAfter <= task[i].age
    BY <2>2, <2>3, Counts, BoundsAssumption DEF Heard, Fresh
  <2>5. (missed[i] + 1) * HeartbeatEvery = missed[i] * HeartbeatEvery + HeartbeatEvery
    BY Counts, OneMore, BoundsAssumption
  <2> QED
    BY <2>4, <2>5, Counts, BoundsAssumption
<1> QED
  BY <1>1, TypeCorrect, UnusedAhead, HeardAlways, PTL DEF Spec, TakeoverOnlyOfSilent

----------------------------------------------------------------------------
(* Mutual exclusion on a release.  A recorder that stays alive and is never   *)
(* refused more than MaxMissed heartbeats in a row keeps its row younger than  *)
(* the stale window, so nobody takes the release from a live operation.        *)

Benign == ~PanicsAllowed /\ (MaxMissed + 1) * HeartbeatEvery < StaleAfter

Down == ~up => /\ \A i \in Tasks : pc[i] \in {"none", "gone"}
               /\ \A q \in Requests : request[q] = Idle

Held(i) ==
    /\ pc[i] \in {"start", "preparing", "installing"} => alive[i]
    /\ Live(i) => Active(i)

LEMMA LiveIsFresh ==
    ASSUME Benign, TypeOK, NEW i \in Tasks, Heard(i), Held(i), Live(i)
    PROVE  Active(i) /\ Fresh(i)
<1>1. missed[i] * HeartbeatEvery <= MaxMissed * HeartbeatEvery
  BY Counts, AtMost, BoundsAssumption
<1>2. /\ (MaxMissed + 1) * HeartbeatEvery = MaxMissed * HeartbeatEvery + HeartbeatEvery
      /\ MaxMissed * HeartbeatEvery \in Nat
  BY OneMore, BoundsAssumption
<1>3. task[i].age <= beat[i] + missed[i] * HeartbeatEvery /\ Active(i)
  BY DEF Heard, Held, Live
<1> QED
  BY <1>1, <1>2, <1>3, Counts, BoundsAssumption DEF Benign, Fresh

LEMMA DownStep ==
    ASSUME TypeOK, Down, [Next]_vars
    PROVE  Down'
<1>1. CASE up'
  BY <1>1 DEF Down
<1>2. CASE Crash
  BY <1>2 DEF Crash, Down
<1>3. CASE ~up /\ UNCHANGED <<pc, request>>
  BY <1>3 DEF Down
<1>4. ASSUME ~up, NEW i \in Tasks, pc[i] \notin {"none", "gone"}
      PROVE  FALSE
  BY <1>4 DEF Down
<1>5. ASSUME ~up, NEW q \in Requests, request[q] # Idle
      PROVE  FALSE
  BY <1>5 DEF Down
<1>6. ASSUME ~up, NEW i \in Tasks, Run(i)
      PROVE  FALSE
  BY <1>4, <1>6 DEF Run, Finish, Announce, AnnounceFails, StartLoading, PrepareFails,
      MarkInstalling, HelmReturns, FinishCommits, FinishFails, FinishFindsTerminal, Drains,
      StopsWaiting
<1>7. ASSUME ~up, NEW q \in Requests, Create(q) \/ Delete(q) \/ RequestFails(q)
      PROVE  FALSE
  BY <1>5, <1>7 DEF Create, Delete, LookupAbsent, RefusedByKey, RequestFails, InsertTask, TakeOver,
      DeleteRead, DeleteCommit, Idle
<1>8. CASE ~up /\ ~up'
  <2>1. \/ \E i \in Tasks : Record(i)
        \/ Tick \/ UNCHANGED vars
    BY <1>6, <1>7, <1>8 DEF Next, Crash, Restart
  <2> QED
    BY <1>3, <1>8, <2>1 DEF Record, Heartbeat, PersistLogs, RecorderPanics, LateCall, Tick, vars,
        runVars
<1>9. CASE up /\ ~up'
  BY <1>2, <1>9 DEF Next, vars, Create, Delete, Run, Record, Finish, LookupAbsent,
      RefusedByKey, RequestFails, InsertTask, TakeOver, Insert, DeleteRead, DeleteCommit, Announce,
      AnnounceFails, StartLoading, MarkInstalling, Step, PrepareFails, HelmReturns,
      FinishCommits, FinishFails, FinishFindsTerminal, Drains, StopsWaiting, Heartbeat, PersistLogs,
      RecorderPanics, LateCall, Tick, Restart
<1> QED
  BY <1>1, <1>8, <1>9 DEF TypeOK

(* Where the goroutine of an operation goes, and what becomes of its recorder. *)
LEMMA RecorderStep ==
    ASSUME TypeOK, Unused, [Next]_vars, NEW i \in Tasks
    PROVE  \/ pc'[i] = pc[i] /\ (alive'[i] = alive[i] \/ (PanicsAllowed /\ ~alive'[i]))
           \/ /\ pc'[i] = "created" /\ pc[i] = "none" /\ alive'[i] = alive[i]
              /\ task[i].status = "none"
           \/ pc'[i] = "start" /\ pc[i] = "created" /\ alive'[i]
           \/ /\ pc'[i] = "preparing" /\ pc[i] = "start" /\ alive'[i] = alive[i]
              /\ task'[i] = Moved(task[i], "running", "loading")
           \/ /\ pc'[i] = "installing" /\ pc[i] = "preparing" /\ alive'[i] = alive[i]
              /\ task'[i] = Moved(task[i], "running", "installing")
           \/ /\ pc'[i] = "draining" /\ alive'[i] = alive[i]
              /\ pc[i] \in {"start", "preparing", "installing"}
           \/ pc'[i] = "finishing" /\ ~alive'[i]
           \/ /\ pc'[i] = "gone"
              /\ (alive'[i] = alive[i] /\ pc[i] \in {"none", "created", "finishing"}) \/ ~alive'[i]
           \/ pc'[i] = "none" /\ ~alive'[i]
<1>1. ASSUME UNCHANGED <<pc, alive>>
      PROVE  pc'[i] = pc[i] /\ alive'[i] = alive[i]
  BY <1>1
<1>2. ASSUME NEW rows, NEW r, NEW op, Insert(rows, r, op)
      PROVE  \/ pc'[i] = pc[i] /\ alive'[i] = alive[i]
             \/ /\ pc'[i] \in {"created", "gone"} /\ pc[i] = "none" /\ alive'[i] = alive[i]
                /\ task[i].status = "none"
  <2>1. alive' = alive /\ \E to \in {"created", "gone"} : pc' = [pc EXCEPT ![lastId + 1] = to]
    BY <1>2 DEF Insert, recVars
  <2>2. i = lastId + 1 => pc[i] = "none" /\ task[i].status = "none"
    BY DEF Unused, TypeOK, Tasks
  <2> QED
    BY <2>1, <2>2 DEF TypeOK
<1>3. ASSUME NEW j \in Tasks, j # i, Run(j) \/ Record(j)
      PROVE  pc'[i] = pc[i] /\ alive'[i] = alive[i]
  BY <1>3 DEF Run, Record, Finish, Announce, AnnounceFails, StartLoading, PrepareFails,
      MarkInstalling, HelmReturns, FinishCommits, FinishFails, FinishFindsTerminal, Drains,
      StopsWaiting, Step, Advance, Leave, Ends, Retries, Heartbeat, PersistLogs, RecorderPanics,
      LateCall, TypeOK, recVars, runVars
<1>4. CASE Announce(i) \/ AnnounceFails(i)
  BY <1>4 DEF Announce, AnnounceFails, Advance, TypeOK, recVars
<1>5. ASSUME NEW outcome, Leave(i, outcome)
      PROVE  pc'[i] = "draining" /\ alive'[i] = alive[i]
  BY <1>5 DEF Leave, TypeOK, recVars
<1>6. ASSUME StartLoading(i), ~Leave(i, "failure")
      PROVE  /\ pc'[i] = "preparing" /\ pc[i] = "start" /\ alive'[i] = alive[i]
             /\ task'[i] = Moved(task[i], "running", "loading")
  BY <1>6 DEF StartLoading, Step, Advance, TypeOK, recVars
<1>7. ASSUME MarkInstalling(i), ~Leave(i, "failure")
      PROVE  /\ pc'[i] = "installing" /\ pc[i] = "preparing" /\ alive'[i] = alive[i]
             /\ task'[i] = Moved(task[i], "running", "installing")
  BY <1>7 DEF MarkInstalling, Step, Advance, TypeOK, recVars
<1>12. CASE StartLoading(i) \/ MarkInstalling(i)
  <2>1. pc[i] \in {"start", "preparing"}
    BY <1>12 DEF StartLoading, MarkInstalling
  <2> QED
    BY <1>5, <1>6, <1>7, <1>12, <2>1
<1>8. CASE Finish(i)
  BY <1>8 DEF Finish, FinishCommits, FinishFails, FinishFindsTerminal, Drains, StopsWaiting, Ends,
      Retries, TypeOK, recVars
<1>9. CASE Record(i)
  BY <1>9 DEF Record, Heartbeat, PersistLogs, RecorderPanics, LateCall, TypeOK, runVars, recVars
<1>10. CASE Crash
  BY <1>10 DEF Crash
<1>11. \/ UNCHANGED <<pc, alive>>
       \/ \E rows, r, op : Insert(rows, r, op)
       \/ \E j \in Tasks : j # i /\ (Run(j) \/ Record(j))
       \/ Announce(i) \/ AnnounceFails(i)
       \/ \E outcome : Leave(i, outcome) /\ pc[i] \in {"preparing", "installing"}
       \/ StartLoading(i) \/ MarkInstalling(i) \/ Finish(i) \/ Record(i)
       \/ Crash
  BY DEF Next, vars, runVars, recVars, Create, Delete, Run, LookupAbsent, RefusedByKey,
      RequestFails,
      InsertTask, TakeOver, DeleteRead, DeleteCommit, PrepareFails, HelmReturns, Tick, Restart
<1> QED
  BY <1>1, <1>2, <1>3, <1>4, <1>5, <1>8, <1>9, <1>10, <1>11, <1>12

LEMMA HeldStep ==
    ASSUME Benign, TypeOK, Unused, Down, NEW i \in Tasks, Heard(i), Held(i), [Next]_vars
    PROVE  Held(i)'
<1>0. task[i] \in Row /\ RowStep(i)
  BY RowLife DEF TypeOK
<1>1. SUFFICES ASSUME pc'[i] \in {"start", "preparing", "installing"}
               PROVE  alive'[i] /\ (Live(i)' => Active(i)')
  BY DEF Held, Live
<1>2. \/ pc'[i] = pc[i] /\ alive'[i] = alive[i]
      \/ pc'[i] = "start" /\ alive'[i]
      \/ /\ pc[i] \in {"start", "preparing"} /\ alive'[i] = alive[i]
         /\ \E phase : task'[i] = Moved(task[i], "running", phase)
  BY <1>1, RecorderStep DEF Benign
<1>3. CASE pc'[i] = pc[i] /\ alive'[i] = alive[i]
  <2>1. alive'[i]
    BY <1>1, <1>3 DEF Held
  <2>2. ASSUME Live(i)
        PROVE  Active(i)'
    <3>1. Active(i) /\ Fresh(i) /\ pc[i] # "none" /\ up
      BY <2>2, LiveIsFresh DEF Live, Down, TypeOK
    <3>2. ~ClosedBy(i)
      BY <2>2, <3>1 DEF ClosedBy, Expires, AnnounceFails, FinishCommits, FinishFails, Restart, Live
    <3>3. ~Created(i)
      BY <3>1 DEF Created, Unused, TypeOK, Tasks
    <3> QED
      BY <1>0, <3>1, <3>2, <3>3 DEF RowStep, Kept, MovedOn, Ended, Removed, Active, ActiveStatus
  <2> QED
    BY <1>3, <2>1, <2>2 DEF Live
<1>4. CASE pc'[i] = "start" /\ alive'[i]
  BY <1>4 DEF Live
<1>5. ASSUME pc[i] \in {"start", "preparing"}, alive'[i] = alive[i],
             NEW phase, task'[i] = Moved(task[i], "running", phase)
      PROVE  alive'[i] /\ Active(i)'
  BY <1>0, <1>5, MovedFields DEF Held, Active, ActiveStatus
<1> QED
  BY <1>2, <1>3, <1>4, <1>5

(* What makes the exclusion inductive.                                        *)
Holding == Down /\ \A i \in Tasks : Held(i)

THEOREM HoldingAlways == ASSUME Benign PROVE Spec => []Holding
<1>1. Init => Holding
  BY DEF Init, Holding, Down, Held, Live
<1>2. Holding /\ TypeOK /\ Unused /\ (\A i \in Tasks : Heard(i)) /\ [Next]_vars => Holding'
  BY DownStep, HeldStep DEF Holding
<1> QED
  BY <1>1, <1>2, TypeCorrect, UnusedAhead, HeardAlways, PTL DEF Spec

(* Two operations never change the same release at the same time, as long as *)
(* recorders do not die and the database does not refuse a stale window's     *)
(* worth of heartbeats in a row.                                              *)
THEOREM Exclusion == ASSUME Benign PROVE Spec => []OneLivePerRelease
<1>1. Holding /\ OneActiveRow => OneLivePerRelease
  BY DEF Holding, Held, OneActiveRow, OneLivePerRelease
<1> QED
  BY <1>1, HoldingAlways, OneActive, PTL

----------------------------------------------------------------------------
(* Deleted rows and their logs.                                              *)

Early == {"created", "start", "preparing", "installing", "draining"}

(* A recorder that is alive serves an operation whose Finish has not gone on    *)
(* from waiting for it; the row of such an operation can only have been failed   *)
(* by a takeover.                                                                *)
Attended(i) ==
    /\ alive[i] => pc[i] \in Early \ {"created"}
    /\ pc[i] \in Early /\ task[i].status \in {"failed", "deleted"} => task[i].msg = "expired"

LEMMA AttendedStep ==
    ASSUME TypeOK, Unused, Down, NEW i \in Tasks, Attended(i), [Next]_vars
    PROVE  Attended(i)'
<1>1. task[i] \in Row /\ RowStep(i)
  BY RowLife DEF TypeOK
<1>2. alive'[i] => pc'[i] \in Early \ {"created"}
  BY RecorderStep DEF Attended, Early, TypeOK
<1>3. ASSUME pc'[i] \in Early, task'[i].status \in {"failed", "deleted"}
      PROVE  task'[i].msg = "expired"
  <2>1. pc[i] \in Early \/ (pc[i] = "none" /\ task[i].status = "none")
    BY <1>3, RecorderStep DEF Early
  <2>2. CASE Kept(i)
    BY <1>3, <2>1, <2>2 DEF Kept, Attended
  <2>3. CASE Ended(i)
    <3>1. pc[i] \in Early
      BY <2>1, <2>3 DEF Ended, Active, ActiveStatus
    <3>2. ~AnnounceFails(i)
      BY <1>3 DEF AnnounceFails, Advance, Early, TypeOK
    <3>3. ~FinishCommits(i) /\ ~FinishFails(i)
      BY <3>1 DEF FinishCommits, FinishFails, Early
    <3>4. ~Restart
      BY <3>1 DEF Restart, Down, Early
    <3> QED
      BY <1>1, <2>3, <3>2, <3>3, <3>4, FailedFields DEF Ended, ClosedBy, Expires
  <2>4. CASE Removed(i)
    BY <1>1, <2>1, <2>4, DeletedFields DEF Removed, Attended
  <2>5. CASE Created(i)
    BY <1>3, <2>5, NewRowFields DEF Created
  <2>6. ~MovedOn(i)
    BY <1>3 DEF MovedOn, ActiveStatus
  <2> QED
    BY <1>1, <2>2, <2>3, <2>4, <2>5, <2>6 DEF RowStep
<1> QED
  BY <1>2, <1>3 DEF Attended

(* Only a live recorder, or the call of one left behind, adds to the logs.      *)
LEMMA LoggedBy ==
    ASSUME [Next]_vars, NEW i \in Tasks, i \in logged', i \notin logged
    PROVE  PersistLogs(i) \/ LateCall(i)
BY DEF Next, vars, rowVars, Create, Delete, Run, Record, Finish, LookupAbsent, RefusedByKey,
    RequestFails, InsertTask, TakeOver, Insert, DeleteRead, DeleteCommit, Announce, AnnounceFails,
    StartLoading, MarkInstalling, Step, PrepareFails, HelmReturns, FinishCommits, FinishFails,
    FinishFindsTerminal, Drains, StopsWaiting, Heartbeat, PersistLogs, RecorderPanics, LateCall,
    Tick, Crash, Restart

THEOREM AttendedAlways == Spec => [](\A i \in Tasks : Attended(i))
<1> DEFINE Inv == Down /\ \A i \in Tasks : Attended(i)
<1>1. Init => Inv
  BY DEF Init, Down, Attended, Early
<1>2. Inv /\ TypeOK /\ Unused /\ [Next]_vars => Inv'
  BY DownStep, AttendedStep
<1>3. Inv => \A i \in Tasks : Attended(i)
  OBVIOUS
<1> QED
  BY <1>1, <1>2, <1>3, TypeCorrect, UnusedAhead, PTL DEF Spec

(* A deletion takes the logs along, and after it log rows are only added by an     *)
(* operation whose row was expired under it or by a call that was still in the      *)
(* driver when Finish's grace had passed.                                          *)
THEOREM OrphansOnlyLate == Spec => OrphanLogsOnlyLate
<1> DEFINE Late(i) ==
      Orphan(i)' /\ ~Orphan(i) =>
         /\ task[i].status = "deleted"
         /\ i \in hung \/ (alive[i] /\ task[i].msg = "expired")
<1>1. TypeOK /\ (\A i \in Tasks : Attended(i)) /\ [Next]_vars => [\A i \in Tasks : Late(i)]_vars
  <2> SUFFICES ASSUME TypeOK, NEW i \in Tasks, Attended(i), [Next]_vars, Orphan(i)', ~Orphan(i)
               PROVE  /\ task[i].status = "deleted"
                      /\ i \in hung \/ (alive[i] /\ task[i].msg = "expired")
    OBVIOUS
  <2>1. i \in logged' /\ task'[i].status = "deleted" /\ RowStep(i)
    BY RowLife DEF Orphan
  <2>2. ~Removed(i)
    BY <2>1 DEF Removed, DeleteCommit
  <2>3. task[i].status = "deleted" /\ i \notin logged
    BY <2>1, <2>2, NewRowFields DEF RowStep, Kept, MovedOn, Ended, Created, ActiveStatus, Orphan
  <2>4. CASE PersistLogs(i)
    <3>1. alive[i]
      BY <2>4 DEF PersistLogs
    <3> QED
      BY <2>3, <3>1 DEF Attended
  <2>5. CASE LateCall(i)
    BY <2>3, <2>5 DEF LateCall
  <2> QED
    BY <2>1, <2>3, <2>4, <2>5, LoggedBy
<1> QED
  BY <1>1, TypeCorrect, AttendedAlways, PTL DEF Spec, OrphanLogsOnlyLate

(* Deleting a failed install takes every failed install of the release off the   *)
(* list: no earlier attempt comes up in its place.                                *)
THEOREM DeletedAllOff == Spec => DeletedStaysOff
<1> DEFINE Off(r) ==
      (\E i \in Tasks : task[i].release = r /\ task[i].status = "failed"
                        /\ task'[i].status = "deleted")
      => ~\E i \in Tasks : /\ task'[i].release = r
                           /\ Listed(i)' /\ task'[i].status = "failed"
<1>1. TypeOK /\ Unused /\ [Next]_vars => [\A r \in Releases : Off(r)]_vars
  <2> SUFFICES ASSUME TypeOK, Unused, [Next]_vars, NEW r \in Releases,
                      NEW i \in Tasks, task[i].release = r, task[i].status = "failed",
                      task'[i].status = "deleted",
                      NEW j \in Tasks, task'[j].release = r, Listed(j)', task'[j].status = "failed"
               PROVE  FALSE
    OBVIOUS
  <2>1. Removed(i)
    BY RowLife, NewRowFields DEF RowStep, Kept, MovedOn, Ended, Created, Active, ActiveStatus
  <2>2. PICK q \in Requests : DeleteCommit(q) /\ i \in FailedInstalls(request[q].release)
    BY <2>1 DEF Removed
  <2>3. task' = DeletedRows(r)
    BY <2>2 DEF DeleteCommit, FailedInstalls
  <2>4. task[j] \in Row /\ task'[j].operation = "install"
    BY DEF TypeOK, Listed
  <2>5. CASE j \in FailedInstalls(r)
    BY <2>3, <2>4, <2>5, DeletedFields DEF DeletedRows
  <2>6. CASE j \notin FailedInstalls(r)
    BY <2>3, <2>4, <2>6 DEF DeletedRows, FailedInstalls
  <2> QED
    BY <2>5, <2>6
<1> QED
  BY <1>1, TypeCorrect, UnusedAhead, PTL DEF Spec, DeletedStaysOff

----------------------------------------------------------------------------
(* Phantoms.  With a database that answers, whoever ends a goroutine has      *)
(* closed its row first, and whoever restarts the process closes the rest.    *)

(* The steps that end a goroutine, or the process, and the one that starts it.  *)
LEMMA EndingSteps ==
    ASSUME ~DbMayFail, TypeOK, [Next]_vars, NEW i \in Tasks, pc[i] # "gone", pc'[i] = "gone"
    PROVE  AnnounceFails(i) \/ FinishCommits(i) \/ (FinishFindsTerminal(i) /\ ~Active(i)) \/ ~up'
<1>1. ASSUME NEW j \in Tasks, Run(j)
      PROVE  AnnounceFails(i) \/ FinishCommits(i) \/ (FinishFindsTerminal(i) /\ ~Active(i))
  <2>1. CASE AnnounceFails(j) \/ FinishCommits(j) \/ FinishFindsTerminal(j)
    <3>1. pc' = [pc EXCEPT ![j] = "gone"]
      BY <2>1 DEF AnnounceFails, Advance, FinishCommits, FinishFindsTerminal, Ends
    <3>2. i = j
      BY <3>1 DEF TypeOK
    <3> QED
      BY <2>1, <3>2 DEF FinishFindsTerminal, Drains, StopsWaiting
  <2>2. ASSUME Announce(j) \/ StartLoading(j) \/ PrepareFails(j) \/ MarkInstalling(j)
               \/ HelmReturns(j, "success") \/ HelmReturns(j, "failure")
        PROVE  FALSE
    <3>1. \E to \in {"start", "preparing", "installing", "draining"} :
             pc' = [pc EXCEPT ![j] = to]
      BY <2>2 DEF Announce, StartLoading, PrepareFails, MarkInstalling, HelmReturns, Step,
          Advance, Leave
    <3> QED
      BY <3>1 DEF TypeOK
  <2>3. ~Drains(j) /\ ~StopsWaiting(j)
    BY DEF Drains, StopsWaiting, TypeOK
  <2> QED
    BY <1>1, <2>1, <2>2, <2>3 DEF Run, Finish, FinishFails
<1>2. ASSUME NEW rows, NEW r, NEW op, Insert(rows, r, op)
      PROVE  FALSE
  BY <1>2 DEF Insert, TypeOK
<1>3. CASE Crash
  BY <1>3 DEF Crash
<1>4. ASSUME UNCHANGED pc
      PROVE  FALSE
  BY <1>4
<1>5. \/ \E j \in Tasks : Run(j)
      \/ \E rows, r, op : Insert(rows, r, op)
      \/ UNCHANGED pc
      \/ Crash
  BY DEF Next, vars, runVars, Create, Delete, Record, LookupAbsent, RefusedByKey, RequestFails,
      InsertTask, TakeOver, DeleteRead, DeleteCommit, Heartbeat, PersistLogs,
      RecorderPanics, LateCall, Tick, Restart
<1> QED
  BY <1>1, <1>2, <1>3, <1>4, <1>5

LEMMA PhantomStep ==
    ASSUME ~DbMayFail, TypeOK, Unused, NoPhantom, [Next]_vars
    PROVE  NoPhantom'
<1>1. SUFFICES ASSUME up', NEW i \in Tasks, Active(i)', pc'[i] = "gone"
               PROVE  FALSE
  BY DEF NoPhantom
<1>2. task[i] \in Row
  BY DEF TypeOK
<1>3. CASE ~up
  <2>1. Restart
    <3>1. up' = up \/ Restart \/ Crash
      BY DEF Next, vars, Create, Delete, Run, Record, Finish, LookupAbsent,
          RefusedByKey, RequestFails, InsertTask, TakeOver, Insert, DeleteRead, DeleteCommit,
          Announce, AnnounceFails, StartLoading, MarkInstalling, Step, PrepareFails,
          HelmReturns, FinishCommits, FinishFails, FinishFindsTerminal, Drains, StopsWaiting,
          Heartbeat,
          PersistLogs, RecorderPanics, LateCall, Tick
    <3> QED
      BY <1>1, <1>3, <3>1 DEF Crash
  <2>2. task'[i] = IF Active(i) THEN Failed(task[i], "interrupted") ELSE task[i]
    BY <2>1 DEF Restart
  <2> QED
    BY <1>1, <1>2, <2>2, FailedFields DEF Active, ActiveStatus
<1>4. CASE up /\ pc[i] = "gone"
  <2>1. RowStep(i) /\ ~Active(i) /\ ~Created(i)
    BY <1>4, RowLife DEF NoPhantom, Created, Unused, TypeOK, Tasks
  <2>2. Removed(i) => task'[i].status = "deleted"
    BY <1>2 DEF Removed, Row
  <2> QED
    BY <1>1, <2>1, <2>2 DEF RowStep, Kept, MovedOn, Ended, Removed, Active, ActiveStatus
<1>5. CASE up /\ pc[i] # "gone"
  <2>1. CASE AnnounceFails(i)
    <3>1. task' = IF Active(i) THEN [task EXCEPT ![i] = Failed(@, "own")] ELSE task
      BY <2>1 DEF AnnounceFails
    <3>2. task'[i] = IF Active(i) THEN Failed(task[i], "own") ELSE task[i]
      BY <3>1 DEF TypeOK
    <3> QED
      BY <1>1, <1>2, <3>2, FailedFields DEF Active, ActiveStatus
  <2>2. CASE FinishCommits(i)
    <3>1. task'[i] = Outcome(i)
      BY <2>2 DEF FinishCommits, TypeOK
    <3> QED
      BY <1>1, <1>2, <3>1, ClosedFields, FailedFields DEF Outcome, Active, ActiveStatus
  <2>3. CASE FinishFindsTerminal(i) /\ ~Active(i)
    BY <1>1, <2>3 DEF FinishFindsTerminal, Drains, StopsWaiting, rowVars, Active
  <2> QED
    BY <1>1, <1>5, <2>1, <2>2, <2>3, EndingSteps
<1> QED
  BY <1>3, <1>4, <1>5

(* With a database that answers, an active row of a running process belongs to  *)
(* a handler or goroutine that will still end it, also after crashes.           *)
THEOREM PhantomFree == ASSUME ~DbMayFail PROVE Spec => []NoPhantom
<1>1. Init => NoPhantom
  BY DEF Init, NoPhantom
<1>2. NoPhantom /\ TypeOK /\ Unused /\ [Next]_vars => NoPhantom'
  BY PhantomStep
<1> QED
  BY <1>1, <1>2, TypeCorrect, UnusedAhead, PTL DEF Spec

----------------------------------------------------------------------------
(* The table of HelmTasks implements the lock of ReleaseLock: every step of *)
(* the handlers, goroutines, recorders and of the process is a step of the  *)
(* lock, or leaves it alone.                                                *)

(* What the lock sees of a row.                                             *)
LEMMA LockStates ==
    ASSUME NEW row \in Row
    PROVE  /\ row.status = "none" <=> LockState(row) = "unused"
           /\ row.status \in ActiveStatus <=> LockState(row) = "open"
           /\ row.status = "deleted" <=> LockState(row) = "removed"
           /\ row.status = "succeeded" <=> LockState(row) = "succeeded"
           /\ row.status = "failed" <=> LockState(row) = "failed"
<1>1. row.status \in {"none", "pending", "running", "succeeded", "failed", "deleted"}
  BY DEF Row
<1>2. CASE row.status = "none"
  BY <1>2 DEF LockState, ActiveStatus
<1>3. CASE row.status \in {"pending", "running"}
  BY <1>3 DEF LockState, ActiveStatus
<1>4. CASE row.status = "deleted"
  BY <1>4 DEF LockState, ActiveStatus
<1>5. CASE row.status \in {"succeeded", "failed"}
  BY <1>5 DEF LockState, ActiveStatus
<1> QED
  BY <1>1, <1>2, <1>3, <1>4, <1>5

(* What the lock sees of a step.                                            *)
Seen(i) == LockState(task'[i]) = LockState(task[i]) /\ task'[i].release = task[i].release
WorkKept == \A i \in Tasks : Live(i)' <=> Live(i)

LEMMA KeptSeen ==
    ASSUME NEW i \in Tasks, Kept(i)
    PROVE  Seen(i)
BY DEF Kept, Seen

LEMMA MovedOnSeen ==
    ASSUME TypeOK, TypeOK', NEW i \in Tasks, MovedOn(i)
    PROVE  Seen(i)
<1>1. task[i] \in Row /\ task'[i] \in Row
  BY DEF TypeOK
<1> QED
  BY <1>1, LockStates DEF MovedOn, Seen, SameOwner, Active

LEMMA LockLeftAlone ==
    ASSUME \A i \in Tasks : Seen(i), WorkKept
    PROVE  UNCHANGED Lock!vars
BY DEF Seen, WorkKept, Lock!vars

LEMMA LockStops ==
    ASSUME \A i \in Tasks : Seen(i),
           NEW S \in SUBSET Tasks, \A i \in Tasks : Live(i)' <=> Live(i) /\ i \notin S
    PROVE  Lock!Next
<1>1. Lock!Stop(S)
  BY DEF Seen, Lock!Stop
<1> QED
  BY <1>1 DEF Lock!Next

(* StepMovesOn of a goroutine: its row moves on, or stays.                   *)
LEMMA StepSeen ==
    ASSUME TypeOK, TypeOK', NEW j \in Tasks, NEW guard, NEW phase, NEW to,
           guard => Active(j), Step(j, guard, Moved(task[j], "running", phase), to)
    PROVE  \A i \in Tasks : Seen(i)
<1>1. task[j] \in Row
  BY DEF TypeOK
<1>2. CASE task' = task
  BY <1>2, KeptSeen DEF Kept
<1>3. CASE guard /\ task' = [task EXCEPT ![j] = Moved(task[j], "running", phase)]
  <2>1. task'[j] = Moved(task[j], "running", phase) /\ \A i \in Tasks : i # j => Kept(i)
    BY <1>3 DEF TypeOK, Kept
  <2>2. MovedOn(j)
    BY <1>1, <1>3, <2>1, MovedFields DEF MovedOn, ActiveStatus, SameOwner
  <2> QED
    BY <2>1, <2>2, KeptSeen, MovedOnSeen
<1> QED
  BY <1>2, <1>3 DEF Step

LEMMA TouchSeen ==
    ASSUME TypeOK, TypeOK', NEW j \in Tasks, task' = Touched(j)
    PROVE  \A i \in Tasks : Seen(i)
<1>1. task[j] \in Row
  BY DEF TypeOK
<1>2. CASE ~Active(j)
  BY <1>2, KeptSeen DEF Touched, Kept
<1>3. CASE Active(j)
  <2>1. task'[j] = [task[j] EXCEPT !.age = 0] /\ \A i \in Tasks : i # j => Kept(i)
    BY <1>3 DEF Touched, TypeOK, Kept
  <2>2. MovedOn(j)
    BY <1>1, <1>3, <2>1, AgedFields DEF MovedOn, Active, SameOwner
  <2> QED
    BY <2>1, <2>2, KeptSeen, MovedOnSeen
<1> QED
  BY <1>2, <1>3

(* A row that ends while nobody works on it closes the operation.             *)
LEMMA LockCloses ==
    ASSUME TypeOK, TypeOK', NEW j \in Tasks, Ended(j), \A i \in Tasks : i # j => Kept(i),
           ~Live(j), WorkKept
    PROVE  Lock!Next
<1>1. task[j] \in Row /\ task'[j] \in Row
  BY DEF TypeOK
<1>2. PICK outcome \in {"succeeded", "failed"} : task'[j].status = outcome
  BY DEF Ended
<1>3. /\ LockState(task[j]) = "open" /\ LockState(task'[j]) = outcome
      /\ task'[j].release = task[j].release
  BY <1>1, <1>2, LockStates DEF Ended, Active, SameOwner
<1>4. Lock!Close(j, outcome)
  BY <1>3 DEF Lock!Close, Kept, WorkKept
<1> QED
  BY <1>4 DEF Lock!Next

(* A new row opens an operation on a release that nobody works on, and the     *)
(* active rows of that release fail.                                           *)
LEMMA LockOpens ==
    ASSUME TypeOK, TypeOK', NEW o \in Tasks, NEW r \in Releases, NEW op \in Operations,
           task[o].status = "none", task'[o] = NewRow(r, op), WorkKept,
           \A i \in ActiveRows(r) : ~Live(i) /\ Ended(i) /\ task'[i].status = "failed",
           \A i \in Tasks : i # o /\ i \notin ActiveRows(r) => Kept(i)
    PROVE  Lock!Next
<1>1. \A i \in Tasks : task[i] \in Row /\ task'[i] \in Row
  BY DEF TypeOK
<1>2. LockState(task[o]) = "unused"
  BY <1>1, LockStates
<1>3. LockState(task'[o]) = "open" /\ task'[o].release = r
  BY <1>1, LockStates, NewRowFields DEF ActiveStatus
<1>4. Lock!OpenOn(r) = ActiveRows(r)
  BY <1>1, LockStates DEF Lock!OpenOn, ActiveRows, Active
<1>5. \A i \in ActiveRows(r) :
         LockState(task'[i]) = "failed" /\ task'[i].release = task[i].release
  BY <1>1, LockStates DEF ActiveRows, Ended, SameOwner
<1>6. Lock!Open(o, r)
  BY <1>2, <1>3, <1>4, <1>5 DEF Lock!Open, Kept, WorkKept, ActiveRows
<1> QED
  BY <1>6 DEF Lock!Next

LEMMA InsertedWork ==
    ASSUME TypeOK, Unused, NEW rows, NEW r, NEW op, Insert(rows, r, op)
    PROVE  WorkKept /\ lastId + 1 \in Tasks /\ task[lastId + 1].status = "none"
<1>1. lastId + 1 \in Tasks
  BY BoundsAssumption DEF Insert, TypeOK, Tasks
<1>2. pc[lastId + 1] = "none" /\ task[lastId + 1].status = "none"
  BY <1>1 DEF Unused, TypeOK, Tasks
<1>3. PICK to \in {"created", "gone"} : pc' = [pc EXCEPT ![lastId + 1] = to]
  BY DEF Insert
<1> QED
  BY <1>1, <1>2, <1>3 DEF WorkKept, Live, TypeOK

(* Every step of the table is a step of the lock.                             *)
LEMMA LockStep ==
    ASSUME Benign, TypeOK, TypeOK', Keys, Unused, Holding, \A i \in Tasks : Heard(i), [Next]_vars
    PROVE  [Lock!Next]_Lock!vars
<1>0. \A i \in Tasks : task[i] \in Row /\ task'[i] \in Row
  BY DEF TypeOK
<1>1. ASSUME NEW q \in Requests, NEW op \in Operations, InsertTask(q, op)
      PROVE  Lock!Next
  <2>1. request[q].release \in Releases
    BY <1>1 DEF InsertTask, TypeOK, Request, Idle
  <2>2. Insert(task, request[q].release, op) /\ ActiveRows(request[q].release) = {}
    BY <1>1 DEF InsertTask, KeyTaken, Keys, KeyIffActive, ActiveRows
  <2>3. /\ task'[lastId + 1] = NewRow(request[q].release, op)
        /\ \A i \in Tasks : i # lastId + 1 => Kept(i)
    BY <2>2, InsertedWork DEF Insert, TypeOK, Kept
  <2> QED
    BY <2>1, <2>2, <2>3, InsertedWork, LockOpens
<1>2. ASSUME NEW q \in Requests, NEW r \in Releases, NEW op \in Operations, TakeOver(q, r, op)
      PROVE  Lock!Next
  <2>1. PICK k \in ActiveRows(r) :
           ~Fresh(k) /\ Insert([task EXCEPT ![k] = Failed(@, "expired")], r, op)
    BY <1>2 DEF TakeOver
  <2>2. ActiveRows(r) = {k}
    BY <2>1 DEF ActiveRows, Keys, OneActiveRow
  <2>3. ~Live(k)
    BY <2>1, LiveIsFresh DEF Holding, ActiveRows
  <2>4. WorkKept /\ lastId + 1 \in Tasks /\ task[lastId + 1].status = "none"
    BY <2>1, InsertedWork
  <2>5. k \in Tasks /\ k # lastId + 1
    BY <2>1, <2>4 DEF ActiveRows, Active, ActiveStatus
  <2>6. /\ task'[lastId + 1] = NewRow(r, op)
        /\ task'[k] = Failed(task[k], "expired")
        /\ \A i \in Tasks : i # lastId + 1 /\ i # k => Kept(i)
    BY <2>1, <2>4, <2>5 DEF Insert, TypeOK, Kept
  <2>7. Ended(k) /\ task'[k].status = "failed"
    <3>1. Expires(k)
      BY <2>1, <2>4, <2>5, <2>6 DEF Expires, Insert, TypeOK
    <3> QED
      BY <1>0, <2>1, <2>5, <2>6, <3>1, FailedFields DEF Ended, SameOwner, ClosedBy, ActiveRows
  <2> QED
    BY <2>2, <2>3, <2>4, <2>6, <2>7, LockOpens
<1>3. ASSUME NEW q \in Requests, DeleteCommit(q)
      PROVE  Lock!Next
  <2> DEFINE S == FailedInstalls(request[q].release)
  <2>1. WorkKept
    BY <1>3 DEF DeleteCommit, runVars, WorkKept, Live
  <2>2. \A i \in S : /\ LockState(task[i]) = "failed" /\ LockState(task'[i]) = "removed"
                     /\ task'[i].release = task[i].release
    <3>1. SUFFICES ASSUME NEW i \in S
                   PROVE  /\ LockState(task[i]) = "failed" /\ LockState(task'[i]) = "removed"
                          /\ task'[i].release = task[i].release
      OBVIOUS
    <3>2. task[i].status = "failed" /\ task'[i] = [task[i] EXCEPT !.status = "deleted"]
      BY <1>3, <3>1 DEF DeleteCommit, DeletedRows, FailedInstalls
    <3>3. i \in Tasks
      BY <3>1 DEF FailedInstalls
    <3>4. task'[i].status = "deleted" /\ task'[i].release = task[i].release
      BY <1>0, <3>2, <3>3, DeletedFields
    <3>5. task[i] \in Row /\ task'[i] \in Row
      BY <1>0, <3>3
    <3> QED
      BY <3>2, <3>4, <3>5, LockStates
  <2>3. \A i \in Tasks : i \notin S => task'[i] = task[i]
    BY <1>3 DEF DeleteCommit, DeletedRows
  <2>4. S \in SUBSET Tasks
    BY DEF FailedInstalls
  <2> HIDE DEF S
  <2>5. Lock!Forget(S)
    BY <2>1, <2>2, <2>3, <2>4 DEF Lock!Forget, WorkKept
  <2> QED
    BY <2>4, <2>5 DEF Lock!Next
<1>4. ASSUME NEW j \in Tasks, StartLoading(j)
      PROVE  [Lock!Next]_Lock!vars
  <2>1. \A i \in Tasks : Seen(i)
    BY <1>4, StepSeen DEF StartLoading, Active, ActiveStatus
  <2>2. CASE Leave(j, "failure")
    <3>1. WorkKept
      BY <1>4, <2>2 DEF StartLoading, Leave, WorkKept, Live, TypeOK
    <3> QED
      BY <2>1, <3>1, LockLeftAlone
  <2>3. CASE Advance(j, "preparing") /\ task[j].status = "pending"
    <3>1. LockState(task[j]) = "open"
      BY <1>0, <2>3, LockStates DEF ActiveStatus
    <3>2. ~Live(j) /\ \A i \in Tasks : Live(i)' <=> Live(i) \/ i = j
      BY <1>4, <2>3 DEF StartLoading, Advance, Live, TypeOK
    <3>3. Lock!Begin(j)
      BY <2>1, <3>1, <3>2 DEF Lock!Begin, Seen
    <3> QED
      BY <3>3 DEF Lock!Next
  <2> QED
    BY <1>4, <2>2, <2>3 DEF StartLoading, Step
<1>5. ASSUME NEW j \in Tasks, MarkInstalling(j)
      PROVE  [Lock!Next]_Lock!vars
  <2>1. \A i \in Tasks : Seen(i)
    BY <1>5, StepSeen DEF MarkInstalling, Active, ActiveStatus
  <2>2. CASE Leave(j, "failure")
    <3>1. \A i \in Tasks : Live(i)' <=> Live(i) /\ i \notin {j}
      BY <2>2 DEF Leave, Live, TypeOK
    <3> QED
      BY <2>1, <3>1, LockStops
  <2>3. CASE Advance(j, "installing")
    <3>1. WorkKept
      BY <1>5, <2>3 DEF MarkInstalling, Advance, WorkKept, Live, TypeOK
    <3> QED
      BY <2>1, <3>1, LockLeftAlone
  <2> QED
    BY <1>5, <2>2, <2>3 DEF MarkInstalling, Step
<1>6. ASSUME NEW j \in Tasks, NEW outcome, Leave(j, outcome), task' = task
      PROVE  Lock!Next
  <2>1. \A i \in Tasks : Live(i)' <=> Live(i) /\ i \notin {j}
    BY <1>6 DEF Leave, Live, TypeOK
  <2> QED
    BY <1>6, <2>1, KeptSeen, LockStops DEF Kept
<1>7. ASSUME NEW j \in Tasks, FinishCommits(j) \/ FinishFails(j) \/ AnnounceFails(j)
      PROVE  [Lock!Next]_Lock!vars
  <2>1. WorkKept /\ ~Live(j)
    BY <1>7 DEF FinishCommits, FinishFails, AnnounceFails, Ends, Retries, Advance, WorkKept,
        Live, TypeOK
  <2>2. CASE task' = task
    BY <2>1, <2>2, KeptSeen, LockLeftAlone DEF Kept
  <2>3. CASE task' # task
    <3>1. /\ Active(j)
          /\ \/ task' = [task EXCEPT ![j] = Outcome(j)] /\ (FinishCommits(j) \/ FinishFails(j))
             \/ task' = [task EXCEPT ![j] = Failed(@, "own")] /\ AnnounceFails(j)
      BY <1>7, <2>3 DEF FinishCommits, FinishFails, AnnounceFails
    <3>2. \A i \in Tasks : i # j => Kept(i)
      BY <3>1 DEF TypeOK, Kept
    <3>3. Ended(j)
      <4>1. /\ task'[j].status \in {"succeeded", "failed"} /\ task'[j].key = NoKey
            /\ SameOwner(j) /\ ClosedBy(j)
        BY <1>0, <3>1, ClosedFields, FailedFields DEF TypeOK, Outcome, SameOwner, ClosedBy
      <4> QED
        BY <3>1, <4>1 DEF Ended
    <3> QED
      BY <2>1, <3>2, <3>3, LockCloses
  <2> QED
    BY <2>2, <2>3
<1>8. ASSUME NEW j \in Tasks, Heartbeat(j) \/ PersistLogs(j) \/ LateCall(j)
      PROVE  [Lock!Next]_Lock!vars
  <2>1. WorkKept
    BY <1>8 DEF Heartbeat, PersistLogs, LateCall, runVars, WorkKept, Live
  <2>2. task' = task \/ task' = Touched(j)
    BY <1>8 DEF Heartbeat, PersistLogs, LateCall
  <2> QED
    BY <2>1, <2>2, KeptSeen, TouchSeen, LockLeftAlone DEF Kept
<1>9. CASE Tick
  <2>1. WorkKept
    BY <1>9 DEF Tick, runVars, WorkKept, Live
  <2>2. ASSUME NEW i \in Tasks
        PROVE  Seen(i)
    <3>1. task'[i] = task[i] \/ (Active(i) /\ task'[i] = [task[i] EXCEPT !.age = @ + 1])
      BY <1>9 DEF Tick
    <3>2. CASE task'[i] = task[i]
      BY <3>2, KeptSeen DEF Kept
    <3>3. CASE Active(i) /\ task'[i] = [task[i] EXCEPT !.age = @ + 1]
      <4>1. MovedOn(i)
        BY <1>0, <3>3, AgedFields DEF MovedOn, Active, SameOwner
      <4> QED
        BY <4>1, MovedOnSeen
    <3> QED
      BY <3>1, <3>2, <3>3
  <2> QED
    BY <2>1, <2>2, LockLeftAlone
<1>10. CASE Crash
  <2>1. \A i \in Tasks : Live(i)' <=> Live(i) /\ i \notin Tasks
    BY <1>10 DEF Crash, Live
  <2> QED
    BY <1>10, <2>1, KeptSeen, LockStops DEF Crash, rowVars, Kept
<1>11. CASE Restart
  <2>1. WorkKept /\ \A i \in Tasks : ~Live(i)
    BY <1>11 DEF Restart, runVars, WorkKept, Live, Holding, Down
  <2>2. CASE task' = task
    BY <2>1, <2>2, KeptSeen, LockLeftAlone DEF Kept
  <2>3. CASE task' = [i \in Tasks |-> IF Active(i) THEN Failed(task[i], "interrupted") ELSE task[i]]
    <3>1. \A i \in Tasks : /\ LockState(task'[i]) = IF LockState(task[i]) = "open" THEN "failed"
                                                    ELSE LockState(task[i])
                           /\ task'[i].release = task[i].release
      <4>1. SUFFICES ASSUME NEW i \in Tasks
                     PROVE  /\ LockState(task'[i]) = IF LockState(task[i]) = "open" THEN "failed"
                                                     ELSE LockState(task[i])
                            /\ task'[i].release = task[i].release
        OBVIOUS
      <4>2. task[i] \in Row /\ task'[i] \in Row
        BY <1>0
      <4>3. CASE Active(i)
        <5>1. task'[i].status = "failed" /\ task'[i].release = task[i].release
          BY <2>3, <4>2, <4>3, FailedFields
        <5> QED
          BY <4>2, <4>3, <5>1, LockStates DEF Active
      <4>4. CASE ~Active(i)
        BY <2>3, <4>2, <4>4, LockStates DEF Active
      <4> QED
        BY <4>3, <4>4
    <3>2. Lock!Abandon
      BY <2>1, <3>1 DEF Lock!Abandon, WorkKept
    <3> QED
      BY <3>2 DEF Lock!Next
  <2> QED
    BY <1>11, <2>2, <2>3 DEF Restart
<1>12. ASSUME task' = task, WorkKept
       PROVE  UNCHANGED Lock!vars
  BY <1>12, KeptSeen, LockLeftAlone DEF Kept
<1>13. ASSUME NEW j \in Tasks,
              Announce(j) \/ FinishFindsTerminal(j) \/ Drains(j) \/ StopsWaiting(j)
       PROVE  task' = task /\ WorkKept
  BY <1>13 DEF Announce, FinishFindsTerminal, Drains, StopsWaiting, Advance, Ends, rowVars,
      WorkKept, Live, TypeOK
<1>14. ASSUME UNCHANGED <<task, pc>>
       PROVE  WorkKept
  BY <1>14 DEF WorkKept, Live
<1>15. \/ \E q \in Requests, op \in Operations : InsertTask(q, op)
       \/ \E q \in Requests, r \in Releases, op \in Operations : TakeOver(q, r, op)
       \/ \E q \in Requests : DeleteCommit(q)
       \/ \E j \in Tasks : StartLoading(j) \/ MarkInstalling(j)
       \/ \E j \in Tasks, outcome \in {"success", "failure"} : Leave(j, outcome) /\ task' = task
       \/ \E j \in Tasks : FinishCommits(j) \/ FinishFails(j) \/ AnnounceFails(j)
       \/ \E j \in Tasks : Heartbeat(j) \/ PersistLogs(j) \/ LateCall(j)
       \/ \E j \in Tasks : Announce(j) \/ FinishFindsTerminal(j) \/ Drains(j) \/ StopsWaiting(j)
       \/ Tick \/ Crash \/ Restart
       \/ UNCHANGED <<task, pc>>
  BY DEF Next, vars, rowVars, runVars, Create, Delete, Run, Record, Finish, LookupAbsent,
      RefusedByKey, RequestFails, DeleteRead, PrepareFails, HelmReturns, RecorderPanics
<1> QED
  BY <1>1, <1>2, <1>3, <1>4, <1>5, <1>6, <1>7, <1>8, <1>9, <1>10, <1>11, <1>12, <1>13, <1>14, <1>15

LEMMA LockInit ==
    ASSUME Init
    PROVE  Lock!Init
<1>1. NoRow \in Row /\ NoRow.status = "none" /\ NoRow.release = NoKey
  BY BoundsAssumption DEF NoRow, Row, NoKey
<1>2. LockState(NoRow) = "unused"
  BY <1>1, LockStates
<1>3. \A i \in Tasks : /\ LockState(task[i]) = "unused"
                       /\ task[i].release = NoKey
                       /\ ~Live(i)
  BY <1>1, <1>2 DEF Init, Live
<1> QED
  BY <1>3 DEF Lock!Init

(* The table implements the lock, as long as recorders do not die and the      *)
(* database does not refuse a stale window's worth of heartbeats in a row: an   *)
(* operation is opened only when nobody works on its release, works only while  *)
(* it is open, and is closed for good.                                          *)
THEOREM LockImplemented == ASSUME Benign PROVE Spec => ImplementsLock
<1>1. Init => Lock!Init
  BY LockInit
<1>2. TypeOK /\ TypeOK' /\ Keys /\ Unused /\ Holding /\ (\A i \in Tasks : Heard(i)) /\ [Next]_vars
      => [Lock!Next]_Lock!vars
  BY LockStep
<1> QED
  BY <1>1, <1>2, TypeCorrect, KeysInductive, UnusedAhead, HoldingAlways, HeardAlways, PTL
  DEF Spec, ImplementsLock, Lock!Spec
============================================================================
