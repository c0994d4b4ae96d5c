------------------------- MODULE NodeDeploy_proofs -------------------------
(***************************************************************************)
(* Proofs about NodeDeploy, for every value of its constants.              *)
(***************************************************************************)
EXTENDS NodeDeploy, FiniteSetTheorems, TLAPS

Machine == [status : MachineStatus, secret : BOOLEAN]
Caller == [at : {"idle", "asked", "slot", "created"},
           machine : Machines \cup {NoMachine}, task : 0..MaxTasks]

----------------------------------------------------------------------------
(* Types.                                                                   *)

LEMMA TableKeeps ==
    ASSUME task \in [Tasks -> Row], NEW i \in Tasks,
           NEW status \in {"running", "succeeded", "failed"}
    PROVE  [task EXCEPT ![i].status = status] \in [Tasks -> Row]
<1>1. task[i] \in Row
  OBVIOUS
<1>2. [task[i] EXCEPT !.status = status] \in Row
  BY <1>1 DEF Row
<1> QED
  BY <1>2

LEMMA StatusKeeps ==
    ASSUME Types, NEW m, NEW status \in MachineStatus
    PROVE  WithStatus(m, status) \in [Machines -> Machine]
<1>1. \A n \in Machines : [machine[n] EXCEPT !.status = status] \in Machine
  BY DEF Types, Machine
<1> QED
  BY <1>1 DEF WithStatus, Types, Machine

LEMMA PlaceKeeps ==
    ASSUME Types, NEW i \in Tasks, NEW to \in Place, pc' = [pc EXCEPT ![i] = to]
    PROVE  pc' \in [Tasks -> Place]
BY DEF Types

LEMMA CallerKeeps ==
    ASSUME Types, NEW c \in Callers, NEW row \in Caller, caller' = [caller EXCEPT ![c] = row]
    PROVE  caller' \in [Callers -> Caller]
BY DEF Types, Caller

LEMMA IdleIsCaller == Idle \in Caller
BY DeployAssumption DEF Idle, Caller

(* The handlers' steps.                                                     *)
LEMMA HandlerTypes ==
    ASSUME Types, NEW c \in Callers, Ask(c) \/ Request(c)
    PROVE  Types'
<1> USE DEF HandlerRest, dbVars, procVars
<1>1. ASSUME NEW m \in Machines, AskDeploy(c, m) \/ AgentConnects(c, m)
      PROVE  Types'
  <2>1. [at |-> "asked", machine |-> m, task |-> 0] \in Caller
    BY DeployAssumption DEF Caller
  <2>2. caller' \in [Callers -> Caller]
    BY <1>1, <2>1, CallerKeeps DEF AskDeploy, AgentConnects, Asks
  <2> QED
    BY <1>1, <2>2 DEF AskDeploy, AgentConnects, Types, Caller
<1>2. ASSUME AcquireSlot(c)
      PROVE  Types'
  <2>1. [caller[c] EXCEPT !.at = "slot"] \in Caller
    BY DEF Types, Caller
  <2>2. caller' \in [Callers -> Caller]
    BY <1>2, <2>1, IdleIsCaller, CallerKeeps DEF AcquireSlot, Answers
  <2> QED
    BY <1>2, <2>2 DEF AcquireSlot, Types, Caller
<1>3. ASSUME CreateTask(c)
      PROVE  Types'
  <2>1. lastId + 1 \in Tasks /\ lastId' \in 0..MaxTasks
    BY <1>3, DeployAssumption DEF CreateTask, Types, Tasks
  <2>2. [status |-> "pending", machine |-> caller[c].machine] \in Row
    BY DEF Types, Row
  <2>3. task' \in [Tasks -> Row]
    BY <1>3, <2>1, <2>2 DEF CreateTask, Inserted, Types
  <2>4. [at |-> "created", machine |-> caller[c].machine, task |-> lastId + 1] \in Caller
    BY <2>1, DeployAssumption DEF Types, Caller, Tasks
  <2>5. caller' \in [Callers -> Caller]
    BY <1>3, <2>4, IdleIsCaller, CallerKeeps DEF CreateTask, Answers, Holds
  <2> QED
    BY <1>3, <2>1, <2>3, <2>5 DEF CreateTask, Types, Caller
<1>4. ASSUME CreateRefused(c)
      PROVE  Types'
  <2>1. caller' \in [Callers -> Caller]
    BY <1>4, IdleIsCaller, CallerKeeps DEF CreateRefused, Answers
  <2> QED
    BY <1>4, <2>1 DEF CreateRefused, Types, Caller
<1>5. ASSUME FirstLog(c)
      PROVE  Types'
  <2>1. caller' \in [Callers -> Caller]
    BY <1>5, IdleIsCaller, CallerKeeps DEF FirstLog, Answers
  <2>2. pc' \in [Tasks -> Place]
    BY <1>5 DEF FirstLog, Types, Place
  <2> QED
    BY <1>5, <2>1, <2>2 DEF FirstLog, Types, Caller
<1> QED
  BY <1>1, <1>2, <1>3, <1>4, <1>5 DEF Ask, Request
(* A handler that asks names a machine, and so does a task that has been     *)
(* created; a goroutine belongs to a task.                                   *)
Placed ==
    /\ \A c \in Callers : caller[c].at # "idle" => caller[c].machine \in Machines
    /\ \A c \in Callers : caller[c].at = "created" =>
          caller[c].task \in Tasks /\ task[caller[c].task].machine \in Machines
    /\ \A i \in Tasks : pc[i] # "none" => task[i].machine \in Machines

(* A deployment's steps.                                                     *)
LEMMA RunTypes ==
    ASSUME Types, Placed, NEW i \in Tasks, Run(i)
    PROVE  Types'
<1> USE DEF RunRest, procVars
<1> DEFINE m == task[i].machine
<1>1. ASSUME task' \in [Tasks -> Row], machine' \in [Machines -> Machine],
             cred' \subseteq Machines, nodes' \subseteq Machines,
             secret' \in [Tasks -> BOOLEAN], pc' \in [Tasks -> Place], RunRest
      PROVE  Types'
  BY <1>1 DEF Types, Machine
<1>2. \A to \in Place : [pc EXCEPT ![i] = to] \in [Tasks -> Place]
  BY DEF Types
<1>3. /\ task \in [Tasks -> Row] /\ machine \in [Machines -> Machine]
      /\ cred \subseteq Machines
      /\ nodes \subseteq Machines /\ secret \in [Tasks -> BOOLEAN]
  BY DEF Types, Machine
<1>4. \A s \in MachineStatus : WithStatus(m, s) \in [Machines -> Machine]
  BY StatusKeeps
<1>5. \A s \in {"running", "succeeded", "failed"} :
         [task EXCEPT ![i].status = s] \in [Tasks -> Row]
  BY <1>3, TableKeeps
<1>6. pc[i] # "none" => m \in Machines
  BY DEF Placed
<1>7. ASSUME Load(i)
      PROVE  Types'
  <2>1. pc' \in [Tasks -> Place]
    BY <1>7, <1>2 DEF Load, Moves, Leaves, Place
  <2>2. machine[m].secret \in BOOLEAN
    BY <1>3, <1>6, <1>7 DEF Load, Machine
  <2>3. secret' = secret \/ secret' = [secret EXCEPT ![i] = machine[m].secret]
    BY <1>7 DEF Load
  <2>4. secret' \in [Tasks -> BOOLEAN]
    BY <1>3, <2>2, <2>3
  <2> QED
    BY <1>1, <1>3, <1>7, <2>1, <2>4 DEF Load
<1>8. ASSUME Start(i)
      PROVE  Types'
  <2>1. pc' \in [Tasks -> Place]
    BY <1>8, <1>2 DEF Start, Writes, Moves, Place
  <2>2. task' \in [Tasks -> Row]
    BY <1>3, <1>5, <1>8 DEF Start, Writes
  <2> QED
    BY <1>1, <1>3, <1>8, <2>1, <2>2 DEF Start
<1>9. ASSUME MarkDeploying(i) \/ MarkDeployed(i) \/ MarkFailed(i)
      PROVE  Types'
  <2>1. pc' \in [Tasks -> Place]
    BY <1>9, <1>2 DEF MarkDeploying, MarkDeployed, MarkFailed, Writes, Moves, Place
  <2>2. machine' \in [Machines -> Machine]
    BY <1>3, <1>4, <1>9 DEF MarkDeploying, MarkDeployed, MarkFailed, Writes, MachineStatus
  <2> QED
    BY <1>1, <1>3, <1>9, <2>1, <2>2 DEF MarkDeploying, MarkDeployed, MarkFailed
<1>10. ASSUME FindKeys(i)
       PROVE  Types'
  <2>1. pc' \in [Tasks -> Place]
    BY <1>10, <1>2 DEF FindKeys, Moves, Place
  <2> QED
    BY <1>1, <1>3, <1>10, <2>1 DEF FindKeys
<1>11. ASSUME Deploy(i)
       PROVE  Types'
  <2>1. pc' \in [Tasks -> Place]
    BY <1>11, <1>2 DEF Deploy, Moves, Place
  <2>2. nodes' \subseteq Machines
    BY <1>3, <1>6, <1>11 DEF Deploy
  <2> QED
    BY <1>1, <1>3, <1>11, <2>1, <2>2 DEF Deploy
<1>12. ASSUME SaveCredential(i)
       PROVE  Types'
  <2>1. pc' \in [Tasks -> Place]
    BY <1>12, <1>2 DEF SaveCredential, Writes, Moves, Place
  <2>2. [status |-> "Deployed", secret |-> FALSE] \in Machine
    BY DEF Machine, MachineStatus
  <2>3. machine' \in [Machines -> Machine]
    BY <1>3, <1>12, <2>2 DEF SaveCredential, Writes
  <2>4. cred' \subseteq Machines
    BY <1>3, <1>6, <1>12 DEF SaveCredential, Writes
  <2> QED
    BY <1>1, <1>3, <1>12, <2>1, <2>3, <2>4 DEF SaveCredential
<1>13. ASSUME NEW at \in {"succeed", "close"}, NEW status \in {"succeeded", "failed"},
              Closes(i, at, status)
       PROVE  Types'
  <2>1. pc' \in [Tasks -> Place]
    BY <1>13, <1>2 DEF Closes, Leaves, Place
  <2>2. task' \in [Tasks -> Row]
    BY <1>3, <1>5, <1>13 DEF Closes
  <2> QED
    BY <1>1, <1>3, <1>13, <2>1, <2>2 DEF Closes
<1>14. ASSUME DeployPanics(i)
       PROVE  Types'
  <2>1. pc' \in [Tasks -> Place]
    BY <1>14, <1>2 DEF DeployPanics, Moves, Place
  <2> QED
    BY <1>1, <1>3, <1>14, <2>1 DEF DeployPanics
<1> QED
  BY <1>7, <1>8, <1>9, <1>10, <1>11, <1>12, <1>13, <1>14 DEF Run

(* The steps on machine rows and of the process.                             *)
LEMMA RowTypes ==
    ASSUME Types, (\E m \in Machines : Administer(m)) \/ EditSave
    PROVE  Types'
<1> USE DEF RowRest, procVars
<1> DEFINE Form == [machine : Machines \cup {NoMachine}, status : MachineStatus, secret : BOOLEAN]
<1>1. ASSUME machine' \in [Machines -> Machine], nodes' \subseteq Machines,
             leaving' \subseteq Members, form' \in Form, RowRest
      PROVE  Types'
  BY <1>1 DEF Types, Machine
<1>2. /\ machine \in [Machines -> Machine] /\ nodes \subseteq Machines
      /\ leaving \subseteq Members /\ form \in Form
  BY DEF Types, Machine
<1>3. ASSUME NEW m \in Machines, AddMachine(m) \/ DeleteMachine(m)
      PROVE  Types'
  <2>1. /\ [status |-> "Online", secret |-> m \notin Members] \in Machine
        /\ [status |-> "absent", secret |-> FALSE] \in Machine
    BY DEF Machine, MachineStatus
  <2>2. machine' \in [Machines -> Machine]
    BY <1>2, <1>3, <2>1 DEF AddMachine, DeleteMachine
  <2> QED
    BY <1>1, <1>2, <1>3, <2>2 DEF AddMachine, DeleteMachine
<1>4. ASSUME NEW m \in Machines, RemoveNode(m)
      PROVE  Types'
  <2>1. nodes' \subseteq Machines /\ leaving' \subseteq Members
    BY <1>2, <1>4 DEF RemoveNode
  <2> QED
    BY <1>1, <1>2, <1>4, <2>1 DEF RemoveNode
<1>5. ASSUME NEW m \in Machines, RemoveMember(m)
      PROVE  Types'
  <2>1. [status |-> "absent", secret |-> FALSE] \in Machine
    BY DEF Machine, MachineStatus
  <2>2. machine' \in [Machines -> Machine] /\ leaving' \subseteq Members
    BY <1>2, <1>5, <2>1 DEF RemoveMember
  <2> QED
    BY <1>1, <1>2, <1>5, <2>2 DEF RemoveMember
<1>6. ASSUME NEW m \in Machines, EditRead(m)
      PROVE  Types'
  <2>1. form' \in Form
    BY <1>2, <1>6 DEF EditRead, Machine
  <2> QED
    BY <1>1, <1>2, <1>6, <2>1 DEF EditRead
<1>7. ASSUME EditSave
      PROVE  Types'
  <2>1. NoForm \in Form
    BY DEF NoForm, MachineStatus
  <2>2. /\ [status |-> form.status, secret |-> form.secret] \in Machine
        /\ [status |-> IF form.status = "Deployed" THEN "Deployed" ELSE "Online",
            secret |-> TRUE] \in Machine
    BY <1>2 DEF Machine, MachineStatus
  <2>3. machine' \in [Machines -> Machine]
    BY <1>2, <1>7, <2>2 DEF EditSave
  <2> QED
    BY <1>1, <1>2, <1>7, <2>1, <2>3 DEF EditSave
<1> QED
  BY <1>3, <1>4, <1>5, <1>6, <1>7 DEF Administer

LEMMA ProcessTypes ==
    ASSUME Types, Crash \/ Restart \/ BecomeReady
    PROVE  Types'
<1> USE DEF ProcRest, dbVars
<1>1. ASSUME Crash
      PROVE  Types'
  <2>1. /\ caller' \in [Callers -> Caller] /\ pc' \in [Tasks -> Place]
        /\ crashes' \in 0..MaxCrashes
    BY <1>1, IdleIsCaller, DeployAssumption DEF Crash, Types, Place
  <2>2. form' \in [machine : Machines \cup {NoMachine}, status : MachineStatus,
                   secret : BOOLEAN]
    BY <1>1 DEF Crash, NoForm, MachineStatus
  <2> QED
    BY <1>1, <2>1, <2>2 DEF Crash, Types, Caller
<1>2. ASSUME Restart
      PROVE  Types'
  <2>1. \A i \in Tasks : [task[i] EXCEPT !.status = "failed"] \in Row
    BY DEF Types, Row
  <2>2. task' \in [Tasks -> Row]
    BY <1>2, <2>1 DEF Restart, Types
  <2> QED
    BY <1>2, <2>2 DEF Restart, Types
<1>3. ASSUME BecomeReady
      PROVE  Types'
  BY <1>3 DEF BecomeReady, Types
<1> QED
  BY <1>1, <1>2, <1>3

----------------------------------------------------------------------------
(* Deployments.  OneDeployment is not inductive: a second goroutine for a     *)
(* machine is kept away by the row of the first, which therefore has to stay  *)
(* active for as long as its goroutine or the handler that made it goes on.   *)

Served ==
    /\ \A i \in Tasks : Working(i) => Active(i)
    /\ \A c \in Callers : caller[c].at = "created" =>
          Active(caller[c].task) /\ pc[caller[c].task] = "none"
    /\ \A c, d \in Callers :
          caller[c].at = "created" /\ caller[d].at = "created" /\ caller[c].task = caller[d].task
          => c = d
    /\ \A i, j \in Tasks :
          Active(i) /\ Active(j) /\ task[i].machine = task[j].machine => i = j
    /\ ~up => (\A i \in Tasks : ~Working(i)) /\ \A c \in Callers : caller[c] = Idle
    /\ \A i \in Tasks : i > lastId => task[i].status = "none" /\ pc[i] = "none"

(* What a deployment's step can do to the tasks.                              *)
LEMMA RunShape ==
    ASSUME Types, NEW i \in Tasks, Run(i)
    PROVE  /\ Working(i)
           /\ UNCHANGED <<lastId, caller, up>>
           /\ \E to \in Place \ {"none"} :
                 /\ pc' = [pc EXCEPT ![i] = to]
                 /\ \/ task' = task
                    \/ task' = [task EXCEPT ![i].status = "running"] /\ Active(i)
                    \/ /\ to = "gone"
                       /\ \E s \in {"succeeded", "failed"} : task' = [task EXCEPT ![i].status = s]
<1> USE DEF RunRest, procVars, Working, Place
<1>1. CASE Load(i)
  BY <1>1 DEF Load, Moves, Leaves
<1>2. CASE Start(i)
  BY <1>2 DEF Start, Writes, Moves, Active
<1>3. CASE MarkDeploying(i) \/ MarkDeployed(i) \/ MarkFailed(i)
  BY <1>3 DEF MarkDeploying, MarkDeployed, MarkFailed, Writes, Moves
<1>4. CASE FindKeys(i) \/ Deploy(i)
  BY <1>4 DEF FindKeys, Deploy, Moves
<1>5. CASE SaveCredential(i)
  BY <1>5 DEF SaveCredential, Writes, Moves
<1>6. CASE Closes(i, "succeed", "succeeded") \/ Closes(i, "close", "failed")
  BY <1>6 DEF Closes, Leaves
<1>7. CASE DeployPanics(i)
  BY <1>7 DEF DeployPanics, Moves
<1> QED
  BY <1>1, <1>2, <1>3, <1>4, <1>5, <1>6, <1>7 DEF Run

LEMMA RunServed ==
    ASSUME Types, Placed, Served, NEW i \in Tasks, Run(i)
    PROVE  Placed' /\ Served'
<1>1. PICK to \in Place \ {"none"} :
         /\ pc' = [pc EXCEPT ![i] = to]
         /\ \/ task' = task
            \/ task' = [task EXCEPT ![i].status = "running"] /\ Active(i)
            \/ /\ to = "gone"
               /\ \E s \in {"succeeded", "failed"} : task' = [task EXCEPT ![i].status = s]
  BY RunShape
<1>2. Working(i) /\ Active(i) /\ UNCHANGED <<lastId, caller, up>>
  BY RunShape DEF Served
<1>3. /\ \A j \in Tasks : task'[j].machine = task[j].machine
      /\ \A j \in Tasks : j # i => task'[j] = task[j] /\ pc'[j] = pc[j]
  BY <1>1 DEF Types, Row
<1>4. pc'[i] = to /\ pc[i] # "none"
  BY <1>1, <1>2 DEF Types, Working
<1>5. task'[i].status \in {"pending", "running"} \/ to = "gone"
  BY <1>1, <1>2 DEF Types, Row, Active
<1>6. Placed'
  BY <1>2, <1>3, <1>4 DEF Placed
<1>7. \A j \in Tasks : Active(j)' => Active(j)
  BY <1>2, <1>3 DEF Active
<1>8. \A c \in Callers : caller[c].at = "created" => caller[c].task \in Tasks \ {i}
  BY <1>4 DEF Served, Placed
<1>9. \A j \in Tasks : Working(j)' => Active(j)'
  BY <1>3, <1>4, <1>5 DEF Served, Working, Active
<1>10. \A c \in Callers : (caller[c].at = "created" =>
          Active(caller[c].task) /\ pc[caller[c].task] = "none")'
  BY <1>2, <1>3, <1>8 DEF Served, Active
<1>11. up /\ up' /\ ~(i > lastId)
  BY <1>2, <1>4 DEF Served
<1>12. \A j \in Tasks : j > lastId' => task'[j].status = "none" /\ pc'[j] = "none"
  BY <1>2, <1>3, <1>11 DEF Served
<1> QED
  BY <1>2, <1>3, <1>6, <1>7, <1>9, <1>10, <1>11, <1>12 DEF Served

LEMMA HandlerServed ==
    ASSUME Types, Placed, Served, NEW c \in Callers, Ask(c) \/ Request(c)
    PROVE  Placed' /\ Served'
<1> USE DEF HandlerRest, dbVars, procVars
<1>1. ASSUME NEW row \in Caller, caller' = [caller EXCEPT ![c] = row], row.at # "created",
             row.at # "idle" => row.machine \in Machines,
             UNCHANGED <<task, lastId, pc, up>>, up
      PROVE  Placed' /\ Served'
  <2>1. \A d \in Callers : caller'[d].at = "created" => caller[d].at = "created" /\ caller'[d] = caller[d]
    BY <1>1 DEF Types
  <2>2. Placed'
    BY <1>1, <2>1 DEF Placed, Types
  <2> QED
    BY <1>1, <2>1, <2>2 DEF Served, Working, Active
<1>2. ASSUME NEW m \in Machines, AskDeploy(c, m) \/ AgentConnects(c, m)
      PROVE  Placed' /\ Served'
  <2>1. [at |-> "asked", machine |-> m, task |-> 0] \in Caller
    BY DeployAssumption DEF Caller
  <2> QED
    BY <1>1, <1>2, <2>1 DEF AskDeploy, AgentConnects, Asks
<1>3. ASSUME AcquireSlot(c) \/ CreateRefused(c)
      PROVE  Placed' /\ Served'
  <2>1. [caller[c] EXCEPT !.at = "slot"] \in Caller /\ caller[c].machine \in Machines
    BY <1>3 DEF AcquireSlot, CreateRefused, Types, Placed, Caller
  <2>2. PICK row \in Caller : /\ caller' = [caller EXCEPT ![c] = row]
                              /\ row.at # "created"
                              /\ row.at # "idle" => row.machine \in Machines
    <3>1. CASE caller' = [caller EXCEPT ![c] = Idle]
      BY <3>1, IdleIsCaller DEF Idle
    <3>2. CASE caller' = [caller EXCEPT ![c].at = "slot"]
      BY <3>2, <2>1 DEF Caller, Types
    <3> QED
      BY <1>3, <3>1, <3>2 DEF AcquireSlot, CreateRefused, Answers
  <2>3. up
    BY <1>3 DEF AcquireSlot, CreateRefused, Served, Idle
  <2> QED
    BY <1>1, <1>3, <2>2, <2>3 DEF AcquireSlot, CreateRefused
<1>4. ASSUME CreateTask(c)
      PROVE  Placed' /\ Served'
  <2> DEFINE m == caller[c].machine
             n == lastId + 1
  <2>1. /\ n \in Tasks /\ n > lastId /\ lastId' = n /\ lastId \in Nat
        /\ \A j \in Tasks : j > n => j > lastId
    BY <1>4, DeployAssumption DEF CreateTask, Types, Tasks
  <2>2. m \in Machines /\ ~ActiveTask(m) /\ up
    BY <1>4 DEF CreateTask, Placed, Types, Served, Idle
  <2>3. task'[n] = [status |-> "pending", machine |-> m]
        /\ \A j \in Tasks : j # n => task'[j] = task[j]
    BY <1>4, <2>1 DEF CreateTask, Inserted, Types
  <2>4. UNCHANGED <<pc, up>> /\ pc[n] = "none" /\ task[n].status = "none"
    BY <1>4, <2>1 DEF CreateTask, Served
  <2>5. \A d \in Callers : caller[d].at = "created" => caller[d].task \in Tasks \ {n}
    BY <2>4 DEF Placed, Served, Active
  <2>6. /\ \A d \in Callers : d # c => caller'[d] = caller[d]
        /\ caller'[c] = Idle \/ caller'[c] = [at |-> "created", machine |-> m, task |-> n]
    BY <1>4 DEF CreateTask, Holds, Answers, Types
  <2>7. Placed'
    <3>1. \A d \in Callers : caller'[d].at # "idle" => caller'[d].machine \in Machines
      BY <2>2, <2>6 DEF Placed, Idle
    <3>2. \A d \in Callers : caller'[d].at = "created" =>
             caller'[d].task \in Tasks /\ task'[caller'[d].task].machine \in Machines
      BY <2>1, <2>2, <2>3, <2>5, <2>6 DEF Placed, Idle
    <3>3. \A j \in Tasks : pc'[j] # "none" => task'[j].machine \in Machines
      BY <2>3, <2>4 DEF Placed
    <3> QED
      BY <3>1, <3>2, <3>3 DEF Placed
  <2>8. \A j \in Tasks : Working(j)' => Active(j)'
    BY <2>3, <2>4 DEF Served, Working, Active
  <2>9. \A d \in Callers : (caller[d].at = "created" =>
           Active(caller[d].task) /\ pc[caller[d].task] = "none")'
    BY <2>3, <2>4, <2>5, <2>6 DEF Served, Active, Idle
  <2>10. \A d, e \in Callers :
           caller'[d].at = "created" /\ caller'[e].at = "created" /\ caller'[d].task = caller'[e].task
           => d = e
    BY <2>5, <2>6 DEF Served, Idle
  <2>11. \A i, j \in Tasks :
           Active(i)' /\ Active(j)' /\ task'[i].machine = task'[j].machine => i = j
    BY <2>2, <2>3 DEF Served, Active, ActiveTask
  <2>12. \A j \in Tasks : j > lastId' => task'[j].status = "none" /\ pc'[j] = "none"
    BY <2>1, <2>3, <2>4 DEF Served, Tasks
  <2> QED
    BY <2>2, <2>4, <2>7, <2>8, <2>9, <2>10, <2>11, <2>12 DEF Served
<1>5. ASSUME FirstLog(c)
      PROVE  Placed' /\ Served'
  <2> DEFINE n == caller[c].task
  <2>1. n \in Tasks /\ Active(n) /\ pc[n] = "none" /\ up /\ task[n].machine \in Machines
    BY <1>5 DEF FirstLog, Placed, Served, Types, Idle
  <2>2. UNCHANGED <<task, lastId, up>>
    BY <1>5 DEF FirstLog
  <2>3. caller'[c] = Idle /\ \A d \in Callers : d # c => caller'[d] = caller[d]
    BY <1>5 DEF FirstLog, Answers, Types
  <2>4. \A j \in Tasks : j # n => pc'[j] = pc[j]
    BY <1>5 DEF FirstLog, Types
  <2>5. \A d \in Callers : caller'[d].at = "created" => d # c /\ caller[d].task # n
    BY <1>5, <2>3 DEF FirstLog, Served, Idle
  <2>6. ~(n > lastId)
    BY <2>1 DEF Served, Active
  <2>7. Placed'
    BY <2>1, <2>2, <2>3, <2>4 DEF Placed, Idle
  <2>8. \A j \in Tasks : Working(j)' => Active(j)'
    BY <2>1, <2>2, <2>4 DEF Served, Working, Active
  <2>9. \A d \in Callers : (caller[d].at = "created" =>
           Active(caller[d].task) /\ pc[caller[d].task] = "none")'
    BY <2>2, <2>3, <2>4, <2>5 DEF Served, Active, Placed
  <2>10. \A d, e \in Callers :
           caller'[d].at = "created" /\ caller'[e].at = "created" /\ caller'[d].task = caller'[e].task
           => d = e
    BY <2>3, <2>5 DEF Served
  <2>11. \A j \in Tasks : j > lastId' => task'[j].status = "none" /\ pc'[j] = "none"
    BY <2>2, <2>4, <2>6 DEF Served
  <2> QED
    BY <2>1, <2>2, <2>7, <2>8, <2>9, <2>10, <2>11 DEF Served, Active
<1> QED
  BY <1>2, <1>3, <1>4, <1>5 DEF Ask, Request

LEMMA ElsewhereServed ==
    ASSUME Types, Placed, Served,
           (\E m \in Machines : Administer(m)) \/ EditSave \/ Crash \/ Restart \/ BecomeReady
    PROVE  Placed' /\ Served'
<1>1. ASSUME (\E m \in Machines : Administer(m)) \/ EditSave \/ BecomeReady
      PROVE  Placed' /\ Served'
  <2>1. UNCHANGED <<task, lastId, caller, pc>> /\ (up' = up)
    BY <1>1 DEF Administer, AddMachine, DeleteMachine, RemoveNode, RemoveMember, EditRead,
                EditSave, BecomeReady, RowRest, ProcRest, procVars
  <2> QED
    BY <2>1 DEF Placed, Served, Working, Active
<1>2. ASSUME Crash
      PROVE  Placed' /\ Served'
  <2>1. /\ \A c \in Callers : caller'[c] = Idle
        /\ \A i \in Tasks : pc'[i] \in {"none", "gone"} /\ (pc[i] = "none" <=> pc'[i] = "none")
        /\ UNCHANGED <<task, lastId>> /\ ~up'
    BY <1>2 DEF Crash, dbVars
  <2> QED
    BY <2>1 DEF Placed, Served, Working, Active, Idle
<1>3. ASSUME Restart
      PROVE  Placed' /\ Served'
  <2>1. UNCHANGED <<lastId, caller, pc>> /\ ~up
    BY <1>3 DEF Restart, ProcRest
  <2>2. /\ \A i \in Tasks : ~Working(i)
        /\ \A c \in Callers : caller[c] = Idle /\ caller[c].at # "created"
    BY <2>1 DEF Served, Idle
  <2>3. \A i \in Tasks : /\ task'[i].machine = task[i].machine
                         /\ task'[i] = task[i] \/ (Active(i) /\ ~Active(i)')
    BY <1>3 DEF Restart, Types, Row, Active
  <2>4. Placed'
    BY <2>1, <2>2, <2>3 DEF Placed
  <2>5. \A i \in Tasks : Active(i)' => Active(i)
    BY <2>3 DEF Active
  <2>6. \A i \in Tasks : i > lastId' => task'[i].status = "none" /\ pc'[i] = "none"
    BY <2>1, <2>3 DEF Served, Active
  <2> QED
    BY <2>1, <2>2, <2>3, <2>4, <2>5, <2>6 DEF Served, Working
<1> QED
  BY <1>1, <1>2, <1>3

(* The rows, the goroutines and the handlers of a deployment belong together  *)
(* in every reachable state, whatever the bounds and the number of machines.   *)
THEOREM ServedInductive == Spec => [](Types /\ Placed /\ Served)
<1>1. Init => Types /\ Placed /\ Served
  <2> SUFFICES ASSUME Init
               PROVE  Types /\ Placed /\ Served
    OBVIOUS
  <2>1. \A m \in Machines : [status |-> "Online", secret |-> m \notin Members] \in Machine
    BY DEF Machine, MachineStatus
  <2>2. NoForm \in [machine : Machines \cup {NoMachine}, status : MachineStatus,
                    secret : BOOLEAN]
    BY DEF NoForm, MachineStatus
  <2>3. [status |-> "none", machine |-> NoMachine] \in Row
    BY DEF Row
  <2>4. machine \in [Machines -> Machine]
    BY <2>1 DEF Init
  <2>5. task \in [Tasks -> Row] /\ caller \in [Callers -> Caller] /\ pc \in [Tasks -> Place]
    BY <2>3, IdleIsCaller DEF Init, Place
  <2>6. Types
    <3>1. cred \subseteq Machines /\ nodes \subseteq Machines /\ leaving \subseteq Members
      BY DEF Init
    <3>2. secret \in [Tasks -> BOOLEAN] /\ up \in BOOLEAN /\ ready \in BOOLEAN
      BY Zenon DEF Init
    <3>4. lastId \in 0..MaxTasks /\ crashes \in 0..MaxCrashes
      BY DeployAssumption DEF Init
    <3>3. form \in [machine : Machines \cup {NoMachine}, status : MachineStatus, secret : BOOLEAN]
      BY <2>2 DEF Init
    <3> QED
      BY <2>4, <2>5, <3>1, <3>2, <3>3, <3>4 DEF Types, Machine, Caller
  <2> QED
    BY <2>6, DeployAssumption DEF Init, Placed, Served, Working, Active, Idle, Tasks
<1>2. Types /\ Placed /\ Served /\ [Next]_vars => (Types /\ Placed /\ Served)'
  <2> SUFFICES ASSUME Types, Placed, Served, [Next]_vars
               PROVE  Types' /\ Placed' /\ Served'
    OBVIOUS
  <2>1. ASSUME NEW c \in Callers, Ask(c) \/ Request(c)
        PROVE  Types' /\ Placed' /\ Served'
    BY <2>1, HandlerTypes, HandlerServed
  <2>2. ASSUME NEW i \in Tasks, Run(i)
        PROVE  Types' /\ Placed' /\ Served'
    BY <2>2, RunTypes, RunServed
  <2>3. ASSUME (\E m \in Machines : Administer(m)) \/ EditSave \/ Crash \/ Restart \/ BecomeReady
        PROVE  Types' /\ Placed' /\ Served'
    BY <2>3, RowTypes, ProcessTypes, ElsewhereServed
  <2>4. CASE UNCHANGED vars
    BY <2>4 DEF vars, dbVars, procVars, Types, Placed, Served, Working, Active
  <2> QED
    BY <2>1, <2>2, <2>3, <2>4 DEF Next
<1> QED
  BY <1>1, <1>2, PTL DEF Spec

(* No two deployments ever work on one machine.                                *)
THEOREM OneDeploymentAlways == Spec => []OneDeployment
<1>1. Served => OneDeployment
  BY DEF Served, OneDeployment
<1> QED
  BY <1>1, ServedInductive, PTL

----------------------------------------------------------------------------
(* Keys.  An edit may bring back what a row held when it was read, so that     *)
(* must have been a way in as well; credentials are never deleted.              *)

FormKeeps ==
    form # NoForm /\ form.machine \notin Members => form.secret \/ form.machine \in cred

Keys == KeysNeverLost /\ FormKeeps

LEMMA KeysStep ==
    ASSUME Types, Placed, Keys, Next
    PROVE  Keys'
<1> USE DEF KeysNeverLost, FormKeeps, Exists
<1>1. ASSUME UNCHANGED <<machine, form>>, cred' = cred
      PROVE  Keys'
  BY <1>1 DEF Keys
<1>2. ASSUME NEW c \in Callers, Ask(c) \/ Request(c)
      PROVE  Keys'
  <2>1. UNCHANGED <<machine, form>> /\ cred' = cred
    BY <1>2 DEF Ask, Request, AskDeploy, AgentConnects, AcquireSlot, CreateTask, CreateRefused,
                FirstLog, HandlerRest, dbVars
  <2> QED
    BY <1>1, <2>1
<1>3. ASSUME NEW i \in Tasks, Run(i)
      PROVE  Keys'
  <2> USE DEF RunRest
  <2>1. CASE Load(i) \/ Start(i) \/ FindKeys(i) \/ Deploy(i) \/ DeployPanics(i)
             \/ Closes(i, "succeed", "succeeded") \/ Closes(i, "close", "failed")
    BY <1>1, <2>1 DEF Load, Start, FindKeys, Deploy, DeployPanics, Closes
  <2>2. CASE MarkDeploying(i) \/ MarkDeployed(i) \/ MarkFailed(i)
    <3>1. form' = form /\ cred' = cred
      BY <2>2 DEF MarkDeploying, MarkDeployed, MarkFailed
    <3>2. \A m \in Machines : machine'[m].secret = machine[m].secret /\ (Exists(m)' => Exists(m))
      <4>1. machine' = machine
            \/ \E s \in MachineStatus : machine' = WithStatus(task[i].machine, s)
        BY <2>2 DEF MarkDeploying, MarkDeployed, MarkFailed, Writes, MachineStatus
      <4>2. ASSUME NEW s, NEW n, machine' = [machine EXCEPT ![n].status = s], Exists(n),
                   NEW m \in Machines
            PROVE  machine'[m].secret = machine[m].secret /\ (Exists(m)' => Exists(m))
        BY <4>2 DEF Types
      <4> QED
        BY <4>1, <4>2 DEF WithStatus
    <3> QED
      BY <3>1, <3>2 DEF Keys
  <2>3. CASE SaveCredential(i)
    <3> DEFINE m == task[i].machine
    <3>1. form' = form
      BY <2>3 DEF SaveCredential
    <3>2. \/ machine' = machine /\ cred' = cred
          \/ /\ cred' = cred \cup {m} /\ \A n \in Machines : n # m => machine'[n] = machine[n]
      BY <2>3 DEF SaveCredential, Writes, Types
    <3> QED
      BY <3>1, <3>2 DEF Keys
  <2> QED
    BY <1>3, <2>1, <2>2, <2>3 DEF Run
<1>4. ASSUME NEW m \in Machines, Administer(m)
      PROVE  Keys'
  <2> USE DEF RowRest
  <2>1. CASE AddMachine(m)
    <3>1. /\ UNCHANGED <<form, cred>>
          /\ machine'[m].secret = (m \notin Members)
          /\ \A n \in Machines : n # m => machine'[n] = machine[n]
      BY <2>1 DEF AddMachine, Types
    <3> QED
      BY <3>1 DEF Keys
  <2>2. CASE DeleteMachine(m) \/ RemoveMember(m)
    <3>1. /\ UNCHANGED <<form, cred>>
          /\ \A n \in Machines : machine'[n] = machine[n] \/ machine'[n].status = "absent"
      BY <2>2 DEF DeleteMachine, RemoveMember, Types
    <3> QED
      BY <3>1 DEF Keys
  <2>3. CASE RemoveNode(m)
    BY <1>1, <2>3 DEF RemoveNode
  <2>4. CASE EditRead(m)
    <3>1. form' = [machine |-> m, status |-> machine[m].status, secret |-> machine[m].secret]
          /\ Exists(m) /\ UNCHANGED <<machine, cred>>
      BY <2>4 DEF EditRead
    <3> QED
      BY <3>1 DEF Keys
  <2> QED
    BY <1>4, <2>1, <2>2, <2>3, <2>4 DEF Administer
<1>5. ASSUME EditSave
      PROVE  Keys'
  <2>1. form # NoForm /\ form' = NoForm /\ cred' = cred
    BY <1>5 DEF EditSave, RowRest
  <2>2. \A n \in Machines \ Members :
           machine'[n] = machine[n]
           \/ (n = form.machine /\ (machine'[n].secret = form.secret \/ machine'[n].secret))
    BY <1>5 DEF EditSave, Types
  <2> QED
    BY <2>1, <2>2 DEF Keys
<1>6. ASSUME Crash
      PROVE  Keys'
  BY <1>6 DEF Crash, dbVars, Keys
<1>7. ASSUME Restart \/ BecomeReady
      PROVE  Keys'
  BY <1>1, <1>7 DEF Restart, BecomeReady, ProcRest
<1> QED
  BY <1>2, <1>3, <1>4, <1>5, <1>6, <1>7 DEF Next

(* An SSH machine never loses its last way in.                                  *)
THEOREM KeysKept == Spec => []KeysNeverLost
<1>1. Init => Keys
  <2>1. Init => \A m \in Machines \ Members : machine[m].secret
    <3>1. ASSUME Init, NEW m \in Machines \ Members
          PROVE  machine[m].secret
      <4>1. machine[m] = [status |-> "Online", secret |-> m \notin Members]
        BY <3>1 DEF Init
      <4>2. machine[m].secret = (m \notin Members)
        BY <4>1
      <4> QED
        BY <4>2
    <3> QED
      BY <3>1
  <2>2. Init => form = NoForm
    BY DEF Init
  <2> QED
    BY <2>1, <2>2 DEF Keys, KeysNeverLost, FormKeeps
<1>2. Types /\ Placed /\ Keys /\ [Next]_vars => Keys'
  <2>1. CASE Next
    BY <2>1, KeysStep
  <2>2. ASSUME Keys, UNCHANGED vars
        PROVE  Keys'
    BY <2>2 DEF vars, dbVars, Keys, KeysNeverLost, FormKeeps, Exists
  <2> QED
    BY <2>1, <2>2
<1>3. Keys => KeysNeverLost
  BY DEF Keys
<1> QED
  BY <1>1, <1>2, <1>3, ServedInductive, PTL DEF Spec

----------------------------------------------------------------------------
(* Slots.  A slot belongs to a handler, and then to a goroutine.               *)
Holders == {c \in Callers : caller[c].at \in {"slot", "created"}}
Workers == {i \in Tasks : Working(i)}

SlotInv == IsFiniteSet(Holders) /\ SlotsExact /\ slots <= Slots

LEMMA WorkersFinite == IsFiniteSet(Workers) /\ Cardinality(Workers) \in Nat
<1>1. IsFiniteSet(Tasks) /\ Workers \subseteq Tasks
  BY FS_Interval, DeployAssumption DEF Tasks, Workers
<1> QED
  BY <1>1, FS_Subset, FS_CardinalityType

LEMMA SlotCount ==
    ASSUME SlotInv
    PROVE  slots = Cardinality(Holders) + Cardinality(Workers) /\ slots \in 0..Slots
           /\ Cardinality(Holders) \in Nat
<1>1. slots = Cardinality(Holders) + Cardinality(Workers)
  BY DEF SlotInv, SlotsExact, Holders, Workers
<1>2. Cardinality(Holders) \in Nat
  BY FS_CardinalityType DEF SlotInv
<1> QED
  BY <1>1, <1>2, WorkersFinite, DeployAssumption DEF SlotInv

(* A step that takes or gives back as many slots as it gains or loses holders   *)
(* and workers.                                                                 *)
LEMMA SlotsFollow ==
    ASSUME IsFiniteSet(Holders'), slots' = Cardinality(Holders') + Cardinality(Workers'),
           slots' <= Slots
    PROVE  SlotInv'
BY DEF SlotInv, SlotsExact, Holders, Workers

LEMMA SlotsStay ==
    ASSUME SlotInv, Holders' = Holders, Workers' = Workers, slots' = slots
    PROVE  SlotInv'
BY SlotCount, SlotsFollow DEF SlotInv

LEMMA HolderLeaves ==
    ASSUME SlotInv, NEW c \in Holders, Holders' = Holders \ {c}, Workers' = Workers,
           slots' = slots - 1
    PROVE  SlotInv'
<1>1. IsFiniteSet(Holders') /\ Cardinality(Holders') = Cardinality(Holders) - 1
  BY FS_RemoveElement DEF SlotInv
<1> QED
  BY <1>1, SlotCount, WorkersFinite, SlotsFollow, DeployAssumption

LEMMA HandlerSlots ==
    ASSUME Types, Placed, Served, SlotInv, NEW c \in Callers, Ask(c) \/ Request(c)
    PROVE  SlotInv'
<1>1. ASSUME NEW m \in Machines, AskDeploy(c, m) \/ AgentConnects(c, m)
      PROVE  SlotInv'
  <2>1. caller[c] = Idle /\ UNCHANGED <<slots, pc>>
        /\ caller' = [caller EXCEPT ![c] = [at |-> "asked", machine |-> m, task |-> 0]]
    BY <1>1 DEF AskDeploy, AgentConnects, Asks
  <2>2. Holders' = Holders /\ Workers' = Workers
    BY <2>1 DEF Holders, Workers, Working, Idle, Types
  <2> QED
    BY <2>1, <2>2, SlotsStay
<1>2. CASE AcquireSlot(c)
  <2>1. caller[c].at = "asked" /\ UNCHANGED pc
    BY <1>2 DEF AcquireSlot
  <2>2. Workers' = Workers /\ c \notin Holders
    BY <2>1 DEF Workers, Working, Holders
  <2>3. CASE slots < Slots /\ slots' = slots + 1 /\ caller' = [caller EXCEPT ![c].at = "slot"]
    <3>1. Holders' = Holders \cup {c}
      BY <2>3 DEF Holders, Types
    <3>2. IsFiniteSet(Holders') /\ Cardinality(Holders') = Cardinality(Holders) + 1
      BY <2>2, <3>1, FS_AddElement DEF SlotInv
    <3> QED
      BY <2>2, <2>3, <3>2, SlotCount, WorkersFinite, SlotsFollow, DeployAssumption
  <2>4. CASE slots = Slots /\ Answers(c) /\ UNCHANGED slots
    <3>1. Holders' = Holders
      BY <2>1, <2>4 DEF Holders, Answers, Idle, Types
    <3> QED
      BY <2>2, <2>4, <3>1, SlotsStay
  <2> QED
    BY <1>2, <2>3, <2>4 DEF AcquireSlot
<1>3. CASE CreateTask(c) \/ CreateRefused(c)
  <2>1. caller[c].at = "slot" /\ Workers' = Workers
    BY <1>3 DEF CreateTask, CreateRefused, Workers, Working
  <2>2. CASE Holds(c, lastId + 1) /\ UNCHANGED slots
    <3>1. Holders' = Holders
      BY <2>1, <2>2 DEF Holders, Holds, Types
    <3> QED
      BY <2>1, <2>2, <3>1, SlotsStay
  <2>3. CASE Answers(c) /\ Frees
    <3>1. Holders' = Holders \ {c} /\ c \in Holders
      BY <2>1, <2>3 DEF Holders, Answers, Idle, Types
    <3> QED
      BY <2>1, <2>3, <3>1, HolderLeaves DEF Frees
  <2> QED
    BY <1>3, <2>2, <2>3 DEF CreateTask, CreateRefused
<1>4. CASE FirstLog(c)
  <2> DEFINE n == caller[c].task
  <2>1. n \in Tasks /\ pc[n] = "none" /\ caller[c].at = "created" /\ Answers(c)
    BY <1>4 DEF FirstLog, Placed, Served
  <2>2. Holders' = Holders \ {c} /\ c \in Holders
    BY <2>1 DEF Holders, Answers, Idle, Types
  <2> HIDE DEF n
  <2>3. CASE pc' = [pc EXCEPT ![n] = "load"] /\ UNCHANGED slots
    <3>1. Workers' = Workers \cup {n} /\ n \notin Workers
      BY <2>1, <2>3 DEF Workers, Working, Types
    <3>2. Cardinality(Workers') = Cardinality(Workers) + 1
      BY <3>1, FS_AddElement, WorkersFinite
    <3>3. IsFiniteSet(Holders') /\ Cardinality(Holders') = Cardinality(Holders) - 1
      BY <2>2, FS_RemoveElement DEF SlotInv
    <3> QED
      BY <2>3, <3>2, <3>3, SlotCount, WorkersFinite, SlotsFollow
  <2>4. CASE pc' = [pc EXCEPT ![n] = "gone"] /\ Frees
    <3>1. Workers' = Workers
      BY <2>1, <2>4 DEF Workers, Working, Types
    <3> QED
      BY <2>2, <2>4, <3>1, HolderLeaves DEF Frees
  <2> QED
    BY <1>4, <2>3, <2>4 DEF FirstLog, n
<1> QED
  BY <1>1, <1>2, <1>3, <1>4 DEF Ask, Request

LEMMA RunSlots ==
    ASSUME Types, SlotInv, NEW i \in Tasks, Run(i)
    PROVE  SlotInv'
<1> USE DEF Place, Moves, Leaves, Working
<1>1. PICK to \in Place \ {"none"} :
         pc' = [pc EXCEPT ![i] = to] /\ slots' = IF to = "gone" THEN slots - 1 ELSE slots
  <2>1. CASE Load(i)
    BY <2>1 DEF Load, Frees
  <2>2. CASE Start(i) \/ MarkDeploying(i) \/ MarkDeployed(i) \/ MarkFailed(i)
    BY <2>2 DEF Start, MarkDeploying, MarkDeployed, MarkFailed, Writes
  <2>3. CASE FindKeys(i) \/ Deploy(i) \/ DeployPanics(i)
    BY <2>3 DEF FindKeys, Deploy, DeployPanics
  <2>4. CASE SaveCredential(i)
    BY <2>4 DEF SaveCredential, Writes
  <2>5. CASE Closes(i, "succeed", "succeeded") \/ Closes(i, "close", "failed")
    BY <2>5 DEF Closes, Frees
  <2> QED
    BY <2>1, <2>2, <2>3, <2>4, <2>5 DEF Run
<1>2. i \in Workers /\ caller' = caller
  BY RunShape DEF Workers
<1>3. Holders' = Holders
  BY <1>2 DEF Holders
<1>4. CASE to = "gone"
  <2>1. Workers' = Workers \ {i}
    BY <1>1, <1>4 DEF Workers, Types
  <2>2. Cardinality(Workers') = Cardinality(Workers) - 1
    BY <1>2, <2>1, FS_RemoveElement, WorkersFinite
  <2> QED
    BY <1>1, <1>3, <1>4, <2>2, SlotCount, WorkersFinite, SlotsFollow, DeployAssumption DEF SlotInv
<1>5. CASE to # "gone"
  <2>1. Workers' = Workers
    BY <1>1, <1>2, <1>5 DEF Workers, Types
  <2> QED
    BY <1>1, <1>3, <1>5, <2>1, SlotsStay
<1> QED
  BY <1>4, <1>5

LEMMA SlotStep ==
    ASSUME Types, Placed, Served, SlotInv, [Next]_vars
    PROVE  SlotInv'
<1>1. ASSUME UNCHANGED <<slots, caller, pc>>
      PROVE  SlotInv'
  BY <1>1, SlotsStay DEF Holders, Workers, Working
<1>2. CASE (\E m \in Machines : Administer(m)) \/ EditSave \/ Restart \/ BecomeReady
  BY <1>1, <1>2 DEF Administer, AddMachine, DeleteMachine, RemoveNode, RemoveMember, EditRead,
                    EditSave, Restart, BecomeReady, RowRest, ProcRest
<1>3. CASE UNCHANGED vars
  BY <1>1, <1>3 DEF vars
<1>4. CASE Crash
  <2>1. Holders' = {} /\ Workers' = {} /\ slots' = 0
    BY <1>4 DEF Crash, Holders, Workers, Working, Idle
  <2> QED
    BY <2>1, FS_EmptySet, SlotsFollow, DeployAssumption
<1> QED
  BY <1>2, <1>3, <1>4, HandlerSlots, RunSlots DEF Next

(* Deployments of one machine exclude each other, and no path through failures,  *)
(* panics and crashes leaks a slot or gives one back twice, however many slots,  *)
(* handlers and tasks there are.                                                 *)
THEOREM DeploymentsAlwaysExact == Spec => []DeploymentsExact
<1>1. Init => SlotInv
  <2> SUFFICES ASSUME Init PROVE SlotInv
    OBVIOUS
  <2>1. Holders = {} /\ Workers = {} /\ slots = 0
    BY DEF Init, Holders, Workers, Working, Idle
  <2> QED
    BY <2>1, FS_EmptySet, DeployAssumption DEF SlotInv, SlotsExact, Holders, Workers
<1>2. Types /\ Placed /\ Served /\ SlotInv /\ [Next]_vars => SlotInv'
  BY SlotStep
<1>3. Types /\ SlotInv /\ OneDeployment => DeploymentsExact
  BY SlotCount DEF DeploymentsExact, TypeOK, SlotInv
<1> QED
  BY <1>1, <1>2, <1>3, ServedInductive, OneDeploymentAlways, PTL DEF Spec

----------------------------------------------------------------------------
(* Stranded tasks.  When the database answers, a row that is active has its     *)
(* handler or its goroutine; when it does not, there are behaviours that leave   *)
(* one behind (NodeDeployStranded).                                              *)
LEMMA ServedByOne ==
    ASSUME Types, Placed, Served, NoStrandedTask, ~DbMayFail, [Next]_vars
    PROVE  NoStrandedTask'
<1>1. ASSUME UNCHANGED <<task, caller, pc, up>>
      PROVE  NoStrandedTask'
  BY <1>1 DEF NoStrandedTask, Active, Working
<1>2. CASE UNCHANGED vars \/ (\E m \in Machines : Administer(m)) \/ EditSave \/ BecomeReady
  BY <1>1, <1>2 DEF vars, dbVars, procVars, Administer, AddMachine, DeleteMachine, RemoveNode,
                    RemoveMember, EditRead, EditSave, BecomeReady, RowRest, ProcRest
<1>3. CASE Crash
  BY <1>3 DEF Crash, NoStrandedTask
<1>4. CASE Restart
  <2>1. \A i \in Tasks : ~Active(i)'
    BY <1>4 DEF Restart, Active, Types, Row
  <2> QED
    BY <2>1 DEF NoStrandedTask
<1>5. ASSUME NEW c \in Callers, Ask(c) \/ Request(c)
      PROVE  NoStrandedTask'
  <2>1. up' = up /\ \A d \in Callers : d # c => caller'[d] = caller[d]
    BY <1>5 DEF Ask, Request, AskDeploy, AgentConnects, AcquireSlot, CreateTask, CreateRefused,
                FirstLog, HandlerRest, procVars, Asks, Answers, Holds, Types
  <2>2. CASE UNCHANGED <<task, pc>> /\ caller[c].at # "created"
    BY <2>1, <2>2 DEF NoStrandedTask, Active, Working
  <2>3. CASE CreateTask(c)
    <3> DEFINE n == lastId + 1
    <3>1. /\ n \in Tasks /\ caller[c].at = "slot" /\ pc' = pc
          /\ caller' = [caller EXCEPT ![c] = [at |-> "created", machine |-> caller[c].machine, task |-> n]]
          /\ task' = [task EXCEPT ![n] = [status |-> "pending", machine |-> caller[c].machine]]
      BY <2>3, DeployAssumption DEF CreateTask, Holds, Inserted, Types, Tasks
    <3> HIDE DEF n
    <3>2. caller'[c].at = "created" /\ caller'[c].task = n
      BY <3>1 DEF Types
    <3>3. \A i \in Tasks : i # n => task'[i] = task[i]
      BY <3>1 DEF Types
    <3> QED
      BY <2>1, <3>1, <3>2, <3>3 DEF NoStrandedTask, Active, Working
  <2>4. CASE FirstLog(c)
    <3> DEFINE n == caller[c].task
    <3>1. /\ caller[c].at = "created" /\ n \in Tasks /\ pc' = [pc EXCEPT ![n] = "load"] /\ task' = task
      BY <2>4 DEF FirstLog, Placed, dbVars
    <3>2. pc'[n] = "load" /\ \A i \in Tasks : i # n => pc'[i] = pc[i]
      BY <3>1 DEF Types
    <3> QED
      BY <2>1, <3>1, <3>2 DEF NoStrandedTask, Active, Working
  <2> QED
    BY <1>5, <2>2, <2>3, <2>4 DEF Ask, Request, AskDeploy, AgentConnects, AcquireSlot, CreateRefused,
                                  dbVars, Idle
<1>6. ASSUME NEW i \in Tasks, Run(i)
      PROVE  NoStrandedTask'
  <2>1. UNCHANGED <<caller, up>> /\ \A j \in Tasks : j # i => task'[j] = task[j] /\ pc'[j] = pc[j]
    BY <1>6, RunShape DEF Types
  <2>2. Working(i)' \/ ~Active(i)'
    <3>1. CASE Closes(i, "succeed", "succeeded") \/ Closes(i, "close", "failed")
      BY <3>1 DEF Closes, Active, Types, Row
    <3>2. CASE Load(i) \/ Start(i) \/ MarkDeploying(i) \/ FindKeys(i)
      BY <3>2 DEF Load, Start, MarkDeploying, FindKeys, Writes, Moves, Working, Types
    <3>3. CASE Deploy(i) \/ SaveCredential(i) \/ MarkDeployed(i) \/ MarkFailed(i) \/ DeployPanics(i)
      BY <3>3 DEF Deploy, SaveCredential, MarkDeployed, MarkFailed, DeployPanics, Writes, Moves,
                  Working, Types
    <3> QED
      BY <1>6, <3>1, <3>2, <3>3 DEF Run
  <2> QED
    BY <2>1, <2>2 DEF NoStrandedTask, Active, Working
<1> QED
  BY <1>2, <1>3, <1>4, <1>5, <1>6 DEF Next

(* A task that refuses every further deployment of its machine is being served.  *)
THEOREM NobodyStranded ==
    ASSUME ~DbMayFail
    PROVE  Spec => []NoStrandedTask
<1>1. Init => NoStrandedTask
  BY DEF Init, NoStrandedTask, Active
<1>2. Types /\ Placed /\ Served /\ NoStrandedTask /\ [Next]_vars => NoStrandedTask'
  BY ServedByOne
<1> QED
  BY <1>1, <1>2, ServedInductive, PTL DEF Spec

----------------------------------------------------------------------------
(* What the rows tell.  As in the run NodeDeployAnswering: the database answers, *)
(* and nobody edits or removes a machine meanwhile.                              *)
Answering == ~DbMayFail /\ ~LeavesAllowed /\ ~EditsAllowed

Undisturbed == form = NoForm /\ leaving = {} /\ \A m \in Machines : Exists(m)

CrashedWhenDown == ~up => crashes # 0

(* An active task is the last one of its machine.                                *)
ActiveIsLast ==
    /\ \A i \in Tasks : i > lastId => task[i].machine = NoMachine
    /\ \A i, j \in Tasks : Active(i) /\ task[j].machine = task[i].machine => j <= i

(* A goroutine that is about to close its task has set the machine's status, ...  *)
StatusBeforeRow ==
    \A i \in Tasks :
        /\ pc[i] = "succeed" => machine[task[i].machine].status = "Deployed"
        /\ pc[i] = "close" => machine[task[i].machine].status = "Failed"

(* ... and one that records a success has seen the node come.                     *)
NodeBeforeStatus ==
    /\ \A i \in Tasks : pc[i] \in {"save", "deployed"} => task[i].machine \in nodes
    /\ \A m \in Machines : machine[m].status = "Deployed" => m \in nodes

DeployingIsServed ==
    \A m \in Machines : machine[m].status = "Deploying" =>
        crashes # 0 \/ \E i \in Tasks : Working(i) /\ task[i].machine = m

RowsInv ==
    /\ Undisturbed /\ CrashedWhenDown /\ ActiveIsLast
    /\ StatusBeforeRow /\ NodeBeforeStatus /\ DeployingIsServed /\ StatusTellsOutcome

(* What a goroutine's step can do to its machine.                                 *)
LEMMA RunEffect ==
    ASSUME Answering, Types, Placed, RowsInv, NEW i \in Tasks, Run(i)
    PROVE  LET m == task[i].machine IN
           /\ UNCHANGED <<lastId, leaving, form, up, crashes>>
           /\ nodes \subseteq nodes'
           /\ \A n \in Machines : n # m => machine'[n] = machine[n]
           /\ \/ /\ pc'[i] \in {"start", "mark", "keys", "deploy", "fail"}
                 /\ machine'[m].status \in {machine[m].status, "Deploying"}
              \/ /\ pc'[i] \in {"save", "deployed"} /\ m \in nodes'
                 /\ machine'[m].status \in {machine[m].status, "Deployed"}
              \/ pc'[i] = "succeed" /\ m \in nodes' /\ machine'[m].status = "Deployed"
              \/ pc'[i] = "close" /\ machine'[m].status = "Failed"
              \/ /\ pc'[i] = "gone" /\ machine' = machine /\ ~Active(i)'
                 /\ \/ pc[i] = "succeed" /\ (Active(i) => task'[i].status = "succeeded")
                    \/ pc[i] = "close" /\ (Active(i) => task'[i].status = "failed")
<1> DEFINE m == task[i].machine
<1>1. m \in Machines /\ Exists(m)
  BY RunShape DEF Working, Placed, RowsInv, Undisturbed
<1>2. UNCHANGED <<lastId, leaving, form, up, crashes>>
  BY DEF Run, Load, Start, MarkDeploying, FindKeys, Deploy, SaveCredential, MarkDeployed,
         MarkFailed, Closes, DeployPanics, RunRest, procVars
<1>3. nodes \subseteq nodes'
  BY DEF Run, Load, Start, MarkDeploying, FindKeys, Deploy, SaveCredential, MarkDeployed,
         MarkFailed, Closes, DeployPanics
<1>4. \A s : /\ WithStatus(m, s)[m].status = s
             /\ \A n \in Machines : n # m => WithStatus(m, s)[n] = machine[n]
  BY <1>1 DEF WithStatus, Types
<1> HIDE DEF m
<1>5. ASSUME NEW to, pc' = [pc EXCEPT ![i] = to]
      PROVE  pc'[i] = to
  BY <1>5 DEF Types
<1>6. CASE Load(i) \/ Start(i) \/ FindKeys(i) \/ DeployPanics(i)
  <2>1. pc'[i] \in {"start", "mark", "keys", "deploy", "fail"} /\ machine' = machine
    BY <1>1, <1>5, <1>6 DEF Answering, Load, Start, FindKeys, DeployPanics, Writes, Moves, m
  <2> QED
    BY <1>2, <1>3, <2>1 DEF m
<1>7. CASE MarkDeploying(i)
  <2>1. pc'[i] = "keys" /\ machine' = WithStatus(m, "Deploying")
    BY <1>5, <1>7 DEF Answering, MarkDeploying, Writes, Moves, m
  <2> QED
    BY <1>2, <1>3, <1>4, <2>1 DEF m
<1>8. CASE Deploy(i)
  <2>1. machine' = machine
        /\ (pc'[i] = "fail" \/ (pc'[i] \in {"save", "deployed"} /\ m \in nodes'))
    BY <1>5, <1>8 DEF Deploy, Moves, m
  <2> QED
    BY <1>2, <1>3, <2>1 DEF m
<1>9. CASE SaveCredential(i)
  <2>1. m \in nodes
    BY <1>9 DEF SaveCredential, RowsInv, NodeBeforeStatus, m
  <2>2. pc'[i] = "deployed"
        /\ machine' = [machine EXCEPT ![m] = [status |-> "Deployed", secret |-> FALSE]]
    BY <1>1, <1>5, <1>9 DEF Answering, SaveCredential, Writes, Moves, m
  <2>3. machine'[m].status = "Deployed" /\ \A n \in Machines : n # m => machine'[n] = machine[n]
    BY <1>1, <2>2 DEF Types
  <2> QED
    BY <1>2, <1>3, <2>1, <2>2, <2>3 DEF m
<1>10. CASE MarkDeployed(i)
  <2>1. m \in nodes
    BY <1>10 DEF MarkDeployed, RowsInv, NodeBeforeStatus, m
  <2>2. pc'[i] = "succeed" /\ machine' = WithStatus(m, "Deployed")
    BY <1>5, <1>10 DEF Answering, MarkDeployed, Moves, m
  <2> QED
    BY <1>2, <1>3, <1>4, <2>1, <2>2 DEF m
<1>11. CASE MarkFailed(i)
  <2>1. pc'[i] = "close" /\ machine' = WithStatus(m, "Failed")
    BY <1>5, <1>11 DEF Answering, MarkFailed, Moves, m
  <2> QED
    BY <1>2, <1>3, <1>4, <2>1 DEF m
<1>12. CASE Closes(i, "succeed", "succeeded") \/ Closes(i, "close", "failed")
  <2>1. pc'[i] = "gone" /\ machine' = machine
    BY <1>5, <1>12 DEF Closes, Leaves
  <2>2. \/ pc[i] = "succeed" /\ task' = IF Active(i) THEN [task EXCEPT ![i].status = "succeeded"] ELSE task
        \/ pc[i] = "close" /\ task' = IF Active(i) THEN [task EXCEPT ![i].status = "failed"] ELSE task
    BY <1>12 DEF Answering, Closes
  <2>3. ~Active(i)' /\ \/ pc[i] = "succeed" /\ (Active(i) => task'[i].status = "succeeded")
                       \/ pc[i] = "close" /\ (Active(i) => task'[i].status = "failed")
    BY <2>2 DEF Active, Types, Row
  <2> QED
    BY <1>2, <1>3, <2>1, <2>3 DEF m
<1> QED
  BY <1>6, <1>7, <1>8, <1>9, <1>10, <1>11, <1>12 DEF Run

LEMMA RunRows ==
    ASSUME Answering, Types, Types', Placed, Served, Served', RowsInv, NEW i \in Tasks, Run(i)
    PROVE  RowsInv'
<1> DEFINE m == task[i].machine
<1>1. /\ Working(i) /\ Active(i) /\ m \in Machines
      /\ \A j \in Tasks : task'[j].machine = task[j].machine
      /\ \A j \in Tasks : j # i => task'[j] = task[j] /\ pc'[j] = pc[j]
  <2>1. Working(i) /\ Active(i) /\ m \in Machines
    BY RunShape DEF Served, Working, Placed
  <2>2. \/ task' = task
        \/ \E s \in {"running", "succeeded", "failed"} : task' = [task EXCEPT ![i].status = s]
    BY RunShape
  <2>3. \A j \in Tasks : task'[j].machine = task[j].machine
    <3>1. \A s : [task[i] EXCEPT !.status = s].machine = task[i].machine
      BY DEF Types, Row
    <3>2. ASSUME NEW s, task' = [task EXCEPT ![i].status = s], NEW j \in Tasks
          PROVE  task'[j].machine = task[j].machine
      BY <3>1, <3>2 DEF Types
    <3> QED
      BY <2>2, <3>2
  <2>4. \A j \in Tasks : j # i => task'[j] = task[j] /\ pc'[j] = pc[j]
    BY RunShape DEF Types
  <2> QED
    BY <2>1, <2>3, <2>4
<1>2. /\ UNCHANGED <<lastId, leaving, form, up, crashes>>
      /\ nodes \subseteq nodes'
      /\ \A n \in Machines : n # m => machine'[n] = machine[n]
  BY RunEffect
<1>3. \/ /\ pc'[i] \in {"start", "mark", "keys", "deploy", "fail"}
         /\ machine'[m].status \in {machine[m].status, "Deploying"}
      \/ /\ pc'[i] \in {"save", "deployed"} /\ m \in nodes'
         /\ machine'[m].status \in {machine[m].status, "Deployed"}
      \/ pc'[i] = "succeed" /\ m \in nodes' /\ machine'[m].status = "Deployed"
      \/ pc'[i] = "close" /\ machine'[m].status = "Failed"
      \/ /\ pc'[i] = "gone" /\ machine' = machine /\ ~Active(i)'
         /\ \/ pc[i] = "succeed" /\ task'[i].status = "succeeded"
            \/ pc[i] = "close" /\ task'[i].status = "failed"
  BY <1>1, RunEffect
<1> HIDE DEF m
<1>4. \A j \in Tasks : Active(j)' => Active(j)
  BY <1>1 DEF Active
<1>5. \A j \in Tasks : j # i /\ Working(j) => task[j].machine # m
  BY <1>1 DEF Served, m
<1>6. Undisturbed' /\ CrashedWhenDown'
  BY <1>2, <1>3 DEF RowsInv, Undisturbed, CrashedWhenDown, Exists
<1>7. ActiveIsLast'
  BY <1>1, <1>2, <1>4 DEF RowsInv, ActiveIsLast
<1>8. StatusBeforeRow'
  <2> SUFFICES ASSUME NEW j \in Tasks
               PROVE  /\ pc'[j] = "succeed" => machine'[task'[j].machine].status = "Deployed"
                      /\ pc'[j] = "close" => machine'[task'[j].machine].status = "Failed"
    BY DEF StatusBeforeRow
  <2>1. CASE j = i
    BY <1>1, <1>3, <2>1 DEF m
  <2>2. CASE j # i
    BY <1>1, <1>2, <1>5, <2>2 DEF RowsInv, StatusBeforeRow, Working, Placed
  <2> QED
    BY <2>1, <2>2
<1>9. NodeBeforeStatus'
  <2>1. ASSUME NEW j \in Tasks, pc'[j] \in {"save", "deployed"}
        PROVE  task'[j].machine \in nodes'
    BY <1>1, <1>2, <1>3, <2>1 DEF RowsInv, NodeBeforeStatus, m
  <2>2. ASSUME NEW n \in Machines, machine'[n].status = "Deployed"
        PROVE  n \in nodes'
    BY <1>2, <1>3, <2>2 DEF RowsInv, NodeBeforeStatus
  <2> QED
    BY <2>1, <2>2 DEF NodeBeforeStatus
<1>10. DeployingIsServed'
  <2> SUFFICES ASSUME NEW n \in Machines, machine'[n].status = "Deploying"
               PROVE  crashes' # 0 \/ \E j \in Tasks : Working(j)' /\ task'[j].machine = n
    BY DEF DeployingIsServed
  <2>1. CASE n = m
    <3>1. pc'[i] # "gone"
      BY <1>3, <2>1 DEF RowsInv, StatusBeforeRow, m
    <3>2. Working(i)'
      BY <1>3, <3>1 DEF Working
    <3> QED
      BY <1>1, <2>1, <3>2 DEF m
  <2>2. CASE n # m
    BY <1>1, <1>2, <2>2 DEF RowsInv, DeployingIsServed, Working, m
  <2> QED
    BY <2>1, <2>2
<1>11. StatusTellsOutcome'
  <2> SUFFICES ASSUME NEW n \in Machines, NEW j \in Tasks,
                      crashes' = 0, LastTask(n, j)', ~ActiveTask(n)'
               PROVE  machine'[n].status = IF task'[j].status = "succeeded" THEN "Deployed" ELSE "Failed"
    BY DEF StatusTellsOutcome
  <2>1. crashes = 0 /\ LastTask(n, j)
    BY <1>1, <1>2 DEF LastTask
  <2>2. CASE n = m
    <3>1. ~Active(i)'
      BY <1>1, <2>2 DEF ActiveTask, m
    <3>2. j = i
      BY <1>1, <2>1, <2>2 DEF LastTask, RowsInv, ActiveIsLast, m, Tasks
    <3>3. pc'[i] = "gone"
      BY <1>3, <3>1 DEF Served, Working
    <3> QED
      BY <1>3, <2>2, <3>2, <3>3 DEF RowsInv, StatusBeforeRow, m
  <2>3. CASE n # m
    <3>1. j # i /\ ~ActiveTask(n)
      BY <1>1, <2>1, <2>3 DEF LastTask, ActiveTask, Active, m
    <3> QED
      BY <1>1, <1>2, <2>1, <2>3, <3>1 DEF RowsInv, StatusTellsOutcome
  <2> QED
    BY <2>2, <2>3
<1> QED
  BY <1>6, <1>7, <1>8, <1>9, <1>10, <1>11 DEF RowsInv

LEMMA RowsUntouched ==
    ASSUME RowsInv, UNCHANGED <<task, lastId, machine, nodes, leaving, form, pc, up, crashes>>
    PROVE  RowsInv'
BY DEF RowsInv, Undisturbed, CrashedWhenDown, ActiveIsLast, StatusBeforeRow, NodeBeforeStatus,
       DeployingIsServed, StatusTellsOutcome, LastTask, ActiveTask, Active, Working, Exists

LEMMA HandlerRows ==
    ASSUME Answering, Types, Placed, Served, RowsInv, NEW c \in Callers, Ask(c) \/ Request(c)
    PROVE  RowsInv'
<1>1. CASE Ask(c) \/ AcquireSlot(c) \/ CreateRefused(c)
  BY <1>1, RowsUntouched DEF Ask, AskDeploy, AgentConnects, AcquireSlot, CreateRefused, HandlerRest,
                             dbVars, procVars
<1>2. CASE CreateTask(c)
  <2> DEFINE n == lastId + 1
             m == caller[c].machine
  <2>1. /\ n \in Tasks /\ lastId \in Nat /\ m \in Machines /\ ~ActiveTask(m)
        /\ task' = [task EXCEPT ![n] = [status |-> "pending", machine |-> m]]
        /\ UNCHANGED <<machine, nodes, leaving, form, pc, up, crashes>> /\ lastId' = n
    BY <1>2, DeployAssumption DEF CreateTask, Inserted, Types, Tasks, Placed, HandlerRest, procVars
  <2>2. task[n].machine = NoMachine /\ task[n].status = "none" /\ pc[n] = "none"
    BY <2>1 DEF RowsInv, ActiveIsLast, Served
  <2>3. /\ task'[n].machine = m /\ task'[n].status = "pending"
        /\ \A j \in Tasks : j # n => task'[j] = task[j]
    BY <2>1 DEF Types
  <2>4. NoMachine \notin Machines
    BY DeployAssumption DEF NoMachine
  <2>5. \A j \in Tasks : j > n => j > lastId
    BY <2>1 DEF Tasks
  <2> HIDE DEF n, m
  <2>6. ActiveIsLast'
    <3>1. ASSUME NEW i \in Tasks, i > lastId'
          PROVE  task'[i].machine = NoMachine
      <4>1. i > lastId /\ i # n
        BY <2>1, <2>5, <3>1 DEF n, Tasks
      <4> QED
        BY <2>3, <4>1 DEF RowsInv, ActiveIsLast
    <3>2. ASSUME NEW i \in Tasks, NEW j \in Tasks, Active(i)', task'[j].machine = task'[i].machine
          PROVE  j <= i
      <4>1. CASE i = n /\ j # n
        <5>1. task[j].machine # NoMachine
          BY <2>1, <2>3, <2>4, <3>2, <4>1
        <5>2. ~(j > lastId)
          BY <5>1 DEF RowsInv, ActiveIsLast
        <5> QED
          BY <2>1, <4>1, <5>2 DEF n, Tasks
      <4>2. CASE i # n /\ j = n
        BY <2>1, <2>3, <3>2, <4>2 DEF ActiveTask, Active
      <4>3. CASE i # n /\ j # n
        BY <2>3, <3>2, <4>3 DEF RowsInv, ActiveIsLast, Active
      <4>4. CASE i = n /\ j = n
        BY <4>4 DEF Tasks
      <4> QED
        BY <4>1, <4>2, <4>3, <4>4
    <3> QED
      BY <3>1, <3>2 DEF ActiveIsLast
  <2>7. \A i \in Tasks : pc[i] # "none" => task'[i] = task[i]
    BY <2>2, <2>3
  <2>8. StatusBeforeRow' /\ NodeBeforeStatus' /\ DeployingIsServed'
    BY <2>1, <2>7 DEF RowsInv, StatusBeforeRow, NodeBeforeStatus, DeployingIsServed, Working
  <2>9. StatusTellsOutcome'
    <3> SUFFICES ASSUME NEW k \in Machines, NEW j \in Tasks,
                        crashes' = 0, LastTask(k, j)', ~ActiveTask(k)'
                 PROVE  machine'[k].status = IF task'[j].status = "succeeded" THEN "Deployed" ELSE "Failed"
      BY DEF StatusTellsOutcome
    <3>1. k # m
      BY <2>1, <2>3 DEF ActiveTask, Active
    <3>2. j # n /\ LastTask(k, j) /\ ~ActiveTask(k)
      BY <2>2, <2>3, <2>4, <3>1 DEF LastTask, ActiveTask, Active
    <3> QED
      BY <2>1, <2>3, <3>2 DEF RowsInv, StatusTellsOutcome
  <2>10. Undisturbed' /\ CrashedWhenDown'
    BY <2>1 DEF RowsInv, Undisturbed, CrashedWhenDown, Exists
  <2> QED
    BY <2>6, <2>8, <2>9, <2>10 DEF RowsInv
<1>3. CASE FirstLog(c)
  <2> DEFINE n == caller[c].task
  <2>1. /\ n \in Tasks /\ pc[n] = "none" /\ pc' = [pc EXCEPT ![n] = "load"]
        /\ UNCHANGED <<task, lastId, machine, nodes, leaving, form, up, crashes>>
    BY <1>3 DEF Answering, FirstLog, Placed, Served, HandlerRest, dbVars, procVars
  <2> HIDE DEF n
  <2>2. \A i \in Tasks : pc'[i] = pc[i] \/ (pc[i] = "none" /\ pc'[i] = "load")
    BY <2>1 DEF Types
  <2>3. StatusBeforeRow' /\ NodeBeforeStatus' /\ DeployingIsServed'
    BY <2>1, <2>2 DEF RowsInv, StatusBeforeRow, NodeBeforeStatus, DeployingIsServed, Working
  <2>4. Undisturbed' /\ CrashedWhenDown' /\ ActiveIsLast' /\ StatusTellsOutcome'
    BY <2>1 DEF RowsInv, Undisturbed, CrashedWhenDown, ActiveIsLast, StatusTellsOutcome, LastTask,
                ActiveTask, Active, Exists
  <2> QED
    BY <2>3, <2>4 DEF RowsInv
<1> QED
  BY <1>1, <1>2, <1>3 DEF Request

LEMMA ProcessRows ==
    ASSUME Answering, Types, Served, RowsInv,
           \/ UNCHANGED vars \/ (\E m \in Machines : Administer(m)) \/ EditSave
           \/ Crash \/ Restart \/ BecomeReady
    PROVE  RowsInv'
<1>1. CASE UNCHANGED vars \/ BecomeReady
  BY <1>1, RowsUntouched DEF vars, dbVars, procVars, BecomeReady, ProcRest
<1>2. ~EditSave /\ \A m \in Machines : ~Administer(m)
  BY DEF Answering, RowsInv, Undisturbed, Administer, AddMachine, DeleteMachine, RemoveNode,
         RemoveMember, EditRead, EditSave
<1>3. CASE Crash
  <2>1. /\ crashes' # 0 /\ form' = NoForm /\ leaving' = {}
        /\ UNCHANGED <<task, lastId, machine, nodes>>
        /\ \A i \in Tasks : pc'[i] \in {"none", "gone"}
    BY <1>3, DeployAssumption DEF Crash, Types, dbVars
  <2> QED
    BY <2>1 DEF RowsInv, Undisturbed, CrashedWhenDown, ActiveIsLast, StatusBeforeRow,
                NodeBeforeStatus, DeployingIsServed, StatusTellsOutcome, Active, Exists
<1>4. CASE Restart
  <2>1. /\ crashes # 0 /\ UNCHANGED <<lastId, machine, nodes, leaving, form, pc, crashes>>
        /\ \A i \in Tasks : ~Working(i)
    BY <1>4 DEF Restart, ProcRest, RowsInv, CrashedWhenDown, Served
  <2>2. \A i \in Tasks : ~Active(i)' /\ task'[i].machine = task[i].machine
    BY <1>4 DEF Answering, Restart, Active, Types, Row
  <2>3. ActiveIsLast'
    BY <2>1, <2>2 DEF RowsInv, ActiveIsLast
  <2>4. StatusBeforeRow' /\ NodeBeforeStatus'
    BY <2>1, <2>2 DEF RowsInv, StatusBeforeRow, NodeBeforeStatus
  <2>5. Undisturbed' /\ CrashedWhenDown' /\ DeployingIsServed' /\ StatusTellsOutcome'
    BY <2>1 DEF RowsInv, Undisturbed, CrashedWhenDown, DeployingIsServed, StatusTellsOutcome, Exists
  <2> QED
    BY <2>3, <2>4, <2>5 DEF RowsInv
<1> QED
  BY <1>1, <1>2, <1>3, <1>4

(* Once no deployment is active, a machine's status tells the outcome of its last  *)
(* one, and a member that is not a node becomes one when it connects.               *)
THEOREM RowsAlwaysTell ==
    ASSUME Answering
    PROVE  Spec => []RowsTellOutcome
<1>1. Init => RowsInv
  <2> SUFFICES ASSUME Init PROVE RowsInv
    OBVIOUS
  <2>1. \A m \in Machines : machine[m].status = "Online"
    BY DEF Init
  <2>2. \A i \in Tasks : task[i].machine = NoMachine /\ ~Active(i) /\ pc[i] = "none"
    BY DEF Init, Active
  <2>3. Undisturbed /\ CrashedWhenDown /\ ActiveIsLast
    BY <2>1, <2>2 DEF Init, Undisturbed, CrashedWhenDown, ActiveIsLast, Exists
  <2>4. StatusBeforeRow /\ NodeBeforeStatus /\ DeployingIsServed
    BY <2>1, <2>2 DEF StatusBeforeRow, NodeBeforeStatus, DeployingIsServed
  <2>5. StatusTellsOutcome
    BY <2>2, DeployAssumption DEF StatusTellsOutcome, LastTask, NoMachine
  <2> QED
    BY <2>3, <2>4, <2>5 DEF RowsInv
<1>2. Types /\ Placed /\ Served /\ RowsInv /\ [Next]_vars /\ Types' /\ Served' => RowsInv'
  BY RunRows, HandlerRows, ProcessRows DEF Next
<1>3. Types /\ Served /\ RowsInv => RowsTellOutcome
  <2> SUFFICES ASSUME Types, Served, RowsInv, crashes = 0, NEW m \in Members,
                      m \notin nodes, ~ActiveTask(m)
               PROVE  machine[m].status \notin {"Deployed", "Deploying"}
    BY DEF RowsTellOutcome, SteadyReconnectDeploys, ReconnectDeploys, WantsNode, RowsInv
  <2>1. m \in Machines
    BY DeployAssumption
  <2> QED
    BY <2>1 DEF RowsInv, NodeBeforeStatus, DeployingIsServed, Served, ActiveTask
<1> QED
  BY <1>1, <1>2, <1>3, ServedInductive, PTL DEF Spec

----------------------------------------------------------------------------
(* The lock.  What a row is to the lock, by its status.                          *)
LEMMA LockStates ==
    ASSUME NEW row \in Row
    PROVE  /\ row.status = "none" <=> LockState(row) = "unused"
           /\ row.status \in {"pending", "running"} <=> LockState(row) = "open"
           /\ row.status \in {"succeeded", "failed"} => LockState(row) = row.status
BY DEF LockState, Row

(* A step that moves goroutines and leaves rows as they are to the lock starts   *)
(* one of an open row, stops some, or is nothing to it.                           *)
LEMMA LockStutters ==
    ASSUME \A i \in Tasks : LockState(task'[i]) = LockState(task[i]) /\ task'[i].machine = task[i].machine,
           \A i \in Tasks : Touches(i)' <=> Touches(i)
    PROVE  UNCHANGED Lock!vars
BY DEF Lock!vars

LEMMA LockStops ==
    ASSUME \A i \in Tasks : LockState(task'[i]) = LockState(task[i]) /\ task'[i].machine = task[i].machine,
           NEW S \in SUBSET Tasks, \A i \in Tasks : Touches(i)' <=> Touches(i) /\ i \notin S
    PROVE  Lock!Next
<1>1. Lock!Stop(S)
  BY DEF Lock!Stop
<1> QED
  BY <1>1 DEF Lock!Next

LEMMA LockBegins ==
    ASSUME \A i \in Tasks : LockState(task'[i]) = LockState(task[i]) /\ task'[i].machine = task[i].machine,
           NEW o \in Tasks, LockState(task[o]) = "open",
           ~Touches(o), \A i \in Tasks : Touches(i)' <=> Touches(i) \/ i = o
    PROVE  Lock!Next
<1>1. Lock!Begin(o)
  BY DEF Lock!Begin
<1> QED
  BY <1>1 DEF Lock!Next

(* A deployment's step.                                                          *)
LEMMA RunLock ==
    ASSUME Types, Types', Placed, Served, NEW i \in Tasks, Run(i)
    PROVE  [Lock!Next]_Lock!vars
<1>1. PICK to \in Place \ {"none"} :
         /\ pc' = [pc EXCEPT ![i] = to]
         /\ \/ task' = task
            \/ task' = [task EXCEPT ![i].status = "running"] /\ Active(i)
            \/ /\ to = "gone"
               /\ \E s \in {"succeeded", "failed"} : task' = [task EXCEPT ![i].status = s]
  BY RunShape
<1>2. Working(i) /\ Active(i) /\ task \in [Tasks -> Row] /\ task' \in [Tasks -> Row]
  BY RunShape DEF Served, Types
<1>3. LockState(task[i]) = "open"
  BY <1>2, LockStates DEF Active
<1>4. /\ \A j \in Tasks : task'[j].machine = task[j].machine
      /\ \A j \in Tasks \ {i} : task'[j] = task[j] /\ (Touches(j)' <=> Touches(j))
      /\ pc'[i] = to
  BY <1>1, <1>2 DEF Types, Row, Touches, Working
<1>5. CASE LockState(task'[i]) = "open"
  <2>1. \A j \in Tasks : LockState(task'[j]) = LockState(task[j]) /\ task'[j].machine = task[j].machine
    BY <1>3, <1>4, <1>5
  <2>2. CASE Touches(i)' <=> Touches(i)
    <3>1. \A j \in Tasks : Touches(j)' <=> Touches(j)
      BY <1>4, <2>2
    <3> QED
      BY <2>1, <3>1, LockStutters
  <2>3. CASE Touches(i) /\ ~Touches(i)'
    <3>1. \A j \in Tasks : Touches(j)' <=> Touches(j) /\ j \notin {i}
      BY <1>4, <2>3
    <3> QED
      BY <2>1, <3>1, LockStops
  <2>4. CASE ~Touches(i) /\ Touches(i)'
    <3>1. \A j \in Tasks : Touches(j)' <=> Touches(j) \/ j = i
      BY <1>4, <2>4
    <3> QED
      BY <1>3, <2>1, <2>4, <3>1, LockBegins
  <2> QED
    BY <2>2, <2>3, <2>4
<1>6. CASE LockState(task'[i]) # "open"
  <2>1. PICK s \in {"succeeded", "failed"} : task' = [task EXCEPT ![i].status = s]
    <3>1. task' # task /\ task'[i].status \notin {"pending", "running"}
      BY <1>2, <1>3, <1>6, LockStates
    <3> QED
      BY <1>1, <1>2, <3>1
  <2>2. LockState(task'[i]) = s /\ task'[i].status = s
    <3>1. task'[i] \in Row /\ task'[i].status = s
      BY <1>2, <2>1 DEF Row
    <3> QED
      BY <3>1, LockStates
  <2>3. pc[i] \in {"succeed", "close"} /\ to = "gone"
    <3>1. task' # task
      BY <1>3, <1>6
    <3>2. ~Start(i)
      <4>1. task' = [task EXCEPT ![i].status = "running"] => task'[i].status = "running"
        BY <1>2 DEF Row
      <4> QED
        BY <2>2, <3>1, <4>1 DEF Start, Writes
    <3>3. Closes(i, "succeed", "succeeded") \/ Closes(i, "close", "failed")
      BY <3>1, <3>2 DEF Run, Load, MarkDeploying, FindKeys, Deploy, SaveCredential, MarkDeployed,
                        MarkFailed, DeployPanics
    <3> QED
      BY <1>4, <3>3 DEF Closes, Leaves, Types
  <2>4. \A j \in Tasks : Touches(j)' <=> Touches(j)
    BY <1>4, <2>3 DEF Touches, Working
  <2>5. ~Touches(i)
    BY <2>3 DEF Touches
  <2>6. Lock!Close(i, s)
    BY <1>3, <1>4, <2>2, <2>4, <2>5 DEF Lock!Close
  <2> QED
    BY <2>6 DEF Lock!Next
<1> QED
  BY <1>5, <1>6

(* A handler's step.  The row it inserts is the only open one of its machine.    *)
LEMMA HandlerLock ==
    ASSUME Types, Types', Placed, Served, NEW c \in Callers, Ask(c) \/ Request(c)
    PROVE  [Lock!Next]_Lock!vars
<1>1. ASSUME UNCHANGED <<task, pc>>
      PROVE  UNCHANGED Lock!vars
  BY <1>1, LockStutters DEF Touches, Working
<1>2. CASE CreateTask(c)
  <2>1. PICK n \in Tasks, m \in Machines :
           /\ ~ActiveTask(m) /\ task[n].status = "none" /\ pc[n] = "none"
           /\ task' = [task EXCEPT ![n] = [status |-> "pending", machine |-> m]] /\ UNCHANGED pc
    <3> DEFINE k == lastId + 1
               h == caller[c].machine
    <3>1. k \in Tasks /\ k > lastId /\ h \in Machines
      BY <1>2, DeployAssumption DEF CreateTask, Types, Tasks, Placed, Served
    <3>2. /\ ~ActiveTask(h) /\ task[k].status = "none" /\ pc[k] = "none"
          /\ task' = [task EXCEPT ![k] = [status |-> "pending", machine |-> h]] /\ UNCHANGED pc
      BY <1>2, <3>1 DEF CreateTask, Inserted, Placed, Served, Types
    <3> QED
      BY <3>1, <3>2
  <2>2. task \in [Tasks -> Row] /\ task' \in [Tasks -> Row]
    BY DEF Types
  <2>3. task'[n].status = "pending" /\ task'[n].machine = m /\ \A i \in Tasks \ {n} : task'[i] = task[i]
    BY <2>1, <2>2
  <2>4. LockState(task[n]) = "unused" /\ LockState(task'[n]) = "open"
    BY <2>1, <2>2, <2>3, LockStates
  <2>5. Lock!OpenOn(m) = {}
    BY <2>1, <2>2, LockStates DEF Lock!OpenOn, ActiveTask, Active
  <2>6. \A i \in Tasks : Touches(i)' <=> Touches(i)
    BY <2>1 DEF Touches, Working
  <2>7. Lock!Open(n, m)
    <3>1. \A i \in Tasks \ {n} : task'[i] = task[i]
      BY <2>3
    <3> QED
      BY <2>3, <2>4, <2>5, <2>6, <3>1 DEF Lock!Open
  <2> QED
    BY <2>1, <2>7 DEF Lock!Next
<1>3. CASE FirstLog(c)
  <2> DEFINE n == caller[c].task
  <2>1. n \in Tasks /\ Active(n) /\ pc[n] = "none" /\ task' = task /\ task \in [Tasks -> Row]
    BY <1>3 DEF FirstLog, Placed, Served, HandlerRest, dbVars, Types
  <2>2. LockState(task[n]) = "open" /\ ~Touches(n)
    BY <2>1, LockStates DEF Active, Touches, Working
  <2>3. pc' = [pc EXCEPT ![n] = "load"] \/ pc' = [pc EXCEPT ![n] = "gone"]
    BY <1>3 DEF FirstLog
  <2> HIDE DEF n
  <2>4. CASE pc' = [pc EXCEPT ![n] = "load"]
    <3>1. \A i \in Tasks : Touches(i)' <=> Touches(i) \/ i = n
      BY <2>1, <2>4 DEF Touches, Working, Types
    <3> QED
      BY <2>1, <2>2, <3>1, LockBegins
  <2>5. CASE pc' = [pc EXCEPT ![n] = "gone"]
    <3>1. \A i \in Tasks : Touches(i)' <=> Touches(i)
      BY <2>1, <2>5 DEF Touches, Working, Types
    <3> QED
      BY <2>1, <3>1, LockStutters
  <2> QED
    BY <2>3, <2>4, <2>5
<1>4. CASE Ask(c) \/ AcquireSlot(c) \/ CreateRefused(c)
  BY <1>1, <1>4 DEF Ask, AskDeploy, AgentConnects, AcquireSlot, CreateRefused, dbVars
<1> QED
  BY <1>2, <1>3, <1>4 DEF Request

(* The end of the process stops what is at work, and the next one fails what is   *)
(* open; rows of machines are nothing to the lock.                                *)
LEMMA ElsewhereLock ==
    ASSUME Types, Types', Served,
           (\E m \in Machines : Administer(m)) \/ EditSave \/ Crash \/ Restart \/ BecomeReady
    PROVE  [Lock!Next]_Lock!vars
<1>1. CASE (\E m \in Machines : Administer(m)) \/ EditSave \/ BecomeReady
  <2>1. UNCHANGED <<task, pc>>
    BY <1>1 DEF Administer, AddMachine, DeleteMachine, RemoveNode, RemoveMember, EditRead,
                EditSave, BecomeReady, RowRest, ProcRest
  <2> QED
    BY <2>1, LockStutters DEF Touches, Working
<1>2. CASE Crash
  <2>1. task' = task /\ \A i \in Tasks : Touches(i)' <=> Touches(i) /\ i \notin Tasks
    BY <1>2 DEF Crash, dbVars, Touches, Working
  <2> QED
    BY <2>1, LockStops
<1>3. CASE Restart
  <2>1. pc' = pc /\ \A i \in Tasks : ~Touches(i) /\ ~Touches(i)'
    BY <1>3 DEF Restart, ProcRest, Served, Touches, Working
  <2>2. CASE task' = task
    BY <2>1, <2>2, LockStutters
  <2>3. CASE task' = [i \in Tasks |-> IF Active(i) THEN [task[i] EXCEPT !.status = "failed"] ELSE task[i]]
    <3>1. \A i \in Tasks : /\ LockState(task'[i]) = IF LockState(task[i]) = "open" THEN "failed"
                                                    ELSE LockState(task[i])
                           /\ task'[i].machine = task[i].machine
      <4> SUFFICES ASSUME NEW i \in Tasks
                   PROVE  /\ LockState(task'[i]) = IF LockState(task[i]) = "open" THEN "failed"
                                                   ELSE LockState(task[i])
                          /\ task'[i].machine = task[i].machine
        OBVIOUS
      <4>1. task[i] \in Row /\ task'[i] \in Row
        BY DEF Types
      <4>2. CASE Active(i)
        <5>1. task'[i].status = "failed" /\ task'[i].machine = task[i].machine
          BY <2>3, <4>1, <4>2 DEF Row
        <5> QED
          BY <4>1, <4>2, <5>1, LockStates DEF Active
      <4>3. CASE ~Active(i)
        BY <2>3, <4>1, <4>3, LockStates DEF Active
      <4> QED
        BY <4>2, <4>3
    <3>2. Lock!Abandon
      BY <2>1, <3>1 DEF Lock!Abandon
    <3> QED
      BY <3>2 DEF Lock!Next
  <2> QED
    BY <1>3, <2>2, <2>3 DEF Restart
<1> QED
  BY <1>1, <1>2, <1>3

(* The tasks of deployments are the lock of ReleaseLock, for any number of        *)
(* machines, callers, slots and crashes, and whatever fails: a deployment touches *)
(* its machine only while its task is open, alone, and is closed once.            *)
THEOREM DeploymentsLocked == Spec => DeploysUnderLock
<1>1. Init => Lock!Init
  <2> SUFFICES ASSUME Init PROVE Lock!Init
    OBVIOUS
  <2>1. \A i \in Tasks : task[i] = [status |-> "none", machine |-> NoMachine] /\ ~Touches(i)
    BY DEF Init, Touches, Working
  <2>2. [status |-> "none", machine |-> NoMachine] \in Row
    BY DEF Row
  <2>3. \A i \in Tasks : LockState(task[i]) = "unused" /\ task[i].machine = NoMachine
    BY <2>1, <2>2, LockStates
  <2> QED
    BY <2>1, <2>3 DEF Lock!Init
<1>2. Types /\ Types' /\ Placed /\ Served /\ [Next]_vars => [Lock!Next]_Lock!vars
  <2> SUFFICES ASSUME Types, Types', Placed, Served, [Next]_vars
               PROVE  [Lock!Next]_Lock!vars
    OBVIOUS
  <2>1. CASE UNCHANGED vars
    BY <2>1, LockStutters DEF vars, dbVars, Touches, Working
  <2> QED
    BY <2>1, HandlerLock, RunLock, ElsewhereLock DEF Next
<1> QED
  BY <1>1, <1>2, ServedInductive, PTL DEF Spec, DeploysUnderLock, Lock!Spec

(* What the lock promises follows from its actions alone: of the open operations  *)
(* of one release there is one, because opening fails the others, and only an     *)
(* open operation works, because the others are silent when they are failed.      *)
LockOpen(o) == LockState(task[o]) = "open"
LockAlone == /\ \A o \in Tasks : Touches(o) => LockOpen(o)
             /\ \A o, p \in Tasks : LockOpen(o) /\ LockOpen(p) /\ task[o].machine = task[p].machine => o = p

LEMMA LockOpens ==
    ASSUME LockAlone, NEW o \in Tasks, NEW m \in Machines, Lock!Open(o, m)
    PROVE  LockAlone'
<1>1. \A p \in Tasks : p \in Lock!OpenOn(m) <=> LockOpen(p) /\ task[p].machine = m
  BY DEF Lock!OpenOn, LockOpen
<1>2. /\ LockState(task[o]) = "unused"
      /\ \A p \in Tasks : ~(p \in Lock!OpenOn(m) /\ Touches(p))
  BY DEF Lock!Open
<1>3. /\ [i \in Tasks |-> LockState(task'[i])] =
           [p \in Tasks |-> IF p = o THEN "open" ELSE IF p \in Lock!OpenOn(m) THEN "failed"
                            ELSE LockState(task[p])]
      /\ [i \in Tasks |-> task'[i].machine] = [[i \in Tasks |-> task[i].machine] EXCEPT ![o] = m]
      /\ {i \in Tasks : Touches(i)'} = {i \in Tasks : Touches(i)}
  BY DEF Lock!Open
<1>4. \A p \in Tasks : /\ LockState(task'[p]) = IF p = o THEN "open"
                                                ELSE IF p \in Lock!OpenOn(m) THEN "failed"
                                                ELSE LockState(task[p])
                       /\ task'[p].machine = IF p = o THEN m ELSE task[p].machine
                       /\ Touches(p)' <=> Touches(p)
  BY <1>3
<1> QED
  BY <1>1, <1>2, <1>4 DEF LockAlone, LockOpen

(* No other step opens an operation.                                              *)
LEMMA LockOthers ==
    ASSUME LockAlone,
           \A p \in Tasks : /\ LockOpen(p)' => LockOpen(p)
                            /\ Touches(p)' => LockOpen(p)'
                            /\ task'[p].machine = task[p].machine
    PROVE  LockAlone'
BY DEF LockAlone, LockOpen

LEMMA LockKeepsAlone == ASSUME LockAlone, [Lock!Next]_Lock!vars PROVE LockAlone'
<1> DEFINE State == [i \in Tasks |-> LockState(task[i])]
           Release == [i \in Tasks |-> task[i].machine]
           Work == {i \in Tasks : Touches(i)}
<1>1. ASSUME Release' = Release, NEW next, State' = [p \in Tasks |-> next[p]],
             \A p \in Tasks : next[p] = "open" => LockState(task[p]) = "open",
             \A p \in Tasks : p \in Work' => next[p] = "open"
      PROVE  LockAlone'
  <2>1. \A p \in Tasks : /\ task'[p].machine = task[p].machine
                         /\ LockState(task'[p]) = next[p]
                         /\ p \in Work' <=> Touches(p)'
    <3>1. \A p \in Tasks : Release'[p] = Release[p] /\ State'[p] = next[p]
      BY <1>1
    <3> QED
      BY <3>1
  <2> QED
    BY <1>1, <2>1, LockOthers DEF LockOpen
<1>2. \A p \in Tasks : p \in Work => LockState(task[p]) = "open"
  BY DEF LockAlone, LockOpen
<1>3. ASSUME UNCHANGED <<State, Release>>, \A p \in Work' : p \in Work \/ LockState(task[p]) = "open"
      PROVE  LockAlone'
  BY <1>1, <1>2, <1>3
<1>4. CASE UNCHANGED Lock!vars
  BY <1>3, <1>4 DEF Lock!vars
<1>5. ASSUME NEW o \in Tasks, NEW m \in Machines, Lock!Open(o, m)
      PROVE  LockAlone'
  BY <1>5, LockOpens
<1>6. ASSUME NEW o \in Tasks, Lock!Begin(o)
      PROVE  LockAlone'
  BY <1>3, <1>6 DEF Lock!Begin
<1>7. ASSUME NEW S \in SUBSET Tasks, Lock!Stop(S)
      PROVE  LockAlone'
  BY <1>3, <1>7 DEF Lock!Stop
<1>8. ASSUME NEW o \in Tasks, NEW outcome \in {"succeeded", "failed"}, Lock!Close(o, outcome)
      PROVE  LockAlone'
  BY <1>1, <1>2, <1>8 DEF Lock!Close
<1>9. CASE Lock!Abandon
  BY <1>1, <1>2, <1>9 DEF Lock!Abandon
<1>10. ASSUME NEW S \in SUBSET Tasks, Lock!Forget(S)
       PROVE  LockAlone'
  <2> DEFINE next == [p \in Tasks |-> IF p \in S THEN "removed" ELSE State[p]]
  <2>1. \A p \in S : LockState(task[p]) = "failed"
    BY <1>10 DEF Lock!Forget
  <2>2. Release' = Release /\ State' = next /\ Work' = Work
    BY <1>10 DEF Lock!Forget
  <2>3. \A p \in Tasks : /\ next[p] = "open" => LockState(task[p]) = "open"
                         /\ p \in Work => next[p] = "open"
    BY <1>2, <2>1
  <2>4. State' = [p \in Tasks |-> next[p]]
    BY <2>2
  <2> HIDE DEF next, State, Release, Work
  <2> QED
    BY <1>1, <2>2, <2>3, <2>4
<1> QED
  BY <1>4, <1>5, <1>6, <1>7, <1>8, <1>9, <1>10 DEF Lock!Next

(* The promise of the lock, from its specification alone: an operation works only  *)
(* while it is open, and alone on its release.  Stated of deployments, whose tasks *)
(* implement the lock.                                                             *)
THEOREM LockExcludes == Lock!Spec => [](Lock!TypeOK /\ Lock!Exclusion)
<1> DEFINE States == {"unused", "open", "succeeded", "failed", "removed"}
<1>1. Lock!Init => LockAlone /\ Lock!TypeOK
  <2> SUFFICES ASSUME Lock!Init PROVE LockAlone /\ Lock!TypeOK
    OBVIOUS
  <2>1. \A p \in Tasks : LockState(task[p]) = "unused" /\ task[p].machine = NoMachine /\ ~Touches(p)
    <3>1. /\ [i \in Tasks |-> LockState(task[i])] = [o \in Tasks |-> "unused"]
          /\ [i \in Tasks |-> task[i].machine] = [o \in Tasks |-> NoMachine]
          /\ {i \in Tasks : Touches(i)} = {}
      BY DEF Lock!Init
    <3> QED
      BY <3>1
  <2> QED
    BY <2>1 DEF LockAlone, LockOpen, Lock!TypeOK
<1>2. Lock!TypeOK /\ [Lock!Next]_Lock!vars => Lock!TypeOK'
  <2> SUFFICES ASSUME Lock!TypeOK, [Lock!Next]_Lock!vars PROVE Lock!TypeOK'
    OBVIOUS
  <2> DEFINE State == [i \in Tasks |-> LockState(task[i])]
             Release == [i \in Tasks |-> task[i].machine]
             Work == {i \in Tasks : Touches(i)}
  <2>1. State \in [Tasks -> States] /\ Release \in [Tasks -> Machines \cup {NoMachine}]
    BY DEF Lock!TypeOK
  <2>2. State' \in [Tasks -> States] /\ Release' \in [Tasks -> Machines \cup {NoMachine}]
        => Lock!TypeOK'
    BY DEF Lock!TypeOK
  <2>3. State' \in [Tasks -> States]
    <3>1. ASSUME NEW o \in Tasks, NEW m \in Machines, Lock!Open(o, m)
          PROVE  State' \in [Tasks -> States]
      <4>1. State' = [p \in Tasks |-> IF p = o THEN "open" ELSE IF p \in Lock!OpenOn(m) THEN "failed"
                                       ELSE State[p]]
        BY <3>1 DEF Lock!Open
      <4> HIDE DEF State
      <4> QED
        BY <2>1, <4>1
    <3>2. ASSUME NEW o \in Tasks, NEW outcome \in {"succeeded", "failed"}, Lock!Close(o, outcome)
          PROVE  State' \in [Tasks -> States]
      <4>1. State' = [State EXCEPT ![o] = outcome]
        BY <3>2 DEF Lock!Close
      <4> HIDE DEF State
      <4> QED
        BY <2>1, <4>1
    <3>3. ASSUME NEW S \in SUBSET Tasks, Lock!Forget(S)
          PROVE  State' \in [Tasks -> States]
      <4>1. State' = [p \in Tasks |-> IF p \in S THEN "removed" ELSE State[p]]
        BY <3>3 DEF Lock!Forget
      <4> HIDE DEF State
      <4> QED
        BY <2>1, <4>1
    <3>4. CASE Lock!Abandon
      <4>1. State' = [p \in Tasks |-> IF State[p] = "open" THEN "failed" ELSE State[p]]
        BY <3>4 DEF Lock!Abandon
      <4> HIDE DEF State
      <4> QED
        BY <2>1, <4>1
    <3>5. ASSUME State' = State
          PROVE  State' \in [Tasks -> States]
      <4> HIDE DEF State
      <4> QED
        BY <2>1, <3>5
    <3>6. \/ State' = State \/ Lock!Abandon \/ \E S \in SUBSET Tasks : Lock!Forget(S)
          \/ \E o \in Tasks : \/ \E m \in Machines : Lock!Open(o, m)
                            \/ \E outcome \in {"succeeded", "failed"} : Lock!Close(o, outcome)
      BY DEF Lock!Next, Lock!vars, Lock!Begin, Lock!Stop
    <3> QED
      BY <3>1, <3>2, <3>3, <3>4, <3>5, <3>6
  <2>4. Release' = Release \/ \E o \in Tasks, m \in Machines : Release' = [Release EXCEPT ![o] = m]
    BY DEF Lock!Next, Lock!vars, Lock!Open, Lock!Begin, Lock!Stop, Lock!Close, Lock!Abandon, Lock!Forget
  <2> HIDE DEF State, Release, Work
  <2> QED
    BY <2>1, <2>2, <2>3, <2>4
<1>3. LockAlone => Lock!Exclusion
  BY DEF LockAlone, LockOpen, Lock!Exclusion
<1> QED
  BY <1>1, <1>2, <1>3, LockKeepsAlone, PTL DEF Lock!Spec

(* So do deployments: two that touch one machine are one.                          *)
THEOREM DeploymentsExclude == Spec => []Lock!Exclusion
BY DeploymentsLocked, LockExcludes DEF DeploysUnderLock
=============================================================================
