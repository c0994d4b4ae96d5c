----------------------------- MODULE NodeDeploy -----------------------------
(***************************************************************************)
(* Worker node deployment: the handlers that ask for one (deploy/service.go *)
(* for the Machines page, deploy/mesh_agent.go for a member that connects), *)
(* the goroutine that carries it out within one of a few slots, and what    *)
(* they keep in the database (object/machine_node_deploy.go,                *)
(* object/machine.go): task rows, machine rows and managed credentials.     *)
(*                                                                          *)
(* Phases and log lines are left out, except the first line of a task,      *)
(* whose failure ends the request.                                          *)
(***************************************************************************)
EXTENDS Naturals, FiniteSets

CONSTANTS
    Machines,       \* names of machines
    Members,        \* those that joined through the mesh; the others use SSH
    Callers,        \* handlers that may be served at the same time
    Slots,          \* capacity of Service.semaphore
    MaxTasks,       \* bound: task rows created in a behaviour
    MaxCrashes,     \* bound: crashes of the process in a behaviour
    DbMayFail,      \* may a database call fail, or commit and lose its reply?
    PanicsAllowed,  \* may a deployment panic?
    LeavesAllowed,  \* may machines be deleted and added again?
    EditsAllowed    \* may machine rows be edited while deployments run?

ASSUME DeployAssumption ==
    /\ Members \subseteq Machines /\ "none" \notin Machines
    /\ Slots \in Nat \ {0} /\ MaxTasks \in Nat /\ MaxCrashes \in Nat
    /\ DbMayFail \in BOOLEAN /\ PanicsAllowed \in BOOLEAN
    /\ LeavesAllowed \in BOOLEAN /\ EditsAllowed \in BOOLEAN

VARIABLES
    task,     \* rows of machine_node_deploy_task
    lastId,   \* their autoincrement counter
    machine,  \* rows of machine
    cred,     \* machines with a row in machine_node_deploy_credential
    nodes,    \* machines whose kubelet serves a Node of the cluster
    leaving,  \* members whose RemoveMeshMember is under way
    form,     \* a machine row that was read to be edited
    caller,   \* what each handler is in the middle of
    slots,    \* occupied slots
    pc,       \* where each deployment's goroutine stands
    secret,   \* did the row it loaded hold a password or a key?
    up,       \* is the process running?
    ready,    \* has SetRestConfig been called?
    crashes

dbVars == <<task, lastId, machine, cred>>
procVars == <<up, ready, crashes>>
vars == <<dbVars, nodes, leaving, form, caller, slots, pc, secret, procVars>>

Tasks == 1..MaxTasks
NoMachine == "none"
Idle == [at |-> "idle", machine |-> NoMachine, task |-> 0]
NoForm == [machine |-> NoMachine, status |-> "absent", secret |-> FALSE]

Exists(m) == machine[m].status # "absent"
Active(i) == task[i].status \in {"pending", "running"}
ActiveTask(m) == \E i \in Tasks : Active(i) /\ task[i].machine = m
Working(i) == pc[i] \notin {"none", "gone"}

\* UpdateMachineNodeDeployStatus: no row, no change, no error.
WithStatus(m, status) ==
    IF Exists(m) THEN [machine EXCEPT ![m].status = status] ELSE machine

----------------------------------------------------------------------------
(* Handlers.                                                                *)

Asks(c, m) == caller' = [caller EXCEPT ![c] = [at |-> "asked", machine |-> m, task |-> 0]]
Answers(c) == caller' = [caller EXCEPT ![c] = Idle]
Holds(c, i) ==
    caller' = [caller EXCEPT ![c] = [at |-> "created", machine |-> caller[c].machine, task |-> i]]
Frees == slots' = slots - 1

HandlerRest == UNCHANGED <<nodes, leaving, form, secret, procVars>>

\* getMachineForNodeDeploy and toNodeDeployMachine: an SSH machine needs its own
\* secret or a managed credential.
Reachable(m) == m \in Members \/ machine[m].secret \/ m \in cred

\* DeployMachineNode and RepairMachineNode: the machine is read, then the host's
\* firewall and the apiserver's address are looked after.
AskDeploy(c, m) ==
    /\ up /\ ready /\ caller[c] = Idle
    /\ Exists(m) /\ Reachable(m)
    /\ Asks(c, m)
    /\ UNCHANGED <<dbVars, slots, pc>> /\ HandlerRest

\* deployMeshMemberIfNeeded: a node and a deployment under way are left alone.
WantsNode(m) == Exists(m) /\ machine[m].status \notin {"Deployed", "Deploying"}

AgentConnects(c, m) ==
    /\ up /\ ready /\ caller[c] = Idle
    /\ m \in Members /\ WantsNode(m)
    /\ Asks(c, m)
    /\ UNCHANGED <<dbVars, slots, pc>> /\ HandlerRest

AcquireSlot(c) ==
    /\ caller[c].at = "asked"
    /\ \/ slots < Slots /\ slots' = slots + 1 /\ caller' = [caller EXCEPT ![c].at = "slot"]
       \/ slots = Slots /\ Answers(c) /\ UNCHANGED slots
    /\ UNCHANGED <<dbVars, pc>> /\ HandlerRest

Inserted(m) == [task EXCEPT ![lastId + 1] = [status |-> "pending", machine |-> m]]

\* CreateMachineNodeDeployTask, whose transaction locks the machine row.
CreateTask(c) ==
    /\ caller[c].at = "slot" /\ lastId < MaxTasks
    /\ Exists(caller[c].machine) /\ ~ActiveTask(caller[c].machine)
    /\ task' = Inserted(caller[c].machine) /\ lastId' = lastId + 1
    /\ \/ /\ Holds(c, lastId + 1)
          /\ UNCHANGED slots
       \/ DbMayFail /\ Answers(c) /\ Frees
    /\ UNCHANGED <<machine, cred, pc>> /\ HandlerRest

\* The machine is gone, a task is active, or the database fails.  (Beyond the
\* bound on tasks every request ends here.)
CreateRefused(c) ==
    /\ caller[c].at = "slot"
    /\ \/ ~Exists(caller[c].machine) \/ ActiveTask(caller[c].machine)
       \/ DbMayFail \/ lastId = MaxTasks
    /\ Answers(c) /\ Frees
    /\ UNCHANGED <<dbVars, pc>> /\ HandlerRest

\* Variant: the slot is kept when the first log line cannot be written.
FirstLogKeepingSlot(c) ==
    /\ caller[c].at = "created"
    /\ Answers(c)
    /\ \/ pc' = [pc EXCEPT ![caller[c].task] = "load"] /\ UNCHANGED slots
       \/ DbMayFail /\ pc' = [pc EXCEPT ![caller[c].task] = "gone"] /\ UNCHANGED slots
    /\ UNCHANGED dbVars /\ HandlerRest

\* The first log line, after which the goroutine takes over the slot.  When the
\* line cannot be written the request fails and the row stays as it is.
FirstLog(c) ==
    /\ caller[c].at = "created"
    /\ Answers(c)
    /\ \/ pc' = [pc EXCEPT ![caller[c].task] = "load"] /\ UNCHANGED slots
       \/ DbMayFail /\ pc' = [pc EXCEPT ![caller[c].task] = "gone"] /\ Frees
    /\ UNCHANGED dbVars /\ HandlerRest

----------------------------------------------------------------------------
(* runMachineNodeDeployTask.  A failure sets the machine's status ("fail")    *)
(* and then closes the task ("close"); what these two return is only logged.  *)

Moves(i, to) == pc' = [pc EXCEPT ![i] = to] /\ UNCHANGED slots
Leaves(i) == pc' = [pc EXCEPT ![i] = "gone"] /\ Frees

RunRest == UNCHANGED <<lastId, leaving, form, caller, procVars>>

\* A database write that takes effect or fails; a failed one may have committed.
Writes(effect, i, then, failed) ==
    \/ effect /\ Moves(i, then)
    \/ DbMayFail /\ effect /\ Moves(i, failed)

Load(i) ==
    /\ pc[i] = "load"
    /\ LET m == task[i].machine
       IN  \/ /\ Exists(m)
              /\ secret' = [secret EXCEPT ![i] = machine[m].secret]
              /\ Moves(i, "start")
           \/ ~Exists(m) /\ Moves(i, "close") /\ UNCHANGED secret
           \/ DbMayFail /\ (Moves(i, "close") \/ Leaves(i)) /\ UNCHANGED secret
    /\ UNCHANGED <<task, machine, cred, nodes>> /\ RunRest

Start(i) ==
    /\ pc[i] = "start"
    /\ \/ /\ task[i].status = "pending"
          /\ Writes(task' = [task EXCEPT ![i].status = "running"], i, "mark", "fail")
       \/ (task[i].status # "pending" \/ DbMayFail) /\ task' = task /\ Moves(i, "fail")
    /\ UNCHANGED <<machine, cred, nodes, secret>> /\ RunRest

\* When the status cannot be set the task is closed and the status left alone.
MarkDeploying(i) ==
    /\ pc[i] = "mark"
    /\ \/ Writes(machine' = WithStatus(task[i].machine, "Deploying"), i, "keys", "close")
       \/ DbMayFail /\ machine' = machine /\ Moves(i, "close")
    /\ UNCHANGED <<task, cred, nodes, secret>> /\ RunRest

\* toNodeDeployMachine, on the row that was loaded.
FindKeys(i) ==
    /\ pc[i] = "keys"
    /\ LET m == task[i].machine
       IN  \/ (m \in Members \/ secret[i] \/ m \in cred) /\ Moves(i, "deploy")
           \/ m \notin Members /\ ~secret[i] /\ (m \notin cred \/ DbMayFail) /\ Moves(i, "fail")
    /\ UNCHANGED <<task, machine, cred, nodes, secret>> /\ RunRest

\* NodeDeployer.Deploy, within machineNodeDeployTimeout.  It installs a managed
\* key on SSH machines.  A deployment that fails may have started the kubelet.
Deploy(i) ==
    /\ pc[i] = "deploy"
    /\ LET m == task[i].machine
       IN  \/ nodes' = nodes \cup {m} /\ Moves(i, IF m \in Members THEN "deployed" ELSE "save")
           \/ nodes' \in {nodes, nodes \cup {m}} /\ Moves(i, "fail")
    /\ UNCHANGED <<task, machine, cred, secret>> /\ RunRest

\* Variant: a credential that was not there before is not inserted.
SaveCredentialUpdateOnly(i) ==
    /\ pc[i] = "save"
    /\ LET m == task[i].machine
       IN  \/ /\ Exists(m)
              /\ Writes(/\ cred' = cred
                        /\ machine' = [machine EXCEPT ![m] = [status |-> "Deployed", secret |-> FALSE]],
                        i, "deployed", "fail")
           \/ (~Exists(m) \/ DbMayFail) /\ UNCHANGED <<cred, machine>> /\ Moves(i, "fail")
    /\ UNCHANGED <<task, nodes, secret>> /\ RunRest

\* UpdateMachineNodeDeployCredential: one transaction stores the managed key,
\* removes the machine's own secret and sets the status.
SaveCredential(i) ==
    /\ pc[i] = "save"
    /\ LET m == task[i].machine
       IN  \/ /\ Exists(m)
              /\ Writes(/\ cred' = cred \cup {m}
                        /\ machine' = [machine EXCEPT ![m] = [status |-> "Deployed", secret |-> FALSE]],
                        i, "deployed", "fail")
           \/ (~Exists(m) \/ DbMayFail) /\ UNCHANGED <<cred, machine>> /\ Moves(i, "fail")
    /\ UNCHANGED <<task, nodes, secret>> /\ RunRest

\* The task succeeds whether or not the status could be set.
MarkDeployed(i) ==
    /\ pc[i] = "deployed"
    /\ machine' = WithStatus(task[i].machine, "Deployed") \/ (DbMayFail /\ machine' = machine)
    /\ Moves(i, "succeed")
    /\ UNCHANGED <<task, cred, nodes, secret>> /\ RunRest

\* Variant: the task is closed before the machine is marked.
MarkFailedLast(i) ==
    /\ pc[i] = "fail"
    /\ IF Active(i)
       THEN task' = [task EXCEPT ![i].status = "failed"] /\ Moves(i, "fail") /\ machine' = machine
       ELSE task' = task /\ Leaves(i) /\ machine' = WithStatus(task[i].machine, "Failed")
    /\ UNCHANGED <<cred, nodes, secret>> /\ RunRest

MarkFailed(i) ==
    /\ pc[i] = "fail"
    /\ machine' = WithStatus(task[i].machine, "Failed") \/ (DbMayFail /\ machine' = machine)
    /\ Moves(i, "close")
    /\ UNCHANGED <<task, cred, nodes, secret>> /\ RunRest

\* FinishMachineNodeDeployTask and the end of the goroutine, which gives its slot
\* back.  An UPDATE that fails is not repeated.
Closes(i, at, status) ==
    /\ pc[i] = at
    /\ \/ task' = IF Active(i) THEN [task EXCEPT ![i].status = status] ELSE task
       \/ DbMayFail /\ task' = task
    /\ Leaves(i)
    /\ UNCHANGED <<machine, cred, nodes, secret>> /\ RunRest

\* Variant: a panic is recovered and only logged.
DeployPanicsUnnoticed(i) ==
    /\ PanicsAllowed
    /\ pc[i] \in {"load", "start", "mark", "keys", "deploy", "save", "deployed", "succeed"}
    /\ Leaves(i)
    /\ UNCHANGED <<task, machine, cred, nodes, secret>> /\ RunRest

\* A panic is recovered, and cleanupMachineNodeDeployPanic does what a failure does.
DeployPanics(i) ==
    /\ PanicsAllowed
    /\ pc[i] \in {"load", "start", "mark", "keys", "deploy", "save", "deployed", "succeed"}
    /\ Moves(i, "fail")
    /\ UNCHANGED <<task, machine, cred, nodes, secret>> /\ RunRest

----------------------------------------------------------------------------
(* Machine rows: AddMachine, UpdateMachine, DeleteMachine, RemoveMeshMember.  *)

RowRest == UNCHANGED <<task, lastId, cred, caller, slots, pc, secret, procVars>>

AddMachine(m) ==
    /\ up /\ LeavesAllowed /\ ~Exists(m) /\ m \notin leaving
    /\ machine' = [machine EXCEPT ![m] = [status |-> "Online", secret |-> m \notin Members]]
    /\ UNCHANGED <<nodes, leaving, form>> /\ RowRest

\* The credential and the tasks of a deleted machine stay.
DeleteMachine(m) ==
    /\ up /\ LeavesAllowed /\ Exists(m) /\ m \notin Members
    /\ machine' = [machine EXCEPT ![m] = [status |-> "absent", secret |-> FALSE]]
    /\ UNCHANGED <<nodes, leaving, form>> /\ RowRest

\* RemoveMeshMember deletes the Node, then the member's credential and its
\* session, then the row; it returns at the first call that fails.
RemoveNode(m) ==
    /\ up /\ LeavesAllowed /\ m \in Members /\ Exists(m) /\ m \notin leaving
    /\ nodes' = nodes \ {m} /\ leaving' = leaving \cup {m}
    /\ UNCHANGED <<machine, form>> /\ RowRest

RemoveMember(m) ==
    /\ m \in leaving
    /\ leaving' = leaving \ {m}
    /\ \/ machine' = [machine EXCEPT ![m] = [status |-> "absent", secret |-> FALSE]]
       \/ DbMayFail /\ machine' = machine
    /\ UNCHANGED <<nodes, form>> /\ RowRest

\* The Machines page, AddLocalWSLMachine and AddLocalHostMachine read a row.
EditRead(m) ==
    /\ up /\ EditsAllowed /\ form = NoForm /\ Exists(m)
    /\ form' = [machine |-> m, status |-> machine[m].status, secret |-> machine[m].secret]
    /\ UNCHANGED <<machine, nodes, leaving>> /\ RowRest

\* UpdateMachine writes every column: those of the row that was read, or the ones
\* an enrollment puts there.
EditSave ==
    /\ form # NoForm /\ form' = NoForm
    /\ \/ machine' = machine
       \/ /\ Exists(form.machine)
          /\ \/ machine' = [machine EXCEPT ![form.machine] =
                               [status |-> form.status, secret |-> form.secret]]
             \/ /\ form.machine \notin Members
                /\ machine' = [machine EXCEPT ![form.machine] =
                      [status |-> IF form.status = "Deployed" THEN "Deployed" ELSE "Online",
                       secret |-> TRUE]]
    /\ UNCHANGED <<nodes, leaving>> /\ RowRest

----------------------------------------------------------------------------
(* The process.                                                              *)

Crash ==
    /\ up /\ crashes < MaxCrashes
    /\ up' = FALSE /\ ready' = FALSE /\ crashes' = crashes + 1
    /\ caller' = [c \in Callers |-> Idle]
    /\ slots' = 0
    /\ pc' = [i \in Tasks |-> IF pc[i] = "none" THEN "none" ELSE "gone"]
    /\ leaving' = {} /\ form' = NoForm
    /\ UNCHANGED <<dbVars, nodes, secret>>

ProcRest == UNCHANGED <<lastId, machine, cred, nodes, leaving, form, caller, slots, pc,
                        secret, crashes>>

\* Variant: only running tasks are failed.
RestartFailingRunning ==
    /\ ~up /\ up' = TRUE
    /\ task' = [i \in Tasks |-> IF task[i].status = "running"
                                THEN [task[i] EXCEPT !.status = "failed"] ELSE task[i]]
    /\ UNCHANGED ready /\ ProcRest

\* Init: FailActiveMachineNodeDeployTasks, which touches task rows only; its
\* failure is only logged.
Restart ==
    /\ ~up /\ up' = TRUE
    /\ \/ task' = [i \in Tasks |-> IF Active(i) THEN [task[i] EXCEPT !.status = "failed"]
                                                ELSE task[i]]
       \/ DbMayFail /\ task' = task
    /\ UNCHANGED ready /\ ProcRest

\* The apiserver answers and main calls SetRestConfig.
BecomeReady ==
    /\ up /\ ~ready /\ ready' = TRUE
    /\ UNCHANGED <<task, up>> /\ ProcRest

----------------------------------------------------------------------------
Init ==
    /\ task = [i \in Tasks |-> [status |-> "none", machine |-> NoMachine]]
    /\ lastId = 0
    /\ machine = [m \in Machines |-> [status |-> "Online", secret |-> m \notin Members]]
    /\ cred = {} /\ nodes = {} /\ leaving = {} /\ form = NoForm
    /\ caller = [c \in Callers |-> Idle]
    /\ slots = 0
    /\ pc = [i \in Tasks |-> "none"] /\ secret = [i \in Tasks |-> FALSE]
    /\ up = TRUE /\ ready = FALSE /\ crashes = 0

Ask(c) == \E m \in Machines : AskDeploy(c, m) \/ AgentConnects(c, m)
Request(c) == AcquireSlot(c) \/ CreateTask(c) \/ CreateRefused(c) \/ FirstLog(c)

Run(i) ==
    \/ Load(i) \/ Start(i) \/ MarkDeploying(i) \/ FindKeys(i) \/ Deploy(i)
    \/ SaveCredential(i) \/ MarkDeployed(i) \/ MarkFailed(i)
    \/ Closes(i, "succeed", "succeeded") \/ Closes(i, "close", "failed")
    \/ DeployPanics(i)

Administer(m) ==
    \/ AddMachine(m) \/ DeleteMachine(m) \/ RemoveNode(m) \/ RemoveMember(m) \/ EditRead(m)

Next ==
    \/ \E c \in Callers : Ask(c) \/ Request(c)
    \/ \E i \in Tasks : Run(i)
    \/ (\E m \in Machines : Administer(m)) \/ EditSave
    \/ Crash \/ Restart \/ BecomeReady

Spec == Init /\ [][Next]_vars

(* A handler and a deployment go on: every step is a database call or runs under *)
(* a deadline (machineNodeDeployTimeout), and a process that died is started      *)
(* again.                                                                         *)
FairSpec ==
    /\ Spec
    /\ \A c \in Callers : WF_vars(Request(c))
    /\ \A i \in Tasks : WF_vars(Run(i))
    /\ WF_vars(Restart)

----------------------------------------------------------------------------
MachineStatus == {"absent", "Online", "Deploying", "Deployed", "Failed"}
Row == [status : {"none", "pending", "running", "succeeded", "failed"},
        machine : Machines \cup {NoMachine}]
Place == {"none", "load", "start", "mark", "keys", "deploy", "save", "deployed", "succeed",
          "fail", "close", "gone"}

(* Every variable stays in its type, and no more slots are taken than there are. *)
Types ==
    /\ task \in [Tasks -> Row]
    /\ lastId \in 0..MaxTasks
    /\ machine \in [Machines -> [status : MachineStatus, secret : BOOLEAN]]
    /\ cred \subseteq Machines
    /\ nodes \subseteq Machines
    /\ leaving \subseteq Members
    /\ form \in [machine : Machines \cup {NoMachine}, status : MachineStatus, secret : BOOLEAN]
    /\ caller \in [Callers -> [at : {"idle", "asked", "slot", "created"},
                               machine : Machines \cup {NoMachine}, task : 0..MaxTasks]]
    /\ pc \in [Tasks -> Place]
    /\ secret \in [Tasks -> BOOLEAN]
    /\ up \in BOOLEAN /\ ready \in BOOLEAN /\ crashes \in 0..MaxCrashes
TypeOK == Types /\ slots \in 0..Slots

(* Two deployments never work on one machine, whatever asks for them: the page, *)
(* a repair, a member that reconnects, also after a failed call or a restart.    *)
OneDeployment ==
    \A i, j \in Tasks : Working(i) /\ Working(j) /\ task[i].machine = task[j].machine => i = j

(* The table of tasks is the lock of ReleaseLock, for machines: a deployment is       *)
(* opened only when none is open on its machine, touches machine and row only while   *)
(* its task is open, and the outcome it is closed with is final, through failed        *)
(* calls, panics, removals and restarts.                                               *)
LockState(row) ==
    CASE row.status = "none" -> "unused"
      [] row.status \in {"pending", "running"} -> "open"
      [] OTHER -> row.status
Touches(i) == Working(i) /\ pc[i] \notin {"succeed", "close"}
Lock == INSTANCE ReleaseLock WITH
    Releases <- Machines,
    Operations <- Tasks,
    NoRelease <- NoMachine,
    state <- [i \in Tasks |-> LockState(task[i])],
    release <- [i \in Tasks |-> task[i].machine],
    working <- {i \in Tasks : Touches(i)}
DeploysUnderLock == Lock!Spec

(* The semaphore holds one slot for each handler that has taken one and each      *)
(* goroutine that has inherited one: no path through failures and panics leaks    *)
(* a slot, which would in the end refuse every deployment, or gives one back twice. *)
SlotsExact ==
    slots = Cardinality({c \in Callers : caller[c].at \in {"slot", "created"}})
            + Cardinality({i \in Tasks : Working(i)})

(* An SSH machine never loses its last way in: its own secret is only removed      *)
(* together with storing the managed one, whatever edits and deletions interleave.  *)
KeysNeverLost ==
    \A m \in Machines \ Members : Exists(m) => machine[m].secret \/ m \in cred

(* A task that is shown as active, and refuses every further deployment of its      *)
(* machine, is being served: by the handler that created it or by its goroutine.     *)
NoStrandedTask ==
    up => \A i \in Tasks : Active(i) =>
             Working(i) \/ \E c \in Callers : caller[c].at = "created" /\ caller[c].task = i

(* While the process has not crashed, and nobody edits or removes the machine: once   *)
(* no deployment is active, a machine's status tells the outcome of its last one, and  *)
(* an earlier one's late write never covers it.                                         *)
LastTask(m, i) ==
    task[i].machine = m /\ \A j \in Tasks : task[j].machine = m => j <= i
StatusTellsOutcome ==
    \A m \in Machines, i \in Tasks :
        crashes = 0 /\ LastTask(m, i) /\ ~ActiveTask(m) =>
            machine[m].status = IF task[i].status = "succeeded" THEN "Deployed" ELSE "Failed"

(* A member that is not a node, and has no deployment under way, becomes one when it   *)
(* connects.                                                                            *)
ReconnectDeploys ==
    \A m \in Members \ leaving :
        ready /\ Exists(m) /\ m \notin nodes /\ ~ActiveTask(m) => WantsNode(m)

(* It does as long as the process has not crashed.                                      *)
SteadyReconnectDeploys == crashes = 0 => ReconnectDeploys

(* A deployment ends, through panics, refusals and a restart.                            *)
TaskEnds == \A i \in Tasks : Active(i) ~> ~Active(i)

(* One goroutine works on a machine, and the slots and the rows of every kind are what  *)
(* the goroutines at work make them.                                                    *)
DeploymentsExact == TypeOK /\ OneDeployment /\ SlotsExact
(* What a machine's row says is what its last deployment did, and a member that         *)
(* reconnects is asked for again only if it is not a node.                               *)
RowsTellOutcome == StatusTellsOutcome /\ SteadyReconnectDeploys
=============================================================================
