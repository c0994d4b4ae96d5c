# A TLA+ model of CasOS

CasOS (`casosorg/casos`) is one Go binary: an embedded Kubernetes control plane, a
web server, an application store built on Helm, and the code that turns machines
into worker nodes over SSH, WSL or a mesh overlay. It is modelled here in TLA+ in
two layers. The parts that keep state of their own across goroutines, requests,
rows and restarts are state machines, one module each. The handlers, which keep
none and change the cluster, a machine or a row by a sequence of calls, are scripts:
data that say which calls, on what, in which order, and what an error does; one
module runs all of them. TLC checks small instances of both, with liveness; TLAPS proves
the safety properties of both for every instance.

Paths below are relative to `src/`.

## Inventory

### Components that keep state

| Component | Code | State | Operations | Interacts with |
|---|---|---|---|---|
| Helm operation tasks | `object/helm_operation.go`, `controllers/helm.go` | rows of `helm_operation_task` with a unique `active_key`, rows of `helm_operation_log` | create (with takeover of a stale row), start loading, mark installing, touch, add logs, finish, delete failed installs, fail interrupted rows at start | written by handlers, by the operation's goroutine and by the recorder's goroutine |
| Helm operation recorder | `object/helm_operation_recorder.go` | a bounded channel, a batch, `closed`, `batchErr`, a context | RecordLog, the batching loop, Finish | called by every goroutine that logs; writes logs and heartbeats; finishes the row |
| Helm event stream | `store/helm.go`, `store/helm_progress.go`, `store/helm_failfast.go` | a bounded channel of events, three helper goroutines and their contexts | send, launch, stop watcher, stop reporter, diagnose, finish, close; copy to the browser | calls the recorder; shares the channel with Helm, the reporter and the handler |
| Worker node deployment | `deploy/service.go`, `deploy/mesh_agent.go`, `object/machine_node_deploy.go`, `object/machine.go` | task rows, machine rows, managed SSH credentials, a semaphore | ask for a deployment, run it, save the key, set the status, add, edit and delete machines, remove a member | asked by the Machines page, by members that connect, by the local bootstrap |
| Mesh agent sessions | `mesh/agent.go`, the reconnect loop of `mesh/member.go` | the table of sessions, each with pending calls | accept, call, read, ping, close, drop; dial again | used by deployments of members |
| Mesh invites and members | `mesh/hub.go`, `mesh/member.go`, `object/mesh.go`, `deploy/mesh_member.go` | invites, machine and member rows, the membership file of a computer | redeem an invite, take a name, join, restart as a member, leave, remove | feeds agent sessions and machine rows |
| Local node | `deploy/local_node_bootstrap.go`, `deploy/wsl_enroll_job.go`, `wsl/keepalive.go` | a mutex, the job's state, the row, the routes of the host, the keeper's session | bootstrap, enroll, re-enroll after a restart of the distribution | asks for deployments, rewrites machine rows |
| Service load balancer | `server/servicelb.go` | a leader lease, DaemonSets and status of Services in the cluster | list, set up proxies, publish, clean up, sweep | Kubernetes objects that people and other balancers change |
| Certificates of Ingresses | `controllers/certificate.go`, `object/acme.go` | the status in memory, challenge tokens, Secrets, a temporary Ingress | request, answer the challenge, store, attach, upload | goroutines that outlive the request |
| Policies | `object/casbin_enforcer.go`, `controllers/casbin_rule.go` | rows of rules, one enforcer per scope | seed, change, reload | asked by the admission and authorization webhooks |
| DevBox leases | `controllers/devbox_expiry.go`, `controllers/mcp_sandbox.go` | an annotation of a Deployment | extend, keep, reap, delete | agents, people and the reaper |
| Storage classes | `controllers/storageclass.go`, `server/storage_bootstrap.go` | the default mark of classes | add, update, delete, bring local-path | requests that overlap, and the bootstrap |
| Certificates of the control plane | `server/certs.go` | files | check, remove, make, at every start | read by every component of the control plane |
| Domains of an app | `controllers/mcp_tools.go`, `controllers/launchpad.go`, `controllers/ingress.go`, `object/acme.go` | the Ingress of the app: hosts, certificate, version | publish a host, replace all, attach a certificate, delete | agents, the app's form, the Ingresses page, certificate requests |
| Monitor page | `object/monitor.go` | a snapshot of six reads | check, summarize, list issues | the cluster |

### Components that keep their state elsewhere

Launchpad apps (`controllers/app.go`, `image_app.go`, `launchpad.go`), Git builds
(`git_build.go`), templates and compose files (`template*.go`, `compose.go`), databases
(`database*.go`), DevBoxes (`devbox*.go`), the tools of agents (`mcp*.go`), the pages of
cluster objects (`controllers/` and `object/`, one file a kind), rows of machines,
sites, users, tokens and rules, the add-ons brought into the cluster at startup
(`server/*_bootstrap.go`), and the installation of a node on a machine (`deploy/`): each
is a set of handlers that make calls.

Left out as a whole, with the reason in `PROJECT.json`: transformations of charts and
values, Helm repositories and releases, metrics, logs and scans, connection
handling, gateways, utilities, the web interface, vendored code.

### What is hard here

* **Leases by time.** A Helm operation keeps its release only by touching its row
  once a minute; a row that has been silent is handed on while its goroutine may
  still be at work. A sandbox is reaped by a list that is read before a renewal.
* **Check, then act.** `SELECT ... FOR UPDATE` that finds nothing locks nothing;
  default classes are counted before one is deleted; an invite's uses are read and
  written back; an edit writes back a whole row or object it read earlier.
* **Half-failed calls.** A commit whose reply is lost is reported as a failure, and
  retried. A later step of a handler fails after an earlier one took effect, and
  the client asks for the whole again.
* **Crashes.** The process dies with rows active, files half written, objects half
  removed; the next one repairs some of that.
* **Connections that end twice.** A member reconnects before its hub has noticed that
  the old connection is dead; answers come after the caller has left.
* **Channels that are closed.** Three goroutines and Helm's own send on a channel
  that a fourth closes; writers of the recorder race its Finish.
* **Others' objects.** The cluster also belongs to people with kubectl, to
  controllers, to charts: what carries the right name need not be casos' own.
* **Copies.** Enforcers, addresses, statuses and snapshots are copies of what changes.

`PROJECT.json` lists each hazard at its line with the properties that cover it.

## Modules

```
ReleaseLock             what the tables of Helm operations and of node deployments
   ^ refinement         both promise (abstract)
HelmTasks    <- MCHelmTasks          HelmTasks    <- HelmTasks_proofs
NodeDeploy   <- MCNodeDeploy         NodeDeploy   <- NodeDeploy_proofs
MeshSessions <- MCMeshSessions       MeshSessions <- MeshSessions_proofs
HelmStream   <- MCHelmStream         HelmStream   <- HelmStream_proofs
                                     HelmRecorder <- HelmRecorder_proofs
HelmRecorder, HelmStream, MeshSessions                    <- MCGoroutines
MCGoroutines, HelmRecorder_proofs, HelmStream_proofs      <- Goroutines_proofs
LocalNode, ServiceLB, StorageClasses, Certificates, PolicyEnforcer,
DevboxLeases, MeshJoin, ClusterCerts, MonitorChecks,
AppDomains                                                <- MCWatchers <- Watchers_proofs
ApiCalls <- AppScripts <- DevboxScripts <- McpScripts   |
         <- DatabaseScripts <- TemplateScripts          | <- Handlers <- MCHandlers
         <- ClusterScripts, RowScripts, BootScripts,    |             <- Handlers_proofs
            CertScripts, NodeScripts                    |
```

`MCGoroutines` and `MCWatchers` play one of their modules at a time, the others
resting in one state: these parts meet in no variable, only in the cluster's API and
the database, of which each models what it uses. What does interact is in one
module: handlers, goroutine and recorder around a task row; bootstrap, job, keeper
and member around the local node; hub and computers around an invite.

An operator under a comment "Variant:" is the operator after or before it with a
plausible mistake; nothing uses it, except to see which property would notice.

### HelmTasks

`task` is the table `helm_operation_task`; a row is its `status`, `phase`,
`active_key`, release, operation, the origin of its error message, and its age. The
message matters because `HelmOperationTaskHasTerminalOutcomeContext` compares it: it
is the goroutine's own error, the "expired" text of a takeover or the "interrupted"
text of a restart. `logged` are the ids with rows in `helm_operation_log`. `request`
is the handler's place between its two steps. `pc`, `want`, `tries`, `answer` are
the operation's goroutine: from `created` (row inserted, browser not told) through
`start`, `preparing`, `installing`, `draining` and `finishing` to `gone`. `alive`, `beat`,
`missed` are the recorder's goroutine, which goes on flushing and beating while Finish
waits for it; `hung` are the recorders that Finish stopped waiting for, each inside one
call of its driver. `up` and `crashes` are the process.

| Action | Code |
|---|---|
| `LookupAbsent`, `InsertTask`, `RefusedByKey` | `CreateHelmOperationTask` when no active row is found: the lookup and the insert are separate, because the lookup locks nothing |
| `TakeOver` | the same when a stale row is found: one step, because the transaction holds that row's lock |
| `DeleteRead`, `DeleteCommit` | `DeleteFailedHelmInstall`: checks outside; the ids, their logs and the rows in one transaction, which on SQLite's single connection nothing comes between |
| `RequestFails` | a database failure between the steps |
| `Announce`, `AnnounceFails` | `streamHelmOperation`: TASK_ID to the browser, or `finishUnstartedTask` |
| `StartLoading`, `MarkInstalling` | the conditional UPDATEs, with their refusal and their failure, committed or not |
| `PrepareFails`, `HelmReturns` | the ends of the operation that lead to Finish |
| `Drains`, `StopsWaiting` | `Finish` closes the queue and waits for the recorder; after the shutdown timeout it cancels the recorder's context and waits for the grace, and then goes on without it |
| `FinishCommits`, `FinishFails`, `FinishFindsTerminal` | `finishTaskWithRetry`: three attempts, a lost reply, a row that is already terminal |
| `Heartbeat`, `PersistLogs`, `RecorderPanics` | the recorder's goroutine as the table sees it |
| `LateCall` | the one call of a recorder left behind returns, committed or not; the calls after it find their context cancelled |
| `Tick` | time; a row's age saturates at the stale window, since the code asks nothing else |
| `Crash`, `Restart` | the process; `FailInterruptedHelmOperationTasks`, which may fail |

A database transaction is an atomic step, except where the lock it
takes is on a row that does not exist.

### ReleaseLock

A table without rows, keys, clocks or heartbeats: operations open, work, close and
are forgotten. `Open` needs that no other open operation of the release is working.
Two tables implement it. `HelmTasks!Lock` maps an active row to `open` and a goroutine
between StartLoading and Finish to `working` (run HelmTasksTolerant). `NodeDeploy!Lock`
has machines for releases: an active task is `open`, and a goroutine that has loaded
its task and not yet set the machine's last status is `working` (run NodeDeployAnswering). A
deployment has no stale window: the refinement needs no assumption on time,
failures or heartbeats.

### HelmRecorder

A line is its number in the order of acceptance, so duplicates, losses and order are
visible. `RecordBegin` and `RecordEnqueue`/`RecordTimesOut` are the two sides of
the unlock in `RecordLog`; the loop's `select` is `TakeLine`, `FlushTick`,
`HeartbeatTick`, `Drained`; a database call is open between `Flush` and `PersistSucceeds`,
`PersistFails` (committed or not) or `PersistPanics`. `Finish` is `FinishBegins` to
`FinishReturns`. Its shutdown timer is long enough for three database calls;
`spent` counts the calls Finish has waited for, so that the timer fires in the
fourth, or in any call when the driver hangs.

### HelmStream

`runner` is the goroutine; `sending` and `after` are the event it is about to send
and the place it continues from, since every send may block. `reporter` and
`watcher` are the helpers, `helm` is the goroutine inside Helm's `RunWithContext`
(external; modelled from helm.sh/helm v3, which returns when the context is done and
leaves its goroutine running; `LogsLate` says whether it may log after that). `Push` is the select of `send`: room
in the channel, or the end of the request. `Fails` and `FinishError` are
`finishWithError`: send the error, then Finish. Suppressed repetitions of a log line
change nothing and are left out.

### NodeDeploy

`task`, `machine`, `cred` are the tables; a machine row is its status and whether it
has a secret of its own. `caller` is a handler between taking a slot, inserting the
row and writing the first log line; `pc` is the deployment's goroutine, one place per
database call or remote step; `secret` is what it read from the row it loaded.
`nodes` is the cluster: machines whose kubelet serves. `form` is a machine row read by
an edit and written back later with every column (`UpdateMachine`, `AllCols`).
`leaving` are members in the middle of `RemoveMeshMember`. Failures of a deployment
go through `fail` (set the status) and `close` (finish the task), as the code does.
Phases, progress lines and the host's firewall are left out.

### MeshSessions

A session is one connection with its two ends. The hub's end is `phase`: the request
is `asked`, its credential `verified`, the connection `upgraded`, `open` once it is in
`table` (`agentSessions`), `closing` between the two halves of `close` (the done
channel; the socket and `CompareAndDelete`), `closed`. `replaces` is the older session
the handler has swapped out and not closed yet. `wire` says whether the network still
carries the connection: it breaks without either end being told, and each notices
by itself (`HubNotices` is a failed read or ping, `MemberNotices` a failed read). The
member's end is `dialing` and `link`, with `RunAgent`'s endless loop: a new `Dial` is
possible as soon as the member has given the old connection up, whatever the hub
thinks. `Unused` sessions are used again, so that two names are an old and a new
connection over any number of reconnects.

A call is `at` a place of `AgentSession.Call`, with its session, its number `id` and
its channel `box`; `pending` is the session's table of channels. `request` is what the
call put on the wire: sent, running on the member, answered. The session's reader
takes the channel out of the table (`TakesAnswer`) and sends after the unlock
(`GivesAnswer`). A request is identified by the call it was made for, so that an
answer that reaches another call is visible; the code only compares numbers.

`RemoveMeshMember` is `DeleteMeshMember`, `DropAgentFinds`, `DropAgentCloses`; `spanned`
are the sessions whose handler had read the credential before the deletion and had not
entered the table when DropAgent looked. `RemovedIsOut`, a part of `SessionsExact`, makes an exception of
them: the code keeps such a session until its connection ends.

`request[c].late` is a request whose `TimeoutSeconds` is not positive, because its call
was made more than a second after its deadline (`mesh/agent.go:178`). The member runs
it without a timeout, although the comment on `AgentRequest` (`mesh/agent.go:36`) says that
a command the hub gave up on does not keep running. `GivenUpStops`, a part of `CallsEnd`, speaks of the
other requests. Last-seen times, the deployment of a member that connects (it is in
NodeDeploy) and a restart of either process are left out; a restart of the hub is,
for a member, a connection that breaks.

### ServiceLB, StorageClasses, Certificates, PolicyEnforcer

`ServiceLB` is the leader's cycle: `List` (nodes, Services, DaemonSets), then for each
Service `SetProxy`, `ReadPods`, `Publish` or `Clean` or `Skip`, then `Sweep`. Services
change kind, nodes and proxies come and go, calls fail (`Errs` goes on with the next
Service, as the code collects errors), another instance takes the lease, or casos
starts without the balancer and tidies up once. Objects it listed are in `seen`, `had`,
`upSeen`, apart from what they are by then.

`StorageClasses` has requests that overlap, each between looking at its class (`Check`),
looking for another default (`RequireAnother`) and writing with the version the cluster
compares, beside the bootstrap's own steps. The bootstrap runs once per start, unless the
provisioner is disabled, and gives up at the first error, which is only logged. `was`,
`other` and `seen` are what a request has looked at: `Stale` says that it is not so any more.

`Certificates` has two requests to Let's Encrypt with every step that leaves something
behind (account, token, route, secret, reference), uploads, the status in memory, and
restarts. `FindAccount` and `MakeAccount` are `ensureACMEAccountKey`: whatever keeps it from
reading a key it makes one, stores it over whatever is there by then, and goes on with it
even if it could not be stored. The Ingresses page writes the Ingress without its
certificate (`UpdateIngress`) and the Secrets page deletes the Secret (`DeleteSecret`);
neither touches the status.

`PolicyEnforcer` has the rows, the copies, and the two steps of a reload, of requests that
overlap. Three variables are history: how often a scope's rules have `changed`, how many of
these changes the copy in place had seen when it was read (`placed`), and the scopes where
such a copy was replaced by one that had seen fewer (`older`).

### AppDomains

One app's Ingress: its hosts, those its certificate covers, and its version, which every
update sends. `edit[e]` is what an editor is doing: an agent's tool (`AgentReads`), the
app's form (`FormSends`), the Ingresses page (`PageReads`) or a certificate request
(`CertificateReads`), with the hosts it is going to write and the Ingress it `saw` last.
Tool and form go through `reconcileAppIngress`, which reads the Ingress once more
(`Looks`) and writes or deletes it; the tool's hosts are those of its own, earlier
reading, and `first` is the version it had then. Changes overlap. Ports, paths, classes
and labels are left out; whose the Ingress is, and what is done with it besides, is in
AppScripts.

### DevboxLeases, MeshJoin, LocalNode

`DevboxLeases` has one box with its lease and parts, and agent, person and reaper each
between a read and what they do about it. `MeshJoin` has two computers with one
hostname, the invite, rows and credentials; a transaction is one step with SQLite's
single connection and a read and a write with MySQL's snapshots; answers are lost,
casos restarts into the membership it saved, an administrator or the member itself
ends it. `LocalNode` has the four goroutines that enroll the distribution, each between
finding out the address and saving it, the mutex three of them share, and
restarts of the distribution, each of which changes the address.

### ClusterCerts, MonitorChecks

`ClusterCerts` is `ensureCerts` and what follows it until the server serves, stage by
stage; a stage reads the directory and leaves file operations in `todo`; the process
may end between any two of them or in the middle of a write. Keys are numbers, and
a certificate names the key it is for and the authority that signed it.
`MonitorChecks` reads its lists one by one from a `world` that changes, and computes
checks, summary and issues from what it got, as three functions of one snapshot. Of the
warnings a list holds the newest (`MaxEvents`, 500 in the code); one that names no object
has no issue, and warnings add no issues to as many as `MaxIssues` (50), from the newest on.

### Scripts and Handlers

A call (`ApiCalls`) is a record: what is done, to which objects, whether somebody
else's object is taken, refused, spared or a reason for the other branch, which
labels a new or updated object gets, whether an existing object is an error, and what
an error does: it ends the handler, ends it with its deferred calls, makes it take its
other branch, is ignored, or is told at the end. A script is a sequence of calls,
with the calls of its deferred functions and its other branch. Its names are those of
the functions in the source; a helper that several handlers share is one sequence.

`Handlers` gives calls their meaning. `cluster` maps objects to the label they carry
(`casos`, `plain`: no label, `foreign`: somebody else's, `none`) and to their last writer;
`scene` is what was asked for and of whom, with the script of each request;
`calls` is each request: where it is, what it has read, how it ended. `Reads`, `Creates`,
`Updates`, `Deletes`, `Lists`, `Treats` and `Runs` are one API call each; updates carry the
version that was read, unless the code sends none; `Writes` may lose its answer;
`Fails`, `Dies`, `Meddle` are a call without effect, the end of the process, and
somebody else's change. `Again` is a client that got no ok and asks once more.

Objects of one kind that a handler treats alike are one object; a command on a
machine or in a container is `Run`, which changes nothing here.

## Runs

| Run | What it shows | Bounds and distinct states |
|---|---|---|
| HelmTasksHostile | one active row and exact keys, outcomes final, success truthful, takeovers only of silent operations, deletion keeps a release off the list, logs of a deleted row only from an expired operation or from a call that Finish left behind | 1 release, 2 handlers, 2 rows, window 2, 1 missed heartbeat, 1 crash, everything may fail (2,662,001) |
| HelmTasksTolerant | `OneLivePerRelease`, refinement of `ReleaseLock`, a release is always freed | 1 handler, 2 rows, window 3 > (1 missed + 1) x 1, 1 crash, recorders do not panic; fair (475,654) |
| Goroutines | recorder: no send on closed, no duplicate, no silent loss; Finish returns with a hung driver. Stream: the outcome recorded first, said last and once; every operation ends. Mesh: a member is reachable once the network holds, calls of lost connections return, commands given up on stop | 2 writers, batches of 2, 7 lines; channel of 2, 5 lines, a Helm goroutine left behind does not log; 1 machine, 2 sessions, 1 call; fair (185,507) |
| MeshSessions | the table stays truthful, a removed machine is out, a call gets its own answer, nothing pending is left behind | 1 machine, 2 sessions, 2 calls, any number of breaks and reconnects, a removal (3.9 million) |
| NodeDeployHostile | one deployment per machine, exact slots, the last credential is never lost | 2 machines (a member, an SSH host), 2 callers, 2 slots, 2 tasks, 1 crash, edits and removals, everything may fail (4.7 million) |
| NodeDeployAnswering | refinement of `ReleaseLock`, no stranded task, every task ends; before a crash the status tells the outcome and a member that connects is deployed | database answers, panics, 1 crash, no edits or removals; fair (42,857) |
| Handlers | an ok means done; others' objects stay; labels stay; nothing written over unseen; mounts stay; who asks again gets there | every script: on the cluster it is made for with one failure, lost answer or restart and one change by somebody else; on all clusters that differ from that in one object, with one failure; with two failures for `AskedIsReached`; with two changes by others where the script looks whose an object is before it removes it; any two of six handlers of apps and of four of databases together; fair (439,299) |
| Watchers | see below | ten modules, 1 failed call or restart, small sets of 1 or 2, two requests that overlap, limits of 2 issues and 2 warnings; fair (401,232) |
| HelmStreamOutliving (violated) | Helm's goroutine can send on the closed channel | 2 lines |
| NodeDeployStranded (violated) | a failed first log line strands the task | database may fail |
| ClusterCertsCrashed (violated) | a start cut short leaves a chain that does not fit together | 1 crash |
| ServiceLBPublished (violated) | a Service switched off keeps publishing nodes | 1 failed call; fair |

The properties of Watchers:

* `Converges`: once the cluster is quiet, managed Services publish the ready nodes with a
  proxy, and others keep no proxy.
* `LoopsCareful`: while no call fails, a Service that publishes a node has its proxies, by
  which a later cycle finds it (`Proxied`); on a host of its own, bootstrap, job and
  keeper are busy with the distribution one at a time, up to the node that is deployed
  (`OneAtATime`).
* `HostFollows`: row and routes of the local node end up at the address the distribution
  has, and a job ends.
* `DefaultStays`: the last default storage class goes only by a write whose look at the
  classes is out of date by then, of a request or of the bootstrap, and a bootstrap that
  succeeds leaves a default class, unless its look was.
* `BoxStays`: a box that is kept stays with all its parts, unless agent or reaper act on an
  older look.
* `Settled`: whenever no request is under way, the webhooks ask the rules that are stored,
  except in scopes where an older copy replaced a newer one.
* `Certified`: a certificate told to be issued has been stored and used, and only a page has
  taken it away since; when no request runs no challenge is answered and no route is left.
* `JoinKept`: an invite admits no more than it says, the membership of a computer is one
  the hub knows, and the hub has no machine that nobody uses without a failure.
* `CertsHeal`: a start past the serving certificate has its authority, and without a crash
  the whole chain, whatever directory it found.
* `PageAgrees`: checks, summary and issues of one snapshot do not contradict each other, and
  an object of which a warning was listed has an issue, up to the limit of issues.
* `DomainsStay`: however changes of an app's domains overlap, an agent that publishes one
  takes no other away, unless another change came between its two looks.
  `CertificateStays`: what a tool or the form writes leaves the certificate as it is by then.
* `PartsSettle`: requests for certificates end, the copies of the rules come to be the rows,
  and boxes whose lease ran out go (`CertificateEnds`, `Enforced`, `Reaped`). `Reaped` speaks
  of runs without a failed call: the code does not come back to a box whose Deployment is
  gone and whose other parts are not.

`PartsSettle`, and in Goroutines `GoroutinesEnd` (`RecorderFinishes`, `OutcomeComes`,
`CallsEnd`), are conjunctions of one liveness property per part. For each conjunct its
module has a variant of the code that only this conjunct refutes.

**Why the bounds are enough.** Every property of the tasks and deployments relates at
most two rows of one release or machine. A stale window of 2 with one missed
heartbeat is the smallest in which a live operation loses its release; 3 the smallest
in which it cannot. Batches of 2 make a full batch, a partial batch and a queue of 4
reachable, so that all four database calls that compete for the shutdown timer
occur. Machines share nothing in the hub but the table, which is keyed by machine;
two sessions of one are the old and the new connection, and two calls on one session
are needed and enough for an answer to meet the wrong one. A channel of 2 fills with
one more line than the browser has read. One crash between any two steps covers what
a second crash would repeat. A handler touches an object by name, so one object of
each kind it treats differs from none and from more only where it lists; one failure
at every call is every partial effect, and a second one is a retry that fails again.
The cycles of the load balancer, the reaper and the keeper repeat, and each treats
its objects one by one: one Service and one node, changed twice, meet every step of a
cycle. Two names, two computers, two requests are the smallest in which they compete. With limits of two
issues and two warnings a page reaches both with what one snapshot can hold.
Symmetry is used only for safety, over handlers, releases, calls and callers that no
action distinguishes.

**Deadlock** is checked in the NodeDeploy runs. Elsewhere operations, requests,
restarts and edits come to an end, and then the system may rest.

**What runs exclude.** HelmTasksTolerant excludes dying recorders and long losses of the
database, under which two operations on one release are possible by design of the
lease (`TakeoverOnlyOfSilent`, in the hostile run, says exactly when).
NodeDeployAnswering excludes edits and removals, and `RowsTellOutcome` speaks of the time
before a crash, because each of these overwrites a machine's status. Goroutines
excludes log lines of a Helm goroutine that was left behind by its cancelled call,
which HelmStreamOutliving is about. In Handlers
two requests run together for ten handlers of apps and databases and without failures;
for the rest somebody else's changes stand for the other request. `OkMeansDone` and
`MountsStay` speak of a handler that runs alone: a creation and a deletion of the same
app or database at once may leave it without what it mounts. Properties name what they
except: see "Known divergences".

## Fairness

* HelmTasks: `Tick`, every goroutine's steps and heartbeats are weakly fair: the calls
  have deadlines (`helmInstallOperationDeadline`, the five-second persistence
  timeouts). Handlers and crashes are not fair. One call is not under a deadline: the
  send to a browser that does not read.
* HelmRecorder: the goroutine's `select` is fair to a line that waits and to the
  closed channel (strongly, because heartbeats and flushes compete with them); a writer leaves its
  `select`; Finish goes on. With `DriverHangs` no database call has to return, and
  `RecorderEnds` assumes in its own antecedent that they do.
* HelmStream: the runner, the deadline and the reporter's and watcher's ends. The
  reporter's end is strongly fair, because it may report again before it looks. The
  browser reads or leaves.
* NodeDeploy: handlers, deployments (`machineNodeDeployTimeout`) and a restart after a
  crash.

* MeshSessions: members, handlers, readers, callers and the member's timers go on:
  reads and writes have deadlines (`agentReadWait`, `agentWriteWait`) and the backoff of
  a dial is at most a minute. A command on a member need not end by itself, a call's
  own deadline need not come, and removals need not happen. `Reachable`
  assumes that the network and the database stop failing at some time.
* Watchers: loops and goroutines run on, and their calls return, within deadlines or
  with an error. Go's mutex wakes who has waited longest, so that the steps of
  LocalNode are strongly fair. Someone leads as long as casos runs, the clock goes on,
  other load balancers do their work. Failures, edits, restarts and requests are not
  fair. That what is under way ends (`Ends` of Certificates, `HostFollows`) is stated as
  `[]<>~P`, which is `P ~> ~P`.
* Handlers: a goroutine runs on, and a client that was told of an error, or not
  answered, asks again.

## Findings

Four runs show that the code does not do what its comments say. The counterexamples
are short and each is quoted in `PROJECT.json`.

1. `store/helm.go:1796`. The goroutine waits for everything that holds `sendLog`
   before it closes the channel, except Helm's own goroutine, which holds it too and
   survives a cancelled `RunWithContext`.
2. `deploy/service.go:124`. A task whose first log line cannot be written stays
   pending with nobody serving it, and refuses every later deployment of its machine.
3. `server/certs.go:155`. A start that ends between `admin.crt` and `admin.key`, or while
   a broken authority is being removed, leaves files that later starts take for a
   consistent chain.
4. `server/servicelb.go:182`. A Service switched off by annotation whose clean-up fails
   loses its proxies to the sweep all the same, is not recognized any more, and keeps
   publishing its nodes.

### Known divergences

These are excepted by name in a property, or excluded by a constant; the module has the
property that fails without the exception.

* `store/helm.go:1692`: a browser that stays connected and does not read holds the
  operation's goroutine in `send`, although the operation is said to be independent of
  the request (`RunnerEnds` of HelmStream under its `FairSpec` lets the browser read or leave).
* `deploy/mesh_agent.go:140`: a crash leaves a machine's status at Deploying, and a member
  with that status is skipped when it reconnects (`ReconnectDeploys` of NodeDeploy).
* `deploy/mesh_member.go:25`: on a member of a cloud the runner of the hub's commands
  prepares the distribution and writes its row under a mutex of its own, beside the
  keeper that holds the one of `deploy/local_node_bootstrap.go:56` ("One run at a time: two
  would fight over wsl --shutdown and over the machine record they both write."). `OneRun` of
  LocalNode fails in mode "member" after one restart of the distribution. The runner also
  keeps the address it found first (`MemberFollows`).
* `controllers/mcp_tools.go:803`: `mcpPublishDomain`, which is said to keep "the hosts it
  already answers on", adds its host to those it read before `reconcileAppIngress` reads the
  Ingress again; a host added in between is dropped, and the version sent is the last one,
  so that the cluster does not refuse (`HostsKept` of AppDomains without `Overtaken`).
* `controllers/ingress.go:224`: the Ingresses page writes an Ingress without the certificate
  that is attached to it; `CertificateStays` speaks of the tool and the form.
* `controllers/storageclass.go:141`: two overlapping changes may each count the other's
  class, and the last default goes (`DefaultStays` of StorageClasses without `Stale`).
* `object/casbin_enforcer.go:34`: of two overlapping reloads the older copy may be put in
  place last, until the next reload (`Agreed` of PolicyEnforcer without `older`).
* `controllers/certificate.go:111`: an upload sets the status "issued" while a request runs,
  and lets the next one start beside it (`OneFlow` without its antecedent).
* `controllers/ingress.go:224`, `controllers/secret.go:178`: the status of a certificate stays
  "issued" after a page has taken the certificate away (`Issued` of Certificates with "used"
  for its tls, and without `Taken`).
* `object/acme.go:242`: the account's key is written over one that another request has made
  in the meantime, and a key that could not be stored is used all the same; nothing is lost
  by that but the authorizations of the other account.
* `server/bootstrap.go:43`: the default storage class is brought once per start; after an
  error there may be none until casos restarts. No property promises one.
* `object/helm_operation_recorder.go:135`: a call that a driver keeps beyond the grace may add
  logs to a row that was closed, and even deleted (`OrphanLogsOnlyLate` names it).
* `controllers/devbox_expiry.go:112`: a sandbox that is kept after the reaper has listed it
  is deleted all the same (`KeptStays`).
* `object/mesh.go:97`: on MySQL the last use of an invite may be spent twice (`InviteKept`).
* `object/monitor.go:316`: with an apiserver that does not answer the page is critical for
  want of nodes, while the check of the apiserver says unknown; lost claims, one of two
  nodes and one of two DNS pods are critical issues beside a warning; a cluster
  without nodes, a database that does not answer and other pods of the system have a
  check and no issue. `PageAgrees` speaks of the rest.
* The lists in Handlers name who does not give each promise: handlers that log errors
  and answer ok (`Logging`), take a failed listing for an empty one (`Unlisting`), or step
  aside (`Yielding`); that do not look whose an object is (`Unguarded`); that replace an
  object with its labels (`Unlabelling`); that write without a version (`Unseeing`); and
  that find in their own way what they left behind before, as a Git build that is still
  running (`Blocked`).

## Proofs

Eight modules hold theorems. They are proved for all values of the constants under the
named assumptions of the modules, which TLC evaluates in the runs: `BoundsAssumption`
(HelmTasks) and `DeployAssumption` (NodeDeploy): bounds are naturals, window and
interval positive, flags Boolean, members are machines; `MeshAssumption`
(MeshSessions): `None` and the words for answers are no machines, sessions or calls,
and calls are finitely many; `PartsAssumption` (MCWatchers: names of requests, computers and
addresses are not the marks for none or for others' ones); `ScenesAssumption`
(Handlers): scripts are scripts, shorter than `Over`, and failures are counted. Where a theorem needs more, it says so:

* `Benign` (HelmTasks): recorders do not panic, and
  `(MaxMissed + 1) * HeartbeatEvery < StaleAfter`. With the code's minute and eleven
  minutes that is up to nine refused heartbeats in a row.
* `~DbMayFail`, `Answering` (NodeDeploy): database calls return; and nobody edits or
  removes machines. The run NodeDeployAnswering has these values; without the first
  NodeDeployStranded refutes the property.
* `~LogsLate` (HelmStream): Helm does not log after it has returned;
  HelmStreamOutliving refutes the property without it.
* `Careful` (Handlers): a script whose handler is not named as an exception passes the
  test of its calls that the property rests on: it tells errors (`Telling`), writes
  without a version only before it looks (`Cautious`), does not replace
  labels, does not remove by name alone, and removes what is mounted only after what mounts
  it, of the workloads in the scene (`Orderly`). The theorems hold for any scripts, objects
  and scenes with that. It is a statement about constants, true of the scenes of MCHandlers, that is
  of every script of the repository, where TLC evaluates it to TRUE in seconds.

### HelmTasks_proofs

| Theorem | Statement | Argument |
|---|---|---|
| `TypeCorrect` | `Spec => []TypeOK` | the rows each update builds are rows; one step per action |
| `KeyHeldWhileActive`, `OneActive`, `KeysAlwaysExact` | `Spec => []KeyIffActive`, `[]OneActiveRow`; with the types, `[]KeysExact` | neither is inductive alone: a second active row is refused only because the first holds the key, and a takeover keeps the key exact only because the taken row was the only active one. The invariant is `Keys == TypeOK /\ KeyIffActive /\ OneActiveRow` (`KeysInductive`) |
| `OutcomesFinal` | `Spec => TerminalIsFinal` | lemma `RowLife`: every step keeps a row, creates it, moves it on while active, ends it while active, or deletes a failed install. It needs `UnusedAhead`: rows beyond the counter are unused, so an insert overwrites nothing |
| `DoneTruthful` | `Spec => []DoneMeansSucceeded` | `Told`: an answer "done" belongs to a goroutine that is gone and a row that succeeded, which by `RowLife` stays so |
| `TakeoverOfSilent` | `Spec => TakeoverOnlyOfSilent` | `Heard`: while an operation works and its recorder lives, the row is no older than the ticks since the last heartbeat that was due, plus an interval for each heartbeat refused since |
| `Exclusion` | `Spec => []OneLivePerRelease`, assuming `Benign` | `Held`: a live operation's row is active, its recorder runs and the row is younger than the window; `Down`: nothing runs while the process is down. Then two live operations would be two active rows |
| `LockImplemented` | `Spec => ImplementsLock`, assuming `Benign` | the refinement of `ReleaseLock`: initial states map to initial states, and each action to opening, working, closing or forgetting one operation or to a stutter. That an operation opens only when no other of the release works is `Exclusion`'s invariant |
| `OrphansOnlyLate` | `Spec => OrphanLogsOnlyLate` | `Attended`: a recorder that lives serves an operation whose Finish has not gone on from waiting for it, and the row of such an operation can only have been failed by a takeover, before anybody could delete it. Other logs come only from `LateCall`, of what is `hung` (`LoggedBy`) |
| `DeletedAllOff` | `Spec => DeletedStaysOff` | from `Keys` and `RowLife`: no other row of the release ends in the step that deletes one |
| `PhantomFree` | `Spec => []NoPhantom`, assuming `~DbMayFail` | a goroutine ends only by closing its row or by finding it closed (`EndingSteps`); a restart closes the rest |

### NodeDeploy_proofs

| Theorem | Statement | Argument |
|---|---|---|
| `ServedInductive` | `Spec => [](Types /\ Placed /\ Served)` | a working goroutine's task is active, each created task has one handler, active tasks of one machine are one task, nothing works while the process is down |
| `OneDeploymentAlways` | `Spec => []OneDeployment` | from `Served` |
| `DeploymentsLocked` | `Spec => DeploysUnderLock` | the refinement of `ReleaseLock`: each action opens, works on, closes or forgets one task, or stutters; that a task opens only when no other of the machine is at work is `Served` |
| `LockExcludes` | `Lock!Spec => [](Lock!TypeOK /\ Lock!Exclusion)` | of the abstract lock, for any states and operations; inductive with `LockAlone`: open operations of one release are one |
| `DeploymentsExclude` | `Spec => []Lock!Exclusion` | from the two before |
| `KeysKept` | `Spec => []KeysNeverLost` | strengthened with what an edit's form and a loaded row may hold (`FormKeeps`): a secret that was there when the row was read, or a credential that is never removed |
| `DeploymentsAlwaysExact` | `Spec => []DeploymentsExact` | `OneDeploymentAlways`, and `SlotInv`: slots in use are the number of `Holders` (handlers with a slot) and `Workers` (goroutines); each step moves one member between the two sets, adds or removes one, with the cardinalities of the library |
| `NobodyStranded` | `Spec => []NoStrandedTask`, assuming `~DbMayFail` | a handler lets go of an active task only to a goroutine, a goroutine only after closing it |
| `RowsAlwaysTell` | `Spec => []RowsTellOutcome`, assuming `Answering` | `RowsInv`: an active task is its machine's last (`ActiveIsLast`), the status is written before the row is closed (`StatusBeforeRow`), the node serves before the status says so (`NodeBeforeStatus`), a machine that is Deploying is being served (`DeployingIsServed`) |

### MeshSessions_proofs

| Theorem | Statement | Argument |
|---|---|---|
| `SessionsAlways` | `Spec => []SessionsExact` | `TableInv`: who replaces another has entered the table; once a credential is deleted only `spanned` sessions enter (`OnlySpanned`), and DropAgent has found the others or they were closed (`FoundOrSpanned`). `FewNumbers`: a session has given out no more numbers than calls have taken |
| `CallsAlways` | `Spec => []CallsExact` | `CallsInv`: a number on a session belongs to one call (`OneEach`), is one the session gave out (`Counted`), and what is in a call's box or on its way to it is the answer to its own request (`Matched`); a call that has not written has no request (`Unasked`) |

### HelmRecorder_proofs, HelmStream_proofs, Goroutines_proofs

| Theorem | Statement | Argument |
|---|---|---|
| `LinesAlwaysKept` | `Spec => []LinesKept` | `Kept`: batch and queue are the last consecutive pieces of the accepted lines (`Follows`), so what is `Gone` from them is saved, lost with a warning or in the call that is open; `Life`: the channel is closed when no writer is in a send any more |
| `OutcomeAlwaysAgrees` | `Spec => []OutcomeAgrees`, assuming `~LogsLate` | `Alone`: helpers and Helm send only while the runner waits for them, and the channel is closed when it is gone; `Ending`: an end is reached with its outcome as the event sent, and a failure with its error logged; `Told`: what is last on the channel is an outcome, and done only after a row closed as succeeded |

`Goroutines_proofs` restates both for the `FairSpec` that the run checks, where each module
either plays or rests.

### Watchers_proofs

Each theorem is about `MCWatchers!FairSpec`, where the part plays beside resting others.

| Theorem | Statement | Argument |
|---|---|---|
| `JoinAlwaysKept` | `FairSpec => []JoinKept` | `JoinInv`: rows, credentials and saved files are of joins that got that far under that name (`Rows`, `Credentials`, `Saved`, `Asked`), computers that leave still have theirs (`Leaving`), nothing that was joined goes before a removal (`Standing`), without a fault every row is of a join under way or of a computer that saved it (`Owned`); on SQLite uses left and uses spent add up (`Invite`) |
| `PageAlwaysAgrees` | `FairSpec => []PageAgrees` | every list a snapshot holds is of a world of the run's universe, and for each of these lists the functions agree, check by check. For the limit: the issues of warnings shown are those with fewer than `Room` newer ones (`Shown`); if one is not shown, as many are as there is room for (`FullPage`, by cardinalities), and each of them is newer (`NewestShown`). For any limits |
| `DefaultAlwaysStays` | `FairSpec => DefaultStays` | `ClassInv`: a request that is to take the mark or the class away has recorded another default, and the bootstrap what its own mark goes by (`RequestAhead`, `BootAhead`); a step that leaves no default is then one whose record is not so any more. For any number of requests at once |
| `BoxAlwaysStays` | `FairSpec => BoxStays` | `LeaseInv`: a person only keeps, a reaper only deletes, and a reaper whose look is not older than the box has seen a lease on it |
| `OneRunsAlways` | `FairSpec => []OneAtATime` | `Mutex`: who is busy holds the lock |
| `AlwaysProxied` | `FairSpec => []Proxied` | `ProxyInv`: until a cycle has dealt with its list, it has listed or wants every DaemonSet of casos (`Known`), and a Service it neither wants nor has still to deal with publishes no node (`Cleared`) |
| `CertificateAlwaysStays` | `FairSpec => CertificateStays` | `IngressInv`: what an editor has seen is there as long as the version is the same (`SawOf`), and an Ingress without hosts has no certificate (`Bare`). For any number of editors at once |
| `DomainsAlwaysStay` | `FairSpec => DomainsStay` | the same `IngressInv`: as long as the version is the one of its first look, what an agent is going to write has every host there is. For any number of editors at once |
| `LoopsAlwaysCareful` | `FairSpec => []LoopsCareful` | `OneRunsAlways` and `AlwaysProxied`, as the run checks them |
| `AlwaysCertified` | `FairSpec => []Certified` | `CertInv`: by the stage of a request, and of an upload, the Secret has been stored and used before the status says so (`FlowAhead`, `StatusAhead`), its token goes with it, and a route is that of a request that still has to drop it unless something failed (`RouteAhead`) |
| `AlwaysSettled` | `FairSpec => []Settled` | `RuleInv`: who has seen all changes of a scope has seen its rules (`Reading`), and outside of `older` a copy has seen all changes, or some request still has to read the scope or holds a reading that has (`CopyAhead`). For any number of requests at once |
| `CertsAlwaysHeal` | `FairSpec => []CertsHeal` | `Healing`: stated of the directory as it will be when the operations in `todo` are done (`AheadOf`), per stage of the start: `Heals` is what any directory is by then, `Hangs` what it is without a start that was cut short. A stage removes or makes files only where they do not match, so that each stage's certificates hang together and later stages leave them (`OtherFiles`) |

### Handlers_proofs

| Theorem | Statement | Argument |
|---|---|---|
| `AlwaysFresh` | `Spec => []Inv` | what a request has looked at, and nobody has written since, is there; every kind of call is one shape of step (`StepIs`): where the request stands then, what it has learnt, who else is touched, and the effect on the cluster |
| `NothingLostUnseen` | `Spec => NoLostUpdate`, assuming `Careful` | `Unseen`: before an unversioned write of a cautious script, no call has looked at the object (`Remain` are the calls ahead) |
| `LabelsAlwaysStay` | `Spec => OwnersKept`, assuming `Careful` | from the effects of `StepIs` |
| `OkAlwaysMeansDone` | `Spec => []OkMeansDone`, assuming `Careful` | `Tells`, of a handler alone and undisturbed: with no error to tell, what the calls behind it decide is so (`Settles`, `Follows`), a list it treats still holds all that is casos' own (`Swept`), what it fills in where it has seen something is there (`Filled`), and it says ok only at the end and without an error (`Ended`). `Told` and `Carried` are what one call adds |
| `ForeignAlwaysKept` | `Spec => ForeignKept`, assuming `Careful` | `Sure`: what a request is about to remove for being casos' own is no one else's, or somebody has changed it since the look |
| `MountsAlwaysStay` | `Spec => MountsStay`, assuming `Careful` | `Mounted`, of a handler alone that has met no failure: what its calls so far have removed is gone (`Behind`), and what a list of its own still has to treat is on that list (`Emptied`). `Away` is what one call adds; `Countdown` says that a failure, once met, stays counted |

### What stays with TLC

* Liveness under fairness: `ReleaseFreed`, `GoroutinesEnd`, `Reachable`, `TaskEnds`,
  `HostFollows`, `Converges`, `PartsSettle`, `AskedIsReached`. The prover has no rule for the
  fairness of so many actions.
* That the code does not do what its comments say: the four runs that are violated.

## Plan

Done, in this order: HelmTasks with its lock and proofs, HelmRecorder, HelmStream,
NodeDeploy with its proofs, MeshSessions, the scripts and Handlers, the ten modules of
MCWatchers; then theorems for every safety property of the runs. Next:

1. MeshSessions' reconnects composed with NodeDeploy's refusals, for a member that
   connects while all slots are taken.
2. Two requests at a time in Handlers for more than ten of the handlers, with failures;
   a listing with a choice of order makes the pairs with `UninstallImageApp` too many.

## Not modelled

Helm repositories, and rollback and uninstall of releases (single calls of Helm's
library); `ConfigureDatabase`; the synchronization of the template market; scans;
gateways; reads of metrics and logs; the upload of a local directory into a DevBox;
expressions of templates, parsing of compose files, validation of forms and all
conversions between forms and objects; redaction, throttling and paging of log lines;
phases and progress lines of node deployments; the text of files and commands on
a node, and what they do there; Windows features and reboots; headscale, WireGuard, ACME,
casbin, casdoor, Helm and Kubernetes themselves, which appear by the calls made to
them. Two processes on one database are not modelled: the code assumes one (it fails
every active row when it starts); of two instances on one cluster the load balancer's
lease is.
