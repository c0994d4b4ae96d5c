----------------------------- MODULE LocalNode -----------------------------
(***************************************************************************)
(* The WSL distribution that stands in for a Windows host as a node.  It   *)
(* gets another address whenever it restarts.  The bootstrap at startup,   *)
(* the enrollment job a user starts, the keeper of the distribution's      *)
(* session, and on a member of a cloud the runner of the hub's requests    *)
(* each enroll it: they provision sshd, find out the address, and write it *)
(* into the machine's row, the first three one at a time, under a mutex.   *)
(***************************************************************************)
EXTENDS Naturals

CONSTANTS Modes,       \* how casos was set up: "auto", "manual", "member"
          MaxRestarts, \* restarts of the distribution
          MaxFaults,   \* enrollments and deployments that fail
          MaxJobs      \* enrollment jobs a user starts

Attempts == 3  \* localNodeBootstrapAttempts
None     == 0  \* no address

VARIABLES mode,      \* how casos was set up
          addr,      \* the address the distribution has
          row,       \* the machine's row: its address and whether a node is deployed on it
          lock,      \* who holds localNodeBootstrapMutex
          at,        \* actor -> where it is
          seen,      \* actor -> the address it has found out
          attempt,   \* of the bootstrap
          running,   \* the job's state says that it runs
          session,   \* the keeper's session: "none", "held" or "ended"
          cached,    \* the address the member's runner uses
          routes,    \* the address the host's routes into the cluster point at
          restarts, faults, jobs
vars == <<mode, addr, row, lock, at, seen, attempt, running, session, cached, routes,
          restarts, faults, jobs>>
world == <<mode, restarts, jobs>>

Actors == {"bootstrap", "job", "keeper", "member"}

(* casos starts: on a host it has never enrolled, or on one whose node was *)
(* deployed by an earlier run and has restarted since.                     *)
Init == /\ mode \in Modes
        /\ \/ addr = 1 /\ row = [addr |-> None, deployed |-> FALSE] /\ session = "none"
           \/ addr = 2 /\ row = [addr |-> 1, deployed |-> TRUE]
              /\ session = IF mode = "member" THEN "none" ELSE "held"
        /\ lock = "nobody"
        /\ at = [a \in Actors |-> IF a = "bootstrap" /\ mode = "auto" THEN "waiting" ELSE "idle"]
        /\ seen = [a \in Actors |-> None]
        /\ attempt = 1 /\ running = FALSE /\ cached = None /\ routes = None
        /\ restarts = 0 /\ faults = 0 /\ jobs = 0

----------------------------------------------------------------------------
Goes(a, w) == at' = [at EXCEPT ![a] = w]
Release(a) == lock' = IF lock = a THEN "nobody" ELSE lock

(* StartLocalWSLEnrollment: one job at a time, or the state of the one that runs. *)
StartJob ==
    /\ jobs < MaxJobs /\ ~running
    /\ jobs' = jobs + 1 /\ running' = TRUE /\ Goes("job", "waiting")
    /\ UNCHANGED <<mode, addr, row, lock, seen, attempt, session, cached, routes, restarts, faults>>

(* The runner of a member enrolls until it has succeeded once, and uses    *)
(* what it got for good.  It does not take the mutex.                      *)
MemberStarts ==
    /\ mode = "member" /\ cached = None /\ at["member"] = "idle"
    /\ Goes("member", "preparing")
    /\ UNCHANGED <<addr, row, lock, seen, attempt, running, session, cached, routes, faults, world>>

(* The session has ended with the distribution, and has started it again.  *)
SessionResumes ==
    /\ session = "ended" /\ at["keeper"] = "idle"
    /\ session' = "held" /\ Goes("keeper", "waiting")
    /\ UNCHANGED <<addr, row, lock, seen, attempt, running, cached, routes, faults, world>>

Acquire(a) ==
    /\ at[a] = "waiting" /\ lock = "nobody"
    /\ lock' = a /\ Goes(a, IF a = "keeper" THEN "provisioning" ELSE "preparing")
    /\ UNCHANGED <<addr, row, seen, attempt, running, session, cached, routes, faults, world>>

(* The distribution is found or installed; its session is held from then on. *)
Prepare(a) ==
    /\ at[a] = "preparing" /\ Goes(a, "provisioning")
    /\ session' = IF session = "none" THEN "held" ELSE session
    /\ UNCHANGED <<addr, row, lock, seen, attempt, running, cached, routes, faults, world>>

(* sshd is set up and tried at the address the distribution has just now ... *)
Provision(a) ==
    /\ at[a] = "provisioning" /\ Goes(a, "saving")
    /\ seen' = [seen EXCEPT ![a] = addr]
    /\ UNCHANGED <<addr, row, lock, attempt, running, session, cached, routes, faults, world>>

\* Variant: the keeper writes the row and leaves the routes.
SaveRowOnly(a) ==
    /\ at[a] = "saving"
    /\ row' = [row EXCEPT !.addr = seen[a]]
    /\ Goes(a, IF a = "bootstrap" THEN "deploying" ELSE "idle")
    /\ running' = (running /\ a # "job")
    /\ cached' = IF a = "member" THEN seen[a] ELSE cached
    /\ IF a = "bootstrap" THEN UNCHANGED lock ELSE Release(a)
    /\ UNCHANGED <<addr, seen, attempt, session, routes, faults, world>>

(* ... and the row written, after which each goes on as it does: the       *)
(* bootstrap deploys, the job ends, the keeper mends the routes of a node  *)
(* that is deployed, the runner has a machine.                             *)
Save(a) ==
    /\ at[a] = "saving"
    /\ row' = [row EXCEPT !.addr = seen[a]]
    /\ Goes(a, IF a = "bootstrap" THEN "deploying" ELSE "idle")
    /\ running' = (running /\ a # "job")
    /\ routes' = IF a = "keeper" /\ row.deployed THEN seen[a] ELSE routes
    /\ cached' = IF a = "member" THEN seen[a] ELSE cached
    /\ IF a = "bootstrap" THEN UNCHANGED lock ELSE Release(a)
    /\ UNCHANGED <<addr, seen, attempt, session, faults, world>>

Deployed ==
    /\ at["bootstrap"] = "deploying" /\ Goes("bootstrap", "idle")
    /\ row' = [row EXCEPT !.deployed = TRUE]
    /\ routes' = seen["bootstrap"] /\ Release("bootstrap")
    /\ UNCHANGED <<addr, seen, attempt, running, session, cached, faults, world>>

(* A step fails.  The bootstrap tries again, three times in all; the job   *)
(* tells its error; the keeper waits for the next restart.                 *)
Fail(a) ==
    /\ at[a] \in {"preparing", "provisioning", "saving", "deploying"} /\ faults < MaxFaults
    /\ faults' = faults + 1
    /\ IF a = "bootstrap" /\ attempt < Attempts
       THEN Goes(a, "waiting") /\ attempt' = attempt + 1
       ELSE Goes(a, "idle") /\ UNCHANGED attempt
    /\ running' = (running /\ a # "job")
    /\ Release(a)
    /\ UNCHANGED <<addr, row, seen, session, cached, routes, world>>

(* The distribution restarts, for Windows' reasons or for systemd's.       *)
Restart ==
    /\ restarts < MaxRestarts /\ restarts' = restarts + 1
    /\ addr' = addr + 1
    /\ session' = IF session = "held" THEN "ended" ELSE session
    /\ UNCHANGED <<mode, row, lock, at, seen, attempt, running, cached, routes, faults, jobs>>

Step(a) == Acquire(a) \/ Prepare(a) \/ Provision(a) \/ Save(a) \/ Fail(a)
Next == \/ StartJob \/ MemberStarts \/ SessionResumes \/ Deployed \/ Restart
        \/ \E a \in Actors : Step(a)

(* The mutex of Go wakes who waits longest; the rest is goroutines that run. *)
Fairness == /\ \A a \in Actors : SF_vars(Step(a))
            /\ WF_vars(Deployed) /\ WF_vars(SessionResumes) /\ WF_vars(MemberStarts)
FairSpec == Init /\ [][Next]_vars /\ Fairness

----------------------------------------------------------------------------
(* Only one at a time shuts the distribution down, writes its row, or       *)
(* deploys a node on it (local_node_bootstrap.go:56).                       *)
Busy(a) == at[a] \in {"preparing", "provisioning", "saving", "deploying"}
OneRun  == \A a, b \in Actors : Busy(a) /\ Busy(b) => a = b

(* The row and the host's routes end up at the address the distribution    *)
(* has, unless an enrollment failed, and a job does not run for ever.      *)
HostFollows ==
    /\ <>[](mode = "auto" /\ faults = 0 => {row.addr, routes} \subseteq {None, addr})
    /\ []<>~running

(* What the member's runner uses is what the distribution has: the keeper  *)
(* refreshes what a restart invalidates (local_node_bootstrap.go:306).     *)
MemberFollows == <>[](faults = 0 => cached \in {None, addr})
=============================================================================
