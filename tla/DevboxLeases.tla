---------------------------- MODULE DevboxLeases ----------------------------
(***************************************************************************)
(* A sandbox an agent has made, and its lease.  The reaper lists the boxes *)
(* every minute and deletes those whose lease had run out; the agent moves *)
(* the lease or deletes the box; a person takes the lease away, to keep    *)
(* the box.                                                                *)
(***************************************************************************)
EXTENDS Naturals

CONSTANTS MaxTime,    \* the clock stops here
          MaxCalls,   \* of the agent and of the person
          MaxFaults

Kept == 0  \* no lease
Parts == {"service", "extras", "claim"}

VARIABLES now,      \* the clock
          box,      \* the Deployment: whether it is there, its lease, its version
          parts,    \* what else there is of the box
          agent,    \* where the agent's call is, what it is to do, what it has read
          person,   \* the same of the person's
          reaper,   \* and of the reaper
          calls, faults
vars == <<now, box, parts, agent, person, reaper, calls, faults>>

Idle == [pc |-> "idle", do |-> "none", ver |-> 0, to |-> 1]
Init == /\ now = 0
        /\ box \in [is : {TRUE}, lease : {1, Kept}, ver : {0}] /\ parts = Parts
        /\ agent = Idle /\ person = Idle /\ reaper = Idle
        /\ calls = 0 /\ faults = 0

\* Variant: a box without a lease has the earliest one.
ExpiredOrNever == now >= box.lease
Expired == box.lease # Kept /\ now >= box.lease
still == <<now, calls, faults>>

----------------------------------------------------------------------------
Tick == /\ now < MaxTime /\ now' = now + 1
        /\ UNCHANGED <<box, parts, agent, person, reaper, calls, faults>>

(* mcpExtendSandbox, mcpDeleteSandbox: leasedSandbox refuses a box that is *)
(* kept; then each goes on from what the cluster has by then.              *)
AgentCalls ==
    /\ agent.pc = "idle" /\ calls < MaxCalls /\ calls' = calls + 1
    /\ box.is /\ box.lease # Kept
    /\ \/ \E t \in (now + 1)..MaxTime : agent' = [Idle EXCEPT !.pc = "get", !.do = "set", !.to = t]
       \/ agent' = [Idle EXCEPT !.pc = "list", !.do = "delete"]
    /\ UNCHANGED <<now, box, parts, person, reaper, faults>>
PersonCalls ==
    /\ person.pc = "idle" /\ calls < MaxCalls /\ calls' = calls + 1
    /\ person' = [Idle EXCEPT !.pc = "get", !.do = "set", !.to = Kept]
    /\ UNCHANGED <<now, box, parts, agent, reaper, faults>>

(* setDevboxExpiry: the Deployment is read, and written if it is still the *)
(* version that was read.                                                  *)
Read(a)  == /\ a.pc = "get" /\ a.do = "set"
Write(a) == /\ a.pc = "write"
            /\ box' = IF box.is /\ box.ver = a.ver THEN [box EXCEPT !.lease = a.to, !.ver = @ + 1] ELSE box
Seen(a)  == IF box.is THEN [a EXCEPT !.pc = "write", !.ver = box.ver] ELSE Idle
AgentReads   == Read(agent) /\ agent' = Seen(agent) /\ UNCHANGED <<box, parts, person, reaper, still>>
AgentWrites  == Write(agent) /\ agent' = Idle /\ UNCHANGED <<parts, person, reaper, still>>
PersonReads  == Read(person) /\ person' = Seen(person) /\ UNCHANGED <<box, parts, agent, reaper, still>>
PersonWrites == Write(person) /\ person' = Idle /\ UNCHANGED <<parts, agent, reaper, still>>

(* reapExpiredDevboxes lists the boxes, and deletes by what the list says. *)
Reap == /\ reaper.pc = "idle" /\ box.is /\ Expired
        /\ reaper' = [Idle EXCEPT !.pc = "list", !.do = "delete", !.ver = box.ver]
        /\ UNCHANGED <<box, parts, agent, person, still>>

\* Variant: without its Service the rest is left.
UninstallsService(a, next) ==
    /\ a.do = "delete"
    /\ \/ /\ a.pc = "list" /\ UNCHANGED parts
          /\ IF box.is THEN box' = [box EXCEPT !.is = FALSE] /\ next = [a EXCEPT !.pc = "service"]
             ELSE next = Idle /\ UNCHANGED box
       \/ /\ a.pc = "service" /\ parts' = parts \ {"service"} /\ UNCHANGED box
          /\ next = IF "service" \in parts THEN Idle ELSE [a EXCEPT !.pc = "extras"]
       \/ a.pc = "extras" /\ parts' = parts \ {"extras"} /\ next = [a EXCEPT !.pc = "claim"] /\ UNCHANGED box
       \/ a.pc = "claim" /\ parts' = parts \ {"claim"} /\ next = Idle /\ UNCHANGED box

(* uninstallImageApp: the workload by its label, or an error if there is   *)
(* none; then all else that carries the label, whatever failed before.     *)
Uninstalls(a, next) ==
    /\ a.do = "delete"
    /\ \/ /\ a.pc = "list" /\ UNCHANGED parts
          /\ IF box.is THEN box' = [box EXCEPT !.is = FALSE] /\ next = [a EXCEPT !.pc = "service"]
             ELSE next = Idle /\ UNCHANGED box
       \/ a.pc = "service" /\ parts' = parts \ {"service"} /\ next = [a EXCEPT !.pc = "extras"] /\ UNCHANGED box
       \/ a.pc = "extras" /\ parts' = parts \ {"extras"} /\ next = [a EXCEPT !.pc = "claim"] /\ UNCHANGED box
       \/ a.pc = "claim" /\ parts' = parts \ {"claim"} /\ next = Idle /\ UNCHANGED box
AgentDeletes  == Uninstalls(agent, agent') /\ UNCHANGED <<person, reaper, still>>
ReaperDeletes == Uninstalls(reaper, reaper') /\ UNCHANGED <<agent, person, still>>

(* A deletion fails, and the next one is made all the same; or a listing   *)
(* does, and the call ends.                                                *)
Missed(a) == {Idle} \cup CASE a.pc = "list" -> {[a EXCEPT !.pc = "service"]}
                           [] a.pc = "service" -> {[a EXCEPT !.pc = "extras"]}
                           [] a.pc = "extras" -> {[a EXCEPT !.pc = "claim"]}
                           [] OTHER -> {}
Errs == /\ faults < MaxFaults /\ faults' = faults + 1
        /\ \/ agent.pc # "idle" /\ agent' \in Missed(agent) /\ UNCHANGED <<person, reaper>>
           \/ person.pc # "idle" /\ person' = Idle /\ UNCHANGED <<agent, reaper>>
           \/ reaper.pc # "idle" /\ reaper' \in Missed(reaper) /\ UNCHANGED <<agent, person>>
        /\ UNCHANGED <<now, box, parts, calls>>

Restart == /\ faults < MaxFaults /\ faults' = faults + 1
           /\ agent' = Idle /\ person' = Idle /\ reaper' = Idle
           /\ UNCHANGED <<now, box, parts, calls>>

Next == \/ Tick \/ AgentCalls \/ PersonCalls \/ AgentReads \/ AgentWrites \/ PersonReads \/ PersonWrites
        \/ Reap \/ AgentDeletes \/ ReaperDeletes \/ Errs \/ Restart

(* The clock goes on, and the reaper comes every minute. *)
Fairness == WF_vars(Tick) /\ WF_vars(Reap) /\ WF_vars(ReaperDeletes) /\ WF_vars(AgentDeletes)
            /\ WF_vars(AgentReads \/ AgentWrites) /\ WF_vars(PersonReads \/ PersonWrites)
FairSpec == Init /\ [][Next]_vars /\ Fairness

----------------------------------------------------------------------------
(* A box with a lease is gone some time, whatever failed, and all of it    *)
(* unless something did; and one a person keeps stays, with what it holds, *)
(* unless somebody acts on an older look at it -- which the reaper and the *)
(* agent may still do when the person is told it is kept.                  *)
Acting == (reaper.pc # "idle" /\ reaper.ver < box.ver) \/ agent.pc # "idle"
Reaped == <>[](box.lease = Kept \/ (~box.is /\ (faults = 0 => parts = {})))
Stays  == [][box.is /\ box.lease = Kept /\ ~Acting => box'.is /\ box'.lease = Kept /\ parts' = parts]_vars

(* A person takes over what an agent started without it being deleted      *)
(* underneath them (devbox_expiry.go:112).                                 *)
KeptStays == [][box.is /\ box.lease = Kept => box'.is]_vars
=============================================================================
