------------------------------ MODULE MeshJoin ------------------------------
(***************************************************************************)
(* How a computer becomes a machine of a cloud, and leaves it: the invite  *)
(* the hub spends, the machine's row and the member's credential it makes, *)
(* and the membership the computer keeps.  All computers have the same     *)
(* hostname, so that they compete for names.                               *)
(***************************************************************************)
EXTENDS Naturals, FiniteSets

CONSTANTS Computers, Joins,  \* Joins: requests to join
          Names,             \* 1..n: the hostname, and with the suffixes -2, -3 ...
          Databases,         \* "sqlite": one connection; "mysql": snapshots
          MaxUses,           \* of the invite, at most
          MaxFaults, MaxRemovals

Nothing == 0

VARIABLES setup,    \* the database, and how many uses the invite had
          uses,     \* what is left of the invite, by its row
          spent,    \* how many joins it has been spent on
          machine,  \* name -> the join that made the row, or Nothing
          member,   \* name -> the join whose credential it holds
          join,     \* join -> where it is, whose it is, what it has read and taken
          saved,    \* computer -> the join its membership is of
          member_of,\* computer -> it runs as a member: settled when casos starts
          removal,  \* RemoveMeshMember under way: where it is, of which name, for whom
          lost,     \* joins whose answer never came, or came second
          faults, removals
vars == <<setup, uses, spent, machine, member, join, saved, member_of, removal, lost, faults, removals>>

Started == {"invite", "spend", "name", "machine", "member", "answer"}
Init == /\ setup \in [db : Databases, uses : 1..MaxUses]
        /\ uses = setup.uses /\ spent = 0
        /\ machine = [n \in Names |-> Nothing] /\ member = [n \in Names |-> Nothing]
        /\ join = [j \in Joins |-> [pc |-> "none", by |-> CHOOSE c \in Computers : TRUE, seen |-> 0, name |-> 1]]
        /\ saved = [c \in Computers |-> Nothing] /\ member_of = [c \in Computers |-> FALSE]
        /\ removal = [pc |-> "none", name |-> 1, by |-> "admin"]
        /\ lost = {} /\ faults = 0 /\ removals = 0

At(j, pc) == join[j].pc = pc
Goes(j, pc) == join' = [join EXCEPT ![j].pc = pc]
hub == <<setup, member_of, removal, faults, removals>>

----------------------------------------------------------------------------
(* JoinMesh: whoever runs on its own may ask, and may have asked before:   *)
(* the role is settled when casos starts.                                  *)
Ask(j, c) ==
    /\ At(j, "none") /\ ~member_of[c]
    /\ join' = [join EXCEPT ![j].pc = "invite", ![j].by = c]
    /\ UNCHANGED <<uses, spent, machine, member, saved, lost, hub>>

\* Variant: the uses are read before the transaction begins.
ConsumeUnlocked(j) ==
    /\ At(j, "invite")
    /\ IF uses = 0 THEN Goes(j, "over") ELSE join' = [join EXCEPT ![j].pc = "spend", ![j].seen = uses]
    /\ UNCHANGED <<uses, spent, machine, member, saved, lost, hub>>

(* ConsumeMeshInvite, in a transaction: SQLite has one connection, and     *)
(* nobody comes between its two statements; elsewhere the row is read      *)
(* without a lock.                                                         *)
Consume(j) ==
    /\ At(j, "invite")
    /\ IF uses = 0 THEN Goes(j, "over") /\ UNCHANGED <<uses, spent>>
       ELSE IF setup.db = "sqlite" THEN Goes(j, "name") /\ uses' = uses - 1 /\ spent' = spent + 1
       ELSE join' = [join EXCEPT ![j].pc = "spend", ![j].seen = uses] /\ UNCHANGED <<uses, spent>>
    /\ UNCHANGED <<machine, member, saved, lost, hub>>
Spend(j) ==
    /\ At(j, "spend") /\ Goes(j, "name")
    /\ uses' = join[j].seen - 1 /\ spent' = spent + 1
    /\ UNCHANGED <<machine, member, saved, lost, hub>>

(* addMeshMachine looks for a free name and takes it, if it still can. *)
Name(j) ==
    /\ At(j, "name")
    /\ \/ \E n \in Names :
            /\ machine[n] = Nothing /\ \A k \in 1..(n - 1) : machine[k] # Nothing
            /\ join' = [join EXCEPT ![j].pc = "machine", ![j].name = n]
       \/ (\A n \in Names : machine[n] # Nothing) /\ Goes(j, "over")
    /\ UNCHANGED <<uses, spent, machine, member, saved, lost, hub>>
AddMachine(j) ==
    /\ At(j, "machine")
    /\ LET n == join[j].name IN
       IF machine[n] = Nothing THEN machine' = [machine EXCEPT ![n] = j] /\ Goes(j, "member")
       ELSE Goes(j, "over") /\ UNCHANGED machine
    /\ UNCHANGED <<uses, spent, member, saved, lost, hub>>

(* AddMeshMember, or else the machine goes again. *)
AddMember(j) ==
    /\ At(j, "member")
    /\ LET n == join[j].name IN
       IF member[n] = Nothing THEN member' = [member EXCEPT ![n] = j] /\ Goes(j, "answer") /\ UNCHANGED machine
       ELSE machine' = [machine EXCEPT ![n] = Nothing] /\ Goes(j, "over") /\ UNCHANGED member
    /\ UNCHANGED <<uses, spent, saved, lost, hub>>

(* Join saves the membership, over one that may be there, unless casos has *)
(* been restarted meanwhile.                                               *)
Answer(j) ==
    /\ At(j, "answer") /\ Goes(j, "over")
    /\ LET c == join[j].by IN
       IF j \in lost THEN UNCHANGED <<saved, lost>>
       ELSE saved' = [saved EXCEPT ![c] = j] /\ lost' = lost \cup ({saved[c]} \ {Nothing})
    /\ UNCHANGED <<uses, spent, machine, member, hub>>

(* A step of the hub fails, the machine going again if it was the member's *)
(* row; or the answer, or the file that keeps it, is lost.                 *)
JoinErrs(j) ==
    /\ join[j].pc \in Started /\ faults < MaxFaults /\ faults' = faults + 1
    /\ Goes(j, "over") /\ lost' = lost \cup {j}
    /\ machine' = IF At(j, "member") THEN [machine EXCEPT ![join[j].name] = Nothing] ELSE machine
    /\ UNCHANGED <<setup, uses, spent, member, saved, member_of, removal, removals>>

HubDies ==
    /\ faults < MaxFaults /\ faults' = faults + 1
    /\ join' = [j \in Joins |-> IF join[j].pc \in Started THEN [join[j] EXCEPT !.pc = "over"] ELSE join[j]]
    /\ lost' = lost \cup {j \in Joins : join[j].pc \in Started}
    /\ removal' = [removal EXCEPT !.pc = "none"]
    /\ UNCHANGED <<setup, uses, spent, machine, member, saved, member_of, removals>>

(* restartSoon: casos starts as what its file says; the hub goes on with   *)
(* what it was asked for.                                                  *)
Restart(c) ==
    /\ member_of[c] # (saved[c] # Nothing)
    /\ member_of' = [member_of EXCEPT ![c] = saved[c] # Nothing]
    /\ lost' = lost \cup {j \in Joins : join[j].by = c /\ join[j].pc \in Started}
    /\ removal' = IF removal.by # c THEN removal
                  ELSE [removal EXCEPT !.by = "admin", !.pc = IF @ = "told" THEN "none" ELSE @]
    /\ UNCHANGED <<setup, uses, spent, machine, member, join, saved, faults, removals>>

----------------------------------------------------------------------------
(* LeaveMesh asks the hub, which looks the credential up: one it does not  *)
(* know has left before.  DeleteMachine is the hub's own page.             *)
Known(j) == \E n \in Names : member[n] = j
NameOf(j) == CHOOSE n \in Names : member[n] = j
Leave(c) ==
    /\ removals < MaxRemovals /\ removals' = removals + 1
    /\ removal.pc = "none" /\ member_of[c] /\ saved[c] # Nothing
    /\ removal' = IF Known(saved[c]) THEN [pc |-> "member", name |-> NameOf(saved[c]), by |-> c]
                  ELSE [pc |-> "told", name |-> 1, by |-> c]
    /\ UNCHANGED <<setup, uses, spent, machine, member, join, saved, member_of, lost, faults>>
Remove(n) ==
    /\ removals < MaxRemovals /\ removals' = removals + 1
    /\ removal.pc = "none" /\ machine[n] # Nothing
    /\ removal' = [pc |-> "member", name |-> n, by |-> "admin"]
    /\ UNCHANGED <<setup, uses, spent, machine, member, join, saved, member_of, lost, faults>>

(* RemoveMeshMember: the credential, then the machine's row. *)
rest == <<setup, uses, spent, join, member_of, faults, removals>>
DropMember ==
    /\ removal.pc = "member" /\ removal' = [removal EXCEPT !.pc = "machine"]
    /\ member' = [member EXCEPT ![removal.name] = Nothing]
    /\ UNCHANGED <<machine, saved, lost, rest>>
DropMachine ==
    /\ removal.pc = "machine"
    /\ removal' = [removal EXCEPT !.pc = IF removal.by = "admin" THEN "none" ELSE "told"]
    /\ machine' = [machine EXCEPT ![removal.name] = Nothing]
    /\ UNCHANGED <<member, saved, lost, rest>>

(* RemoveMembership, once the hub has been told. *)
Forget ==
    /\ removal.pc = "told" /\ removal' = [removal EXCEPT !.pc = "none"]
    /\ saved' = [saved EXCEPT ![removal.by] = Nothing]
    /\ UNCHANGED <<machine, member, lost, rest>>

(* A step of it fails and ends it; one who leaves by force forgets all the same. *)
RemovalErrs ==
    /\ removal.pc \in {"member", "machine", "told"} /\ faults < MaxFaults /\ faults' = faults + 1
    /\ removal' \in {[removal EXCEPT !.pc = "none"]} \cup
                    (IF removal.by = "admin" \/ removal.pc = "told" THEN {} ELSE {[removal EXCEPT !.pc = "told"]})
    /\ UNCHANGED <<setup, uses, spent, machine, member, join, saved, member_of, lost, removals>>

Next == \/ \E j \in Joins : \/ Consume(j) \/ Spend(j) \/ Name(j) \/ AddMachine(j) \/ AddMember(j)
                            \/ Answer(j) \/ JoinErrs(j) \/ \E c \in Computers : Ask(j, c)
        \/ \E c \in Computers : Restart(c) \/ Leave(c)
        \/ \E n \in Names : Remove(n)
        \/ HubDies \/ DropMember \/ DropMachine \/ Forget \/ RemovalErrs
Spec == Init /\ [][Next]_vars

----------------------------------------------------------------------------
(* An invite admits as many machines as it says (object/mesh.go:97): with  *)
(* a database that does not let two transactions come between each other.  *)
InviteKept == setup.db = "sqlite" => spent <= setup.uses

(* The membership of a computer is one the hub knows, with a machine of    *)
(* its own, until somebody removes it; and the hub has a machine nobody    *)
(* uses only where an answer was lost, a step failed, or a computer joined *)
(* twice before it restarted.                                              *)
Memberships == \A c \in Computers : saved[c] # Nothing /\ removals = 0 =>
                  \E n \in Names : machine[n] = saved[c] /\ member[n] = saved[c]
NoOrphans == \A n \in Names : LET j == machine[n] IN
                j # Nothing /\ faults = 0 /\ removal.pc = "none" /\ j \notin lost =>
                   join[j].pc \in Started \/ saved[join[j].by] = j
JoinKept == InviteKept /\ Memberships /\ NoOrphans
=============================================================================
