-------------------------- MODULE StorageClasses --------------------------
(***************************************************************************)
(* The page of storage classes, and the class casos brings along.  A claim *)
(* that names no class gets the default one, and waits for ever if there   *)
(* is none; so the handlers keep the last default from going, and take the *)
(* mark off the other classes when one is made the default.  Requests come *)
(* beside each other, and beside the bootstrap, which is tried once when   *)
(* casos starts and not again when it fails.                               *)
(***************************************************************************)
EXTENDS Naturals

CONSTANTS Classes, Own,  \* Own: local-path, the class of casos
          Clients,       \* requests under way
          MaxRequests, MaxFaults

VARIABLES class,   \* name -> whether it exists, is marked default, its version
          req,     \* client -> what it asks, where its handler is, what it read
          boot,    \* the same of ensureLocalPathStorageClass: "off" if it is
                   \* disabled or gave up, "done" if it has written its class
          asked, failed
vars == <<class, req, boot, asked, failed>>

Absent  == [is |-> FALSE, default |-> FALSE, ver |-> 0]
Exists(c)  == class[c].is
Default(c) == class[c].default
HasDefault == \E c \in Classes : Default(c)
AnotherDefault(c) == \E d \in Classes \ {c} : Default(d)

(* What a request has looked at: "was" and "other" tell whether its class   *)
(* was marked, and another one was.                                         *)
Idle == [pc |-> "idle", op |-> "none", on |-> Own, default |-> FALSE, ver |-> 0, left |-> {},
         was |-> FALSE, other |-> FALSE, seen |-> [c \in Classes |-> Absent]]

BootAt(at) == [pc |-> at, default |-> FALSE, other |-> FALSE, view |-> Absent]

Init == /\ class \in [Classes -> {Absent, [Absent EXCEPT !.is = TRUE],
                                  [Absent EXCEPT !.is = TRUE, !.default = TRUE]}]
        /\ req = [r \in Clients |-> Idle]
        /\ boot \in {BootAt("list"), BootAt("off")}
        /\ asked = 0 /\ failed = 0

Writes(c, v) == class' = [class EXCEPT ![c] = [v EXCEPT !.ver = class[c].ver + 1]]
Ends(r)      == req' = [req EXCEPT ![r] = Idle]

----------------------------------------------------------------------------
(* A request: add, update with the version its page has shown, delete. *)
Ask(r) ==
    /\ asked < MaxRequests /\ asked' = asked + 1
    /\ req[r].pc = "idle"
    /\ \E c \in Classes :
          \/ \E d \in BOOLEAN :
                \/ req' = [req EXCEPT ![r] = [Idle EXCEPT !.pc = "write", !.op = "add", !.on = c, !.default = d]]
                \/ req' = [req EXCEPT ![r] = [Idle EXCEPT !.pc = "check", !.op = "update", !.on = c,
                                                          !.default = d, !.ver = class[c].ver]]
          \/ req' = [req EXCEPT ![r] = [Idle EXCEPT !.pc = "check", !.op = "delete", !.on = c]]
    /\ UNCHANGED <<class, boot, failed>>

Guarded(q, marked) == marked /\ (q.op = "delete" \/ ~q.default)
\* Variant: only a deletion asks for another default.
CheckDeletes(r) ==
    /\ req[r].pc = "check"
    /\ LET q == req[r] IN
       IF Exists(q.on)
       THEN req' = [req EXCEPT ![r].was = Default(q.on),
                               ![r].pc = IF Default(q.on) /\ q.op = "delete" THEN "others" ELSE "write"]
       ELSE Ends(r)
    /\ UNCHANGED <<class, boot, asked, failed>>

(* GetStorageClass: one that is the default and is not to be any more needs *)
(* another one ...                                                          *)
Check(r) ==
    /\ req[r].pc = "check"
    /\ LET q == req[r] IN
       IF Exists(q.on)
       THEN req' = [req EXCEPT ![r].was = Default(q.on),
                               ![r].pc = IF Guarded(q, Default(q.on)) THEN "others" ELSE "write"]
       ELSE Ends(r)
    /\ UNCHANGED <<class, boot, asked, failed>>

(* ... which requireAnotherDefaultStorageClass then lists. *)
RequireAnother(r) ==
    /\ req[r].pc = "others"
    /\ IF AnotherDefault(req[r].on) THEN req' = [req EXCEPT ![r].other = TRUE, ![r].pc = "write"]
       ELSE Ends(r)
    /\ UNCHANGED <<class, boot, asked, failed>>

(* The write: a class that exists by then, or has another version than the *)
(* page has shown, is left as it is.  One that is made the default goes on *)
(* to take the mark off the others.                                        *)
Write(r) ==
    /\ req[r].pc = "write"
    /\ LET q == req[r]
           fits == CASE q.op = "add" -> ~Exists(q.on)
                     [] q.op = "update" -> Exists(q.on) /\ class[q.on].ver = q.ver
                     [] q.op = "delete" -> Exists(q.on)
       IN IF fits
          THEN /\ Writes(q.on, IF q.op = "delete" THEN Absent ELSE [is |-> TRUE, default |-> q.default, ver |-> 0])
               /\ IF q.op # "delete" /\ q.default THEN req' = [req EXCEPT ![r] = [Idle EXCEPT !.pc = "list", !.on = q.on]]
                  ELSE Ends(r)
          ELSE Ends(r) /\ UNCHANGED class
    /\ UNCHANGED <<boot, asked, failed>>

(* clearOtherDefaultStorageClasses lists the classes ... *)
ListOthers(r) ==
    /\ req[r].pc = "list"
    /\ LET others == {c \in Classes \ {req[r].on} : Default(c)} IN
       req' = [req EXCEPT ![r].pc = "clear", ![r].left = others,
                          ![r].seen = [c \in Classes |-> IF c \in others THEN class[c] ELSE Absent]]
    /\ UNCHANGED <<class, boot, asked, failed>>

(* ... and updates the versions it has listed, up to the first that fails. *)
Clear(r) ==
    /\ req[r].pc = "clear"
    /\ \/ req[r].left = {} /\ Ends(r) /\ UNCHANGED class
       \/ \E c \in req[r].left :
             IF Exists(c) /\ class[c].ver = req[r].seen[c].ver
             THEN Writes(c, [class[c] EXCEPT !.default = FALSE]) /\ req' = [req EXCEPT ![r].left = @ \ {c}]
             ELSE Ends(r) /\ UNCHANGED class
    /\ UNCHANGED <<boot, asked, failed>>

(* A call fails, and the handler ends. *)
Errs(r) == /\ req[r].pc # "idle" /\ failed < MaxFaults /\ failed' = failed + 1
           /\ Ends(r) /\ UNCHANGED <<class, boot, asked>>

----------------------------------------------------------------------------
(* ensureLocalPathStorageClass: local-path is the default if no other is.   *)
BootMoves(to) == boot' = BootAt(to)
BootList == /\ boot.pc = "list"
            /\ boot' = [boot EXCEPT !.pc = "get", !.other = AnotherDefault(Own), !.default = ~AnotherDefault(Own)]
            /\ UNCHANGED <<class, req, asked, failed>>
BootGet == /\ boot.pc = "get"
           /\ boot' = [boot EXCEPT !.pc = "write", !.view = class[Own]]
           /\ UNCHANGED <<class, req, asked, failed>>
(* Its class is made, or written by the version that was read; refused, it  *)
(* is not tried again.                                                      *)
BootWrite == /\ boot.pc = "write"
             /\ IF boot.view = class[Own]
                THEN Writes(Own, [is |-> TRUE, default |-> boot.default, ver |-> 0]) /\ BootMoves("done")
                ELSE UNCHANGED class /\ BootMoves("off")
             /\ UNCHANGED <<req, asked, failed>>
(* A call fails, of these or of what comes before them: Bootstrap logs it.  *)
BootErrs == /\ boot.pc \in {"list", "get", "write"} /\ failed < MaxFaults /\ failed' = failed + 1
            /\ BootMoves("off") /\ UNCHANGED <<class, req, asked>>

(* casos restarts: requests are gone, and the bootstrap runs again, unless  *)
(* it is disabled by now.                                                   *)
Restart == /\ failed < MaxFaults /\ failed' = failed + 1
           /\ req' = [r \in Clients |-> Idle]
           /\ BootMoves("list") \/ BootMoves("off")
           /\ UNCHANGED <<class, asked>>

Handle(r) == Check(r) \/ RequireAnother(r) \/ Write(r) \/ ListOthers(r) \/ Clear(r)
Next == \/ BootList \/ BootGet \/ BootWrite \/ BootErrs \/ Restart
        \/ \E r \in Clients : Ask(r) \/ Handle(r) \/ Errs(r)
Spec == Init /\ [][Next]_vars

----------------------------------------------------------------------------
(* Somebody is about to write what was right when it looked: a request      *)
(* whose class has been marked or the other default taken away since, one   *)
(* that clears the others while its own class has lost its mark, and the    *)
(* bootstrap, which has decided by a default that is gone.                  *)
Stale(r) ==
    LET q == req[r] IN
    \/ q.pc = "write" /\ (Default(q.on) # q.was \/ (q.other /\ ~AnotherDefault(q.on)))
    \/ q.pc = "clear" /\ ~Default(q.on)
StaleBoot == boot.pc = "write" /\ boot.other /\ ~AnotherDefault(Own)

(* However requests and the bootstrap overlap, the last default class goes  *)
(* only by a write of one whose look is out of date (storageclass.go:141);  *)
(* and a bootstrap that succeeds leaves a default class, unless its look    *)
(* was.                                                                     *)
DefaultStays ==
    [][/\ HasDefault /\ ~HasDefault' =>
             \/ boot' # boot /\ StaleBoot
             \/ \E r \in Clients : req'[r] # req[r] /\ Stale(r)
       /\ boot.pc = "write" /\ boot'.pc = "done" => HasDefault' \/ StaleBoot]_vars
=============================================================================
