---------------------------- MODULE MeshSessions ----------------------------
(***************************************************************************)
(* The connections between a mesh hub and its member machines              *)
(* (mesh/agent.go, RunAgent in mesh/member.go, serveMeshAgent and          *)
(* RemoveMeshMember in deploy/mesh_agent.go).  A member dials its hub and   *)
(* keeps one connection; the hub enters it as the session of the machine,   *)
(* replaces an older one, and sends requests over it.  Requests are         *)
(* answered in any order, connections break without a word, and a machine   *)
(* may be removed at any time.                                              *)
(*                                                                          *)
(* A session that nothing refers to any more is used again for the next     *)
(* dial, as memory would be; each call is made once.                        *)
(***************************************************************************)
EXTENDS Naturals, FiniteSets

CONSTANTS
    Machines,
    Sessions,  \* bound: connections that exist at one time, on either side
    Calls,     \* bound: calls made in a behaviour
    None

ASSUME MeshAssumption ==
    /\ None \notin Machines \cup Sessions \cup Calls
    /\ {"none", "offline", "dropped", "gaveUp"} \cap Calls = {}
    /\ IsFiniteSet(Calls)

VARIABLES
    member,   \* the credential's row, and how far a removal has come
    target,   \* the session DropAgent has found
    spanned,  \* sessions that were between credential and table at that moment
    table,    \* agentSessions
    phase,    \* the hub's end of a connection
    owner,    \* the machine of a session
    replaces, \* the older session the handler still has to close
    wire,     \* does the network still carry the connection?
    nextID, pending,  \* of a session
    hand,     \* the answer the session's reader has taken, and for whom
    dialing, link,    \* the member's end: the connection it dials, and serves
    at, on, id,       \* a call: where it stands, its session and its number
    box,      \* its channel
    outcome,  \* what it returns
    request   \* its request, on the way, on the member, and answered

memberVars == <<member, target, spanned>>
hubVars == <<table, phase, owner, replaces>>
readVars == <<nextID, pending, hand>>
linkVars == <<dialing, link>>
callVars == <<at, on, id, box, outcome>>
vars == <<memberVars, hubVars, wire, readVars, linkVars, callVars, request>>

Ended == {"none", "refused", "closed"}
Done(s) == phase[s] \in {"closing", "closed"}

Request == [place : {"sent", "running", "answered"}, session : Sessions, id : Nat, late : BOOLEAN]
Is(c, place) == request[c] # None /\ request[c].place = place
Moves(c, place) == request' = [request EXCEPT ![c].place = place]
\* What is left of the requests of a connection when some of them are dropped.
Without(s, places) ==
    [c \in Calls |-> IF request[c] # None /\ request[c].session = s /\ request[c].place \in places
                    THEN None ELSE request[c]]

Unused(s) ==
    /\ phase[s] \in Ended /\ hand[s] = None /\ replaces[s] = None
    /\ \A m \in Machines : s \notin {dialing[m], link[m], target[m]}
    /\ \A o \in Sessions : replaces[o] # s
    /\ \A c \in Calls : on[c] # s

----------------------------------------------------------------------------
(* The member: RunAgent dials again whenever a connection has ended.         *)

Dial(m) ==
    /\ dialing[m] = None /\ link[m] = None
    /\ \E s \in Sessions : Unused(s)
    /\ LET s == CHOOSE x \in Sessions : Unused(x) IN
       /\ dialing' = [dialing EXCEPT ![m] = s]
       /\ phase' = [phase EXCEPT ![s] = "asked"]
       /\ owner' = [owner EXCEPT ![s] = m]
       /\ wire' = [wire EXCEPT ![s] = TRUE]
       /\ nextID' = [nextID EXCEPT ![s] = 0]
       /\ spanned' = spanned \ {s}
       /\ request' = Without(s, {"sent", "running", "answered"})
    /\ UNCHANGED <<member, target, table, replaces, pending, hand, link, callVars>>

MemberConnects(m) ==
    LET s == dialing[m] IN
    /\ s # None /\ wire[s] /\ phase[s] \in {"upgraded", "open", "closing"}
    /\ dialing' = [dialing EXCEPT ![m] = None]
    /\ link' = [link EXCEPT ![m] = s]
    /\ UNCHANGED <<memberVars, hubVars, wire, readVars, callVars, request>>

\* Refused, timed out, or the connection broke before it was there.
DialFails(m) ==
    LET s == dialing[m] IN
    /\ s # None /\ (phase[s] = "refused" \/ ~wire[s])
    /\ dialing' = [dialing EXCEPT ![m] = None]
    /\ UNCHANGED <<memberVars, hubVars, wire, readVars, link, callVars, request>>

\* A read or a write fails, or nothing was heard for agentReadWait: the
\* connection's context ends, and every request that runs with it.
MemberNotices(m) ==
    LET s == link[m] IN
    /\ s # None /\ ~wire[s]
    /\ link' = [link EXCEPT ![m] = None]
    /\ request' = Without(s, {"running"})
    /\ UNCHANGED <<memberVars, hubVars, wire, readVars, dialing, callVars>>

\* What was sent before a break may still be read.
Receives(c) ==
    /\ Is(c, "sent") /\ \E m \in Machines : link[m] = request[c].session
    /\ Moves(c, "running")
    /\ UNCHANGED <<memberVars, hubVars, wire, readVars, linkVars, callVars>>

Completes(c) ==
    /\ Is(c, "running") /\ Moves(c, "answered")
    /\ UNCHANGED <<memberVars, hubVars, wire, readVars, linkVars, callVars>>

\* TimeoutSeconds: the rest of the hub's deadline and a second, counted from
\* when the member has the request, so that the hub has given up by then.
TimesOut(c) ==
    /\ Is(c, "running") /\ ~request[c].late /\ outcome[c] \in {"gaveUp", "dropped"}
    /\ Moves(c, "answered")
    /\ UNCHANGED <<memberVars, hubVars, wire, readVars, linkVars, callVars>>

----------------------------------------------------------------------------
(* The hub's handler: serveMeshAgent and AcceptAgent.                         *)

\* Variant: the credential is deleted after DropAgent, so still good meanwhile.
KnownUntilDropped(m) == member[m] # "out"

Known(m) == member[m] = "in"

Verifies(s) ==
    /\ phase[s] = "asked"
    /\ phase' = [phase EXCEPT ![s] = IF Known(owner[s]) THEN "verified" ELSE "refused"]
    /\ UNCHANGED <<memberVars, table, owner, replaces, wire, readVars, linkVars, callVars, request>>

\* The answer may be written to a connection that is broken already.
Upgrades(s) ==
    /\ phase[s] = "verified"
    /\ \/ phase' = [phase EXCEPT ![s] = "upgraded"]
       \/ ~wire[s] /\ phase' = [phase EXCEPT ![s] = "refused"]
    /\ UNCHANGED <<memberVars, table, owner, replaces, wire, readVars, linkVars, callVars, request>>

\* agentSessions.Swap
EntersTable(s) ==
    /\ phase[s] = "upgraded"
    /\ phase' = [phase EXCEPT ![s] = "open"]
    /\ table' = [table EXCEPT ![owner[s]] = s]
    /\ replaces' = [replaces EXCEPT ![s] = table[owner[s]]]
    /\ UNCHANGED <<memberVars, owner, wire, readVars, linkVars, callVars, request>>

\* close: only the first one closes the done channel and goes on.
Closing(s) == IF phase[s] = "open" THEN "closing" ELSE phase[s]

ClosesReplaced(s) ==
    /\ replaces[s] # None
    /\ phase' = [phase EXCEPT ![replaces[s]] = Closing(replaces[s])]
    /\ replaces' = [replaces EXCEPT ![s] = None]
    /\ UNCHANGED <<memberVars, table, owner, wire, readVars, linkVars, callVars, request>>

\* readLoop and pingLoop, which start when the older session is closed.
HubNotices(s) ==
    /\ phase[s] = "open" /\ replaces[s] = None /\ ~wire[s]
    /\ phase' = [phase EXCEPT ![s] = Closing(s)]
    /\ UNCHANGED <<memberVars, table, owner, replaces, wire, readVars, linkVars, callVars, request>>

\* Variant: the machine's entry is deleted, whichever session it is.
CloseEndsDeleting(s) ==
    /\ phase[s] = "closing"
    /\ phase' = [phase EXCEPT ![s] = "closed"]
    /\ wire' = [wire EXCEPT ![s] = FALSE]
    /\ table' = [table EXCEPT ![owner[s]] = None]
    /\ UNCHANGED <<memberVars, owner, replaces, readVars, linkVars, callVars, request>>

\* conn.Close and agentSessions.CompareAndDelete
CloseEnds(s) ==
    /\ phase[s] = "closing"
    /\ phase' = [phase EXCEPT ![s] = "closed"]
    /\ wire' = [wire EXCEPT ![s] = FALSE]
    /\ table' = [table EXCEPT ![owner[s]] = IF @ = s THEN None ELSE @]
    /\ UNCHANGED <<memberVars, owner, replaces, readVars, linkVars, callVars, request>>

----------------------------------------------------------------------------
(* RemoveMeshMember: the credential's row, then DropAgent.                     *)

DeleteMeshMember(m) ==
    /\ member[m] = "in"
    /\ member' = [member EXCEPT ![m] = "deleted"]
    /\ UNCHANGED <<target, spanned, hubVars, wire, readVars, linkVars, callVars, request>>

DropAgentFinds(m) ==
    /\ member[m] = "deleted"
    /\ member' = [member EXCEPT ![m] = "dropping"]
    /\ target' = [target EXCEPT ![m] = table[m]]
    /\ spanned' = spanned \cup
         {s \in Sessions : owner[s] = m /\ phase[s] \in {"verified", "upgraded"}}
    /\ UNCHANGED <<hubVars, wire, readVars, linkVars, callVars, request>>

DropAgentCloses(m) ==
    /\ member[m] = "dropping"
    /\ member' = [member EXCEPT ![m] = "out"]
    /\ target' = [target EXCEPT ![m] = None]
    /\ phase' = IF target[m] = None THEN phase
                ELSE [phase EXCEPT ![target[m]] = Closing(target[m])]
    /\ UNCHANGED <<spanned, table, owner, replaces, wire, readVars, linkVars, callVars, request>>

----------------------------------------------------------------------------
(* A call: AgentRunner.call and AgentSession.Call.                             *)

Returns(c, what) ==
    /\ outcome' = [outcome EXCEPT ![c] = what]
    /\ at' = [at EXCEPT ![c] = "back"]

FindsSession(c, m) ==
    /\ at[c] = "idle"
    /\ \/ table[m] = None /\ Returns(c, "offline") /\ on' = on
       \/ /\ table[m] # None /\ on' = [on EXCEPT ![c] = table[m]]
          /\ at' = [at EXCEPT ![c] = "found"] /\ outcome' = outcome
    /\ UNCHANGED <<memberVars, hubVars, wire, readVars, linkVars, id, box, request>>

\* Variant: the number is not counted up.
RegistersSameID(c) ==
    LET s == on[c] IN
    /\ at[c] = "found" /\ ~Done(s)
    /\ id' = [id EXCEPT ![c] = 1]
    /\ pending' = {p \in pending : <<p[1], p[2]>> # <<s, 1>>} \cup {<<s, 1, c>>}
    /\ at' = [at EXCEPT ![c] = "writing"]
    /\ UNCHANGED <<memberVars, hubVars, wire, nextID, hand, linkVars, on, box, outcome, request>>

Registers(c) ==
    LET s == on[c] IN
    /\ at[c] = "found"
    /\ \/ /\ Done(s) /\ Returns(c, "offline") /\ on' = [on EXCEPT ![c] = None]
          /\ UNCHANGED <<nextID, id, pending>>
       \/ /\ ~Done(s) /\ UNCHANGED <<outcome, on>>
          /\ nextID' = [nextID EXCEPT ![s] = @ + 1]
          /\ id' = [id EXCEPT ![c] = nextID[s] + 1]
          /\ pending' = pending \cup {<<s, nextID[s] + 1, c>>}
          /\ at' = [at EXCEPT ![c] = "writing"]
    /\ UNCHANGED <<memberVars, hubVars, wire, hand, linkVars, box, request>>

\* Into the connection's buffer, which a broken connection may still have.  The
\* TimeoutSeconds of a call made more than a second after its deadline is not
\* positive, which the member takes for no timeout; prepareNodeGPU goes on
\* after a call that gave up, so that there can be such calls.
Writes(c) ==
    /\ at[c] = "writing" /\ phase[on[c]] # "closed"
    /\ \E late \in BOOLEAN :
        request' = [request EXCEPT ![c] =
                        [place |-> "sent", session |-> on[c], id |-> id[c], late |-> late]]
    /\ at' = [at EXCEPT ![c] = "waiting"]
    /\ UNCHANGED <<memberVars, hubVars, wire, readVars, linkVars, on, id, box, outcome>>

WriteFails(c) ==
    /\ at[c] = "writing" /\ ~wire[on[c]]
    /\ phase' = [phase EXCEPT ![on[c]] = Closing(on[c])]
    /\ outcome' = [outcome EXCEPT ![c] = "dropped"]
    /\ at' = [at EXCEPT ![c] = "leaving"]
    /\ UNCHANGED <<memberVars, table, owner, replaces, wire, readVars, linkVars, on, id, box, request>>

\* The select: any of what is ready.
WaitEnds(c) ==
    /\ at[c] = "waiting"
    /\ \/ box[c] # None /\ outcome' = [outcome EXCEPT ![c] = box[c]]
       \/ Done(on[c]) /\ outcome' = [outcome EXCEPT ![c] = "dropped"]
    /\ at' = [at EXCEPT ![c] = "leaving"]
    /\ UNCHANGED <<memberVars, hubVars, wire, readVars, linkVars, on, id, box, request>>

\* The call's context is done.
GivesUp(c) ==
    /\ at[c] = "waiting"
    /\ outcome' = [outcome EXCEPT ![c] = "gaveUp"]
    /\ at' = [at EXCEPT ![c] = "leaving"]
    /\ UNCHANGED <<memberVars, hubVars, wire, readVars, linkVars, on, id, box, request>>

\* The deferred delete.
Leaves(c) ==
    /\ at[c] = "leaving"
    /\ at' = [at EXCEPT ![c] = "back"]
    /\ pending' = {p \in pending : <<p[1], p[2]>> # <<on[c], id[c]>>}
    /\ on' = [on EXCEPT ![c] = None] /\ id' = [id EXCEPT ![c] = 0] /\ box' = [box EXCEPT ![c] = None]
    /\ UNCHANGED <<memberVars, hubVars, wire, nextID, hand, linkVars, outcome, request>>

\* readLoop reads an answer and takes the call's channel out of the table, ...
TakesAnswer(c) ==
    LET s == request[c].session
        asked == {p \in pending : p[1] = s /\ p[2] = request[c].id} IN
    /\ Is(c, "answered") /\ phase[s] \in {"open", "closing"}
    /\ replaces[s] = None /\ hand[s] = None
    /\ request' = [request EXCEPT ![c] = None]
    /\ pending' = pending \ asked
    /\ \/ asked = {} /\ hand' = hand
       \/ \E p \in asked : hand' = [hand EXCEPT ![s] = <<p[3], c>>]
    /\ UNCHANGED <<memberVars, hubVars, wire, nextID, linkVars, callVars>>

\* ... and sends on it after the unlock, though the caller may have left.
GivesAnswer(s) ==
    /\ hand[s] # None
    /\ box' = [box EXCEPT ![hand[s][1]] = IF at[hand[s][1]] = "back" THEN @ ELSE hand[s][2]]
    /\ hand' = [hand EXCEPT ![s] = None]
    /\ UNCHANGED <<memberVars, hubVars, wire, nextID, pending, linkVars, at, on, id, outcome, request>>

----------------------------------------------------------------------------
(* What goes wrong.                                                            *)

WireBreaks(s) ==
    /\ phase[s] \notin Ended /\ wire[s]
    /\ wire' = [wire EXCEPT ![s] = FALSE]
    /\ UNCHANGED <<memberVars, hubVars, readVars, linkVars, callVars, request>>

\* The database does not answer: 500, which the member takes like a refusal.
VerifyErrs(s) ==
    /\ phase[s] = "asked"
    /\ phase' = [phase EXCEPT ![s] = "refused"]
    /\ UNCHANGED <<memberVars, table, owner, replaces, wire, readVars, linkVars, callVars, request>>

Fault == \E s \in Sessions : WireBreaks(s) \/ VerifyErrs(s)

----------------------------------------------------------------------------
Init ==
    /\ member = [m \in Machines |-> "in"] /\ target = [m \in Machines |-> None] /\ spanned = {}
    /\ table = [m \in Machines |-> None]
    /\ phase = [s \in Sessions |-> "none"]
    /\ owner = [s \in Sessions |-> None] /\ replaces = [s \in Sessions |-> None]
    /\ wire = [s \in Sessions |-> FALSE]
    /\ nextID = [s \in Sessions |-> 0] /\ pending = {} /\ hand = [s \in Sessions |-> None]
    /\ dialing = [m \in Machines |-> None] /\ link = [m \in Machines |-> None]
    /\ at = [c \in Calls |-> "idle"] /\ on = [c \in Calls |-> None] /\ id = [c \in Calls |-> 0]
    /\ box = [c \in Calls |-> None]
    /\ outcome = [c \in Calls |-> "none"] /\ request = [c \in Calls |-> None]

Member(m) == Dial(m) \/ MemberConnects(m) \/ DialFails(m) \/ MemberNotices(m)
Hub(s) ==
    \/ Verifies(s) \/ Upgrades(s) \/ EntersTable(s) \/ ClosesReplaced(s)
    \/ HubNotices(s) \/ CloseEnds(s) \/ GivesAnswer(s)
Call(c) == Registers(c) \/ Writes(c) \/ WriteFails(c) \/ WaitEnds(c) \/ Leaves(c)
Drop(m) == DropAgentFinds(m) \/ DropAgentCloses(m)

Next ==
    \/ \E m \in Machines : Member(m) \/ DeleteMeshMember(m) \/ Drop(m)
    \/ \E s \in Sessions : Hub(s)
    \/ \E c \in Calls :
        \/ \E m \in Machines : FindsSession(c, m)
        \/ Call(c) \/ GivesUp(c) \/ TakesAnswer(c)
        \/ Receives(c) \/ Completes(c) \/ TimesOut(c)
    \/ Fault

Spec == Init /\ [][Next]_vars

(* Members, handlers, loops and callers go on, and timers fire.  A command on a *)
(* member need not end by itself, and a call's own deadline need not come.       *)
FairSpec ==
    /\ Spec
    /\ \A m \in Machines : WF_vars(Member(m)) /\ WF_vars(Drop(m))
    /\ \A s \in Sessions : WF_vars(Hub(s))
    /\ \A c \in Calls :
        WF_vars(Call(c)) /\ WF_vars(TakesAnswer(c)) /\ WF_vars(Receives(c)) /\ WF_vars(TimesOut(c))

----------------------------------------------------------------------------
(* Every variable stays in its type; in particular a done channel is closed     *)
(* once, whoever closes the session.                                             *)
TypeOK ==
    /\ member \in [Machines -> {"in", "deleted", "dropping", "out"}]
    /\ {target, table, dialing, link} \subseteq [Machines -> Sessions \cup {None}]
    /\ spanned \subseteq Sessions
    /\ phase \in [Sessions -> Ended \cup {"asked", "verified", "upgraded", "open", "closing"}]
    /\ owner \in [Sessions -> Machines \cup {None}]
    /\ replaces \in [Sessions -> Sessions \cup {None}]
    /\ wire \in [Sessions -> BOOLEAN]
    /\ nextID \in [Sessions -> 0..Cardinality(Calls)]
    /\ pending \subseteq Sessions \X Nat \X Calls
    /\ hand \in [Sessions -> (Calls \X Calls) \cup {None}]
    /\ at \in [Calls -> {"idle", "found", "writing", "waiting", "leaving", "back"}]
    /\ on \in [Calls -> Sessions \cup {None}]
    /\ id \in [Calls -> Nat]
    /\ box \in [Calls -> Calls \cup {None}]
    /\ outcome \in [Calls -> {"none", "offline", "dropped", "gaveUp"} \cup Calls]
    /\ request \in [Calls -> Request \cup {None}]

(* The table holds no session that has ended, and a session that still serves is *)
(* in it, or about to be closed by the one that took its place: an old            *)
(* connection that ends late never takes the new one out.                          *)
TableTruthful ==
    /\ \A m \in Machines : table[m] # None =>
        owner[table[m]] = m /\ phase[table[m]] \in {"open", "closing"}
    /\ \A s \in Sessions : phase[s] = "open" =>
        table[owner[s]] = s \/ \E o \in Sessions : replaces[o] = s

(* A call that returns an answer returns the one to its own request, also when    *)
(* others gave up on the same connection before and their answers came late.       *)
RightAnswer == \A c \in Calls : outcome[c] \in Calls => outcome[c] = c

(* An entry of a session's pending table belongs to a call that is still at work:  *)
(* calls that were dropped or gave up leave nothing behind.                         *)
PendingExact ==
    \A p \in pending :
        /\ at[p[3]] \in {"writing", "waiting", "leaving"}
        /\ on[p[3]] = p[1] /\ id[p[3]] = p[2]

(* Once a removal is over, the machine has no session that still serves, unless    *)
(* the session's handler had read the credential before it was deleted and entered *)
(* the table only after DropAgent had looked.                                       *)
RemovedIsOut ==
    \A m \in Machines : member[m] = "out" /\ table[m] # None =>
        phase[table[m]] = "closing" \/ table[m] \in spanned

(* When the network holds, a machine that is a member comes back, and the table    *)
(* has the very connection its member serves, whatever old connections still do.   *)
Reachable ==
    <>[][~Fault]_vars =>
        \A m \in Machines :
            <>[](member[m] = "in" => link[m] # None /\ table[m] = link[m])

(* A call whose connection is lost returns, also before its deadline.               *)
LostCallReturns ==
    \A c \in Calls : (at[c] = "waiting" /\ ~wire[on[c]]) ~> at[c] = "back"

(* A command the hub gave up on does not keep running on the member, if its call    *)
(* was made before, or within a second after, the deadline.                          *)
GivenUpStops ==
    \A c \in Calls :
        outcome[c] = "gaveUp" ~> ~(Is(c, "running") /\ ~request[c].late)

(* The table is right about who is connected, through reconnects and removals.     *)
SessionsExact == TypeOK /\ TableTruthful /\ RemovedIsOut
(* Answers reach the calls they are for, and calls that are over leave nothing.    *)
CallsExact == PendingExact /\ RightAnswer
(* A call whose connection is lost comes back, and what was given up stops.        *)
CallsEnd == LostCallReturns /\ GivenUpStops
=============================================================================
