------------------------ MODULE MeshSessions_proofs -------------------------
(***************************************************************************)
(* Proofs about MeshSessions, for every set of machines, sessions and      *)
(* calls.                                                                  *)
(***************************************************************************)
EXTENDS MeshSessions, FiniteSetTheorems, TLAPS

Phase == Ended \cup {"asked", "verified", "upgraded", "open", "closing"}
Stage == {"idle", "found", "writing", "waiting", "leaving", "back"}
AtWork == {"writing", "waiting", "leaving"}

(* The types of TypeOK; the numbers given out are bounded further down.     *)
Types ==
    /\ member \in [Machines -> {"in", "deleted", "dropping", "out"}]
    /\ target \in [Machines -> Sessions \cup {None}]
    /\ table \in [Machines -> Sessions \cup {None}]
    /\ dialing \in [Machines -> Sessions \cup {None}]
    /\ link \in [Machines -> Sessions \cup {None}]
    /\ spanned \subseteq Sessions
    /\ phase \in [Sessions -> Phase]
    /\ owner \in [Sessions -> Machines \cup {None}]
    /\ replaces \in [Sessions -> Sessions \cup {None}]
    /\ wire \in [Sessions -> BOOLEAN]
    /\ nextID \in [Sessions -> Nat]
    /\ pending \subseteq Sessions \X Nat \X Calls
    /\ hand \in [Sessions -> (Calls \X Calls) \cup {None}]
    /\ at \in [Calls -> Stage]
    /\ on \in [Calls -> Sessions \cup {None}]
    /\ id \in [Calls -> Nat]
    /\ box \in [Calls -> Calls \cup {None}]
    /\ outcome \in [Calls -> {"none", "offline", "dropped", "gaveUp"} \cup Calls]
    /\ request \in [Calls -> Request \cup {None}]

(* A call that has found its session holds on to it until it is back, and a  *)
(* connection that was ever dialed has a machine.                            *)
Attached ==
    /\ \A c \in Calls : at[c] \in AtWork \cup {"found"} => on[c] \in Sessions
    /\ \A s \in Sessions : phase[s] # "none" => owner[s] \in Machines

LEMMA WithoutType ==
    ASSUME Types, NEW s, NEW places
    PROVE  Without(s, places) \in [Calls -> Request \cup {None}]
BY DEF Types, Without

LEMMA MovedRequestType ==
    ASSUME Types, NEW c \in Calls, NEW place \in {"sent", "running", "answered"},
           request[c] # None, Moves(c, place)
    PROVE  request' \in [Calls -> Request \cup {None}]
<1>1. request[c] \in Request
  BY DEF Types
<1>2. [request[c] EXCEPT !.place = place] \in Request
  BY <1>1 DEF Request
<1> QED
  BY <1>2 DEF Types, Moves

LEMMA ClosingType ==
    ASSUME Types, NEW s \in Sessions
    PROVE  /\ Closing(s) \in Phase /\ [phase EXCEPT ![s] = Closing(s)] \in [Sessions -> Phase]
           /\ (Closing(s) = "none") <=> (phase[s] = "none")
BY DEF Types, Closing, Phase

LEMMA MemberTypes ==
    ASSUME Types, Attached, NEW m \in Machines, Member(m)
    PROVE  Types' /\ Attached'
<1>1. CASE Dial(m)
  <2> DEFINE s == CHOOSE x \in Sessions : Unused(x)
  <2>1. s \in Sessions
    BY <1>1 DEF Dial
  <2> HIDE DEF s
  <2>2. /\ dialing' = [dialing EXCEPT ![m] = s]
        /\ phase' = [phase EXCEPT ![s] = "asked"]
        /\ owner' = [owner EXCEPT ![s] = m]
        /\ wire' = [wire EXCEPT ![s] = TRUE]
        /\ nextID' = [nextID EXCEPT ![s] = 0]
        /\ spanned' = spanned \ {s}
        /\ request' = Without(s, {"sent", "running", "answered"})
        /\ UNCHANGED <<member, target, table, replaces, pending, hand, link, callVars>>
    BY <1>1 DEF Dial, s
  <2>3. request' \in [Calls -> Request \cup {None}]
    BY <2>2, WithoutType
  <2> QED
    BY <2>1, <2>2, <2>3 DEF Types, Attached, callVars, Phase
<1>2. CASE MemberConnects(m)
  BY <1>2 DEF MemberConnects, Types, Attached, memberVars, hubVars, readVars, callVars
<1>3. CASE DialFails(m)
  BY <1>3 DEF DialFails, Types, Attached, memberVars, hubVars, readVars, callVars
<1>4. CASE MemberNotices(m)
  BY <1>4, WithoutType DEF MemberNotices, Types, Attached, memberVars, hubVars, readVars, callVars
<1> QED
  BY <1>1, <1>2, <1>3, <1>4 DEF Member

LEMMA HubTypes ==
    ASSUME Types, Attached, NEW s \in Sessions, Hub(s)
    PROVE  Types' /\ Attached'
<1>1. CASE Verifies(s)
  BY <1>1 DEF Verifies, Types, Attached, memberVars, readVars, linkVars, callVars, Phase, Ended
<1>2. CASE Upgrades(s)
  <2>1. /\ phase' \in [Sessions -> Phase]
        /\ \A x \in Sessions : phase'[x] # "none" => phase[x] # "none"
    BY <1>2 DEF Upgrades, Types, Phase, Ended
  <2> QED
    BY <1>2, <2>1 DEF Upgrades, Types, Attached, memberVars, readVars, linkVars, callVars
<1>3. CASE EntersTable(s)
  BY <1>3 DEF EntersTable, Types, Attached, memberVars, readVars, linkVars, callVars, Phase
<1>4. CASE ClosesReplaced(s)
  <2>1. replaces[s] \in Sessions
    BY <1>4 DEF ClosesReplaced, Types
  <2>2. /\ phase' \in [Sessions -> Phase]
        /\ \A x \in Sessions : phase'[x] # "none" => phase[x] # "none"
    BY <1>4, <2>1, ClosingType DEF ClosesReplaced, Types
  <2> QED
    BY <1>4, <2>2 DEF ClosesReplaced, Types, Attached, memberVars, readVars, linkVars, callVars
<1>5. CASE HubNotices(s)
  <2>1. /\ phase' \in [Sessions -> Phase]
        /\ \A x \in Sessions : phase'[x] # "none" => phase[x] # "none"
    BY <1>5, ClosingType DEF HubNotices, Types
  <2> QED
    BY <1>5, <2>1 DEF HubNotices, Types, Attached, memberVars, readVars, linkVars, callVars
<1>6. CASE CloseEnds(s)
  BY <1>6 DEF CloseEnds, Types, Attached, memberVars, readVars, linkVars, callVars, Phase, Ended
<1>7. CASE GivesAnswer(s)
  <2>1. hand[s][1] \in Calls /\ hand[s][2] \in Calls
    BY <1>7 DEF GivesAnswer, Types
  <2>2. box' \in [Calls -> Calls \cup {None}]
    BY <1>7, <2>1 DEF GivesAnswer, Types
  <2> QED
    BY <1>7, <2>2 DEF GivesAnswer, Types, Attached, memberVars, hubVars, linkVars
<1> QED
  BY <1>1, <1>2, <1>3, <1>4, <1>5, <1>6, <1>7 DEF Hub

LEMMA CallTypes ==
    ASSUME Types, Attached, NEW c \in Calls,
           Call(c) \/ GivesUp(c) \/ \E m \in Machines : FindsSession(c, m)
    PROVE  Types' /\ Attached'
<1>1. ASSUME NEW m \in Machines, FindsSession(c, m)
      PROVE  Types' /\ Attached'
  BY <1>1 DEF FindsSession, Returns, Types, Attached, memberVars, hubVars, readVars, linkVars,
      Stage, AtWork
<1>2. CASE Registers(c)
  <2>1. on[c] \in Sessions
    BY <1>2 DEF Registers, Attached
  <2>2. nextID[on[c]] + 1 \in Nat
    BY <2>1 DEF Types
  <2>3. <<on[c], nextID[on[c]] + 1, c>> \in Sessions \X Nat \X Calls
    BY <2>1, <2>2
  <2> QED
    BY <1>2, <2>1, <2>2, <2>3 DEF Registers, Returns, Types, Attached, memberVars, hubVars,
        linkVars, Stage, AtWork
<1>3. CASE Writes(c)
  <2>1. on[c] \in Sessions /\ id[c] \in Nat
    BY <1>3 DEF Writes, Attached, AtWork, Types
  <2>2. request' \in [Calls -> Request \cup {None}]
    BY <1>3, <2>1 DEF Writes, Types, Request
  <2> QED
    BY <1>3, <2>2 DEF Writes, Types, Attached, memberVars, hubVars, readVars, linkVars, Stage, AtWork
<1>4. CASE WriteFails(c)
  <2>1. on[c] \in Sessions
    BY <1>4 DEF WriteFails, Attached, AtWork
  <2>2. /\ phase' \in [Sessions -> Phase]
        /\ \A x \in Sessions : phase'[x] # "none" => phase[x] # "none"
    BY <1>4, <2>1, ClosingType DEF WriteFails, Types
  <2> QED
    BY <1>4, <2>2 DEF WriteFails, Types, Attached, memberVars, readVars, linkVars, Stage, AtWork
<1>5. CASE WaitEnds(c)
  BY <1>5 DEF WaitEnds, Types, Attached, memberVars, hubVars, readVars, linkVars, Stage, AtWork
<1>6. CASE Leaves(c)
  BY <1>6 DEF Leaves, Types, Attached, memberVars, hubVars, linkVars, Stage, AtWork
<1>7. CASE GivesUp(c)
  BY <1>7 DEF GivesUp, Types, Attached, memberVars, hubVars, readVars, linkVars, Stage, AtWork
<1> QED
  BY <1>1, <1>2, <1>3, <1>4, <1>5, <1>6, <1>7 DEF Call

LEMMA AnswerTypes ==
    ASSUME Types, Attached, NEW c \in Calls,
           TakesAnswer(c) \/ Receives(c) \/ Completes(c) \/ TimesOut(c)
    PROVE  Types' /\ Attached'
<1>1. CASE TakesAnswer(c)
  <2> DEFINE s == request[c].session
  <2>1. request[c] \in Request
    BY <1>1 DEF TakesAnswer, Is, Types
  <2>2. s \in Sessions
    BY <2>1 DEF Request
  <2>3. request' \in [Calls -> Request \cup {None}]
    BY <1>1 DEF TakesAnswer, Types
  <2>4. hand' = hand \/ \E p \in pending : hand' = [hand EXCEPT ![s] = <<p[3], c>>]
    BY <1>1 DEF TakesAnswer
  <2>5. hand' \in [Sessions -> (Calls \X Calls) \cup {None}]
    <3> HIDE DEF s
    <3>1. hand \in [Sessions -> (Calls \X Calls) \cup {None}]
      BY DEF Types
    <3>2. ASSUME NEW p \in pending
          PROVE  <<p[3], c>> \in Calls \X Calls
      BY DEF Types
    <3> QED
      BY <2>2, <2>4, <3>1, <3>2
  <2>6. pending' \subseteq pending
    BY <1>1 DEF TakesAnswer
  <2>7. UNCHANGED <<memberVars, hubVars, wire, nextID, linkVars, callVars>>
    BY <1>1 DEF TakesAnswer
  <2> HIDE DEF s
  <2> QED
    BY <2>3, <2>5, <2>6, <2>7 DEF Types, Attached, memberVars, hubVars, linkVars, callVars
<1>2. CASE Receives(c) \/ Completes(c) \/ TimesOut(c)
  <2>1. request' \in [Calls -> Request \cup {None}]
    BY <1>2, MovedRequestType DEF Receives, Completes, TimesOut, Is
  <2> QED
    BY <1>2, <2>1 DEF Receives, Completes, TimesOut, Types, Attached, memberVars, hubVars,
        readVars, linkVars, callVars
<1> QED
  BY <1>1, <1>2

LEMMA DropTypes ==
    ASSUME Types, Attached, NEW m \in Machines, DeleteMeshMember(m) \/ Drop(m)
    PROVE  Types' /\ Attached'
<1>1. CASE DeleteMeshMember(m)
  BY <1>1 DEF DeleteMeshMember, Types, Attached, hubVars, readVars, linkVars, callVars
<1>2. CASE DropAgentFinds(m)
  BY <1>2 DEF DropAgentFinds, Types, Attached, hubVars, readVars, linkVars, callVars
<1>3. CASE DropAgentCloses(m)
  <2>1. target[m] \in Sessions \cup {None}
    BY DEF Types
  <2>2. /\ phase' \in [Sessions -> Phase]
        /\ \A x \in Sessions : phase'[x] # "none" => phase[x] # "none"
    BY <1>3, <2>1, ClosingType DEF DropAgentCloses, Types
  <2> QED
    BY <1>3, <2>2 DEF DropAgentCloses, Types, Attached, readVars, linkVars, callVars
<1> QED
  BY <1>1, <1>2, <1>3 DEF Drop

LEMMA FaultTypes ==
    ASSUME Types, Attached, NEW s \in Sessions, WireBreaks(s) \/ VerifyErrs(s)
    PROVE  Types' /\ Attached'
BY DEF WireBreaks, VerifyErrs, Types, Attached, memberVars, hubVars, readVars, linkVars, callVars,
    Phase, Ended

LEMMA TypesStep ==
    ASSUME Types, Attached, [Next]_vars
    PROVE  Types' /\ Attached'
<1>1. CASE UNCHANGED vars
  BY <1>1 DEF vars, memberVars, hubVars, readVars, linkVars, callVars, Types, Attached
<1> QED
  BY <1>1, MemberTypes, HubTypes, CallTypes, AnswerTypes, DropTypes, FaultTypes DEF Next, Fault

----------------------------------------------------------------------------
(* The table.  A session closes an older one only after it has entered.      *)
Entered == \A s \in Sessions : replaces[s] # None => phase[s] \in {"open", "closing", "closed"}

(* Once DropAgent has looked, the handlers that had read the credential      *)
(* before and have not entered yet are those it spans, ...                   *)
OnlySpanned ==
    \A m \in Machines, s \in Sessions :
        member[m] \in {"dropping", "out"} /\ owner[s] = m /\ phase[s] \in {"verified", "upgraded"}
        => s \in spanned

(* ... and what is in the table is what it found, or one of those.            *)
FoundOrSpanned ==
    \A m \in Machines : member[m] = "dropping" /\ table[m] # None =>
        table[m] \in spanned \cup {target[m]} \/ phase[table[m]] = "closing"

TableInv == TableTruthful /\ Entered /\ OnlySpanned /\ FoundOrSpanned /\ RemovedIsOut

(* Steps that leave the table alone and only end connections, or take an      *)
(* accepted one further.                                                      *)
Declines(s) ==
    \/ phase'[s] = phase[s]
    \/ phase[s] = "open" /\ phase'[s] = "closing"
    \/ phase[s] = "asked" /\ phase'[s] = "refused"
    \/ phase[s] = "verified" /\ phase'[s] \in {"upgraded", "refused"}

LeavesTable ==
    UNCHANGED <<member, target, spanned, table, owner, replaces>> /\ \A s \in Sessions : Declines(s)

LEMMA DeclineKeeps ==
    ASSUME Types, TableInv, LeavesTable
    PROVE  TableInv'
<1>1. TableTruthful'
  BY DEF Types, TableInv, TableTruthful, LeavesTable, Declines
<1>2. Entered' /\ OnlySpanned'
  BY DEF Types, TableInv, Entered, OnlySpanned, LeavesTable, Declines
<1>3. FoundOrSpanned' /\ RemovedIsOut'
  BY DEF Types, TableInv, FoundOrSpanned, RemovedIsOut, LeavesTable, Declines
<1> QED
  BY <1>1, <1>2, <1>3 DEF TableInv

LEMMA ClosingEffect ==
    ASSUME Types, NEW s \in Sessions, phase' = [phase EXCEPT ![s] = Closing(s)]
    PROVE  /\ \A x \in Sessions :
                phase'[x] = phase[x] \/ (phase[x] = "open" /\ phase'[x] = "closing")
           /\ phase'[s] # "open"
BY DEF Types, Closing

LEMMA ClosingDeclines ==
    ASSUME Types, NEW s \in Sessions, phase' = [phase EXCEPT ![s] = Closing(s)]
    PROVE  \A x \in Sessions : Declines(x)
BY ClosingEffect DEF Declines

LEMMA MemberTable ==
    ASSUME Types, Attached, TableInv, NEW m \in Machines, Member(m)
    PROVE  TableInv'
<1>1. CASE Dial(m)
  <2> DEFINE s == CHOOSE x \in Sessions : Unused(x)
  <2>1. s \in Sessions /\ Unused(s)
    BY <1>1 DEF Dial
  <2> HIDE DEF s
  <2>2. /\ phase' = [phase EXCEPT ![s] = "asked"]
        /\ owner' = [owner EXCEPT ![s] = m]
        /\ spanned' = spanned \ {s}
        /\ UNCHANGED <<member, target, table, replaces>>
    BY <1>1 DEF Dial, s
  <2>3. phase[s] \in Ended /\ replaces[s] = None
    BY <2>1 DEF Unused
  <2>4. \A k \in Machines : table[k] # s
    BY <2>1, <2>3, MeshAssumption DEF TableInv, TableTruthful, Ended
  <2>5. TableTruthful'
    BY <2>1, <2>2, <2>4 DEF Types, TableInv, TableTruthful
  <2>6. Entered' /\ OnlySpanned'
    BY <2>1, <2>2, <2>3 DEF Types, TableInv, Entered, OnlySpanned
  <2>7. FoundOrSpanned' /\ RemovedIsOut'
    BY <2>1, <2>2, <2>4 DEF Types, TableInv, FoundOrSpanned, RemovedIsOut
  <2> QED
    BY <2>5, <2>6, <2>7 DEF TableInv
<1>2. CASE MemberConnects(m) \/ DialFails(m) \/ MemberNotices(m)
  <2>1. LeavesTable
    BY <1>2 DEF MemberConnects, DialFails, MemberNotices, LeavesTable, Declines, memberVars, hubVars
  <2> QED
    BY <2>1, DeclineKeeps
<1> QED
  BY <1>1, <1>2 DEF Member

LEMMA HubTable ==
    ASSUME Types, Attached, TableInv, NEW s \in Sessions, Hub(s)
    PROVE  TableInv'
<1>1. CASE Verifies(s)
  <2>1. /\ phase[s] = "asked"
        /\ phase' = [phase EXCEPT ![s] = IF member[owner[s]] = "in" THEN "verified" ELSE "refused"]
        /\ UNCHANGED <<member, target, spanned, table, owner, replaces>>
    BY <1>1 DEF Verifies, Known, memberVars
  <2>2. TableTruthful' /\ Entered'
    BY <2>1 DEF Types, TableInv, TableTruthful, Entered
  <2>3. OnlySpanned'
    BY <2>1 DEF Types, TableInv, OnlySpanned
  <2>4. FoundOrSpanned' /\ RemovedIsOut'
    BY <2>1 DEF Types, TableInv, FoundOrSpanned, RemovedIsOut
  <2> QED
    BY <2>2, <2>3, <2>4 DEF TableInv
<1>2. CASE Upgrades(s)
  <2>1. LeavesTable
    BY <1>2 DEF Upgrades, LeavesTable, Declines, Types, memberVars
  <2> QED
    BY <2>1, DeclineKeeps
<1>3. CASE EntersTable(s)
  <2>1. /\ phase[s] = "upgraded"
        /\ phase' = [phase EXCEPT ![s] = "open"]
        /\ table' = [table EXCEPT ![owner[s]] = s]
        /\ replaces' = [replaces EXCEPT ![s] = table[owner[s]]]
        /\ UNCHANGED <<member, target, spanned, owner>>
    BY <1>3 DEF EntersTable, memberVars
  <2>2. owner[s] \in Machines /\ replaces[s] = None
    BY <2>1 DEF Attached, TableInv, Entered
  <2>3. TableTruthful'
    <3>1. ASSUME NEW k \in Machines, table'[k] # None
          PROVE  owner'[table'[k]] = k /\ phase'[table'[k]] \in {"open", "closing"}
      BY <2>1, <2>2, <3>1 DEF Types, TableInv, TableTruthful
    <3>2. ASSUME NEW x \in Sessions, phase'[x] = "open", x # s
          PROVE  table'[owner'[x]] = x \/ \E o \in Sessions : replaces'[o] = x
      <4>1. phase[x] = "open" /\ owner[x] \in Machines
        BY <2>1, <3>2 DEF Types, Attached
      <4>2. CASE table[owner[x]] = x
        BY <2>1, <2>2, <4>1, <4>2 DEF Types
      <4>3. ASSUME NEW o \in Sessions, replaces[o] = x
            PROVE  replaces'[o] = x
        BY <2>1, <2>2, <4>3, MeshAssumption DEF Types
      <4> QED
        BY <4>1, <4>2, <4>3 DEF TableInv, TableTruthful
    <3>3. table'[owner'[s]] = s
      BY <2>1, <2>2 DEF Types
    <3> QED
      BY <3>1, <3>2, <3>3 DEF TableTruthful
  <2>4. Entered' /\ OnlySpanned'
    BY <2>1, <2>2 DEF Types, TableInv, Entered, OnlySpanned
  <2>5. FoundOrSpanned' /\ RemovedIsOut'
    BY <2>1, <2>2 DEF Types, TableInv, OnlySpanned, FoundOrSpanned, RemovedIsOut, TableTruthful
  <2> QED
    BY <2>3, <2>4, <2>5 DEF TableInv
<1>4. CASE ClosesReplaced(s)
  <2> DEFINE r == replaces[s]
  <2>1. /\ r \in Sessions
        /\ phase' = [phase EXCEPT ![r] = Closing(r)]
        /\ replaces' = [replaces EXCEPT ![s] = None]
        /\ UNCHANGED <<member, target, spanned, table, owner>>
    BY <1>4 DEF ClosesReplaced, Types, memberVars
  <2> HIDE DEF r
  <2>2. \A x \in Sessions : phase'[x] = phase[x] \/ (phase[x] = "open" /\ phase'[x] = "closing")
    BY <2>1, ClosingEffect
  <2>3. phase'[r] # "open"
    BY <2>1, ClosingEffect
  <2>4. TableTruthful'
    <3>1. \A k \in Machines : table'[k] # None =>
            owner'[table'[k]] = k /\ phase'[table'[k]] \in {"open", "closing"}
      BY <2>1, <2>2 DEF Types, TableInv, TableTruthful
    <3>2. ASSUME NEW x \in Sessions, phase'[x] = "open"
          PROVE  table'[owner'[x]] = x \/ \E o \in Sessions : replaces'[o] = x
      <4>1. phase[x] = "open" /\ x # r
        BY <2>2, <2>3, <3>2
      <4>2. ASSUME NEW o \in Sessions, replaces[o] = x
            PROVE  replaces'[o] = x
        BY <2>1, <4>1, <4>2 DEF Types, r
      <4> QED
        BY <2>1, <4>1, <4>2 DEF TableInv, TableTruthful
    <3> QED
      BY <3>1, <3>2 DEF TableTruthful
  <2>5. Entered' /\ OnlySpanned'
    BY <2>1, <2>2 DEF Types, TableInv, Entered, OnlySpanned
  <2>6. FoundOrSpanned' /\ RemovedIsOut'
    BY <2>1, <2>2 DEF Types, TableInv, FoundOrSpanned, RemovedIsOut
  <2> QED
    BY <2>4, <2>5, <2>6 DEF TableInv
<1>5. CASE HubNotices(s)
  <2>1. LeavesTable
    BY <1>5, ClosingDeclines DEF HubNotices, LeavesTable, memberVars
  <2> QED
    BY <2>1, DeclineKeeps
<1>6. CASE CloseEnds(s)
  <2>1. /\ phase[s] = "closing"
        /\ phase' = [phase EXCEPT ![s] = "closed"]
        /\ table' = [table EXCEPT ![owner[s]] = IF @ = s THEN None ELSE @]
        /\ UNCHANGED <<member, target, spanned, owner, replaces>>
    BY <1>6 DEF CloseEnds, memberVars
  <2>2. \A k \in Machines : table'[k] # s /\ (table[k] # s => table'[k] = table[k])
                            /\ (table[k] = s => table'[k] = None)
    BY <2>1, MeshAssumption DEF Types, TableInv, TableTruthful
  <2>3. TableTruthful'
    BY <2>1, <2>2 DEF Types, Attached, TableInv, TableTruthful
  <2>4. Entered' /\ OnlySpanned'
    BY <2>1 DEF Types, TableInv, Entered, OnlySpanned
  <2>5. FoundOrSpanned' /\ RemovedIsOut'
    BY <2>1, <2>2 DEF Types, TableInv, FoundOrSpanned, RemovedIsOut
  <2> QED
    BY <2>3, <2>4, <2>5 DEF TableInv
<1>7. CASE GivesAnswer(s)
  <2>1. LeavesTable
    BY <1>7 DEF GivesAnswer, LeavesTable, Declines, memberVars, hubVars
  <2> QED
    BY <2>1, DeclineKeeps
<1> QED
  BY <1>1, <1>2, <1>3, <1>4, <1>5, <1>6, <1>7 DEF Hub

LEMMA CallTable ==
    ASSUME Types, Attached, TableInv, NEW c \in Calls,
           \/ Call(c) \/ GivesUp(c) \/ \E m \in Machines : FindsSession(c, m)
           \/ TakesAnswer(c) \/ Receives(c) \/ Completes(c) \/ TimesOut(c)
    PROVE  TableInv'
<1>1. CASE WriteFails(c)
  <2>1. on[c] \in Sessions
    BY <1>1 DEF WriteFails, Attached, AtWork
  <2>2. LeavesTable
    BY <1>1, <2>1, ClosingDeclines DEF WriteFails, LeavesTable, memberVars
  <2> QED
    BY <2>2, DeclineKeeps
<1>2. CASE ~WriteFails(c)
  <2>1. UNCHANGED <<memberVars, hubVars>>
    BY <1>2 DEF Call, GivesUp, FindsSession, TakesAnswer, Receives, Completes, TimesOut, Registers,
        Writes, WaitEnds, Leaves
  <2>2. LeavesTable
    BY <2>1 DEF LeavesTable, Declines, memberVars, hubVars
  <2> QED
    BY <2>2, DeclineKeeps
<1> QED
  BY <1>1, <1>2

LEMMA DropTable ==
    ASSUME Types, Attached, TableInv, NEW m \in Machines, DeleteMeshMember(m) \/ Drop(m)
    PROVE  TableInv'
<1>1. CASE DeleteMeshMember(m)
  <2>1. /\ member' = [member EXCEPT ![m] = "deleted"]
        /\ UNCHANGED <<target, spanned, table, phase, owner, replaces>>
    BY <1>1 DEF DeleteMeshMember, hubVars
  <2> QED
    BY <2>1 DEF Types, TableInv, TableTruthful, Entered, OnlySpanned, FoundOrSpanned, RemovedIsOut
<1>2. CASE DropAgentFinds(m)
  <2>1. /\ member' = [member EXCEPT ![m] = "dropping"]
        /\ target' = [target EXCEPT ![m] = table[m]]
        /\ spanned' = spanned \cup
             {s \in Sessions : owner[s] = m /\ phase[s] \in {"verified", "upgraded"}}
        /\ UNCHANGED <<table, phase, owner, replaces>>
    BY <1>2 DEF DropAgentFinds, hubVars
  <2>2. TableTruthful' /\ Entered'
    BY <2>1 DEF TableInv, TableTruthful, Entered
  <2>3. OnlySpanned'
    BY <2>1 DEF Types, TableInv, OnlySpanned
  <2>4. FoundOrSpanned' /\ RemovedIsOut'
    BY <2>1 DEF Types, TableInv, FoundOrSpanned, RemovedIsOut
  <2> QED
    BY <2>2, <2>3, <2>4 DEF TableInv
<1>3. CASE DropAgentCloses(m)
  <2>1. /\ member[m] = "dropping"
        /\ member' = [member EXCEPT ![m] = "out"]
        /\ target' = [target EXCEPT ![m] = None]
        /\ phase' = IF target[m] = None THEN phase
                    ELSE [phase EXCEPT ![target[m]] = Closing(target[m])]
        /\ UNCHANGED <<spanned, table, owner, replaces>>
    BY <1>3 DEF DropAgentCloses
  <2>2. target[m] # None => target[m] \in Sessions
    BY DEF Types
  <2>3. /\ \A x \in Sessions :
             phase'[x] = phase[x] \/ (phase[x] = "open" /\ phase'[x] = "closing")
        /\ target[m] # None => phase'[target[m]] # "open"
    BY <2>1, <2>2, ClosingEffect
  <2>4. TableTruthful' /\ Entered'
    BY <2>1, <2>3 DEF Types, TableInv, TableTruthful, Entered
  <2>5. OnlySpanned' /\ FoundOrSpanned'
    BY <2>1, <2>3 DEF Types, TableInv, OnlySpanned, FoundOrSpanned
  <2>6. RemovedIsOut'
    BY <2>1, <2>3 DEF Types, TableInv, TableTruthful, FoundOrSpanned, RemovedIsOut
  <2> QED
    BY <2>4, <2>5, <2>6 DEF TableInv
<1> QED
  BY <1>1, <1>2, <1>3 DEF Drop

LEMMA FaultTable ==
    ASSUME Types, TableInv, NEW s \in Sessions, WireBreaks(s) \/ VerifyErrs(s)
    PROVE  TableInv'
<1>1. LeavesTable
  BY DEF WireBreaks, VerifyErrs, LeavesTable, Declines, Types, memberVars, hubVars
<1> QED
  BY <1>1, DeclineKeeps

LEMMA TableStep ==
    ASSUME Types, Attached, TableInv, [Next]_vars
    PROVE  TableInv'
<1>1. CASE UNCHANGED vars
  <2>1. LeavesTable
    BY <1>1 DEF vars, memberVars, hubVars, LeavesTable, Declines
  <2> QED
    BY <2>1, DeclineKeeps
<1> QED
  BY <1>1, MemberTable, HubTable, CallTable, DropTable, FaultTable DEF Next, Fault

----------------------------------------------------------------------------
(* The numbers of a session.  Each is given to one call, so that there are no *)
(* more of them than calls.                                                    *)
Numbered == {c \in Calls : at[c] \notin {"idle", "found"}}
FewNumbers == \A s \in Sessions : nextID[s] <= Cardinality(Numbered)

LEMMA NumberedFinite == IsFiniteSet(Numbered) /\ Cardinality(Numbered) \in Nat
                        /\ Cardinality(Numbered) <= Cardinality(Calls)
<1>1. Numbered \subseteq Calls
  BY DEF Numbered
<1> QED
  BY <1>1, MeshAssumption, FS_Subset, FS_CardinalityType

LEMMA NumbersKept ==
    ASSUME Types, Types', FewNumbers,
           Numbered \subseteq Numbered', \A s \in Sessions : nextID'[s] <= nextID[s]
    PROVE  FewNumbers'
<1>1. IsFiniteSet(Numbered')
  <2>1. Numbered' \subseteq Calls
    BY DEF Numbered
  <2> QED
    BY <2>1, MeshAssumption, FS_Subset
<1>2. Cardinality(Numbered) <= Cardinality(Numbered') /\ Cardinality(Numbered') \in Nat
  BY <1>1, FS_Subset, FS_CardinalityType
<1>3. ASSUME NEW s \in Sessions
      PROVE  nextID'[s] <= Cardinality(Numbered')
  <2>1. nextID[s] \in Nat /\ nextID'[s] \in Nat /\ nextID[s] <= Cardinality(Numbered)
    BY DEF Types, FewNumbers
  <2>2. nextID'[s] <= nextID[s]
    OBVIOUS
  <2> QED
    BY <1>2, <2>1, <2>2, NumberedFinite
<1> QED
  BY <1>3 DEF FewNumbers

LEMMA RegistersNumbers ==
    ASSUME Types, Types', Attached, FewNumbers, NEW c \in Calls, Registers(c)
    PROVE  FewNumbers'
<1>1. at[c] = "found" /\ on[c] \in Sessions
  BY DEF Registers, Attached
<1>2. at' \in [Calls -> Stage] /\ at'[c] \notin {"idle", "found"}
      /\ \A d \in Calls \ {c} : at'[d] = at[d]
  BY <1>1 DEF Registers, Returns, Types
<1>3. Numbered' = Numbered \cup {c} /\ c \notin Numbered
  BY <1>1, <1>2 DEF Numbered
<1>4. Cardinality(Numbered') = Cardinality(Numbered) + 1
  BY <1>3, NumberedFinite, FS_AddElement
<1>5. \A s \in Sessions : nextID'[s] <= nextID[s] + 1
  BY <1>1 DEF Registers, Types
<1>6. ASSUME NEW s \in Sessions
      PROVE  nextID'[s] <= Cardinality(Numbered')
  <2>1. nextID[s] \in Nat /\ nextID'[s] \in Nat /\ nextID[s] <= Cardinality(Numbered)
    BY DEF Types, FewNumbers
  <2>2. nextID'[s] <= nextID[s] + 1
    BY <1>5
  <2> QED
    BY <1>4, <2>1, <2>2, NumberedFinite
<1> QED
  BY <1>6 DEF FewNumbers

LEMMA NumbersStep ==
    ASSUME Types, Types', Attached, FewNumbers, [Next]_vars
    PROVE  FewNumbers'
<1>1. CASE UNCHANGED <<at, nextID>>
  BY <1>1 DEF FewNumbers, Numbered
<1>2. ASSUME NEW m \in Machines, Dial(m)
      PROVE  FewNumbers'
  <2> DEFINE s == CHOOSE x \in Sessions : Unused(x)
  <2>1. s \in Sessions
    BY <1>2 DEF Dial
  <2> HIDE DEF s
  <2>2. nextID' = [nextID EXCEPT ![s] = 0] /\ at' = at
    BY <1>2 DEF Dial, s, callVars
  <2>3. \A x \in Sessions : nextID'[x] <= nextID[x]
    BY <2>1, <2>2 DEF Types
  <2>4. Numbered \subseteq Numbered'
    BY <2>2 DEF Numbered
  <2> QED
    BY <2>3, <2>4, NumbersKept
<1>3. ASSUME NEW c \in Calls,
             \/ Writes(c) \/ WriteFails(c) \/ WaitEnds(c) \/ Leaves(c) \/ GivesUp(c)
             \/ \E m \in Machines : FindsSession(c, m)
      PROVE  FewNumbers'
  <2>1. nextID' = nextID
    BY <1>3 DEF Writes, WriteFails, WaitEnds, Leaves, GivesUp, FindsSession, readVars
  <2>2. /\ at[c] = "idle" \/ at'[c] \notin {"idle", "found"}
        /\ \A d \in Calls \ {c} : at'[d] = at[d]
    BY <1>3 DEF Writes, WriteFails, WaitEnds, Leaves, GivesUp, FindsSession, Returns, Types
  <2>3. Numbered \subseteq Numbered'
    BY <2>2 DEF Numbered
  <2>4. \A x \in Sessions : nextID'[x] <= nextID[x]
    BY <2>1 DEF Types
  <2> QED
    BY <2>3, <2>4, NumbersKept
<1>4. ASSUME NEW m \in Machines, Member(m) \/ DeleteMeshMember(m) \/ Drop(m), ~Dial(m)
      PROVE  UNCHANGED <<at, nextID>>
  BY <1>4 DEF Member, MemberConnects, DialFails, MemberNotices, DeleteMeshMember, Drop,
      DropAgentFinds, DropAgentCloses, readVars, callVars
<1>5. ASSUME NEW s \in Sessions, Hub(s) \/ WireBreaks(s) \/ VerifyErrs(s)
      PROVE  UNCHANGED <<at, nextID>>
  BY <1>5 DEF Hub, Verifies, Upgrades, EntersTable, ClosesReplaced, HubNotices, CloseEnds,
      GivesAnswer, WireBreaks, VerifyErrs, readVars, callVars
<1>6. ASSUME NEW c \in Calls, TakesAnswer(c) \/ Receives(c) \/ Completes(c) \/ TimesOut(c)
      PROVE  UNCHANGED <<at, nextID>>
  BY <1>6 DEF TakesAnswer, Receives, Completes, TimesOut, readVars, callVars
<1>7. CASE UNCHANGED vars
  BY <1>1, <1>7 DEF vars, readVars, callVars
<1> QED
  BY <1>1, <1>2, <1>3, <1>4, <1>5, <1>6, <1>7, RegistersNumbers DEF Next, Fault, Call

(* The table is right about who is connected, and stays in its types: what a  *)
(* reconnect that overtakes the end of the old connection, or a removal in the *)
(* middle of one, could break.                                                 *)
THEOREM SessionsAlways == Spec => []SessionsExact
<1> DEFINE IInv == Types /\ Attached /\ TableInv /\ FewNumbers
<1>1. Init => IInv
  <2> SUFFICES ASSUME Init PROVE IInv
    OBVIOUS
  <2>1. Types /\ Attached
    BY DEF Init, Types, Attached, Phase, Ended, Stage, AtWork
  <2>2. TableInv
    BY DEF Init, TableInv, TableTruthful, Entered, OnlySpanned, FoundOrSpanned, RemovedIsOut
  <2>3. FewNumbers
    BY NumberedFinite DEF Init, FewNumbers
  <2> QED
    BY <2>1, <2>2, <2>3
<1>2. IInv /\ [Next]_vars => IInv'
  <2> SUFFICES ASSUME IInv, [Next]_vars PROVE IInv'
    OBVIOUS
  <2>1. Types' /\ Attached'
    BY TypesStep
  <2>2. TableInv'
    BY TableStep
  <2>3. FewNumbers'
    BY <2>1, NumbersStep
  <2> QED
    BY <2>1, <2>2, <2>3
<1>3. IInv => SessionsExact
  <2> SUFFICES ASSUME IInv PROVE SessionsExact
    OBVIOUS
  <2>1. nextID \in [Sessions -> 0..Cardinality(Calls)]
    <3>1. ASSUME NEW s \in Sessions
          PROVE  nextID[s] \in 0..Cardinality(Calls)
      <4>1. nextID[s] \in Nat /\ nextID[s] <= Cardinality(Numbered)
        BY DEF Types, FewNumbers
      <4> QED
        BY <4>1, NumberedFinite, MeshAssumption, FS_CardinalityType
    <3> QED
      BY <3>1 DEF Types
  <2>2. TypeOK
    BY <2>1 DEF Types, TypeOK, Phase, Stage
  <2> QED
    BY <2>2 DEF SessionsExact, TableInv
<1> QED
  BY <1>1, <1>2, <1>3, PTL DEF Spec

----------------------------------------------------------------------------
(* The answers.  A call asks under a number while it is at work, and its      *)
(* request may do so for longer.                                              *)
Asked(c, s, k) ==
    \/ at[c] \in AtWork /\ on[c] = s /\ id[c] = k
    \/ request[c] # None /\ request[c].session = s /\ request[c].id = k

Unasked == \A c \in Calls : at[c] \in {"idle", "found", "writing"} => request[c] = None

Counted == \A c \in Calls, s \in Sessions, k \in Nat : Asked(c, s, k) => k \in 1..nextID[s]

OneEach ==
    \A c \in Calls, d \in Calls, s \in Sessions, k \in Nat : Asked(c, s, k) /\ Asked(d, s, k) => c = d

Matched ==
    /\ \A s \in Sessions : hand[s] # None => hand[s][1] = hand[s][2]
    /\ \A c \in Calls : box[c] \in {None, c}

CallsInv == Unasked /\ Counted /\ OneEach /\ Matched /\ PendingExact /\ RightAnswer

LEMMA FewerAsked ==
    ASSUME Counted, OneEach, nextID' = nextID,
           \A c \in Calls, s \in Sessions, k \in Nat : Asked(c, s, k)' => Asked(c, s, k)
    PROVE  Counted' /\ OneEach'
BY DEF Counted, OneEach

LEMMA CallsUntouched ==
    ASSUME CallsInv, UNCHANGED <<readVars, callVars, request>>
    PROVE  CallsInv'
BY DEF CallsInv, Unasked, Counted, OneEach, Matched, PendingExact, RightAnswer, Asked, readVars, callVars

(* Requests that go on, or are lost.                                          *)
LEMMA RequestsMove ==
    ASSUME CallsInv, UNCHANGED <<readVars, callVars>>,
           \A c \in Calls : \/ request'[c] = None
                            \/ /\ request[c] # None
                               /\ request'[c].session = request[c].session
                               /\ request'[c].id = request[c].id
    PROVE  CallsInv'
<1>1. \A c \in Calls, s \in Sessions, k \in Nat : Asked(c, s, k)' => Asked(c, s, k)
  BY DEF Asked, callVars
<1>2. Counted' /\ OneEach'
  BY <1>1, FewerAsked DEF CallsInv, readVars
<1>3. Unasked'
  BY DEF CallsInv, Unasked, callVars
<1>4. Matched' /\ PendingExact' /\ RightAnswer'
  BY DEF CallsInv, Matched, PendingExact, RightAnswer, readVars, callVars
<1> QED
  BY <1>2, <1>3, <1>4 DEF CallsInv

LEMMA RequestMoves ==
    ASSUME Types, CallsInv, NEW c \in Calls, Receives(c) \/ Completes(c) \/ TimesOut(c)
    PROVE  CallsInv'
<1>1. PICK place : request[c] # None /\ Moves(c, place)
  BY DEF Receives, Completes, TimesOut, Is
<1>2. request[c] \in Request
  BY <1>1 DEF Types
<1>3. /\ [request[c] EXCEPT !.place = place].session = request[c].session
      /\ [request[c] EXCEPT !.place = place].id = request[c].id
  BY <1>2 DEF Request
<1>4. \A d \in Calls : request'[d] = IF d = c THEN [request[c] EXCEPT !.place = place] ELSE request[d]
  BY <1>1 DEF Moves, Types
<1>5. UNCHANGED <<readVars, callVars>>
  BY DEF Receives, Completes, TimesOut
<1> QED
  BY <1>1, <1>3, <1>4, <1>5, RequestsMove

LEMMA MemberCalls ==
    ASSUME Types, CallsInv, NEW m \in Machines, Member(m)
    PROVE  CallsInv'
<1>1. CASE Dial(m)
  <2> DEFINE s == CHOOSE x \in Sessions : Unused(x)
  <2>1. s \in Sessions /\ Unused(s)
    BY <1>1 DEF Dial
  <2> HIDE DEF s
  <2>2. /\ nextID' = [nextID EXCEPT ![s] = 0]
        /\ request' = Without(s, {"sent", "running", "answered"})
        /\ UNCHANGED <<pending, hand, at, on, id, box, outcome>>
    BY <1>1 DEF Dial, s, callVars
  <2>3. \A c \in Calls : on[c] # s /\ ~(request'[c] # None /\ request'[c].session = s)
                         /\ (request'[c] = None \/ request'[c] = request[c])
    BY <2>1, <2>2 DEF Unused, Without, Types, Request
  <2>4. \A c \in Calls, x \in Sessions, k \in Nat : Asked(c, x, k)' => Asked(c, x, k) /\ x # s
    BY <2>2, <2>3 DEF Asked
  <2>5. Counted' /\ OneEach'
    BY <2>1, <2>2, <2>4 DEF CallsInv, Counted, OneEach, Types
  <2>6. Unasked'
    BY <2>2, <2>3 DEF CallsInv, Unasked
  <2>7. Matched' /\ PendingExact' /\ RightAnswer'
    BY <2>2 DEF CallsInv, Matched, PendingExact, RightAnswer
  <2> QED
    BY <2>5, <2>6, <2>7 DEF CallsInv
<1>2. CASE MemberConnects(m) \/ DialFails(m)
  BY <1>2, CallsUntouched DEF MemberConnects, DialFails
<1>3. CASE MemberNotices(m)
  <2>1. UNCHANGED <<readVars, callVars>>
    BY <1>3 DEF MemberNotices
  <2>2. \A c \in Calls : request'[c] = None \/ (request[c] # None /\ request'[c] = request[c])
    BY <1>3 DEF MemberNotices, Without
  <2> QED
    BY <2>1, <2>2, RequestsMove
<1> QED
  BY <1>1, <1>2, <1>3 DEF Member

LEMMA HubCalls ==
    ASSUME Types, CallsInv, NEW s \in Sessions, Hub(s)
    PROVE  CallsInv'
<1>1. CASE GivesAnswer(s)
  <2> DEFINE c == hand[s][1]
  <2>1. c \in Calls /\ hand[s][2] = c
    BY <1>1 DEF GivesAnswer, Types, CallsInv, Matched
  <2>2. /\ hand' = [hand EXCEPT ![s] = None]
        /\ box' = [box EXCEPT ![c] = IF at[c] = "back" THEN @ ELSE c]
        /\ UNCHANGED <<nextID, pending, at, on, id, outcome, request>>
    BY <1>1, <2>1 DEF GivesAnswer
  <2> HIDE DEF c
  <2>3. Matched'
    BY <2>1, <2>2 DEF CallsInv, Matched, Types
  <2>4. Unasked' /\ PendingExact' /\ RightAnswer'
    BY <2>2 DEF CallsInv, Unasked, PendingExact, RightAnswer
  <2>5. Counted' /\ OneEach'
    BY <2>2, FewerAsked DEF CallsInv, Asked
  <2> QED
    BY <2>3, <2>4, <2>5 DEF CallsInv
<1>2. CASE ~GivesAnswer(s)
  <2>1. UNCHANGED <<readVars, callVars, request>>
    BY <1>2 DEF Hub, Verifies, Upgrades, EntersTable, ClosesReplaced, HubNotices, CloseEnds
  <2> QED
    BY <2>1, CallsUntouched
<1> QED
  BY <1>1, <1>2

LEMMA RegistersCalls ==
    ASSUME Types, Attached, CallsInv, NEW c \in Calls, Registers(c)
    PROVE  CallsInv'
<1> DEFINE s == on[c]
           k == nextID[s] + 1
<1>1. /\ at[c] = "found" /\ s \in Sessions /\ nextID[s] \in Nat /\ k \in Nat /\ request[c] = None
      /\ \A x \in Sessions, n \in Nat : ~Asked(c, x, n)
  BY DEF Registers, Attached, Types, CallsInv, Unasked, Asked, AtWork
<1>2. UNCHANGED <<hand, box, request>>
  BY DEF Registers
<1>3. CASE Returns(c, "offline") /\ on' = [on EXCEPT ![c] = None] /\ UNCHANGED <<nextID, id, pending>>
  <2>1. \A d \in Calls : d # c => at'[d] = at[d] /\ on'[d] = on[d] /\ outcome'[d] = outcome[d]
    BY <1>3 DEF Returns, Types
  <2>2. at'[c] = "back" /\ outcome'[c] = "offline"
    BY <1>3 DEF Returns, Types
  <2>3. \A d \in Calls, x \in Sessions, n \in Nat : Asked(d, x, n)' => Asked(d, x, n)
    BY <1>1, <1>2, <1>3, <2>1, <2>2 DEF Asked, AtWork
  <2>4. Counted' /\ OneEach'
    BY <1>3, <2>3, FewerAsked DEF CallsInv
  <2>5. Unasked' /\ Matched'
    BY <1>2, <2>1, <2>2 DEF CallsInv, Unasked, Matched
  <2>6. PendingExact'
    <3> SUFFICES ASSUME NEW p \in pending'
                 PROVE  /\ at'[p[3]] \in AtWork
                        /\ on'[p[3]] = p[1] /\ id'[p[3]] = p[2]
      BY DEF PendingExact, AtWork
    <3>1. p \in pending /\ p[3] \in Calls /\ at[p[3]] \in AtWork /\ on[p[3]] = p[1] /\ id[p[3]] = p[2]
      BY <1>3 DEF CallsInv, PendingExact, Types, AtWork
    <3>2. p[3] # c
      BY <1>1, <3>1 DEF AtWork
    <3> QED
      BY <1>3, <2>1, <3>1, <3>2
  <2>7. RightAnswer'
    BY <2>1, <2>2, MeshAssumption DEF CallsInv, RightAnswer
  <2> QED
    BY <2>4, <2>5, <2>6, <2>7 DEF CallsInv
<1>4. CASE /\ UNCHANGED <<outcome, on>>
           /\ nextID' = [nextID EXCEPT ![s] = k]
           /\ id' = [id EXCEPT ![c] = k]
           /\ pending' = pending \cup {<<s, k, c>>}
           /\ at' = [at EXCEPT ![c] = "writing"]
  <2> HIDE DEF k
  <2>1. /\ \A d \in Calls : d # c => at'[d] = at[d] /\ id'[d] = id[d]
        /\ at'[c] = "writing" /\ id'[c] = k
    BY <1>4 DEF Types
  <2>2. \A d \in Calls, x \in Sessions, n \in Nat :
            Asked(d, x, n)' <=> IF d = c THEN x = s /\ n = k ELSE Asked(d, x, n)
    BY <1>1, <1>2, <1>4, <2>1 DEF Asked, AtWork
  <2>3. nextID'[s] = k /\ \A x \in Sessions : x # s => nextID'[x] = nextID[x]
    BY <1>1, <1>4 DEF Types
  <2>4. Counted'
    <3> SUFFICES ASSUME NEW d \in Calls, NEW x \in Sessions, NEW n \in Nat, Asked(d, x, n)'
                 PROVE  n \in 1..nextID'[x]
      BY DEF Counted
    <3>1. CASE d = c
      BY <1>1, <2>2, <2>3, <3>1 DEF k
    <3>2. CASE d # c
      <4>1. n \in 1..nextID[x]
        BY <2>2, <3>2 DEF CallsInv, Counted
      <4> QED
        BY <1>1, <2>3, <4>1 DEF k
    <3> QED
      BY <3>1, <3>2
  <2>5. OneEach'
    <3>1. \A d \in Calls : ~Asked(d, s, k)
      BY <1>1 DEF CallsInv, Counted, k
    <3> QED
      BY <1>1, <2>2, <3>1 DEF CallsInv, OneEach
  <2>6. Unasked' /\ Matched' /\ RightAnswer'
    BY <1>1, <1>2, <1>4, <2>1 DEF CallsInv, Unasked, Matched, RightAnswer
  <2>7. PendingExact'
    <3> SUFFICES ASSUME NEW p \in pending'
                 PROVE  /\ at'[p[3]] \in AtWork
                        /\ on'[p[3]] = p[1] /\ id'[p[3]] = p[2]
      BY DEF PendingExact, AtWork
    <3>1. CASE p = <<s, k, c>>
      BY <1>4, <2>1, <3>1 DEF AtWork
    <3>2. CASE p \in pending
      <4>1. p[3] \in Calls /\ at[p[3]] \in AtWork /\ on[p[3]] = p[1] /\ id[p[3]] = p[2]
        BY <3>2 DEF CallsInv, PendingExact, Types, AtWork
      <4>2. p[3] # c
        BY <1>1, <4>1 DEF AtWork
      <4> QED
        BY <1>4, <2>1, <4>1, <4>2
    <3> QED
      BY <1>4, <3>1, <3>2
  <2> QED
    BY <2>4, <2>5, <2>6, <2>7 DEF CallsInv
<1> QED
  BY <1>3, <1>4 DEF Registers

LEMMA CallCalls ==
    ASSUME Types, Attached, CallsInv, NEW c \in Calls,
           Call(c) \/ GivesUp(c) \/ \E m \in Machines : FindsSession(c, m)
    PROVE  CallsInv'
<1>1. CASE Registers(c)
  BY <1>1, RegistersCalls
<1>2. ASSUME NEW m \in Machines, FindsSession(c, m)
      PROVE  CallsInv'
  <2>1. /\ at[c] = "idle" /\ at'[c] \in {"found", "back"}
        /\ outcome'[c] \in {outcome[c], "offline"}
        /\ \A d \in Calls : d # c => at'[d] = at[d] /\ on'[d] = on[d] /\ outcome'[d] = outcome[d]
        /\ UNCHANGED <<nextID, pending, hand, id, box, request>>
    BY <1>2 DEF FindsSession, Returns, Types, readVars
  <2>2. \A d \in Calls, x \in Sessions, k \in Nat : Asked(d, x, k)' => Asked(d, x, k)
    BY <2>1 DEF Asked, AtWork
  <2>3. Counted' /\ OneEach'
    BY <2>1, <2>2, FewerAsked DEF CallsInv
  <2>4. Unasked' /\ Matched'
    BY <2>1 DEF CallsInv, Unasked, Matched
  <2>5. PendingExact'
    BY <2>1 DEF CallsInv, PendingExact, Types
  <2>6. RightAnswer'
    BY <2>1, MeshAssumption DEF CallsInv, RightAnswer
  <2> QED
    BY <2>3, <2>4, <2>5, <2>6 DEF CallsInv
<1>3. CASE Writes(c)
  <2>1. PICK late \in BOOLEAN :
          request' = [request EXCEPT ![c] =
                         [place |-> "sent", session |-> on[c], id |-> id[c], late |-> late]]
    BY <1>3 DEF Writes
  <2>2. /\ at[c] = "writing" /\ at' = [at EXCEPT ![c] = "waiting"]
        /\ UNCHANGED <<nextID, pending, hand, on, id, box, outcome>>
    BY <1>3 DEF Writes, readVars
  <2>3. \A d \in Calls, x \in Sessions, k \in Nat : Asked(d, x, k)' => Asked(d, x, k)
    BY <2>1, <2>2 DEF Asked, AtWork, Types
  <2>4. Counted' /\ OneEach'
    BY <2>2, <2>3, FewerAsked DEF CallsInv
  <2>5. Unasked'
    BY <2>1, <2>2 DEF CallsInv, Unasked, Types
  <2>6. Matched' /\ PendingExact' /\ RightAnswer'
    BY <2>2 DEF CallsInv, Matched, PendingExact, RightAnswer, Types
  <2> QED
    BY <2>4, <2>5, <2>6 DEF CallsInv
<1>4. CASE WriteFails(c) \/ WaitEnds(c) \/ GivesUp(c)
  <2>1. /\ at[c] \in {"writing", "waiting"} /\ at' = [at EXCEPT ![c] = "leaving"]
        /\ \E o \in {"dropped", "gaveUp"} \cup ({box[c]} \ {None}) :
             outcome' = [outcome EXCEPT ![c] = o]
        /\ UNCHANGED <<nextID, pending, hand, on, id, box, request>>
    BY <1>4 DEF WriteFails, WaitEnds, GivesUp, readVars
  <2>2. \A d \in Calls, x \in Sessions, k \in Nat : Asked(d, x, k)' => Asked(d, x, k)
    BY <2>1 DEF Asked, AtWork, Types
  <2>3. Counted' /\ OneEach'
    BY <2>1, <2>2, FewerAsked DEF CallsInv
  <2>4. Unasked' /\ Matched' /\ PendingExact'
    BY <2>1 DEF CallsInv, Unasked, Matched, PendingExact, Types
  <2>5. RightAnswer'
    BY <2>1, MeshAssumption DEF CallsInv, Matched, RightAnswer, Types
  <2> QED
    BY <2>3, <2>4, <2>5 DEF CallsInv
<1>5. CASE Leaves(c)
  <2>1. /\ at[c] = "leaving" /\ at' = [at EXCEPT ![c] = "back"]
        /\ pending' = {p \in pending : <<p[1], p[2]>> # <<on[c], id[c]>>}
        /\ on' = [on EXCEPT ![c] = None] /\ id' = [id EXCEPT ![c] = 0]
        /\ box' = [box EXCEPT ![c] = None]
        /\ UNCHANGED <<nextID, hand, outcome, request>>
    BY <1>5 DEF Leaves
  <2>2. \A d \in Calls, x \in Sessions, k \in Nat : Asked(d, x, k)' => Asked(d, x, k)
    BY <2>1 DEF Asked, AtWork, Types
  <2>3. Counted' /\ OneEach'
    BY <2>1, <2>2, FewerAsked DEF CallsInv
  <2>4. Unasked' /\ Matched' /\ RightAnswer'
    BY <2>1 DEF CallsInv, Unasked, Matched, RightAnswer, Types
  <2>5. PendingExact'
    <3> SUFFICES ASSUME NEW p \in pending'
                 PROVE  /\ at'[p[3]] \in AtWork
                        /\ on'[p[3]] = p[1] /\ id'[p[3]] = p[2]
      BY DEF PendingExact, AtWork
    <3>1. /\ p \in pending /\ <<p[1], p[2]>> # <<on[c], id[c]>>
          /\ p[3] \in Calls /\ at[p[3]] \in AtWork /\ on[p[3]] = p[1] /\ id[p[3]] = p[2]
      BY <2>1 DEF CallsInv, PendingExact, Types, AtWork
    <3>2. p[3] # c
      BY <3>1
    <3> QED
      BY <2>1, <3>1, <3>2 DEF Types
  <2> QED
    BY <2>3, <2>4, <2>5 DEF CallsInv
<1> QED
  BY <1>1, <1>2, <1>3, <1>4, <1>5 DEF Call

LEMMA AnswerCalls ==
    ASSUME Types, Attached, CallsInv, NEW c \in Calls, TakesAnswer(c)
    PROVE  CallsInv'
<1> DEFINE s == request[c].session
           k == request[c].id
           asked == {p \in pending : p[1] = s /\ p[2] = k}
<1>1. request[c] # None /\ s \in Sessions /\ k \in Nat
  BY DEF TakesAnswer, Is, Types, Request
<1>2. /\ request' = [request EXCEPT ![c] = None] /\ pending' = pending \ asked
      /\ hand' = hand \/ \E p \in asked : hand' = [hand EXCEPT ![s] = <<p[3], c>>]
      /\ UNCHANGED <<nextID, at, on, id, box, outcome>>
  BY DEF TakesAnswer, callVars
<1>3. ASSUME NEW p \in asked
      PROVE  p[3] = c
  <2>1. p[3] \in Calls /\ Asked(p[3], s, k)
    BY <1>3 DEF CallsInv, PendingExact, Types, Asked, AtWork
  <2>2. Asked(c, s, k)
    BY <1>1 DEF Asked
  <2> QED
    BY <1>1, <2>1, <2>2 DEF CallsInv, OneEach
<1> HIDE DEF s, k
<1>4. \A d \in Calls, x \in Sessions, n \in Nat : Asked(d, x, n)' => Asked(d, x, n)
  BY <1>2 DEF Asked, Types
<1>5. Counted' /\ OneEach'
  BY <1>2, <1>4, FewerAsked DEF CallsInv
<1>6. Unasked' /\ RightAnswer'
  BY <1>2 DEF CallsInv, Unasked, RightAnswer, Types
<1>7. PendingExact'
  BY <1>2 DEF CallsInv, PendingExact
<1>8. Matched'
  BY <1>1, <1>2, <1>3 DEF CallsInv, Matched, Types
<1> QED
  BY <1>5, <1>6, <1>7, <1>8 DEF CallsInv

LEMMA CallsStep ==
    ASSUME Types, Attached, CallsInv, [Next]_vars
    PROVE  CallsInv'
<1>1. CASE UNCHANGED vars
  BY <1>1, CallsUntouched DEF vars
<1>2. ASSUME NEW m \in Machines, DeleteMeshMember(m) \/ Drop(m)
      PROVE  CallsInv'
  BY <1>2, CallsUntouched DEF DeleteMeshMember, Drop, DropAgentFinds, DropAgentCloses
<1>3. ASSUME NEW s \in Sessions, WireBreaks(s) \/ VerifyErrs(s)
      PROVE  CallsInv'
  BY <1>3, CallsUntouched DEF WireBreaks, VerifyErrs
<1> QED
  BY <1>1, <1>2, <1>3, MemberCalls, HubCalls, CallCalls, AnswerCalls, RequestMoves DEF Next, Fault

(* Answers go to the calls they are for, and a call that is over leaves       *)
(* nothing in the table of its session, whatever came late or was given up.    *)
THEOREM CallsAlways == Spec => []CallsExact
<1>1. Init => Types /\ Attached /\ CallsInv
  <2> SUFFICES ASSUME Init PROVE Types /\ Attached /\ CallsInv
    OBVIOUS
  <2>1. Types /\ Attached
    BY DEF Init, Types, Attached, Phase, Ended, Stage, AtWork
  <2>2. CallsInv
    BY MeshAssumption
    DEF Init, CallsInv, Unasked, Counted, OneEach, Matched, PendingExact, RightAnswer, Asked, AtWork
  <2> QED
    BY <2>1, <2>2
<1>2. Types /\ Attached /\ CallsInv /\ [Next]_vars => (Types /\ Attached /\ CallsInv)'
  BY TypesStep, CallsStep
<1>3. CallsInv => CallsExact
  BY DEF CallsInv, CallsExact
<1> QED
  BY <1>1, <1>2, <1>3, PTL DEF Spec
=============================================================================
