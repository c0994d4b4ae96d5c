-------------------------- MODULE Handlers_proofs --------------------------
(***************************************************************************)
(* What holds of every handler whose calls are of the right kind, in every *)
(* scene: with any number of other requests, of failures, of lost answers, *)
(* of restarts and of changes by others.  That the calls of a handler are  *)
(* of the right kind (Careful) can be read off its script.                 *)
(***************************************************************************)
EXTENDS Handlers, Integers, TLAPS

Known == {"unread", "fresh", "stale", "absent"}
Marks == {"none", "casos", "plain", "foreign"}
Errors == {"stop", "undo", "else", "skip", "note"}
States(D) == [at : Nat \ {0}, read : BOOLEAN, left : SUBSET D, view : [D -> Known], on : Branches,
              bad : BOOLEAN, end : {"idle", "running", "ok", "fail", "lost"}]
Objs == DOMAIN scene.has

(* What is left to be dealt with is of the listing under way.               *)
Listed(r) ==
    calls[r].left # {} => /\ calls[r].read /\ calls[r].at \in DOMAIN Calls(r)
                          /\ Now(r).op \in Listing /\ calls[r].left \subseteq Now(r).on
Types == /\ scene \in Scenes /\ meddles \in Int /\ meddles <= scene.meddles
         /\ cluster \in [Objs -> [mark : Marks, by : Reqs \cup {Others}]]
         /\ calls \in [Reqs -> States(Objs)]
         /\ \A r \in Reqs : Listed(r)

----------------------------------------------------------------------------
(* What becomes of a request, field by field.                               *)
LEMMA PassedIs ==
    ASSUME NEW D, NEW c \in States(D)
    PROVE  LET d == Passed(c) IN
           /\ d \in States(D) /\ d.at = c.at + 1 /\ ~d.read /\ d.left = {} /\ d.view = c.view
           /\ d.on = c.on /\ d.bad = c.bad /\ d.end = c.end
<1>1. c.at + 1 \in Nat \ {0}
  <2>1. c.at \in Nat
    BY DEF States
  <2> QED
    BY <2>1
<1>2. PICK n \in Nat \ {0} : n = c.at + 1
  BY <1>1
<1>3. \A b \in States(D) : LET d == [b EXCEPT !.at = n, !.read = FALSE, !.left = {}] IN
         /\ d \in States(D) /\ d.at = n /\ ~d.read /\ d.left = {} /\ d.view = b.view
         /\ d.on = b.on /\ d.bad = b.bad /\ d.end = b.end
  BY DEF States
<1>4. Passed(c) = [c EXCEPT !.at = n, !.read = FALSE, !.left = {}]
  BY <1>2 DEF Passed
<1> QED
  BY <1>2, <1>3, <1>4

LEMMA PastIs ==
    ASSUME NEW D, NEW c \in States(D), NEW o
    PROVE  LET d == Past(c, o) IN
           /\ d \in States(D) /\ d.view = c.view /\ d.on = c.on /\ d.bad = c.bad /\ d.end = c.end
           /\ c.left \subseteq {o} => d.at = c.at + 1 /\ ~d.read /\ d.left = {}
           /\ ~(c.left \subseteq {o}) => d.at = c.at /\ d.read = c.read /\ d.left = c.left \ {o}
<1>1. LET d == [c EXCEPT !.left = @ \ {o}] IN
         /\ d \in States(D) /\ d.view = c.view /\ d.on = c.on /\ d.bad = c.bad /\ d.end = c.end
         /\ d.at = c.at /\ d.read = c.read /\ d.left = c.left \ {o}
  BY DEF States
<1> QED
  BY <1>1, PassedIs DEF Past

LEMMA KnowsIs ==
    ASSUME NEW D, NEW c \in States(D), NEW o \in D, NEW v \in Known
    PROVE  LET d == Knows(c, o, v) IN
           /\ d \in States(D) /\ d.view = [c.view EXCEPT ![o] = v] /\ d.at = c.at /\ d.read = c.read
           /\ d.left = c.left /\ d.on = c.on /\ d.bad = c.bad /\ d.end = c.end
BY DEF Knows, States

LEMMA StoppedIs ==
    ASSUME NEW D, NEW c \in States(D)
    PROVE  LET d == Stopped(c) IN
           /\ d \in States(D) /\ d.at = Over /\ d.left = {} /\ d.view = c.view /\ d.on = c.on /\ d.bad
           /\ d.end = c.end
<1>1. Over \in Nat \ {0}
  BY DEF Over
<1>2. \A n \in Nat \ {0} : LET d == [c EXCEPT !.at = n, !.read = FALSE, !.left = {}, !.bad = TRUE] IN
         /\ d \in States(D) /\ d.at = n /\ d.left = {} /\ d.view = c.view /\ d.on = c.on /\ d.bad
         /\ d.end = c.end
  BY DEF States
<1> QED
  BY <1>1, <1>2 DEF Stopped

LEMMA TurnsIs ==
    ASSUME NEW D, NEW c \in States(D), NEW b \in Branches
    PROVE  LET d == Turns(c, b) IN
           /\ d \in States(D) /\ d.at = 1 /\ ~d.read /\ d.left = {} /\ d.view = c.view /\ d.on = b /\ d.bad = c.bad
           /\ d.end = c.end
<1>1. 1 \in Nat \ {0}
  OBVIOUS
<1>2. \A n \in Nat \ {0} : LET d == [c EXCEPT !.at = n, !.read = FALSE, !.left = {}, !.on = b] IN
         /\ d \in States(D) /\ d.at = n /\ ~d.read /\ d.left = {} /\ d.view = c.view /\ d.on = b /\ d.bad = c.bad
         /\ d.end = c.end
  BY DEF States
<1> QED
  BY <1>1, <1>2 DEF Turns

(* Where an error leads: on, out, or to another branch.                     *)
Leads(c, d, err) ==
    \/ d.on = c.on /\ d.at = c.at + 1 /\ ~d.read /\ d.left = {} /\ d.bad = c.bad /\ err = "skip"
    \/ d.on = c.on /\ d.at = c.at + 1 /\ ~d.read /\ d.left = {} /\ d.bad
    \/ /\ d.on = c.on /\ d.at = c.at /\ d.read = c.read /\ c.left # {} /\ d.left \subseteq c.left
       /\ d.bad \/ (d.bad = c.bad /\ err = "skip")
    \/ d.on = c.on /\ d.at = Over /\ d.left = {} /\ d.bad
    \/ d.on = "undo" /\ d.at = 1 /\ ~d.read /\ d.left = {} /\ d.bad /\ err = "undo"
    \/ d.on = "other" /\ d.at = 1 /\ ~d.read /\ d.left = {} /\ d.bad = c.bad /\ err = "else"
LEMMA FailedIs ==
    ASSUME NEW D, NEW c \in States(D), NEW o, NEW err \in Errors
    PROVE  LET d == Failed(c, o, err) IN
           d \in States(D) /\ d.view = c.view /\ d.end = c.end /\ Leads(c, d, err)
<1>1. "undo" \in Branches /\ "other" \in Branches
  BY DEF Branches
<1>2. \A b \in States(D) : LET d == [b EXCEPT !.bad = TRUE] IN
         /\ d \in States(D) /\ d.at = b.at /\ d.read = b.read /\ d.left = b.left /\ d.view = b.view
         /\ d.on = b.on /\ d.bad /\ d.end = b.end
  BY DEF States
<1>3. CASE err = "stop"
  BY <1>3, StoppedIs DEF Failed, Leads
<1>4. CASE err = "undo"
  <2> DEFINE t == Turns(c, "undo")
  <2>1. Failed(c, o, err) = [t EXCEPT !.bad = TRUE]
    BY <1>4 DEF Failed
  <2>2. /\ t \in States(D) /\ t.at = 1 /\ ~t.read /\ t.left = {} /\ t.view = c.view /\ t.on = "undo" /\ t.end = c.end
    BY <1>1, TurnsIs
  <2> HIDE DEF t
  <2> QED
    BY <1>2, <1>4, <2>1, <2>2 DEF Leads
<1>5. CASE err = "else"
  <2>1. Failed(c, o, err) = Turns(c, "other")
    BY <1>5 DEF Failed
  <2> QED
    BY <1>1, <1>5, <2>1, TurnsIs DEF Leads
<1>6. CASE err = "skip"
  <2>1. Failed(c, o, err) = Past(c, o)
    BY <1>6 DEF Failed
  <2>2. ~(c.left \subseteq {o}) => c.left # {} /\ c.left \ {o} \subseteq c.left
    OBVIOUS
  <2> QED
    BY <1>6, <2>1, <2>2, PastIs DEF Leads
<1>7. CASE err = "note"
  <2> DEFINE t == Past(c, o)
  <2>1. Failed(c, o, err) = [t EXCEPT !.bad = TRUE]
    BY <1>7 DEF Failed
  <2>2. ~(c.left \subseteq {o}) => c.left # {} /\ c.left \ {o} \subseteq c.left
    OBVIOUS
  <2>3. /\ t \in States(D) /\ t.view = c.view /\ t.on = c.on /\ t.end = c.end
        /\ c.left \subseteq {o} => t.at = c.at + 1 /\ ~t.read /\ t.left = {}
        /\ ~(c.left \subseteq {o}) => t.at = c.at /\ t.read = c.read /\ t.left = c.left \ {o}
    BY PastIs
  <2> HIDE DEF t
  <2> QED
    BY <1>2, <2>1, <2>2, <2>3 DEF Leads
<1> QED
  BY <1>3, <1>4, <1>5, <1>6, <1>7 DEF Errors

LEMMA OutdatedIs ==
    ASSUME NEW D, NEW cs \in [Reqs -> States(D)], NEW o \in D, NEW q \in Reqs
    PROVE  LET c == cs[q]  d == Outdated(cs, o)[q] IN
           /\ Outdated(cs, o) \in [Reqs -> States(D)]
           /\ d \in States(D) /\ d.at = c.at /\ d.read = c.read /\ d.left = c.left /\ d.on = c.on
           /\ d.bad = c.bad /\ d.end = c.end
           /\ \A p \in D : d.view[p] = IF p = o /\ c.view[p] = "fresh" THEN "stale" ELSE c.view[p]
<1>1. \A c \in States(D) : LET d == [c EXCEPT !.view[o] = "stale"] IN
         /\ d \in States(D) /\ d.at = c.at /\ d.read = c.read /\ d.left = c.left /\ d.on = c.on
         /\ d.bad = c.bad /\ d.end = c.end /\ d.view = [c.view EXCEPT ![o] = "stale"]
  BY DEF States, Known
<1>2. \A c \in States(D) : c.view \in [D -> Known]
  BY DEF States
<1>3. Outdated(cs, o) = [p \in Reqs |-> IF cs[p].view[o] = "fresh" THEN [cs[p] EXCEPT !.view[o] = "stale"] ELSE cs[p]]
  BY DEF Outdated
<1> QED
  BY <1>1, <1>2, <1>3

----------------------------------------------------------------------------
(* The call a request is at.                                                *)
LEMMA ScriptIs ==
    ASSUME scene \in Scenes, NEW r \in Reqs
    PROVE  /\ IsScript(ScriptOf(r)) /\ Objects(ScriptOf(r)) \subseteq Objs
           /\ \A b \in Branches : ScriptOf(r)[b] \in Seq(AnyCall) /\ Len(ScriptOf(r)[b]) < Over
BY ScenesAssumption DEF ScriptOf, Objs, IsScript

LEMMA NowIs ==
    ASSUME Types, NEW r \in Reqs, AtCall(r)
    PROVE  /\ calls[r] \in States(Objs) /\ calls[r].end = "running" /\ calls[r].on \in Branches
           /\ Calls(r) \in Seq(AnyCall) /\ calls[r].at \in DOMAIN Calls(r)
           /\ Now(r) \in AnyCall /\ Now(r) \in Every(ScriptOf(r))
           /\ Object(r) \in Now(r).on
           /\ Now(r).op \notin Listing => Now(r).on = {Object(r)} /\ calls[r].left = {}
           /\ Now(r).op # "run" => Now(r).on \subseteq Objs
<1>1. /\ calls[r] \in States(Objs) /\ calls[r].end = "running" /\ calls[r].on \in Branches
      /\ calls[r].at \in Nat \ {0} /\ calls[r].at <= Len(Calls(r))
  BY DEF Types, States, AtCall, Running
<1>2. Calls(r) \in Seq(AnyCall)
  BY <1>1, ScriptIs DEF Types, Calls
<1>3. calls[r].at \in DOMAIN Calls(r)
  BY <1>1, <1>2
<1>4. Now(r) \in AnyCall
  BY <1>2, <1>3 DEF Now
<1>5. Now(r) \in Every(ScriptOf(r))
  BY <1>1, <1>3 DEF Now, Calls, Every
<1>6. Now(r).on # {} /\ (Now(r).op \notin Listing => \A o, p \in Now(r).on : o = p)
  BY <1>5, ScriptIs DEF Types, IsScript
<1>7. Object(r) \in Now(r).on
  BY <1>6 DEF Object
<1>8. Now(r).op # "run" => Now(r).on \subseteq Objects(ScriptOf(r))
  BY <1>1, <1>3 DEF Now, Calls, Objects
<1>9. Now(r).op \notin Listing => calls[r].left = {}
  BY DEF Types, Listed
<1> QED
  BY <1>1, <1>2, <1>3, <1>4, <1>5, <1>6, <1>7, <1>8, <1>9, ScriptIs DEF Types

----------------------------------------------------------------------------
(* A step of a request: where it is afterwards, what it knows, what becomes *)
(* of the others, and what it has done to the cluster.                      *)
Position(r, d) ==
    LET c == calls[r]  k == Now(r) IN
    \/ /\ d.on = c.on /\ d.at = c.at /\ k.op \notin {"set", "overwrite", "amend"}
       /\ d.bad \/ d.bad = c.bad
    \/ d.on = c.on /\ d.at = c.at + 1 /\ ~d.read /\ (d.bad \/ d.bad = c.bad)
    \/ d.on = c.on /\ d.at = Over /\ d.bad
    \/ d.on = "undo" /\ d.at = 1 /\ ~d.read /\ d.bad /\ Diverts(k, "undo")
    \/ d.on = "other" /\ d.at = 1 /\ ~d.read /\ d.bad = c.bad /\ Diverts(k, "else")
Lists1(r, d) == d.left # {} => /\ d.read /\ d.on = calls[r].on /\ d.at = calls[r].at
                               /\ Now(r).op \in Listing /\ d.left \subseteq Now(r).on
Seen == {"fresh", "stale"}
Learns(r, d) ==
    \A p \in Objs : d.view[p] \in Seen =>
       \/ calls[r].view[p] \in Seen
       \/ d.view[p] = "fresh" /\ p \in Now(r).on /\ Now(r).op \notin Unsighted
Bystander(c, d) ==
    /\ d.at = c.at /\ d.read = c.read /\ d.left = c.left /\ d.on = c.on /\ d.bad = c.bad /\ d.end = c.end
    /\ \A p \in Objs : d.view[p] = c.view[p] \/ (c.view[p] = "fresh" /\ d.view[p] = "stale")
Effect(r, p) ==
    LET k == Now(r)  m == cluster'[p].mark IN
    /\ p \in Now(r).on /\ cluster'[p].by = r
    /\ \/ k.op \in Making /\ ~There(p) /\ m # "none"
       \/ /\ k.op \in Altering \cup {"retune"} /\ There(p) /\ m = Updated(k, p)
          /\ k.op \in Blind \/ calls[r].view[p] = "fresh"
       \/ k.op \in Removing /\ m = "none"
(* What a request still takes for the latest is as it was.                  *)
Latest(q) == \A p \in Objs : calls'[q].view[p] = "fresh" => cluster'[p] = cluster[p]
StepIs(r) ==
    /\ calls'[r].end = "running" /\ Position(r, calls'[r]) /\ Learns(r, calls'[r])
    /\ \A q \in Reqs \ {r} : Bystander(calls[q], calls'[q]) /\ Latest(q)
    /\ \A p \in Objs : cluster'[p] = cluster[p] \/ Effect(r, p)
Fresh == \A q \in Reqs : \A o \in Objs : calls[q].view[o] = "fresh" => There(o)
Inv == Types /\ Fresh

LEMMA TypesKept ==
    ASSUME Types, NEW r \in Reqs, AtCall(r), UNCHANGED <<scene, meddles>>,
           cluster' \in [Objs -> [mark : Marks, by : Reqs \cup {Others}]],
           calls' \in [Reqs -> States(Objs)], Lists1(r, calls'[r]),
           \A q \in Reqs \ {r} : Bystander(calls[q], calls'[q])
    PROVE  Types'
<1>1. Objs' = Objs
  BY DEF Objs
<1>2. Listed(r)'
  <2>1. calls[r].at \in DOMAIN Calls(r)
    BY NowIs
  <2>2. calls'[r].left # {} => Calls(r)' = Calls(r) /\ Now(r)' = Now(r)
    BY DEF Lists1, Calls, Now, ScriptOf
  <2> QED
    BY <2>1, <2>2 DEF Listed, Lists1
<1>3. \A q \in Reqs \ {r} : Listed(q)'
  <2> SUFFICES ASSUME NEW q \in Reqs \ {r} PROVE Listed(q)'
    OBVIOUS
  <2>1. /\ calls'[q].at = calls[q].at /\ calls'[q].on = calls[q].on /\ calls'[q].left = calls[q].left
        /\ calls'[q].read = calls[q].read
    BY DEF Bystander
  <2>2. Calls(q)' = Calls(q) /\ Now(q)' = Now(q)
    BY <2>1 DEF Calls, Now, ScriptOf
  <2>3. Listed(q)
    BY DEF Types
  <2> QED
    BY <2>1, <2>2, <2>3 DEF Listed
<1> QED
  BY <1>1, <1>2, <1>3 DEF Types

(* A step that changes nothing but where the request is.                    *)
LEMMA StaysIs ==
    ASSUME Inv, NEW r \in Reqs, AtCall(r), NEW d \in States(Objs), Goes(r, d),
           UNCHANGED <<scene, cluster, meddles>>,
           d.end = "running", Position(r, d), Learns(r, d), Lists1(r, d),
           \A o \in Objs : d.view[o] = "fresh" => There(o)
    PROVE  Inv' /\ StepIs(r)
<1>1. /\ calls' \in [Reqs -> States(Objs)] /\ calls'[r] = d
      /\ \A q \in Reqs \ {r} : calls'[q] = calls[q]
  BY DEF Goes, Inv, Types
<1>2. \A q \in Reqs \ {r} : Bystander(calls[q], calls'[q])
  BY <1>1 DEF Bystander
<1>3. Types'
  BY <1>1, <1>2, TypesKept DEF Inv, Types
<1>4. Fresh'
  BY <1>1 DEF Inv, Fresh, Objs, There
<1> QED
  BY <1>1, <1>2, <1>3, <1>4 DEF Inv, StepIs, Latest

LEMMA LeadsTo ==
    ASSUME Inv, NEW r \in Reqs, AtCall(r), NEW c \in States(Objs), NEW d,
           c.at = calls[r].at, c.on = calls[r].on, c.left = calls[r].left, c.read = calls[r].read,
           c.bad = calls[r].bad,
           NEW err \in {Now(r).err, Now(r).list, Now(r).theirs} \cup {"skip"}, Leads(c, d, err)
    PROVE  Position(r, d) /\ Lists1(r, d)
<1>1. c.left # {} => calls[r].read /\ Now(r).op \in Listing /\ c.left \subseteq Now(r).on
  BY DEF Inv, Types, Listed
<1>2. Now(r).op \in Listing => Now(r).op \notin {"set", "overwrite", "amend"}
  BY DEF Listing
<1>3. err = "undo" => Diverts(Now(r), "undo")
  BY DEF Diverts
<1>4. err = "else" => Diverts(Now(r), "else")
  BY DEF Diverts
<1>5. Lists1(r, d)
  BY <1>1 DEF Leads, Lists1
<1>6. Position(r, d)
  BY <1>1, <1>2, <1>3, <1>4 DEF Leads, Position
<1> QED
  BY <1>5, <1>6

LEMMA FailsIs ==
    ASSUME Inv, NEW r \in Reqs, AtCall(r), NEW o,
           NEW err \in Errors, err \in {Now(r).err, Now(r).list, Now(r).theirs} \cup {"skip"},
           Goes(r, Failed(calls[r], o, err)), UNCHANGED <<scene, cluster, meddles>>
    PROVE  Inv' /\ StepIs(r)
<1> DEFINE d == Failed(calls[r], o, err)
<1>1. calls[r] \in States(Objs) /\ calls[r].end = "running"
  BY NowIs DEF Inv
<1>2. d \in States(Objs) /\ d.view = calls[r].view /\ d.end = "running" /\ Leads(calls[r], d, err)
  BY <1>1, FailedIs
<1>3. Goes(r, d)
  OBVIOUS
<1> HIDE DEF d
<1>4. Position(r, d) /\ Lists1(r, d)
  BY <1>1, <1>2, LeadsTo
<1>5. Learns(r, d) /\ \A p \in Objs : d.view[p] = "fresh" => There(p)
  BY <1>2 DEF Learns, Inv, Fresh
<1> QED
  BY <1>2, <1>3, <1>4, <1>5, StaysIs

LEMMA PassesIs ==
    ASSUME Inv, NEW r \in Reqs, AtCall(r), Goes(r, Passed(calls[r])), UNCHANGED <<scene, cluster, meddles>>
    PROVE  Inv' /\ StepIs(r)
<1> DEFINE d == Passed(calls[r])
<1>1. calls[r] \in States(Objs) /\ calls[r].end = "running"
  BY NowIs DEF Inv
<1>2. /\ d \in States(Objs) /\ d.view = calls[r].view /\ d.end = "running" /\ d.at = calls[r].at + 1
      /\ d.on = calls[r].on /\ d.left = {} /\ ~d.read /\ d.bad = calls[r].bad
  BY <1>1, PassedIs
<1>3. Goes(r, d)
  OBVIOUS
<1> HIDE DEF d
<1>4. Position(r, d) /\ Lists1(r, d)
  BY <1>2 DEF Position, Lists1
<1>5. Learns(r, d) /\ \A p \in Objs : d.view[p] = "fresh" => There(p)
  BY <1>2 DEF Learns, Inv, Fresh
<1> QED
  BY <1>2, <1>3, <1>4, <1>5, StaysIs

(* A write: nobody else takes what it saw for the latest any more.          *)
LEMMA WritesIs ==
    ASSUME Inv, NEW r \in Reqs, AtCall(r), NEW o \in Objs, NEW mark \in Marks,
           Writes(r, o, mark), UNCHANGED <<scene, meddles>>,
           o \in Now(r).on, mark = "none" \/ Now(r).op \notin Unsighted,
           Now(r).op \in Listing => calls[r].left # {},
           \/ Now(r).op \in Making /\ ~There(o) /\ mark # "none"
           \/ /\ Now(r).op \in Altering \cup {"retune"} /\ There(o) /\ mark = Updated(Now(r), o)
              /\ Now(r).op \in Blind \/ calls[r].view[o] = "fresh"
           \/ Now(r).op \in Removing /\ mark = "none"
    PROVE  Inv' /\ StepIs(r)
<1> DEFINE old == Outdated(calls, o)
           v   == IF mark = "none" THEN "absent" ELSE "fresh"
           e   == Knows(calls[r], o, v)
<1>1. calls[r] \in States(Objs) /\ calls[r].end = "running" /\ Now(r) \in AnyCall /\ calls \in [Reqs -> States(Objs)]
  BY NowIs DEF Inv, Types
<1>2. old \in [Reqs -> States(Objs)] /\ \A q \in Reqs :
         /\ old[q] \in States(Objs) /\ old[q].at = calls[q].at /\ old[q].read = calls[q].read
         /\ old[q].left = calls[q].left /\ old[q].on = calls[q].on
         /\ old[q].bad = calls[q].bad /\ old[q].end = calls[q].end
         /\ \A p \in Objs : old[q].view[p] = IF p = o /\ calls[q].view[p] = "fresh" THEN "stale" ELSE calls[q].view[p]
  BY <1>1, OutdatedIs
<1>3. \A q \in Reqs : Bystander(calls[q], old[q])
  BY <1>2 DEF Bystander
<1>4. v \in Known
  BY DEF Known
<1>5. /\ e \in States(Objs) /\ e.view = [calls[r].view EXCEPT ![o] = v] /\ e.at = calls[r].at
      /\ e.read = calls[r].read /\ e.left = calls[r].left /\ e.on = calls[r].on /\ e.bad = calls[r].bad
      /\ e.end = calls[r].end
  BY <1>1, <1>4, KnowsIs
<1>6. /\ cluster' \in [Objs -> [mark : Marks, by : Reqs \cup {Others}]]
      /\ cluster'[o].mark = mark /\ cluster'[o].by = r
      /\ \A p \in Objs \ {o} : cluster'[p] = cluster[p]
  <2>1. cluster' = [cluster EXCEPT ![o] = [mark |-> mark, by |-> r]]
    BY DEF Writes
  <2> QED
    BY <2>1 DEF Inv, Types
<1>7. \/ calls' = [old EXCEPT ![r] = Past(e, o)]
      \/ calls' = [old EXCEPT ![r] = Failed(old[r], o, Now(r).err)]
  BY DEF Writes
<1> HIDE DEF old, e
<1>8. PICK d \in States(Objs) :
         /\ calls' = [old EXCEPT ![r] = d] /\ d.end = "running" /\ Position(r, d) /\ Lists1(r, d)
         /\ d.view = e.view \/ d.view = old[r].view
  <2>1. CASE calls' = [old EXCEPT ![r] = Past(e, o)]
    <3> DEFINE d == Past(e, o)
    <3>1. /\ d \in States(Objs) /\ d.view = e.view /\ d.on = e.on /\ d.bad = e.bad /\ d.end = e.end
          /\ e.left \subseteq {o} => d.at = e.at + 1 /\ ~d.read /\ d.left = {}
          /\ ~(e.left \subseteq {o}) => d.at = e.at /\ d.read = e.read /\ d.left = e.left \ {o}
      BY <1>5, PastIs
    <3> HIDE DEF d
    <3>2. e.left # {} => calls[r].read /\ Now(r).op \in Listing /\ e.left \subseteq Now(r).on
      BY <1>5 DEF Inv, Types, Listed
    <3>3. Now(r).op \in Listing => Now(r).op \notin {"set", "overwrite", "amend"}
      BY DEF Listing
    <3>4. Position(r, d)
      BY <1>5, <3>1, <3>2, <3>3 DEF Position
    <3>5. Lists1(r, d)
      BY <1>5, <3>1, <3>2 DEF Lists1
    <3> QED
      BY <1>1, <1>5, <2>1, <3>1, <3>4, <3>5 DEF d
  <2>2. CASE calls' = [old EXCEPT ![r] = Failed(old[r], o, Now(r).err)]
    <3> DEFINE d == Failed(old[r], o, Now(r).err)
    <3>1. Now(r).err \in Errors
      BY <1>1 DEF AnyCall, Errors
    <3>2. d \in States(Objs) /\ d.view = old[r].view /\ d.end = old[r].end /\ Leads(old[r], d, Now(r).err)
      BY <1>2, <3>1, FailedIs
    <3> HIDE DEF d
    <3>3. Position(r, d) /\ Lists1(r, d)
      BY <1>2, <3>2, LeadsTo
    <3> QED
      BY <1>1, <1>2, <2>2, <3>2, <3>3 DEF d
  <2> QED
    BY <1>7, <2>1, <2>2
<1>9. calls' \in [Reqs -> States(Objs)] /\ calls'[r] = d /\ \A q \in Reqs \ {r} : calls'[q] = old[q]
  BY <1>2, <1>8
<1>10. \A q \in Reqs \ {r} : Bystander(calls[q], calls'[q])
  BY <1>3, <1>9
<1>11. Types'
  BY <1>6, <1>8, <1>9, <1>10, TypesKept DEF Inv
<1>12. \A p \in Objs : d.view[p] = (IF p = o THEN v ELSE calls[r].view[p]) \/ d.view[p] = old[r].view[p]
  <2>1. calls[r].view \in [Objs -> Known]
    BY <1>1 DEF States
  <2> QED
    BY <1>5, <1>8, <2>1
<1>13. Learns(r, d)
  BY <1>2, <1>12 DEF Learns, Seen
<1>14. Fresh'
  <2> SUFFICES ASSUME NEW q \in Reqs, NEW p \in Objs, calls'[q].view[p] = "fresh" PROVE cluster'[p].mark # "none"
    BY DEF Fresh, Objs, There
  <2>1. CASE p # o
    <3>1. calls[q].view[p] = "fresh"
      BY <1>2, <1>9, <1>12, <2>1
    <3> QED
      BY <1>6, <2>1, <3>1 DEF Inv, Fresh, There
  <2>2. CASE p = o
    <3>1. old[q].view[p] # "fresh"
      BY <1>2, <2>2
    <3>2. q = r /\ v = "fresh"
      BY <1>9, <1>12, <2>2, <3>1
    <3> QED
      BY <1>6, <2>2, <3>2
  <2> QED
    BY <2>1, <2>2
<1>15. Effect(r, o)
  BY <1>6 DEF Effect
<1>16. \A q \in Reqs \ {r} : Latest(q)
  BY <1>2, <1>6, <1>9 DEF Latest
<1> QED
  BY <1>6, <1>8, <1>9, <1>10, <1>11, <1>13, <1>14, <1>15, <1>16 DEF Inv, StepIs

(* A step that reads: the request knows at least that an object is there.   *)
LEMMA LearnsIs ==
    ASSUME Inv, NEW r \in Reqs, AtCall(r), Now(r).op \notin Unsighted, NEW S \in SUBSET Now(r).on,
           NEW d \in States(Objs), Goes(r, d), UNCHANGED <<scene, cluster, meddles>>,
           d.end = "running", Position(r, d), Lists1(r, d),
           \A p \in S : (There(p) /\ d.view[p] = "fresh") \/ d.view[p] = "absent",
           \A p \in Objs \ S : d.view[p] = calls[r].view[p]
    PROVE  Inv' /\ StepIs(r)
<1>1. Learns(r, d)
  BY DEF Learns, Seen
<1>2. \A p \in Objs : d.view[p] = "fresh" => There(p)
  BY DEF Inv, Fresh
<1> QED
  BY <1>1, <1>2, StaysIs

LEMMA ReadsIs ==
    ASSUME Inv, NEW r \in Reqs, Reads(r)
    PROVE  Inv' /\ StepIs(r)
<1> DEFINE c == Now(r)
           o == Object(r)
           v == IF There(o) THEN "fresh" ELSE "absent"
           seen == IF c.op = "find" THEN calls[r] ELSE Knows(calls[r], o, v)
           ready == [seen EXCEPT !.read = TRUE]
<1>1. AtCall(r) /\ c.op \in Reading /\ UNCHANGED <<scene, cluster, meddles>>
  BY DEF Reads, Doing
<1>2. c.op \notin Listing /\ c.op # "run" /\ c.op \notin {"set", "overwrite", "amend"}
  BY <1>1 DEF Reading, Listing
<1>3. /\ calls[r] \in States(Objs) /\ calls[r].end = "running" /\ c \in AnyCall /\ o \in Objs /\ c.on = {o}
      /\ calls[r].left = {}
  BY <1>1, <1>2, NowIs DEF Inv
<1>4. v \in Known
  BY DEF Known
<1>5. /\ seen \in States(Objs) /\ seen.at = calls[r].at /\ seen.on = calls[r].on /\ seen.left = {}
      /\ seen.bad = calls[r].bad /\ seen.end = "running"
      /\ \A p \in Objs \ {o} : seen.view[p] = calls[r].view[p]
      /\ seen.view[o] = IF c.op = "find" THEN calls[r].view[o] ELSE v
  <2>1. calls[r].view \in [Objs -> Known]
    BY <1>3 DEF States
  <2> DEFINE k == Knows(calls[r], o, v)
  <2>2. /\ k \in States(Objs) /\ k.view = [calls[r].view EXCEPT ![o] = v] /\ k.at = calls[r].at
        /\ k.left = calls[r].left /\ k.on = calls[r].on /\ k.bad = calls[r].bad /\ k.end = calls[r].end
    BY <1>3, <1>4, KnowsIs
  <2> HIDE DEF k, v
  <2>3. CASE c.op = "find"
    BY <1>3, <2>3
  <2>4. CASE c.op # "find"
    <3>1. seen = k
      BY <2>4 DEF k
    <3> HIDE DEF seen
    <3> QED
      BY <1>3, <2>1, <2>2, <2>4, <3>1
  <2> QED
    BY <2>3, <2>4
<1>6. \/ \E err \in {"skip", "else", c.err} :
            Goes(r, Failed(calls[r], o, err)) /\ (err = "else" => err \in {c.theirs, c.err})
      \/ Goes(r, Passed(seen)) /\ (c.op = "free" => ~There(o))
      \/ Goes(r, ready) /\ c.op # "free" /\ c.op # "find"
  <2>1. c.theirs \in {"take", "refuse", "else", "spare"}
    BY <1>3 DEF AnyCall
  <2> QED
    BY <2>1 DEF Reads
<1> HIDE DEF c, o, seen
<1>7. CASE \E err \in {"skip", "else", c.err} :
             Goes(r, Failed(calls[r], o, err)) /\ (err = "else" => err \in {c.theirs, c.err})
  <2>1. PICK err \in {"skip", "else", c.err} :
           Goes(r, Failed(calls[r], o, err)) /\ (err = "else" => err \in {c.theirs, c.err})
    BY <1>7
  <2>2. err \in Errors /\ err \in {c.err, c.list, c.theirs} \cup {"skip"}
    BY <1>3, <2>1 DEF Errors, AnyCall
  <2> QED
    BY <1>1, <2>1, <2>2, FailsIs DEF c
<1>8. ASSUME Goes(r, Passed(seen)), c.op = "free" => ~There(o) PROVE Inv' /\ StepIs(r)
  <2> DEFINE d == Passed(seen)
  <2>1. /\ d \in States(Objs) /\ d.at = seen.at + 1 /\ ~d.read /\ d.left = {} /\ d.view = seen.view
        /\ d.on = seen.on /\ d.bad = seen.bad /\ d.end = seen.end
    BY <1>5, PassedIs
  <2>2. Goes(r, d)
    BY <1>8
  <2> HIDE DEF d
  <2>3. Position(r, d) /\ Lists1(r, d)
    BY <1>5, <2>1 DEF Position, Lists1
  <2>4. Learns(r, d)
    <3>1. c.op \in Unsighted => c.op \in {"find", "free"}
      BY <1>1 DEF Unsighted, Reading
    <3>2. c.op = "free" => d.view[o] = "absent"
      BY <1>5, <1>8, <2>1
    <3>3. c.op = "find" => d.view[o] = calls[r].view[o]
      BY <1>5, <2>1
    <3>4. \A p \in Objs \ {o} : d.view[p] = calls[r].view[p]
      BY <1>5, <2>1
    <3>5. c.op # "find" => d.view[o] \in {"fresh", "absent"}
      BY <1>5, <2>1
    <3> QED
      BY <1>3, <3>1, <3>2, <3>3, <3>4, <3>5 DEF Learns, Seen, c
  <2>5. \A p \in Objs : d.view[p] = "fresh" => There(p)
    BY <1>3, <1>5, <2>1 DEF Inv, Fresh
  <2> QED
    BY <1>1, <1>5, <2>1, <2>2, <2>3, <2>4, <2>5, StaysIs
<1>9. ASSUME Goes(r, ready), c.op # "free", c.op # "find" PROVE Inv' /\ StepIs(r)
  <2>1. /\ ready \in States(Objs) /\ ready.at = seen.at /\ ready.left = {} /\ ready.view = seen.view
        /\ ready.on = seen.on /\ ready.bad = seen.bad /\ ready.end = seen.end
    BY <1>5 DEF States
  <2>2. Goes(r, ready)
    BY <1>9
  <2> HIDE DEF ready
  <2>3. Position(r, ready) /\ Lists1(r, ready)
    BY <1>2, <1>5, <2>1 DEF Position, Lists1, c
  <2>4. Now(r).op \notin Unsighted
    BY <1>1, <1>9 DEF Unsighted, Reading, c
  <2>5. {o} \in SUBSET Now(r).on
    BY <1>3 DEF c
  <2>6. \A p \in {o} : (There(p) /\ ready.view[p] = "fresh") \/ ready.view[p] = "absent"
    BY <1>5, <1>9, <2>1
  <2>7. \A p \in Objs \ {o} : ready.view[p] = calls[r].view[p]
    BY <1>5, <2>1
  <2> QED
    BY <1>1, <1>5, <2>1, <2>2, <2>3, <2>4, <2>5, <2>6, <2>7, LearnsIs
<1> QED
  BY <1>6, <1>7, <1>8, <1>9

LEMMA RefusedIs ==
    ASSUME Inv, NEW r \in Reqs, AtCall(r), NEW o, Refused(r, o), UNCHANGED <<scene, meddles>>
    PROVE  Inv' /\ StepIs(r)
<1>1. Now(r).err \in Errors
  BY NowIs DEF Inv, AnyCall, Errors
<1> QED
  BY <1>1, FailsIs DEF Refused

LEMMA CreatesIs ==
    ASSUME Inv, NEW r \in Reqs, Creates(r)
    PROVE  Inv' /\ StepIs(r)
<1> DEFINE c == Now(r)
           o == Object(r)
           k == Knows(calls[r], o, "fresh")
           ready == [k EXCEPT !.read = TRUE]
<1>1. AtCall(r) /\ c.op \in {"create", "settle", "set", "save", "fill", "mend", "keep", "put"}
      /\ UNCHANGED <<scene, meddles>>
  BY DEF Creates, Doing
<1>2. c.op \notin Listing /\ c.op # "run" /\ c.op \in Making /\ c.op \notin Unsighted
  BY <1>1 DEF Making, Listing, Unsighted
<1>3. /\ calls[r] \in States(Objs) /\ calls[r].end = "running" /\ c \in AnyCall /\ o \in Objs /\ c.on = {o}
      /\ calls[r].left = {}
  BY <1>1, <1>2, NowIs DEF Inv
<1>4. c.mark \in Marks /\ c.mark # "none"
  BY <1>3 DEF AnyCall, Marks
<1>5. \/ ~There(o) /\ Writes(r, o, c.mark)
      \/ Goes(r, Passed(calls[r])) /\ UNCHANGED <<cluster, faults>>
      \/ There(o) /\ c.op \in {"settle", "fill"} /\ Goes(r, ready) /\ UNCHANGED <<cluster, faults>>
      \/ Refused(r, o)
  BY DEF Creates
<1>6. CASE ~There(o) /\ Writes(r, o, c.mark)
  BY <1>1, <1>2, <1>3, <1>4, <1>6, WritesIs
<1>7. CASE Goes(r, Passed(calls[r])) /\ UNCHANGED <<cluster, faults>>
  BY <1>1, <1>7, PassesIs
<1>8. CASE There(o) /\ c.op \in {"settle", "fill"} /\ Goes(r, ready) /\ UNCHANGED <<cluster, faults>>
  <2>1. "fresh" \in Known
    BY DEF Known
  <2>2. /\ k \in States(Objs) /\ k.view = [calls[r].view EXCEPT ![o] = "fresh"] /\ k.at = calls[r].at
        /\ k.left = {} /\ k.on = calls[r].on /\ k.bad = calls[r].bad /\ k.end = "running"
    BY <1>3, <2>1, KnowsIs
  <2> HIDE DEF k
  <2>3. /\ ready \in States(Objs) /\ ready.at = k.at /\ ready.left = {} /\ ready.view = k.view
        /\ ready.on = k.on /\ ready.bad = k.bad /\ ready.end = k.end
    BY <2>2 DEF States
  <2>4. Goes(r, ready)
    BY <1>8 DEF k
  <2> HIDE DEF ready
  <2>5. Position(r, ready) /\ Lists1(r, ready)
    BY <1>8, <2>2, <2>3 DEF Position, Lists1
  <2>6. \A p \in Objs \ {o} : ready.view[p] = calls[r].view[p]
    <3>1. calls[r].view \in [Objs -> Known]
      BY <1>3 DEF States
    <3> QED
      BY <2>2, <2>3, <3>1
  <2>7. AtCall(r) /\ UNCHANGED <<scene, cluster, meddles>> /\ Now(r).op \notin Unsighted /\ ready.end = "running"
    BY <1>1, <1>2, <1>8, <2>2, <2>3
  <2>8. {o} \in SUBSET Now(r).on /\ \A p \in {o} : There(p) /\ ready.view[p] = "fresh"
    <3>1. calls[r].view \in [Objs -> Known]
      BY <1>3 DEF States
    <3> QED
      BY <1>3, <1>8, <2>2, <2>3, <3>1
  <2> HIDE DEF o
  <2> QED
    BY <2>3, <2>4, <2>5, <2>6, <2>7, <2>8, LearnsIs
<1>9. CASE Refused(r, o)
  BY <1>1, <1>9, RefusedIs
<1> QED
  BY <1>5, <1>6, <1>7, <1>8, <1>9

LEMMA UpdatedIs ==
    ASSUME Types, NEW r \in Reqs, AtCall(r), NEW o \in Objs
    PROVE  Updated(Now(r), o) \in Marks /\ (There(o) => Updated(Now(r), o) # "none")
<1>1. Now(r).update \in {"keep", "casos", "plain"} /\ cluster[o].mark \in Marks
  BY NowIs DEF Types, AnyCall
<1> QED
  BY <1>1 DEF Updated, Marks, There

LEMMA UpdatesIs ==
    ASSUME Inv, NEW r \in Reqs, Updates(r)
    PROVE  Inv' /\ StepIs(r)
<1> DEFINE c == Now(r)
           o == Object(r)
<1>1. /\ AtCall(r) /\ UNCHANGED <<scene, meddles>>
      /\ c.op \in {"change", "overwrite", "amend", "set", "mend", "save", "put", "settle", "fill", "edit", "tune"}
  BY DEF Updates, Doing
<1>2. c.op \notin Listing /\ c.op # "run" /\ c.op \in Altering /\ c.op \notin Unsighted
  BY <1>1 DEF Altering, Listing, Unsighted
<1>3. o \in Objs /\ o \in c.on
  BY <1>1, <1>2, NowIs DEF Inv
<1>4. Updated(c, o) \in Marks
  BY <1>1, <1>3, UpdatedIs DEF Inv
<1>5. c.op \notin Versioned => c.op \in Blind
  BY <1>2 DEF Blind
<1>6. \/ There(o) /\ (c.op \in Blind \/ calls[r].view[o] = "fresh") /\ Writes(r, o, Updated(c, o))
      \/ Goes(r, Passed(calls[r])) /\ UNCHANGED <<cluster, faults>>
      \/ Refused(r, o)
  BY <1>5 DEF Updates
<1>7. CASE There(o) /\ (c.op \in Blind \/ calls[r].view[o] = "fresh") /\ Writes(r, o, Updated(c, o))
  BY <1>1, <1>2, <1>3, <1>4, <1>7, WritesIs
<1>8. CASE Goes(r, Passed(calls[r])) /\ UNCHANGED <<cluster, faults>>
  BY <1>1, <1>8, PassesIs
<1>9. CASE Refused(r, o)
  BY <1>1, <1>9, RefusedIs
<1> QED
  BY <1>6, <1>7, <1>8, <1>9

LEMMA DeletesIs ==
    ASSUME Inv, NEW r \in Reqs, Deletes(r)
    PROVE  Inv' /\ StepIs(r)
<1> DEFINE c == Now(r)
           o == Object(r)
<1>1. AtCall(r) /\ UNCHANGED <<scene, meddles>> /\ c.op \in {"drop", "clear", "shed"}
  BY DEF Deletes, Doing
<1>2. c.op \notin Listing /\ c.op # "run" /\ c.op \in Removing
  BY <1>1 DEF Removing, Listing
<1>3. o \in Objs /\ o \in c.on
  BY <1>1, <1>2, NowIs DEF Inv
<1>4. "none" \in Marks
  BY DEF Marks
<1>5. \/ Writes(r, o, "none")
      \/ Goes(r, Passed(calls[r])) /\ UNCHANGED <<cluster, faults>>
      \/ Refused(r, o)
  BY DEF Deletes
<1>6. CASE Writes(r, o, "none")
  BY <1>1, <1>2, <1>3, <1>4, <1>6, WritesIs
<1>7. CASE Goes(r, Passed(calls[r])) /\ UNCHANGED <<cluster, faults>>
  BY <1>1, <1>7, PassesIs
<1>8. CASE Refused(r, o)
  BY <1>1, <1>8, RefusedIs
<1> QED
  BY <1>5, <1>6, <1>7, <1>8

LEMMA ListsIs ==
    ASSUME Inv, NEW r \in Reqs, Lists(r)
    PROVE  Inv' /\ StepIs(r)
<1> DEFINE found == {o \in Now(r).on : cluster[o].mark = "casos"}
           seen  == [o \in DOMAIN calls[r].view |-> IF o \in found THEN "fresh" ELSE calls[r].view[o]]
           known == [calls[r] EXCEPT !.read = TRUE, !.left = found, !.view = seen]
<1>1. AtCall(r) /\ Now(r).op \in Listing /\ UNCHANGED <<scene, cluster, meddles>>
  BY DEF Lists, Doing
<1>2. Now(r).op \notin Unsighted /\ Now(r).op # "run" /\ Now(r).op \notin {"set", "overwrite", "amend"}
  BY <1>1 DEF Listing, Unsighted
<1>3. /\ calls[r] \in States(Objs) /\ calls[r].end = "running" /\ Now(r) \in AnyCall
      /\ Now(r).on \subseteq Objs /\ calls[r].on \in Branches
  BY <1>1, <1>2, NowIs DEF Inv
<1>4. \/ Goes(r, known)
      \/ Goes(r, Stopped(calls[r]))
      \/ Goes(r, Passed(calls[r]))
      \/ Goes(r, Failed(calls[r], Object(r), Now(r).list))
  BY DEF Lists
<1>5. CASE Goes(r, known)
  <2>1. calls[r].view \in [Objs -> Known]
    BY <1>3 DEF States
  <2>2. seen \in [Objs -> Known] /\ (\A p \in Objs \ found : seen[p] = calls[r].view[p])
    BY <2>1 DEF Known
  <2>3. found \in SUBSET Objs /\ found \in SUBSET Now(r).on /\ \A p \in found : There(p) /\ seen[p] = "fresh"
    BY <1>3, <2>1 DEF There
  <2>4. Goes(r, known)
    BY <1>5
  <2> HIDE DEF seen, found
  <2>5. /\ known \in States(Objs) /\ known.at = calls[r].at /\ known.left = found /\ known.view = seen
        /\ known.read /\ known.on = calls[r].on /\ known.bad = calls[r].bad /\ known.end = "running"
    BY <1>3, <2>2, <2>3 DEF States
  <2> HIDE DEF known
  <2>6. Position(r, known) /\ Lists1(r, known)
    BY <1>1, <1>2, <2>3, <2>5 DEF Position, Lists1
  <2> QED
    BY <1>1, <1>2, <2>2, <2>3, <2>4, <2>5, <2>6, LearnsIs
<1>6. CASE Goes(r, Stopped(calls[r]))
  <2> DEFINE d == Stopped(calls[r])
  <2>1. /\ d \in States(Objs) /\ d.at = Over /\ d.left = {} /\ d.view = calls[r].view
        /\ d.on = calls[r].on /\ d.bad /\ d.end = "running"
    BY <1>3, StoppedIs
  <2>2. Goes(r, d)
    BY <1>6
  <2> HIDE DEF d
  <2>3. Position(r, d) /\ Lists1(r, d)
    BY <2>1 DEF Position, Lists1
  <2>4. {} \in SUBSET Now(r).on
    OBVIOUS
  <2> QED
    BY <1>1, <1>2, <2>1, <2>2, <2>3, <2>4, LearnsIs
<1>7. CASE Goes(r, Passed(calls[r]))
  BY <1>1, <1>7, PassesIs
<1>8. CASE Goes(r, Failed(calls[r], Object(r), Now(r).list))
  <2>1. Now(r).list \in Errors
    BY <1>3 DEF AnyCall, Errors
  <2> QED
    BY <1>1, <1>8, <2>1, FailsIs
<1> QED
  BY <1>4, <1>5, <1>6, <1>7, <1>8

LEMMA TreatsIs ==
    ASSUME Inv, NEW r \in Reqs, Treats(r)
    PROVE  Inv' /\ StepIs(r)
<1>1. AtCall(r) /\ Now(r).op \in Listing /\ UNCHANGED <<scene, meddles>>
  BY DEF Treats, Doing
<1>2. PICK o \in calls[r].left :
         \/ Now(r).op = "sweep" /\ Writes(r, o, "none")
         \/ Goes(r, Past(calls[r], o)) /\ UNCHANGED <<cluster, faults>>
         \/ Now(r).op = "retune" /\ calls[r].view[o] = "fresh" /\ Writes(r, o, Updated(Now(r), o))
         \/ Refused(r, o)
  BY DEF Treats
<1>3. o \in Now(r).on /\ o \in Objs
  <2>1. o \in Now(r).on
    BY DEF Inv, Types, Listed
  <2>2. Now(r).op # "run"
    BY <1>1 DEF Listing
  <2> QED
    BY <1>1, <2>1, <2>2, NowIs DEF Inv
<1>4. CASE Now(r).op = "sweep" /\ Writes(r, o, "none")
  <2>1. "none" \in Marks /\ Now(r).op \in Removing
    BY <1>4 DEF Marks, Removing
  <2> QED
    BY <1>1, <1>3, <1>4, <2>1, WritesIs
<1>5. CASE Goes(r, Past(calls[r], o)) /\ UNCHANGED <<cluster, faults>>
  <2>1. Past(calls[r], o) = Failed(calls[r], o, "skip") /\ "skip" \in Errors
    BY DEF Failed, Errors
  <2> QED
    BY <1>1, <1>5, <2>1, FailsIs
<1>6. CASE Now(r).op = "retune" /\ calls[r].view[o] = "fresh" /\ Writes(r, o, Updated(Now(r), o))
  <2>1. There(o)
    BY <1>3, <1>6 DEF Inv, Fresh
  <2>2. Updated(Now(r), o) \in Marks
    BY <1>1, <1>3, UpdatedIs DEF Inv
  <2>3. Now(r).op \in Altering \cup {"retune"} /\ Now(r).op \notin Unsighted
    BY <1>6 DEF Unsighted
  <2> QED
    BY <1>1, <1>3, <1>6, <2>1, <2>2, <2>3, WritesIs
<1>7. CASE Refused(r, o)
  BY <1>1, <1>7, RefusedIs
<1> QED
  BY <1>2, <1>4, <1>5, <1>6, <1>7

LEMMA RunsIs ==
    ASSUME Inv, NEW r \in Reqs, Runs(r)
    PROVE  Inv' /\ StepIs(r)
<1>1. AtCall(r)
  BY DEF Runs, Doing
<1> QED
  BY <1>1, PassesIs DEF Runs

LEMMA FailingIs ==
    ASSUME Inv, NEW r \in Reqs, Fails(r)
    PROVE  Inv' /\ StepIs(r)
<1>1. AtCall(r) /\ UNCHANGED <<scene, cluster, meddles>>
  BY DEF Fails
<1>2. PICK o : Goes(r, Failed(calls[r], o, Now(r).err))
  BY DEF Fails
<1>3. Now(r).err \in Errors
  BY <1>1, NowIs DEF Inv, AnyCall, Errors
<1> QED
  BY <1>1, <1>2, <1>3, FailsIs

(* Whatever a request does, it stays what it is, and does what its call says. *)
LEMMA StepsAre ==
    ASSUME Inv, NEW r \in Reqs, Step(r) \/ Fails(r)
    PROVE  Inv' /\ StepIs(r) /\ AtCall(r) /\ UNCHANGED <<scene, meddles>>
<1>1. AtCall(r) /\ UNCHANGED <<scene, meddles>>
  BY DEF Step, Fails, Reads, Creates, Updates, Deletes, Lists, Treats, Runs, Doing
<1> QED
  BY <1>1, ReadsIs, CreatesIs, UpdatesIs, DeletesIs, ListsIs, TreatsIs, RunsIs, FailingIs DEF Step

----------------------------------------------------------------------------
LEMMA ReadyIs ==
    ASSUME scene \in Scenes, NEW r \in Reqs
    PROVE  LET d == Ready(scene, r) IN
           /\ d \in States(Objs) /\ d.at = 1 /\ ~d.read /\ d.left = {} /\ d.on = "calls" /\ ~d.bad
           /\ d.end \in {"idle", "running"} /\ (d.end = "running" <=> r \in Cast(scene))
           /\ \A o \in Objs : d.view[o] = "unread"
<1> DEFINE e == IF r \in Cast(scene) THEN "running" ELSE "idle"
           v == [o \in DOMAIN scene.has |-> "unread"]
<1>1. e \in {"idle", "running"} /\ (e = "running" <=> r \in Cast(scene))
  OBVIOUS
<1>2. v \in [Objs -> Known] /\ \A o \in Objs : v[o] = "unread"
  BY DEF Objs, Known
<1>3. Ready(scene, r) = [at |-> 1, read |-> FALSE, left |-> {}, view |-> v, on |-> "calls", bad |-> FALSE, end |-> e]
  BY DEF Ready
<1> HIDE DEF e, v
<1> QED
  BY <1>1, <1>2, <1>3 DEF States, Branches

LEMMA InitIs == Init => Inv
<1> SUFFICES ASSUME Init PROVE Inv
  OBVIOUS
<1>1. scene \in Scenes /\ meddles \in Int /\ meddles <= scene.meddles
  BY ScenesAssumption DEF Init
<1>2. cluster \in [Objs -> [mark : Marks, by : Reqs \cup {Others}]]
  <2>1. scene.has \in [Objs -> Marks]
    BY <1>1, ScenesAssumption DEF Objs, Marks
  <2>2. cluster = [o \in Objs |-> [mark |-> scene.has[o], by |-> Others]]
    BY DEF Init, Objs
  <2> QED
    BY <2>1, <2>2
<1>3. calls \in [Reqs -> States(Objs)] /\ \A r \in Reqs : calls[r].left = {} /\ \A o \in Objs : calls[r].view[o] = "unread"
  BY <1>1, ReadyIs DEF Init
<1> QED
  BY <1>1, <1>2, <1>3 DEF Inv, Types, Fresh, Listed

LEMMA AnswersKeep ==
    ASSUME Inv, NEW r \in Reqs, Answers(r)
    PROVE  /\ Inv' /\ UNCHANGED <<scene, cluster, meddles>>
           /\ \A q \in Reqs : /\ calls'[q].at = calls[q].at /\ calls'[q].on = calls[q].on
                              /\ calls'[q].read = calls[q].read /\ calls'[q].left = calls[q].left
                              /\ calls'[q].view = calls[q].view /\ calls'[q].bad = calls[q].bad
<1> DEFINE e == IF calls[r].bad THEN "fail" ELSE "ok"
           d == [calls[r] EXCEPT !.end = e]
<1>1. e \in {"ok", "fail"}
  OBVIOUS
<1>2. calls[r] \in States(Objs) /\ calls \in [Reqs -> States(Objs)]
  BY DEF Inv, Types
<1>3. calls' = [calls EXCEPT ![r] = d] /\ UNCHANGED <<scene, cluster, meddles>>
  BY <1>2 DEF Answers
<1> HIDE DEF e
<1>4. /\ d \in States(Objs) /\ d.at = calls[r].at /\ d.on = calls[r].on /\ d.read = calls[r].read
      /\ d.left = calls[r].left /\ d.view = calls[r].view /\ d.bad = calls[r].bad
  BY <1>1, <1>2 DEF States
<1> HIDE DEF d
<1>5. /\ calls' \in [Reqs -> States(Objs)]
      /\ \A q \in Reqs : /\ calls'[q].at = calls[q].at /\ calls'[q].on = calls[q].on
                         /\ calls'[q].read = calls[q].read /\ calls'[q].left = calls[q].left
                         /\ calls'[q].view = calls[q].view /\ calls'[q].bad = calls[q].bad
  BY <1>2, <1>3, <1>4
<1>6. Inv'
  BY <1>3, <1>5 DEF Inv, Types, Fresh, Listed, Calls, Now, ScriptOf, Objs, There
<1> QED
  BY <1>3, <1>5, <1>6

LEMMA DiesKeeps ==
    ASSUME Inv, Dies
    PROVE  /\ Inv' /\ UNCHANGED <<scene, cluster, meddles>>
           /\ \A q \in Reqs : /\ calls'[q].at = calls[q].at /\ calls'[q].on = calls[q].on
                              /\ calls'[q].read = calls[q].read /\ calls'[q].left = calls[q].left
                              /\ calls'[q].view = calls[q].view /\ calls'[q].bad = calls[q].bad
                              /\ (calls'[q].end = calls[q].end \/ (Running(q) /\ calls'[q].end = "lost"))
<1>1. \A c \in States(Objs) : LET d == [c EXCEPT !.end = "lost"] IN
         /\ d \in States(Objs) /\ d.at = c.at /\ d.on = c.on /\ d.read = c.read /\ d.left = c.left
         /\ d.view = c.view /\ d.bad = c.bad /\ d.end = "lost"
  BY DEF States
<1>2. /\ calls \in [Reqs -> States(Objs)] /\ UNCHANGED <<scene, cluster, meddles>>
      /\ calls' = [r \in Reqs |-> IF Running(r) THEN [calls[r] EXCEPT !.end = "lost"] ELSE calls[r]]
  BY DEF Inv, Types, Dies
<1>3. /\ calls' \in [Reqs -> States(Objs)]
      /\ \A q \in Reqs : /\ calls'[q].at = calls[q].at /\ calls'[q].on = calls[q].on
                         /\ calls'[q].read = calls[q].read /\ calls'[q].left = calls[q].left
                         /\ calls'[q].view = calls[q].view /\ calls'[q].bad = calls[q].bad
                         /\ (calls'[q].end = calls[q].end \/ (Running(q) /\ calls'[q].end = "lost"))
  BY <1>1, <1>2
<1>4. Inv'
  BY <1>2, <1>3 DEF Inv, Types, Fresh, Listed, Calls, Now, ScriptOf, Objs, There
<1> QED
  BY <1>2, <1>3, <1>4

LEMMA AgainKeeps ==
    ASSUME Inv, NEW r \in Reqs, Again(r)
    PROVE  Inv' /\ UNCHANGED <<scene, cluster, meddles>> /\ calls' = [calls EXCEPT ![r] = Ready(scene, r)]
<1>1. /\ calls \in [Reqs -> States(Objs)] /\ UNCHANGED <<scene, cluster, meddles>> /\ scene \in Scenes
      /\ calls' = [calls EXCEPT ![r] = Ready(scene, r)]
  BY DEF Inv, Types, Again, Goes
<1>2. calls' \in [Reqs -> States(Objs)]
  BY <1>1, ReadyIs
<1>3. calls'[r].left = {} /\ \A o \in Objs : calls'[r].view[o] = "unread"
  BY <1>1, ReadyIs
<1>4. \A q \in Reqs \ {r} : calls'[q] = calls[q]
  BY <1>1
<1>5. \A q \in Reqs : Listed(q)'
  BY <1>1, <1>3, <1>4 DEF Inv, Types, Listed, Calls, Now, ScriptOf
<1>6. Fresh'
  BY <1>1, <1>3, <1>4 DEF Inv, Fresh, Objs, There
<1> QED
  BY <1>1, <1>2, <1>5, <1>6 DEF Inv, Types, Objs

LEMMA MeddleKeeps ==
    ASSUME Inv, NEW o \in Objs, Meddle(o)
    PROVE  /\ Inv' /\ UNCHANGED scene /\ meddles' = meddles - 1
           /\ \A q \in Reqs : Bystander(calls[q], calls'[q]) /\ Latest(q)
           /\ \A p \in Objs : cluster'[p] = cluster[p] \/ cluster'[p].by = Others
<1>1. /\ calls \in [Reqs -> States(Objs)] /\ UNCHANGED scene /\ meddles' = meddles - 1 /\ calls' = Outdated(calls, o)
      /\ cluster \in [Objs -> [mark : Marks, by : Reqs \cup {Others}]]
  BY DEF Inv, Types, Meddle
<1>2. calls' \in [Reqs -> States(Objs)] /\ \A q \in Reqs :
         /\ calls'[q].at = calls[q].at /\ calls'[q].read = calls[q].read
         /\ calls'[q].left = calls[q].left /\ calls'[q].on = calls[q].on
         /\ calls'[q].bad = calls[q].bad /\ calls'[q].end = calls[q].end
         /\ \A p \in Objs : calls'[q].view[p] = IF p = o /\ calls[q].view[p] = "fresh" THEN "stale" ELSE calls[q].view[p]
  <2> DEFINE old == Outdated(calls, o)
  <2>1. DOMAIN old = Reqs /\ old = [q \in Reqs |-> old[q]]
    BY DEF Outdated
  <2>2. \A q \in Reqs :
         /\ old[q] \in States(Objs) /\ old[q].at = calls[q].at /\ old[q].read = calls[q].read
         /\ old[q].left = calls[q].left /\ old[q].on = calls[q].on
         /\ old[q].bad = calls[q].bad /\ old[q].end = calls[q].end
         /\ \A p \in Objs : old[q].view[p] = IF p = o /\ calls[q].view[p] = "fresh" THEN "stale" ELSE calls[q].view[p]
    BY <1>1, OutdatedIs
  <2>3. calls' = old
    BY <1>1
  <2> HIDE DEF old
  <2> QED
    BY <2>1, <2>2, <2>3
<1>3. PICK m \in Marks : cluster' = [cluster EXCEPT ![o] = [mark |-> m, by |-> Others]]
  BY <1>1 DEF Meddle, Marks
<1>4. /\ cluster' \in [Objs -> [mark : Marks, by : Reqs \cup {Others}]] /\ cluster'[o].by = Others
      /\ \A p \in Objs \ {o} : cluster'[p] = cluster[p]
  BY <1>1, <1>3
<1>5. \A q \in Reqs : Listed(q)'
  BY <1>1, <1>2 DEF Inv, Types, Listed, Calls, Now, ScriptOf
<1>6. Fresh'
  BY <1>1, <1>2, <1>4 DEF Inv, Fresh, Objs, There
<1>7. meddles' \in Int /\ meddles' <= scene.meddles
  <2>1. meddles \in Int /\ meddles <= scene.meddles /\ scene.meddles \in Nat
    BY ScenesAssumption DEF Inv, Types
  <2> QED
    BY <1>1, <2>1
<1>8. \A q \in Reqs : Bystander(calls[q], calls'[q])
  BY <1>2 DEF Bystander
<1>9. Types'
  BY <1>1, <1>2, <1>4, <1>5, <1>7 DEF Inv, Types, Objs
<1> QED
  BY <1>1, <1>2, <1>4, <1>6, <1>8, <1>9 DEF Inv, Latest

----------------------------------------------------------------------------
(* Of all that can happen: what a proof about a step has to look at.        *)
LEMMA NextIs ==
    ASSUME Inv, [Next]_vars
    PROVE  \/ \E r \in Reqs : (Step(r) \/ Fails(r)) /\ Inv' /\ StepIs(r) /\ AtCall(r) /\ UNCHANGED <<scene, meddles>>
           \/ \E r \in Reqs : Again(r) /\ Inv' /\ UNCHANGED <<scene, cluster, meddles>>
           \/ \E o \in Objs : Meddle(o)
           \/ /\ Inv' /\ UNCHANGED <<scene, cluster, meddles>>
              /\ \A q \in Reqs : /\ calls'[q].at = calls[q].at /\ calls'[q].on = calls[q].on
                                 /\ calls'[q].read = calls[q].read /\ calls'[q].left = calls[q].left
                                 /\ calls'[q].view = calls[q].view /\ calls'[q].bad = calls[q].bad
              /\ (\E r \in Reqs : Answers(r)) \/ (\A q \in Reqs : calls'[q].end = calls[q].end \/ (Running(q) /\ calls'[q].end = "lost"))
<1>1. ASSUME NEW r \in Reqs, Step(r) \/ Fails(r)
      PROVE  Inv' /\ StepIs(r) /\ AtCall(r) /\ UNCHANGED <<scene, meddles>>
  BY <1>1, StepsAre
<1>2. ASSUME NEW r \in Reqs, Again(r) PROVE Inv' /\ UNCHANGED <<scene, cluster, meddles>>
  BY <1>2, AgainKeeps
<1>3. DOMAIN cluster = Objs
  BY DEF Inv, Types
<1>4. CASE Dies
  BY <1>4, DiesKeeps
<1>5. CASE UNCHANGED vars
  <2>1. Inv'
    BY <1>5 DEF vars, Inv, Types, Fresh, Listed, Calls, Now, ScriptOf, Objs, There
  <2> QED
    BY <1>5, <2>1 DEF vars
<1>6. ASSUME NEW r \in Reqs, Answers(r)
      PROVE  /\ Inv' /\ UNCHANGED <<scene, cluster, meddles>>
             /\ \A q \in Reqs : /\ calls'[q].at = calls[q].at /\ calls'[q].on = calls[q].on
                                /\ calls'[q].read = calls[q].read /\ calls'[q].left = calls[q].left
                                /\ calls'[q].view = calls[q].view /\ calls'[q].bad = calls[q].bad
  BY <1>6, AnswersKeep
<1>7. \/ \E r \in Reqs : Step(r) \/ Fails(r)
      \/ \E r \in Reqs : Again(r)
      \/ \E o \in Objs : Meddle(o)
      \/ \E r \in Reqs : Answers(r)
      \/ Dies \/ UNCHANGED vars
  BY <1>3 DEF Next
<1> QED
  BY <1>1, <1>2, <1>4, <1>5, <1>6, <1>7

(* Every state has the types, and a version taken for the latest is of an   *)
(* object that is there.                                                    *)
THEOREM AlwaysFresh == Spec => []Inv
<1>1. Inv /\ [Next]_vars => Inv'
  BY NextIs, MeddleKeeps
<1> QED
  BY <1>1, InitIs, PTL DEF Spec

----------------------------------------------------------------------------
(* Calls that may still come: those from here on, and, if this branch can   *)
(* still be left, those of another.                                         *)
Remain(s, a, j, b, i) ==
    i \in DOMAIN s[b] /\ IF b = a THEN i >= j ELSE b # "calls" /\ Leaving(s, a, j)
Unseen(r) ==
    scene.who[r] \notin Unseeing =>
       \A b \in Branches : \A i \in DOMAIN ScriptOf(r)[b] :
          ScriptOf(r)[b][i].op \in Blind /\ Remain(ScriptOf(r), calls[r].on, calls[r].at, b, i) =>
             \A p \in ScriptOf(r)[b][i].on \cap Objs : calls[r].view[p] \notin Seen

LEMMA RemainIs ==
    ASSUME Inv, NEW r \in Reqs, AtCall(r), NEW d \in States(Objs), Position(r, d),
           NEW b \in Branches, NEW i \in DOMAIN ScriptOf(r)[b], Remain(ScriptOf(r), d.on, d.at, b, i)
    PROVE  /\ Remain(ScriptOf(r), calls[r].on, calls[r].at, b, i)
           /\ \/ ~(b = calls[r].on /\ i = calls[r].at)
              \/ d.on = calls[r].on /\ d.at = calls[r].at /\ Now(r).op \notin {"set", "overwrite", "amend"}
<1> DEFINE s == ScriptOf(r)
           a == calls[r].on
           j == calls[r].at
<1>1. /\ IsScript(s) /\ \A e \in Branches : s[e] \in Seq(AnyCall) /\ Len(s[e]) < Over
      /\ a \in Branches /\ j \in DOMAIN s[a] /\ Now(r) = s[a][j]
  BY ScriptIs, NowIs DEF Inv, Types, Now, Calls
<1>2. i \in Nat /\ i < Over /\ i >= 1 /\ j \in Nat /\ j < Over /\ Over \in Nat
  <2>1. i \in 1 .. Len(s[b]) /\ Len(s[b]) \in Nat /\ Len(s[b]) < Over
    BY <1>1
  <2>2. j \in 1 .. Len(s[a]) /\ Len(s[a]) \in Nat /\ Len(s[a]) < Over
    BY <1>1
  <2> QED
    BY <2>1, <2>2 DEF Over
<1>3. ~Leaving(s, a, Over)
  <2>1. \A k \in DOMAIN s[a] : k \in 1 .. Len(s[a]) /\ Len(s[a]) \in Nat /\ Len(s[a]) < Over
    BY <1>1
  <2> QED
    BY <1>2, <2>1 DEF Leaving
<1>4. Leaving(s, a, j + 1) => Leaving(s, a, j)
  <2>1. \A k \in DOMAIN s[a] : k \in 1 .. Len(s[a])
    BY <1>1
  <2> QED
    BY <1>2, <2>1 DEF Leaving
<1>5. Diverts(Now(r), "undo") => a # "undo" /\ Leaving(s, a, j)
  BY <1>1, <1>2 DEF IsScript, Leaving
<1>6. Diverts(Now(r), "else") => a # "other" /\ Leaving(s, a, j)
  BY <1>1, <1>2 DEF IsScript, Leaving
<1>7. ~(a = "undo" /\ Diverts(Now(r), "else") /\ Leaving(s, "other", 1))
  BY <1>1, <1>2 DEF IsScript, Leaving
<1>8. ~(a = "other" /\ Diverts(Now(r), "undo") /\ Leaving(s, "undo", 1))
  BY <1>1, <1>2 DEF IsScript, Leaving
<1> HIDE DEF s, a, j
<1>9. i \in DOMAIN s[b] /\ IF b = d.on THEN i >= d.at ELSE b # "calls" /\ Leaving(s, d.on, d.at)
  BY DEF Remain, s
<1>10. CASE d.on = a /\ d.at = j /\ Now(r).op \notin {"set", "overwrite", "amend"}
  BY <1>9, <1>10 DEF Remain, s, a, j
<1>11. CASE d.on = a /\ d.at = j + 1
  BY <1>2, <1>4, <1>9, <1>11 DEF Remain, s, a, j
<1>12. CASE d.on = a /\ d.at = Over
  BY <1>2, <1>3, <1>9, <1>12
<1>13. CASE d.on = "undo" /\ d.at = 1 /\ Diverts(Now(r), "undo")
  <2>1. b # a /\ b # "calls"
    BY <1>5, <1>8, <1>9, <1>13, <1>1 DEF Branches
  <2> QED
    BY <1>5, <1>9, <1>13, <2>1 DEF Remain, s, a, j
<1>14. CASE d.on = "other" /\ d.at = 1 /\ Diverts(Now(r), "else")
  <2>1. b # a /\ b # "calls"
    BY <1>6, <1>7, <1>9, <1>14, <1>1 DEF Branches
  <2> QED
    BY <1>6, <1>9, <1>14, <2>1 DEF Remain, s, a, j
<1> QED
  BY <1>10, <1>11, <1>12, <1>13, <1>14 DEF Position, s, a, j

(* A step does not make a request see what a call still to come will write. *)
LEMMA UnseenStep ==
    ASSUME Careful, Inv, NEW r \in Reqs, AtCall(r), StepIs(r), Inv', UNCHANGED scene, Unseen(r)
    PROVE  Unseen(r)'
<1> DEFINE s == ScriptOf(r)
           d == calls'[r]
<1>1. s' = s /\ Objs' = Objs
  BY DEF ScriptOf, Objs
<1>2. SUFFICES ASSUME scene.who[r] \notin Unseeing, NEW b \in Branches, NEW i \in DOMAIN s[b],
                      s[b][i].op \in Blind, Remain(s, d.on, d.at, b, i), NEW p \in s[b][i].on \cap Objs
               PROVE  d.view[p] \notin Seen
  BY <1>1 DEF Unseen
<1>3. Cautious(s)
  BY <1>2 DEF Careful, CarefulIn, Inv, Types, ScriptOf
<1>4. d \in States(Objs) /\ Position(r, d) /\ Learns(r, d)
  BY <1>1 DEF Inv, Types, StepIs
<1>5. /\ Remain(s, calls[r].on, calls[r].at, b, i)
      /\ \/ ~(b = calls[r].on /\ i = calls[r].at)
         \/ Now(r).op \notin {"set", "overwrite", "amend"}
  BY <1>2, <1>4, RemainIs
<1>6. calls[r].view[p] \notin Seen
  BY <1>2, <1>5 DEF Unseen
<1>7. /\ calls[r].on \in Branches /\ calls[r].at \in DOMAIN s[calls[r].on] /\ Now(r) = s[calls[r].on][calls[r].at]
      /\ \A e \in Branches : s[e] \in Seq(AnyCall)
  BY NowIs, ScriptIs DEF Inv, Types, Now, Calls
<1>8. i \in Nat /\ calls[r].at \in Nat
  BY <1>2, <1>7
<1>9. s[b][i].op # "mend" /\ (s[b][i].op \in {"set", "overwrite", "amend"} \/ s[b][i].op = "mend")
  BY <1>2, <1>3 DEF Cautious, Blind, Altering, Versioned
<1>10. b = calls[r].on => calls[r].at < i
  BY <1>5, <1>7, <1>8, <1>9 DEF Remain
<1>11. b # calls[r].on => b # "calls" /\ Leaving(s, calls[r].on, calls[r].at)
  BY <1>5 DEF Remain
<1>12. ~(p \in Now(r).on /\ Now(r).op \notin Unsighted)
  BY <1>2, <1>3, <1>7, <1>10, <1>11 DEF Cautious
<1> QED
  BY <1>2, <1>4, <1>6, <1>12 DEF Learns

LEMMA UnseenStays ==
    ASSUME NEW r \in Reqs, UNCHANGED scene, Unseen(r),
           calls'[r].on = calls[r].on, calls'[r].at = calls[r].at,
           \A p \in Objs : calls'[r].view[p] = calls[r].view[p] \/ calls[r].view[p] \in Seen
    PROVE  Unseen(r)'
<1>1. ScriptOf(r)' = ScriptOf(r) /\ Objs' = Objs
  BY DEF ScriptOf, Objs
<1> QED
  BY <1>1 DEF Unseen

LEMMA UnseenKept ==
    ASSUME Careful, Inv, [Next]_vars, \A r \in Reqs : Unseen(r)
    PROVE  \A r \in Reqs : Unseen(r)'
<1>1. ASSUME NEW r \in Reqs, Inv', StepIs(r), AtCall(r), UNCHANGED <<scene, meddles>>
      PROVE  \A q \in Reqs : Unseen(q)'
  <2>1. Unseen(r)'
    BY <1>1, UnseenStep
  <2>2. \A q \in Reqs \ {r} : Unseen(q)'
    BY <1>1, UnseenStays DEF StepIs, Bystander, Seen
  <2> QED
    BY <2>1, <2>2
<1>2. ASSUME NEW r \in Reqs, Again(r), UNCHANGED <<scene, cluster, meddles>>
      PROVE  \A q \in Reqs : Unseen(q)'
  <2>1. calls' = [calls EXCEPT ![r] = Ready(scene, r)] /\ calls \in [Reqs -> States(Objs)] /\ scene \in Scenes
    BY <1>2, AgainKeeps DEF Inv, Types
  <2>2. Unseen(r)'
    <3>1. \A p \in Objs : calls'[r].view[p] = "unread"
      BY <2>1, ReadyIs
    <3>2. Objs' = Objs
      BY <1>2 DEF Objs
    <3> QED
      BY <3>1, <3>2 DEF Unseen, Seen
  <2>3. \A q \in Reqs \ {r} : Unseen(q)'
    BY <1>2, <2>1, UnseenStays
  <2> QED
    BY <2>2, <2>3
<1>3. ASSUME NEW o \in Objs, Meddle(o) PROVE \A q \in Reqs : Unseen(q)'
  BY <1>3, MeddleKeeps, UnseenStays DEF Bystander, Seen
<1>4. ASSUME UNCHANGED <<scene, cluster, meddles>>,
             \A q \in Reqs : calls'[q].at = calls[q].at /\ calls'[q].on = calls[q].on /\ calls'[q].view = calls[q].view
      PROVE  \A q \in Reqs : Unseen(q)'
  BY <1>4, UnseenStays
<1> QED
  BY <1>1, <1>2, <1>3, <1>4, NextIs

(* No step writes over what somebody has written since its request looked.  *)
LEMMA SeesBeforeItWrites ==
    ASSUME Careful, Inv, [Next]_vars, \A r \in Reqs : Unseen(r), NEW r \in Reqs, NEW o \in DOMAIN cluster,
           calls[r].view[o] = "stale", cluster'[o] # cluster[o], cluster'[o].by = r,
           There(o), cluster'[o].mark # "none"
    PROVE  scene.who[r] \in Unseeing
<1>1. o \in Objs /\ r # Others
  BY ScenesAssumption DEF Inv, Types
<1>2. \A p \in Objs : Meddle(p) => cluster'[o] = cluster[o] \/ cluster'[o].by = Others
  BY <1>1, MeddleKeeps
<1>3. PICK q \in Reqs : AtCall(q) /\ StepIs(q)
  BY <1>1, <1>2, NextIs
<1>4. Effect(q, o)
  BY <1>1, <1>3 DEF StepIs
<1>5. q = r
  BY <1>4 DEF Effect
<1>6. /\ o \in Now(r).on /\ Now(r).op \in Blind
  BY <1>1, <1>4, <1>5 DEF Effect
<1>7. /\ calls[r].on \in Branches /\ calls[r].at \in DOMAIN ScriptOf(r)[calls[r].on]
      /\ Now(r) = ScriptOf(r)[calls[r].on][calls[r].at] /\ calls[r].at \in Nat
  BY <1>3, <1>5, NowIs DEF Inv, Types, Now, Calls, States
<1>8. Remain(ScriptOf(r), calls[r].on, calls[r].at, calls[r].on, calls[r].at)
  BY <1>7 DEF Remain
<1> QED
  BY <1>1, <1>6, <1>7, <1>8 DEF Unseen, Seen

(* No handler but those that write without a version writes over what       *)
(* somebody has written since it looked: in any scene of careful scripts,   *)
(* with any number of requests, failures, restarts and changes by others.   *)
THEOREM NothingLostUnseen ==
    ASSUME Careful
    PROVE  Spec => NoLostUpdate
<1> DEFINE All == Inv /\ \A r \in Reqs : Unseen(r)
<1>1. Init => All
  <2> SUFFICES ASSUME Init PROVE All
    OBVIOUS
  <2>1. Inv
    BY InitIs
  <2>2. \A r \in Reqs : \A p \in Objs : calls[r].view[p] \notin Seen
    BY <2>1, ReadyIs DEF Init, Inv, Types, Seen
  <2> QED
    BY <2>1, <2>2 DEF Unseen
<1>2. All /\ [Next]_vars => All'
  BY UnseenKept, NextIs, MeddleKeeps
<1>3. All /\ [Next]_vars =>
         [\A r \in Reqs : \A o \in DOMAIN cluster :
             calls[r].view[o] = "stale" /\ cluster'[o] # cluster[o] /\ cluster'[o].by = r
                /\ There(o) /\ cluster'[o].mark # "none" => scene.who[r] \in Unseeing]_vars
  BY SeesBeforeItWrites
<1> QED
  BY <1>1, <1>2, <1>3, PTL DEF Spec, NoLostUpdate

----------------------------------------------------------------------------
(* What casos has made keeps its label through every step of every handler  *)
(* but those that write an object anew: in any scene of careful scripts.    *)
THEOREM LabelsAlwaysStay ==
    ASSUME Careful
    PROVE  Spec => OwnersKept
<1>1. ASSUME Inv, [Next]_vars, NEW o \in DOMAIN cluster, cluster[o].mark = "casos", cluster'[o].mark = "plain"
      PROVE  cluster'[o].by = Others \/ scene.who[cluster'[o].by] \in Unlabelling
  <2>1. o \in Objs
    BY <1>1 DEF Inv, Types
  <2>2. CASE \E q \in Reqs : AtCall(q) /\ StepIs(q)
    <3>1. PICK q \in Reqs : AtCall(q) /\ StepIs(q)
      BY <2>2
    <3>2. Effect(q, o)
      BY <1>1, <2>1, <3>1 DEF StepIs
    <3>3. Updated(Now(q), o) = "plain"
      BY <1>1, <3>2 DEF Effect, There
    <3>4. Now(q).update = "plain" /\ Now(q) \in Every(ScriptOf(q))
      BY <1>1, <3>1, <3>3, NowIs DEF Updated, Inv
    <3>5. scene.who[q] \in Unlabelling
      BY <1>1, <3>4 DEF Careful, CarefulIn, ScriptOf, Inv, Types
    <3> QED
      BY <3>2, <3>5 DEF Effect
  <2>3. \A p \in Objs : Meddle(p) => cluster'[o] = cluster[o] \/ cluster'[o].by = Others
    BY <1>1, <2>1, MeddleKeeps
  <2> QED
    BY <1>1, <2>2, <2>3, NextIs
<1>2. Inv /\ [Next]_vars =>
         [\A o \in DOMAIN cluster : cluster[o].mark = "casos" /\ cluster'[o].mark = "plain" =>
             cluster'[o].by = Others \/ scene.who[cluster'[o].by] \in Unlabelling]_vars
  BY <1>1
<1> QED
  BY <1>2, AlwaysFresh, PTL DEF Spec, OwnersKept

----------------------------------------------------------------------------
(* An error nobody is told of; and what a request has done when it goes on  *)
(* to the next call, or to the next object listed, with no error to tell.   *)
Skips(r) == "skip" \in {Now(r).err, Now(r).list}
Swept(r) ==
    AtCall(r) /\ Now(r).op = "sweep" /\ calls[r].read /\ ~calls[r].bad /\ ~Skips(r) =>
       \A o \in Now(r).on : cluster[o].mark = "casos" => o \in calls[r].left
Filled(r) == \A c \in Every(ScriptOf(r)) : c.op = "fill" =>
                \A p \in c.on : calls[r].view[p] \in Seen => There(p)
Carried(r) ==
    \A o \in Now(r).on : /\ Now(r).op \in Making => cluster'[o].mark # "none"
                         /\ Now(r).op \in Removing => cluster'[o].mark # "casos"
Told(r, d) ==
    ~d.bad /\ ~Skips(r) /\ d.on = calls[r].on =>
       /\ d.at = calls[r].at + 1 => Carried(r)
       /\ d.at = calls[r].at /\ Now(r).op = "sweep" /\ d.read =>
             \A o \in Now(r).on : cluster'[o].mark = "casos" => o \in d.left

LEMMA NextCall ==
    ASSUME Inv, NEW r \in Reqs
    PROVE  /\ calls[r].at \in Nat \ {0} /\ calls[r].at + 1 # calls[r].at /\ calls[r].at + 1 # 1
           /\ calls[r] \in States(Objs) /\ (AtCall(r) => calls[r].at < Over)
<1>1. calls[r] \in States(Objs) /\ calls[r].at \in Nat \ {0}
  BY DEF Inv, Types, States
<1>2. ASSUME AtCall(r) PROVE calls[r].at < Over
  <2>1. calls[r].on \in Branches /\ calls[r].at <= Len(Calls(r))
    BY <1>1, <1>2 DEF States, AtCall
  <2>2. Calls(r) \in Seq(AnyCall) /\ Len(Calls(r)) < Over
    BY <2>1, ScriptIs DEF Inv, Types, Calls
  <2> QED
    BY <1>1, <2>1, <2>2 DEF Over
<1> QED
  BY <1>1, <1>2

LEMMA FailedTold ==
    ASSUME Inv, NEW r \in Reqs, AtCall(r), NEW c, NEW d, NEW err, Leads(c, d, err), err = "skip" => Skips(r),
           c.at = calls[r].at, c.on = calls[r].on, c.left = calls[r].left, c.bad = calls[r].bad
    PROVE  Told(r, d)
<1>1. /\ calls[r].at + 1 # calls[r].at /\ calls[r].at + 1 # 1
      /\ calls[r].at + 1 \in Int /\ calls[r].at \in Int /\ Over \in Int
  BY NextCall DEF Over
<1> QED
  BY <1>1 DEF Leads, Told

LEMMA FailingTold ==
    ASSUME Inv, NEW r \in Reqs, AtCall(r), NEW o, NEW err \in Errors, err = "skip" => Skips(r),
           Goes(r, Failed(calls[r], o, err))
    PROVE  Told(r, calls'[r])
<1> DEFINE d == Failed(calls[r], o, err)
<1>1. calls[r] \in States(Objs)
  BY NextCall
<1>2. Leads(calls[r], d, err)
  BY <1>1, FailedIs
<1>3. calls'[r] = d
  BY DEF Goes, Inv, Types
<1> HIDE DEF d
<1> QED
  BY <1>2, <1>3, FailedTold

LEMMA RefusedTold ==
    ASSUME Inv, NEW r \in Reqs, AtCall(r), NEW o, Refused(r, o)
    PROVE  Told(r, calls'[r])
<1>1. Now(r).err \in Errors /\ (Now(r).err = "skip" => Skips(r))
  BY NowIs DEF Inv, AnyCall, Errors, Skips
<1> QED
  BY <1>1, FailingTold DEF Refused

LEMMA PassedTold ==
    ASSUME Inv, NEW r \in Reqs, NEW c \in States(Objs), c.at = calls[r].at, Goes(r, Passed(c)), Carried(r)
    PROVE  Told(r, calls'[r])
<1>1. calls'[r] = Passed(c)
  BY DEF Goes, Inv, Types
<1>2. calls'[r].at = calls[r].at + 1
  BY <1>1, PassedIs
<1> QED
  BY <1>2, NextCall DEF Told

LEMMA ReadyTold ==
    ASSUME Inv, NEW r \in Reqs, NEW d, d.at = calls[r].at, Now(r).op # "sweep"
    PROVE  Told(r, d)
BY NextCall DEF Told

LEMMA WritesTold ==
    ASSUME Inv, NEW r \in Reqs, AtCall(r), NEW o \in Objs, NEW mark \in Marks, Writes(r, o, mark), o \in Now(r).on,
           Now(r).op \notin Listing => /\ Now(r).op \in Making => mark # "none"
                                       /\ Now(r).op \in Removing => mark # "casos",
           Now(r).op = "sweep" => mark = "none" /\ calls[r].read /\ Swept(r) /\ o \in calls[r].left
    PROVE  Told(r, calls'[r])
<1> DEFINE old == Outdated(calls, o)
           v   == IF mark = "none" THEN "absent" ELSE "fresh"
           e   == Knows(calls[r], o, v)
<1>1. calls[r] \in States(Objs) /\ Now(r) \in AnyCall /\ calls \in [Reqs -> States(Objs)]
  BY NowIs DEF Inv, Types
<1>2. /\ old \in [Reqs -> States(Objs)]
      /\ old[r] \in States(Objs) /\ old[r].at = calls[r].at
      /\ old[r].left = calls[r].left /\ old[r].on = calls[r].on /\ old[r].bad = calls[r].bad
  BY <1>1, OutdatedIs
<1>3. /\ e \in States(Objs) /\ e.at = calls[r].at /\ e.left = calls[r].left /\ e.on = calls[r].on
      /\ e.bad = calls[r].bad
  <2>1. v \in Known
    BY DEF Known
  <2> HIDE DEF v
  <2>2. LET d == Knows(calls[r], o, v) IN
           /\ d \in States(Objs) /\ d.view = [calls[r].view EXCEPT ![o] = v] /\ d.at = calls[r].at /\ d.read = calls[r].read
           /\ d.left = calls[r].left /\ d.on = calls[r].on /\ d.bad = calls[r].bad /\ d.end = calls[r].end
    BY <1>1, <2>1, KnowsIs
  <2> QED
    BY <2>2
<1>4. /\ cluster'[o].mark = mark /\ \A p \in Objs \ {o} : cluster'[p] = cluster[p]
  BY DEF Writes, Inv, Types
<1>5. \/ calls' = [old EXCEPT ![r] = Past(e, o)]
      \/ calls' = [old EXCEPT ![r] = Failed(old[r], o, Now(r).err)]
  BY DEF Writes
<1> HIDE DEF old, e
<1>6. CASE calls' = [old EXCEPT ![r] = Failed(old[r], o, Now(r).err)]
  <2> DEFINE d == Failed(old[r], o, Now(r).err)
  <2>1. Now(r).err \in Errors /\ (Now(r).err = "skip" => Skips(r))
    BY <1>1 DEF AnyCall, Errors, Skips
  <2>2. Leads(old[r], d, Now(r).err)
    BY <1>2, <2>1, FailedIs
  <2>3. calls'[r] = d
    BY <1>2, <1>6
  <2> HIDE DEF d
  <2> QED
    BY <1>2, <2>1, <2>2, <2>3, FailedTold
<1>7. CASE calls' = [old EXCEPT ![r] = Past(e, o)]
  <2> DEFINE d == Past(e, o)
  <2>1. /\ d.bad = e.bad
        /\ e.left \subseteq {o} => d.at = e.at + 1
        /\ ~(e.left \subseteq {o}) => d.at = e.at /\ d.left = e.left \ {o}
    BY <1>3, PastIs
  <2>2. calls'[r] = d
    BY <1>2, <1>7
  <2> HIDE DEF d
  <2>3. CASE Now(r).op = "sweep"
    <3>1. Now(r).op \notin Making /\ Now(r).on \subseteq Objs
      BY <2>3, NowIs DEF Making, Inv
    <3>2. ~d.bad /\ ~Skips(r) => \A p \in Now(r).on : cluster'[p].mark = "casos" => p \in calls[r].left \ {o}
      BY <1>3, <1>4, <2>1, <2>3, <3>1 DEF Swept
    <3>3. CASE e.left \subseteq {o}
      <4>1. d.at = calls[r].at + 1
        BY <1>3, <2>1, <3>3
      <4>2. ~d.bad /\ ~Skips(r) => Carried(r)
        BY <1>3, <3>1, <3>2, <3>3 DEF Carried
      <4> QED
        BY <2>2, <4>1, <4>2, NextCall DEF Told
    <3>4. CASE ~(e.left \subseteq {o})
      BY <1>3, <2>1, <2>2, <3>2, <3>4, NextCall DEF Told
    <3> QED
      BY <3>3, <3>4
  <2>4. CASE Now(r).op # "sweep" /\ Now(r).op \in Listing
    <3>1. Carried(r)
      BY <2>4 DEF Carried, Listing, Making, Removing
    <3> QED
      BY <2>4, <3>1 DEF Told
  <2>5. CASE Now(r).op \notin Listing
    <3>1. Now(r).on = {o} /\ Now(r).op # "sweep"
      BY <2>5, NowIs DEF Inv, Listing
    <3>2. Carried(r)
      BY <1>4, <2>5, <3>1 DEF Carried
    <3> QED
      BY <3>1, <3>2 DEF Told
  <2> QED
    BY <2>3, <2>4, <2>5
<1> QED
  BY <1>5, <1>6, <1>7

LEMMA ReadsTold ==
    ASSUME Inv, NEW r \in Reqs, Reads(r)
    PROVE  Told(r, calls'[r])
<1> DEFINE c == Now(r)
           o == Object(r)
           v == IF There(o) THEN "fresh" ELSE "absent"
           seen == IF c.op = "find" THEN calls[r] ELSE Knows(calls[r], o, v)
           ready == [seen EXCEPT !.read = TRUE]
<1>1. AtCall(r) /\ c.op \in Reading /\ UNCHANGED cluster
  BY DEF Reads, Doing
<1>2. c.op \notin Listing /\ c.op # "run" /\ c.op # "sweep"
  BY <1>1 DEF Reading, Listing
<1>3. calls[r] \in States(Objs) /\ c \in AnyCall /\ o \in Objs /\ c.on = {o}
  BY <1>1, <1>2, NowIs DEF Inv
<1>4. seen \in States(Objs) /\ seen.at = calls[r].at
  <2>1. v \in Known
    BY DEF Known
  <2> HIDE DEF v
  <2>2. LET d == Knows(calls[r], o, v) IN
           /\ d \in States(Objs) /\ d.view = [calls[r].view EXCEPT ![o] = v] /\ d.at = calls[r].at /\ d.read = calls[r].read
           /\ d.left = calls[r].left /\ d.on = calls[r].on /\ d.bad = calls[r].bad /\ d.end = calls[r].end
    BY <1>3, <2>1, KnowsIs
  <2> QED
    BY <1>3, <2>2
<1>5. \/ c.theirs = "spare" /\ cluster[o].mark \in {"plain", "foreign"} /\ Goes(r, Failed(calls[r], o, "skip"))
      \/ \E err \in {"else", c.err} : Goes(r, Failed(calls[r], o, err))
      \/ /\ Goes(r, Passed(seen))
         /\ \/ c.op \in {"get", "find", "look", "free", "tune"}
            \/ c.op = "keep" /\ There(o)
            \/ c.op = "shed" /\ cluster[o].mark # "casos"
      \/ Goes(r, ready)
  <2>1. c.theirs \in {"take", "refuse", "else", "spare"}
    BY <1>3 DEF AnyCall
  <2> QED
    BY <2>1 DEF Reads
<1> HIDE DEF o, seen
<1>6. CASE c.theirs = "spare" /\ cluster[o].mark \in {"plain", "foreign"} /\ Goes(r, Failed(calls[r], o, "skip"))
  <2>1. Failed(calls[r], o, "skip") = Passed(calls[r])
    <3>1. calls[r].left = {}
      BY <1>1, <1>2, NowIs DEF Inv
    <3> QED
      BY <3>1 DEF Failed, Past
  <2>2. Carried(r)
    BY <1>1, <1>3, <1>6 DEF Carried
  <2> QED
    BY <1>3, <1>6, <2>1, <2>2, PassedTold
<1>7. CASE \E err \in {"else", c.err} : Goes(r, Failed(calls[r], o, err))
  <2>1. PICK err \in {"else", c.err} : Goes(r, Failed(calls[r], o, err))
    BY <1>7
  <2>2. err \in Errors /\ (err = "skip" => Skips(r))
    BY <1>3, <2>1 DEF AnyCall, Errors, Skips
  <2> QED
    BY <1>1, <2>1, <2>2, FailingTold
<1>8. ASSUME Goes(r, Passed(seen)),
             \/ c.op \in {"get", "find", "look", "free", "tune"}
             \/ c.op = "keep" /\ There(o)
             \/ c.op = "shed" /\ cluster[o].mark # "casos"
      PROVE  Told(r, calls'[r])
  <2>1. Carried(r)
    BY <1>1, <1>3, <1>8 DEF Carried, Making, Removing, There
  <2> QED
    BY <1>4, <1>8, <2>1, PassedTold
<1>9. ASSUME Goes(r, ready) PROVE Told(r, calls'[r])
  <2>1. ready.at = calls[r].at
    BY <1>4 DEF States
  <2>2. calls'[r] = ready
    BY <1>9 DEF Goes, Inv, Types
  <2> HIDE DEF ready
  <2> QED
    BY <1>2, <2>1, <2>2, ReadyTold
<1> QED
  BY <1>5, <1>6, <1>7, <1>8, <1>9

LEMMA CreatesTold ==
    ASSUME Inv, NEW r \in Reqs, Creates(r)
    PROVE  Told(r, calls'[r])
<1> DEFINE c == Now(r)
           o == Object(r)
           k == Knows(calls[r], o, "fresh")
           ready == [k EXCEPT !.read = TRUE]
<1>1. AtCall(r) /\ c.op \in {"create", "settle", "set", "save", "fill", "mend", "keep", "put"}
  BY DEF Creates, Doing
<1>2. c.op \notin Listing /\ c.op # "run" /\ c.op # "sweep" /\ c.op \notin Removing
  BY <1>1 DEF Removing, Listing
<1>3. calls[r] \in States(Objs) /\ c \in AnyCall /\ o \in Objs /\ c.on = {o}
  BY <1>1, <1>2, NowIs DEF Inv
<1>4. c.mark \in Marks /\ c.mark # "none"
  BY <1>3 DEF AnyCall, Marks
<1>5. \/ Writes(r, o, c.mark)
      \/ There(o) /\ Goes(r, Passed(calls[r])) /\ UNCHANGED <<cluster, faults>>
      \/ Goes(r, ready)
      \/ Refused(r, o)
  BY DEF Creates
<1>6. CASE Writes(r, o, c.mark)
  BY <1>1, <1>2, <1>3, <1>4, <1>6, WritesTold
<1>7. CASE There(o) /\ Goes(r, Passed(calls[r])) /\ UNCHANGED <<cluster, faults>>
  <2>1. Carried(r)
    BY <1>2, <1>3, <1>7 DEF Carried, There
  <2> QED
    BY <1>3, <1>7, <2>1, PassedTold
<1>8. CASE Goes(r, ready)
  <2>1. "fresh" \in Known
    BY DEF Known
  <2>2. k \in States(Objs) /\ k.at = calls[r].at
    <3>1. LET d == Knows(calls[r], o, "fresh") IN
           /\ d \in States(Objs) /\ d.view = [calls[r].view EXCEPT ![o] = "fresh"] /\ d.at = calls[r].at /\ d.read = calls[r].read
           /\ d.left = calls[r].left /\ d.on = calls[r].on /\ d.bad = calls[r].bad /\ d.end = calls[r].end
      BY <1>3, <2>1, KnowsIs
    <3> QED
      BY <3>1
  <2>3. calls'[r] = ready
    BY <1>8 DEF Goes, Inv, Types
  <2> HIDE DEF k
  <2>4. ready.at = calls[r].at
    BY <2>2 DEF States
  <2> HIDE DEF ready
  <2> QED
    BY <1>2, <2>3, <2>4, ReadyTold
<1>9. CASE Refused(r, o)
  BY <1>1, <1>9, RefusedTold
<1> QED
  BY <1>5, <1>6, <1>7, <1>8, <1>9

LEMMA UpdatesTold ==
    ASSUME Inv, NEW r \in Reqs, Updates(r)
    PROVE  Told(r, calls'[r])
<1> DEFINE c == Now(r)
           o == Object(r)
<1>1. /\ AtCall(r)
      /\ c.op \in {"change", "overwrite", "amend", "set", "mend", "save", "put", "settle", "fill", "edit", "tune"}
  BY DEF Updates, Doing
<1>2. c.op \notin Listing /\ c.op # "run" /\ c.op # "sweep" /\ c.op \notin Removing
  BY <1>1 DEF Removing, Listing
<1>3. calls[r] \in States(Objs) /\ o \in Objs /\ c.on = {o}
  BY <1>1, <1>2, NowIs DEF Inv
<1>4. Updated(c, o) \in Marks /\ (There(o) => Updated(c, o) # "none")
  BY <1>1, <1>3, UpdatedIs DEF Inv
<1>5. \/ There(o) /\ Writes(r, o, Updated(c, o))
      \/ c.op = "amend" /\ Goes(r, Passed(calls[r]))
      \/ Refused(r, o)
  BY DEF Updates
<1>6. CASE There(o) /\ Writes(r, o, Updated(c, o))
  BY <1>1, <1>2, <1>3, <1>4, <1>6, WritesTold
<1>7. CASE c.op = "amend" /\ Goes(r, Passed(calls[r]))
  <2>1. Carried(r)
    BY <1>7 DEF Carried, Making, Removing
  <2> QED
    BY <1>3, <1>7, <2>1, PassedTold
<1>8. CASE Refused(r, o)
  BY <1>1, <1>8, RefusedTold
<1> QED
  BY <1>5, <1>6, <1>7, <1>8

LEMMA DeletesTold ==
    ASSUME Inv, NEW r \in Reqs, Deletes(r)
    PROVE  Told(r, calls'[r])
<1> DEFINE c == Now(r)
           o == Object(r)
<1>1. AtCall(r) /\ c.op \in {"drop", "clear", "shed"}
  BY DEF Deletes, Doing
<1>2. c.op \notin Listing /\ c.op # "run" /\ c.op # "sweep" /\ c.op \notin Making
  BY <1>1 DEF Making, Listing
<1>3. calls[r] \in States(Objs) /\ o \in Objs /\ c.on = {o}
  BY <1>1, <1>2, NowIs DEF Inv
<1>4. "none" \in Marks /\ "none" # "casos"
  BY DEF Marks
<1>5. \/ Writes(r, o, "none")
      \/ ~There(o) /\ Goes(r, Passed(calls[r])) /\ UNCHANGED <<cluster, faults>>
      \/ Refused(r, o)
  BY DEF Deletes
<1>6. CASE Writes(r, o, "none")
  BY <1>1, <1>2, <1>3, <1>4, <1>6, WritesTold
<1>7. CASE ~There(o) /\ Goes(r, Passed(calls[r])) /\ UNCHANGED <<cluster, faults>>
  <2>1. Carried(r)
    BY <1>2, <1>3, <1>7 DEF Carried, There
  <2> QED
    BY <1>3, <1>7, <2>1, PassedTold
<1>8. CASE Refused(r, o)
  BY <1>1, <1>8, RefusedTold
<1> QED
  BY <1>5, <1>6, <1>7, <1>8

LEMMA ListsTold ==
    ASSUME Inv, NEW r \in Reqs, Lists(r)
    PROVE  Told(r, calls'[r])
<1> DEFINE found == {o \in Now(r).on : cluster[o].mark = "casos"}
           seen  == [o \in DOMAIN calls[r].view |-> IF o \in found THEN "fresh" ELSE calls[r].view[o]]
           known == [calls[r] EXCEPT !.read = TRUE, !.left = found, !.view = seen]
<1>1. AtCall(r) /\ Now(r).op \in Listing /\ UNCHANGED cluster
  BY DEF Lists, Doing
<1>2. Now(r).op \notin Making /\ Now(r) \in AnyCall /\ calls[r] \in States(Objs)
  BY <1>1, NowIs DEF Inv, Listing, Making
<1>3. \/ Goes(r, known)
      \/ Goes(r, Stopped(calls[r]))
      \/ found = {} /\ Goes(r, Passed(calls[r]))
      \/ Goes(r, Failed(calls[r], Object(r), Now(r).list))
  BY DEF Lists
<1>4. \A d : Goes(r, d) => calls'[r] = d
  BY DEF Goes, Inv, Types
<1>5. CASE Goes(r, known)
  <2>1. calls'[r] = known
    BY <1>4, <1>5
  <2> HIDE DEF seen
  <2>2. known.at = calls[r].at /\ known.left = found
    BY <1>2 DEF States
  <2> HIDE DEF known
  <2> QED
    BY <1>1, <2>1, <2>2, NextCall DEF Told
<1>6. CASE Goes(r, Stopped(calls[r]))
  <2>1. calls'[r].bad
    BY <1>2, <1>4, <1>6, StoppedIs
  <2> QED
    BY <2>1 DEF Told
<1>7. CASE found = {} /\ Goes(r, Passed(calls[r]))
  <2>1. Carried(r)
    BY <1>1, <1>2, <1>7 DEF Carried
  <2> QED
    BY <1>2, <1>7, <2>1, PassedTold
<1>8. CASE Goes(r, Failed(calls[r], Object(r), Now(r).list))
  <2>1. Now(r).list \in Errors /\ (Now(r).list = "skip" => Skips(r))
    BY <1>2 DEF AnyCall, Errors, Skips
  <2> QED
    BY <1>1, <1>8, <2>1, FailingTold
<1> QED
  BY <1>3, <1>5, <1>6, <1>7, <1>8

LEMMA TreatsTold ==
    ASSUME Inv, NEW r \in Reqs, Treats(r), Swept(r)
    PROVE  Told(r, calls'[r])
<1>1. AtCall(r) /\ Now(r).op \in Listing /\ calls[r].read /\ calls[r] \in States(Objs)
  BY NowIs DEF Treats, Doing, Inv
<1>2. PICK o \in calls[r].left :
         \/ Now(r).op = "sweep" /\ Writes(r, o, "none")
         \/ Now(r).op = "sweep" /\ ~There(o) /\ Goes(r, Past(calls[r], o)) /\ UNCHANGED <<cluster, faults>>
         \/ Now(r).op = "retune" /\ Writes(r, o, Updated(Now(r), o))
         \/ Refused(r, o)
  BY DEF Treats
<1>3. o \in Now(r).on /\ o \in Objs
  <2>1. o \in Now(r).on
    BY DEF Inv, Types, Listed
  <2>2. Now(r).op # "run"
    BY <1>1 DEF Listing
  <2> QED
    BY <1>1, <2>1, <2>2, NowIs DEF Inv
<1>4. CASE Now(r).op = "sweep" /\ Writes(r, o, "none")
  <2>1. "none" \in Marks
    BY DEF Marks
  <2> QED
    BY <1>1, <1>3, <1>4, <2>1, WritesTold
<1>5. CASE Now(r).op = "sweep" /\ ~There(o) /\ Goes(r, Past(calls[r], o)) /\ UNCHANGED <<cluster, faults>>
  <2> DEFINE d == Past(calls[r], o)
  <2>1. /\ d.bad = calls[r].bad
        /\ calls[r].left \subseteq {o} => d.at = calls[r].at + 1
        /\ ~(calls[r].left \subseteq {o}) => d.at = calls[r].at /\ d.left = calls[r].left \ {o}
    BY <1>1, PastIs
  <2>2. calls'[r] = d
    BY <1>5 DEF Goes, Inv, Types
  <2> HIDE DEF d
  <2>3. ~d.bad /\ ~Skips(r) => \A p \in Now(r).on : cluster'[p].mark = "casos" => p \in calls[r].left \ {o}
    BY <1>1, <1>5, <2>1 DEF Swept, There
  <2>4. Now(r).op \notin Making
    BY <1>5 DEF Making
  <2>5. CASE calls[r].left \subseteq {o}
    <3>1. ~d.bad /\ ~Skips(r) => Carried(r)
      BY <2>3, <2>4, <2>5 DEF Carried
    <3> QED
      BY <2>1, <2>2, <2>5, <3>1, NextCall DEF Told
  <2>6. CASE ~(calls[r].left \subseteq {o})
    BY <2>1, <2>2, <2>3, <2>6, NextCall DEF Told
  <2> QED
    BY <2>5, <2>6
<1>6. CASE Now(r).op = "retune" /\ Writes(r, o, Updated(Now(r), o))
  <2>1. Updated(Now(r), o) \in Marks
    BY <1>1, <1>3, UpdatedIs DEF Inv
  <2> QED
    BY <1>1, <1>3, <1>6, <2>1, WritesTold
<1>7. CASE Refused(r, o)
  BY <1>1, <1>7, RefusedTold
<1> QED
  BY <1>2, <1>4, <1>5, <1>6, <1>7

LEMMA RunsTold ==
    ASSUME Inv, NEW r \in Reqs, Runs(r), Filled(r)
    PROVE  Told(r, calls'[r])
<1>1. AtCall(r) /\ Now(r).op \in {"run", "fill"} /\ Goes(r, Passed(calls[r])) /\ UNCHANGED cluster
  BY DEF Runs, Doing
<1>2. calls[r] \in States(Objs) /\ Now(r) \in Every(ScriptOf(r))
      /\ (Now(r).op \notin Listing => Now(r).on = {Object(r)})
  BY <1>1, NowIs DEF Inv
<1>3. Now(r).op = "fill" => There(Object(r)) /\ Now(r).on = {Object(r)}
  <2> SUFFICES ASSUME Now(r).op = "fill" PROVE There(Object(r)) /\ Now(r).on = {Object(r)}
    OBVIOUS
  <2>1. Now(r).on = {Object(r)}
    BY <1>2 DEF Listing
  <2>2. calls[r].view[Object(r)] \in Seen
    BY DEF Runs, Doing, Seen
  <2> QED
    BY <1>2, <2>1, <2>2 DEF Filled
<1>4. Carried(r)
  BY <1>1, <1>3 DEF Carried, Making, Removing, There
<1> QED
  BY <1>1, <1>2, <1>4, PassedTold

LEMMA StepsTold ==
    ASSUME Inv, NEW r \in Reqs, Step(r) \/ Fails(r), Swept(r), Filled(r)
    PROVE  Told(r, calls'[r])
<1>1. ASSUME Fails(r) PROVE Told(r, calls'[r])
  <2>1. PICK o : Goes(r, Failed(calls[r], o, Now(r).err))
    BY <1>1 DEF Fails
  <2>2. AtCall(r)
    BY <1>1 DEF Fails
  <2>3. Now(r).err \in Errors /\ (Now(r).err = "skip" => Skips(r))
    BY <2>2, NowIs DEF Inv, AnyCall, Errors, Skips
  <2> QED
    BY <2>1, <2>2, <2>3, FailingTold
<1> QED
  BY <1>1, ReadsTold, CreatesTold, UpdatesTold, DeletesTold, ListsTold, TreatsTold, RunsTold DEF Step

----------------------------------------------------------------------------
(* A handler that tells: alone and undisturbed, with no error to tell, it   *)
(* has brought about what the calls behind it decide.                       *)
Stands(r, i, o) == /\ ScriptOf(r).calls[i].op \in Making => cluster[o].mark # "none"
                   /\ ScriptOf(r).calls[i].op \in Removing => cluster[o].mark # "casos"
Settles(r, n) ==
    \A i \in DOMAIN ScriptOf(r).calls : \A o \in ScriptOf(r).calls[i].on :
       Decides(ScriptOf(r), i, o) /\ i < n => Stands(r, i, o)
Follows(r) ==
    ~calls[r].bad => /\ calls[r].on # "undo"
                     /\ calls[r].on = "calls" => Settles(r, calls[r].at)
                     /\ calls[r].on = "other" => /\ Settles(r, Over)
                                                 /\ \A i \in DOMAIN ScriptOf(r).other : ScriptOf(r).other[i].op = "run"
Ended(r) == calls[r].end = "ok" => ~calls[r].bad /\ ~(calls[r].at <= Len(Calls(r)))
Tells(r) ==
    scene.who[r] \notin Forgetful /\ Alone(r) /\ Undisturbed => Filled(r) /\ Swept(r) /\ Follows(r) /\ Ended(r)
Idle == \A q \in Reqs \ Cast(scene) : calls[q].end = "idle"

LEMMA DecidedIs ==
    ASSUME scene \in Scenes, NEW r \in Reqs, NEW i \in DOMAIN ScriptOf(r).calls, NEW o \in ScriptOf(r).calls[i].on,
           Decides(ScriptOf(r), i, o)
    PROVE  o \in Objs /\ i \in Nat \ {0} /\ i < Over /\ "calls" \in Branches
<1>1. /\ "calls" \in Branches /\ ScriptOf(r).calls = ScriptOf(r)["calls"]
      /\ ScriptOf(r).calls \in Seq(AnyCall) /\ Len(ScriptOf(r).calls) < Over
  BY ScriptIs DEF Branches
<1>2. i \in 1 .. Len(ScriptOf(r).calls) /\ Len(ScriptOf(r).calls) \in Nat
  BY <1>1
<1>3. ScriptOf(r).calls[i].op # "run"
  BY DEF Decides, Making, Removing
<1>4. o \in Objects(ScriptOf(r))
  BY <1>1, <1>3 DEF Objects
<1> QED
  BY <1>1, <1>2, <1>4, ScriptIs DEF Over

LEMMA FilledObjects ==
    ASSUME scene \in Scenes, NEW r \in Reqs, NEW c \in Every(ScriptOf(r)), c.op = "fill"
    PROVE  c.on \subseteq Objs
<1>1. c.on \subseteq Objects(ScriptOf(r))
  BY DEF Every, Objects
<1> QED
  BY <1>1, ScriptIs

LEMMA FilledKept ==
    ASSUME Inv, NEW r \in Reqs, AtCall(r), StepIs(r), Inv', UNCHANGED scene, Telling(ScriptOf(r)), Filled(r)
    PROVE  Filled(r)'
<1>1. ScriptOf(r)' = ScriptOf(r) /\ Objs' = Objs
  BY DEF ScriptOf, Objs
<1> SUFFICES ASSUME NEW c \in Every(ScriptOf(r)), c.op = "fill", NEW p \in c.on, calls'[r].view[p] \in Seen
             PROVE  cluster'[p].mark # "none"
  BY <1>1 DEF Filled, There
<1>2. p \in Objs
  BY FilledObjects DEF Inv, Types
<1>3. CASE calls'[r].view[p] = "fresh"
  BY <1>1, <1>2, <1>3 DEF Inv, Fresh, There
<1>4. CASE calls[r].view[p] \in Seen
  <2>1. There(p)
    BY <1>4 DEF Filled
  <2>2. p \in Now(r).on => Now(r).op \notin Removing
    BY NowIs DEF Telling, Inv
  <2>3. Updated(Now(r), p) # "none"
    BY <1>2, <2>1, UpdatedIs DEF Inv
  <2> QED
    BY <1>2, <2>1, <2>2, <2>3 DEF StepIs, Effect, There
<1> QED
  BY <1>2, <1>3, <1>4 DEF StepIs, Learns

(* What a call behind it has decided, no later call undoes.                 *)
LEMMA StandsStill ==
    ASSUME Inv, NEW r \in Reqs, AtCall(r), StepIs(r), UNCHANGED scene, Telling(ScriptOf(r)), calls[r].on = "calls",
           NEW i \in DOMAIN ScriptOf(r).calls, NEW o \in ScriptOf(r).calls[i].on,
           Decides(ScriptOf(r), i, o), i < calls[r].at, Stands(r, i, o)
    PROVE  Stands(r, i, o)'
<1>1. ScriptOf(r)' = ScriptOf(r)
  BY DEF ScriptOf
<1>2. o \in Objs /\ i \in Nat \ {0}
  BY DecidedIs DEF Inv, Types
<1>3. calls[r].at \in DOMAIN ScriptOf(r).calls /\ Now(r) = ScriptOf(r).calls[calls[r].at]
  BY NowIs DEF Inv, Now, Calls
<1>4. calls[r].at > i
  BY <1>2, NextCall
<1>5. CASE cluster'[o] = cluster[o]
  BY <1>1, <1>5 DEF Stands
<1>6. CASE Effect(r, o)
  <2>1. calls[r].at \in CallsOn(ScriptOf(r), o)
    BY <1>3, <1>6 DEF CallsOn, Effect
  <2>2. Now(r).op \notin Making \cup Removing
    BY <1>3, <1>4, <2>1 DEF Decides
  <2>3. There(o) /\ cluster'[o].mark = Updated(Now(r), o)
    BY <1>6, <2>2 DEF Effect
  <2>4. ScriptOf(r).calls[i].op \in Removing => Now(r).update = "keep"
    BY <1>3, <1>4, <2>1 DEF Telling
  <2>5. Updated(Now(r), o) # "none"
    BY <1>2, <2>3, UpdatedIs DEF Inv
  <2> QED
    BY <1>1, <2>3, <2>4, <2>5 DEF Stands, Updated
<1> QED
  BY <1>2, <1>5, <1>6 DEF StepIs

LEMMA CarriedStands ==
    ASSUME Inv, NEW r \in Reqs, AtCall(r), UNCHANGED scene, Telling(ScriptOf(r)), calls[r].on = "calls",
           ~calls'[r].bad, calls'[r].on = "calls", calls'[r].at = calls[r].at + 1, Told(r, calls'[r]),
           NEW i \in DOMAIN ScriptOf(r).calls, i = calls[r].at, NEW o \in ScriptOf(r).calls[i].on,
           Decides(ScriptOf(r), i, o)
    PROVE  Stands(r, i, o)'
<1>1. Now(r) = ScriptOf(r).calls[i]
  BY DEF Now, Calls
<1>2. ~Skips(r)
  BY <1>1 DEF Telling, Skips
<1>3. Carried(r)
  BY <1>2 DEF Told
<1>4. ScriptOf(r)' = ScriptOf(r)
  BY DEF ScriptOf
<1> QED
  BY <1>1, <1>3, <1>4 DEF Carried, Stands

LEMMA FollowsKept ==
    ASSUME Inv, NEW r \in Reqs, AtCall(r), StepIs(r), Inv', UNCHANGED scene, Telling(ScriptOf(r)),
           Told(r, calls'[r]), Follows(r), Swept(r)
    PROVE  Follows(r)' /\ Swept(r)'
<1> DEFINE s == ScriptOf(r)
           d == calls'[r]
<1>1. s' = s /\ Position(r, d) /\ calls[r].on \in Branches
  BY NowIs DEF ScriptOf, StepIs, Inv
<1>2. /\ calls[r].at \in DOMAIN s[calls[r].on] /\ Now(r) = s[calls[r].on][calls[r].at]
  BY NowIs DEF Inv, Now, Calls
<1>3. CASE d.bad
  BY <1>3 DEF Follows, Swept
<1>4. CASE ~d.bad
  <2>1. ~calls[r].bad
    BY <1>1, <1>4 DEF Position
  <2>2. calls[r].on # "undo"
    BY <2>1 DEF Follows
  <2>3. \/ d.on = calls[r].on /\ d.at = calls[r].at
        \/ d.on = calls[r].on /\ d.at = calls[r].at + 1 /\ ~d.read
        \/ d.on = "other" /\ ~d.read /\ Diverts(Now(r), "else")
    BY <1>1, <1>4 DEF Position
  <2>4. CASE calls[r].on = "other"
    <3>1. Settles(r, Over) /\ \A i \in DOMAIN s.other : s.other[i].op = "run"
      BY <2>1, <2>4 DEF Follows
    <3>2. Now(r).op = "run"
      BY <1>2, <2>4, <3>1
    <3>3. \A p \in Objs : cluster'[p] = cluster[p]
      BY <3>2 DEF StepIs, Effect, Making, Altering, Removing
    <3>4. Settles(r, Over)'
      <4> SUFFICES ASSUME NEW i \in DOMAIN s.calls, NEW o \in s.calls[i].on, Decides(s, i, o), i < Over
                   PROVE  Stands(r, i, o)'
        BY <1>1 DEF Settles, Over
      <4>1. Stands(r, i, o)
        BY <3>1 DEF Settles
      <4>2. o \in Objs
        BY DecidedIs DEF Inv, Types
      <4> QED
        BY <1>1, <3>3, <4>1, <4>2 DEF Stands
    <3>5. d.on = "other"
      BY <2>3, <2>4
    <3>6. AtCall(r)' => Now(r)'.op = "run"
      <4>1. ASSUME AtCall(r)' PROVE d.at \in DOMAIN s.other
        <5>1. d.at \in Nat \ {0}
          BY DEF Inv, Types, States
        <5>2. s.other \in Seq(AnyCall) /\ s.other = s["other"]
          BY ScriptIs DEF Inv, Types, Branches
        <5>3. d.at <= Len(s.other)
          BY <1>1, <3>5, <4>1, <5>2 DEF AtCall, Calls
        <5> QED
          BY <5>1, <5>2, <5>3
      <4> QED
        BY <1>1, <3>1, <3>5, <4>1 DEF Now, Calls
    <3> QED
      BY <1>1, <3>1, <3>4, <3>5, <3>6 DEF Follows, Swept
  <2>5. CASE calls[r].on = "calls"
    <3>1. Settles(r, calls[r].at)
      BY <2>1, <2>5 DEF Follows
    <3>2. ASSUME NEW i \in DOMAIN s.calls, NEW o \in s.calls[i].on, Decides(s, i, o), i < calls[r].at
          PROVE  Stands(r, i, o)'
      <4>1. Stands(r, i, o)
        BY <3>1, <3>2 DEF Settles
      <4> QED
        BY <2>5, <3>2, <4>1, StandsStill
    <3>3. CASE d.on = "calls" /\ d.at = calls[r].at
      <4>1. Settles(r, calls[r].at)'
        BY <1>1, <3>2, <3>3 DEF Settles
      <4>2. Now(r)' = Now(r)
        BY <1>1, <2>5, <3>3 DEF Now, Calls
      <4>3. Swept(r)'
        BY <1>4, <2>5, <3>3, <4>2 DEF Swept, Skips, Told
      <4> QED
        BY <3>3, <4>1, <4>3 DEF Follows
    <3>4. CASE d.on = "calls" /\ d.at = calls[r].at + 1 /\ ~d.read
      <4>1. ASSUME NEW i \in DOMAIN s.calls, NEW o \in s.calls[i].on, Decides(s, i, o), i < d.at
            PROVE  Stands(r, i, o)'
        <5>1. i \in Nat /\ calls[r].at \in Nat
          BY <4>1, DecidedIs, NextCall DEF Inv, Types
        <5>2. i < calls[r].at \/ i = calls[r].at
          BY <3>4, <4>1, <5>1
        <5>3. CASE i = calls[r].at
          BY <1>4, <2>5, <3>4, <4>1, <5>3, CarriedStands
        <5> QED
          BY <3>2, <4>1, <5>2, <5>3
      <4>2. Settles(r, calls[r].at)'
        BY <1>1, <4>1 DEF Settles
      <4> QED
        BY <3>4, <4>2 DEF Follows, Swept
    <3>5. CASE d.on = "other" /\ ~d.read /\ Diverts(Now(r), "else")
      <4>1. /\ calls[r].at \in DOMAIN s.calls /\ Diverts(s.calls[calls[r].at], "else")
        BY <1>2, <2>5, <3>5
      <4>2. ASSUME NEW i \in DOMAIN s.calls, NEW o \in s.calls[i].on, Decides(s, i, o)
            PROVE  Stands(r, i, o)'
        <5>1. calls[r].at > i
          BY <4>1, <4>2 DEF Telling
        <5>2. i < calls[r].at
          BY <4>2, <5>1, DecidedIs, NextCall DEF Inv, Types
        <5> QED
          BY <3>2, <4>2, <5>2
      <4>3. Settles(r, Over)'
        BY <1>1, <4>2 DEF Settles
      <4>4. \A i \in DOMAIN s.other : s.other[i].op = "run"
        BY <4>1 DEF Telling
      <4> QED
        BY <1>1, <3>5, <4>3, <4>4 DEF Follows, Swept
    <3> QED
      BY <2>3, <2>5, <3>3, <3>4, <3>5
  <2> QED
    BY <1>1, <2>2, <2>4, <2>5 DEF Branches
<1> QED
  BY <1>3, <1>4

LEMMA TellsStep ==
    ASSUME Careful, Inv, Idle, NEW r \in Reqs, Step(r) \/ Fails(r), Inv', StepIs(r), AtCall(r),
           UNCHANGED <<scene, meddles>>, \A q \in Reqs : Tells(q)
    PROVE  Idle' /\ \A q \in Reqs : Tells(q)'
<1>1. Cast(scene)' = Cast(scene) /\ calls[r].end = "running" /\ r \in Cast(scene) /\ calls'[r].end = "running"
  BY DEF Idle, AtCall, Running, Cast, StepIs
<1>2. Idle'
  BY <1>1 DEF Idle, StepIs, Bystander
<1>3. \A q \in Reqs \ {r} : Tells(q)'
  BY <1>1 DEF Tells, Alone
<1>4. Tells(r)'
  <2> SUFFICES ASSUME scene.who[r] \notin Forgetful, Alone(r), Undisturbed
               PROVE  Filled(r)' /\ Swept(r)' /\ Follows(r)' /\ Ended(r)'
    BY <1>1 DEF Tells, Alone, Undisturbed
  <2>1. Telling(ScriptOf(r))
    BY DEF Careful, CarefulIn, ScriptOf, Inv, Types
  <2>2. Filled(r) /\ Swept(r) /\ Follows(r)
    BY DEF Tells
  <2>3. Filled(r)'
    BY <2>1, <2>2, FilledKept
  <2>4. Told(r, calls'[r])
    BY <2>2, StepsTold
  <2>5. Swept(r)' /\ Follows(r)'
    BY <2>1, <2>2, <2>4, FollowsKept
  <2>6. Ended(r)'
    BY <1>1 DEF Ended
  <2> QED
    BY <2>3, <2>5, <2>6
<1> QED
  BY <1>2, <1>3, <1>4

LEMMA TellsAgain ==
    ASSUME Inv, Idle, NEW r \in Reqs, Again(r), UNCHANGED <<scene, cluster, meddles>>, \A q \in Reqs : Tells(q)
    PROVE  Idle' /\ \A q \in Reqs : Tells(q)'
<1>1. calls' = [calls EXCEPT ![r] = Ready(scene, r)] /\ calls \in [Reqs -> States(Objs)] /\ scene \in Scenes
  BY AgainKeeps DEF Inv, Types
<1>2. /\ calls'[r].at = 1 /\ ~calls'[r].read /\ calls'[r].on = "calls" /\ ~calls'[r].bad
      /\ calls'[r].end \in {"idle", "running"} /\ \A o \in Objs : calls'[r].view[o] = "unread"
  BY <1>1, ReadyIs
<1>3. r \in Cast(scene) /\ Cast(scene)' = Cast(scene) /\ ScriptOf(r)' = ScriptOf(r)
  BY DEF Again, Idle, Cast, ScriptOf
<1>4. Idle'
  BY <1>1, <1>3 DEF Idle
<1>5. \A q \in Reqs \ {r} : Tells(q)'
  BY <1>3 DEF Tells, Alone
<1>6. Tells(r)'
  <2>1. Filled(r)'
    BY <1>1, <1>2, <1>3, FilledObjects DEF Filled, Seen
  <2>2. Swept(r)' /\ Ended(r)'
    BY <1>2 DEF Swept, Ended
  <2>3. Settles(r, calls[r].at)'
    <3>1. \A i \in DOMAIN ScriptOf(r).calls : \A o \in ScriptOf(r).calls[i].on :
             Decides(ScriptOf(r), i, o) => ~(i < 1)
      BY <1>1, DecidedIs
    <3> QED
      BY <1>2, <1>3, <3>1 DEF Settles
  <2> QED
    BY <1>2, <2>1, <2>2, <2>3 DEF Tells, Follows
<1> QED
  BY <1>4, <1>5, <1>6

LEMMA TellsEnds ==
    ASSUME Inv, Idle, UNCHANGED <<scene, cluster, meddles>>, \A q \in Reqs : Tells(q),
           \A q \in Reqs : /\ calls'[q].at = calls[q].at /\ calls'[q].on = calls[q].on
                           /\ calls'[q].read = calls[q].read /\ calls'[q].left = calls[q].left
                           /\ calls'[q].view = calls[q].view /\ calls'[q].bad = calls[q].bad,
           \A q \in Reqs : \/ calls'[q].end = calls[q].end
                           \/ Running(q) /\ calls'[q].end \in {"fail", "lost"}
                           \/ Running(q) /\ ~AtCall(q) /\ ~calls[q].bad /\ calls'[q].end = "ok"
    PROVE  Idle' /\ \A q \in Reqs : Tells(q)'
<1>1. Cast(scene)' = Cast(scene)
  BY DEF Cast
<1>2. Idle'
  BY <1>1 DEF Idle, Running
<1> SUFFICES ASSUME NEW q \in Reqs PROVE Tells(q)'
  BY <1>2
<1>3. /\ ScriptOf(q)' = ScriptOf(q) /\ Now(q)' = Now(q) /\ Calls(q)' = Calls(q)
      /\ (AtCall(q)' => AtCall(q)) /\ (Alone(q)' <=> Alone(q)) /\ (Undisturbed' <=> Undisturbed)
  BY <1>1 DEF ScriptOf, Now, Calls, AtCall, Running, Alone, Undisturbed
<1>4. Filled(q) => Filled(q)'
  BY <1>3 DEF Filled, There
<1>5. Swept(q) => Swept(q)'
  BY <1>3 DEF Swept, Skips
<1>6. Follows(q) => Follows(q)'
  BY <1>3 DEF Follows, Settles, Stands
<1>7. Ended(q) => Ended(q)'
  BY <1>3 DEF Ended, AtCall, Running
<1> QED
  BY <1>3, <1>4, <1>5, <1>6, <1>7 DEF Tells

LEMMA TellsKept ==
    ASSUME Careful, Inv, Idle, [Next]_vars, \A q \in Reqs : Tells(q)
    PROVE  Idle' /\ \A q \in Reqs : Tells(q)'
<1>1. ASSUME NEW o \in Objs, Meddle(o) PROVE Idle' /\ \A q \in Reqs : Tells(q)'
  <2>1. meddles \in Int /\ meddles <= scene.meddles /\ scene.meddles \in Nat
    BY ScenesAssumption DEF Inv, Types
  <2>2. UNCHANGED scene /\ meddles' = meddles - 1 /\ \A q \in Reqs : calls'[q].end = calls[q].end
    BY <1>1, MeddleKeeps DEF Bystander
  <2>3. meddles - 1 # scene.meddles
    BY <2>1
  <2>4. ~Undisturbed' /\ Idle'
    BY <2>2, <2>3 DEF Undisturbed, Idle, Cast
  <2> QED
    BY <2>4 DEF Tells
<1>2. ASSUME UNCHANGED <<scene, cluster, meddles>>,
             \A q \in Reqs : /\ calls'[q].at = calls[q].at /\ calls'[q].on = calls[q].on
                             /\ calls'[q].read = calls[q].read /\ calls'[q].left = calls[q].left
                             /\ calls'[q].view = calls[q].view /\ calls'[q].bad = calls[q].bad,
             (\E r \in Reqs : Answers(r)) \/ (\A q \in Reqs : calls'[q].end = calls[q].end \/ (Running(q) /\ calls'[q].end = "lost"))
      PROVE  Idle' /\ \A q \in Reqs : Tells(q)'
  <2>1. CASE \E r \in Reqs : Answers(r)
    <3>1. PICK r \in Reqs : Answers(r)
      BY <2>1
    <3> DEFINE e == IF calls[r].bad THEN "fail" ELSE "ok"
    <3>2. calls' = [calls EXCEPT ![r] = [calls[r] EXCEPT !.end = e]] /\ Running(r) /\ ~AtCall(r)
      BY <3>1 DEF Answers, Inv, Types
    <3>3. \A c \in States(Objs) : \A x : [c EXCEPT !.end = x].end = x
      BY DEF States
    <3>4. calls'[r].end = e /\ \A q \in Reqs \ {r} : calls'[q].end = calls[q].end
      BY <3>2, <3>3 DEF Inv, Types
    <3>5. \A q \in Reqs :
             \/ calls'[q].end = calls[q].end
             \/ Running(q) /\ calls'[q].end \in {"fail", "lost"}
             \/ Running(q) /\ ~AtCall(q) /\ ~calls[q].bad /\ calls'[q].end = "ok"
      BY <3>2, <3>4
    <3> QED
      BY <1>2, <3>5, TellsEnds
  <2>2. CASE \A q \in Reqs : calls'[q].end = calls[q].end \/ (Running(q) /\ calls'[q].end = "lost")
    BY <1>2, <2>2, TellsEnds
  <2> QED
    BY <1>2, <2>1, <2>2
<1> QED
  BY <1>1, <1>2, NextIs, TellsStep, TellsAgain

(* What a handler has answered "ok" to, when nobody else interfered, is so: *)
(* all it makes is there and all it removes is gone, however many calls     *)
(* failed or lost their answers, and however often it was asked before, for *)
(* every script that passes no error over.                                  *)
THEOREM OkAlwaysMeansDone ==
    ASSUME Careful
    PROVE  Spec => []OkMeansDone
<1> DEFINE All == Inv /\ Idle /\ \A r \in Reqs : Tells(r)
<1>1. Init => All
  <2> SUFFICES ASSUME Init PROVE All
    OBVIOUS
  <2>1. Inv /\ scene \in Scenes
    BY InitIs DEF Init
  <2>2. \A r \in Reqs :
           /\ calls[r].at = 1 /\ ~calls[r].read /\ calls[r].on = "calls" /\ ~calls[r].bad
           /\ calls[r].end \in {"idle", "running"} /\ (calls[r].end = "running" => r \in Cast(scene))
           /\ \A o \in Objs : calls[r].view[o] = "unread"
    BY <2>1, ReadyIs DEF Init
  <2>3. Idle
    BY <2>2 DEF Idle
  <2>4. ASSUME NEW r \in Reqs PROVE Tells(r)
    <3>1. Filled(r)
      BY <2>1, <2>2, FilledObjects DEF Filled, Seen
    <3>2. Swept(r) /\ Ended(r)
      BY <2>2 DEF Swept, Ended
    <3>3. \A i \in DOMAIN ScriptOf(r).calls : \A o \in ScriptOf(r).calls[i].on :
             Decides(ScriptOf(r), i, o) => ~(i < 1)
      BY <2>1, DecidedIs
    <3> QED
      BY <2>2, <3>1, <3>2, <3>3 DEF Tells, Follows, Settles
  <2> QED
    BY <2>1, <2>3, <2>4
<1>2. All /\ [Next]_vars => All'
  BY TellsKept, NextIs, MeddleKeeps
<1>3. All => OkMeansDone
  <2> SUFFICES ASSUME All, NEW r \in Cast(scene), Done(r), Alone(r), Undisturbed, scene.who[r] \notin Forgetful
               PROVE  Reached(r)
    BY DEF OkMeansDone
  <2>1. r \in Reqs /\ scene \in Scenes
    BY DEF Cast, Inv, Types
  <2>2. Follows(r) /\ ~calls[r].bad /\ ~(calls[r].at <= Len(Calls(r)))
    BY <2>1 DEF Tells, Ended, Done
  <2>3. ASSUME NEW i \in DOMAIN ScriptOf(r).calls, NEW o \in ScriptOf(r).calls[i].on, Decides(ScriptOf(r), i, o)
        PROVE  Stands(r, i, o)
    <3>1. i \in Nat /\ i < Over /\ "calls" \in Branches /\ calls[r].at \in Nat
      BY <2>1, <2>3, DecidedIs, NextCall
    <3>2. ScriptOf(r)["calls"] \in Seq(AnyCall)
      BY <2>1, <3>1, ScriptIs
    <3>3. CASE calls[r].on = "calls"
      <4>1. i <= Len(Calls(r)) /\ Len(Calls(r)) \in Nat
        BY <3>1, <3>2, <3>3 DEF Calls
      <4>2. i < calls[r].at
        BY <2>2, <3>1, <4>1
      <4> QED
        BY <2>2, <2>3, <3>3, <4>2 DEF Follows, Settles
    <3>4. CASE calls[r].on = "other"
      BY <2>2, <2>3, <3>1, <3>4 DEF Follows, Settles
    <3> QED
      BY <2>1, <2>2, <3>3, <3>4, NextCall DEF Follows, States, Branches
  <2>4. \A o \in Leaves(ScriptOf(r)) : There(o)
    BY <2>3 DEF Leaves, LastIs, CallsOn, Decides, Stands, There
  <2>5. \A o \in Takes(ScriptOf(r)) : cluster[o].mark # "casos"
    BY <2>3 DEF Takes, LastIs, CallsOn, Decides, Stands
  <2> QED
    BY <2>4, <2>5 DEF Reached
<1> QED
  BY <1>1, <1>2, <1>3, PTL DEF Spec

----------------------------------------------------------------------------
(* What a request is about to remove because it has seen that it is casos'  *)
(* own is not somebody else's, unless it has changed since.                 *)
Looked(r) == IF Now(r).op = "shed" THEN Now(r).on ELSE calls[r].left
Sure(r) ==
    AtCall(r) /\ calls[r].read /\ Now(r).op \in {"shed", "sweep"} =>
       \A o \in Looked(r) : \/ calls[r].view[o] = "stale"
                            \/ calls[r].view[o] = "fresh" /\ cluster[o].mark # "foreign"

(* A request that goes on has read nothing yet for its next call.           *)
LEMMA SureAt ==
    ASSUME Inv, Inv', NEW r \in Reqs, AtCall(r), StepIs(r), UNCHANGED scene,
           calls'[r].read /\ calls'[r].on = calls[r].on /\ calls'[r].at = calls[r].at /\ Now(r).op \in {"shed", "sweep"} =>
              \A o \in IF Now(r).op = "shed" THEN Now(r).on ELSE calls'[r].left :
                 \/ calls'[r].view[o] = "stale"
                 \/ calls'[r].view[o] = "fresh" /\ cluster'[o].mark # "foreign"
    PROVE  Sure(r)'
<1>1. SUFFICES ASSUME AtCall(r)', calls'[r].read, Now(r)'.op \in {"shed", "sweep"}
               PROVE  \A o \in Looked(r)' : \/ calls'[r].view[o] = "stale"
                                            \/ calls'[r].view[o] = "fresh" /\ cluster'[o].mark # "foreign"
  BY DEF Sure
<1>2. calls'[r].at # Over
  <2>1. calls'[r].at <= Len(ScriptOf(r)[calls'[r].on])
    BY <1>1 DEF AtCall, Calls, ScriptOf
  <2>2. calls'[r].on \in Branches
    BY DEF Inv, Types, States
  <2>3. Len(ScriptOf(r)[calls'[r].on]) < Over /\ Len(ScriptOf(r)[calls'[r].on]) \in Nat
    BY <2>2, ScriptIs DEF Inv, Types
  <2> QED
    BY <2>1, <2>3 DEF Over
<1>3. calls'[r].on = calls[r].on /\ calls'[r].at = calls[r].at
  BY <1>1, <1>2 DEF StepIs, Position
<1>4. Now(r)' = Now(r)
  BY <1>3 DEF Now, Calls, ScriptOf
<1> QED
  BY <1>1, <1>3, <1>4 DEF Looked

(* An error, or the end of the call for one object, leaves nothing read, or  *)
(* the other objects listed.                                                *)
LEMMA FailedLeft ==
    ASSUME NEW D, NEW c \in States(D), NEW o, NEW err \in Errors
    PROVE  LET d == Failed(c, o, err) IN
           d.read /\ d.at = c.at /\ d.at # Over => c.read /\ ~(c.left \subseteq {o}) /\ d.left = c.left \ {o}
<1> DEFINE d == Failed(c, o, err)
<1>1. "undo" \in Branches /\ "other" \in Branches
  BY DEF Branches
<1>2. \A b \in States(D) : LET e == [b EXCEPT !.bad = TRUE] IN
         e.at = b.at /\ e.read = b.read /\ e.left = b.left
  BY DEF States
<1>3. CASE err = "stop"
  BY <1>3, StoppedIs DEF Failed
<1>4. CASE err = "undo"
  <2> DEFINE t == Turns(c, "undo")
  <2>1. t \in States(D) /\ ~t.read
    BY <1>1, TurnsIs
  <2>2. d = [t EXCEPT !.bad = TRUE]
    BY <1>4 DEF Failed
  <2> HIDE DEF t, d
  <2> QED
    BY <1>2, <2>1, <2>2 DEF d
<1>5. CASE err = "else"
  BY <1>1, <1>5, TurnsIs DEF Failed
<1>6. CASE err = "skip"
  BY <1>6, PastIs DEF Failed
<1>7. CASE err = "note"
  <2> DEFINE t == Past(c, o)
  <2>1. /\ t \in States(D) /\ (c.left \subseteq {o} => ~t.read)
        /\ ~(c.left \subseteq {o}) => t.read = c.read /\ t.left = c.left \ {o}
    BY PastIs
  <2>2. d = [t EXCEPT !.bad = TRUE]
    BY <1>7 DEF Failed
  <2> HIDE DEF t, d
  <2> QED
    BY <1>2, <2>1, <2>2 DEF d
<1> QED
  BY <1>3, <1>4, <1>5, <1>6, <1>7 DEF Errors

(* A step that is over for one object leaves the others as they were.       *)
LEMMA SureLess ==
    ASSUME Inv, Inv', NEW r \in Reqs, AtCall(r), StepIs(r), UNCHANGED scene, Sure(r), NEW o,
           calls'[r].read /\ calls'[r].at = calls[r].at /\ calls[r].at # Over =>
              calls[r].read /\ ~(calls[r].left \subseteq {o}) /\ calls'[r].left = calls[r].left \ {o},
           \A p \in Objs \ {o} : calls'[r].view[p] = calls[r].view[p] /\ cluster'[p] = cluster[p]
    PROVE  Sure(r)'
<1>1. SUFFICES ASSUME calls'[r].read, calls'[r].on = calls[r].on, calls'[r].at = calls[r].at,
                      Now(r).op \in {"shed", "sweep"},
                      NEW p \in IF Now(r).op = "shed" THEN Now(r).on ELSE calls'[r].left
               PROVE  \/ calls'[r].view[p] = "stale"
                      \/ calls'[r].view[p] = "fresh" /\ cluster'[p].mark # "foreign"
  BY SureAt
<1>2. calls[r].at # Over
  <2>1. calls[r].at <= Len(ScriptOf(r)[calls[r].on]) /\ calls[r].on \in Branches
    BY NowIs DEF Inv, AtCall, Calls
  <2>2. Len(ScriptOf(r)[calls[r].on]) < Over /\ Len(ScriptOf(r)[calls[r].on]) \in Nat
    BY <2>1, ScriptIs DEF Inv, Types
  <2> QED
    BY <2>1, <2>2 DEF Over
<1>3. calls[r].read /\ calls[r].left # {} /\ calls'[r].left = calls[r].left \ {o}
  BY <1>1, <1>2
<1>4. Now(r).op = "sweep"
  BY <1>1, <1>3, NowIs DEF Inv, Listing
<1>5. p \in Objs /\ p # o /\ p \in calls[r].left
  BY <1>1, <1>3, <1>4 DEF Inv, Types, States
<1>6. calls[r].view[p] = "stale" \/ (calls[r].view[p] = "fresh" /\ cluster[p].mark # "foreign")
  BY <1>3, <1>4, <1>5 DEF Sure, Looked
<1> QED
  BY <1>5, <1>6

LEMMA SureFailed ==
    ASSUME Inv, Inv', NEW r \in Reqs, AtCall(r), StepIs(r), UNCHANGED <<scene, cluster>>, Sure(r), NEW o,
           NEW err \in Errors, Goes(r, Failed(calls[r], o, err))
    PROVE  Sure(r)'
<1> DEFINE d == Failed(calls[r], o, err)
<1>1. calls[r] \in States(Objs) /\ calls'[r] = d
  BY DEF Inv, Types, Goes
<1>2. d.view = calls[r].view
  BY <1>1, FailedIs
<1>3. d.read /\ d.at = calls[r].at /\ d.at # Over =>
         calls[r].read /\ ~(calls[r].left \subseteq {o}) /\ d.left = calls[r].left \ {o}
  BY <1>1, FailedLeft
<1> HIDE DEF d
<1> QED
  BY <1>1, <1>2, <1>3, SureLess

LEMMA SurePassed ==
    ASSUME Inv, Inv', NEW r \in Reqs, AtCall(r), StepIs(r), UNCHANGED <<scene, cluster>>, ~calls'[r].read
    PROVE  Sure(r)'
BY SureAt

(* After a write, whether its answer arrives or not.                        *)
LEMMA SureWrites ==
    ASSUME Inv, Inv', NEW r \in Reqs, AtCall(r), StepIs(r), UNCHANGED scene, Sure(r), NEW o \in Objs,
           NEW mark \in Marks, Writes(r, o, mark)
    PROVE  Sure(r)'
<1> DEFINE old == Outdated(calls, o)
           v   == IF mark = "none" THEN "absent" ELSE "fresh"
           e   == Knows(calls[r], o, v)
<1>1. calls[r] \in States(Objs) /\ calls \in [Reqs -> States(Objs)] /\ v \in Known
  BY DEF Inv, Types, Known
<1>2. /\ old \in [Reqs -> States(Objs)] /\ old[r] \in States(Objs) /\ old[r].at = calls[r].at
      /\ old[r].read = calls[r].read /\ old[r].left = calls[r].left
      /\ \A p \in Objs \ {o} : old[r].view[p] = calls[r].view[p]
  BY <1>1, OutdatedIs
<1>3. /\ e \in States(Objs) /\ e.at = calls[r].at /\ e.read = calls[r].read /\ e.left = calls[r].left
      /\ \A p \in Objs \ {o} : e.view[p] = calls[r].view[p]
  <2>1. calls[r].view \in [Objs -> Known]
    BY <1>1 DEF States
  <2>2. /\ e \in States(Objs) /\ e.at = calls[r].at /\ e.read = calls[r].read /\ e.left = calls[r].left
        /\ e.view = [calls[r].view EXCEPT ![o] = v]
    BY <1>1, KnowsIs
  <2> HIDE DEF e, v
  <2> QED
    BY <2>1, <2>2
<1>4. \A p \in Objs \ {o} : cluster'[p] = cluster[p]
  BY DEF Writes, Inv, Types
<1>5. Now(r).err \in Errors
  BY NowIs DEF Inv, AnyCall, Errors
<1>6. \/ calls' = [old EXCEPT ![r] = Failed(e, o, "skip")]
      \/ calls' = [old EXCEPT ![r] = Failed(old[r], o, Now(r).err)]
  BY DEF Writes, Failed
<1> HIDE DEF old, e, v
<1>7. ASSUME NEW c \in States(Objs), NEW err \in Errors, calls' = [old EXCEPT ![r] = Failed(c, o, err)],
             c.at = calls[r].at, c.read = calls[r].read, c.left = calls[r].left,
             \A p \in Objs \ {o} : c.view[p] = calls[r].view[p]
      PROVE  Sure(r)'
  <2> DEFINE d == Failed(c, o, err)
  <2>1. calls'[r] = d
    BY <1>2, <1>7
  <2>2. d.view = c.view
    BY FailedIs
  <2>3. d.read /\ d.at = c.at /\ d.at # Over => c.read /\ ~(c.left \subseteq {o}) /\ d.left = c.left \ {o}
    BY FailedLeft
  <2> HIDE DEF d
  <2> QED
    BY <1>4, <1>7, <2>1, <2>2, <2>3, SureLess
<1>8. "skip" \in Errors
  BY DEF Errors
<1> QED
  BY <1>2, <1>3, <1>5, <1>6, <1>7, <1>8

LEMMA SureStep ==
    ASSUME Inv, NEW r \in Reqs, Step(r) \/ Fails(r), Sure(r)
    PROVE  Sure(r)'
<1>1. Inv' /\ StepIs(r) /\ AtCall(r) /\ UNCHANGED scene
  BY StepsAre
<1>2. calls[r] \in States(Objs) /\ Now(r) \in AnyCall /\ calls \in [Reqs -> States(Objs)]
  BY <1>1, NowIs DEF Inv, Types
<1>3. Now(r).err \in Errors /\ Now(r).list \in Errors /\ "skip" \in Errors /\ "none" \in Marks
  BY <1>2 DEF AnyCall, Errors, Marks
<1>4. CASE Now(r).op \notin {"shed", "sweep"}
  BY <1>1, <1>4, SureAt
<1>5. ASSUME NEW o, NEW err \in Errors, Goes(r, Failed(calls[r], o, err)), UNCHANGED cluster PROVE Sure(r)'
  BY <1>1, <1>5, SureFailed
<1>6. ASSUME Goes(r, Passed(calls[r])), UNCHANGED cluster PROVE Sure(r)'
  <2>1. ~calls'[r].read
    BY <1>2, <1>6, PassedIs DEF Goes
  <2> QED
    BY <1>1, <1>6, <2>1, SurePassed
<1>7. ASSUME NEW o \in Objs, Writes(r, o, "none") PROVE Sure(r)'
  BY <1>1, <1>3, <1>7, SureWrites
<1>8. ASSUME NEW o, Refused(r, o) PROVE Sure(r)'
  BY <1>3, <1>5, <1>8 DEF Refused
<1>9. CASE Fails(r)
  <2>1. PICK o : Goes(r, Failed(calls[r], o, Now(r).err)) /\ UNCHANGED cluster
    BY <1>9 DEF Fails
  <2> QED
    BY <1>3, <1>5, <2>1
<1>10. CASE Reads(r) /\ Now(r).op = "shed"
  <2> DEFINE o == Object(r)
             v == IF There(o) THEN "fresh" ELSE "absent"
             seen == Knows(calls[r], o, v)
             ready == [seen EXCEPT !.read = TRUE]
  <2>1. UNCHANGED cluster /\ o \in Objs /\ Now(r).on = {o}
    BY <1>1, <1>10, NowIs DEF Reads, Inv, Listing
  <2>2. v \in Known /\ seen \in States(Objs) /\ seen.view = [calls[r].view EXCEPT ![o] = v]
    <3>1. v \in Known
      BY DEF Known
    <3> HIDE DEF v, o
    <3> QED
      BY <1>2, <2>1, <3>1, KnowsIs
  <2>3. Now(r).theirs \in {"take", "refuse", "else", "spare"}
    BY <1>2 DEF AnyCall
  <2>4. \/ \E err \in {"skip", "else", Now(r).err} : Goes(r, Failed(calls[r], o, err))
        \/ Goes(r, Passed(seen))
        \/ Goes(r, ready) /\ cluster[o].mark = "casos"
    BY <1>10, <2>3 DEF Reads
  <2>5. CASE \E err \in {"skip", "else", Now(r).err} : Goes(r, Failed(calls[r], o, err))
    <3>1. "else" \in Errors
      BY DEF Errors
    <3> QED
      BY <1>3, <1>5, <2>1, <2>5, <3>1
  <2>6. CASE Goes(r, Passed(seen))
    <3> HIDE DEF seen
    <3>1. calls'[r] = Passed(seen)
      BY <1>2, <2>6 DEF Goes
    <3>2. ~calls'[r].read
      BY <2>2, <3>1, PassedIs
    <3> QED
      BY <1>1, <2>1, <3>2, SurePassed
  <2>7. CASE Goes(r, ready) /\ cluster[o].mark = "casos"
    <3>1. v = "fresh"
      BY <2>7 DEF There
    <3>2. seen.view[o] = "fresh"
      <4>1. calls[r].view \in [Objs -> Known]
        BY <1>2 DEF States
      <4> HIDE DEF seen, v, o
      <4> QED
        BY <2>1, <2>2, <3>1, <4>1
    <3> HIDE DEF seen, v
    <3>3. ready.view = seen.view
      BY <2>2 DEF States
    <3>4. calls'[r] = ready
      BY <1>2, <2>7 DEF Goes
    <3> HIDE DEF ready, o
    <3> QED
      BY <1>1, <1>10, <2>1, <2>7, <3>2, <3>3, <3>4, SureAt
  <2> QED
    BY <2>4, <2>5, <2>6, <2>7
<1>11. CASE Deletes(r) /\ Now(r).op = "shed"
  <2>1. Object(r) \in Objs
    BY <1>1, <1>11, NowIs DEF Inv
  <2>2. \/ Writes(r, Object(r), "none")
        \/ Goes(r, Passed(calls[r])) /\ UNCHANGED cluster
        \/ Refused(r, Object(r)) /\ UNCHANGED cluster
    BY <1>11 DEF Deletes, Refused
  <2> QED
    BY <1>6, <1>7, <1>8, <2>1, <2>2
<1>12. CASE Lists(r) /\ Now(r).op = "sweep"
  <2> DEFINE found == {o \in Now(r).on : cluster[o].mark = "casos"}
             seen  == [o \in DOMAIN calls[r].view |-> IF o \in found THEN "fresh" ELSE calls[r].view[o]]
             known == [calls[r] EXCEPT !.read = TRUE, !.left = found, !.view = seen]
  <2>1. UNCHANGED cluster
    BY <1>12 DEF Lists
  <2>2. \/ Goes(r, known)
        \/ Goes(r, Stopped(calls[r]))
        \/ Goes(r, Passed(calls[r]))
        \/ Goes(r, Failed(calls[r], Object(r), Now(r).list))
    BY <1>12 DEF Lists
  <2>3. Stopped(calls[r]) = Failed(calls[r], Object(r), "stop") /\ "stop" \in Errors
    BY DEF Failed, Errors
  <2>4. CASE Goes(r, known)
    <3>1. Now(r).on \subseteq Objs
      BY <1>1, <1>12, NowIs DEF Inv
    <3>2. \A p \in found : p \in Objs /\ cluster[p].mark # "foreign" /\ seen[p] = "fresh"
      <4>1. DOMAIN calls[r].view = Objs
        BY <1>2 DEF States
      <4> QED
        BY <3>1, <4>1
    <3> HIDE DEF found, seen
    <3>3. known.left = found /\ known.view = seen
      BY <1>2 DEF States
    <3>4. calls'[r] = known
      BY <1>2, <2>4 DEF Goes
    <3> HIDE DEF known
    <3> QED
      BY <1>1, <1>12, <2>1, <3>2, <3>3, <3>4, SureAt
  <2> QED
    BY <1>3, <1>5, <1>6, <2>1, <2>2, <2>3, <2>4
<1>13. CASE Treats(r) /\ Now(r).op = "sweep"
  <2>1. PICK o \in calls[r].left :
           \/ Writes(r, o, "none")
           \/ Goes(r, Past(calls[r], o)) /\ UNCHANGED cluster
           \/ Refused(r, o) /\ UNCHANGED cluster
    BY <1>13 DEF Treats
  <2>2. o \in Objs
    BY <1>2 DEF States
  <2>3. Past(calls[r], o) = Failed(calls[r], o, "skip")
    BY DEF Failed
  <2> QED
    BY <1>3, <1>5, <1>7, <1>8, <2>1, <2>2, <2>3
<1>14. CASE Creates(r) \/ Updates(r) \/ Runs(r)
  BY <1>4, <1>14 DEF Creates, Updates, Runs, Doing
<1>15. CASE Now(r).op \in {"shed", "sweep"} /\ Step(r)
  <2>1. \/ Reads(r) /\ Now(r).op \in Reading
        \/ Deletes(r) /\ Now(r).op \in {"drop", "clear", "shed"}
        \/ Lists(r) /\ Now(r).op \in Listing
        \/ Treats(r) /\ Now(r).op \in Listing
        \/ Creates(r) \/ Updates(r) \/ Runs(r)
    BY <1>15 DEF Step, Reads, Deletes, Lists, Treats, Doing
  <2> QED
    BY <1>10, <1>11, <1>12, <1>13, <1>14, <1>15, <2>1 DEF Reading, Listing
<1> QED
  BY <1>4, <1>9, <1>15

LEMMA SureStays ==
    ASSUME Inv, NEW r \in Reqs, Sure(r), UNCHANGED scene, Bystander(calls[r], calls'[r]), Latest(r)
    PROVE  Sure(r)'
<1>1. SUFFICES ASSUME AtCall(r)', calls'[r].read, Now(r)'.op \in {"shed", "sweep"}, NEW o \in Looked(r)'
               PROVE  \/ calls'[r].view[o] = "stale"
                      \/ calls'[r].view[o] = "fresh" /\ cluster'[o].mark # "foreign"
  BY DEF Sure
<1>2. /\ calls'[r].at = calls[r].at /\ calls'[r].read = calls[r].read /\ calls'[r].left = calls[r].left
      /\ calls'[r].on = calls[r].on /\ calls'[r].end = calls[r].end
  BY DEF Bystander
<1>3. Calls(r)' = Calls(r) /\ Now(r)' = Now(r) /\ Looked(r)' = Looked(r) /\ AtCall(r)
  BY <1>1, <1>2 DEF Calls, Now, ScriptOf, Looked, AtCall, Running
<1>4. o \in Objs
  BY <1>1, <1>3, NowIs DEF Inv, Types, States, Looked
<1>5. calls[r].view[o] = "stale" \/ (calls[r].view[o] = "fresh" /\ cluster[o].mark # "foreign")
  BY <1>1, <1>2, <1>3 DEF Sure
<1> QED
  BY <1>4, <1>5 DEF Bystander, Latest

LEMMA SureKept ==
    ASSUME Inv, [Next]_vars, \A r \in Reqs : Sure(r)
    PROVE  \A r \in Reqs : Sure(r)'
<1>1. ASSUME NEW r \in Reqs, Step(r) \/ Fails(r) PROVE \A q \in Reqs : Sure(q)'
  <2>1. StepIs(r) /\ UNCHANGED scene
    BY <1>1, StepsAre
  <2>2. \A q \in Reqs \ {r} : Sure(q)'
    BY <2>1, SureStays DEF StepIs
  <2> QED
    BY <1>1, <2>2, SureStep
<1>2. ASSUME NEW r \in Reqs, Again(r) PROVE \A q \in Reqs : Sure(q)'
  <2>1. /\ calls' = [calls EXCEPT ![r] = Ready(scene, r)] /\ UNCHANGED <<scene, cluster>>
        /\ calls \in [Reqs -> States(Objs)] /\ scene \in Scenes
    BY <1>2, AgainKeeps DEF Inv, Types
  <2>2. ~calls'[r].read
    BY <2>1, ReadyIs
  <2>3. \A q \in Reqs \ {r} : calls'[q] = calls[q]
    BY <2>1
  <2> QED
    BY <2>1, <2>2, <2>3 DEF Sure, Looked, AtCall, Running, Now, Calls, ScriptOf
<1>3. ASSUME NEW o \in Objs, Meddle(o) PROVE \A q \in Reqs : Sure(q)'
  BY <1>3, MeddleKeeps, SureStays
<1>4. ASSUME UNCHANGED <<scene, cluster>>,
             \A q \in Reqs : /\ calls'[q].at = calls[q].at /\ calls'[q].on = calls[q].on
                             /\ calls'[q].read = calls[q].read /\ calls'[q].left = calls[q].left
                             /\ calls'[q].view = calls[q].view,
             \A q \in Reqs : calls'[q].end = "running" => calls[q].end = "running"
      PROVE  \A q \in Reqs : Sure(q)'
  BY <1>4 DEF Sure, Looked, AtCall, Running, Now, Calls, ScriptOf
<1>5. ASSUME NEW r \in Reqs, Answers(r)
      PROVE  \A q \in Reqs : calls'[q].end = "running" => calls[q].end = "running"
  BY <1>5 DEF Answers, Running, Inv, Types, States
<1> QED
  BY <1>1, <1>2, <1>3, <1>4, <1>5, NextIs

(* What is removed for being casos' own has been looked at.                 *)
LEMMA RemovesLooked ==
    ASSUME Inv, NEW r \in Reqs, Step(r) \/ Fails(r), NEW o \in Objs, cluster'[o] # cluster[o],
           Now(r).op \in {"shed", "sweep"}
    PROVE  calls[r].read /\ o \in Looked(r)
<1>1. StepIs(r) /\ AtCall(r)
  BY StepsAre
<1>2. o \in Now(r).on
  BY <1>1 DEF StepIs, Effect
<1>3. Deletes(r) \/ Treats(r)
  BY DEF Step, Fails, Reads, Creates, Updates, Deletes, Lists, Treats, Runs, Doing
<1>4. CASE Now(r).op = "shed"
  <2>1. Deletes(r)
    BY <1>3, <1>4 DEF Treats, Doing, Listing
  <2> QED
    BY <1>2, <1>4, <2>1 DEF Deletes, Doing, Looked
<1>5. CASE Now(r).op = "sweep"
  <2>1. Treats(r)
    BY <1>3, <1>5 DEF Deletes, Doing
  <2>2. PICK p \in calls[r].left : Writes(r, p, "none") \/ UNCHANGED cluster
    BY <1>5, <2>1 DEF Treats, Refused
  <2>3. cluster' = [cluster EXCEPT ![p] = [mark |-> "none", by |-> r]]
    BY <2>2 DEF Writes
  <2>4. p = o
    BY <2>3 DEF Inv, Types
  <2> QED
    BY <1>5, <2>1, <2>4 DEF Treats, Looked
<1> QED
  BY <1>4, <1>5

(* What somebody else has made is removed by nobody who looks whose it is,  *)
(* but when it came after that look: in any scene of careful scripts, with  *)
(* any number of requests, failures, restarts and changes by others.        *)
THEOREM ForeignAlwaysKept ==
    ASSUME Careful
    PROVE  Spec => ForeignKept
<1> DEFINE All == Inv /\ \A r \in Reqs : Sure(r)
<1>1. Init => All
  <2> SUFFICES ASSUME Init PROVE All
    OBVIOUS
  <2>1. Inv
    BY InitIs
  <2>2. \A r \in Reqs : ~calls[r].read
    BY <2>1, ReadyIs DEF Init, Inv, Types
  <2> QED
    BY <2>1, <2>2 DEF Sure
<1>2. All /\ [Next]_vars => All'
  BY SureKept, NextIs, MeddleKeeps
<1>3. ASSUME All, [Next]_vars, NEW o \in DOMAIN cluster, cluster[o].mark = "foreign", cluster'[o].mark = "none",
             NEW r, r = cluster'[o].by, r # Others, o # "challenge", scene.who[r] \notin Unguarded
      PROVE  calls[r].read /\ calls[r].view[o] = "stale"
  <2>1. o \in Objs /\ cluster'[o] # cluster[o]
    BY <1>3 DEF Inv, Types
  <2>2. \A p \in Objs : ~Meddle(p)
    BY <1>3, <2>1, MeddleKeeps
  <2>3. PICK q \in Reqs : Step(q) \/ Fails(q)
    BY <1>3, <2>1, <2>2, NextIs
  <2>4. AtCall(q) /\ Effect(q, o)
    BY <1>3, <2>1, <2>3, StepsAre DEF StepIs
  <2>5. q = r /\ o \in Now(r).on
    BY <1>3, <2>4 DEF Effect
  <2>6. Now(r).op \in Removing
    <3>1. There(o)
      BY <1>3 DEF There
    <3>2. Updated(Now(r), o) # "none"
      BY <1>3, <2>1, <2>4, <2>5, <3>1, UpdatedIs DEF Inv
    <3> QED
      BY <1>3, <2>4, <2>5, <3>2 DEF Effect
  <2>7. Now(r).op \notin {"drop", "clear"}
    <3>1. Now(r) \in Every(ScriptOf(r)) /\ scene \in Scenes
      BY <1>3, <2>4, <2>5, NowIs DEF Inv, Types
    <3> QED
      BY <1>3, <2>5, <3>1 DEF Careful, CarefulIn, ScriptOf
  <2>8. calls[r].read /\ o \in Looked(r)
    BY <1>3, <2>1, <2>3, <2>5, <2>6, <2>7, RemovesLooked DEF Removing
  <2> QED
    BY <1>3, <2>4, <2>5, <2>6, <2>7, <2>8 DEF Sure, Removing
<1>4. All /\ [Next]_vars =>
         [\A o \in DOMAIN cluster : cluster[o].mark = "foreign" /\ cluster'[o].mark = "none" =>
             LET r == cluster'[o].by IN
             \/ r = Others \/ o = "challenge" \/ scene.who[r] \in Unguarded
             \/ calls[r].read /\ calls[r].view[o] = "stale"]_vars
  BY <1>3
<1> QED
  BY <1>1, <1>2, <1>4, PTL DEF Spec, ForeignKept

----------------------------------------------------------------------------
(* What mounts something goes first.  While nothing fails and nobody        *)
(* interferes, a call that removes and is over has removed: all that it     *)
(* names or has listed is gone.                                             *)
Emptied(r) ==
    AtCall(r) /\ Now(r).op = "sweep" /\ calls[r].read =>
       \A o \in Now(r).on : cluster[o].mark = "casos" => o \in calls[r].left
Behind(r) ==
    AtCall(r) /\ calls[r].on = "calls" =>
       \A j \in DOMAIN ScriptOf(r).calls : \A w \in Objs :
          GoneBefore(ScriptOf(r), w, j, calls[r].at) => cluster[w].mark # "casos"
Mounted(r) == Alone(r) /\ ~Hindered => Behind(r) /\ Emptied(r)
Countdown  == faults \in Int /\ faults <= scene.faults

Away(r, d) ==
    Now(r).op \in Removing /\ d.on = calls[r].on /\ faults' = faults =>
       /\ d.at = calls[r].at + 1 => \A o \in Now(r).on : cluster'[o].mark # "casos"
       /\ d.at = calls[r].at /\ Now(r).op = "sweep" /\ d.read =>
             \A o \in Now(r).on : cluster'[o].mark = "casos" => o \in d.left

LEMMA OneAway ==
    ASSUME Inv, NEW r \in Reqs, NEW d, Now(r).op # "sweep",
           \A o \in Now(r).on : cluster'[o].mark # "casos"
    PROVE  Away(r, d)
BY DEF Away

LEMMA ShedAway ==
    ASSUME Inv, NEW r \in Reqs, Reads(r)
    PROVE  Away(r, calls'[r])
<1> DEFINE c == Now(r)
           o == Object(r)
           v == IF There(o) THEN "fresh" ELSE "absent"
           seen == Knows(calls[r], o, v)
           ready == [seen EXCEPT !.read = TRUE]
<1>1. AtCall(r) /\ c.op \in Reading /\ UNCHANGED cluster
  BY DEF Reads, Doing
<1> SUFFICES ASSUME c.op = "shed" PROVE Away(r, calls'[r])
  BY <1>1 DEF Away, Reading, Removing
<1>2. calls[r] \in States(Objs) /\ c \in AnyCall /\ o \in Objs /\ c.on = {o}
  BY <1>1, NowIs DEF Inv, Listing
<1>3. c.theirs \in {"take", "refuse", "else", "spare"}
  BY <1>2 DEF AnyCall
<1>4. cluster[o].mark # "casos" \/ Goes(r, ready)
  BY <1>3 DEF Reads
<1>5. CASE cluster[o].mark # "casos"
  BY <1>1, <1>2, <1>5, OneAway
<1>6. CASE Goes(r, ready)
  <2>1. v \in Known
    BY DEF Known
  <2> HIDE DEF v
  <2>2. seen \in States(Objs) /\ seen.at = calls[r].at
    <3>1. LET d == Knows(calls[r], o, v) IN
           /\ d \in States(Objs) /\ d.view = [calls[r].view EXCEPT ![o] = v] /\ d.at = calls[r].at /\ d.read = calls[r].read
           /\ d.left = calls[r].left /\ d.on = calls[r].on /\ d.bad = calls[r].bad /\ d.end = calls[r].end
      BY <1>2, <2>1, KnowsIs
    <3> QED
      BY <3>1
  <2>3. calls'[r] = ready
    BY <1>6 DEF Goes, Inv, Types
  <2> HIDE DEF seen
  <2>4. ready.at = calls[r].at
    BY <2>2 DEF States
  <2> HIDE DEF ready
  <2> QED
    BY <2>3, <2>4, NextCall DEF Away
<1> QED
  BY <1>4, <1>5, <1>6

LEMMA DeletedAway ==
    ASSUME Inv, NEW r \in Reqs, Deletes(r)
    PROVE  Away(r, calls'[r])
<1> DEFINE o == Object(r)
<1>1. AtCall(r) /\ Now(r).op \in {"drop", "clear", "shed"}
  BY DEF Deletes, Doing
<1>2. o \in Objs /\ Now(r).on = {o} /\ Now(r).op # "sweep"
  BY <1>1, NowIs DEF Inv, Listing
<1>3. \/ cluster' = [cluster EXCEPT ![o] = [mark |-> "none", by |-> r]]
      \/ ~There(o) /\ UNCHANGED cluster
  BY DEF Deletes, Writes, Refused
<1>4. cluster'[o].mark = "none"
  BY <1>2, <1>3 DEF Inv, Types, There
<1> QED
  BY <1>2, <1>4, OneAway

LEMMA ListedAway ==
    ASSUME Inv, Countdown, NEW r \in Reqs, Lists(r)
    PROVE  Away(r, calls'[r])
<1> DEFINE found == {o \in Now(r).on : cluster[o].mark = "casos"}
           seen  == [o \in DOMAIN calls[r].view |-> IF o \in found THEN "fresh" ELSE calls[r].view[o]]
           known == [calls[r] EXCEPT !.read = TRUE, !.left = found, !.view = seen]
<1>1. AtCall(r) /\ UNCHANGED cluster /\ calls[r] \in States(Objs)
  BY NowIs DEF Lists, Doing, Inv
<1>2. faults' = faults => found = {} \/ Goes(r, known)
  BY DEF Lists, Countdown
<1>3. CASE found = {}
  <2>1. \A o \in Now(r).on : cluster'[o].mark # "casos"
    BY <1>1, <1>3
  <2> QED
    BY <2>1 DEF Away
<1>4. CASE Goes(r, known)
  <2>1. calls'[r] = known
    BY <1>4 DEF Goes, Inv, Types
  <2> HIDE DEF seen
  <2>2. known.at = calls[r].at /\ known.left = found
    BY <1>1 DEF States
  <2> HIDE DEF known
  <2> QED
    BY <1>1, <2>1, <2>2, NextCall DEF Away
<1> QED
  BY <1>2, <1>3, <1>4 DEF Away

LEMMA TreatedAway ==
    ASSUME Inv, Countdown, NEW r \in Reqs, Treats(r), Emptied(r)
    PROVE  Away(r, calls'[r])
<1>1. AtCall(r) /\ calls[r].read /\ calls[r] \in States(Objs) /\ Now(r).op \in Listing /\ Now(r).on \subseteq Objs
  BY NowIs DEF Treats, Doing, Inv, Listing
<1> SUFFICES ASSUME Now(r).op = "sweep", faults' = faults
             PROVE  Away(r, calls'[r])
  BY <1>1 DEF Away, Listing, Removing
<1>2. PICK o \in calls[r].left :
         \/ Writes(r, o, "none")
         \/ ~There(o) /\ Goes(r, Past(calls[r], o)) /\ UNCHANGED cluster
  BY DEF Treats
<1>3. o \in Objs
  BY <1>1 DEF States
<1> DEFINE e == Knows(calls[r], o, "absent")
<1>4. /\ e \in States(Objs) /\ e.at = calls[r].at /\ e.left = calls[r].left
  <2>1. ASSUME NEW c \in States(Objs)
        PROVE  LET k == Knows(c, o, "absent") IN k \in States(Objs) /\ k.at = c.at /\ k.left = c.left
    BY <1>3 DEF Knows, States, Known
  <2> QED
    BY <1>1, <2>1
<1>5. calls'[r] = Past(e, o) \/ calls'[r] = Past(calls[r], o)
  <2>1. CASE Writes(r, o, "none")
    <3>1. calls' = [Outdated(calls, o) EXCEPT ![r] = Past(Knows(calls[r], o, "absent"), o)]
      BY <2>1 DEF Writes, Countdown
    <3>2. Outdated(calls, o) \in [Reqs -> States(Objs)]
      BY <1>3, OutdatedIs DEF Inv, Types
    <3> QED
      BY <3>1, <3>2
  <2> QED
    BY <1>2, <2>1 DEF Goes, Inv, Types
<1>6. \A p \in Objs : cluster'[p].mark = "casos" => p # o /\ cluster[p].mark = "casos"
  <2>1. CASE Writes(r, o, "none")
    BY <1>3, <2>1 DEF Writes, Inv, Types
  <2> QED
    BY <1>2, <2>1 DEF There
<1>7. \A p \in Now(r).on : cluster'[p].mark = "casos" => p \in calls[r].left \ {o}
  BY <1>1, <1>6 DEF Emptied
<1> HIDE DEF e
<1>8. ASSUME NEW c \in States(Objs), c.at = calls[r].at, c.left = calls[r].left, calls'[r] = Past(c, o)
      PROVE  Away(r, calls'[r])
  <2>1. LET d == Past(c, o) IN
           /\ c.left \subseteq {o} => d.at = c.at + 1
           /\ ~(c.left \subseteq {o}) => d.at = c.at /\ d.left = c.left \ {o}
    BY PastIs
  <2> QED
    BY <1>7, <1>8, <2>1, NextCall DEF Away
<1> QED
  BY <1>1, <1>4, <1>5, <1>8

LEMMA StepsAway ==
    ASSUME Inv, Countdown, NEW r \in Reqs, Step(r) \/ Fails(r), Emptied(r)
    PROVE  Away(r, calls'[r])
<1>1. CASE Fails(r)
  <2>1. faults' # faults
    BY <1>1 DEF Fails, Countdown
  <2> QED
    BY <2>1 DEF Away
<1>2. CASE Creates(r) \/ Updates(r) \/ Runs(r)
  BY <1>2 DEF Creates, Updates, Runs, Doing, Away, Removing
<1> QED
  BY <1>1, <1>2, ShedAway, DeletedAway, ListedAway, TreatedAway DEF Step

(* An object that is gone for a call stays so: the calls from the one that  *)
(* has removed it to this one neither make it nor mark it.                  *)
LEMMA StaysAway ==
    ASSUME Inv, NEW r \in Reqs, AtCall(r), StepIs(r), NEW w \in Objs, cluster[w].mark # "casos",
           w \in Now(r).on => Now(r).op \notin Making /\ Now(r).update # "casos"
    PROVE  cluster'[w].mark # "casos"
<1>1. CASE Effect(r, w)
  <2>1. \/ There(w) /\ cluster'[w].mark = Updated(Now(r), w)
        \/ cluster'[w].mark = "none"
    BY <1>1 DEF Effect
  <2> QED
    BY <1>1, <2>1 DEF Effect, Updated
<1> QED
  BY <1>1 DEF StepIs

LEMMA MountedStep ==
    ASSUME Inv, Countdown, NEW r \in Reqs, Step(r) \/ Fails(r), Inv', StepIs(r), AtCall(r), UNCHANGED scene,
           faults' = faults, Behind(r), Emptied(r)
    PROVE  Behind(r)' /\ Emptied(r)'
<1> DEFINE s == ScriptOf(r)
           d == calls'[r]
<1>1. s' = s /\ Objs' = Objs /\ Position(r, d) /\ Away(r, d)
  BY StepsAway DEF ScriptOf, Objs, StepIs
<1>2. calls[r].at \in Nat \ {0} /\ d.at \in Nat \ {0} /\ d.on \in Branches /\ calls[r].on \in Branches
  BY DEF Inv, Types, States
<1>3. ASSUME AtCall(r)' PROVE d.at \in DOMAIN s[d.on] /\ d.at # Over
  <2>1. d.at <= Len(s[d.on])
    BY <1>1, <1>3 DEF AtCall, Calls
  <2> QED
    BY <1>2, <2>1, ScriptIs DEF Inv, Types, Over
<1>4. calls[r].at \in DOMAIN s[calls[r].on] /\ Now(r) = s[calls[r].on][calls[r].at]
  BY NowIs DEF Inv, Now, Calls
<1>5. Emptied(r)'
  <2> SUFFICES ASSUME AtCall(r)', Now(r)'.op = "sweep", d.read
               PROVE  \A o \in Now(r)'.on : cluster'[o].mark = "casos" => o \in d.left
    BY DEF Emptied
  <2>1. d.on = calls[r].on /\ d.at = calls[r].at
    <3>1. d.at # Over
      BY <1>3
    <3> QED
      BY <1>1, <3>1 DEF Position
  <2>2. Now(r)' = Now(r)
    BY <1>1, <2>1 DEF Now, Calls
  <2> QED
    BY <1>1, <2>1, <2>2 DEF Away, Removing
<1>6. Behind(r)'
  <2> SUFFICES ASSUME AtCall(r)', d.on = "calls", NEW j \in DOMAIN s.calls, NEW w \in Objs,
                      GoneBefore(s, w, j, d.at)
               PROVE  cluster'[w].mark # "casos"
    BY <1>1 DEF Behind
  <2>1. calls[r].on = "calls" /\ d.at \in {calls[r].at, calls[r].at + 1}
    <3>1. d.at # Over
      BY <1>3
    <3> QED
      BY <1>1, <3>1 DEF Position
  <2>2. j \in Nat \ {0} /\ calls[r].at \in DOMAIN s.calls /\ Now(r) = s.calls[calls[r].at]
    <3>1. s.calls = s["calls"] /\ s["calls"] \in Seq(AnyCall)
      BY ScriptIs DEF Branches, Inv, Types
    <3> QED
      BY <1>4, <2>1, <3>1
  <2>3. j < d.at /\ \A k \in DOMAIN s.calls : j <= k /\ k <= d.at /\ w \in s.calls[k].on =>
           s.calls[k].op \notin Making /\ s.calls[k].update # "casos"
    BY DEF GoneBefore
  <2>4. CASE j < calls[r].at
    <3>1. GoneBefore(s, w, j, calls[r].at)
      <4>1. \A k \in DOMAIN s.calls : k <= calls[r].at => k <= d.at
        <5>1. DOMAIN s.calls \subseteq Nat
          <6>1. s.calls = s["calls"] /\ s["calls"] \in Seq(AnyCall)
            BY ScriptIs DEF Branches, Inv, Types
          <6> QED
            BY <6>1
        <5> QED
          BY <1>2, <2>1, <5>1
      <4> QED
        BY <2>3, <2>4, <4>1 DEF GoneBefore
    <3>2. cluster[w].mark # "casos"
      BY <2>1, <3>1 DEF Behind
    <3>3. w \in Now(r).on => Now(r).op \notin Making /\ Now(r).update # "casos"
      BY <1>2, <2>1, <2>2, <2>3, <2>4
    <3> QED
      BY <3>2, <3>3, StaysAway
  <2>5. CASE ~(j < calls[r].at)
    <3>1. j = calls[r].at /\ d.at = calls[r].at + 1
      BY <1>2, <2>1, <2>2, <2>3, <2>5
    <3>2. Now(r).op \in Removing /\ w \in Now(r).on
      BY <2>2, <3>1 DEF GoneBefore
    <3> QED
      BY <1>1, <2>1, <3>1, <3>2 DEF Away
  <2> QED
    BY <2>4, <2>5
<1> QED
  BY <1>5, <1>6

LEMMA CountsDown ==
    ASSUME Inv, Countdown, [Next]_vars
    PROVE  Countdown' /\ faults' <= faults
<1>1. UNCHANGED scene /\ scene \in Scenes
  <2>1. \A o \in DOMAIN cluster : Meddle(o) => UNCHANGED scene
    BY DEF Meddle
  <2>2. \A r \in Reqs : Answers(r) \/ Again(r) => UNCHANGED scene
    BY DEF Answers, Again
  <2> QED
    BY <2>1, <2>2, StepsAre DEF Next, Dies, vars, Inv, Types
<1>2. faults' \in {faults, faults - 1}
  <2>1. ASSUME NEW r \in Reqs, NEW o, NEW m, Writes(r, o, m) PROVE faults' \in {faults, faults - 1}
    BY <2>1 DEF Writes
  <2>2. ASSUME NEW r \in Reqs, Step(r) PROVE faults' \in {faults, faults - 1}
    BY <2>1, <2>2 DEF Step, Reads, Creates, Updates, Deletes, Lists, Treats, Runs, Refused
  <2>3. ASSUME NEW r \in Reqs, Fails(r) \/ Answers(r) \/ Again(r) PROVE faults' \in {faults, faults - 1}
    BY <2>3 DEF Fails, Answers, Again
  <2>4. \A o \in DOMAIN cluster : Meddle(o) => faults' = faults
    BY DEF Meddle
  <2> QED
    BY <2>2, <2>3, <2>4 DEF Next, Dies, vars
<1> QED
  BY <1>1, <1>2, ScenesAssumption DEF Countdown

LEMMA MountedKept ==
    ASSUME Inv, Idle, Countdown, [Next]_vars, Inv', \A q \in Reqs : Mounted(q)
    PROVE  Idle' /\ Countdown' /\ \A q \in Reqs : Mounted(q)'
<1>1. Countdown' /\ faults' <= faults
  BY CountsDown
<1>2. ASSUME NEW r \in Reqs, Step(r) \/ Fails(r), StepIs(r), AtCall(r), UNCHANGED <<scene, meddles>>
      PROVE  Idle' /\ \A q \in Reqs : Mounted(q)'
  <2>1. Cast(scene)' = Cast(scene) /\ r \in Cast(scene)
    BY <1>2 DEF Idle, AtCall, Running, Cast
  <2>2. Idle'
    BY <1>2, <2>1 DEF Idle, StepIs, Bystander
  <2>3. \A q \in Reqs \ {r} : Mounted(q)'
    BY <2>1 DEF Mounted, Alone
  <2>4. Mounted(r)'
    <3> SUFFICES ASSUME Alone(r)', ~Hindered' PROVE Behind(r)' /\ Emptied(r)'
      BY DEF Mounted
    <3>1. Alone(r) /\ faults' = faults /\ ~Hindered
      BY <1>1, <1>2, <2>1 DEF Alone, Hindered, Undisturbed, Countdown
    <3> QED
      BY <1>2, <3>1, MountedStep DEF Mounted
  <2> QED
    BY <2>2, <2>3, <2>4
<1>3. ASSUME NEW r \in Reqs, Again(r)
      PROVE  Idle' /\ \A q \in Reqs : Mounted(q)'
  <2>1. /\ calls' = [calls EXCEPT ![r] = Ready(scene, r)] /\ UNCHANGED <<scene, cluster, faults, meddles>>
        /\ calls \in [Reqs -> States(Objs)] /\ scene \in Scenes
    BY <1>3, AgainKeeps DEF Inv, Types, Again
  <2>2. r \in Cast(scene) /\ calls'[r].at = 1 /\ ~calls'[r].read
    BY <1>3, <2>1, ReadyIs DEF Again, Idle
  <2>3. \A q \in Reqs \ {r} : calls'[q] = calls[q]
    BY <2>1
  <2>4. Idle'
    BY <2>1, <2>2, <2>3 DEF Idle, Cast
  <2>5. \A q \in Reqs \ {r} : Mounted(q)'
    BY <2>1, <2>2 DEF Mounted, Alone, Cast
  <2>6. Emptied(r)'
    BY <2>2 DEF Emptied
  <2>7. Behind(r)'
    <3>1. \A j \in DOMAIN ScriptOf(r).calls : ~(j < 1)
      <4>1. ScriptOf(r).calls = ScriptOf(r)["calls"] /\ ScriptOf(r)["calls"] \in Seq(AnyCall)
        BY <2>1, ScriptIs DEF Branches
      <4> QED
        BY <4>1
    <3>2. ScriptOf(r)' = ScriptOf(r)
      BY <2>1 DEF ScriptOf
    <3> QED
      BY <2>2, <3>1, <3>2 DEF Behind, GoneBefore
  <2> QED
    BY <2>4, <2>5, <2>6, <2>7 DEF Mounted
<1>4. ASSUME NEW o \in Objs, Meddle(o)
      PROVE  Idle' /\ \A q \in Reqs : Mounted(q)'
  <2>1. UNCHANGED scene /\ meddles' = meddles - 1 /\ \A q \in Reqs : calls'[q].end = calls[q].end
    BY <1>4, MeddleKeeps DEF Bystander
  <2>2. meddles - 1 # scene.meddles
    BY ScenesAssumption DEF Inv, Types
  <2>3. Hindered' /\ Idle'
    BY <2>1, <2>2 DEF Hindered, Undisturbed, Idle, Cast
  <2> QED
    BY <2>3 DEF Mounted
<1>5. ASSUME UNCHANGED <<scene, cluster, meddles>>,
             \A q \in Reqs : /\ calls'[q].at = calls[q].at /\ calls'[q].on = calls[q].on
                             /\ calls'[q].read = calls[q].read /\ calls'[q].left = calls[q].left,
             \A q \in Reqs : calls'[q].end = calls[q].end \/ (Running(q) /\ calls'[q].end # "running")
      PROVE  Idle' /\ \A q \in Reqs : Mounted(q)'
  <2>1. Idle'
    BY <1>5 DEF Idle, Cast, Running
  <2> SUFFICES ASSUME NEW q \in Reqs, Alone(q)', ~Hindered' PROVE Behind(q)' /\ Emptied(q)'
    BY <2>1 DEF Mounted
  <2>2. Alone(q) /\ ~Hindered
    BY <1>1, <1>5 DEF Alone, Cast, Hindered, Undisturbed, Countdown
  <2>3. ScriptOf(q)' = ScriptOf(q) /\ Objs' = Objs /\ Now(q)' = Now(q) /\ (AtCall(q)' => AtCall(q))
    BY <1>5 DEF ScriptOf, Objs, Now, Calls, AtCall, Running
  <2> QED
    BY <1>5, <2>2, <2>3 DEF Mounted, Behind, Emptied
<1>6. ASSUME NEW r \in Reqs, Answers(r)
      PROVE  \A q \in Reqs : calls'[q].end = calls[q].end \/ (Running(q) /\ calls'[q].end # "running")
  <2> DEFINE e == IF calls[r].bad THEN "fail" ELSE "ok"
  <2>1. calls' = [calls EXCEPT ![r] = [calls[r] EXCEPT !.end = e]] /\ Running(r) /\ e # "running"
    BY <1>6 DEF Answers, Inv, Types
  <2>2. \A c \in States(Objs) : \A x : [c EXCEPT !.end = x].end = x
    BY DEF States
  <2> HIDE DEF e
  <2> QED
    BY <2>1, <2>2 DEF Inv, Types
<1> QED
  BY <1>1, <1>2, <1>3, <1>4, <1>5, <1>6, NextIs

(* What a workload of casos mounts is not taken from under it by a handler  *)
(* that is alone and has met no failure: in every scene whose scripts       *)
(* remove what they remove in order, workloads of others included.          *)
THEOREM MountsAlwaysStay ==
    ASSUME Careful
    PROVE  Spec => MountsStay
<1> DEFINE All == Inv /\ Idle /\ Countdown /\ \A r \in Reqs : Mounted(r)
<1>1. Init => All
  <2> SUFFICES ASSUME Init PROVE All
    OBVIOUS
  <2>1. Inv /\ scene \in Scenes
    BY InitIs DEF Init
  <2>2. \A r \in Reqs : /\ calls[r].at = 1 /\ ~calls[r].read
                        /\ calls[r].end \in {"idle", "running"} /\ (calls[r].end = "running" <=> r \in Cast(scene))
    BY <2>1, ReadyIs DEF Init
  <2>3. Idle /\ Countdown
    BY <2>1, <2>2, ScenesAssumption DEF Idle, Countdown, Init
  <2>4. ASSUME NEW r \in Reqs PROVE Mounted(r)
    <3>1. \A j \in DOMAIN ScriptOf(r).calls : ~(j < 1)
      <4>1. ScriptOf(r).calls = ScriptOf(r)["calls"] /\ ScriptOf(r)["calls"] \in Seq(AnyCall)
        BY <2>1, ScriptIs DEF Branches
      <4> QED
        BY <4>1
    <3> QED
      BY <2>2, <3>1 DEF Mounted, Behind, Emptied, GoneBefore
  <2> QED
    BY <2>1, <2>3, <2>4
<1>2. All /\ [Next]_vars => All'
  BY MountedKept, NextIs, MeddleKeeps
<1>3. ASSUME All, [Next]_vars, NEW w \in DOMAIN Mounts \cap DOMAIN cluster, NEW o \in Mounts[w] \cap DOMAIN cluster,
             cluster[w].mark = "casos", There(o), cluster'[o].mark = "none", cluster'[o].by # Others,
             ~Hindered, Alone(cluster'[o].by), scene.who[cluster'[o].by] \notin Hasty
      PROVE  FALSE
  <2> DEFINE r == cluster'[o].by
  <2>1. o \in Objs /\ w \in Objs /\ cluster'[o] # cluster[o] /\ scene \in Scenes
    BY <1>3 DEF Inv, Types, There
  <2>2. \A p \in Objs : ~Meddle(p)
    BY <1>3, <2>1, MeddleKeeps
  <2>3. PICK q \in Reqs : AtCall(q) /\ Effect(q, o)
    BY <1>3, <2>1, <2>2, NextIs DEF StepIs
  <2>4. q = r /\ o \in Now(r).on /\ AtCall(r)
    BY <1>3, <2>3 DEF Effect
  <2>5. Updated(Now(r), o) # "none"
    BY <1>3, <2>1, <2>3, <2>4, UpdatedIs DEF Inv
  <2>6. Now(r).op \in Removing
    BY <1>3, <2>3, <2>4, <2>5 DEF Effect
  <2>7. calls[r].on \in Branches /\ calls[r].at \in DOMAIN ScriptOf(r)[calls[r].on]
        /\ Now(r) = ScriptOf(r)[calls[r].on][calls[r].at]
    BY <1>3, <2>3, <2>4, NowIs DEF Inv, Now, Calls
  <2>8. Orderly(ScriptOf(r), Objs)
    BY <1>3, <2>1, <2>3, <2>4 DEF Careful, CarefulIn, ScriptOf, Objs
  <2>9. calls[r].on = "calls" /\ \E j \in DOMAIN ScriptOf(r).calls : GoneBefore(ScriptOf(r), w, j, calls[r].at)
    BY <1>3, <2>1, <2>4, <2>6, <2>7, <2>8 DEF Orderly
  <2> QED
    BY <1>3, <2>1, <2>3, <2>4, <2>9 DEF Mounted, Behind
<1>4. All /\ [Next]_vars =>
         [\A w \in DOMAIN Mounts \cap DOMAIN cluster : \A o \in Mounts[w] \cap DOMAIN cluster :
             cluster[w].mark = "casos" /\ There(o) /\ cluster'[o].mark = "none" =>
                \/ cluster'[o].by = Others \/ Hindered \/ ~Alone(cluster'[o].by)
                \/ scene.who[cluster'[o].by] \in Hasty]_vars
  BY <1>3
<1> QED
  BY <1>1, <1>2, <1>4, PTL DEF Spec, MountsStay
=============================================================================
