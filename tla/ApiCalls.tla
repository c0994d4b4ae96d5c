------------------------------ MODULE ApiCalls ------------------------------
(***************************************************************************)
(* How the handlers of casos change what is not theirs alone: the objects  *)
(* of the cluster, the machines of the cluster, the rows of the database.  *)
(*                                                                         *)
(* A handler is a goroutine that makes one call after another.  Between    *)
(* two calls other handlers, the controllers of Kubernetes and people with *)
(* kubectl make theirs; every call may fail, or take effect and lose its   *)
(* answer; the process may end.  What a handler does about it is decided   *)
(* call by call, and is written down here as data: a script is the         *)
(* sequence of calls of a handler, each with the object it is about and    *)
(* what an error does to the rest.  This module says what a script is, the *)
(* modules that extend it hold the scripts, and Handlers runs them.        *)
(***************************************************************************)
EXTENDS Naturals, Sequences, FiniteSets, TLC
LOCAL INSTANCE SequencesExt

----------------------------------------------------------------------------
(* A call: what is done, to which objects; what the handler does with an   *)
(* object that carries somebody else's mark; the mark a new object gets;   *)
(* what an update does to the mark of an old one; and what an error does:  *)
(* it ends the handler ("stop"), ends it with its deferred calls ("undo"), *)
(* makes it take its other branch ("else"), is ignored ("skip"), or is     *)
(* told at the end, after the remaining calls ("note").  A call that       *)
(* creates says whether it is an error that the object exists by then, one *)
(* that lists objects first what an error of the listing does, and whether *)
(* it must find one.                                                       *)
Call(op, os) == [op |-> op, on |-> os, theirs |-> "take", mark |-> "casos",
                 update |-> "keep", err |-> "stop", exists |-> "fail",
                 list |-> "stop", some |-> FALSE]

Get(o)       == Call("get", {o})        \* has to be there
Find(o)      == Call("find", {o})       \* has to be there; its version is not used
Look(o)      == Call("look", {o})       \* may be there or not
Free(o)      == Call("free", {o})       \* must not be there
Create(o)    == Call("create", {o})     \* AlreadyExists is an error
Keep(o)      == Call("keep", {o})       \* read; created if missing, else left alone
Put(o)       == Call("put", {o})        \* read; created if missing, else updated
Save(o)      == Call("save", {o})       \* created if not seen before, else updated
Settle(o)    == Call("settle", {o})     \* created; if it exists, read and updated
Fill(o)      == Call("fill", {o})       \* as settle, if it was not seen before
Set(o)       == Call("set", {o})        \* written, there or not
Mend(o)      == Call("mend", {o})       \* read; written unless it is somebody's
Change(o)    == Call("change", {o})     \* update of the version read before
Edit(o)      == Call("edit", {o})       \* read, then update of that version
Tune(o)      == Call("tune", {o})       \* read; updated if it is there
Overwrite(o) == Call("overwrite", {o})  \* update or patch, whatever the version
Amend(o)     == Call("amend", {o})      \* update whatever there is; finding none is as good
Drop(o)      == Call("drop", {o})       \* delete; NotFound is an error
Clear(o)     == Call("clear", {o})      \* delete; NotFound is as good
Shed(o)      == Call("shed", {o})       \* read; deleted if it is casos' own
Sweep(os)    == Call("sweep", os)       \* list, then delete each that is marked
Retune(os)   == Call("retune", os)      \* list, then update each that is marked
Run(o)       == Call("run", {o})        \* a command or request with no object

(* Creating what exists by then is as good as creating it.                 *)
Tolerates(c) == [c EXCEPT !.exists = "pass"]
Ensure(o)    == Tolerates(Create(o))

(* Somebody else's object is an error, is a reason to take the other       *)
(* branch, or is left alone without a word.                                *)
Guarded(c)  == [c EXCEPT !.theirs = "refuse"]
Aside(c)    == [c EXCEPT !.theirs = "else"]
Sparing(c)  == [c EXCEPT !.theirs = "spare"]
Plain(c)    == [c EXCEPT !.mark = "plain"]     \* makes it without casos' labels
Adopts(c)   == [c EXCEPT !.update = "casos"]   \* puts casos' labels on it
Replaces(c) == [c EXCEPT !.update = "plain"]   \* writes it anew, labels and all
Quiet(c)    == [c EXCEPT !.err = "skip"]
Noted(c)    == [c EXCEPT !.err = "note"]
Undone(c)   == [c EXCEPT !.err = "undo"]
Else(c)     == [c EXCEPT !.err = "else"]
Blindly(c)  == [c EXCEPT !.list = "skip"]
Some(c)     == [c EXCEPT !.some = TRUE]        \* listing none is an error

(* What a handler does about the errors of calls it does not return. *)
inCase(cs, F(_)) == [i \in DOMAIN cs |-> IF cs[i].err = "stop" THEN F(cs[i]) ELSE cs[i]]
quietly(cs) == inCase(cs, Quiet)
undone(cs)  == inCase(cs, Undone)

(* Each of a series of objects, in order.  *)
each(F(_), os) == FlattenSeq([i \in DOMAIN os |-> F(os[i])])

Reading  == {"get", "find", "look", "free", "keep", "put", "edit", "tune", "mend", "shed"}
Making   == {"create", "keep", "put", "save", "settle", "fill", "set", "mend"}
Altering == {"put", "save", "settle", "fill", "set", "mend", "change", "edit", "tune", "overwrite", "amend"}
Removing == {"drop", "clear", "shed", "sweep"}
Listing  == {"sweep", "retune"}
Versioned == Altering \ {"set", "mend", "overwrite", "amend"}

(* A script: its calls, what the handler calls after one that is to be     *)
(* undone has failed (its deferred functions), and its other branch.       *)
Does(cs)            == [calls |-> cs, undo |-> <<>>, other |-> <<>>]
DoesOr(cs, undo)    == [Does(cs) EXCEPT !.undo = undo]
DoesElse(cs, other) == [Does(cs) EXCEPT !.other = other]
Branches == {"calls", "undo", "other"}

CallsOn(s, o) == {i \in DOMAIN s.calls : o \in s.calls[i].on}
Objects(s)    == UNION {UNION {IF s[b][i].op = "run" THEN {} ELSE s[b][i].on : i \in DOMAIN s[b]} : b \in Branches}

(* The objects a script leaves behind, and those it does away with: the    *)
(* last call that makes or removes an object decides.                      *)
LastIs(s, o, ops) ==
    \E i \in CallsOn(s, o) :
        /\ s.calls[i].op \in ops
        /\ \A j \in CallsOn(s, o) : j > i => s.calls[j].op \notin Making \cup Removing
Leaves(s)  == {o \in Objects(s) : LastIs(s, o, Making)}
Takes(s)   == {o \in Objects(s) : LastIs(s, o, Removing)}

(* The objects that are there when a script is asked for as it is meant to *)
(* be: those the first call about them does not make, or look for before   *)
(* another makes them.                                                     *)
Needs(s) == {o \in Objects(s) :
               \A i \in CallsOn(s, o) : (\A j \in CallsOn(s, o) : i <= j) =>
                  /\ s.calls[i].op \notin Making \cup {"free"}
                  /\ s.calls[i].op = "look" => \A j \in CallsOn(s, o) : s.calls[j].op \notin Making}
----------------------------------------------------------------------------
(* What calls can be.  *)
Ops     == Reading \cup Making \cup Altering \cup Removing \cup Listing \cup {"run"}
AnyCall == [op : Ops, on : SUBSET STRING, theirs : {"take", "refuse", "else", "spare"},
            mark : {"casos", "plain", "foreign"}, update : {"keep", "casos", "plain"},
            err : {"stop", "undo", "else", "skip", "note"}, exists : {"fail", "pass"},
            list : {"stop", "undo", "else", "skip", "note"}, some : BOOLEAN]
Every(s) == UNION {{s[b][i] : i \in DOMAIN s[b]} : b \in Branches}
(* A call but a listing is about one object, and no branch is taken twice. *)
Diverts(c, err)   == err \in {c.err, c.list, c.theirs}
Leaving(s, b, j)  == \E k \in DOMAIN s[b] : k >= j /\ (Diverts(s[b][k], "undo") \/ Diverts(s[b][k], "else"))
IsScript(s) ==
    /\ \A b \in Branches : s[b] \in Seq(AnyCall)
    /\ \A c \in Every(s) : c.on # {} /\ (c.op \notin Listing => \A o, p \in c.on : o = p)
    /\ \A i \in DOMAIN s.undo : ~Diverts(s.undo[i], "undo")
    /\ \A i \in DOMAIN s.other : ~Diverts(s.other[i], "else")
    /\ ~Leaving(s, "undo", 1) \/ ~Leaving(s, "other", 1)

(* A call that writes whatever there is is of an object that no call before *)
(* it has seen.                                                            *)
Blind == Altering \ Versioned
Unsighted == {"find", "free", "run", "drop", "clear"}
Cautious(s) ==
    \A b \in Branches : \A i \in DOMAIN s[b] : s[b][i].op \in Blind =>
       /\ s[b][i].op # "mend"
       /\ \A a \in Branches : \A j \in DOMAIN s[a] :
             /\ s[a][j].op \notin Unsighted
             /\ IF a = b THEN j < i ELSE b # "calls" /\ Leaving(s, a, j)
             => s[a][j].on \cap s[b][i].on = {}

(* An error of a call that decides about an object is not passed over, and *)
(* no call after it undoes what it did.                                    *)
Decides(s, i, o) ==
    /\ o \in s.calls[i].on /\ s.calls[i].op \in Making \cup Removing
    /\ \A j \in CallsOn(s, o) : j > i => s.calls[j].op \notin Making \cup Removing
Telling(s) ==
    /\ \A i \in DOMAIN s.calls : \A o \in s.calls[i].on : Decides(s, i, o) =>
          /\ "skip" \notin {s.calls[i].err, s.calls[i].list}
          /\ \A j \in DOMAIN s.calls : Diverts(s.calls[j], "else") => j > i
          /\ s.calls[i].op \in Removing => \A j \in CallsOn(s, o) : j > i => s.calls[j].update = "keep"
    /\ (\E i \in DOMAIN s.calls : Diverts(s.calls[i], "else")) => \A i \in DOMAIN s.other : s.other[i].op = "run"
    /\ \A c, d \in Every(s) : c.op = "fill" /\ d.op \in Removing => c.on \cap d.on = {}
=============================================================================
