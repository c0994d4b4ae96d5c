------------------------ MODULE HelmRecorder_proofs -------------------------
(***************************************************************************)
(* Proofs about HelmRecorder, for every number of writers, size of batch   *)
(* and number of lines.                                                    *)
(***************************************************************************)
EXTENDS HelmRecorder, SequenceTheorems, TLAPS

----------------------------------------------------------------------------
(* Consecutive numbers: s has those that follow k.                         *)
Follows(s, k) == \A n \in 1..Len(s) : s[n] = k + n

Rising(s) == \A m, n \in 1..Len(s) : m < n => s[m] < s[n]

LEMMA AppendFollows ==
    ASSUME NEW s \in Seq(Nat), NEW k \in Nat, Follows(s, k), NEW x, x = k + Len(s) + 1
    PROVE  /\ Append(s, x) \in Seq(Nat) /\ Len(Append(s, x)) = Len(s) + 1
           /\ Follows(Append(s, x), k)
<1>1. x \in Nat /\ Append(s, x) \in Seq(Nat) /\ Len(Append(s, x)) = Len(s) + 1
  OBVIOUS
<1>2. ASSUME NEW n \in 1..(Len(s) + 1)
      PROVE  Append(s, x)[n] = k + n
  BY DEF Follows
<1> QED
  BY <1>1, <1>2 DEF Follows

LEMMA TailFollows ==
    ASSUME NEW s \in Seq(Nat), NEW k \in Nat, Follows(s, k), s # <<>>
    PROVE  /\ Head(s) = k + 1 /\ Tail(s) \in Seq(Nat) /\ Len(Tail(s)) = Len(s) - 1
           /\ Len(s) \in Nat /\ Len(s) > 0 /\ Follows(Tail(s), k + 1)
<1>1. Len(s) \in Nat /\ Len(s) > 0 /\ Tail(s) \in Seq(Nat) /\ Len(Tail(s)) = Len(s) - 1
  OBVIOUS
<1>2. Head(s) = k + 1
  BY <1>1 DEF Follows
<1>3. ASSUME NEW n \in 1..(Len(s) - 1)
      PROVE  Tail(s)[n] = (k + 1) + n
  <2>1. Tail(s)[n] = s[n + 1]
    BY <1>1
  <2>2. n + 1 \in 1..Len(s)
    BY <1>1
  <2> QED
    BY <2>1, <2>2 DEF Follows
<1> QED
  BY <1>1, <1>2, <1>3 DEF Follows

(* What is appended to rising numbers up to k goes on from k.               *)
LEMMA ConcatRising ==
    ASSUME NEW s \in Seq(Nat), NEW t \in Seq(Nat), NEW k \in Nat, Rising(s),
           \A n \in 1..Len(s) : s[n] <= k, Follows(t, k)
    PROVE  /\ s \o t \in Seq(Nat) /\ Len(s \o t) = Len(s) + Len(t)
           /\ Rising(s \o t)
           /\ \A n \in 1..Len(s \o t) : (s \o t)[n] <= k + Len(t)
           /\ Len(s) = k /\ Follows(s, 0) => Follows(s \o t, 0)
<1>1. /\ s \o t \in Seq(Nat) /\ Len(s \o t) = Len(s) + Len(t)
      /\ Len(s) \in Nat /\ Len(t) \in Nat
  OBVIOUS
<1>2. \A n \in 1..(Len(s) + Len(t)) :
         (s \o t)[n] = IF n <= Len(s) THEN s[n] ELSE t[n - Len(s)]
  OBVIOUS
<1>3. \A n \in 1..(Len(s) + Len(t)) : n > Len(s) => (s \o t)[n] = k + (n - Len(s))
  BY <1>1, <1>2 DEF Follows
<1>4. \A n \in 1..(Len(s) + Len(t)) : n <= Len(s) => (s \o t)[n] = s[n] /\ s[n] \in Nat /\ s[n] <= k
  BY <1>1, <1>2
<1>5. Rising(s \o t)
  <2> SUFFICES ASSUME NEW m \in 1..(Len(s) + Len(t)), NEW n \in 1..(Len(s) + Len(t)), m < n
               PROVE  (s \o t)[m] < (s \o t)[n]
    BY <1>1 DEF Rising
  <2>1. CASE n <= Len(s)
    BY <1>1, <1>4, <2>1 DEF Rising
  <2>2. CASE m <= Len(s) /\ n > Len(s)
    BY <1>1, <1>3, <1>4, <2>2
  <2>3. CASE m > Len(s)
    <3>1. m \in Int /\ n \in Int /\ n > Len(s)
      BY <1>1, <2>3
    <3>2. (s \o t)[m] = k + (m - Len(s)) /\ (s \o t)[n] = k + (n - Len(s))
      BY <1>3, <2>3, <3>1
    <3> QED
      BY <1>1, <3>1, <3>2
  <2> QED
    BY <1>1, <2>1, <2>2, <2>3
<1>6. \A n \in 1..Len(s \o t) : (s \o t)[n] <= k + Len(t)
  <2> SUFFICES ASSUME NEW n \in 1..(Len(s) + Len(t))
               PROVE  (s \o t)[n] <= k + Len(t)
    BY <1>1
  <2>1. CASE n <= Len(s)
    BY <1>1, <1>4, <2>1
  <2>2. CASE n > Len(s)
    <3>1. n \in Int /\ n <= Len(s) + Len(t)
      BY <1>1
    <3>2. (s \o t)[n] = k + (n - Len(s))
      BY <1>3, <2>2
    <3> QED
      BY <1>1, <3>1, <3>2
  <2> QED
    BY <1>1, <2>1, <2>2
<1>7. Len(s) = k /\ Follows(s, 0) => Follows(s \o t, 0)
  BY <1>1, <1>3, <1>4 DEF Follows
<1> QED
  BY <1>1, <1>5, <1>6, <1>7

----------------------------------------------------------------------------
(* Lines.  What was accepted is written or given up, in the batch, or in the   *)
(* channel, in this order; as long as nothing went wrong, all of the first part *)
(* is written.                                                                  *)
Gone == accepted - Len(queue) - Len(batch)

Kept ==
    /\ accepted \in Nat /\ queue \in Seq(Nat) /\ batch \in Seq(Nat) /\ saved \in Seq(Nat)
    /\ Gone \in Nat
    /\ Follows(batch, Gone) /\ Follows(queue, Gone + Len(batch))
    /\ Rising(saved) /\ \A n \in 1..Len(saved) : saved[n] <= Gone
    /\ ~batchErr => Len(saved) = Gone /\ Follows(saved, 0)

LEMMA EnqueueKeeps ==
    ASSUME Kept, accepted' = accepted + 1, queue' = Append(queue, accepted + 1),
           UNCHANGED <<batch, saved, batchErr>>
    PROVE  Kept'
<1>1. /\ accepted \in Nat /\ Len(queue) \in Nat /\ Len(batch) \in Nat /\ Gone \in Nat
      /\ accepted + 1 = (Gone + Len(batch)) + Len(queue) + 1 /\ Gone + Len(batch) \in Nat
  BY DEF Kept, Gone
<1>2. queue' \in Seq(Nat) /\ Len(queue') = Len(queue) + 1 /\ Follows(queue', Gone + Len(batch))
  BY <1>1, AppendFollows DEF Kept
<1>3. Gone' = Gone
  BY <1>1, <1>2 DEF Gone
<1> QED
  BY <1>1, <1>2, <1>3 DEF Kept

LEMMA TakeKeeps ==
    ASSUME Kept, queue # <<>>, queue' = Tail(queue), UNCHANGED <<accepted, saved>>,
           \/ batch' = Append(batch, Head(queue)) /\ batchErr' = batchErr
           \/ batch' = <<>> /\ batchErr' = TRUE
    PROVE  Kept'
<1> DEFINE k == Gone + Len(batch)
<1>1. /\ accepted \in Nat /\ Len(queue) \in Nat /\ Len(batch) \in Nat /\ Gone \in Nat /\ k \in Nat
      /\ accepted = k + Len(queue) /\ Follows(queue, k)
  BY DEF Kept, Gone
<1>2. /\ Head(queue) = k + 1 /\ queue' \in Seq(Nat) /\ Len(queue') = Len(queue) - 1
      /\ Len(queue) > 0 /\ Follows(queue', k + 1)
  BY <1>1, TailFollows DEF Kept
<1>3. CASE batch' = Append(batch, Head(queue)) /\ batchErr' = batchErr
  <2>1. batch' \in Seq(Nat) /\ Len(batch') = Len(batch) + 1 /\ Follows(batch', Gone)
    BY <1>1, <1>2, <1>3, AppendFollows DEF Kept
  <2>2. Gone' = Gone
    BY <1>1, <1>2, <2>1 DEF Gone
  <2>3. Gone' + Len(batch') = k + 1
    BY <1>1, <2>1, <2>2
  <2> QED
    BY <1>1, <1>2, <1>3, <2>1, <2>2, <2>3 DEF Kept
<1>4. CASE batch' = <<>> /\ batchErr' = TRUE
  <2>1. batch' \in Seq(Nat) /\ Len(batch') = 0 /\ Follows(batch', Gone')
    BY <1>4 DEF Follows
  <2>2. Gone' = k + 1 /\ Gone' + Len(batch') = k + 1 /\ Gone' >= Gone
    BY <1>1, <1>2, <2>1 DEF Gone
  <2>3. \A n \in 1..Len(saved) : saved[n] \in Nat /\ saved[n] <= Gone'
    BY <1>1, <2>2 DEF Kept
  <2> QED
    BY <1>1, <1>2, <1>4, <2>1, <2>2, <2>3 DEF Kept
<1> QED
  BY <1>3, <1>4

LEMMA BatchEndKeeps ==
    ASSUME Kept, batch' = <<>>, UNCHANGED <<accepted, queue>>,
           \/ saved' = saved \o batch /\ batchErr' = batchErr
           \/ saved' \in {saved, saved \o batch} /\ batchErr' = TRUE
    PROVE  Kept'
<1>1. /\ accepted \in Nat /\ Len(queue) \in Nat /\ Len(batch) \in Nat /\ Gone \in Nat
      /\ Gone + Len(batch) \in Nat
  BY DEF Kept, Gone
<1>2. Len(batch') = 0 /\ batch' \in Seq(Nat) /\ Follows(batch', Gone')
  BY DEF Follows
<1>3. Gone' = Gone + Len(batch) /\ Gone' + Len(batch') = Gone + Len(batch)
  BY <1>1, <1>2 DEF Gone
<1>4. Follows(queue', Gone' + Len(batch'))
  BY <1>3 DEF Kept
<1>5. /\ saved \o batch \in Seq(Nat) /\ Len(saved \o batch) = Len(saved) + Len(batch)
      /\ Rising(saved \o batch)
      /\ \A n \in 1..Len(saved \o batch) : (saved \o batch)[n] <= Gone + Len(batch)
      /\ Len(saved) = Gone /\ Follows(saved, 0) => Follows(saved \o batch, 0)
  BY <1>1, ConcatRising DEF Kept
<1>6. \A n \in 1..Len(saved) : saved[n] \in Nat /\ saved[n] <= Gone + Len(batch)
  BY <1>1 DEF Kept
<1>7. CASE saved' = saved \o batch
  <2>1. saved' \in Seq(Nat) /\ Rising(saved') /\ \A n \in 1..Len(saved') : saved'[n] <= Gone'
    BY <1>3, <1>5, <1>7
  <2>2. ~batchErr' => Len(saved') = Gone' /\ Follows(saved', 0)
    BY <1>3, <1>5, <1>7 DEF Kept
  <2> QED
    BY <1>1, <1>2, <1>3, <1>4, <2>1, <2>2 DEF Kept
<1>8. CASE saved' = saved /\ batchErr' = TRUE
  BY <1>1, <1>2, <1>3, <1>4, <1>6, <1>8 DEF Kept
<1> QED
  BY <1>7, <1>8

LEMMA FailureKeeps ==
    ASSUME Kept, UNCHANGED <<logVars, batch>>, batchErr' \in {batchErr, TRUE}
    PROVE  Kept'
BY DEF Kept, Gone, logVars

LEMMA KeptStep ==
    ASSUME Kept, [Next]_vars
    PROVE  Kept'
<1>1. ASSUME UNCHANGED <<logVars, batch, batchErr>>
      PROVE  Kept'
  BY <1>1, FailureKeeps
<1>2. ASSUME NEW w \in Writers, RecordLog(w)
      PROVE  Kept'
  <2>1. CASE RecordEnqueue(w)
    BY <2>1, EnqueueKeeps DEF RecordEnqueue
  <2>2. CASE RecordBegin(w) \/ RecordTimesOut(w)
    BY <1>1, <2>2 DEF RecordBegin, RecordTimesOut
  <2> QED
    BY <1>2, <2>1, <2>2 DEF RecordLog
<1>3. CASE TakeLine
  BY <1>3, TakeKeeps DEF TakeLine, Flush
<1>4. CASE FlushTick \/ Drained
  <2>1. CASE UNCHANGED <<batch, batchErr>>
    BY <1>1, <1>4, <2>1 DEF FlushTick, Drained
  <2>2. CASE batch' = <<>> /\ batchErr' = TRUE
    BY <1>4, <2>2, BatchEndKeeps DEF FlushTick, Drained, logVars
  <2> QED
    BY <1>4, <2>1, <2>2 DEF FlushTick, Drained, Flush
<1>5. CASE PersistSucceeds \/ PersistFails
  BY <1>5, BatchEndKeeps DEF PersistSucceeds, PersistFails
<1>6. CASE PersistPanics \/ ShutdownExpires
  BY <1>6, FailureKeeps DEF PersistPanics, ShutdownExpires
<1>7. CASE HeartbeatTick \/ TouchReturns \/ FinishBegins \/ FinishCloses \/ FinishDrained
           \/ GraceEnds \/ FinishReturns \/ UNCHANGED vars
  BY <1>1, <1>7 DEF HeartbeatTick, TouchReturns, FinishBegins, FinishCloses, FinishDrained,
                    GraceEnds, FinishReturns, vars
<1> QED
  BY <1>2, <1>3, <1>4, <1>5, <1>6, <1>7 DEF Next, DbReturns, Loop, Finish

----------------------------------------------------------------------------
(* How the goroutine and Finish end.  A goroutine that has ended without an     *)
(* error has seen the channel closed and empty.                                  *)
Life ==
    /\ writer \in [Writers -> {"idle", "sending"}]
    /\ run \in {"select", "flush", "last", "touch", "ended"}
    /\ fin # "none" => closed
    /\ chanClosed => closed /\ fin \notin {"none", "writers"} /\ \A w \in Writers : writer[w] = "idle"
    /\ run = "last" => chanClosed /\ queue = <<>>
    /\ run = "ended" /\ ~batchErr => chanClosed /\ queue = <<>> /\ batch = <<>>
    /\ fin = "grace" => batchErr
    /\ fin = "closing" => batchErr \/ run = "ended"
    /\ fin = "returned" /\ ~warned => run = "ended" /\ ~batchErr

LEMMA LifeStep ==
    ASSUME Life, [Next]_vars
    PROVE  Life'
<1>1. ASSUME NEW w \in Writers, RecordLog(w)
      PROVE  Life'
  BY <1>1 DEF Life, RecordLog, RecordBegin, RecordEnqueue, RecordTimesOut, logVars, finVars
<1>2. CASE Loop
  <2>1. CASE TakeLine
    BY <2>1 DEF Life, TakeLine, Flush, finVars
  <2>2. CASE FlushTick
    BY <2>2 DEF Life, FlushTick, Flush, logVars, finVars
  <2>3. CASE HeartbeatTick
    BY <2>3 DEF Life, HeartbeatTick, logVars, finVars
  <2>4. CASE Drained
    BY <2>4 DEF Life, Drained, Flush, logVars, finVars
  <2> QED
    BY <1>2, <2>1, <2>2, <2>3, <2>4 DEF Loop
<1>3. CASE DbReturns
  <2>1. CASE PersistSucceeds
    BY <2>1 DEF Life, PersistSucceeds, AfterCall, finVars
  <2>2. CASE PersistFails
    BY <2>2 DEF Life, PersistFails, AfterCall, finVars
  <2>3. CASE PersistPanics
    BY <2>3 DEF Life, PersistPanics, Busy, logVars, finVars
  <2>4. CASE TouchReturns
    BY <2>4 DEF Life, TouchReturns, logVars, finVars
  <2> QED
    BY <1>3, <2>1, <2>2, <2>3, <2>4 DEF DbReturns
<1>4. CASE Finish
  BY <1>4 DEF Life, Finish, FinishBegins, FinishCloses, FinishDrained, ShutdownExpires, GraceEnds,
              FinishReturns, Busy, logVars
<1>5. CASE UNCHANGED vars
  BY <1>5 DEF Life, vars, logVars, finVars
<1> QED
  BY <1>1, <1>2, <1>3, <1>4, <1>5 DEF Next

(* No line is sent on the closed channel, written twice or out of order, or     *)
(* lost without a warning, whatever the database does and however late a         *)
(* writer, a panic or the shutdown timer comes.                                   *)
THEOREM LinesAlwaysKept == Spec => []LinesKept
<1>1. Init => Kept /\ Life
  <2> SUFFICES ASSUME Init PROVE Kept /\ Life
    OBVIOUS
  <2>1. queue = <<>> /\ batch = <<>> /\ saved = <<>> /\ accepted = 0
    BY DEF Init
  <2>2. <<>> \in Seq(Nat) /\ Len(<<>>) = 0
    OBVIOUS
  <2>3. Gone = 0 /\ 1..Len(<<>>) = {}
    <3>1. Len(queue) = 0 /\ Len(batch) = 0 /\ accepted = 0
      BY <2>1, <2>2
    <3>2. Gone = 0
      BY <3>1 DEF Gone
    <3>3. 1..0 = {}
      OBVIOUS
    <3> QED
      BY <2>2, <3>2, <3>3
  <2>4. Follows(<<>>, 0) /\ Rising(<<>>) /\ \A n \in 1..Len(<<>>) : <<>>[n] <= 0
    BY <2>3 DEF Follows, Rising
  <2>5. Kept
    BY <2>1, <2>2, <2>3, <2>4 DEF Kept
  <2>6. Life
    BY DEF Init, Life
  <2> QED
    BY <2>5, <2>6
<1>2. Kept /\ Life /\ [Next]_vars => (Kept /\ Life)'
  BY KeptStep, LifeStep
<1>3. Kept /\ Life => LinesKept
  <2> SUFFICES ASSUME Kept, Life PROVE LinesKept
    OBVIOUS
  <2>1. NoSendOnClosed
    BY DEF Life, NoSendOnClosed
  <2>2. NeverTwice
    BY DEF Kept, Rising, NeverTwice
  <2>3. ASSUME fin = "returned", ~warned
        PROVE  saved = [n \in 1..accepted |-> n]
    <3>1. ~batchErr /\ queue = <<>> /\ batch = <<>>
      BY <2>3 DEF Life
    <3>2. Len(saved) = accepted /\ saved \in Seq(Nat) /\ Follows(saved, 0)
      BY <3>1 DEF Kept, Gone
    <3>3. saved = [n \in 1..Len(saved) |-> saved[n]]
      BY <3>2
    <3>4. \A n \in 1..Len(saved) : saved[n] = n
      BY <3>2 DEF Follows
    <3> QED
      BY <3>2, <3>3, <3>4
  <2>4. NoSilentLoss
    BY <2>3 DEF NoSilentLoss
  <2> QED
    BY <2>1, <2>2, <2>4 DEF LinesKept
<1> QED
  BY <1>1, <1>2, <1>3, PTL DEF Spec
=============================================================================
