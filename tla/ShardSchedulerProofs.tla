------------------------ MODULE ShardSchedulerProofs ------------------------
(***************************************************************************)
(* The end of a ShardedKVEngine, for any number of shards, callers and      *)
(* files: no thread is left inside a shard, at most one compaction begins   *)
(* behind the flag, and no loop runs past the last shard.                   *)
(***************************************************************************)
EXTENDS ShardScheduler, TLAPS, Extremes, SequenceTheorems

\* What the argument needs of the types: that the places are places.
Counter == {"idle", "sleep", "wake", "test", "needs", "compact", "swap", "exited"}
Placed ==
    /\ at \in [Thread -> [pc : Counter, shard : Nat]]
    /\ late \in 0 .. 2
    /\ stop \in BOOLEAN

\* The flag is set when the owner is done with using the engine, which is when its
\* callers are; it destroys the shards when the scheduler has left its loop.
Ending ==
    /\ stop <=> owner # "using"
    /\ owner # "using" => \A t \in Caller : at[t].pc = "idle"
    /\ owner = "destroyed" => at[Scheduler].pc = "exited"

\* Behind its one late compaction the scheduler tests the flag before all else.
OneLate ==
    /\ ~stop => late = 0
    /\ late # 0 => late = 1 /\ at[Scheduler].pc \notin {"needs", "compact"}

Inv == Placed /\ Ending /\ OneLate

\* At the start nobody compacts and the flag is clear.
LEMMA InitInv == Init => Inv
<1> SUFFICES ASSUME Init PROVE Inv
  OBVIOUS
<1>1. Placed
  <2> DEFINE P(t) == [pc |-> IF t = Scheduler THEN "sleep" ELSE "idle", shard |-> 0]
  <2>1. \A t \in Thread : P(t) \in [pc : Counter, shard : Nat]
    BY DEF Counter
  <2>2. at = [t \in Thread |-> P(t)]
    BY DEF Init
  <2> HIDE DEF P
  <2>3. at \in [Thread -> [pc : Counter, shard : Nat]]
    BY <2>1, <2>2
  <2>4. stop \in BOOLEAN
    BY DEF Init
  <2>5. late \in 0 .. 2
    BY DEF Init
  <2> QED  BY <2>3, <2>4, <2>5 DEF Placed
<1>2. Ending
  BY DEF Init, Ending
<1>3. OneLate
  BY DEF Init, OneLate
<1> QED  BY <1>1, <1>2, <1>3 DEF Inv

\* A thread goes on after a compaction to no place in front of the next test.
LEMMA AfterCompactPlaced ==
    ASSUME Placed, NEW t \in Thread
    PROVE  /\ AfterCompact(t) \in [pc : Counter, shard : Nat]
           /\ t = Scheduler => AfterCompact(t).pc = "test"
<1>1. at[t] \in [pc : Counter, shard : Nat]
  BY DEF Placed
<1> QED  BY <1>1 DEF AfterCompact, Counter

\* The two steps of Compact, by any thread.
LEMMA CompactInv ==
    ASSUME Inv, NEW t \in Thread, CompactSnapshot(t) \/ CompactSwap(t)
    PROVE  Inv'
<1>1. Placed /\ Ending /\ OneLate
  BY DEF Inv
<1>2. /\ AfterCompact(t) \in [pc : Counter, shard : Nat]
      /\ t = Scheduler => AfterCompact(t).pc = "test"
  BY <1>1, AfterCompactPlaced
<1>3. at[t].pc \in {"compact", "swap"}
  BY DEF CompactSnapshot, CompactSwap
<1>4. /\ owner \in {"using"} \/ t = Scheduler
      /\ owner # "destroyed"
      /\ stop' = stop /\ owner' = owner
  BY <1>1, <1>3 DEF Ending, Thread, CompactSnapshot, CompactSwap
<1>5. PICK p \in [pc : Counter, shard : Nat] :
          /\ at' = [at EXCEPT ![t] = p]
          /\ p.pc # "needs" /\ (t = Scheduler => p.pc # "compact")
  <2>1. CASE at' = [at EXCEPT ![t] = AfterCompact(t)]
    <3>1. AfterCompact(t).pc # "needs"
      <4>1. at[t] \in [pc : Counter, shard : Nat]
        BY <1>1 DEF Placed
      <4> QED  BY <4>1 DEF AfterCompact
    <3> QED  BY <2>1, <3>1, <1>2
  <2>2. CASE at' = [at EXCEPT ![t].pc = "swap"]
    <3>1. [at[t] EXCEPT !.pc = "swap"] \in [pc : Counter, shard : Nat]
      BY <1>1 DEF Placed, Counter
    <3>2. at' = [at EXCEPT ![t] = [at[t] EXCEPT !.pc = "swap"]]
      BY <2>2
    <3>3. [at[t] EXCEPT !.pc = "swap"].pc = "swap"
      BY <1>1 DEF Placed
    <3> QED  BY <3>1, <3>2, <3>3
  <2> QED  BY <2>1, <2>2 DEF CompactSnapshot, CompactSwap
<1>6. late' = late \/ (late' = late + 1 /\ t = Scheduler /\ stop /\ at[t].pc = "compact")
  BY DEF CompactSnapshot, CompactSwap
<1>7. late' \in {0, 1} /\ (late' # late => late = 0 /\ late' = 1 /\ stop)
  BY <1>1, <1>6 DEF OneLate, Placed
<1>8. Placed'
  BY <1>1, <1>4, <1>5, <1>7 DEF Placed
<1>9. Ending'
  <2>1. \A c \in Caller : t # c => at'[c] = at[c]
    BY <1>1, <1>5 DEF Placed, Thread
  <2>2. owner # "using" => \A c \in Caller : t # c
    BY <1>4, SchedulerAssumption DEF SchedulerAssumption
  <2> QED  BY <1>1, <1>4, <2>1, <2>2 DEF Ending
<1>10. OneLate'
  <2>1. t = Scheduler => at'[Scheduler].pc \notin {"needs", "compact"}
    BY <1>1, <1>5 DEF Placed
  <2>2. t # Scheduler => at'[Scheduler] = at[Scheduler] /\ late' = late
    BY <1>1, <1>5, <1>6 DEF Placed, Thread
  <2> QED  BY <1>1, <1>4, <1>7, <2>1, <2>2 DEF OneLate
<1> QED  BY <1>8, <1>9, <1>10 DEF Inv

\* The loops of the scheduler.
LEMMA SchedulerInv ==
    ASSUME Inv, Sleep \/ Wake \/ TestStop \/ NeedsCompaction
    PROVE  Inv'
<1>1. Placed /\ Ending /\ OneLate
  BY DEF Inv
<1>2. at[Scheduler] \in [pc : Counter, shard : Nat] /\ Scheduler \in Thread
  BY <1>1 DEF Placed, Thread
<1>3. PICK pc \in Counter, s \in Nat :
          /\ at' = [at EXCEPT ![Scheduler] = [pc |-> pc, shard |-> s]]
          /\ UNCHANGED <<stop, owner, late>>
          /\ at[Scheduler].pc # "exited"
          /\ pc \in {"needs", "compact"} => ~stop \/ at[Scheduler].pc = "needs"
  <2>1. CASE Sleep  BY <2>1 DEF Sleep, SchedulerGoesTo, Counter
  <2>2. CASE Wake  BY <2>2 DEF Wake, SchedulerGoesTo, Counter
  <2>3. CASE TestStop
    <3>1. CASE at[Scheduler].shard = ShardNum \/ stop
      BY <2>3, <3>1 DEF TestStop, SchedulerGoesTo, Counter
    <3>2. CASE ~(at[Scheduler].shard = ShardNum \/ stop)
      BY <2>3, <3>2, <1>2 DEF TestStop, SchedulerGoesTo, Counter
    <3> QED  BY <3>1, <3>2
  <2>4. CASE NeedsCompaction
    <3> DEFINE s == at[Scheduler].shard
    <3>1. s \in Nat /\ s + 1 \in Nat
      BY <1>2
    <3>2. CASE SchedulerGoesTo("compact", s)
      BY <2>4, <3>1, <3>2 DEF NeedsCompaction, SchedulerGoesTo, Counter
    <3>3. CASE SchedulerGoesTo("test", s + 1)
      BY <2>4, <3>1, <3>3 DEF NeedsCompaction, SchedulerGoesTo, Counter
    <3> QED  BY <2>4, <3>2, <3>3 DEF NeedsCompaction
  <2> QED  BY <2>1, <2>2, <2>3, <2>4
<1>4. Placed'
  BY <1>1, <1>3 DEF Placed
<1>5. /\ at'[Scheduler].pc = pc
      /\ \A t \in Caller : at'[t] = at[t]
  BY <1>1, <1>2, <1>3, SchedulerAssumption DEF Placed, Thread, SchedulerAssumption
<1>6. Ending'
  BY <1>1, <1>3, <1>5 DEF Ending
<1>7. OneLate'
  BY <1>1, <1>3, <1>5 DEF OneLate
<1> QED  BY <1>4, <1>6, <1>7 DEF Inv

\* A call of CompactAll.
LEMMA CallInv ==
    ASSUME Inv, NEW t \in Caller, CompactAll(t)
    PROVE  Inv'
<1>1. Placed /\ Ending /\ OneLate /\ t \in Thread /\ t # Scheduler
  BY SchedulerAssumption DEF Inv, Thread, SchedulerAssumption
<1>2. /\ owner = "using"
      /\ at' = [at EXCEPT ![t] = [pc |-> "compact", shard |-> 0]]
      /\ UNCHANGED <<stop, owner, late>>
  BY DEF CompactAll
<1>3. Placed'
  BY <1>1, <1>2 DEF Placed, Counter
<1>4. Ending'
  BY <1>1, <1>2 DEF Ending
<1>5. at'[Scheduler] = at[Scheduler]
  BY <1>1, <1>2 DEF Placed, Thread
<1>6. OneLate'
  BY <1>1, <1>2, <1>5 DEF OneLate
<1> QED  BY <1>3, <1>4, <1>6 DEF Inv

\* Inv is an invariant.
LEMMA Invariance == Spec => []Inv
<1>1. Inv /\ [Next]_vars => Inv'
  <2> SUFFICES ASSUME Inv, [Next]_vars PROVE Inv'
    OBVIOUS
  <2>1. CASE \E s \in Shard, puts \in BOOLEAN : Flush(s, puts)
    BY <2>1 DEF Flush, Inv, Placed, Ending, OneLate
  <2>2. CASE Sleep \/ Wake \/ TestStop \/ NeedsCompaction
    BY <2>2, SchedulerInv
  <2>3. CASE CompactSnapshot(Scheduler) \/ CompactSwap(Scheduler)
    BY <2>3, CompactInv DEF Thread
  <2>4. CASE \E t \in Caller : CompactAll(t)
    BY <2>4, CallInv
  <2>5. CASE \E t \in Caller : CallerStep(t)
    BY <2>5, CompactInv DEF Thread, CallerStep
  <2>6. CASE Destroy
    BY <2>6 DEF Destroy, Inv, Placed, Ending, OneLate
  <2>7. CASE Join
    BY <2>7 DEF Join, Inv, Placed, Ending, OneLate
  <2>8. CASE UNCHANGED vars
    BY <2>8 DEF vars, Inv, Placed, Ending, OneLate
  <2> QED  BY <2>1, <2>2, <2>3, <2>4, <2>5, <2>6, <2>7, <2>8 DEF Next, SchedulerStep
<1> QED  BY InitInv, <1>1, PTL DEF Spec

\* The shards are destroyed when no thread is inside them (~ShardedKVEngine): join
\* returned, and whoever was in CompactAll had returned before.
THEOREM NobodyIsInside == Spec => []NobodyInside
<1>1. Inv => NobodyInside
  BY DEF Inv, Ending, NobodyInside, Thread
<1> QED  BY <1>1, Invariance, PTL

\* The destructor waits for one compaction that begins behind the flag, never two:
\* whatever the number of shards (BackgroundCompactScheduler).
THEOREM OnlyOneLate == Spec => []ShutdownIsPrompt
<1>1. Inv => ShutdownIsPrompt
  BY DEF Inv, Placed, OneLate, ShutdownIsPrompt
<1> QED  BY <1>1, Invariance, PTL
-----------------------------------------------------------------------------
(* The index into shards_.                                                 *)

\* A place a thread may move to.
GoodPlace(p) == p \in Place /\ (p.pc \in {"needs", "compact", "swap"} => p.shard \in Shard)

\* Moving one thread to a good place keeps all of them good.
LEMMA MoveInBounds ==
    ASSUME ShardInBounds, NEW t \in Thread, NEW p, GoodPlace(p),
           at' = [at EXCEPT ![t] = p]
    PROVE  ShardInBounds'
<1>1. at' \in [Thread -> Place]
  BY DEF ShardInBounds, GoodPlace
<1>2. \A u \in Thread : at'[u] = IF u = t THEN p ELSE at[u]
  BY DEF ShardInBounds
<1> QED  BY <1>1, <1>2 DEF ShardInBounds, GoodPlace, Place, Shard

\* A compaction of a shard leads to the next shard, if there is one.
LEMMA AfterCompactInBounds ==
    ASSUME ShardInBounds, NEW t \in Thread, at[t].pc \in {"compact", "swap"}
    PROVE  GoodPlace(AfterCompact(t)) /\ GoodPlace([at[t] EXCEPT !.pc = "swap"])
<1>1. at[t] \in Place /\ at[t].shard \in Shard /\ ShardNum \in Nat \ {0}
  BY SchedulerAssumption DEF ShardInBounds, SchedulerAssumption
<1>2. GoodPlace([at[t] EXCEPT !.pc = "swap"])
  BY <1>1 DEF GoodPlace, Place
<1>3. CASE t = Scheduler
  BY <1>1, <1>3 DEF GoodPlace, Place, AfterCompact, Shard
<1>4. CASE t # Scheduler /\ at[t].shard = ShardNum - 1
  BY <1>1, <1>4 DEF GoodPlace, Place, AfterCompact, Shard
<1>5. CASE t # Scheduler /\ at[t].shard # ShardNum - 1
  BY <1>1, <1>5 DEF GoodPlace, Place, AfterCompact, Shard
<1> QED  BY <1>2, <1>3, <1>4, <1>5

\* The steps of Compact keep the index in bounds.
LEMMA CompactInBounds ==
    ASSUME ShardInBounds, NEW t \in Thread, CompactSnapshot(t) \/ CompactSwap(t)
    PROVE  ShardInBounds'
<1>1. at[t].pc \in {"compact", "swap"}
  BY DEF CompactSnapshot, CompactSwap
<1>2. at[t] \in Place /\ at \in [Thread -> Place]
  BY DEF ShardInBounds
<1>3. \/ at' = [at EXCEPT ![t] = AfterCompact(t)]
      \/ at' = [at EXCEPT ![t].pc = "swap"]
  BY DEF CompactSnapshot, CompactSwap
<1>4. \/ at' = [at EXCEPT ![t] = AfterCompact(t)]
      \/ at' = [at EXCEPT ![t] = [at[t] EXCEPT !.pc = "swap"]]
  BY <1>2, <1>3
<1> QED  BY <1>1, <1>4, AfterCompactInBounds, MoveInBounds

\* Wherever the scheduler goes is a good place.
LEMMA SchedulerInBounds ==
    ASSUME ShardInBounds, Sleep \/ Wake \/ TestStop \/ NeedsCompaction
    PROVE  ShardInBounds'
<1>1. /\ Scheduler \in Thread /\ ShardNum \in Nat \ {0}
      /\ at[Scheduler] \in Place
      /\ at[Scheduler].pc = "needs" => at[Scheduler].shard \in Shard
  BY SchedulerAssumption DEF Thread, SchedulerAssumption, ShardInBounds
<1> DEFINE s == at[Scheduler].shard
<1>2. ASSUME NEW pc, NEW i, SchedulerGoesTo(pc, i), GoodPlace([pc |-> pc, shard |-> i])
      PROVE  ShardInBounds'
  BY <1>1, <1>2, MoveInBounds DEF SchedulerGoesTo
<1>3. /\ GoodPlace([pc |-> "exited", shard |-> 0]) /\ GoodPlace([pc |-> "wake", shard |-> 0])
      /\ GoodPlace([pc |-> "sleep", shard |-> 0]) /\ GoodPlace([pc |-> "test", shard |-> 0])
  BY <1>1 DEF GoodPlace, Place
<1>4. CASE Sleep  BY <1>2, <1>3, <1>4 DEF Sleep
<1>5. CASE Wake  BY <1>2, <1>3, <1>5 DEF Wake
<1>6. CASE TestStop
  <2>1. s # ShardNum => GoodPlace([pc |-> "needs", shard |-> s])
    BY <1>1 DEF GoodPlace, Place, Shard
  <2>2. CASE s = ShardNum \/ stop
    BY <1>2, <1>3, <1>6, <2>2 DEF TestStop
  <2>3. CASE ~(s = ShardNum \/ stop)
    BY <1>2, <1>6, <2>1, <2>3 DEF TestStop
  <2> QED  BY <2>2, <2>3
<1>7. CASE NeedsCompaction
  <2>1. s \in Shard
    BY <1>1, <1>7 DEF NeedsCompaction
  <2>2. GoodPlace([pc |-> "compact", shard |-> s]) /\ GoodPlace([pc |-> "test", shard |-> s + 1])
    BY <1>1, <2>1 DEF GoodPlace, Place, Shard
  <2>3. SchedulerGoesTo("compact", s) \/ SchedulerGoesTo("test", s + 1)
    BY <1>7 DEF NeedsCompaction
  <2> QED  BY <1>2, <2>2, <2>3
<1> QED  BY <1>4, <1>5, <1>6, <1>7

\* Neither loop over the shards, the scheduler's or CompactAll's, runs past the last
\* one: whoever is about to call a shard has an index of shards_.
THEOREM ShardIndexInBounds == Spec => []ShardInBounds
<1>1. Init => ShardInBounds
  <2> SUFFICES ASSUME Init PROVE ShardInBounds
    OBVIOUS
  <2> DEFINE P(t) == [pc |-> IF t = Scheduler THEN "sleep" ELSE "idle", shard |-> 0]
  <2>1. \A t \in Thread : P(t) \in Place /\ P(t).pc \notin {"needs", "compact", "swap"}
    BY SchedulerAssumption DEF Place, SchedulerAssumption
  <2>2. at = [t \in Thread |-> P(t)]
    BY DEF Init
  <2> HIDE DEF P
  <2> QED  BY <2>1, <2>2 DEF ShardInBounds
<1>2. ShardInBounds /\ [Next]_vars => ShardInBounds'
  <2> SUFFICES ASSUME ShardInBounds, [Next]_vars PROVE ShardInBounds'
    OBVIOUS
  <2>1. CASE at' = at
    BY <2>1 DEF ShardInBounds, Place, Shard
  <2>2. CASE Sleep \/ Wake \/ TestStop \/ NeedsCompaction
    BY <2>2, SchedulerInBounds
  <2>3. CASE \E t \in Thread : CompactSnapshot(t) \/ CompactSwap(t)
    BY <2>3, CompactInBounds
  <2>4. ASSUME NEW t \in Caller, CompactAll(t) PROVE ShardInBounds'
    <3>1. GoodPlace([pc |-> "compact", shard |-> 0])
      BY SchedulerAssumption DEF SchedulerAssumption, GoodPlace, Place, Shard
    <3> QED  BY <2>4, <3>1, MoveInBounds DEF CompactAll, Thread
  <2>5. \/ at' = at
        \/ Sleep \/ Wake \/ TestStop \/ NeedsCompaction
        \/ \E t \in Thread : CompactSnapshot(t) \/ CompactSwap(t)
        \/ \E t \in Caller : CompactAll(t)
    BY DEF Next, SchedulerStep, CallerStep, Thread, Flush, Destroy, Join, vars
  <2> QED  BY <2>1, <2>2, <2>3, <2>4, <2>5
<1> QED  BY <1>1, <1>2, PTL DEF Spec

-----------------------------------------------------------------------------
(* The lists of readers.                                                   *)

\* What the loop over sstables_ has kept of the first n readers.
KeptNext(readers, t, n, before) ==
    IF n = 0 THEN <<>>
    ELSE IF t \in readers[n].in THEN before
    ELSE Append(before, readers[n])

Keeps(readers, t, m, g) ==
    /\ g \in [0 .. m -> Seq(Reader)]
    /\ \A n \in 0 .. m : g[n] = KeptNext(readers, t, n, g[n - 1])

\* There is such a loop for each number of readers: it could not be the first one
\* that lacks it.
LEMMA LoopEnds ==
    ASSUME NEW readers \in Seq(Reader), NEW t
    PROVE  \E g : Keeps(readers, t, Len(readers), g)
<1>1. Len(readers) \in Nat /\ \A n \in 1 .. Len(readers) : readers[n] \in Reader
  BY LenProperties, ElementOfSeq
<1>2. \A n \in 0 .. Len(readers), before \in Seq(Reader) :
         KeptNext(readers, t, n, before) \in Seq(Reader)
  <2> SUFFICES ASSUME NEW n \in 0 .. Len(readers), NEW before \in Seq(Reader)
               PROVE  KeptNext(readers, t, n, before) \in Seq(Reader)
    OBVIOUS
  <2>1. CASE n = 0
    BY <2>1 DEF KeptNext
  <2>2. CASE n # 0
    <3>1. readers[n] \in Reader
      BY <1>1, <2>2
    <3>2. Append(before, readers[n]) \in Seq(Reader)
      BY <3>1, AppendProperties
    <3> QED BY <2>2, <3>2 DEF KeptNext
  <2> QED BY <2>1, <2>2
<1> DEFINE Bad == {m \in 0 .. Len(readers) : ~\E g : Keeps(readers, t, m, g)}
<1>3. ASSUME NEW m \in Bad, \A l \in Bad : m <= l PROVE FALSE
  <2>1. m \in 0 .. Len(readers) /\ ~\E g : Keeps(readers, t, m, g)
    OBVIOUS
  <2>2. m # 0
    <3> DEFINE g == [n \in 0 .. 0 |-> <<>>]
    <3>1. Keeps(readers, t, 0, g)
      BY DEF Keeps, KeptNext
    <3> HIDE DEF g
    <3> QED BY <2>1, <3>1
  <2>3. m - 1 \in 0 .. Len(readers) /\ ~(m <= m - 1) /\ m \in Nat /\ m >= 1
    BY <1>1, <2>1, <2>2
  <2>4. m - 1 \notin Bad
    <3> HIDE DEF Bad
    <3> QED BY <1>3, <2>3
  <2>5. PICK g : Keeps(readers, t, m - 1, g)
    BY <2>3, <2>4
  <2> HIDE DEF Bad
  <2>6. /\ g \in [0 .. m - 1 -> Seq(Reader)]
        /\ \A n \in 0 .. m - 1 : g[n] = KeptNext(readers, t, n, g[n - 1])
    BY <2>5 DEF Keeps
  <2> DEFINE last == KeptNext(readers, t, m, g[m - 1])
             h == [n \in 0 .. m |-> IF n = m THEN last ELSE g[n]]
  <2>7. last \in Seq(Reader)
    <3>1. g[m - 1] \in Seq(Reader)
      BY <2>3, <2>6
    <3> QED BY <1>2, <2>1, <3>1
  <2> HIDE DEF last
  <2>8. h \in [0 .. m -> Seq(Reader)]
    BY <2>3, <2>6, <2>7
  <2>9. ASSUME NEW n \in 0 .. m PROVE h[n] = KeptNext(readers, t, n, h[n - 1])
    <3>1. CASE n = m
      <4>1. h[n] = last /\ h[n - 1] = g[m - 1]
        BY <2>3, <3>1
      <4> QED BY <3>1, <4>1 DEF last
    <3>2. CASE n # m /\ n # 0
      <4>1. h[n] = g[n] /\ h[n - 1] = g[n - 1] /\ n \in 0 .. m - 1
        BY <2>3, <3>2
      <4> HIDE DEF h
      <4> QED BY <2>6, <4>1
    <3>3. CASE n # m /\ n = 0
      <4>1. h[n] = g[n] /\ n \in 0 .. m - 1
        BY <2>3, <3>3
      <4> HIDE DEF h
      <4> QED BY <2>6, <3>3, <4>1 DEF KeptNext
    <3> QED BY <3>1, <3>2, <3>3
  <2>10. Keeps(readers, t, m, h)
    <3> HIDE DEF h
    <3> QED BY <2>8, <2>9 DEF Keeps
  <2> QED BY <2>1, <2>10
<1>4. Bad = {}
  <2> SUFFICES ASSUME Bad # {} PROVE FALSE
    OBVIOUS
  <2>1. Bad \in SUBSET Nat
    OBVIOUS
  <2> HIDE DEF Bad
  <2>2. PICK m \in Bad : \A l \in Bad : m <= l
    BY <2>1, LeastExists
  <2> QED BY <1>3, <2>2
<1>5. Len(readers) \in 0 .. Len(readers)
  BY <1>1
<1> QED BY <1>4, <1>5

\* What is kept are readers.
LEMMA RemainingTyped ==
    ASSUME NEW readers \in Seq(Reader), NEW t
    PROVE  Remaining(readers, t) \in Seq(Reader)
<1> DEFINE kept == CHOOSE g : g = [n \in 0 .. Len(readers) |->
                        IF n = 0 THEN <<>>
                        ELSE IF t \in readers[n].in THEN g[n - 1]
                        ELSE Append(g[n - 1], readers[n])]
<1>1. Remaining(readers, t) = kept[Len(readers)]
  BY DEF Remaining
<1>2. PICK g : Keeps(readers, t, Len(readers), g)
  BY LoopEnds
<1>3. g = [n \in 0 .. Len(readers) |->
              IF n = 0 THEN <<>>
              ELSE IF t \in readers[n].in THEN g[n - 1]
              ELSE Append(g[n - 1], readers[n])]
  BY <1>2, Zenon DEF Keeps, KeptNext
<1>4. kept = [n \in 0 .. Len(readers) |->
              IF n = 0 THEN <<>>
              ELSE IF t \in readers[n].in THEN kept[n - 1]
              ELSE Append(kept[n - 1], readers[n])]
  BY <1>3, Zenon
<1> HIDE DEF kept
<1>5. Len(readers) \in Nat /\ \A n \in 1 .. Len(readers) : readers[n] \in Reader
  BY LenProperties, ElementOfSeq
<1> DEFINE Bad == {n \in 0 .. Len(readers) : kept[n] \notin Seq(Reader)}
<1>6. ASSUME NEW m \in Bad, \A l \in Bad : m <= l PROVE FALSE
  <2>1. m \in 0 .. Len(readers) /\ kept[m] \notin Seq(Reader)
    OBVIOUS
  <2>2. CASE m = 0
    BY <1>4, <2>1, <2>2
  <2>3. CASE m # 0
    <3>1. m - 1 \in 0 .. Len(readers) /\ ~(m <= m - 1) /\ m \in 1 .. Len(readers)
      BY <1>5, <2>1, <2>3
    <3>2. m - 1 \notin Bad
      <4> HIDE DEF Bad
      <4> QED BY <1>6, <3>1
    <3>3. kept[m - 1] \in Seq(Reader)
      BY <3>1, <3>2
    <3>4. Append(kept[m - 1], readers[m]) \in Seq(Reader)
      BY <1>5, <3>1, <3>3, AppendProperties
    <3>5. kept[m] = IF t \in readers[m].in THEN kept[m - 1] ELSE Append(kept[m - 1], readers[m])
      BY <1>4, <2>1, <2>3
    <3> QED BY <2>1, <3>3, <3>4, <3>5
  <2> QED BY <2>2, <2>3
<1>7. Bad = {}
  <2> SUFFICES ASSUME Bad # {} PROVE FALSE
    OBVIOUS
  <2>1. Bad \in SUBSET Nat
    OBVIOUS
  <2> HIDE DEF Bad
  <2>2. PICK m \in Bad : \A l \in Bad : m <= l
    BY <2>1, LeastExists
  <2> QED BY <1>6, <2>2
<1> QED BY <1>1, <1>5, <1>7


\* The part of TypeOK that ShardInBounds and Inv leave over.
Lists ==
    /\ sstables \in [Shard -> Seq(Reader)]
    /\ merging \in [Thread -> SUBSET BOOLEAN]
    /\ owner \in {"using", "joining", "destroyed"}

\* A new reader in front of readers.
LEMMA FrontTyped ==
    ASSUME NEW readers \in Seq(Reader), NEW puts \in BOOLEAN
    PROVE  <<[puts |-> puts, in |-> {}]>> \o readers \in Seq(Reader)
<1>1. [puts |-> puts, in |-> {}] \in Reader
  BY DEF Reader
<1>2. <<[puts |-> puts, in |-> {}]>> \in Seq(Reader)
  BY <1>1
<1> QED  BY <1>2, ConcatProperties

\* A snapshot marks the readers it holds, and giving up takes the marks away.
LEMMA MarkedTyped ==
    ASSUME NEW readers \in Seq(Reader), NEW marks \in [DOMAIN readers -> SUBSET Thread]
    PROVE  [i \in DOMAIN readers |-> [readers[i] EXCEPT !.in = marks[i]]] \in Seq(Reader)
<1>1. DOMAIN readers = 1 .. Len(readers) /\ Len(readers) \in Nat
  BY LenProperties
<1>2. \A i \in 1 .. Len(readers) : readers[i] \in Reader
  BY ElementOfSeq
<1>3. \A i \in 1 .. Len(readers) : [readers[i] EXCEPT !.in = marks[i]] \in Reader
  BY <1>1, <1>2 DEF Reader
<1> DEFINE f == [i \in DOMAIN readers |-> [readers[i] EXCEPT !.in = marks[i]]]
<1>4. f \in [1 .. Len(readers) -> Reader]
  BY <1>1, <1>3
<1> QED  BY <1>1, <1>4, SeqDef

\* The same readers, held and released.
LEMMA HeldTyped ==
    ASSUME NEW readers \in Seq(Reader), NEW t \in Thread
    PROVE  Held(readers, t) \in Seq(Reader) /\ Released(readers, t) \in Seq(Reader)
<1>1. \A i \in DOMAIN readers : readers[i].in \in SUBSET Thread
  <2>1. \A i \in DOMAIN readers : readers[i] \in Reader
    BY LenProperties, ElementOfSeq
  <2> QED  BY <2>1 DEF Reader
<1>2. Held(readers, t) \in Seq(Reader)
  <2> DEFINE marks == [i \in DOMAIN readers |-> readers[i].in \cup {t}]
  <2>1. marks \in [DOMAIN readers -> SUBSET Thread]
    BY <1>1
  <2>2. Held(readers, t) = [i \in DOMAIN readers |-> [readers[i] EXCEPT !.in = marks[i]]]
    BY DEF Held
  <2> HIDE DEF marks
  <2> QED  BY <2>1, <2>2, MarkedTyped
<1>3. Released(readers, t) \in Seq(Reader)
  <2> DEFINE marks == [i \in DOMAIN readers |-> readers[i].in \ {t}]
  <2>1. marks \in [DOMAIN readers -> SUBSET Thread]
    BY <1>1
  <2>2. Released(readers, t) = [i \in DOMAIN readers |-> [readers[i] EXCEPT !.in = marks[i]]]
    BY DEF Released
  <2> HIDE DEF marks
  <2> QED  BY <2>1, <2>2, MarkedTyped
<1> QED  BY <1>2, <1>3

\* One list changes, and stays a list of readers.
LEMMA OneListTyped ==
    ASSUME Lists, NEW s \in Shard, NEW readers \in Seq(Reader),
           sstables' = [sstables EXCEPT ![s] = readers]
    PROVE  sstables' \in [Shard -> Seq(Reader)]
BY DEF Lists

\* The two steps of Compact keep the types.
LEMMA CompactLists ==
    ASSUME Lists, ShardInBounds, NEW t \in Thread, CompactSnapshot(t) \/ CompactSwap(t)
    PROVE  Lists'
<1> DEFINE s == at[t].shard
<1>1. s \in Shard
  <2>1. at[t].pc \in {"compact", "swap"}
    BY DEF CompactSnapshot, CompactSwap
  <2> QED  BY <2>1 DEF ShardInBounds
<1> HIDE DEF s
<1>2. sstables[s] \in Seq(Reader) /\ owner' = owner
  BY <1>1 DEF Lists, CompactSnapshot, CompactSwap
<1>3. CASE UNCHANGED <<sstables, merging>>
  BY <1>2, <1>3 DEF Lists
<1>4. CASE /\ merging' = [merging EXCEPT ![t] = {r.puts : r \in ToSet(sstables[s])}]
           /\ sstables' = [sstables EXCEPT ![s] = Held(@, t)]
  <2>1. sstables' \in [Shard -> Seq(Reader)]
    BY <1>1, <1>2, <1>4, HeldTyped, OneListTyped
  <2>2. {r.puts : r \in ToSet(sstables[s])} \in SUBSET BOOLEAN
    <3>1. \A r \in ToSet(sstables[s]) : r \in Reader
      BY <1>2, LenProperties, ElementOfSeq DEF ToSet
    <3> QED  BY <3>1 DEF Reader
  <2> QED  BY <1>2, <1>4, <2>1, <2>2 DEF Lists
<1>5. CASE CompactSwap(t)
  <2>1. merging' = [merging EXCEPT ![t] = {}]
    BY <1>5 DEF CompactSwap
  <2>2. CASE sstables' = [sstables EXCEPT ![s] =
                <<[puts |-> TRUE, in |-> {}]>> \o Remaining(@, t)]
    <3>1. <<[puts |-> TRUE, in |-> {}]>> \o Remaining(sstables[s], t) \in Seq(Reader)
      BY <1>2, RemainingTyped, FrontTyped
    <3>2. sstables' \in [Shard -> Seq(Reader)]
      BY <1>1, <2>2, <3>1, OneListTyped
    <3> QED  BY <1>2, <2>1, <3>2 DEF Lists
  <2>3. CASE sstables' = [sstables EXCEPT ![s] = Released(@, t)]
    <3>1. sstables' \in [Shard -> Seq(Reader)]
      BY <1>1, <1>2, <2>3, HeldTyped, OneListTyped
    <3> QED  BY <1>2, <2>1, <3>1 DEF Lists
  <2> QED  BY <1>5, <2>2, <2>3 DEF CompactSwap, s
<1> QED  BY <1>3, <1>4, <1>5 DEF CompactSnapshot, s

\* Every variable keeps its type, for any number of shards, callers and files: what a
\* swap leaves of a list are readers, whatever came into the list since the snapshot
\* (KVEngine::Compact), and the shards are indexed inside their bounds.
THEOREM SchedulerTypes == Spec => []TypeOK
<1>1. Init => Lists
  <2> SUFFICES ASSUME Init PROVE Lists
    OBVIOUS
  <2>1. sstables \in [Shard -> Seq(Reader)]
    <3>1. <<>> \in Seq(Reader)
      OBVIOUS
    <3> QED  BY <3>1 DEF Init
  <2> QED  BY <2>1 DEF Init, Lists
<1>2. Lists /\ ShardInBounds /\ [Next]_vars => Lists'
  <2> SUFFICES ASSUME Lists, ShardInBounds, [Next]_vars PROVE Lists'
    OBVIOUS
  <2>1. ASSUME NEW s \in Shard, NEW puts \in BOOLEAN, Flush(s, puts) PROVE Lists'
    <3>1. sstables[s] \in Seq(Reader)
      BY DEF Lists
    <3>2. <<[puts |-> puts, in |-> {}]>> \o sstables[s] \in Seq(Reader)
      BY <3>1, FrontTyped
    <3>3. sstables' \in [Shard -> Seq(Reader)]
      <4>1. sstables' = [sstables EXCEPT ![s] = <<[puts |-> puts, in |-> {}]>> \o sstables[s]]
        BY <2>1 DEF Flush
      <4> QED  BY <3>2, <4>1, OneListTyped
    <3> QED  BY <2>1, <3>3 DEF Flush, Lists
  <2>2. CASE \E t \in Thread : CompactSnapshot(t) \/ CompactSwap(t)
    BY <2>2, CompactLists
  <2>3. CASE UNCHANGED <<sstables, merging>> /\ owner' \in {owner, "joining", "destroyed"}
    BY <2>3 DEF Lists
  <2>4. \/ \E s \in Shard, puts \in BOOLEAN : Flush(s, puts)
        \/ \E t \in Thread : CompactSnapshot(t) \/ CompactSwap(t)
        \/ UNCHANGED <<sstables, merging>> /\ owner' \in {owner, "joining", "destroyed"}
    <3>1. CASE Sleep \/ Wake \/ TestStop \/ NeedsCompaction
      BY <3>1 DEF Sleep, Wake, TestStop, NeedsCompaction, SchedulerGoesTo
    <3>2. CASE (\E t \in Caller : CompactAll(t)) \/ Destroy \/ Join \/ UNCHANGED vars
      BY <3>2 DEF CompactAll, Destroy, Join, vars
    <3> QED  BY <3>1, <3>2 DEF Next, SchedulerStep, CallerStep, Thread
  <2> QED  BY <2>1, <2>2, <2>3, <2>4
<1>3. Lists /\ ShardInBounds /\ Inv => TypeOK
  BY DEF Lists, Inv, Placed, TypeOK
<1> QED  BY <1>1, <1>2, <1>3, ShardIndexInBounds, Invariance, PTL DEF Spec
=============================================================================
