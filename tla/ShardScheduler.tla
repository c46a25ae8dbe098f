--------------------------- MODULE ShardScheduler ---------------------------
(***************************************************************************)
(* Who compacts the shards of a ShardedKVEngine and when                   *)
(* (src/include/sharded_kv_engine.h): the background thread that looks at  *)
(* every shard every two seconds, the callers of CompactAll, and the       *)
(* destructor, which stops the thread and then destroys the shards.        *)
(*                                                                         *)
(* Of a shard only its list of readers counts here: how many there are and *)
(* whether a merge of them leaves anything.  A reader is put into the list *)
(* by a flush of its shard, at any time.  The steps inside one compaction  *)
(* are KVEngine.tla; here it is a snapshot and a swap, since flushes and   *)
(* another compaction of the same shard may come in between.               *)
(***************************************************************************)
EXTENDS Naturals, FiniteSets, SequencesExt

CONSTANTS
    ShardNum,   \* shard_num_
    Caller,     \* threads that may be in CompactAll
    Threshold,  \* what NeedsCompaction is called with
    MaxList     \* bound: readers of a shard that flushes add up to

Scheduler == "scheduler"

ASSUME SchedulerAssumption ==
    /\ ShardNum \in Nat \ {0}
    /\ Threshold \in Nat \ {0, 1}
    /\ MaxList \in Nat
    /\ IsFiniteSet(Caller)
    /\ Scheduler \notin Caller

Thread == Caller \cup {Scheduler}
Shard == 0 .. ShardNum - 1

VARIABLES
    sstables,   \* sstables[s]: sstables_ of shard s, newest first
    at,         \* at[t]: where thread t is, and its loop variable
    merging,    \* merging[t]: the kinds of files thread t has a snapshot of
    stop,       \* stop_bg_thread_
    owner,      \* the thread that owns the engine: using, joining, destroyed
    late        \* history: compactions the scheduler began after stop was set, up to 2

vars == <<sstables, at, merging, stop, owner, late>>

\* puts: the file holds a put, perhaps beside tombstones; without one it holds nothing
\* else.  in: the threads whose snapshot it is in.
Reader == [puts : BOOLEAN, in : SUBSET Thread]

Place == [pc : {"idle", "sleep", "wake", "test", "needs", "compact", "swap", "exited"},
          shard : 0 .. ShardNum]

Init ==
    /\ sstables = [s \in Shard |-> <<>>]
    /\ at = [t \in Thread |-> [pc |-> IF t = Scheduler THEN "sleep" ELSE "idle",
                               shard |-> 0]]
    /\ merging = [t \in Thread |-> {}]
    /\ stop = FALSE
    /\ owner = "using"
    /\ late = 0

\* A flush of shard s, called by a put or by force_flush.
Flush(s, puts) ==
    /\ owner = "using"
    /\ Len(sstables[s]) < MaxList
    /\ sstables' = [sstables EXCEPT ![s] = <<[puts |-> puts, in |-> {}]>> \o @]
    /\ UNCHANGED <<at, merging, stop, owner, late>>
-----------------------------------------------------------------------------
(* KVEngine::Compact, called by thread t at its shard.                     *)

\* (Mutants: the scheduler repeats a shard until it is below the threshold; the
\* loop of CompactAll runs one shard too far.)
AfterCompactAgain(t) ==
    IF t = Scheduler THEN [pc |-> "needs", shard |-> at[t].shard]
    ELSE IF at[t].shard = ShardNum - 1 THEN [pc |-> "idle", shard |-> 0]
    ELSE [pc |-> "compact", shard |-> at[t].shard + 1]
AfterCompactFar(t) ==
    IF t = Scheduler THEN [pc |-> "test", shard |-> at[t].shard + 1]
    ELSE IF at[t].shard = ShardNum THEN [pc |-> "idle", shard |-> 0]
    ELSE [pc |-> "compact", shard |-> at[t].shard + 1]

\* Where a thread goes on after the compaction of its shard.
AfterCompact(t) ==
    IF t = Scheduler THEN [pc |-> "test", shard |-> at[t].shard + 1]
    ELSE IF at[t].shard = ShardNum - 1 THEN [pc |-> "idle", shard |-> 0]
    ELSE [pc |-> "compact", shard |-> at[t].shard + 1]

\* The readers when thread t has taken its snapshot, and when it has given it up.
Held(readers, t) ==
    [i \in DOMAIN readers |-> [readers[i] EXCEPT !.in = readers[i].in \cup {t}]]
Released(readers, t) ==
    [i \in DOMAIN readers |-> [readers[i] EXCEPT !.in = readers[i].in \ {t}]]

\* The snapshot; with at most one reader there is nothing to do.
CompactSnapshot(t) ==
    LET s == at[t].shard IN
    /\ at[t].pc = "compact"
    /\ late' = IF t = Scheduler /\ stop /\ late < 2 THEN late + 1 ELSE late
    /\ IF Len(sstables[s]) <= 1
       THEN /\ at' = [at EXCEPT ![t] = AfterCompact(t)]
            /\ UNCHANGED <<sstables, merging>>
       ELSE /\ at' = [at EXCEPT ![t].pc = "swap"]
            /\ merging' = [merging EXCEPT ![t] = {r.puts : r \in ToSet(sstables[s])}]
            /\ sstables' = [sstables EXCEPT ![s] = Held(@, t)]
    /\ UNCHANGED <<stop, owner>>

\* remaining_sstables: the readers that are not in the snapshot of t.
Remaining(readers, t) ==
    LET kept[n \in 0 .. Len(readers)] ==
            IF n = 0 THEN <<>>
            ELSE IF t \in readers[n].in THEN kept[n - 1]
            ELSE Append(kept[n - 1], readers[n])
    IN  kept[Len(readers)]

\* The swap.  A merge leaves nothing without a put, or if tombstones cover every put;
\* then its file is empty and Open refuses it, as it may refuse any file that was not
\* written or cannot be read: Compact gives up with its inputs still listed.
CompactSwap(t) ==
    LET s == at[t].shard IN
    /\ at[t].pc = "swap"
    /\ \/ /\ TRUE \in merging[t]
          /\ sstables' = [sstables EXCEPT ![s] =
                <<[puts |-> TRUE, in |-> {}]>> \o Remaining(@, t)]
       \/ sstables' = [sstables EXCEPT ![s] = Released(@, t)]
    /\ at' = [at EXCEPT ![t] = AfterCompact(t)]
    /\ merging' = [merging EXCEPT ![t] = {}]
    /\ UNCHANGED <<stop, owner, late>>
-----------------------------------------------------------------------------
(* BackgroundCompactScheduler.                                             *)

SchedulerGoesTo(pc, s) ==
    /\ at' = [at EXCEPT ![Scheduler] = [pc |-> pc, shard |-> s]]
    /\ UNCHANGED <<sstables, merging, stop, owner, late>>

\* The test of the outer loop, then the sleep.
Sleep ==
    /\ at[Scheduler].pc = "sleep"
    /\ SchedulerGoesTo(IF stop THEN "exited" ELSE "wake", 0)

\* Two seconds later.
Wake ==
    /\ at[Scheduler].pc = "wake"
    /\ SchedulerGoesTo(IF stop THEN "exited" ELSE "test", 0)

\* (Mutant: no test in the inner loop.)
TestNothing ==
    /\ at[Scheduler].pc = "test"
    /\ SchedulerGoesTo(
          IF at[Scheduler].shard = ShardNum THEN "sleep" ELSE "needs",
          IF at[Scheduler].shard = ShardNum THEN 0 ELSE at[Scheduler].shard)

\* The test of the inner loop, whose break leads to the outer test.
TestStop ==
    /\ at[Scheduler].pc = "test"
    /\ SchedulerGoesTo(
          IF at[Scheduler].shard = ShardNum \/ stop THEN "sleep" ELSE "needs",
          IF at[Scheduler].shard = ShardNum \/ stop THEN 0 ELSE at[Scheduler].shard)

\* (Mutant: the scan ends at the first shard below the threshold.)
NeedsCompactionEnds ==
    LET s == at[Scheduler].shard IN
    /\ at[Scheduler].pc = "needs"
    /\ IF Len(sstables[s]) >= Threshold THEN SchedulerGoesTo("compact", s)
       ELSE SchedulerGoesTo("sleep", 0)

NeedsCompaction ==
    LET s == at[Scheduler].shard IN
    /\ at[Scheduler].pc = "needs"
    /\ IF Len(sstables[s]) >= Threshold THEN SchedulerGoesTo("compact", s)
       ELSE SchedulerGoesTo("test", s + 1)
-----------------------------------------------------------------------------
(* The callers and the owner.                                              *)

CompactAll(t) ==
    /\ owner = "using"
    /\ at[t].pc = "idle"
    /\ at' = [at EXCEPT ![t] = [pc |-> "compact", shard |-> 0]]
    /\ UNCHANGED <<sstables, merging, stop, owner, late>>

\* Nobody destroys an engine that another thread is calling.
Destroy ==
    /\ owner = "using"
    /\ \A t \in Caller : at[t].pc = "idle"
    /\ stop' = TRUE
    /\ owner' = "joining"
    /\ UNCHANGED <<sstables, at, merging, late>>

\* (Mutant: the destructor does not wait for the thread.)
JoinNot ==
    /\ owner = "joining"
    /\ owner' = "destroyed"
    /\ UNCHANGED <<sstables, at, merging, stop, late>>

\* join returns, then the members are destroyed, the shards among them.
Join ==
    /\ owner = "joining"
    /\ at[Scheduler].pc = "exited"
    /\ owner' = "destroyed"
    /\ UNCHANGED <<sstables, at, merging, stop, late>>

SchedulerStep ==
    Sleep \/ Wake \/ TestStop \/ NeedsCompaction
    \/ CompactSnapshot(Scheduler) \/ CompactSwap(Scheduler)

CallerStep(t) == CompactSnapshot(t) \/ CompactSwap(t)

Next ==
    \/ \E s \in Shard, puts \in BOOLEAN : Flush(s, puts)
    \/ SchedulerStep
    \/ \E t \in Caller : CompactAll(t) \/ CallerStep(t)
    \/ Destroy
    \/ Join

Spec == Init /\ [][Next]_vars

\* Threads that can run do; the sleep ends; nobody has to flush, call or destroy.
FairSpec ==
    /\ Spec
    /\ WF_vars(SchedulerStep)
    /\ \A t \in Caller : WF_vars(CallerStep(t))
    /\ WF_vars(Join)
-----------------------------------------------------------------------------
(* Properties.                                                             *)

\* Every place is a place, and the index of a thread that uses it is a shard's.
ShardInBounds ==
    /\ at \in [Thread -> Place]
    /\ \A t \in Thread : at[t].pc \in {"needs", "compact", "swap"} => at[t].shard \in Shard

\* Every variable keeps its type, and shards_ is indexed inside its bounds.
TypeOK ==
    /\ sstables \in [Shard -> Seq(Reader)]
    /\ ShardInBounds
    /\ merging \in [Thread -> SUBSET BOOLEAN]
    /\ stop \in BOOLEAN
    /\ owner \in {"using", "joining", "destroyed"}
    /\ late \in 0 .. 2

\* The destructor waits for at most one compaction that had not begun when it was
\* called (the scheduler was between its test of the flag and the call of Compact),
\* whatever the number of shards over the threshold.
ShutdownIsPrompt == late <= 1

\* No thread is inside a shard when the shards are destroyed.
NobodyInside == owner = "destroyed" => \A t \in Thread : at[t].pc \in {"idle", "exited"}

\* The destructor returns, even if merges of some shard keep giving up.
DestructorReturns == (owner = "joining") ~> (owner = "destroyed")

\* A shard that has reached the threshold is merged, by the scheduler or by a
\* CompactAll, although the scheduler may meet other shards again and again whose
\* merges leave nothing and change nothing, and although flushes go on.
BacklogHeeded ==
    \A s \in Shard :
        (Len(sstables[s]) >= Threshold)
            ~> \/ \E t \in Thread : at[t] = [pc |-> "swap", shard |-> s]
               \/ Len(sstables[s]) < Threshold
               \/ stop
=============================================================================
