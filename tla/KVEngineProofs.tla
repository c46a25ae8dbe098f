--------------------------- MODULE KVEngineProofs ---------------------------
(***************************************************************************)
(* The types of an engine, the numbers its files get and the log that is   *)
(* active, for every value of the constants: any numbers of keys, writes,  *)
(* files, compaction threads and crashes.  Then its reads: merging reads   *)
(* are fresh beside one compaction; get moves forward beside any number of *)
(* them, and is fresh if no flush runs beside one.  What numbers rest on,  *)
(* that increments happen one at a time, is a hypothesis (CounterAlone).   *)
(***************************************************************************)
EXTENDS KVEngineReadInv, TLAPS, Extremes, FiniteSetTheorems

-----------------------------------------------------------------------------
(* Greatest elements: the CHOOSEs of the specification have a witness.     *)

\* Max of such a set is that element.
LEMMA MaxIsGreatest ==
    ASSUME NEW S \in SUBSET Nat, S # {}, NEW n \in Nat, \A s \in S : s <= n
    PROVE  Max(S) \in S /\ \A s \in S : s <= Max(S)
<1>1. PICK m \in S : \A s \in S : s <= m
  BY GreatestExists
<1>2. \A s \in S : m >= s
  BY <1>1
<1>3. Max(S) \in S /\ \A s \in S : Max(S) >= s
  BY <1>2 DEF Max
<1> QED BY <1>3

\* HighestSeq returns one of the readers, and none has a greater sequence.
LEMMA HighestSeqIsGreatest ==
    ASSUME NEW readers \in SUBSET Reader, readers # {}
    PROVE  /\ HighestSeq(readers) \in readers
           /\ \A r \in readers : r.seq <= HighestSeq(readers).seq
<1> DEFINE Seqs == {r.seq : r \in readers}
<1>1. Seqs \in SUBSET Nat /\ Seqs # {} /\ \A n \in Seqs : n <= MaxFile
  <2>1. \A r \in readers : r.seq \in 0 .. MaxFile
    BY DEF Reader
  <2> QED BY <2>1, EngineAssumption
<1>2. PICK m \in Seqs : \A n \in Seqs : n <= m
  <2> HIDE DEF Seqs
  <2> QED BY <1>1, GreatestExists, EngineAssumption
<1>3. PICK r \in readers : \A s \in readers : s.seq <= r.seq
  BY <1>2
<1> QED BY <1>3 DEF HighestSeq
-----------------------------------------------------------------------------
(* Type correctness.                                                       *)

\* The empty table is a table.
LEMMA EmptyTableType == NoSlot \in Slot /\ EmptyTable \in Table
BY EngineAssumption DEF NoSlot, Slot, EmptyTable, Table

\* A removed file and an unfinished one are files of their type.
LEMMA MissingFileTypes ==
    MissingSst \in SstFile /\ BrokenSst \in SstFile /\ MissingWal \in WalFile
BY EmptyTableType DEF MissingSst, BrokenSst, SstFile, MissingWal, WalFile

\* What a merge keeps for a key is an entry of one of the readers.
LEMMA MergedSlotType ==
    ASSUME NEW readers \in SUBSET Reader, NEW k \in Key
    PROVE  MergedSlot(readers, k) \in Slot
<1>1. CASE Holders(readers, k) = {}
  BY <1>1, EmptyTableType DEF MergedSlot
<1>2. CASE Holders(readers, k) # {}
  <2>1. HighestSeq(Holders(readers, k)) \in Reader
    <3>1. Holders(readers, k) \in SUBSET Reader
      BY DEF Holders
    <3>2. HighestSeq(Holders(readers, k)) \in Holders(readers, k)
      BY <1>2, <3>1, HighestSeqIsGreatest
    <3> QED BY <3>1, <3>2
  <2> QED BY <1>2, <2>1 DEF MergedSlot, Reader, Table
<1> QED BY <1>1, <1>2

\* What Compact writes is a table.
LEMMA CompactedTableType ==
    ASSUME NEW readers \in SUBSET Reader
    PROVE  CompactedTable(readers) \in Table
BY MergedSlotType, EmptyTableType DEF CompactedTable, Table

\* Replay yields an entry for a key that has a record.
LEMMA ReplayedSlotType ==
    ASSUME NEW log \in Seq(LogRecord), NEW k \in Key
    PROVE  ReplayedSlot(log, k) \in Slot
<1>1. CASE Replayable(log, k) = {}
  BY <1>1, EmptyTableType DEF ReplayedSlot
<1>2. CASE Replayable(log, k) # {}
  <2>1. /\ Replayable(log, k) \in SUBSET Nat
        /\ Len(log) \in Nat
        /\ \A i \in Replayable(log, k) : i <= Len(log)
    BY DEF Replayable
  <2>2. Max(Replayable(log, k)) \in Replayable(log, k)
    BY <1>2, <2>1, MaxIsGreatest
  <2> DEFINE i == Max(Replayable(log, k))
  <2>3. i \in 1 .. Len(log) /\ log[i] \in LogRecord /\ log[i].type # "torn"
    <3> HIDE DEF i
    <3>1. i \in DOMAIN log /\ \A j \in 1 .. i : log[j].type # "torn"
      BY <2>2 DEF i, Replayable
    <3> QED BY <3>1
  <2>4. [type |-> log[i].type, write |-> log[i].write] \in Slot
    BY <2>3 DEF LogRecord, Slot
  <2> QED BY <1>2, <2>4 DEF ReplayedSlot
<1> QED BY <1>1, <1>2

\* What recovery rebuilds is a table.
LEMMA RecoveredMemTableType ==
    ASSUME NEW wals \in [WalNum -> WalFile]
    PROVE  RecoveredMemTable(wals) \in Table
<1> DEFINE Logs(k) == {n \in WalNum : wals[n].linked /\ Replayable(wals[n].log, k) # {}}
<1>1. ASSUME NEW k \in Key, Logs(k) # {}
      PROVE  ReplayedSlot(wals[Max(Logs(k))].log, k) \in Slot
  <2>1. /\ Logs(k) \in SUBSET Nat
        /\ MaxFile + 1 \in Nat
        /\ \A n \in Logs(k) : n <= MaxFile + 1
    BY EngineAssumption DEF WalNum
  <2>2. Max(Logs(k)) \in Logs(k)
    <3> HIDE DEF Logs
    <3> QED BY <1>1, <2>1, MaxIsGreatest
  <2>3. wals[Max(Logs(k))].log \in Seq(LogRecord)
    BY <2>2 DEF WalFile
  <2> QED BY <2>3, ReplayedSlotType
<1>2. ASSUME NEW k \in Key
      PROVE  (IF Logs(k) = {} THEN NoSlot ELSE ReplayedSlot(wals[Max(Logs(k))].log, k))
                \in Slot
  BY <1>1, EmptyTableType
<1> QED BY <1>2 DEF RecoveredMemTable, Table

\* What LoadSSTables returns has the types of its members.
LEMMA LoadedTypes ==
    ASSUME NEW ssts \in [SstNum -> SstFile]
    PROVE  LoadedReaders(ssts) \subseteq Reader /\ LoadedCounter(ssts) \in 0 .. MaxFile
<1>1. LoadedReaders(ssts) \subseteq Reader
  BY EngineAssumption DEF LoadedReaders, Reader, SstNum, SstFile
<1>2. LoadedCounter(ssts) \in 0 .. MaxFile
  <2> DEFINE Numbers == {0} \cup {n \in SstNum : ssts[n].state # "missing"}
  <2>1. Numbers \in SUBSET (0 .. MaxFile) /\ Numbers # {}
    BY EngineAssumption DEF SstNum
  <2>2. Max(Numbers) \in Numbers
    <3> HIDE DEF Numbers
    <3> QED BY <2>1, MaxIsGreatest, EngineAssumption
  <2> QED BY <2>1, <2>2 DEF LoadedCounter
<1> QED BY <1>1, <1>2

\* The bounds are numbers.
LEMMA BoundTypes == MaxFile \in Nat /\ MaxWrite \in Nat /\ MaxCrash \in Nat
BY EngineAssumption

\* An update of the local state of a flush, or of a compaction, is well typed
\* when the new fields are.
LEMMA FlushUpdate ==
    ASSUME flush \in FlushState,
           NEW p \in {"idle", "load", "store", "path", "finish", "open", "rotate", "remove"},
           NEW r \in 0 .. MaxFile + 1, NEW f \in 0 .. MaxFile
    PROVE  /\ [flush EXCEPT !.pc = p] \in FlushState
           /\ [flush EXCEPT !.pc = p, !.reg = r] \in FlushState
           /\ [flush EXCEPT !.pc = p, !.file = f] \in FlushState
BY DEF FlushState

\* (The same for a compaction.)
LEMMA CompactUpdate ==
    ASSUME compact \in [Compactor -> CompactState], NEW c \in Compactor,
           NEW p \in {"idle", "load", "store", "path", "merge", "swap", "delete"},
           NEW r \in 0 .. MaxFile, NEW f \in 0 .. MaxFile, NEW i \in SUBSET Reader
    PROVE  /\ [compact EXCEPT ![c].pc = p] \in [Compactor -> CompactState]
           /\ [compact EXCEPT ![c].pc = p, ![c].reg = r] \in [Compactor -> CompactState]
           /\ [compact EXCEPT ![c].pc = p, ![c].file = f] \in [Compactor -> CompactState]
           /\ [compact EXCEPT ![c].pc = p, ![c].inputs = i] \in [Compactor -> CompactState]
           /\ [compact[c] EXCEPT !.inputs = i] \in CompactState
BY DEF CompactState

\* A thread that is in neither FlushMemTable nor Compact.
LEMMA IdleTypes == IdleFlush \in FlushState /\ IdleCompact \in CompactState
BY EngineAssumption DEF IdleFlush, IdleCompact, FlushState, CompactState

\* A process on an empty directory.
LEMMA InitType == Init => TypeOK
<1> SUFFICES ASSUME Init PROVE TypeOK
  OBVIOUS
<1>1. walFiles \in [WalNum -> WalFile]
  <2>1. \A n \in WalNum : [linked |-> n = 1, log |-> <<>>] \in WalFile
    BY DEF WalFile
  <2> QED BY <2>1 DEF Init
<1>2. sstFiles \in [SstNum -> SstFile]
  BY MissingFileTypes DEF Init
<1>3. skiplist \in Table /\ latest \in Table
  BY EmptyTableType DEF Init
<1> QED BY <1>1, <1>2, <1>3, IdleTypes, EngineAssumption DEF Init, TypeOK, WalNum

\* A record appended to the log.
LEMMA AppendType ==
    ASSUME TypeOK, NEW record \in LogRecord, AppendRecord(record)
    PROVE  walFiles' \in [WalNum -> WalFile]
<1>1. walFiles[current_wal] \in WalFile
  BY DEF TypeOK
<1>2. Append(walFiles[current_wal].log, record) \in Seq(LogRecord)
  BY <1>1 DEF WalFile
<1>3. [walFiles[current_wal] EXCEPT !.log = Append(walFiles[current_wal].log, record)]
        \in WalFile
  BY <1>1, <1>2 DEF WalFile
<1> QED BY <1>3 DEF AppendRecord, TypeOK

\* An accepted write.
LEMMA AcceptType ==
    ASSUME TypeOK, NEW op \in {"put", "erase"}, NEW k \in Key, Accept(op, k)
    PROVE  /\ walFiles' \in [WalNum -> WalFile]
           /\ latest' \in Table
           /\ writes' \in 0 .. MaxWrite
           /\ [type |-> op, write |-> writes + 1] \in Slot
<1>1. writes + 1 \in 0 .. MaxWrite
  BY EngineAssumption DEF Accept, TypeOK
<1>2. [type |-> op, write |-> writes + 1] \in Slot
  BY <1>1 DEF Slot
<1>3. [type |-> op, key |-> k, write |-> writes + 1] \in LogRecord
  BY <1>1 DEF LogRecord
<1>4. walFiles' \in [WalNum -> WalFile]
  BY <1>3, AppendType DEF Accept
<1> QED BY <1>1, <1>2, <1>4 DEF Accept, TypeOK, Table

\* What is left of a dead process is well typed.
LEMMA LoseMemoryType ==
    ASSUME TypeOK, LoseMemory, crashes < MaxCrash
    PROVE  /\ up' \in BOOLEAN
           /\ skiplist' \in Table
           /\ sstables' \subseteq Reader
           /\ installed' \in Nat
           /\ sst_counter' \in 0 .. MaxFile
           /\ current_wal' \in WalNum
           /\ flush' = IdleFlush
           /\ compact' = [c \in Compactor |-> IdleCompact]
           /\ crashes' \in 0 .. MaxCrash
<1>1. crashes + 1 \in 0 .. MaxCrash
  BY BoundTypes DEF TypeOK
<1>2. 1 \in WalNum /\ 0 \in 0 .. MaxFile
  BY BoundTypes DEF WalNum
<1> QED BY <1>1, <1>2, EmptyTableType DEF LoseMemory

\* The numbers in the local state of a thread name files: needed because the
\* counter and the registers start at 0, which is no file's number.
NumbersOK ==
    /\ ~up => flush.pc = "idle" /\ \A c \in Compactor : compact[c].pc = "idle"
    /\ flush.pc = "store" => flush.reg < MaxFile
    /\ flush.pc = "path" => sst_counter > 0
    /\ flush.pc \in {"finish", "open"} => flush.file > 0
    /\ \A c \in Compactor :
          /\ compact[c].pc = "store" => compact[c].reg < MaxFile
          /\ compact[c].pc = "path" => sst_counter > 0
          /\ compact[c].pc \in {"merge", "swap", "delete"} => compact[c].file > 0

TypeInv == TypeOK /\ NumbersOK

\* The type of a reader that Open returns for a whole file.
LEMMA NewReaderType ==
    ASSUME TypeOK, NEW n \in SstNum, NEW q \in 0 .. MaxFile
    PROVE  [file |-> n, seq |-> q, rank |-> installed + 1, data |-> sstFiles[n].data] \in Reader
BY DEF TypeOK, Reader, SstFile

\* Writers and FlushMemTable keep the types.
LEMMA FlushTypes == TypeInv /\ (Client \/ FlushStep) => TypeOK'
<1> SUFFICES ASSUME TypeInv, Client \/ FlushStep PROVE TypeOK'
  OBVIOUS
<1> USE BoundTypes DEF TypeInv, memory, disk, history
<1>0. /\ flush \in FlushState
      /\ flush.reg \in 0 .. MaxFile + 1 /\ flush.file \in 0 .. MaxFile
      /\ sst_counter \in 0 .. MaxFile /\ current_wal \in 0 .. MaxFile + 1
      /\ sst_counter \in 0 .. MaxFile + 1
      /\ 0 \in 0 .. MaxFile /\ 0 \in 0 .. MaxFile + 1
  BY DEF TypeOK, FlushState, WalNum
<1>1. ASSUME NEW k \in Key, Put(k) PROVE TypeOK'
  <2>1. flush' \in FlushState
    BY <1>0, <1>1, FlushUpdate DEF Put
  <2>2. skiplist' \in Table
    BY <1>1, AcceptType DEF Put, TypeOK, Table
  <2> QED BY <1>1, <2>1, <2>2, AcceptType DEF Put, TypeOK
<1>2. ASSUME NEW k \in Key, Erase(k) PROVE TypeOK'
  <2>1. skiplist' \in Table
    BY <1>2, AcceptType DEF Erase, TypeOK, Table
  <2> QED BY <1>2, <2>1, AcceptType DEF Erase, TypeOK
<1>3. CASE ForceFlush
  <2>1. flush' \in FlushState
    BY <1>0, <1>3, FlushUpdate DEF ForceFlush
  <2> QED BY <1>3, <2>1 DEF ForceFlush, TypeOK
<1>4. CASE FlushLoad
  <2>1. flush' \in FlushState
    BY <1>0, <1>4, FlushUpdate DEF FlushLoad
  <2> QED BY <1>4, <2>1 DEF FlushLoad, TypeOK
<1>5. CASE FlushStore
  <2>1. flush' \in FlushState
    BY <1>0, <1>5, FlushUpdate DEF FlushStore
  <2>2. sst_counter' \in 0 .. MaxFile
    BY <1>0, <1>5 DEF FlushStore, NumbersOK
  <2> QED BY <1>5, <2>1, <2>2 DEF FlushStore, TypeOK
<1>6. CASE FlushCreate
  <2>1. flush' \in FlushState
    BY <1>0, <1>6, FlushUpdate DEF FlushCreate
  <2> QED BY <1>6, <2>1, MissingFileTypes DEF FlushCreate, TypeOK
<1>7. CASE FlushFinish
  <2>1. flush' \in FlushState
    BY <1>0, <1>7, FlushUpdate DEF FlushFinish
  <2>2. WholeSst(skiplist) \in SstFile
    BY DEF WholeSst, SstFile, TypeOK
  <2>3. sstFiles' \in [SstNum -> SstFile]
    BY <1>7, <2>2, MissingFileTypes DEF FlushFinish, TypeOK
  <2> QED BY <1>7, <2>1, <2>3 DEF FlushFinish, TypeOK
<1>8. CASE FlushOpen
  <2>1. flush' \in FlushState
    BY <1>0, <1>8, FlushUpdate DEF FlushOpen
  <2>2. flush.file \in SstNum
    BY <1>0, <1>8 DEF FlushOpen, NumbersOK, SstNum
  <2>3. sst_counter \in 0 .. MaxFile
    BY DEF TypeOK
  <2>4. [file |-> flush.file, seq |-> sst_counter, rank |-> installed + 1,
         data |-> sstFiles[flush.file].data] \in Reader
    BY <2>2, <2>3, NewReaderType
  <2>5. sstables' \subseteq Reader /\ installed' \in Nat
    BY <1>8, <2>4 DEF FlushOpen, TypeOK
  <2> QED BY <1>8, <2>1, <2>5 DEF FlushOpen, TypeOK
<1>9. CASE FlushRotate
  <2>1. flush' \in FlushState
    BY <1>0, <1>9, FlushUpdate DEF FlushRotate
  <2>2. walFiles' \in [WalNum -> WalFile]
    <3>1. \A n \in WalNum : [walFiles[n] EXCEPT !.linked = TRUE] \in WalFile
      BY DEF TypeOK, WalFile
    <3> QED BY <1>9, <3>1 DEF FlushRotate, TypeOK
  <2>3. current_wal' \in WalNum
    BY <1>0, <1>9 DEF FlushRotate, WalNum
  <2> QED BY <1>9, <2>1, <2>2, <2>3 DEF FlushRotate, TypeOK
<1>10. CASE FlushRemove
  <2>1. walFiles' \in [WalNum -> WalFile]
    BY <1>10, MissingFileTypes DEF FlushRemove, TypeOK
  <2> QED BY <1>10, <2>1, EmptyTableType, IdleTypes DEF FlushRemove, TypeOK
<1> QED
  BY <1>1, <1>2, <1>3, <1>4, <1>5, <1>6, <1>7, <1>8, <1>9, <1>10 DEF Client, FlushStep

\* Compact keeps the types.
LEMMA CompactTypes ==
    ASSUME TypeInv, NEW c \in Compactor, CompactSnapshot(c) \/ CompactStep(c)
    PROVE  TypeOK'
<1> USE BoundTypes DEF TypeInv, memory, disk, history
<1>0. /\ compact \in [Compactor -> CompactState] /\ compact[c] \in CompactState
      /\ compact[c].reg \in 0 .. MaxFile /\ compact[c].file \in 0 .. MaxFile
      /\ compact[c].inputs \in SUBSET Reader /\ sstables \in SUBSET Reader
      /\ sst_counter \in 0 .. MaxFile /\ 0 \in 0 .. MaxFile
  BY DEF TypeOK, CompactState
<1>1. CASE CompactSnapshot(c)
  <2>1. compact' \in [Compactor -> CompactState]
    BY <1>0, <1>1, CompactUpdate DEF CompactSnapshot
  <2> QED BY <1>1, <2>1 DEF CompactSnapshot, TypeOK
<1>2. CASE CompactLoad(c)
  <2>1. compact' \in [Compactor -> CompactState]
    BY <1>0, <1>2, CompactUpdate DEF CompactLoad
  <2> QED BY <1>2, <2>1 DEF CompactLoad, TypeOK
<1>3. CASE CompactStore(c)
  <2>1. compact' \in [Compactor -> CompactState]
    BY <1>0, <1>3, CompactUpdate DEF CompactStore
  <2>2. sst_counter' \in 0 .. MaxFile
    BY <1>0, <1>3 DEF CompactStore, NumbersOK
  <2> QED BY <1>3, <2>1, <2>2 DEF CompactStore, TypeOK
<1>4. CASE CompactCreate(c)
  <2>1. compact' \in [Compactor -> CompactState]
    BY <1>0, <1>4, CompactUpdate DEF CompactCreate
  <2> QED BY <1>4, <2>1, MissingFileTypes DEF CompactCreate, TypeOK
<1>5. CASE CompactFinish(c)
  <2>1. compact' \in [Compactor -> CompactState]
    BY <1>0, <1>5, CompactUpdate DEF CompactFinish
  <2>2. WholeSst(CompactedTable(compact[c].inputs)) \in SstFile
    BY <1>0, CompactedTableType DEF CompactState, WholeSst, SstFile
  <2>3. sstFiles' \in [SstNum -> SstFile]
    BY <1>5, <2>2, MissingFileTypes DEF CompactFinish, TypeOK
  <2> QED BY <1>5, <2>1, <2>3 DEF CompactFinish, TypeOK
<1>6. CASE CompactGiveUp(c)
  BY <1>6, IdleTypes DEF CompactGiveUp, TypeOK
<1>7. CASE CompactSwap(c)
  <2>1. compact' \in [Compactor -> CompactState]
    BY <1>0, <1>7, CompactUpdate DEF CompactSwap
  <2>2. compact[c].file \in SstNum
    BY <1>0, <1>7 DEF CompactSwap, NumbersOK, SstNum
  <2>3. [file |-> compact[c].file, seq |-> 0, rank |-> installed + 1,
         data |-> sstFiles[compact[c].file].data] \in Reader
    BY <2>2, NewReaderType
  <2>4. sstables' \subseteq Reader /\ installed' \in Nat
    BY <1>7, <2>3 DEF CompactSwap, TypeOK
  <2> QED BY <1>7, <2>1, <2>4 DEF CompactSwap, TypeOK
<1>8. CASE CompactDelete(c)
  <2> DEFINE rest == compact[c].inputs \ {FrontMost(compact[c].inputs)}
             left == IF rest = {} THEN IdleCompact
                     ELSE [compact[c] EXCEPT !.inputs = rest]
  <2>0. left \in CompactState
    <3>1. rest \in SUBSET Reader
      BY <1>0
    <3>2. [compact[c] EXCEPT !.inputs = rest] \in CompactState
      BY <1>0, <3>1 DEF CompactState
    <3> QED BY <3>2, IdleTypes
  <2>1. compact' \in [Compactor -> CompactState]
    <3>1. compact' = [compact EXCEPT ![c] = left]
      BY <1>8 DEF CompactDelete
    <3> HIDE DEF left
    <3> QED BY <1>0, <2>0, <3>1
  <2>2. sstFiles' \in [SstNum -> SstFile]
    BY <1>8, MissingFileTypes DEF CompactDelete, TypeOK
  <2> QED BY <1>8, <2>1, <2>2 DEF CompactDelete, TypeOK
<1> QED BY <1>1, <1>2, <1>3, <1>4, <1>5, <1>6, <1>7, <1>8 DEF CompactStep

\* Crash and restart keep the types.
LEMMA RestartTypes == TypeInv /\ (Failure \/ Start) => TypeOK'
<1> SUFFICES ASSUME TypeInv, Failure \/ Start PROVE TypeOK'
  OBVIOUS
<1> USE BoundTypes DEF TypeInv, memory, disk, history
<1>1. CASE Crash
  BY <1>1, LoseMemoryType, IdleTypes DEF Crash, CrashMayHit, TypeOK
<1>2. ASSUME NEW op \in {"put", "erase"}, NEW k \in Key, CrashAfterAppend(op, k)
      PROVE  TypeOK'
  BY <1>2, LoseMemoryType, IdleTypes, AcceptType DEF CrashAfterAppend, CrashMayHit, TypeOK
<1>3. ASSUME NEW k \in Key, CrashInsideAppend(k) PROVE TypeOK'
  <2>1. [type |-> "torn", key |-> k, write |-> 0] \in LogRecord
    BY DEF LogRecord
  <2>2. walFiles' \in [WalNum -> WalFile]
    BY <1>3, <2>1, AppendType DEF CrashInsideAppend
  <2> QED BY <1>3, <2>2, LoseMemoryType, IdleTypes
          DEF CrashInsideAppend, CrashMayHit, TypeOK
<1>4. CASE Start
  <2>1. LoadedReaders(sstFiles) \subseteq Reader /\ LoadedCounter(sstFiles) \in 0 .. MaxFile
    BY LoadedTypes DEF TypeOK
  <2>2. RecoveredMemTable(walFiles) \in Table
    BY RecoveredMemTableType DEF TypeOK
  <2>3. walFiles' \in [WalNum -> WalFile]
    <3>1. \A n \in WalNum : [walFiles[n] EXCEPT !.linked = TRUE] \in WalFile
      BY DEF TypeOK, WalFile
    <3> QED BY <1>4, <3>1 DEF Start, TypeOK
  <2>4. LoadedCounter(sstFiles) + 1 \in WalNum
    BY <2>1 DEF WalNum
  <2> QED BY <1>4, <2>1, <2>2, <2>3, <2>4 DEF Start, TypeOK
<1> QED BY <1>1, <1>2, <1>3, <1>4 DEF Failure

\* Every step keeps the numbers in range.
LEMMA NextNumbers == TypeInv /\ [Next]_vars => NumbersOK'
<1> SUFFICES ASSUME TypeInv, [Next]_vars PROVE NumbersOK'
  OBVIOUS
<1> USE BoundTypes DEF TypeInv, memory, disk, history
<1>0. /\ flush \in FlushState /\ compact \in [Compactor -> CompactState]
      /\ \A c \in Compactor : compact[c] \in CompactState
      /\ flush.reg \in 0 .. MaxFile + 1 /\ sst_counter \in 0 .. MaxFile
      /\ \A c \in Compactor : compact[c].reg \in 0 .. MaxFile
  BY DEF TypeOK, FlushState, CompactState
<1>1. CASE Client
  BY <1>0, <1>1 DEF Client, Put, Erase, ForceFlush, LockFree, NumbersOK, FlushState
<1>2. CASE FlushStep
  <2>1. CASE FlushLoad
    BY <1>0, <2>1 DEF FlushLoad, NumbersOK, FlushState
  <2>2. CASE FlushStore
    BY <1>0, <2>2 DEF FlushStore, NumbersOK, FlushState
  <2>3. CASE FlushCreate
    BY <1>0, <2>3 DEF FlushCreate, NumbersOK, FlushState
  <2>4. CASE FlushFinish \/ FlushOpen \/ FlushRotate
    BY <1>0, <2>4 DEF FlushFinish, FlushOpen, FlushRotate, NumbersOK, FlushState
  <2>5. CASE FlushRemove
    BY <1>0, <2>5 DEF FlushRemove, NumbersOK, IdleFlush
  <2> QED BY <1>2, <2>1, <2>2, <2>3, <2>4, <2>5 DEF FlushStep
<1>3. ASSUME NEW c \in Compactor, CompactSnapshot(c) \/ CompactStep(c)
      PROVE  NumbersOK'
  <2>1. CASE CompactSnapshot(c)
    BY <1>0, <2>1 DEF CompactSnapshot, LockFree, NumbersOK, CompactState
  <2>2. CASE CompactLoad(c)
    BY <1>0, <2>2 DEF CompactLoad, NumbersOK, CompactState
  <2>3. CASE CompactStore(c)
    BY <1>0, <2>3 DEF CompactStore, NumbersOK, CompactState
  <2>4. CASE CompactCreate(c)
    BY <1>0, <2>4 DEF CompactCreate, NumbersOK, CompactState
  <2>5. CASE CompactFinish(c)
    BY <1>0, <2>5 DEF CompactFinish, NumbersOK, CompactState
  <2>6. CASE CompactGiveUp(c)
    BY <1>0, <2>6 DEF CompactGiveUp, NumbersOK, IdleCompact
  <2>7. CASE CompactSwap(c)
    BY <1>0, <2>7 DEF CompactSwap, LockFree, NumbersOK, CompactState
  <2>8. CASE CompactDelete(c)
    BY <1>0, <2>8 DEF CompactDelete, NumbersOK, IdleCompact, CompactState
  <2> QED BY <1>3, <2>1, <2>2, <2>3, <2>4, <2>5, <2>6, <2>7, <2>8 DEF CompactStep
<1>4. CASE Failure
  <2>1. LoseMemory
    BY <1>4 DEF Failure, Crash, CrashAfterAppend, CrashInsideAppend
  <2> QED BY <2>1 DEF LoseMemory, NumbersOK, IdleFlush, IdleCompact
<1>5. CASE Start
  BY <1>0, <1>5 DEF Start, NumbersOK
<1>6. CASE UNCHANGED vars
  BY <1>6 DEF vars, NumbersOK
<1> QED BY <1>1, <1>2, <1>3, <1>4, <1>5, <1>6 DEF Next

\* Every step keeps the types.
LEMMA NextType == TypeInv /\ [Next]_vars => TypeInv'
<1>1. TypeInv /\ UNCHANGED vars => TypeOK'
  BY DEF TypeInv, TypeOK, vars, memory, disk, history
<1> QED BY <1>1, FlushTypes, CompactTypes, RestartTypes, NextNumbers DEF TypeInv, Next

\* Every reachable state is well typed, whatever the number of keys, threads,
\* files and writes and whatever interleaving, crash and disk fault is allowed:
\* in particular no flush or compaction ever writes outside 1 .. MaxFile.
THEOREM TypeCorrect == Spec => []TypeOK
<1>1. Init => TypeInv
  BY InitType DEF TypeInv, NumbersOK, Init, IdleFlush, IdleCompact
<1>2. TypeInv /\ [Next]_vars => TypeInv'
  BY NextType
<1>3. TypeInv => TypeOK
  BY DEF TypeInv
<1> QED BY <1>1, <1>2, <1>3, PTL DEF Spec
-----------------------------------------------------------------------------
(* Numbers, when nobody else increments sst_counter_ while a compaction    *)
(* does.                                                                   *)

\* The file exists, whole or not.
Present(n) == sstFiles[n].state # "missing"

\* Whoever increments the counter is alone with it, and has what it loaded.
CounterInv ==
    /\ flush.pc = "store" => flush.reg = sst_counter
    /\ \A c \in Compactor :
          /\ compact[c].pc = "store" => compact[c].reg = sst_counter
          /\ compact[c].pc \in {"store", "path"} =>
                /\ flush.pc = "idle"
                /\ \A d \in Compactor \ {c} : compact[d].pc \notin {"store", "path"}

\* A number has been made and no file has it yet.
AtPath == flush.pc = "path" \/ \E c \in Compactor : compact[c].pc = "path"

\* No file has a number above the counter, and a number that has just been made
\* is above those of all files.
FileInv ==
    /\ up => \A n \in SstNum : Present(n) => n <= sst_counter
    /\ flush.pc \in {"finish", "open"} => flush.file <= sst_counter
    /\ \A c \in Compactor :
          /\ compact[c].file <= sst_counter
          /\ ~up => compact[c].file = 0
    /\ AtPath =>
          /\ \A n \in SstNum : Present(n) => n < sst_counter
          /\ \A c \in Compactor : compact[c].file < sst_counter

\* The active log is linked and not numbered above the next file's; behind the store of
\* a flush the counter is above it, so the rotation goes to another file.  Compactions
\* that race may set the counter back, but never below what one of them loaded.
LogInv ==
    /\ up => walFiles[current_wal].linked /\ current_wal <= sst_counter + 1
    /\ flush.pc \in {"path", "finish", "open", "rotate"} => current_wal <= sst_counter
    /\ flush.pc = "remove" => flush.reg # current_wal
    /\ flush.pc = "store" => flush.reg = sst_counter
    /\ \A c \in Compactor :
          /\ compact[c].pc \in {"store", "path"} => flush.pc = "idle"
          /\ compact[c].pc = "store" => current_wal <= compact[c].reg + 1

NumberInv == TypeInv /\ CounterInv /\ FileInv /\ LogInv

\* The types the proofs below use.
LEMMA LocalTypes ==
    ASSUME TypeOK
    PROVE  /\ flush \in FlushState /\ compact \in [Compactor -> CompactState]
           /\ sst_counter \in Nat /\ current_wal \in Nat /\ current_wal \in WalNum
           /\ flush.reg \in Nat /\ flush.file \in Nat
           /\ \A c \in Compactor : compact[c].reg \in Nat /\ compact[c].file \in Nat
           /\ sstFiles \in [SstNum -> SstFile] /\ walFiles \in [WalNum -> WalFile]
BY BoundTypes DEF TypeOK, FlushState, CompactState, WalNum

\* Increments happen one at a time: no flush runs beside that of a compaction, and two
\* compactions are not at theirs at once.  The code ensures neither: its ++sst_counter_
\* in Compact is outside the lock.
CounterAlone ==
    /\ "counter" \notin Overlap
    /\ ~PeerRace \/ \A c, d \in Compactor : c = d

\* Then nobody can be at the counter when a flush begins, and a compaction gets to the
\* counter only when no flush and no other compaction is there.
LEMMA AloneAtCounter ==
    ASSUME CounterAlone
    PROVE  /\ FlushMayRun => \A c \in Compactor : compact[c].pc \notin {"store", "path"}
           /\ \A c \in Compactor, pc \in {"store", "path"} :
                 MayEnter(c, pc) =>
                    /\ flush.pc = "idle"
                    /\ \A d \in Compactor \ {c} : compact[d].pc \notin {"store", "path"}
<1>1. FlushMayRun => \A c \in Compactor : compact[c].pc \notin {"store", "path"}
  BY DEF CounterAlone, FlushMayRun, CompactPart
<1>2. ASSUME NEW c \in Compactor, NEW pc \in {"store", "path"}, MayEnter(c, pc)
      PROVE  /\ flush.pc = "idle"
             /\ \A d \in Compactor \ {c} : compact[d].pc \notin {"store", "path"}
  <2>1. CompactPart(pc) = "counter"
    BY DEF CompactPart
  <2>2. flush.pc = "idle"
    BY <1>2, <2>1 DEF CounterAlone, MayEnter
  <2>3. ASSUME NEW d \in Compactor \ {c}
        PROVE  compact[d].pc \notin {"store", "path"}
    <3>1. CompactPart(compact[d].pc) # "counter"
      BY <1>2, <2>1, <2>3 DEF CounterAlone, MayEnter
    <3> QED BY <3>1 DEF CompactPart
  <2> QED BY <2>2, <2>3
<1> QED BY <1>1, <1>2

\* Whoever increments the counter stays alone with it.
LEMMA NextCounter ==
    ASSUME CounterAlone, NumberInv, [Next]_vars
    PROVE  CounterInv'
<1> USE DEF memory, disk, history
<1>0. /\ flush \in FlushState /\ compact \in [Compactor -> CompactState]
      /\ \A c \in Compactor : compact[c] \in CompactState
  BY LocalTypes DEF NumberInv, TypeInv
<1>1. CASE Client
  <2>1. /\ flush.pc = "idle" /\ UNCHANGED <<compact, sst_counter>>
        /\ flush' = flush \/ (flush' = [flush EXCEPT !.pc = "load"] /\ FlushMayRun)
    BY <1>1 DEF Client, Put, Erase, ForceFlush, LockFree
  <2> QED BY <1>0, <2>1, AloneAtCounter DEF NumberInv, CounterInv, FlushState
<1>2. CASE FlushStep
  <2>1. CASE FlushLoad
    BY <1>0, <2>1 DEF FlushLoad, NumberInv, CounterInv, FlushState
  <2>2. CASE FlushStore
    BY <1>0, <2>2 DEF FlushStore, NumberInv, CounterInv, FlushState
  <2>3. CASE FlushCreate \/ FlushFinish \/ FlushOpen \/ FlushRotate
    BY <1>0, <2>3 DEF FlushCreate, FlushFinish, FlushOpen, FlushRotate, NumberInv,
                      CounterInv, FlushState
  <2>4. CASE FlushRemove
    BY <1>0, <2>4 DEF FlushRemove, IdleFlush, NumberInv, CounterInv
  <2> QED BY <1>2, <2>1, <2>2, <2>3, <2>4 DEF FlushStep
<1>3. ASSUME NEW c \in Compactor, CompactSnapshot(c) \/ CompactStep(c)
      PROVE  CounterInv'
  <2>1. CASE CompactSnapshot(c)
    BY <1>0, <2>1 DEF CompactSnapshot, NumberInv, CounterInv, CompactState
  <2>2. CASE CompactLoad(c)
    BY <1>0, <2>2, AloneAtCounter DEF CompactLoad, NumberInv, CounterInv, CompactState
  <2>3. CASE CompactStore(c)
    BY <1>0, <2>3, AloneAtCounter DEF CompactStore, NumberInv, CounterInv, CompactState
  <2>4. CASE CompactCreate(c) \/ CompactFinish(c)
    BY <1>0, <2>4 DEF CompactCreate, CompactFinish, NumberInv, CounterInv, CompactState
  <2>5. CASE CompactGiveUp(c) \/ CompactSwap(c)
    BY <1>0, <2>5
       DEF CompactGiveUp, CompactSwap, IdleCompact, NumberInv, CounterInv, CompactState
  <2>6. CASE CompactDelete(c)
    BY <1>0, <2>6 DEF CompactDelete, IdleCompact, NumberInv, CounterInv, CompactState
  <2> QED BY <1>3, <2>1, <2>2, <2>3, <2>4, <2>5, <2>6 DEF CompactStep
<1>4. CASE Failure
  <2>1. LoseMemory
    BY <1>4 DEF Failure, Crash, CrashAfterAppend, CrashInsideAppend
  <2> QED BY <2>1 DEF LoseMemory, CounterInv, IdleFlush, IdleCompact
<1>5. CASE Start
  BY <1>5 DEF Start, NumberInv, TypeInv, NumbersOK, CounterInv
<1>6. CASE UNCHANGED vars
  BY <1>6 DEF vars, NumberInv, CounterInv
<1> QED BY <1>1, <1>2, <1>3, <1>4, <1>5, <1>6 DEF Next

\* A restart counts on from the largest number of any file.
LEMMA LoadedCounterIsGreatest ==
    ASSUME NEW n \in SstNum, Present(n)
    PROVE  n <= LoadedCounter(sstFiles)
<1> DEFINE Numbers == {0} \cup {m \in SstNum : sstFiles[m].state # "missing"}
<1>1. Numbers \in SUBSET Nat /\ n \in Numbers /\ \A m \in Numbers : m <= MaxFile
  BY BoundTypes DEF SstNum, Present
<1>2. n <= Max(Numbers)
  <2> HIDE DEF Numbers
  <2> QED BY <1>1, MaxIsGreatest, BoundTypes
<1> QED BY <1>2 DEF LoadedCounter

\* Files get fresh numbers.
LEMMA NextFiles ==
    ASSUME CounterAlone, NumberInv, [Next]_vars
    PROVE  FileInv'
<1> USE DEF memory, disk, history
<1>0. /\ flush \in FlushState /\ compact \in [Compactor -> CompactState]
      /\ \A c \in Compactor : compact[c] \in CompactState
      /\ sst_counter \in Nat /\ flush.file \in Nat /\ SstNum \subseteq Nat
      /\ \A c \in Compactor : compact[c].file \in Nat
      /\ sstFiles \in [SstNum -> SstFile]
  BY LocalTypes DEF NumberInv, TypeInv, SstNum
<1>9. /\ flush.pc # "idle" => up
      /\ \A c \in Compactor : compact[c].pc # "idle" => up
      /\ flush.pc = "path" => 0 < sst_counter
      /\ \A c \in Compactor : compact[c].pc = "path" => 0 < sst_counter
  BY <1>0 DEF NumberInv, TypeInv, TypeOK, NumbersOK
<1>1. CASE Client
  <2>1. /\ flush.pc = "idle" /\ UNCHANGED <<compact, sst_counter, sstFiles, up>>
        /\ flush' = flush \/ flush' = [flush EXCEPT !.pc = "load"]
    BY <1>1 DEF Client, Put, Erase, ForceFlush, LockFree
  <2> QED BY <1>0, <2>1 DEF NumberInv, FileInv, AtPath, FlushState, Present
<1>2. CASE FlushStep
  <2>1. CASE FlushLoad \/ FlushOpen \/ FlushRotate
    <3>1. /\ UNCHANGED <<compact, sst_counter, sstFiles, up>>
          /\ flush'.pc \in {"store", "rotate", "remove"}
      BY <1>0, <2>1 DEF FlushLoad, FlushOpen, FlushRotate, FlushState
    <3>2. flush'.pc \notin {"path", "finish", "open"}
      BY <3>1
    <3> QED BY <3>1, <3>2 DEF NumberInv, FileInv, AtPath, Present
  <2>2. CASE FlushStore
    <3>1. sst_counter' = sst_counter + 1 /\ UNCHANGED <<compact, sstFiles, up>>
          /\ flush'.pc = "path"
          /\ \A c \in Compactor : compact[c].pc # "path"
      BY <1>0, <2>2 DEF FlushStore, NumberInv, CounterInv, FlushState
    <3>2. \A n \in SstNum : Present(n) => n <= sst_counter
      BY <1>9, <2>2 DEF FlushStore, NumberInv, FileInv, AtPath
    <3> QED BY <1>0, <3>1, <3>2 DEF NumberInv, FileInv, AtPath, Present
  <2>3. CASE FlushCreate
    <3>1. /\ UNCHANGED <<compact, sst_counter, up>> /\ flush'.pc = "finish"
          /\ flush'.file = sst_counter
          /\ \A c \in Compactor : compact[c].pc # "path"
      BY <1>0, <2>3 DEF FlushCreate, NumberInv, CounterInv, FlushState
    <3>2. \A n \in SstNum : Present(n)' => Present(n) \/ n = sst_counter
      BY <1>0, <2>3 DEF FlushCreate, Present
    <3> QED BY <1>0, <3>1, <3>2 DEF NumberInv, FileInv, AtPath
  <2>4. CASE FlushFinish
    <3>1. /\ UNCHANGED <<compact, sst_counter, up>> /\ flush'.pc = "open"
          /\ flush'.file = flush.file /\ flush.file <= sst_counter
          /\ \A c \in Compactor : compact[c].pc # "path"
      BY <1>0, <2>4 DEF FlushFinish, NumberInv, CounterInv, FileInv, AtPath, FlushState
    <3>2. \A n \in SstNum : Present(n)' => Present(n) \/ n = flush.file
      BY <1>0, <2>4 DEF FlushFinish, Present
    <3> QED BY <1>0, <3>1, <3>2 DEF NumberInv, FileInv, AtPath
  <2>5. CASE FlushRemove
    BY <1>0, <2>5 DEF FlushRemove, IdleFlush, NumberInv, FileInv, AtPath, Present
  <2> QED BY <1>2, <2>1, <2>2, <2>3, <2>4, <2>5 DEF FlushStep
<1>3. ASSUME NEW c \in Compactor, CompactSnapshot(c) \/ CompactStep(c)
      PROVE  FileInv'
  <2>1. CASE CompactSnapshot(c) \/ CompactLoad(c)
    <3>1. /\ UNCHANGED <<flush, sst_counter, sstFiles, up>>
          /\ \A d \in Compactor : /\ compact'[d].file = compact[d].file
                                  /\ compact'[d].pc = "path" => compact[d].pc = "path"
      BY <1>0, <2>1 DEF CompactSnapshot, CompactLoad, CompactState
    <3> QED BY <3>1 DEF NumberInv, FileInv, AtPath, Present
  <2>2. CASE CompactStore(c)
    <3>1. /\ sst_counter' = sst_counter + 1 /\ UNCHANGED <<flush, sstFiles, up>>
          /\ flush.pc = "idle" /\ up
          /\ \A d \in Compactor : compact'[d].file = compact[d].file
      BY <1>0, <1>9, <2>2 DEF CompactStore, NumberInv, CounterInv, CompactState
    <3>2. \A n \in SstNum : Present(n) => n <= sst_counter
      BY <3>1 DEF NumberInv, FileInv, AtPath
    <3> QED BY <1>0, <3>1, <3>2 DEF NumberInv, FileInv, AtPath, Present
  <2>3. CASE CompactCreate(c)
    <3>1. /\ UNCHANGED <<flush, sst_counter, up>> /\ flush.pc = "idle"
          /\ \A d \in Compactor : /\ compact'[d].pc # "path"
                                  /\ compact'[d].file \in {compact[d].file, sst_counter}
      BY <1>0, <2>3 DEF CompactCreate, NumberInv, CounterInv, CompactState
    <3>2. \A n \in SstNum : Present(n)' => Present(n) \/ n = sst_counter
      BY <1>0, <2>3 DEF CompactCreate, Present
    <3> QED BY <1>0, <1>9, <2>3, <3>1, <3>2 DEF CompactCreate, NumberInv, FileInv, AtPath
  <2>4. CASE CompactFinish(c)
    <3>1. /\ UNCHANGED <<flush, sst_counter, up>>
          /\ \A d \in Compactor : /\ compact'[d].file = compact[d].file
                                  /\ compact'[d].pc = "path" => compact[d].pc = "path"
      BY <1>0, <2>4 DEF CompactFinish, CompactState
    <3>2. \A n \in SstNum : Present(n)' => Present(n) \/ n = compact[c].file
      BY <1>0, <2>4 DEF CompactFinish, Present
    <3> QED BY <1>0, <1>9, <2>4, <3>1, <3>2 DEF CompactFinish, NumberInv, FileInv, AtPath
  <2>5. CASE CompactGiveUp(c) \/ CompactSwap(c)
    <3>1. /\ UNCHANGED <<flush, sst_counter, sstFiles, up>>
          /\ \A d \in Compactor : /\ compact'[d].file \in {compact[d].file, 0}
                                  /\ compact'[d].pc = "path" => compact[d].pc = "path"
      BY <1>0, <2>5 DEF CompactGiveUp, CompactSwap, IdleCompact, CompactState
    <3> QED BY <1>0, <1>9, <2>5, <3>1
            DEF CompactGiveUp, CompactSwap, NumberInv, FileInv, AtPath, Present
  <2>6. CASE CompactDelete(c)
    <3>1. /\ UNCHANGED <<flush, sst_counter, up>>
          /\ \A d \in Compactor : /\ compact'[d].file \in {compact[d].file, 0}
                                  /\ compact'[d].pc = "path" => compact[d].pc = "path"
      BY <1>0, <2>6 DEF CompactDelete, IdleCompact, CompactState
    <3>2. \A n \in SstNum : Present(n)' => Present(n)
      BY <1>0, <2>6 DEF CompactDelete, Present, MissingSst
    <3> QED BY <1>0, <1>9, <2>6, <3>1, <3>2 DEF CompactDelete, NumberInv, FileInv, AtPath
  <2> QED BY <1>3, <2>1, <2>2, <2>3, <2>4, <2>5, <2>6 DEF CompactStep
<1>4. CASE Failure
  <2>1. LoseMemory
    BY <1>4 DEF Failure, Crash, CrashAfterAppend, CrashInsideAppend
  <2> QED BY <2>1 DEF LoseMemory, FileInv, AtPath, IdleFlush, IdleCompact
<1>5. CASE Start
  <2>1. /\ flush.pc = "idle" /\ \A c \in Compactor : compact[c].pc = "idle"
        /\ UNCHANGED <<flush, compact, sstFiles>>
        /\ sst_counter' = LoadedCounter(sstFiles) /\ up' = TRUE /\ ~up
    BY <1>5 DEF Start, NumberInv, TypeInv, NumbersOK
  <2>2. 0 <= LoadedCounter(sstFiles)
    BY <1>0, LoadedTypes
  <2> QED BY <2>1, <2>2, LoadedCounterIsGreatest DEF NumberInv, FileInv, AtPath, Present
<1>6. CASE UNCHANGED vars
  BY <1>6 DEF vars, NumberInv, FileInv, AtPath, Present
<1> QED BY <1>1, <1>2, <1>3, <1>4, <1>5, <1>6 DEF Next

-----------------------------------------------------------------------------
(* The active log.                                                         *)

\* Appending a record changes the active log only.
LEMMA AppendKeepsLinks ==
    ASSUME TypeOK, NEW record, AppendRecord(record)
    PROVE  \A n \in WalNum : walFiles'[n].linked = walFiles[n].linked
<1>1. walFiles[current_wal] \in WalFile
  BY DEF TypeOK
<1> QED BY <1>1 DEF AppendRecord, TypeOK, WalFile

\* When no flush runs beside an increment: whoever is at the counter, no flush is.
LEMMA NoFlushAtCounter ==
    ASSUME "counter" \notin Overlap
    PROVE  /\ FlushMayRun => \A c \in Compactor : compact[c].pc \notin {"store", "path"}
           /\ \A c \in Compactor, pc \in {"store", "path"} :
                 MayEnter(c, pc) => flush.pc = "idle"
BY DEF FlushMayRun, MayEnter, CompactPart

\* The active log stays linked.
LEMMA NextLog ==
    ASSUME "counter" \notin Overlap, TypeInv, LogInv, [Next]_vars
    PROVE  LogInv'
<1> USE DEF memory, disk, history
<1>0. /\ flush \in FlushState /\ compact \in [Compactor -> CompactState]
      /\ sst_counter \in Nat /\ current_wal \in Nat /\ current_wal \in WalNum
      /\ flush.reg \in Nat /\ walFiles \in [WalNum -> WalFile] /\ TypeOK
      /\ \A c \in Compactor : compact[c] \in CompactState /\ compact[c].reg \in Nat
  BY LocalTypes DEF TypeInv, CompactState, TypeOK
<1>9. /\ flush.pc # "idle" => up
      /\ \A c \in Compactor : compact[c].pc # "idle" => up
  BY <1>0 DEF TypeInv, NumbersOK, TypeOK
<1>1. CASE Client
  <2>1. /\ flush.pc = "idle" /\ UNCHANGED <<sst_counter, current_wal, up, compact>>
        /\ flush' = flush \/ (flush' = [flush EXCEPT !.pc = "load"] /\ FlushMayRun)
    BY <1>1 DEF Client, Put, Erase, ForceFlush, LockFree
  <2>2. \A n \in WalNum : walFiles'[n].linked = walFiles[n].linked
    BY <1>0, <1>1, AppendKeepsLinks DEF Client, Put, Erase, ForceFlush, Accept
  <2>3. flush'.pc \in {"idle", "load"}
    BY <1>0, <2>1 DEF FlushState
  <2>4. \A c \in Compactor : compact[c].pc \in {"store", "path"} => flush'.pc = "idle"
    BY <2>1, NoFlushAtCounter
  <2> QED BY <1>0, <2>1, <2>2, <2>3, <2>4 DEF LogInv
<1>2. CASE FlushStep
  <2>0. \A c \in Compactor : compact[c].pc \notin {"store", "path"}
    BY <1>2 DEF LogInv, FlushStep, FlushLoad, FlushStore, FlushCreate, FlushFinish,
       FlushOpen, FlushRotate, FlushRemove
  <2>9. UNCHANGED compact
    BY <1>2 DEF FlushStep, FlushLoad, FlushStore, FlushCreate, FlushFinish, FlushOpen,
       FlushRotate, FlushRemove
  <2>1. CASE FlushLoad
    <3>1. /\ UNCHANGED <<up, current_wal, walFiles, sst_counter>>
          /\ flush'.pc = "store" /\ flush'.reg = sst_counter
      BY <1>0, <2>1 DEF FlushLoad, FlushState
    <3> QED BY <2>0, <2>9, <3>1 DEF LogInv
  <2>2. CASE FlushStore
    <3>1. /\ sst_counter' = sst_counter + 1 /\ UNCHANGED <<up, current_wal, walFiles>>
          /\ up /\ flush'.pc = "path"
      BY <1>0, <1>9, <2>2 DEF FlushStore, LogInv, FlushState
    <3> QED BY <1>0, <2>0, <2>9, <3>1 DEF LogInv
  <2>3. CASE FlushCreate \/ FlushFinish \/ FlushOpen
    <3>1. /\ UNCHANGED <<up, current_wal, walFiles, sst_counter>>
          /\ flush.pc \in {"path", "finish", "open"}
          /\ flush'.pc \in {"finish", "open", "rotate"}
      BY <1>0, <2>3 DEF FlushCreate, FlushFinish, FlushOpen, FlushState
    <3>2. flush'.pc \notin {"remove", "store"}
      BY <3>1
    <3> QED BY <2>0, <2>9, <3>1, <3>2 DEF LogInv
  <2>4. CASE FlushRotate
    <3>1. /\ current_wal' = sst_counter + 1 /\ UNCHANGED sst_counter
          /\ flush'.pc = "remove" /\ flush'.reg = current_wal
          /\ current_wal <= sst_counter
      BY <1>0, <2>4 DEF FlushRotate, LogInv, FlushState
    <3>2. sst_counter + 1 \in WalNum
      BY <1>0, BoundTypes DEF TypeOK, WalNum
    <3>3. walFiles'[sst_counter + 1].linked
      BY <1>0, <2>4, <3>2 DEF FlushRotate, WalFile
    <3> QED BY <1>0, <2>0, <2>9, <3>1, <3>3 DEF LogInv
  <2>5. CASE FlushRemove
    <3>1. /\ UNCHANGED <<up, current_wal, sst_counter>> /\ flush'.pc = "idle"
          /\ walFiles'[current_wal] = walFiles[current_wal]
      BY <1>0, <2>5 DEF FlushRemove, IdleFlush, LogInv
    <3> QED BY <2>0, <2>9, <3>1 DEF LogInv
  <2> QED BY <1>2, <2>1, <2>2, <2>3, <2>4, <2>5 DEF FlushStep
<1>3. ASSUME NEW c \in Compactor, CompactSnapshot(c) \/ CompactStep(c)
      PROVE  LogInv'
  <2>0. UNCHANGED <<up, current_wal, walFiles, flush>>
    BY <1>3 DEF CompactSnapshot, CompactStep, CompactLoad, CompactStore, CompactCreate,
       CompactFinish, CompactGiveUp, CompactSwap, CompactDelete
  <2>1. CASE CompactStore(c)
    <3>1. /\ sst_counter' = compact[c].reg + 1 /\ compact[c].pc = "store"
          /\ compact'[c].pc = "path" /\ flush.pc = "idle"
          /\ \A d \in Compactor \ {c} : compact'[d] = compact[d]
      BY <1>0, <2>1 DEF CompactStore, LogInv, CompactState
    <3>2. current_wal <= sst_counter'
      BY <3>1 DEF LogInv
    <3> QED BY <1>0, <2>0, <3>1, <3>2 DEF LogInv
  <2>2. CASE CompactLoad(c)
    <3>1. /\ UNCHANGED sst_counter /\ compact'[c].pc = "store"
          /\ compact'[c].reg = sst_counter /\ flush.pc = "idle" /\ up
          /\ \A d \in Compactor \ {c} : compact'[d] = compact[d]
      BY <1>0, <1>9, <2>2, NoFlushAtCounter DEF CompactLoad, CompactState
    <3> QED BY <2>0, <3>1 DEF LogInv
  <2>3. CASE ~CompactStore(c) /\ ~CompactLoad(c)
    <3>1. UNCHANGED sst_counter
      BY <1>3, <2>3 DEF CompactSnapshot, CompactStep, CompactCreate, CompactFinish,
         CompactGiveUp, CompactSwap, CompactDelete
    <3>2. \A d \in Compactor : \/ compact'[d] = compact[d]
                               \/ compact'[d].pc \notin {"store", "path"}
      <4>1. CASE CompactDelete(c)
        BY <1>0, <4>1 DEF CompactDelete, IdleCompact, CompactState
      <4>2. CASE ~CompactDelete(c)
        BY <1>0, <1>3, <2>3, <4>2 DEF CompactSnapshot, CompactStep, CompactCreate,
           CompactFinish, CompactGiveUp, CompactSwap, IdleCompact, CompactState
      <4> QED BY <4>1, <4>2
    <3> QED BY <2>0, <3>1, <3>2 DEF LogInv
  <2> QED BY <2>1, <2>2, <2>3
<1>4. CASE Failure
  <2>1. LoseMemory
    BY <1>4 DEF Failure, Crash, CrashAfterAppend, CrashInsideAppend
  <2> QED BY <2>1 DEF LoseMemory, LogInv, IdleFlush, IdleCompact
<1>5. CASE Start
  <2>1. /\ flush'.pc = "idle" /\ current_wal' = LoadedCounter(sstFiles) + 1
        /\ sst_counter' = LoadedCounter(sstFiles)
        /\ walFiles' = [walFiles EXCEPT ![LoadedCounter(sstFiles) + 1].linked = TRUE]
        /\ \A c \in Compactor : compact'[c].pc = "idle"
    BY <1>5 DEF Start, TypeInv, NumbersOK
  <2>2. LoadedCounter(sstFiles) \in 0 .. MaxFile
    BY <1>0, LoadedTypes DEF TypeOK
  <2>3. LoadedCounter(sstFiles) + 1 \in WalNum
    BY <2>2, BoundTypes DEF WalNum
  <2>4. walFiles'[LoadedCounter(sstFiles) + 1].linked
    BY <1>0, <2>1, <2>3 DEF WalFile
  <2>5. LoadedCounter(sstFiles) + 1 <= LoadedCounter(sstFiles) + 1
    BY <2>2
  <2> QED BY <2>1, <2>4, <2>5 DEF LogInv
<1>6. CASE UNCHANGED vars
  BY <1>6 DEF vars, LogInv
<1> QED BY <1>1, <1>2, <1>3, <1>4, <1>5, <1>6 DEF Next

\* Initially no file has a number and the log that is open is the first.
LEMMA InitNumber ==
    ASSUME Init
    PROVE  NumberInv
<1>1. TypeInv
  BY InitType DEF TypeInv, NumbersOK, Init, IdleFlush, IdleCompact
<1>2. CounterInv /\ FileInv
  BY DEF Init, CounterInv, FileInv, AtPath, IdleFlush, IdleCompact, Present, MissingSst
<1>3. LogInv
  <2>1. 1 \in WalNum
    BY BoundTypes DEF WalNum
  <2> DEFINE new == 1 = 1
  <2>2. new = TRUE /\ walFiles[1] = [linked |-> new, log |-> <<>>]
    BY <2>1 DEF Init
  <2>3. walFiles[1].linked
    <3> HIDE DEF new
    <3> QED BY <2>2
  <2>4. /\ current_wal = 1 /\ sst_counter = 0 /\ flush.pc = "idle"
        /\ \A c \in Compactor : compact[c].pc = "idle"
    BY DEF Init, IdleFlush, IdleCompact
  <2> QED BY <2>3, <2>4 DEF LogInv
<1> QED BY <1>1, <1>2, <1>3 DEF NumberInv

\* The numbers stay as they should through every step.
LEMMA NextNumber ==
    ASSUME CounterAlone, NumberInv, [Next]_vars
    PROVE  NumberInv'
<1>1. TypeInv'
  BY NextType DEF NumberInv
<1> QED BY <1>1, NextCounter, NextFiles, NextLog DEF NumberInv, CounterAlone

\* So they do throughout.
LEMMA NumberInvHolds ==
    ASSUME CounterAlone
    PROVE  Spec => []NumberInv
BY InitNumber, NextNumber, PTL DEF Spec

\* No builder of a flush or of a compaction truncates a file that exists, through any
\* crashes, half-written files and restarts, if increments happen one at a time: neither a
\* flush nor a second compaction runs beside that of a compaction.
THEOREM FilesAreFresh ==
    ASSUME CounterAlone
    PROVE  Spec => []FreshFile
<1>1. NumberInv => FreshFile
  <2> SUFFICES ASSUME NumberInv,
                      flush.pc = "path" \/ \E c \in Compactor : compact[c].pc = "path"
               PROVE  sstFiles[sst_counter].state = "missing"
    BY DEF FreshFile
  <2>1. sst_counter \in SstNum
    BY LocalTypes DEF NumberInv, TypeInv, NumbersOK, TypeOK, SstNum
  <2>2. ~Present(sst_counter)
    <3>1. ~(sst_counter < sst_counter)
      BY LocalTypes DEF NumberInv, TypeInv
    <3> QED BY <2>1, <3>1 DEF NumberInv, FileInv, AtPath
  <2> QED BY <2>2 DEF Present
<1> QED BY <1>1, NumberInvHolds, PTL

\* A write is never appended to a log that a restart would not find, if no flush runs
\* beside the increment of a compaction; compactions may race for it.
THEOREM ActiveWalStaysLinked ==
    ASSUME "counter" \notin Overlap
    PROVE  Spec => []ActiveWalLinked
<1>1. Init => TypeInv /\ LogInv
  BY InitNumber DEF NumberInv
<1>2. (TypeInv /\ LogInv) /\ [Next]_vars => (TypeInv /\ LogInv)'
  BY NextType, NextLog
<1>3. LogInv => ActiveWalLinked
  BY DEF LogInv, ActiveWalLinked
<1> QED BY <1>1, <1>2, <1>3, PTL DEF Spec
-----------------------------------------------------------------------------
(* Reads.                                                                  *)

\* One thread compacts, no flush overtakes it while it increments the counter, and
\* flushes succeed; in an undisturbed engine nothing crashes either.
LoneCompaction ==
    /\ \A c, d \in Compactor : c = d
    /\ "counter" \notin Overlap
    /\ "flush" \notin DiskFault

Undisturbed == LoneCompaction /\ MaxCrash = 0
-----------------------------------------------------------------------------
(* What a merge finds.                                                     *)

\* If sequences are distinct, a merge takes the entry of the holder of k whose
\* sequence no other holder exceeds.
LEMMA MergeTakesNewest ==
    ASSUME NEW readers \in SUBSET Reader, NEW k \in Key,
           \A r, s \in readers : r.seq = s.seq => r = s,
           NEW r \in Holders(readers, k),
           \A s \in Holders(readers, k) : s.seq <= r.seq
    PROVE  MergedSlot(readers, k) = r.data[k]
<1> DEFINE H == Holders(readers, k)
           h == HighestSeq(H)
<1>1. H \in SUBSET Reader /\ H # {}
  BY DEF Holders
<1>2. h \in H /\ \A s \in H : s.seq <= h.seq
  BY <1>1, HighestSeqIsGreatest
<1>3. h.seq <= r.seq /\ r.seq <= h.seq
  BY <1>2
<1>4. h \in readers /\ r \in readers /\ h.seq \in Nat /\ r.seq \in Nat
  BY <1>2, BoundTypes DEF Holders, Reader
<1>5. h = r
  <2>1. h.seq = r.seq
    BY <1>3, <1>4
  <2> HIDE DEF h
  <2> QED BY <1>4, <2>1
<1>6. MergedSlot(readers, k) = h.data[k]
  BY <1>1 DEF MergedSlot
<1> HIDE DEF h
<1> QED BY <1>5, <1>6

\* The invariant makes merging reads fresh.
LEMMA ReadInvFresh == TypeOK /\ ReadInv => IteratorFresh
<1> SUFFICES ASSUME TypeOK, ReadInv, NEW k \in Key
             PROVE  Answer(IteratorSlot(k)) = Answer(latest[k])
  BY DEF IteratorFresh
<1>1. CASE Has(skiplist, k)
  BY <1>1 DEF ReadInv, MemTableLatest, IteratorSlot
<1>2. CASE ~Has(skiplist, k)
  <2>1. IteratorSlot(k) = MergedSlot(sstables, k) /\ Covers(sstables, k)
    BY <1>2 DEF IteratorSlot, ReadInv, ReadersCover
  <2>2. CASE Holders(sstables, k) = {}
    BY <2>1, <2>2 DEF Covers, MergedSlot, NoSlot, Answer
  <2>3. CASE Holders(sstables, k) # {}
    <3>1. PICK r \in Holders(sstables, k) :
             /\ r.data[k] = latest[k]
             /\ \A s \in Holders(sstables, k) : s.seq <= r.seq
      BY <2>1, <2>3 DEF Covers
    <3>2. MergedSlot(sstables, k) = r.data[k]
      <4>1. \A p, q \in sstables : p.seq = q.seq => p = q
        BY DEF ReadInv, Distinct
      <4>2. sstables \in SUBSET Reader
        BY DEF TypeOK
      <4> QED BY <3>1, <4>1, <4>2, MergeTakesNewest
    <3> QED BY <2>1, <3>1, <3>2
  <2> QED BY <2>2, <2>3
<1> QED BY <1>1, <1>2
-----------------------------------------------------------------------------
(* Steps that change nothing a read looks at.                              *)

Same ==
    /\ skiplist' = skiplist /\ latest' = latest
    /\ sstables' = sstables /\ installed' = installed

\* Such a step keeps what the reads rest on.
LEMMA SameReads ==
    ASSUME ReadInv, Same
    PROVE  MemTableLatest' /\ ReadersCover' /\ Distinct'
BY DEF ReadInv, Same, MemTableLatest, ReadersCover, Distinct, Covers, Holders, Has

\* Numbers that the arithmetic below is about.
LEMMA NumberTypes ==
    ASSUME TypeOK
    PROVE  /\ sst_counter \in Nat /\ installed \in Nat
           /\ \A r \in sstables :
                 r \in Reader /\ r.file \in Nat /\ r.seq \in Nat /\ r.rank \in Nat
           /\ flush.reg \in Nat /\ flush.file \in Nat
           /\ \A c \in Compactor :
                 /\ compact[c].reg \in Nat /\ compact[c].file \in Nat
                 /\ \A r \in compact[c].inputs :
                       r \in Reader /\ r.file \in Nat /\ r.seq \in Nat /\ r.rank \in Nat
<1>1. flush \in FlushState /\ \A c \in Compactor : compact[c] \in CompactState
  BY DEF TypeOK
<1>2. \A r \in Reader : r.file \in Nat /\ r.seq \in Nat /\ r.rank \in Nat
  BY BoundTypes DEF Reader, SstNum
<1> QED BY <1>1, <1>2, BoundTypes DEF TypeOK, FlushState, CompactState

\* Writers: put, erase and force_flush.
LEMMA ClientReads ==
    ASSUME LoneCompaction, TypeInv, ReadInv, Client
    PROVE  ReadInv'
<1> USE DEF memory, disk, history
<1>1. TypeOK
  BY DEF TypeInv
<1>2. /\ sstables' = sstables /\ sst_counter' = sst_counter /\ compact' = compact
      /\ sstFiles' = sstFiles /\ up' = up /\ flush.pc = "idle" /\ installed' = installed
  BY DEF Client, Put, Erase, ForceFlush, LockFree
<1>3. flush' = flush \/ (flush'.pc = "load" /\ FlushMayRun)
  <2>1. flush \in FlushState
    BY <1>1 DEF TypeOK
  <2> QED BY <2>1 DEF Client, Put, Erase, ForceFlush, FlushState
<1>4. flush'.pc \in {"idle", "load"}
  BY <1>2, <1>3
<1>5. ASSUME NEW c \in Compactor, compact[c].pc \in {"store", "path"} PROVE flush'.pc = "idle"
  <2>1. ~FlushMayRun
    BY <1>5 DEF LoneCompaction, FlushMayRun, CompactPart
  <2> QED BY <1>2, <1>3, <2>1
<1>6. \/ Same
      \/ \E k \in Key, slot \in {"put", "erase"} :
            /\ skiplist' = [skiplist EXCEPT ![k] = [type |-> slot, write |-> writes + 1]]
            /\ latest' = [latest EXCEPT ![k] = [type |-> slot, write |-> writes + 1]]
  BY DEF Client, Put, Erase, ForceFlush, Accept, Same
<1>7. MemTableLatest' /\ ReadersCover' /\ Distinct'
  <2>1. CASE Same
    BY <2>1, SameReads
  <2>2. ASSUME NEW k \in Key, NEW slot \in {"put", "erase"},
               skiplist' = [skiplist EXCEPT ![k] = [type |-> slot, write |-> writes + 1]],
               latest' = [latest EXCEPT ![k] = [type |-> slot, write |-> writes + 1]]
        PROVE  MemTableLatest' /\ ReadersCover' /\ Distinct'
    <3>1. /\ \A j \in Key \ {k} : skiplist'[j] = skiplist[j] /\ latest'[j] = latest[j]
          /\ skiplist'[k] = latest'[k] /\ skiplist'[k].type # "none"
      BY <1>1, <2>2 DEF TypeOK, Table
    <3>2. MemTableLatest'
      BY <3>1 DEF ReadInv, MemTableLatest, Has
    <3>3. ReadersCover'
      <4> SUFFICES ASSUME NEW j \in Key, ~Has(skiplist, j)' PROVE Covers(sstables, j)'
        BY DEF ReadersCover
      <4>1. j # k
        BY <3>1 DEF Has
      <4>2. Covers(sstables, j) /\ latest'[j] = latest[j]
        BY <3>1, <4>1 DEF ReadInv, ReadersCover, Has
      <4> QED BY <1>2, <4>2 DEF Covers, Holders, Has
    <3> QED BY <1>2, <3>2, <3>3 DEF ReadInv, Distinct
  <2> QED BY <1>6, <2>1, <2>2
<1>8. Numbered' /\ FlushFresh'
  BY <1>2, <1>4 DEF ReadInv, Numbered, FlushFresh
<1>9. ASSUME NEW c \in Compactor PROVE CompactFresh(c)'
  <2>1. CompactFresh(c) /\ (compact[c].pc \in {"store", "path"} => flush'.pc = "idle")
    BY <1>5 DEF ReadInv
  <2> QED BY <1>2, <2>1
          DEF CompactFresh, Merging, CompactedTable, MergedSlot, Holders, Has
<1> QED BY <1>2, <1>7, <1>8, <1>9 DEF ReadInv
-----------------------------------------------------------------------------
(* Flush.                                                                  *)

\* A compaction that is past its snapshot does not notice a step of a flush
\* that leaves the readers, the counter and its file alone.
LEMMA SameCompact ==
    ASSUME ReadInv, NEW c \in Compactor,
           sstables' = sstables, compact' = compact, sst_counter' = sst_counter,
           installed' = installed, flush.pc # "idle",
           compact[c].pc = "swap" => sstFiles'[compact[c].file] = sstFiles[compact[c].file]
    PROVE  CompactFresh(c)'
<1>1. CompactFresh(c)
  BY DEF ReadInv
<1> QED BY <1>1 DEF CompactFresh, Merging, CompactedTable, MergedSlot, Holders, Has

\* ++sst_counter_ under the lock.
LEMMA FlushCounterReads ==
    ASSUME TypeInv, ReadInv, FlushLoad \/ FlushStore
    PROVE  ReadInv'
<1> USE DEF memory, disk, history
<1>1. TypeOK /\ flush \in FlushState
  BY DEF TypeInv, TypeOK
<1>2. MemTableLatest' /\ ReadersCover' /\ Distinct'
  <2>1. Same
    BY DEF FlushLoad, FlushStore, Same
  <2> QED BY <2>1, SameReads
<1>3. CASE FlushLoad
  <2>1. flush'.pc = "store" /\ flush'.reg = sst_counter
    BY <1>1, <1>3 DEF FlushLoad, FlushState
  <2>2. FlushFresh' /\ Numbered'
    BY <1>3, <2>1 DEF FlushLoad, FlushFresh, Numbered, ReadInv
  <2>3. \A c \in Compactor : CompactFresh(c)'
    BY <1>3, SameCompact DEF FlushLoad
  <2> QED BY <1>2, <1>3, <2>2, <2>3 DEF FlushLoad, ReadInv
<1>4. CASE FlushStore
  <2>1. flush'.pc = "path" /\ sst_counter' = sst_counter + 1
    BY <1>1, <1>4 DEF FlushStore, FlushState, ReadInv, FlushFresh
  <2>2. \A r \in sstables : r.file < sst_counter' /\ r.seq < sst_counter'
    BY <1>1, <2>1, NumberTypes DEF ReadInv, Numbered
  <2>3. \A c \in Compactor :
           /\ compact[c].file < sst_counter'
           /\ \A r \in compact[c].inputs : r.file < sst_counter'
    BY <1>1, <2>1, NumberTypes DEF ReadInv, CompactFresh
  <2>4. FlushFresh' /\ Numbered'
    <3>1. \A r \in sstables :
             r.file <= sst_counter' /\ r.seq <= sst_counter' /\ r.rank <= installed
      BY <1>1, <2>1, <2>2, NumberTypes DEF ReadInv, Numbered
    <3> QED BY <1>4, <2>1, <2>2, <2>3, <3>1 DEF FlushStore, FlushFresh, Numbered
  <2>5. ASSUME NEW c \in Compactor PROVE CompactFresh(c)'
    <3>1. /\ compact[c].file <= sst_counter'
          /\ \A r \in compact[c].inputs : r.file <= sst_counter' /\ r.rank <= installed
      BY <1>1, <2>1, NumberTypes DEF ReadInv, CompactFresh
    <3>2. CompactFresh(c) /\ compact[c].pc \notin {"store", "path"}
      BY <1>4 DEF ReadInv, CompactFresh, FlushStore
    <3> QED BY <1>4, <3>1, <3>2
            DEF FlushStore, CompactFresh, Merging, CompactedTable, MergedSlot, Holders, Has
  <2> QED BY <1>2, <1>4, <2>4, <2>5 DEF FlushStore, ReadInv
<1> QED BY <1>3, <1>4

\* The builder of the flush: its file is nobody else's.
LEMMA FlushFileReads ==
    ASSUME LoneCompaction, TypeInv, ReadInv, FlushCreate \/ FlushFinish
    PROVE  ReadInv'
<1> USE DEF memory, disk, history
<1>1. TypeOK /\ flush \in FlushState
  BY DEF TypeInv, TypeOK
<1>2. MemTableLatest' /\ ReadersCover' /\ Distinct'
  <2>1. Same
    BY DEF FlushCreate, FlushFinish, Same
  <2> QED BY <2>1, SameReads
<1>3. /\ sstables' = sstables /\ compact' = compact /\ sst_counter' = sst_counter
      /\ skiplist' = skiplist /\ up' = up /\ flush.pc \in {"path", "finish"}
      /\ installed' = installed
  BY DEF FlushCreate, FlushFinish
<1>4. /\ flush'.pc \in {"finish", "open"} /\ flush'.file = sst_counter
      /\ flush'.pc = "open" => FlushFinish
  BY <1>1 DEF FlushCreate, FlushFinish, FlushState, ReadInv, FlushFresh
<1>5. sst_counter \in SstNum
  <2>1. sst_counter > 0
    BY <1>3 DEF TypeInv, NumbersOK, ReadInv, FlushFresh
  <2> QED BY <1>1, <2>1, BoundTypes DEF TypeOK, SstNum
<1>6. \E file \in SstFile : sstFiles' = [sstFiles EXCEPT ![sst_counter] = file]
  <2>1. CASE FlushCreate
    BY <2>1, MissingFileTypes DEF FlushCreate
  <2>2. CASE FlushFinish
    <3>1. flush.file = sst_counter
      BY <2>2 DEF FlushFinish, ReadInv, FlushFresh
    <3>2. WholeSst(skiplist) \in SstFile
      BY <1>1 DEF WholeSst, SstFile, TypeOK
    <3> QED BY <2>2, <3>1, <3>2, MissingFileTypes DEF FlushFinish
  <2> QED BY <2>1, <2>2
<1>7. FlushFinish => sstFiles'[sst_counter] = WholeSst(skiplist)
  <2>1. SUFFICES ASSUME FlushFinish PROVE sstFiles'[sst_counter] = WholeSst(skiplist)
    OBVIOUS
  <2>2. flush.file = sst_counter
    BY <2>1 DEF FlushFinish, ReadInv, FlushFresh
  <2> QED BY <1>1, <1>5, <2>1, <2>2 DEF FlushFinish, LoneCompaction, TypeOK
<1>8. FlushFresh' /\ Numbered'
  BY <1>3, <1>4, <1>7 DEF FlushFresh, Numbered, ReadInv
<1>9. ASSUME NEW c \in Compactor PROVE CompactFresh(c)'
  <2>1. compact[c].file # sst_counter
    BY <1>1, <1>3, NumberTypes DEF ReadInv, FlushFresh
  <2>2. sstFiles'[compact[c].file] = sstFiles[compact[c].file]
    BY <1>1, <1>6, <2>1 DEF TypeOK
  <2> QED BY <1>3, <2>2, SameCompact
<1> QED BY <1>2, <1>3, <1>8, <1>9 DEF ReadInv

\* The new reader has the MemTable and the highest sequence.
LEMMA FlushOpenReads ==
    ASSUME "flush" \notin DiskFault, TypeInv, ReadInv, FlushOpen
    PROVE  ReadInv'
<1> USE DEF memory, disk, history
<1> DEFINE new == [file |-> sst_counter, seq |-> sst_counter, rank |-> installed + 1,
                   data |-> skiplist]
<1>1. TypeOK /\ flush \in FlushState
  BY DEF TypeInv, TypeOK
<1>2. /\ flush.pc = "open" /\ flush.file = sst_counter
      /\ sstFiles[flush.file] = WholeSst(skiplist)
  BY DEF FlushOpen, ReadInv, FlushFresh
<1>3. sstables' = sstables \cup {new}
  BY <1>2 DEF FlushOpen, WholeSst
<1>4. \A r \in sstables : r.file < new.file /\ r.seq < new.seq
  BY <1>2 DEF ReadInv, FlushFresh
<1>5. /\ flush'.pc = "rotate" /\ sst_counter' = sst_counter /\ compact' = compact
      /\ skiplist' = skiplist /\ latest' = latest /\ sstFiles' = sstFiles /\ up' = up
      /\ installed' = installed + 1
  BY <1>1, <1>2 DEF FlushOpen, FlushState, WholeSst
<1>6. MemTableLatest'
  BY <1>5 DEF ReadInv, MemTableLatest, Has
<1>7. ReadersCover'
  <2> SUFFICES ASSUME NEW k \in Key, ~Has(skiplist, k) PROVE Covers(sstables, k)'
    BY <1>5 DEF ReadersCover, Has
  <2>1. Holders(sstables', k) = Holders(sstables, k)
    BY <1>3 DEF Holders, Has
  <2>2. Covers(sstables, k)
    BY DEF ReadInv, ReadersCover
  <2> QED BY <1>5, <2>1, <2>2 DEF Covers, Holders, Has
<1>8. Distinct'
  <2>1. \A r \in sstables : r.file # new.file /\ r.seq # new.seq
    BY <1>1, <1>4, NumberTypes
  <2> HIDE DEF new
  <2> QED BY <1>3, <2>1 DEF ReadInv, Distinct
<1>9. Numbered'
  <2>1. \A r \in sstables : r.file <= sst_counter /\ r.seq <= sst_counter /\ r.rank <= installed'
    BY <1>1, <1>5, NumberTypes DEF ReadInv, Numbered
  <2>2. new.file <= sst_counter /\ new.seq <= sst_counter /\ new.rank <= installed'
    BY <1>1, <1>5, NumberTypes
  <2> HIDE DEF new
  <2> QED BY <1>3, <1>5, <2>1, <2>2 DEF Numbered
<1>10. FlushFresh'
  <2>1. \A s \in sstables' \ {new} : s.seq < new.seq
    BY <1>3, <1>4
  <2>2. new \in sstables' /\ new.data = skiplist'
    BY <1>3, <1>5
  <2> HIDE DEF new
  <2> QED BY <1>5, <2>1, <2>2 DEF FlushFresh
<1>11. ASSUME NEW c \in Compactor PROVE CompactFresh(c)'
  <2>1. CompactFresh(c) /\ compact[c].pc \notin {"store", "path"}
    BY <1>2 DEF ReadInv, CompactFresh
  <2>2. compact[c].file # new.file
    BY <1>1, <1>2, NumberTypes DEF ReadInv, FlushFresh
  <2>3. Merging(c) =>
           /\ compact[c].inputs \subseteq sstables'
           /\ \A r \in compact[c].inputs, s \in sstables' \ compact[c].inputs : r.seq < s.seq
    <3> SUFFICES ASSUME Merging(c)
                 PROVE  /\ compact[c].inputs \subseteq sstables'
                        /\ \A r \in compact[c].inputs, s \in sstables' \ compact[c].inputs :
                              r.seq < s.seq
      OBVIOUS
    <3>1. /\ compact[c].inputs \subseteq sstables
          /\ \A r \in compact[c].inputs, s \in sstables \ compact[c].inputs : r.seq < s.seq
      BY <2>1 DEF CompactFresh
    <3> HIDE DEF new
    <3> QED BY <1>3, <1>4, <3>1
  <2>4. compact[c].pc \in {"merge", "swap"} => \A r \in sstables' : r.file # compact[c].file
    BY <1>3, <2>1, <2>2 DEF CompactFresh
  <2>5. \A r \in compact[c].inputs : r.rank <= installed'
    BY <1>1, <1>5, <2>1, NumberTypes DEF CompactFresh
  <2> HIDE DEF new
  <2> QED BY <1>5, <2>1, <2>3, <2>4, <2>5
          DEF CompactFresh, Merging, CompactedTable, MergedSlot, Holders, Has
<1> QED BY <1>5, <1>6, <1>7, <1>8, <1>9, <1>10, <1>11 DEF ReadInv

\* The MemTable goes when the newest reader has what it held.
LEMMA FlushEndReads ==
    ASSUME TypeInv, ReadInv, FlushRotate \/ FlushRemove
    PROVE  ReadInv'
<1> USE DEF memory, disk, history
<1>1. TypeOK /\ flush \in FlushState
  BY DEF TypeInv, TypeOK
<1>2. /\ sst_counter' = sst_counter /\ compact' = compact /\ sstables' = sstables
      /\ latest' = latest /\ sstFiles' = sstFiles /\ up' = up
      /\ flush.pc \in {"rotate", "remove"} /\ installed' = installed
  BY DEF FlushRotate, FlushRemove
<1>3. \A c \in Compactor : CompactFresh(c)'
  BY <1>2, SameCompact
<1>4. Numbered' /\ Distinct'
  BY <1>2 DEF ReadInv, Numbered, Distinct
<1>5. CASE FlushRotate
  <2>1. Same /\ flush'.pc = "remove"
    BY <1>1, <1>2, <1>5 DEF FlushRotate, FlushState, Same
  <2>2. FlushFresh'
    BY <1>2, <2>1 DEF ReadInv, FlushFresh, Same
  <2> QED BY <1>2, <1>3, <1>4, <2>1, <2>2, SameReads DEF ReadInv
<1>6. CASE FlushRemove
  <2>1. skiplist' = EmptyTable /\ flush' = IdleFlush
    BY <1>6 DEF FlushRemove
  <2>2. FlushFresh'
    BY <2>1 DEF FlushFresh, IdleFlush
  <2>3. \A k \in Key : ~Has(EmptyTable, k)
    BY DEF Has, EmptyTable, NoSlot
  <2>4. MemTableLatest'
    BY <2>1, <2>3 DEF MemTableLatest, Has
  <2>5. PICK new \in sstables :
           new.data = skiplist /\ \A s \in sstables \ {new} : s.seq < new.seq
    BY <1>2 DEF ReadInv, FlushFresh
  <2>6. ASSUME NEW k \in Key PROVE Covers(sstables, k)
    <3>1. CASE ~Has(skiplist, k)
      BY <3>1 DEF ReadInv, ReadersCover
    <3>2. CASE Has(skiplist, k)
      <4>1. new \in Holders(sstables, k) /\ new.data[k] = latest[k]
        BY <2>5, <3>2 DEF Holders, Has, ReadInv, MemTableLatest
      <4>2. \A s \in Holders(sstables, k) : s.seq <= new.seq
        BY <1>1, <2>5, NumberTypes DEF Holders
      <4> QED BY <4>1, <4>2 DEF Covers
    <3> QED BY <3>1, <3>2
  <2>7. ReadersCover'
    BY <1>2, <2>6 DEF ReadersCover, Covers, Holders, Has
  <2> QED BY <1>2, <1>3, <1>4, <2>2, <2>4, <2>7 DEF ReadInv
<1> QED BY <1>5, <1>6
-----------------------------------------------------------------------------
(* Compaction.                                                             *)

\* The snapshot: every reader is an input.
LEMMA SnapshotReads ==
    ASSUME LoneCompaction, TypeInv, ReadInv, NEW c \in Compactor, CompactSnapshot(c)
    PROVE  ReadInv'
<1> USE DEF memory, disk, history
<1>1. TypeOK /\ compact \in [Compactor -> CompactState]
  BY DEF TypeInv, TypeOK
<1>2. /\ Same /\ up' = up /\ sst_counter' = sst_counter /\ flush' = flush
      /\ sstFiles' = sstFiles /\ flush.pc = "idle"
  BY DEF CompactSnapshot, Same, LockFree
<1>3. MemTableLatest' /\ ReadersCover' /\ Distinct'
  BY <1>2, SameReads
<1>4. Numbered' /\ FlushFresh'
  BY <1>2 DEF ReadInv, Numbered, FlushFresh, Same
<1>5. ASSUME NEW d \in Compactor PROVE CompactFresh(d)'
  <2>1. d = c
    BY DEF LoneCompaction
  <2>2. /\ compact'[c].pc = "load" /\ compact'[c].inputs = sstables
        /\ compact'[c].file = compact[c].file
    BY <1>1 DEF CompactSnapshot, CompactState
  <2>3. sstables # {}
    <3>1. Cardinality({}) = 0
      BY FS_EmptySet
    <3> QED BY <3>1 DEF CompactSnapshot
  <2>4. /\ compact[c].file <= sst_counter
        /\ \A r \in sstables : r.file <= sst_counter /\ r.rank <= installed
    BY DEF ReadInv, CompactFresh, Numbered
  <2> QED BY <1>2, <2>1, <2>2, <2>3, <2>4 DEF CompactFresh, Merging, Same
<1> QED BY <1>2, <1>3, <1>4, <1>5 DEF ReadInv

\* ++sst_counter_ without the lock: no flush is under way.
LEMMA CompactCounterReads ==
    ASSUME LoneCompaction, TypeInv, ReadInv, NEW c \in Compactor,
           CompactLoad(c) \/ CompactStore(c)
    PROVE  ReadInv'
<1> USE DEF memory, disk, history
<1>1. TypeOK /\ compact \in [Compactor -> CompactState]
  BY DEF TypeInv, TypeOK
<1>2. Same /\ up' = up /\ flush' = flush /\ sstFiles' = sstFiles
  BY DEF CompactLoad, CompactStore, Same
<1>3. MemTableLatest' /\ ReadersCover' /\ Distinct'
  BY <1>2, SameReads
<1>4. flush.pc = "idle"
  <2>1. CASE CompactLoad(c)
    BY <2>1 DEF CompactLoad, MayEnter, CompactPart, LoneCompaction
  <2>2. CASE CompactStore(c)
    BY <2>2 DEF CompactStore, ReadInv, CompactFresh
  <2> QED BY <2>1, <2>2
<1>5. FlushFresh'
  BY <1>2, <1>4 DEF FlushFresh
<1>6. /\ \/ /\ sst_counter' = sst_counter
            /\ compact'[c].pc = "store" /\ compact'[c].reg = sst_counter
         \/ /\ sst_counter' = sst_counter + 1
            /\ compact'[c].pc = "path"
      /\ compact'[c].inputs = compact[c].inputs /\ compact'[c].file = compact[c].file
      /\ Merging(c)
  <2>1. compact[c] \in CompactState
    BY <1>1
  <2>2. CASE CompactLoad(c)
    BY <1>1, <2>1, <2>2 DEF CompactLoad, CompactState, Merging
  <2>3. CASE CompactStore(c)
    <3>1. compact[c].reg = sst_counter
      BY <2>3 DEF CompactStore, ReadInv, CompactFresh
    <3> QED BY <1>1, <2>1, <2>3, <3>1 DEF CompactStore, CompactState, Merging
  <2> QED BY <2>2, <2>3
<1>7. /\ \A r \in sstables : r.file <= sst_counter' /\ r.seq <= sst_counter'
      /\ compact[c].file <= sst_counter'
      /\ \A r \in compact[c].inputs : r.file <= sst_counter' /\ r.rank <= installed
      /\ compact'[c].pc = "path" => \A r \in sstables : r.file < sst_counter'
  BY <1>1, <1>6, NumberTypes DEF ReadInv, Numbered, CompactFresh
<1>8. Numbered'
  BY <1>2, <1>7 DEF ReadInv, Numbered, Same
<1>9. ASSUME NEW d \in Compactor PROVE CompactFresh(d)'
  <2>1. d = c
    BY DEF LoneCompaction
  <2>2. CompactFresh(c)
    BY DEF ReadInv
  <2>3. compact'[c].pc = "store" => compact'[c].reg = sst_counter'
    BY <1>6
  <2>4. compact'[c].pc \in {"store", "path"}
    BY <1>6
  <2> QED BY <1>2, <1>4, <1>6, <1>7, <2>1, <2>2, <2>3, <2>4 DEF CompactFresh, Merging, Same
<1> QED BY <1>2, <1>3, <1>5, <1>8, <1>9 DEF ReadInv

\* The builder of the compaction: its number is above every listed file.
LEMMA CompactFileReads ==
    ASSUME LoneCompaction, TypeInv, ReadInv, NEW c \in Compactor,
           CompactCreate(c) \/ CompactFinish(c)
    PROVE  ReadInv'
<1> USE DEF memory, disk, history
<1>1. TypeOK /\ compact \in [Compactor -> CompactState]
  BY DEF TypeInv, TypeOK
<1>2. Same /\ up' = up /\ flush' = flush /\ sst_counter' = sst_counter
  BY DEF CompactCreate, CompactFinish, Same
<1>3. MemTableLatest' /\ ReadersCover' /\ Distinct'
  BY <1>2, SameReads
<1>4. Numbered'
  BY <1>2 DEF ReadInv, Numbered, Same
<1>5. CompactFresh(c) /\ \A d \in Compactor : d = c
  BY DEF ReadInv, LoneCompaction
<1>6. compact'[c].inputs = compact[c].inputs /\ Merging(c)
  BY <1>1 DEF CompactCreate, CompactFinish, CompactState, Merging
<1>7. CASE CompactCreate(c)
  <2>1. /\ flush.pc = "idle" /\ compact'[c].pc = "merge" /\ compact'[c].file = sst_counter
    BY <1>1, <1>5, <1>7 DEF CompactCreate, CompactState, CompactFresh
  <2>2. FlushFresh'
    BY <1>2, <2>1 DEF FlushFresh
  <2>3. \A r \in sstables : r.file # sst_counter
    BY <1>1, <1>5, <1>7, NumberTypes DEF CompactCreate, CompactFresh
  <2>4. sst_counter <= sst_counter
    BY <1>1, NumberTypes
  <2>5. CompactFresh(c)'
    BY <1>2, <1>5, <1>6, <2>1, <2>3, <2>4 DEF CompactFresh, Merging, Same
  <2> QED BY <1>2, <1>3, <1>4, <1>5, <2>2, <2>5 DEF ReadInv
<1>8. CASE CompactFinish(c)
  <2>1. /\ compact[c].pc = "merge" /\ compact'[c].pc = "swap"
        /\ compact'[c].file = compact[c].file
    BY <1>1, <1>8 DEF CompactFinish, CompactState
  <2>2. PICK ok \in BOOLEAN :
           sstFiles' = [sstFiles EXCEPT ![compact[c].file] =
               IF ok /\ CompactedTable(compact[c].inputs) # EmptyTable
               THEN WholeSst(CompactedTable(compact[c].inputs)) ELSE BrokenSst]
    BY <1>8 DEF CompactFinish
  <2>3. compact[c].file \in SstNum
    <3>1. compact[c].file > 0 /\ compact[c] \in CompactState
      BY <1>1, <2>1 DEF TypeInv, NumbersOK
    <3> QED BY <3>1, BoundTypes DEF CompactState, SstNum
  <2>4. sstFiles'[compact[c].file].state = "whole" =>
           sstFiles'[compact[c].file].data = CompactedTable(compact[c].inputs)
    BY <1>1, <2>2, <2>3 DEF TypeOK, WholeSst, BrokenSst
  <2>5. CompactedTable(compact'[c].inputs) = CompactedTable(compact[c].inputs)
    BY <1>6
  <2>6. CompactFresh(c)'
    BY <1>2, <1>5, <1>6, <2>1, <2>4, <2>5 DEF CompactFresh, Merging, Same
  <2>7. flush.pc = "open" => sstFiles'[sst_counter] = sstFiles[sst_counter]
    <3>1. flush.pc = "open" => compact[c].file # sst_counter
      BY <1>1, NumberTypes DEF ReadInv, FlushFresh
    <3> QED BY <1>1, <2>2, <3>1 DEF TypeOK
  <2>8. \A d \in Compactor :
           compact'[d].file = compact[d].file /\ compact'[d].inputs = compact[d].inputs
    BY <1>5, <1>6, <2>1
  <2>9. FlushFresh'
    BY <1>2, <2>7, <2>8 DEF ReadInv, FlushFresh, Same
  <2> QED BY <1>2, <1>3, <1>4, <1>5, <2>6, <2>9 DEF ReadInv
<1> QED BY <1>7, <1>8

\* Giving up leaves everything as it was.
LEMMA GiveUpReads ==
    ASSUME LoneCompaction, TypeInv, ReadInv, NEW c \in Compactor, CompactGiveUp(c)
    PROVE  ReadInv'
<1> USE DEF memory, disk, history
<1>1. TypeOK /\ compact \in [Compactor -> CompactState]
  BY DEF TypeInv, TypeOK
<1>2. /\ Same /\ up' = up /\ flush' = flush /\ sst_counter' = sst_counter
      /\ sstFiles' = sstFiles
  BY DEF CompactGiveUp, Same
<1>3. MemTableLatest' /\ ReadersCover' /\ Distinct'
  BY <1>2, SameReads
<1>4. Numbered'
  BY <1>2 DEF ReadInv, Numbered, Same
<1>5. \A d \in Compactor : d = c /\ compact'[d] = IdleCompact
  BY <1>1 DEF LoneCompaction, CompactGiveUp
<1>6. FlushFresh'
  <2>1. flush.pc \in {"path", "finish", "open"} => 0 < sst_counter
    BY <1>1, NumberTypes DEF ReadInv, FlushFresh
  <2> QED BY <1>2, <1>5, <2>1 DEF ReadInv, FlushFresh, Same, IdleCompact
<1>7. \A d \in Compactor : CompactFresh(d)'
  <2>1. 0 <= sst_counter
    BY <1>1, NumberTypes
  <2> QED BY <1>2, <1>5, <2>1 DEF CompactFresh, Merging, IdleCompact
<1> QED BY <1>2, <1>3, <1>4, <1>6, <1>7 DEF ReadInv

\* The swap: for every key the merged reader, or a reader that was flushed
\* since the snapshot, has what the inputs and that reader had.
LEMMA SwapReads ==
    ASSUME LoneCompaction, TypeInv, ReadInv, NEW c \in Compactor, CompactSwap(c)
    PROVE  ReadInv'
<1> USE DEF memory, disk, history
<1> DEFINE inputs == compact[c].inputs
           kept == sstables \ inputs
           new == [file |-> compact[c].file, seq |-> 0, rank |-> installed + 1,
                   data |-> CompactedTable(inputs)]
<1>1. TypeOK /\ compact \in [Compactor -> CompactState]
  BY DEF TypeInv, TypeOK
<1>2. CompactFresh(c) /\ Merging(c) /\ compact[c].pc = "swap"
  BY DEF ReadInv, CompactSwap, Merging
<1>3. /\ inputs # {} /\ inputs \subseteq sstables
      /\ \A r \in inputs, s \in kept : r.seq < s.seq
  BY <1>2 DEF CompactFresh
<1>4. sstables' = kept \cup {new}
  <2>1. sstFiles[compact[c].file].data = CompactedTable(inputs)
    BY <1>2 DEF CompactFresh, CompactSwap
  <2>2. {r \in sstables : r.file \notin {s.file : s \in inputs}} = kept
    BY <1>3 DEF ReadInv, Distinct
  <2> QED BY <2>1, <2>2 DEF CompactSwap
<1>5. \A s \in kept : s.seq > 0 /\ s.seq \in Nat
  BY <1>1, <1>3, NumberTypes
<1>6. /\ skiplist' = skiplist /\ latest' = latest /\ up' = up /\ flush' = flush
      /\ sst_counter' = sst_counter /\ flush.pc = "idle" /\ installed' = installed + 1
      /\ compact'[c].pc = "delete" /\ compact'[c].inputs = inputs
      /\ compact'[c].file = compact[c].file
  BY <1>1 DEF CompactSwap, LockFree, CompactState
<1>7. MemTableLatest'
  BY <1>6 DEF ReadInv, MemTableLatest, Has
<1>8. ASSUME NEW k \in Key, ~Has(skiplist, k) PROVE Covers(sstables, k)'
  <2>1. Covers(sstables, k)
    BY <1>8 DEF ReadInv, ReadersCover
  <2>2. Holders(sstables', k) = Holders(kept, k) \cup (IF Has(new.data, k) THEN {new} ELSE {})
    BY <1>4 DEF Holders
  <2>3. Has(new.data, k) <=> MergedSlot(inputs, k).type = "put"
    BY DEF CompactedTable, Has, NoSlot
  <2>4. MergedSlot(inputs, k).type = "put" => new.data[k] = MergedSlot(inputs, k)
    BY DEF CompactedTable
  <2>5. CASE Holders(kept, k) # {}
    <3>1. PICK r \in Holders(sstables, k) :
             r.data[k] = latest[k] /\ \A s \in Holders(sstables, k) : s.seq <= r.seq
      BY <2>1, <2>5 DEF Covers, Holders
    <3>2. r \in Holders(kept, k)
      <4>1. PICK s \in Holders(kept, k) : TRUE
        BY <2>5
      <4>2. r \in inputs => r.seq < s.seq /\ s.seq <= r.seq
        BY <1>3, <3>1, <4>1 DEF Holders
      <4>3. r \notin inputs
        BY <1>1, <4>1, <4>2, NumberTypes DEF Holders
      <4> QED BY <4>3 DEF Holders
    <3>3. \A s \in Holders(sstables', k) : s.seq <= r.seq
      <4>1. \A s \in Holders(kept, k) : s.seq <= r.seq
        BY <3>1 DEF Holders
      <4>2. new.seq <= r.seq
        BY <1>5, <3>2 DEF Holders
      <4> HIDE DEF new
      <4> QED BY <2>2, <4>1, <4>2
    <3>4. r \in Holders(sstables', k)
      BY <2>2, <3>2
    <3> QED BY <1>6, <3>1, <3>3, <3>4 DEF Covers, Holders
  <2>6. CASE Holders(kept, k) = {}
    <3>1. Holders(sstables, k) = Holders(inputs, k)
      BY <1>3, <2>6 DEF Holders
    <3>2. CASE Holders(inputs, k) = {}
      <4>1. MergedSlot(inputs, k).type # "put" /\ latest[k].type # "put"
        BY <2>1, <3>1, <3>2 DEF MergedSlot, NoSlot, Covers
      <4>2. Holders(sstables', k) = {}
        BY <2>2, <2>3, <2>6, <4>1
      <4> QED BY <1>6, <4>1, <4>2 DEF Covers, Holders
    <3>3. CASE Holders(inputs, k) # {}
      <4>1. PICK r \in Holders(inputs, k) :
               r.data[k] = latest[k] /\ \A s \in Holders(inputs, k) : s.seq <= r.seq
        BY <2>1, <3>1, <3>3 DEF Covers
      <4>2. MergedSlot(inputs, k) = latest[k]
        <5>1. \A p, q \in inputs : p.seq = q.seq => p = q
          BY <1>3 DEF ReadInv, Distinct
        <5>2. inputs \in SUBSET Reader
          BY <1>1 DEF CompactState
        <5> HIDE DEF inputs
        <5> QED BY <4>1, <5>1, <5>2, MergeTakesNewest
      <4>3. CASE latest[k].type = "put"
        <5>1. Holders(sstables', k) = {new} /\ new.data[k] = latest[k] /\ new.seq <= new.seq
          BY <2>2, <2>3, <2>4, <2>6, <4>2, <4>3
        <5> HIDE DEF new
        <5> QED BY <1>6, <5>1 DEF Covers, Holders
      <4>4. CASE latest[k].type # "put"
        <5>1. Holders(sstables', k) = {}
          BY <2>2, <2>3, <2>6, <4>2, <4>4
        <5> QED BY <1>6, <4>4, <5>1 DEF Covers, Holders
      <4> QED BY <4>3, <4>4
    <3> QED BY <3>2, <3>3
  <2> QED BY <2>5, <2>6
<1>9. ReadersCover'
  BY <1>6, <1>8 DEF ReadersCover, Has
<1>10. Distinct'
  <2>1. \A r \in kept : r.file # new.file /\ r.seq # new.seq
    BY <1>2, <1>5 DEF CompactFresh
  <2>2. \A r, s \in kept : r.file = s.file \/ r.seq = s.seq => r = s
    BY DEF ReadInv, Distinct
  <2> HIDE DEF new, kept
  <2> QED BY <1>4, <2>1, <2>2 DEF Distinct
<1>11. Numbered'
  <2>1. new.file <= sst_counter /\ new.seq <= sst_counter /\ new.rank <= installed'
    BY <1>1, <1>2, <1>6, NumberTypes DEF CompactFresh
  <2>2. \A r \in kept : r.file <= sst_counter /\ r.seq <= sst_counter /\ r.rank <= installed'
    BY <1>1, <1>6, NumberTypes DEF ReadInv, Numbered
  <2> HIDE DEF new, kept
  <2> QED BY <1>4, <1>6, <2>1, <2>2 DEF Numbered
<1>12. FlushFresh'
  BY <1>6 DEF FlushFresh
<1>13. ASSUME NEW d \in Compactor PROVE CompactFresh(d)'
  <2>1. d = c
    BY DEF LoneCompaction
  <2>2. /\ compact[c].file <= sst_counter
        /\ \A r \in inputs : r.file <= sst_counter /\ r.rank <= installed'
    BY <1>1, <1>2, <1>6, NumberTypes DEF CompactFresh
  <2> HIDE DEF inputs
  <2> QED BY <1>3, <1>6, <2>1, <2>2 DEF CompactFresh, Merging
<1> QED BY <1>6, <1>7, <1>9, <1>10, <1>11, <1>12, <1>13 DEF ReadInv

\* Removing an input's file: no flush has that number.
LEMMA DeleteReads ==
    ASSUME LoneCompaction, TypeInv, ReadInv, NEW c \in Compactor, CompactDelete(c)
    PROVE  ReadInv'
<1> USE DEF memory, disk, history
<1> DEFINE next == FrontMost(compact[c].inputs)
<1>1. TypeOK /\ compact \in [Compactor -> CompactState]
  BY DEF TypeInv, TypeOK
<1>2. /\ Same /\ up' = up /\ flush' = flush /\ sst_counter' = sst_counter
  BY DEF CompactDelete, Same
<1>3. MemTableLatest' /\ ReadersCover' /\ Distinct'
  BY <1>2, SameReads
<1>4. Numbered'
  BY <1>2 DEF ReadInv, Numbered, Same
<1>5. /\ compact[c].pc = "delete"
      /\ compact'[c] = IdleCompact
         \/ compact'[c] = [compact[c] EXCEPT !.inputs = compact[c].inputs \ {next}]
  BY <1>1 DEF CompactDelete
<1>6. \/ compact'[c] = IdleCompact
      \/ /\ compact'[c].pc = "delete" /\ compact'[c].file = compact[c].file
         /\ compact'[c].inputs \subseteq compact[c].inputs
  <2>1. compact[c] \in CompactState
    BY <1>1
  <2> QED BY <1>5, <2>1 DEF CompactState
<1>7. \A d \in Compactor : d = c
  BY DEF LoneCompaction
<1>8. next \in compact[c].inputs
  <2> DEFINE Ranks == {r.rank : r \in compact[c].inputs}
  <2>1. /\ Ranks \in SUBSET Nat /\ Ranks # {} /\ installed \in Nat
        /\ \A n \in Ranks : n <= installed
    BY <1>1, <1>5, NumberTypes DEF ReadInv, CompactFresh, Reader, TypeOK
  <2>2. PICK m \in Ranks : \A n \in Ranks : n <= m
    <3> HIDE DEF Ranks
    <3> QED BY <2>1, GreatestExists
  <2>3. \E r \in compact[c].inputs : \A s \in compact[c].inputs : s.rank <= r.rank
    BY <2>2
  <2> QED BY <2>3 DEF FrontMost
<1>9. FlushFresh'
  <2>1. flush.pc = "open" => sstFiles'[sst_counter] = sstFiles[sst_counter]
    <3>1. flush.pc = "open" => next.file # sst_counter
      BY <1>1, <1>8, NumberTypes DEF ReadInv, FlushFresh
    <3> QED BY <1>1, <3>1 DEF CompactDelete, TypeOK
  <2>2. flush.pc \in {"path", "finish", "open"} => 0 < sst_counter
    BY <1>1, NumberTypes DEF ReadInv, FlushFresh
  <2>3. flush.pc \in {"path", "finish", "open"} =>
           /\ compact'[c].file < sst_counter
           /\ \A r \in compact'[c].inputs : r.file < sst_counter
    BY <1>6, <2>2 DEF ReadInv, FlushFresh, IdleCompact
  <2> QED BY <1>2, <1>7, <2>1, <2>3 DEF ReadInv, FlushFresh, Same
<1>10. CompactFresh(c)'
  <2>1. 0 <= sst_counter
    BY <1>1, NumberTypes
  <2>2. CASE compact'[c] = IdleCompact
    BY <1>2, <2>1, <2>2 DEF CompactFresh, Merging, IdleCompact
  <2>3. CASE compact'[c].pc = "delete"
    <3>1. compact'[c].inputs # {}
      BY <1>1, <2>3 DEF CompactDelete, IdleCompact
    <3>2. CompactFresh(c)
      BY DEF ReadInv
    <3>3. compact'[c].file = compact[c].file /\ compact'[c].inputs \subseteq compact[c].inputs
      BY <1>6, <2>3 DEF IdleCompact
    <3> QED BY <1>2, <2>3, <3>1, <3>2, <3>3 DEF CompactFresh, Merging, Same
  <2> QED BY <1>6, <2>2, <2>3
<1> QED BY <1>2, <1>3, <1>4, <1>7, <1>9, <1>10 DEF ReadInv
-----------------------------------------------------------------------------
(* The invariant, and the theorem.                                         *)

\* An engine on an empty directory has nothing to read.
LEMMA InitReads == Init => ReadInv
<1> SUFFICES ASSUME Init PROVE ReadInv
  OBVIOUS
<1>1. \A k \in Key : ~Has(skiplist, k) /\ latest[k].type # "put"
  BY DEF Init, EmptyTable, NoSlot, Has
<1>2. MemTableLatest /\ ReadersCover
  BY <1>1 DEF MemTableLatest, ReadersCover, Covers, Holders, Init
<1>3. Distinct /\ Numbered /\ FlushFresh
  BY DEF Distinct, Numbered, FlushFresh, Init, IdleFlush
<1>4. \A c \in Compactor : CompactFresh(c)
  BY DEF CompactFresh, Merging, Init, IdleCompact
<1> QED BY <1>2, <1>3, <1>4 DEF ReadInv, Init

\* A step that changes no variable.
LEMMA StutterReads == ReadInv /\ UNCHANGED vars => ReadInv'
BY DEF vars, memory, disk, history, ReadInv, MemTableLatest, ReadersCover, Covers,
       Distinct, Numbered, FlushFresh, CompactFresh, Merging, CompactedTable, MergedSlot,
       Holders, Has

\* Every step of a running engine keeps the invariant.
LEMMA RunningReads ==
    ASSUME LoneCompaction, TypeInv, ReadInv, [Next]_vars, ~Failure, ~Start
    PROVE  ReadInv'
<1>1. CASE Client
  BY <1>1, ClientReads
<1>2. CASE FlushStep
  BY <1>2, FlushCounterReads, FlushFileReads, FlushOpenReads, FlushEndReads
     DEF FlushStep, LoneCompaction
<1>3. ASSUME NEW c \in Compactor, CompactSnapshot(c) \/ CompactStep(c) PROVE ReadInv'
  BY <1>3, SnapshotReads, CompactCounterReads, CompactFileReads, GiveUpReads, SwapReads,
     DeleteReads DEF CompactStep
<1>4. CASE UNCHANGED vars
  BY <1>4, StutterReads
<1> QED BY <1>1, <1>2, <1>3, <1>4 DEF Next

\* An undisturbed engine goes on running.
LEMMA NextReads ==
    ASSUME Undisturbed, TypeInv, ReadInv, [Next]_vars
    PROVE  ReadInv'
<1>1. ~(crashes < MaxCrash)
  BY DEF Undisturbed, TypeInv, TypeOK
<1>2. ~Failure /\ ~Start
  BY <1>1 DEF Failure, Crash, CrashAfterAppend, CrashInsideAppend, CrashMayHit, Start, ReadInv
<1> QED BY <1>2, RunningReads DEF Undisturbed

\* What the flush and the compaction rely on of each other holds throughout.
THEOREM ReadInvHolds ==
    ASSUME Undisturbed
    PROVE  Spec => []ReadInv
<1>1. Init => TypeInv /\ ReadInv
  BY InitType, InitReads DEF TypeInv, NumbersOK, Init, IdleFlush, IdleCompact
<1>2. (TypeInv /\ ReadInv) /\ [Next]_vars => (TypeInv /\ ReadInv)'
  BY NextType, NextReads
<1> QED BY <1>1, <1>2, PTL DEF Spec

\* Whatever flushes and one compaction do at the same time, a merging iterator
\* yields for every key its last accepted write: the snapshot, the unlocked
\* merge and the swap of Compact lose nothing and bring nothing back, although
\* the merged reader is put in front of newer ones.
THEOREM IteratorAlwaysFresh ==
    ASSUME Undisturbed
    PROVE  Spec => []IteratorFresh
<1>1. TypeOK /\ ReadInv => IteratorFresh
  BY ReadInvFresh
<1> QED BY <1>1, TypeCorrect, ReadInvHolds, PTL
-----------------------------------------------------------------------------
(* What get answers.                                                       *)

\* Every reader, listed or being merged, has a file numbered up to the counter and
\* below one just made, and a place up to the last one given.
Counted(r) ==
    /\ r.file <= sst_counter /\ r.rank <= installed
    /\ AtPath => r.file < sst_counter

ReaderInv ==
    /\ \A r \in sstables : Counted(r)
    /\ \A c \in Compactor :
          /\ \A r \in compact[c].inputs : Counted(r)
          /\ compact[c].pc # "idle" => compact[c].inputs # {}
          /\ ~up => compact[c].inputs = {}

\* A flush writes what is in the MemTable to a file nobody else touches, and puts its
\* reader in front of all others, where it stays until the MemTable is cleared.
InstallInv ==
    /\ flush.pc \in {"finish", "open"} =>
          \A c \in Compactor :
             /\ compact[c].file # flush.file
             /\ \A r \in compact[c].inputs : r.file # flush.file
    /\ flush.pc = "open" => sstFiles[flush.file] = WholeSst(skiplist)
    /\ flush.pc \in {"rotate", "remove"} =>
          \E r \in sstables :
             r.data = skiplist /\ \A s \in sstables \ {r} : s.rank < r.rank

\* No entry, wherever it is kept, is of a write that has not been accepted yet.
Written(table) == \A k \in Key : table[k].write <= writes
WriteInv ==
    /\ Written(skiplist)
    /\ \A r \in sstables : Written(r.data)
    /\ \A c \in Compactor : \A r \in compact[c].inputs : Written(r.data)
    /\ \A n \in SstNum : Written(sstFiles[n].data)
    /\ \A n \in WalNum : \A i \in DOMAIN walFiles[n].log : walFiles[n].log[i].write <= writes

GetInv == NumberInv /\ ReaderInv /\ InstallInv /\ WriteInv

\* While the process runs, the counters only grow, and only an increment leads to a
\* number that no file has.
LEMMA CountersGrow ==
    ASSUME CounterAlone, NumberInv, [Next]_vars, up, up'
    PROVE  /\ installed' \in {installed, installed + 1}
           /\ \/ sst_counter' = sst_counter /\ (AtPath' => AtPath)
              \/ sst_counter' = sst_counter + 1
<1> USE DEF memory, disk, history
<1>0. /\ flush \in FlushState /\ compact \in [Compactor -> CompactState]
      /\ \A c \in Compactor : compact[c] \in CompactState
  BY LocalTypes DEF NumberInv, TypeInv
<1>1. CASE Client
  BY <1>0, <1>1 DEF Client, Put, Erase, ForceFlush, AtPath, FlushState, LockFree
<1>2. CASE FlushStep
  <2>1. CASE FlushStore
    BY <1>0, <2>1 DEF FlushStore, NumberInv, CounterInv
  <2>2. CASE ~FlushStore
    <3>1. /\ UNCHANGED <<compact, sst_counter>>
          /\ installed' \in {installed, installed + 1}
      BY <1>2, <2>2 DEF FlushStep, FlushLoad, FlushCreate, FlushFinish, FlushOpen,
         FlushRotate, FlushRemove
    <3>2. flush'.pc # "path"
      <4>1. CASE FlushRemove
        BY <4>1 DEF FlushRemove, IdleFlush
      <4>2. CASE FlushLoad \/ FlushCreate \/ FlushFinish \/ FlushOpen \/ FlushRotate
        BY <1>0, <4>2 DEF FlushLoad, FlushCreate, FlushFinish, FlushOpen, FlushRotate,
           FlushState
      <4> QED BY <1>2, <2>2, <4>1, <4>2 DEF FlushStep
    <3> QED BY <3>1, <3>2 DEF AtPath
  <2> QED BY <2>1, <2>2
<1>3. ASSUME NEW c \in Compactor, CompactSnapshot(c) \/ CompactStep(c)
      PROVE  /\ installed' \in {installed, installed + 1}
             /\ \/ sst_counter' = sst_counter /\ (AtPath' => AtPath)
                \/ sst_counter' = sst_counter + 1
  <2>1. CASE CompactStore(c)
    BY <1>0, <2>1 DEF CompactStore, NumberInv, CounterInv
  <2>2. CASE ~CompactStore(c)
    <3>1. /\ sst_counter' = sst_counter /\ flush' = flush
          /\ installed' \in {installed, installed + 1}
      BY <1>3, <2>2 DEF CompactStep, CompactSnapshot, CompactLoad, CompactCreate,
         CompactFinish, CompactGiveUp, CompactSwap, CompactDelete
    <3>2. \A d \in Compactor : compact'[d].pc = "path" => compact[d].pc = "path"
      <4>1. CASE CompactSnapshot(c) \/ CompactLoad(c) \/ CompactCreate(c) \/ CompactFinish(c)
        BY <1>0, <4>1 DEF CompactSnapshot, CompactLoad, CompactCreate, CompactFinish,
           CompactState
      <4>2. CASE CompactGiveUp(c) \/ CompactSwap(c)
        BY <1>0, <4>2 DEF CompactGiveUp, CompactSwap, IdleCompact, CompactState
      <4>3. CASE CompactDelete(c)
        BY <1>0, <4>3 DEF CompactDelete, IdleCompact, CompactState
      <4> QED BY <1>3, <2>2, <4>1, <4>2, <4>3 DEF CompactStep
    <3> QED BY <3>1, <3>2 DEF AtPath
  <2> QED BY <2>1, <2>2
<1>4. ~Failure /\ ~Start
  BY DEF Failure, Crash, CrashAfterAppend, CrashInsideAppend, LoseMemory, Start
<1>5. CASE UNCHANGED vars
  BY <1>5 DEF vars, AtPath
<1> QED BY <1>1, <1>2, <1>3, <1>4, <1>5 DEF Next

\* So a reader that was counted stays so.
LEMMA CountedKept ==
    ASSUME CounterAlone, NumberInv, [Next]_vars, up, up',
           NEW r \in Reader, Counted(r)
    PROVE  Counted(r)'
<1>1. r.file \in Nat /\ r.rank \in Nat /\ sst_counter \in Nat /\ installed \in Nat
  BY LocalTypes DEF Reader, SstNum, NumberInv, TypeInv, TypeOK
<1> QED BY <1>1, CountersGrow DEF Counted

\* A reader that has just been opened is counted.
LEMMA OpenedCounted ==
    ASSUME NumberInv, FlushOpen \/ \E c \in Compactor : CompactSwap(c),
           NEW r \in sstables' \ sstables
    PROVE  Counted(r)'
<1> USE DEF memory, disk, history
<1>0. /\ flush \in FlushState /\ compact \in [Compactor -> CompactState]
      /\ \A c \in Compactor : compact[c] \in CompactState
      /\ installed \in Nat /\ sst_counter \in Nat
  BY LocalTypes DEF NumberInv, TypeInv, TypeOK
<1>1. CASE FlushOpen
  <2>1. /\ r.file = flush.file /\ r.rank = installed + 1 /\ installed' = installed + 1
        /\ sst_counter' = sst_counter /\ flush'.pc = "rotate" /\ flush.pc = "open"
        /\ compact' = compact
    BY <1>0, <1>1 DEF FlushOpen, FlushState
  <2>2. r.file <= sst_counter /\ ~AtPath'
    BY <2>1 DEF NumberInv, FileInv, CounterInv, AtPath
  <2> QED BY <1>0, <2>1, <2>2 DEF Counted
<1>2. ASSUME NEW c \in Compactor, CompactSwap(c) PROVE Counted(r)'
  <2>1. /\ r.file = compact[c].file /\ r.rank = installed + 1 /\ installed' = installed + 1
        /\ sst_counter' = sst_counter /\ flush' = flush
        /\ \A d \in Compactor : compact'[d].pc = "path" => compact[d].pc = "path"
    BY <1>0, <1>2 DEF CompactSwap, CompactState
  <2>2. r.file <= sst_counter /\ (AtPath' => r.file < sst_counter)
    BY <2>1 DEF NumberInv, FileInv, AtPath
  <2> QED BY <1>0, <2>1, <2>2 DEF Counted
<1> QED BY <1>1, <1>2

\* Of the readers that are given to a builder one is always the front-most.
LEMMA FrontMostIsOne ==
    ASSUME NEW readers \in SUBSET Reader, readers # {}, NEW top \in Nat,
           \A r \in readers : r.rank <= top
    PROVE  /\ FrontMost(readers) \in readers
           /\ \A r \in readers : r.rank <= FrontMost(readers).rank
<1> DEFINE Ranks == {r.rank : r \in readers}
<1>1. Ranks \in SUBSET Nat /\ Ranks # {} /\ \A n \in Ranks : n <= top
  BY DEF Reader
<1>2. PICK m \in Ranks : \A n \in Ranks : n <= m
  <2> HIDE DEF Ranks
  <2> QED BY <1>1, GreatestExists
<1>3. PICK r \in readers : \A s \in readers : s.rank <= r.rank
  BY <1>2
<1> QED BY <1>3 DEF FrontMost

\* A compaction's readers come from the list, and go one by one.
LEMMA InputsShrink ==
    ASSUME NumberInv, ReaderInv, NEW c \in Compactor, CompactSnapshot(c) \/ CompactStep(c)
    PROVE  /\ \A d \in Compactor \ {c} : compact'[d] = compact[d]
           /\ compact'[c].inputs \subseteq compact[c].inputs \cup sstables
           /\ compact'[c].inputs \subseteq compact[c].inputs \/ LockFree
           /\ compact'[c].pc # "idle" => compact'[c].inputs # {}
           /\ up /\ up'
<1> USE DEF memory, disk, history
<1>0. /\ compact \in [Compactor -> CompactState] /\ compact[c] \in CompactState
      /\ compact[c].pc # "idle" => up
  BY LocalTypes DEF NumberInv, TypeInv, TypeOK, NumbersOK
<1>1. CASE CompactSnapshot(c)
  <2>1. sstables # {}
    <3>1. ~(0 > 1)
      OBVIOUS
    <3> QED BY <1>1, <3>1, FS_EmptySet DEF CompactSnapshot
  <2>2. compact'[c].inputs = sstables /\ up' = up /\ up /\ LockFree
    BY <1>0, <1>1 DEF CompactSnapshot, LockFree, CompactState
  <2>3. \A d \in Compactor \ {c} : compact'[d] = compact[d]
    BY <1>0, <1>1 DEF CompactSnapshot
  <2> QED BY <2>1, <2>2, <2>3
<1>2. CASE CompactLoad(c) \/ CompactStore(c) \/ CompactCreate(c) \/ CompactFinish(c)
           \/ CompactSwap(c)
  <2>1. /\ compact[c].pc # "idle" /\ up' = up
        /\ compact'[c].inputs = compact[c].inputs
        /\ \A d \in Compactor \ {c} : compact'[d] = compact[d]
    BY <1>0, <1>2 DEF CompactLoad, CompactStore, CompactCreate, CompactFinish, CompactSwap,
       CompactState
  <2> QED BY <1>0, <2>1 DEF ReaderInv
<1>3. CASE CompactGiveUp(c)
  BY <1>0, <1>3 DEF CompactGiveUp, IdleCompact
<1>4. CASE CompactDelete(c)
  <2> DEFINE rest == compact[c].inputs \ {FrontMost(compact[c].inputs)}
  <2>1. /\ compact[c].pc # "idle" /\ up' = up
        /\ compact' = [compact EXCEPT ![c] = IF rest = {} THEN IdleCompact
                                             ELSE [compact[c] EXCEPT !.inputs = rest]]
    BY <1>4 DEF CompactDelete
  <2>2. \/ compact'[c] = IdleCompact
        \/ rest # {} /\ compact'[c].inputs = rest
    BY <1>0, <2>1 DEF CompactState
  <2>3. \A d \in Compactor \ {c} : compact'[d] = compact[d]
    BY <1>0, <2>1
  <2> QED BY <1>0, <2>1, <2>2, <2>3 DEF IdleCompact
<1> QED BY <1>1, <1>2, <1>3, <1>4 DEF CompactStep

\* Every reader stays counted.
LEMMA NextReader ==
    ASSUME CounterAlone, NumberInv, ReaderInv, [Next]_vars
    PROVE  ReaderInv'
<1> USE DEF memory, disk, history
<1>0. /\ compact \in [Compactor -> CompactState]
      /\ \A c \in Compactor : compact[c].inputs \in SUBSET Reader
      /\ sstables \in SUBSET Reader
      /\ ~up => \A c \in Compactor : compact[c].pc = "idle"
      /\ sstFiles \in [SstNum -> SstFile]
  BY LocalTypes DEF NumberInv, TypeInv, TypeOK, CompactState, NumbersOK
<1>1. CASE up /\ up'
  <2>1. \A r \in sstables : Counted(r)'
    BY <1>0, <1>1, CountedKept DEF ReaderInv
  <2>2. \A c \in Compactor : \A r \in compact[c].inputs : Counted(r)'
    BY <1>0, <1>1, CountedKept DEF ReaderInv
  <2>3. CASE Client \/ UNCHANGED vars
    <3>1. UNCHANGED <<sstables, compact, up>>
      BY <2>3 DEF Client, Put, Erase, ForceFlush, vars
    <3> QED BY <2>1, <2>2, <3>1 DEF ReaderInv
  <2>4. CASE FlushStep
    <3>1. UNCHANGED compact
      BY <2>4 DEF FlushStep, FlushLoad, FlushStore, FlushCreate, FlushFinish, FlushOpen,
         FlushRotate, FlushRemove
    <3>2. UNCHANGED sstables \/ FlushOpen
      BY <2>4 DEF FlushStep, FlushLoad, FlushStore, FlushCreate, FlushFinish,
         FlushRotate, FlushRemove
    <3>3. \A r \in sstables' : Counted(r)'
      BY <2>1, <3>2, OpenedCounted
    <3> QED BY <1>1, <2>2, <3>1, <3>3 DEF ReaderInv
  <2>5. ASSUME NEW c \in Compactor, CompactSnapshot(c) \/ CompactStep(c)
        PROVE  ReaderInv'
    <3>1. UNCHANGED sstables \/ CompactSwap(c)
      BY <2>5 DEF CompactSnapshot, CompactStep, CompactLoad, CompactStore, CompactCreate,
         CompactFinish, CompactGiveUp, CompactDelete
    <3>2. \A r \in sstables' : Counted(r)'
      BY <2>1, <3>1, OpenedCounted
    <3>3. \A d \in Compactor : \A r \in compact'[d].inputs : Counted(r)'
      BY <2>1, <2>2, <2>5, InputsShrink
    <3>4. \A d \in Compactor : compact'[d].pc # "idle" => compact'[d].inputs # {}
      BY <2>5, InputsShrink DEF ReaderInv
    <3> QED BY <1>1, <3>2, <3>3, <3>4 DEF ReaderInv
  <2>6. ~Failure /\ ~Start
    BY <1>1 DEF Failure, Crash, CrashAfterAppend, CrashInsideAppend, LoseMemory, Start
  <2> QED BY <2>3, <2>4, <2>5, <2>6 DEF Next
<1>2. CASE ~up'
  <2>1. CASE Failure
    <3>1. LoseMemory
      BY <2>1 DEF Failure, Crash, CrashAfterAppend, CrashInsideAppend
    <3> QED BY <3>1 DEF LoseMemory, ReaderInv, IdleCompact
  <2>2. CASE UNCHANGED vars
    BY <2>2 DEF vars, ReaderInv, Counted, AtPath
  <2>3. Failure \/ UNCHANGED vars
    <3>1. flush.pc # "idle" => up
      BY DEF NumberInv, TypeInv, TypeOK, NumbersOK
    <3>2. CASE FlushStep
      BY <1>2, <3>1, <3>2 DEF FlushStep, FlushLoad, FlushStore, FlushCreate, FlushFinish,
         FlushOpen, FlushRotate, FlushRemove
    <3> QED BY <1>2, <3>2, InputsShrink
            DEF Next, Client, Put, Erase, ForceFlush, LockFree, Start
  <2> QED BY <2>1, <2>2, <2>3
<1>3. CASE ~up /\ up'
  <2>1. Start
    <3>1. flush.pc # "idle" => up
      BY DEF NumberInv, TypeInv, TypeOK, NumbersOK
    <3>2. ~FlushStep
      BY <1>3, <3>1 DEF FlushStep, FlushLoad, FlushStore, FlushCreate, FlushFinish,
         FlushOpen, FlushRotate, FlushRemove
    <3> QED BY <1>3, <3>2, InputsShrink
            DEF Next, Client, Put, Erase, ForceFlush, LockFree, vars, Failure, Crash,
                CrashAfterAppend, CrashInsideAppend, LoseMemory
  <2>2. /\ sstables' = LoadedReaders(sstFiles) /\ UNCHANGED <<flush, compact>>
        /\ sst_counter' = LoadedCounter(sstFiles) /\ installed' = LoadedCounter(sstFiles)
        /\ flush.pc = "idle"
    BY <1>3, <2>1 DEF Start, NumberInv, TypeInv, NumbersOK
  <2>3. ~AtPath'
    BY <1>0, <1>3, <2>2 DEF AtPath
  <2>4. ASSUME NEW r \in sstables' PROVE Counted(r)'
    <3>1. PICK n \in SstNum : sstFiles[n].state = "whole" /\ r.file = n /\ r.rank = n
      BY <2>2 DEF LoadedReaders
    <3>2. n <= LoadedCounter(sstFiles)
      BY <3>1, LoadedCounterIsGreatest DEF Present
    <3> QED BY <2>2, <2>3, <3>1, <3>2 DEF Counted
  <2> QED BY <1>0, <1>3, <2>2, <2>4 DEF ReaderInv
<1> QED BY <1>1, <1>2, <1>3 DEF NumberInv, TypeInv, TypeOK

\* A flush's file belongs to it until its reader is opened, and its reader is in front
\* until the MemTable is cleared.
LEMMA NextInstall ==
    ASSUME CounterAlone, "flush" \notin DiskFault,
           NumberInv, ReaderInv, InstallInv, [Next]_vars
    PROVE  InstallInv'
<1> USE DEF memory, disk, history
<1>0. /\ flush \in FlushState /\ compact \in [Compactor -> CompactState]
      /\ \A c \in Compactor : compact[c] \in CompactState
      /\ sst_counter \in Nat /\ installed \in Nat /\ flush.file \in Nat
      /\ sstFiles \in [SstNum -> SstFile] /\ sstables \in SUBSET Reader
      /\ \A r \in Reader : r.file \in Nat /\ r.rank \in Nat
      /\ \A c \in Compactor : compact[c].file \in Nat /\ compact[c].inputs \in SUBSET Reader
      /\ flush.pc \in {"finish", "open"} => flush.file > 0 /\ flush.file \in SstNum
  BY LocalTypes DEF NumberInv, TypeInv, TypeOK, NumbersOK, CompactState, Reader, SstNum,
     FlushState
<1>1. CASE Client
  <2>1. flush'.pc \in {"idle", "load"}
    BY <1>0, <1>1 DEF Client, Put, Erase, ForceFlush, LockFree, FlushState
  <2> QED BY <2>1 DEF InstallInv
<1>2. CASE FlushStep
  <2>1. CASE FlushLoad \/ FlushStore
    BY <1>0, <2>1 DEF FlushLoad, FlushStore, InstallInv, FlushState
  <2>2. CASE FlushCreate
    <3>1. /\ flush'.pc = "finish" /\ flush'.file = sst_counter /\ UNCHANGED compact
          /\ AtPath
      BY <1>0, <2>2 DEF FlushCreate, FlushState, AtPath
    <3>2. ASSUME NEW c \in Compactor
          PROVE  /\ compact[c].file # sst_counter
                 /\ \A r \in compact[c].inputs : r.file # sst_counter
      BY <1>0, <3>1 DEF NumberInv, FileInv, ReaderInv, Counted
    <3> QED BY <3>1, <3>2 DEF InstallInv
  <2>3. CASE FlushFinish
    <3>1. /\ flush'.pc = "open" /\ flush'.file = flush.file /\ flush.pc = "finish"
          /\ UNCHANGED <<compact, skiplist>>
      BY <1>0, <2>3 DEF FlushFinish, FlushState
    <3>2. sstFiles'[flush.file] = WholeSst(skiplist)
      BY <1>0, <2>3 DEF FlushFinish
    <3> QED BY <3>1, <3>2 DEF InstallInv
  <2>4. CASE FlushOpen
    <3>1. flush'.pc = "rotate" /\ flush.pc = "open" /\ UNCHANGED skiplist
      BY <1>0, <2>4 DEF FlushOpen, FlushState
    <3> DEFINE new == [file |-> flush.file, seq |-> sst_counter,
                       rank |-> installed + 1, data |-> sstFiles[flush.file].data]
    <3>2. sstFiles[flush.file] = WholeSst(skiplist)
      BY <3>1 DEF InstallInv
    <3>3. sstables' = sstables \cup {new} /\ new.data = skiplist /\ new.rank = installed + 1
      BY <2>4, <3>2 DEF FlushOpen, WholeSst
    <3>4. \A s \in sstables' \ {new} : s.rank < new.rank
      <4> HIDE DEF new
      <4> QED BY <1>0, <3>3 DEF ReaderInv, Counted
    <3>5. new \in sstables'
      BY <3>3
    <3> HIDE DEF new
    <3> QED BY <3>1, <3>3, <3>4, <3>5 DEF InstallInv
  <2>5. CASE FlushRotate
    BY <1>0, <2>5 DEF FlushRotate, InstallInv, FlushState
  <2>6. CASE FlushRemove
    BY <2>6 DEF FlushRemove, IdleFlush, InstallInv
  <2> QED BY <1>2, <2>1, <2>2, <2>3, <2>4, <2>5, <2>6 DEF FlushStep
<1>3. ASSUME NEW c \in Compactor, CompactSnapshot(c) \/ CompactStep(c)
      PROVE  InstallInv'
  <2>1. UNCHANGED <<flush, skiplist>>
    BY <1>3 DEF CompactSnapshot, CompactStep, CompactLoad, CompactStore, CompactCreate,
       CompactFinish, CompactGiveUp, CompactSwap, CompactDelete
  <2>2. CASE flush.pc \in {"finish", "open"}
    <3>1. \A d \in Compactor : compact'[d].inputs \subseteq compact[d].inputs
      BY <1>3, <2>2, InputsShrink DEF LockFree
    <3>2. \A d \in Compactor : compact'[d].file \in {compact[d].file, 0}
      <4>1. ~CompactCreate(c)
        BY <2>2 DEF CompactCreate, NumberInv, CounterInv
      <4>2. CASE CompactSnapshot(c) \/ CompactLoad(c) \/ CompactStore(c) \/ CompactFinish(c)
        BY <1>0, <4>2 DEF CompactSnapshot, CompactLoad, CompactStore, CompactFinish,
           CompactState
      <4>3. CASE CompactGiveUp(c) \/ CompactSwap(c)
        BY <1>0, <4>3 DEF CompactGiveUp, CompactSwap, IdleCompact, CompactState
      <4>4. CASE CompactDelete(c)
        BY <1>0, <4>4 DEF CompactDelete, IdleCompact, CompactState
      <4> QED BY <1>3, <4>1, <4>2, <4>3, <4>4 DEF CompactStep
    <3>3. sstFiles'[flush.file] = sstFiles[flush.file]
      <4>1. ~CompactCreate(c)
        BY <2>2 DEF CompactCreate, NumberInv, CounterInv
      <4>2. CASE CompactFinish(c)
        BY <1>0, <2>2, <4>2 DEF CompactFinish, InstallInv
      <4>3. CASE CompactDelete(c)
        <5>1. FrontMost(compact[c].inputs) \in compact[c].inputs
          BY <1>0, <4>3, FrontMostIsOne DEF CompactDelete, ReaderInv, Counted
        <5>2. FrontMost(compact[c].inputs).file # flush.file
          BY <2>2, <5>1 DEF InstallInv
        <5> QED BY <1>0, <4>3, <5>2 DEF CompactDelete
      <4>4. CASE UNCHANGED sstFiles
        BY <4>4
      <4> QED BY <1>3, <4>1, <4>2, <4>3, <4>4 DEF CompactSnapshot, CompactStep, CompactLoad,
              CompactStore, CompactGiveUp, CompactSwap
    <3>4. flush.pc \notin {"rotate", "remove"}
      BY <2>2
    <3> QED BY <1>0, <2>1, <2>2, <3>1, <3>2, <3>3, <3>4 DEF InstallInv
  <2>3. CASE flush.pc \in {"rotate", "remove"}
    <3>1. UNCHANGED sstables
      BY <1>3, <2>3 DEF CompactSnapshot, CompactStep, CompactLoad, CompactStore,
         CompactCreate, CompactFinish, CompactGiveUp, CompactSwap, CompactDelete, LockFree
    <3> QED BY <2>1, <2>3, <3>1 DEF InstallInv
  <2>4. CASE flush.pc \notin {"finish", "open", "rotate", "remove"}
    BY <2>1, <2>4 DEF InstallInv
  <2> QED BY <2>2, <2>3, <2>4
<1>4. CASE Failure
  <2>1. LoseMemory
    BY <1>4 DEF Failure, Crash, CrashAfterAppend, CrashInsideAppend
  <2> QED BY <2>1 DEF LoseMemory, InstallInv, IdleFlush
<1>5. CASE Start
  BY <1>5 DEF Start, NumberInv, TypeInv, NumbersOK, InstallInv
<1>6. CASE UNCHANGED vars
  BY <1>6 DEF vars, InstallInv
<1> QED BY <1>1, <1>2, <1>3, <1>4, <1>5, <1>6 DEF Next

\* What has been written stays written.
LEMMA WrittenKept ==
    ASSUME TypeOK, writes' \in {writes, writes + 1}, NEW t \in Table, Written(t)
    PROVE  \A k \in Key : t[k].write <= writes'
<1>1. writes \in Nat /\ writes' \in Nat /\ writes <= writes'
  BY BoundTypes DEF TypeOK
<1>2. \A k \in Key : t[k].write \in Nat
  BY BoundTypes DEF Table, Slot
<1> QED BY <1>1, <1>2 DEF Written

\* A merge writes only what it reads.
LEMMA MergeWritten ==
    ASSUME TypeOK, NEW readers \in SUBSET Reader, \A r \in readers : Written(r.data)
    PROVE  Written(CompactedTable(readers))
<1> SUFFICES ASSUME NEW k \in Key PROVE CompactedTable(readers)[k].write <= writes
  BY DEF Written
<1>1. 0 <= writes
  BY BoundTypes DEF TypeOK
<1>2. MergedSlot(readers, k).write <= writes
  <2>1. CASE Holders(readers, k) = {}
    BY <1>1, <2>1 DEF MergedSlot, NoSlot
  <2>2. CASE Holders(readers, k) # {}
    <3>1. Holders(readers, k) \in SUBSET Reader
      BY DEF Holders
    <3>2. HighestSeq(Holders(readers, k)) \in readers
      BY <2>2, <3>1, HighestSeqIsGreatest DEF Holders
    <3> QED BY <2>2, <3>2 DEF MergedSlot, Written
  <2> QED BY <2>1, <2>2
<1> QED BY <1>1, <1>2 DEF CompactedTable, NoSlot

\* A replay restores only what a log holds.
LEMMA ReplayWritten ==
    ASSUME TypeOK, NEW log \in Seq(LogRecord), NEW k \in Key,
           \A i \in DOMAIN log : log[i].write <= writes
    PROVE  ReplayedSlot(log, k).write <= writes
<1>1. 0 <= writes
  BY BoundTypes DEF TypeOK
<1>2. CASE Replayable(log, k) = {}
  BY <1>1, <1>2 DEF ReplayedSlot, NoSlot
<1>3. CASE Replayable(log, k) # {}
  <2>1. /\ Replayable(log, k) \in SUBSET Nat
        /\ Len(log) \in Nat
        /\ \A i \in Replayable(log, k) : i <= Len(log)
    BY DEF Replayable
  <2>2. Max(Replayable(log, k)) \in DOMAIN log
    BY <1>3, <2>1, MaxIsGreatest DEF Replayable
  <2> QED BY <1>3, <2>2 DEF ReplayedSlot
<1> QED BY <1>2, <1>3

\* What is recovered from logs without future records has no future entry.
LEMMA RecoveryWritten ==
    ASSUME TypeOK,
           \A n \in WalNum : \A i \in DOMAIN walFiles[n].log : walFiles[n].log[i].write <= writes
    PROVE  Written(RecoveredMemTable(walFiles))
<1> SUFFICES ASSUME NEW k \in Key PROVE RecoveredMemTable(walFiles)[k].write <= writes
  BY DEF Written
<1> DEFINE Logs == {n \in WalNum : walFiles[n].linked /\ Replayable(walFiles[n].log, k) # {}}
<1>1. RecoveredMemTable(walFiles)[k] =
        IF Logs = {} THEN NoSlot ELSE ReplayedSlot(walFiles[Max(Logs)].log, k)
  BY DEF RecoveredMemTable
<1>2. CASE Logs = {}
  <2>1. 0 <= writes
    BY BoundTypes DEF TypeOK
  <2> HIDE DEF Logs
  <2> QED BY <1>1, <1>2, <2>1 DEF NoSlot
<1>3. CASE Logs # {}
  <2>1. Logs \in SUBSET Nat /\ MaxFile + 1 \in Nat /\ \A n \in Logs : n <= MaxFile + 1
    BY BoundTypes DEF WalNum
  <2>2. Max(Logs) \in Logs
    <3> HIDE DEF Logs
    <3> QED BY <1>3, <2>1, MaxIsGreatest
  <2>3. Max(Logs) \in WalNum /\ walFiles[Max(Logs)].log \in Seq(LogRecord)
    BY <2>2 DEF TypeOK, WalFile
  <2> HIDE DEF Logs
  <2> QED BY <1>1, <1>3, <2>3, ReplayWritten
<1> QED BY <1>2, <1>3

\* A record appended to the active log.
LEMMA AppendWritten ==
    ASSUME TypeOK, WriteInv, writes' \in {writes, writes + 1},
           NEW record \in LogRecord, record.write <= writes', AppendRecord(record)
    PROVE  \A n \in WalNum : \A i \in DOMAIN walFiles'[n].log :
              walFiles'[n].log[i].write <= writes'
<1>1. /\ writes \in Nat /\ writes' \in Nat /\ writes <= writes'
      /\ current_wal \in WalNum /\ walFiles \in [WalNum -> WalFile]
  BY BoundTypes DEF TypeOK
<1>2. ASSUME NEW n \in WalNum, NEW i \in DOMAIN walFiles[n].log
      PROVE  walFiles[n].log[i].write <= writes'
  <2>1. walFiles[n].log[i] \in LogRecord
    BY <1>1, <1>2 DEF WalFile
  <2>2. walFiles[n].log[i].write \in Nat
    BY <2>1, BoundTypes DEF LogRecord
  <2> QED BY <1>1, <1>2, <2>2 DEF WriteInv
<1>3. CASE ~walFiles[current_wal].linked
  BY <1>2, <1>3 DEF AppendRecord
<1>4. CASE walFiles[current_wal].linked
  <2> DEFINE old == walFiles[current_wal].log
  <2>1. old \in Seq(LogRecord)
    BY <1>1 DEF WalFile
  <2>2. \A n \in WalNum : walFiles'[n].log =
           IF n = current_wal THEN Append(old, record) ELSE walFiles[n].log
    BY <1>1, <1>4 DEF AppendRecord, WalFile
  <2>3. \A i \in DOMAIN Append(old, record) : Append(old, record)[i].write <= writes'
    <3> SUFFICES ASSUME NEW i \in DOMAIN Append(old, record)
                 PROVE  Append(old, record)[i].write <= writes'
      OBVIOUS
    <3>0. \A j \in DOMAIN old : old[j].write <= writes'
      BY <1>1, <1>2
    <3> HIDE DEF old
    <3>1. \/ i \in DOMAIN old /\ Append(old, record)[i] = old[i]
          \/ Append(old, record)[i] = record
      BY <2>1
    <3> QED BY <3>0, <3>1
  <2> HIDE DEF old
  <2> QED BY <1>2, <2>2, <2>3
<1> QED BY <1>3, <1>4

\* No step keeps an entry of a write that was not accepted.
LEMMA NextWrite ==
    ASSUME NumberInv, WriteInv, [Next]_vars
    PROVE  WriteInv'
<1> USE DEF memory, disk, history
<1>0. /\ TypeOK /\ compact \in [Compactor -> CompactState]
      /\ sstables \in SUBSET Reader /\ sstFiles \in [SstNum -> SstFile]
      /\ skiplist \in Table /\ writes \in Nat
      /\ \A c \in Compactor : compact[c].inputs \in SUBSET Reader
      /\ \A r \in Reader : r.data \in Table
      /\ \A n \in SstNum : sstFiles[n].data \in Table
  BY BoundTypes DEF NumberInv, TypeInv, TypeOK, CompactState, Reader, SstFile
<1>1. writes' \in {writes, writes + 1}
  BY DEF Next, Client, Put, Erase, ForceFlush, Accept, FlushStep, FlushLoad, FlushStore,
     FlushCreate, FlushFinish, FlushOpen, FlushRotate, FlushRemove, CompactSnapshot,
     CompactStep, CompactLoad, CompactStore, CompactCreate, CompactFinish, CompactGiveUp,
     CompactSwap, CompactDelete, Failure, Crash, CrashAfterAppend, CrashInsideAppend, Start,
     vars
<1>2. /\ Written(skiplist) => \A k \in Key : skiplist[k].write <= writes'
      /\ \A r \in sstables : \A k \in Key : r.data[k].write <= writes'
      /\ \A c \in Compactor : \A r \in compact[c].inputs :
            \A k \in Key : r.data[k].write <= writes'
      /\ \A n \in SstNum : \A k \in Key : sstFiles[n].data[k].write <= writes'
  BY <1>0, <1>1, WrittenKept DEF WriteInv
<1>3. \A k \in Key : EmptyTable[k].write <= writes'
  BY <1>0, <1>1 DEF EmptyTable, NoSlot
<1>4. ASSUME UNCHANGED writes, UNCHANGED walFiles
      PROVE  \A n \in WalNum : \A i \in DOMAIN walFiles'[n].log :
                walFiles'[n].log[i].write <= writes'
  BY <1>4 DEF WriteInv
<1>5. CASE Client
  <2>1. UNCHANGED <<sstables, compact, sstFiles>>
    BY <1>5 DEF Client, Put, Erase, ForceFlush
  <2>2. CASE ForceFlush
    BY <2>2 DEF ForceFlush, WriteInv, Written
  <2>3. ASSUME NEW k \in Key, Put(k) \/ Erase(k) PROVE WriteInv'
    <3>1. PICK op \in {"put", "erase"} :
             Accept(op, k)
             /\ skiplist' = [skiplist EXCEPT ![k] = [type |-> op, write |-> writes + 1]]
      BY <2>3 DEF Put, Erase
    <3>2. /\ writes' = writes + 1 /\ AppendRecord([type |-> op, key |-> k, write |-> writes + 1])
          /\ [type |-> op, key |-> k, write |-> writes + 1] \in LogRecord
      BY <1>0, <3>1, BoundTypes DEF Accept, LogRecord
    <3>3. \A n \in WalNum : \A i \in DOMAIN walFiles'[n].log :
             walFiles'[n].log[i].write <= writes'
      <4> DEFINE record == [type |-> op, key |-> k, write |-> writes + 1]
      <4>1. record.write <= writes' /\ record \in LogRecord /\ AppendRecord(record)
        BY <1>0, <3>2
      <4> HIDE DEF record
      <4> QED BY <1>0, <1>1, <4>1, AppendWritten
    <3>4. \A j \in Key : skiplist'[j].write <= writes'
      BY <1>0, <1>2, <3>1, <3>2 DEF WriteInv, Table
    <3> QED BY <1>2, <2>1, <3>3, <3>4 DEF WriteInv, Written
  <2> QED BY <1>5, <2>2, <2>3 DEF Client
<1>6. CASE FlushStep
  <2>1. UNCHANGED <<compact, writes>>
    BY <1>6 DEF FlushStep, FlushLoad, FlushStore, FlushCreate, FlushFinish, FlushOpen,
       FlushRotate, FlushRemove
  <2>2. CASE FlushLoad \/ FlushStore
    BY <2>2 DEF FlushLoad, FlushStore, WriteInv, Written
  <2>3. CASE FlushCreate \/ FlushFinish
    <3>1. UNCHANGED <<skiplist, sstables, walFiles>>
      BY <2>3 DEF FlushCreate, FlushFinish
    <3>2. \A n \in SstNum : sstFiles'[n].data \in {sstFiles[n].data, skiplist, EmptyTable}
      BY <1>0, <2>3 DEF FlushCreate, FlushFinish, BrokenSst, WholeSst
    <3>3. \A n \in SstNum : \A k \in Key : sstFiles'[n].data[k].write <= writes'
      BY <1>2, <1>3, <3>2 DEF WriteInv
    <3> QED BY <1>2, <1>4, <2>1, <3>1, <3>3 DEF WriteInv, Written
  <2>4. CASE FlushOpen
    <3>1. UNCHANGED <<skiplist, sstFiles, walFiles>>
      BY <2>4 DEF FlushOpen
    <3>2. flush.file \in SstNum
      BY <1>0, <2>4 DEF FlushOpen, NumberInv, TypeInv, NumbersOK, TypeOK, FlushState, SstNum
    <3>3. \A r \in sstables' : r \in sstables \/ r.data = sstFiles[flush.file].data
      BY <2>4 DEF FlushOpen
    <3> QED BY <1>2, <1>4, <2>1, <3>1, <3>2, <3>3 DEF WriteInv, Written
  <2>5. CASE FlushRotate \/ FlushRemove
    <3>1. UNCHANGED <<sstables, sstFiles>> /\ skiplist' \in {skiplist, EmptyTable}
      BY <2>5 DEF FlushRotate, FlushRemove
    <3>2. \A n \in WalNum : walFiles'[n].log \in {walFiles[n].log, <<>>}
      <4>1. walFiles \in [WalNum -> WalFile]
        BY <1>0 DEF TypeOK
      <4>2. CASE FlushRotate
        <5>1. walFiles' = [walFiles EXCEPT ![sst_counter + 1].linked = TRUE]
          BY <4>2 DEF FlushRotate
        <5> QED BY <4>1, <5>1 DEF WalFile
      <4>3. CASE FlushRemove
        BY <4>1, <4>3 DEF FlushRemove, MissingWal
      <4> QED BY <2>5, <4>2, <4>3
    <3>3. \A n \in WalNum : \A i \in DOMAIN walFiles'[n].log :
             walFiles'[n].log[i].write <= writes'
      BY <2>1, <3>2 DEF WriteInv
    <3>4. \A k \in Key : skiplist'[k].write <= writes'
      BY <1>2, <1>3, <3>1 DEF WriteInv
    <3> QED BY <1>2, <2>1, <3>1, <3>3, <3>4 DEF WriteInv, Written
  <2> QED BY <1>6, <2>2, <2>3, <2>4, <2>5 DEF FlushStep
<1>7. ASSUME NEW c \in Compactor, CompactSnapshot(c) \/ CompactStep(c)
      PROVE  WriteInv'
  <2>1. UNCHANGED <<skiplist, writes, walFiles>>
    BY <1>7 DEF CompactSnapshot, CompactStep, CompactLoad, CompactStore, CompactCreate,
       CompactFinish, CompactGiveUp, CompactSwap, CompactDelete
  <2>2. \A d \in Compactor : compact'[d].inputs \subseteq compact[d].inputs \cup sstables
    <3>1. compact[c] \in CompactState
      BY <1>0
    <3>2. CASE CompactSnapshot(c)
      BY <1>0, <3>1, <3>2 DEF CompactSnapshot, CompactState
    <3>3. CASE CompactLoad(c) \/ CompactStore(c) \/ CompactCreate(c) \/ CompactFinish(c)
               \/ CompactSwap(c)
      BY <1>0, <3>1, <3>3 DEF CompactLoad, CompactStore, CompactCreate, CompactFinish,
         CompactSwap, CompactState
    <3>4. CASE CompactGiveUp(c)
      BY <1>0, <3>4 DEF CompactGiveUp, IdleCompact
    <3>5. CASE CompactDelete(c)
      <4> DEFINE rest == compact[c].inputs \ {FrontMost(compact[c].inputs)}
      <4>1. compact' = [compact EXCEPT ![c] = IF rest = {} THEN IdleCompact
                                              ELSE [compact[c] EXCEPT !.inputs = rest]]
        BY <3>5 DEF CompactDelete
      <4> QED BY <1>0, <3>1, <4>1 DEF IdleCompact, CompactState
    <3> QED BY <1>7, <3>2, <3>3, <3>4, <3>5 DEF CompactStep
  <2>3. \A d \in Compactor : \A r \in compact'[d].inputs : \A k \in Key :
           r.data[k].write <= writes'
    BY <1>2, <2>2
  <2>4. \A n \in SstNum : \A k \in Key : sstFiles'[n].data[k].write <= writes'
    <3>1. CASE CompactFinish(c)
      <4> DEFINE merged == CompactedTable(compact[c].inputs)
      <4>1. \A n \in SstNum : sstFiles'[n].data \in {sstFiles[n].data, merged, EmptyTable}
        <5> HIDE DEF merged
        <5>1. sstFiles' = [sstFiles EXCEPT ![compact[c].file] = WholeSst(merged)]
              \/ sstFiles' = [sstFiles EXCEPT ![compact[c].file] = BrokenSst]
          BY <3>1 DEF CompactFinish, merged
        <5> QED BY <1>0, <5>1 DEF WholeSst, BrokenSst
      <4>2. Written(merged) /\ merged \in Table
        BY <1>0, MergeWritten, CompactedTableType DEF WriteInv
      <4>3. \A k \in Key : merged[k].write <= writes'
        <5> HIDE DEF merged
        <5> QED BY <1>0, <1>1, <4>2, WrittenKept
      <4> HIDE DEF merged
      <4> QED BY <1>2, <1>3, <4>1, <4>3
    <3>2. CASE CompactCreate(c) \/ CompactDelete(c)
      <4>1. \A n \in SstNum : sstFiles'[n].data \in {sstFiles[n].data, EmptyTable}
        BY <1>0, <3>2 DEF CompactCreate, CompactDelete, BrokenSst, MissingSst
      <4> QED BY <1>2, <1>3, <4>1
    <3>3. CASE UNCHANGED sstFiles
      BY <1>2, <3>3
    <3> QED BY <1>7, <3>1, <3>2, <3>3 DEF CompactSnapshot, CompactStep, CompactLoad,
            CompactStore, CompactGiveUp, CompactSwap
  <2>5. \A r \in sstables' : \A k \in Key : r.data[k].write <= writes'
    <3>1. CASE CompactSwap(c)
      <4>1. compact[c].file \in SstNum
        BY <1>0, <3>1
           DEF CompactSwap, NumberInv, TypeInv, NumbersOK, TypeOK, CompactState, SstNum
      <4>2. \A r \in sstables' : r \in sstables \/ r.data = sstFiles[compact[c].file].data
        BY <3>1 DEF CompactSwap
      <4> QED BY <1>2, <4>1, <4>2
    <3>2. CASE ~CompactSwap(c)
      BY <1>2, <1>7, <3>2 DEF CompactSnapshot, CompactStep, CompactLoad, CompactStore,
         CompactCreate, CompactFinish, CompactGiveUp, CompactDelete
    <3> QED BY <3>1, <3>2
  <2> QED BY <1>2, <1>4, <2>1, <2>3, <2>4, <2>5 DEF WriteInv, Written
<1>8. CASE Failure
  <2>1. LoseMemory /\ UNCHANGED sstFiles
    BY <1>8 DEF Failure, Crash, CrashAfterAppend, CrashInsideAppend
  <2>2. \A n \in WalNum : \A i \in DOMAIN walFiles'[n].log :
           walFiles'[n].log[i].write <= writes'
    <3>1. CASE Crash
      BY <1>4, <3>1 DEF Crash
    <3>2. ASSUME NEW k \in Key, NEW op \in {"put", "erase"}, CrashAfterAppend(op, k)
          PROVE  \A n \in WalNum : \A i \in DOMAIN walFiles'[n].log :
                    walFiles'[n].log[i].write <= writes'
      <4> DEFINE record == [type |-> op, key |-> k, write |-> writes + 1]
      <4>1. record.write <= writes' /\ record \in LogRecord /\ AppendRecord(record)
        BY <1>0, <3>2, BoundTypes DEF CrashAfterAppend, Accept, LogRecord
      <4> HIDE DEF record
      <4> QED BY <1>0, <1>1, <4>1, AppendWritten
    <3>3. ASSUME NEW k \in Key, CrashInsideAppend(k)
          PROVE  \A n \in WalNum : \A i \in DOMAIN walFiles'[n].log :
                    walFiles'[n].log[i].write <= writes'
      <4> DEFINE record == [type |-> "torn", key |-> k, write |-> 0]
      <4>1. record.write <= writes' /\ record \in LogRecord /\ AppendRecord(record)
        BY <1>0, <1>1, <3>3, BoundTypes DEF CrashInsideAppend, LogRecord
      <4> HIDE DEF record
      <4> QED BY <1>0, <1>1, <4>1, AppendWritten
    <3> QED BY <1>8, <3>1, <3>2, <3>3 DEF Failure
  <2> QED BY <1>2, <1>3, <2>1, <2>2 DEF LoseMemory, IdleCompact, WriteInv, Written
<1>9. CASE Start
  <2>1. /\ UNCHANGED <<compact, sstFiles, writes>>
        /\ skiplist' = RecoveredMemTable(walFiles) /\ sstables' = LoadedReaders(sstFiles)
    BY <1>9 DEF Start
  <2>2. Written(skiplist')
    BY <1>0, <2>1, RecoveryWritten DEF WriteInv
  <2>3. \A r \in sstables' : \E n \in SstNum : r.data = sstFiles[n].data
    BY <2>1 DEF LoadedReaders
  <2>4. \A n \in WalNum : walFiles'[n].log = walFiles[n].log
    BY <1>0, <1>9 DEF Start, TypeOK, WalFile
  <2>5. \A n \in WalNum : \A i \in DOMAIN walFiles'[n].log :
           walFiles'[n].log[i].write <= writes'
    BY <2>1, <2>4 DEF WriteInv
  <2> QED BY <1>2, <2>1, <2>2, <2>3, <2>5 DEF WriteInv, Written
<1>10. CASE UNCHANGED vars
  BY <1>10 DEF vars, WriteInv, Written
<1> QED BY <1>5, <1>6, <1>7, <1>8, <1>9, <1>10 DEF Next

\* All of this holds throughout.
LEMMA GetInvHolds ==
    ASSUME CounterAlone, "flush" \notin DiskFault
    PROVE  /\ Init => GetInv
           /\ GetInv /\ [Next]_vars => GetInv'
<1>1. ASSUME Init PROVE GetInv
  <2>1. NumberInv
    BY <1>1, InitNumber
  <2>2. ReaderInv /\ InstallInv
    BY <1>1 DEF Init, ReaderInv, InstallInv, IdleFlush, IdleCompact
  <2>3. WriteInv
    <3>1. Written(EmptyTable)
      BY <1>1 DEF Init, Written, EmptyTable, NoSlot
    <3>2. \A n \in SstNum : sstFiles[n].data = EmptyTable
      BY <1>1 DEF Init, MissingSst
    <3>3. \A n \in WalNum : walFiles[n].log = <<>>
      BY <1>1 DEF Init
    <3> QED BY <1>1, <3>1, <3>2, <3>3 DEF Init, WriteInv, IdleCompact
  <2> QED BY <2>1, <2>2, <2>3 DEF GetInv
<1>2. ASSUME GetInv, [Next]_vars PROVE GetInv'
  <2>1. NumberInv'
    BY <1>2, NextNumber DEF GetInv
  <2> QED BY <1>2, <2>1, NextReader, NextInstall, NextWrite DEF GetInv
<1> QED BY <1>1, <1>2

\* A reader in front of all others is the one that decides.
LEMMA FrontDecides ==
    ASSUME NEW readers \in SUBSET Reader, NEW r \in readers,
           \A s \in readers \ {r} : s.rank < r.rank
    PROVE  FrontMost(readers) = r
<1>1. \A s \in readers : s.rank \in Nat
  BY DEF Reader
<1>2. \A s \in readers : s.rank <= r.rank
  BY <1>1
<1>3. \A s \in readers : r.rank <= s.rank => s = r
  BY <1>1
<1> QED BY <1>2, <1>3 DEF FrontMost

\* What get answers is a write accepted so far.
LEMMA GetAnswersWritten ==
    ASSUME GetInv, NEW k \in Key
    PROVE  GetSlot(k).write \in Nat /\ GetSlot(k).write <= writes
<1>0. /\ skiplist \in Table /\ sstables \in SUBSET Reader /\ writes \in Nat
      /\ installed \in Nat
  BY BoundTypes DEF GetInv, NumberInv, TypeInv, TypeOK
<1>1. CASE Has(skiplist, k)
  BY <1>0, <1>1, BoundTypes DEF GetSlot, GetInv, WriteInv, Written, Table, Slot
<1>2. CASE ~Has(skiplist, k) /\ Holders(sstables, k) = {}
  BY <1>0, <1>2 DEF GetSlot, NoSlot
<1>3. CASE ~Has(skiplist, k) /\ Holders(sstables, k) # {}
  <2>1. \A r \in Holders(sstables, k) : r \in sstables /\ r.rank <= installed
    BY DEF Holders, GetInv, ReaderInv, Counted
  <2>2. FrontMost(Holders(sstables, k)) \in sstables
    BY <1>0, <1>3, <2>1, FrontMostIsOne
  <2> QED BY <1>0, <1>3, <2>2, BoundTypes
          DEF GetSlot, GetInv, WriteInv, Written, Reader, Table, Slot
<1> QED BY <1>1, <1>2, <1>3

\* No step but the swap of a compaction makes get answer with an older write.
LEMMA StepReadsForward ==
    ASSUME CounterAlone, GetInv, Next, up, up', ~SwapInstalls, NEW k \in Key
    PROVE  GetSlot(k)'.write >= GetSlot(k).write
<1> USE DEF memory, disk, history
<1>0. /\ skiplist \in Table /\ sstables \in SUBSET Reader /\ writes \in Nat
      /\ compact \in [Compactor -> CompactState]
      /\ \A c \in Compactor : compact[c] \in CompactState
  BY BoundTypes, LocalTypes DEF GetInv, NumberInv, TypeInv, TypeOK
<1>1. GetSlot(k).write \in Nat /\ GetSlot(k).write <= writes
  BY GetAnswersWritten
<1>2. CASE UNCHANGED <<skiplist, sstables>>
  BY <1>1, <1>2 DEF GetSlot
<1>3. ASSUME NEW j \in Key, Put(j) \/ Erase(j)
      PROVE  GetSlot(k)'.write >= GetSlot(k).write
  <2>1. PICK op \in {"put", "erase"} :
           /\ skiplist' = [skiplist EXCEPT ![j] = [type |-> op, write |-> writes + 1]]
           /\ UNCHANGED sstables
    BY <1>3 DEF Put, Erase
  <2>2. CASE j = k
    <3>1. skiplist'[k] = [type |-> op, write |-> writes + 1]
      BY <1>0, <2>1, <2>2 DEF Table
    <3>2. GetSlot(k)' = skiplist'[k]
      BY <3>1 DEF GetSlot, Has
    <3>3. GetSlot(k)'.write = writes + 1
      BY <3>1, <3>2
    <3> QED BY <1>0, <1>1, <3>3
  <2>3. CASE j # k
    <3>1. skiplist'[k] = skiplist[k]
      BY <1>0, <2>1, <2>3 DEF Table
    <3> QED BY <1>1, <2>1, <3>1 DEF GetSlot, Has
  <2> QED BY <2>2, <2>3
<1>4. CASE FlushOpen
  <2>1. /\ UNCHANGED skiplist
        /\ \A r \in sstables' : r \in sstables \/ r.data = skiplist
        /\ sstables \subseteq sstables'
    BY <1>4 DEF FlushOpen, GetInv, InstallInv, WholeSst
  <2>2. ~Has(skiplist, k) => Holders(sstables', k) = Holders(sstables, k)
    BY <2>1 DEF Holders
  <2> QED BY <1>1, <2>1, <2>2 DEF GetSlot
<1>5. CASE FlushRemove
  <2>1. skiplist' = EmptyTable /\ UNCHANGED sstables /\ ~Has(skiplist', k)
    BY <1>5 DEF FlushRemove, EmptyTable, NoSlot, Has
  <2>2. PICK r \in sstables : r.data = skiplist /\ \A s \in sstables \ {r} : s.rank < r.rank
    BY <1>5 DEF FlushRemove, GetInv, InstallInv
  <2>3. CASE Has(skiplist, k)
    <3>1. /\ r \in Holders(sstables, k) /\ Holders(sstables, k) \in SUBSET Reader
          /\ \A s \in Holders(sstables, k) \ {r} : s.rank < r.rank
      BY <1>0, <2>2, <2>3 DEF Holders
    <3>2. FrontMost(Holders(sstables, k)) = r
      BY <3>1, FrontDecides
    <3> QED BY <1>1, <2>1, <2>2, <2>3, <3>1, <3>2 DEF GetSlot
  <2>4. CASE ~Has(skiplist, k)
    BY <1>1, <2>1, <2>4 DEF GetSlot
  <2> QED BY <2>3, <2>4
<1>6. \A c \in Compactor : ~CompactSwap(c)
  BY <1>0 DEF CompactSwap, SwapInstalls, CompactState
<1>7. \/ UNCHANGED <<skiplist, sstables>> \/ FlushOpen \/ FlushRemove
      \/ \E j \in Key : Put(j) \/ Erase(j)
  BY <1>6 DEF Next, Client, ForceFlush, FlushStep, FlushLoad, FlushStore, FlushCreate,
     FlushFinish, FlushRotate, CompactSnapshot, CompactStep, CompactLoad, CompactStore,
     CompactCreate, CompactFinish, CompactGiveUp, CompactDelete, Failure, Crash,
     CrashAfterAppend, CrashInsideAppend, LoseMemory, Start
<1> QED BY <1>2, <1>3, <1>4, <1>5, <1>7

\* Whatever flushes, compactions, crashes and restarts do, get never goes back to an
\* older write of a key, except when a compaction swaps its file in or the process
\* starts again: if increments happen one at a time, of flushes and of compactions, and
\* flushed files get written and opened.
THEOREM GetMovesForward ==
    ASSUME CounterAlone, "flush" \notin DiskFault
    PROVE  Spec => ReadsMoveForward
<1>1. GetInv /\ [Next]_vars =>
        [\A k \in Key :
            (up /\ up' /\ ~SwapInstalls) => GetSlot(k)'.write >= GetSlot(k).write]_vars
  BY StepReadsForward
<1> QED BY <1>1, GetInvHolds, PTL DEF Spec, ReadsMoveForward
-----------------------------------------------------------------------------
(* Any number of compactions at once.                                      *)

\* Any number of compactions, one behind another at the counter and at any distance
\* elsewhere, but no flush beside one, and flushes succeed.
FlushesApart == Overlap = {} /\ CounterAlone /\ "flush" \notin DiskFault

\* What the lemmas below start from.
Apart == FlushesApart /\ GetInv /\ PeerInv

\* The types of what is compared.
LEMMA PeerTypes ==
    ASSUME TypeOK
    PROVE  /\ sstables \in SUBSET Reader
           /\ \A r \in Reader : r.file \in Nat /\ r.seq \in Nat /\ r.rank \in Nat
           /\ flush \in FlushState /\ compact \in [Compactor -> CompactState]
           /\ \A c \in Compactor : /\ compact[c].file \in Nat
                                   /\ compact[c].inputs \in SUBSET Reader
           /\ sstFiles \in [SstNum -> SstFile] /\ sst_counter \in Nat /\ installed \in Nat
BY LocalTypes, BoundTypes DEF TypeOK, Reader, SstNum, CompactState

\* In an ordered list a merge finds what get finds.
LEMMA MergeFindsFront ==
    ASSUME GetInv, InOrder, NEW k \in Key
    PROVE  MergedSlot(sstables, k) = FrontSlot(k)
<1>0. TypeOK
  BY DEF GetInv, NumberInv, TypeInv
<1>1. CASE Holders(sstables, k) = {}
  BY <1>1 DEF MergedSlot, FrontSlot
<1>2. CASE Holders(sstables, k) # {}
  <2> DEFINE H == Holders(sstables, k)
             h == HighestSeq(H)
             f == FrontMost(H)
  <2>1. H \in SUBSET Reader /\ installed \in Nat /\ H \subseteq sstables
    BY <1>0, PeerTypes DEF Holders
  <2>2. \A r \in H : r.rank <= installed
    BY <2>1 DEF GetInv, ReaderInv, Counted
  <2> HIDE DEF H
  <2>3. h \in H /\ \A r \in H : r.seq <= h.seq
    BY <1>2, <2>1, HighestSeqIsGreatest DEF H
  <2>4. f \in H /\ \A r \in H : r.rank <= f.rank
    BY <1>2, <2>1, <2>2, FrontMostIsOne DEF H
  <2> HIDE DEF h, f
  <2>5. /\ h.rank <= f.rank /\ f.seq <= h.seq /\ h.rank \in Nat /\ f.rank \in Nat
        /\ h.seq \in Nat /\ f.seq \in Nat
    BY <1>0, <2>1, <2>3, <2>4, PeerTypes
  <2>6. h.data = f.data
    <3>1. CASE h.rank = f.rank
      BY <2>1, <2>3, <2>4, <3>1 DEF InOrder
    <3>2. CASE f.rank > h.rank
      <4>1. f.seq > h.seq \/ f.data = h.data
        BY <2>1, <2>3, <2>4, <3>2 DEF InOrder
      <4> QED BY <2>5, <4>1
    <3> QED BY <2>5, <3>1, <3>2
  <2> QED BY <1>2, <2>6 DEF MergedSlot, FrontSlot, H, h, f
<1> QED BY <1>1, <1>2

\* So a compaction writes what get finds, without the tombstones.
LEMMA MergeIsLive ==
    ASSUME GetInv, InOrder
    PROVE  CompactedTable(sstables) = Live
BY MergeFindsFront DEF CompactedTable, Live

\* Steps that leave the list and the MemTable alone.
LEMMA SameLive ==
    ASSUME UNCHANGED sstables
    PROVE  Live' = Live /\ \A k \in Key : FrontSlot(k)' = FrontSlot(k)
BY DEF Live, FrontSlot

\* They keep the order, and what lies beneath the MemTable.
LEMMA SameList ==
    ASSUME PeerInv, UNCHANGED sstables
    PROVE  InOrder' /\ (UNCHANGED <<skiplist, latest>> => Beneath')
BY SameLive DEF PeerInv, InOrder, Beneath, Has

\* A compaction that does not move keeps its share while the list stays.
LEMMA SamePeer ==
    ASSUME PeerInv, UNCHANGED sstables, NEW c \in Compactor, compact'[c] = compact[c]
    PROVE  Peer(c)'
BY SameLive DEF PeerInv, Peer, Merging, CompactedTable, MergedSlot, Holders, Has

\* Beside a flush nobody merges, so there is nothing to keep.
LEMMA NobodyMerges ==
    ASSUME \A c \in Compactor : ~Merging(c), UNCHANGED compact
    PROVE  \A c \in Compactor : Peer(c)' /\ Own(c)' /\ ~Merging(c)'
BY DEF Peer, Own, Merging

\* Writers.
LEMMA ClientPeers ==
    ASSUME Apart, Client
    PROVE  PeerInv'
<1> USE DEF memory, disk, history
<1>0. TypeOK /\ flush \in FlushState /\ skiplist \in Table /\ latest \in Table
  BY PeerTypes DEF Apart, GetInv, NumberInv, TypeInv, TypeOK
<1>1. /\ UNCHANGED <<up, sstables, compact, sstFiles, sst_counter>> /\ up
      /\ flush.pc = "idle"
  BY DEF Client, Put, Erase, ForceFlush, LockFree
<1>2. \/ flush' = flush
      \/ flush' = [flush EXCEPT !.pc = "load"] /\ FlushMayRun
  BY DEF Client, Put, Erase, ForceFlush
<1>3. FlushMayRun => \A c \in Compactor : ~Merging(c)
  BY DEF FlushMayRun, CompactPart, Merging, Apart, FlushesApart
<1>4. InOrder'
  BY <1>1, SameList DEF Apart
<1>5. Beneath'
  <2>1. CASE ForceFlush
    BY <2>1, SameList DEF Apart, ForceFlush
  <2>2. ASSUME NEW k \in Key, Put(k) \/ Erase(k) PROVE Beneath'
    <3>1. PICK op \in {"put", "erase"} :
             /\ Accept(op, k)
             /\ skiplist' = [skiplist EXCEPT ![k] = [type |-> op, write |-> writes + 1]]
      BY <2>2 DEF Put, Erase
    <3> DEFINE slot == [type |-> op, write |-> writes + 1]
    <3>2. /\ skiplist'[k] = slot /\ latest'[k] = slot
          /\ \A j \in Key \ {k} : skiplist'[j] = skiplist[j] /\ latest'[j] = latest[j]
      BY <1>0, <3>1 DEF Accept, Table
    <3>3. slot.type # "none"
      OBVIOUS
    <3> HIDE DEF slot
    <3> QED BY <1>1, <3>2, <3>3, SameLive DEF Beneath, Has, Apart, PeerInv
  <2> QED BY <2>1, <2>2 DEF Client
<1>6. FlushAlone'
  BY <1>0, <1>1, <1>2, <1>3 DEF FlushAlone, Merging, FlushState
<1>7. \A c \in Compactor : Peer(c)' /\ Own(c)'
  <2>1. \A c \in Compactor : Peer(c)'
    BY <1>1, SamePeer DEF Apart
  <2>2. \A c \in Compactor : Own(c)'
    BY <1>1 DEF Own, Apart, PeerInv, Merging
  <2> QED BY <2>1, <2>2
<1> QED BY <1>1, <1>4, <1>5, <1>6, <1>7 DEF PeerInv

\* The steps of a flush that leave the list and the MemTable alone.
LEMMA FlushFilePeers ==
    ASSUME Apart, FlushLoad \/ FlushStore \/ FlushCreate \/ FlushFinish \/ FlushRotate
    PROVE  PeerInv'
<1> USE DEF memory, disk, history
<1>0. /\ TypeOK /\ flush \in FlushState /\ sst_counter \in Nat
      /\ sstables \in SUBSET Reader /\ \A r \in Reader : r.file \in Nat
  BY PeerTypes DEF Apart, GetInv, NumberInv, TypeInv
<1>1. /\ UNCHANGED <<up, sstables, compact, skiplist, latest>>
      /\ flush.pc \in {"load", "store", "path", "finish", "rotate"}
  BY DEF FlushLoad, FlushStore, FlushCreate, FlushFinish, FlushRotate
<1>2. \A c \in Compactor : ~Merging(c)
  BY <1>1 DEF Apart, PeerInv, FlushAlone
<1>3. /\ flush'.pc \in {"path", "finish", "open"} => \A r \in sstables : r.file < sst_counter'
      /\ flush'.pc \in {"finish", "open"} => flush'.file = sst_counter'
  <2>1. CASE FlushLoad \/ FlushRotate
    BY <1>0, <2>1 DEF FlushLoad, FlushRotate, FlushState
  <2>2. CASE FlushStore
    <3>1. flush.reg = sst_counter /\ \A r \in sstables : r.file <= sst_counter
      BY <2>2 DEF FlushStore, Apart, GetInv, NumberInv, CounterInv, ReaderInv, Counted
    <3> QED BY <1>0, <2>2, <3>1 DEF FlushStore, FlushState
  <2>3. CASE FlushCreate
    BY <1>0, <2>3 DEF FlushCreate, FlushState, Apart, PeerInv, FlushAlone
  <2>4. CASE FlushFinish
    BY <1>0, <2>4 DEF FlushFinish, FlushState, Apart, PeerInv, FlushAlone
  <2> QED BY <2>1, <2>2, <2>3, <2>4
<1>4. InOrder' /\ Beneath'
  BY <1>1, SameList DEF Apart
<1>5. \A c \in Compactor : Peer(c)' /\ Own(c)' /\ ~Merging(c)'
  BY <1>1, <1>2, NobodyMerges
<1> QED BY <1>1, <1>3, <1>4, <1>5 DEF Apart, PeerInv, FlushAlone

\* The reader of a flush goes in front, with the highest sequence.
LEMMA FlushOpenPeers ==
    ASSUME Apart, FlushOpen
    PROVE  PeerInv'
<1> USE DEF memory, disk, history
<1> DEFINE new == [file |-> flush.file, seq |-> sst_counter, rank |-> installed + 1,
                   data |-> skiplist]
<1>0. /\ TypeOK /\ flush \in FlushState /\ sst_counter \in Nat /\ installed \in Nat
      /\ sstables \in SUBSET Reader
      /\ \A r \in Reader : r.file \in Nat /\ r.seq \in Nat /\ r.rank \in Nat
  BY PeerTypes DEF Apart, GetInv, NumberInv, TypeInv
<1>1. /\ sstables' = sstables \cup {new} /\ installed' = installed + 1
      /\ UNCHANGED <<up, compact, skiplist, latest>> /\ flush'.pc = "rotate"
      /\ flush.file = sst_counter /\ flush.pc = "open"
  BY <1>0 DEF FlushOpen, Apart, FlushesApart, GetInv, InstallInv, WholeSst, FlushState,
     PeerInv, FlushAlone
<1>2. \A r \in sstables : /\ r.rank < new.rank /\ r.file < new.file /\ r.seq < new.seq
                          /\ r.file \in Nat /\ r.seq \in Nat /\ r.rank \in Nat
  <2>1. \A r \in sstables : r.rank <= installed /\ r.file < sst_counter /\ r.seq <= r.file
    BY <1>1 DEF Apart, GetInv, ReaderInv, Counted, PeerInv, FlushAlone, InOrder
  <2> QED BY <1>0, <1>1, <2>1
<1>3. new.seq = new.file /\ new.seq \in Nat /\ new.rank \in Nat /\ new.data = skiplist
  BY <1>0, <1>1
<1>4. \A c \in Compactor : Peer(c)' /\ Own(c)' /\ ~Merging(c)'
  BY <1>1, NobodyMerges DEF Apart, PeerInv, FlushAlone
<1> HIDE DEF new
<1>5. InOrder'
  <2> SUFFICES ASSUME NEW r \in sstables', NEW s \in sstables'
               PROVE  /\ r.file = s.file \/ r.rank = s.rank => r = s
                      /\ r.rank > s.rank => r.seq > s.seq \/ (r.seq = s.seq /\ r.data = s.data)
                      /\ r.seq <= r.file
    BY DEF InOrder
  <2>1. CASE r \in sstables /\ s \in sstables
    BY <2>1 DEF Apart, PeerInv, InOrder
  <2>2. CASE r = new /\ s \in sstables
    BY <1>2, <1>3, <2>2
  <2>3. CASE r \in sstables /\ s = new
    <3>1. r.seq <= r.file
      BY <2>3 DEF Apart, PeerInv, InOrder
    <3> QED BY <1>2, <1>3, <2>3, <3>1
  <2>4. CASE r = new /\ s = new
    BY <1>3, <2>4
  <2> QED BY <1>1, <2>1, <2>2, <2>3, <2>4
<1>6. Beneath'
  <2>1. \A k \in Key : ~Has(skiplist, k) => Holders(sstables', k) = Holders(sstables, k)
    BY <1>1, <1>3 DEF Holders
  <2> QED BY <1>1, <2>1 DEF Apart, PeerInv, Beneath, FrontSlot, Has
<1> QED BY <1>1, <1>4, <1>5, <1>6 DEF Apart, PeerInv, FlushAlone

\* The MemTable may be cleared: what it held is in front.
LEMMA FlushRemovePeers ==
    ASSUME Apart, FlushRemove
    PROVE  PeerInv'
<1> USE DEF memory, disk, history
<1>0. TypeOK /\ sstables \in SUBSET Reader
  BY PeerTypes DEF Apart, GetInv, NumberInv, TypeInv
<1>1. /\ UNCHANGED <<up, sstables, compact, latest>> /\ skiplist' = EmptyTable
      /\ flush'.pc = "idle" /\ flush.pc = "remove"
  BY DEF FlushRemove, IdleFlush
<1>2. PICK r \in sstables : r.data = skiplist /\ \A s \in sstables \ {r} : s.rank < r.rank
  BY <1>1 DEF Apart, GetInv, InstallInv
<1>3. ASSUME NEW k \in Key PROVE Answer(FrontSlot(k)) = Answer(latest[k])
  <2>1. CASE Has(skiplist, k)
    <3>1. /\ r \in Holders(sstables, k) /\ Holders(sstables, k) \in SUBSET Reader
          /\ \A s \in Holders(sstables, k) \ {r} : s.rank < r.rank
      BY <1>0, <1>2, <2>1 DEF Holders
    <3>2. FrontMost(Holders(sstables, k)) = r
      BY <3>1, FrontDecides
    <3>3. FrontSlot(k) = skiplist[k]
      BY <1>2, <3>1, <3>2 DEF FrontSlot
    <3> QED BY <2>1, <3>3 DEF Apart, PeerInv, Beneath
  <2>2. CASE ~Has(skiplist, k)
    BY <2>2 DEF Apart, PeerInv, Beneath
  <2> QED BY <2>1, <2>2
<1>4. \A k \in Key : ~Has(EmptyTable, k)
  BY DEF Has, EmptyTable, NoSlot
<1>5. InOrder' /\ Beneath'
  BY <1>1, <1>3, <1>4, SameList, SameLive DEF Apart, Beneath
<1>6. \A c \in Compactor : Peer(c)' /\ Own(c)'
  BY <1>1, NobodyMerges DEF Apart, PeerInv, FlushAlone
<1> QED BY <1>1, <1>5, <1>6 DEF Apart, PeerInv, FlushAlone


\* A compaction gets to the counter, or to its file, only when no flush is under way.
LEMMA NoFlushBeside ==
    ASSUME Apart, NEW c \in Compactor,
           \/ CompactSnapshot(c) \/ CompactLoad(c) \/ CompactStore(c)
           \/ CompactCreate(c) \/ CompactFinish(c) \/ CompactSwap(c)
    PROVE  flush.pc = "idle" /\ flush' = flush
<1> USE DEF memory, disk, history
<1>1. CASE CompactSnapshot(c)
  BY <1>1 DEF CompactSnapshot, LockFree
<1>2. CASE CompactLoad(c) \/ CompactStore(c) \/ CompactCreate(c) \/ CompactFinish(c)
  BY <1>2 DEF CompactLoad, CompactStore, CompactCreate, CompactFinish, MayEnter, Apart,
     FlushesApart
<1>3. CASE CompactSwap(c)
  BY <1>3 DEF CompactSwap, LockFree
<1> QED BY <1>1, <1>2, <1>3

\* The snapshot, taken of an ordered list.
LEMMA SnapshotPeers ==
    ASSUME Apart, NEW c \in Compactor, CompactSnapshot(c)
    PROVE  PeerInv'
<1> USE DEF memory, disk, history
<1>0. compact \in [Compactor -> CompactState]
  BY PeerTypes DEF Apart, GetInv, NumberInv, TypeInv
<1>1. /\ UNCHANGED <<up, sstables, skiplist, latest, sstFiles, sst_counter>>
      /\ compact'[c].pc = "load" /\ compact'[c].inputs = sstables
      /\ \A d \in Compactor \ {c} : compact'[d] = compact[d]
  BY <1>0 DEF CompactSnapshot, CompactState
<1>2. InOrder' /\ Beneath'
  BY <1>1, SameList DEF Apart
<1>3. FlushAlone'
  BY NoFlushBeside DEF FlushAlone
<1>4. Peer(c)'
  BY <1>1, MergeIsLive, SameLive DEF Apart, PeerInv, Peer
<1>5. \A d \in Compactor \ {c} : Peer(d)'
  BY <1>1, SamePeer DEF Apart
<1>6. \A d \in Compactor : Own(d)'
  BY <1>1 DEF Apart, PeerInv, Own, Merging
<1> QED BY <1>1, <1>2, <1>3, <1>4, <1>5, <1>6 DEF Apart, PeerInv

\* The increment, and the file that gets the number.
LEMMA NumberPeers ==
    ASSUME Apart, NEW c \in Compactor, CompactLoad(c) \/ CompactStore(c) \/ CompactCreate(c)
    PROVE  PeerInv'
<1> USE DEF memory, disk, history
<1>0. /\ compact \in [Compactor -> CompactState] /\ sst_counter \in Nat
      /\ \A r \in Reader : r.file \in Nat
      /\ sstables \in SUBSET Reader
      /\ \A d \in Compactor : compact[d].file \in Nat /\ compact[d].inputs \in SUBSET Reader
      /\ sstFiles \in [SstNum -> SstFile]
  BY PeerTypes DEF Apart, GetInv, NumberInv, TypeInv
<1>1. /\ UNCHANGED <<up, sstables, skiplist, latest>>
      /\ compact[c].pc \in {"load", "store", "path"}
      /\ compact'[c].pc \in {"store", "path", "merge"}
      /\ compact'[c].inputs = compact[c].inputs
      /\ \A d \in Compactor \ {c} : compact'[d] = compact[d]
  BY <1>0 DEF CompactLoad, CompactStore, CompactCreate, CompactState
<1>2. InOrder' /\ Beneath'
  BY <1>1, SameList DEF Apart
<1>3. FlushAlone'
  BY NoFlushBeside DEF FlushAlone
<1>4. \A d \in Compactor : Peer(d)'
  BY <1>1, SameLive DEF Apart, PeerInv, Peer, Merging
<1>5. CASE CompactLoad(c) \/ CompactStore(c)
  <2>1. UNCHANGED sstFiles /\ compact'[c].pc \in {"store", "path"}
    BY <1>0, <1>5 DEF CompactLoad, CompactStore, CompactState
  <2>2. \A d \in Compactor : Own(d)'
    BY <1>1, <2>1 DEF Apart, PeerInv, Own, Merging
  <2> QED BY <1>1, <1>2, <1>3, <1>4, <2>2 DEF Apart, PeerInv
<1>6. CASE CompactCreate(c)
  <2>1. /\ compact'[c].pc = "merge" /\ compact'[c].file = sst_counter /\ compact[c].pc = "path"
        /\ sstFiles' = [sstFiles EXCEPT ![sst_counter] = BrokenSst]
    BY <1>0, <1>6 DEF CompactCreate, CompactState
  <2>2. /\ \A r \in sstables : r.file # sst_counter
        /\ \A d \in Compactor : /\ compact[d].file # sst_counter
                                /\ \A i \in compact[d].inputs : i.file # sst_counter
    <3>1. AtPath
      BY <2>1 DEF AtPath
    <3>2. \A r \in sstables : r.file < sst_counter
      BY <3>1 DEF Apart, GetInv, ReaderInv, Counted
    <3>3. \A d \in Compactor : compact[d].file < sst_counter
      BY <3>1 DEF Apart, GetInv, NumberInv, FileInv
    <3>4. \A d \in Compactor : \A i \in compact[d].inputs : i.file < sst_counter
      BY <3>1 DEF Apart, GetInv, ReaderInv, Counted
    <3> QED BY <1>0, <3>2, <3>3, <3>4
  <2>3. Own(c)'
    BY <1>1, <2>1, <2>2 DEF Own, Merging
  <2>4. ASSUME NEW d \in Compactor \ {c} PROVE Own(d)'
    <3>1. compact[d].file # sst_counter
      BY <2>2
    <3>2. sstFiles'[compact[d].file] = sstFiles[compact[d].file]
      BY <1>0, <2>1, <3>1
    <3> QED BY <1>1, <2>1, <3>1, <3>2 DEF Apart, PeerInv, Own, Merging
  <2> QED BY <1>1, <1>2, <1>3, <1>4, <2>3, <2>4 DEF Apart, PeerInv
<1> QED BY <1>5, <1>6

\* The merge writes a file of its own.
LEMMA FinishPeers ==
    ASSUME Apart, NEW c \in Compactor, CompactFinish(c)
    PROVE  PeerInv'
<1> USE DEF memory, disk, history
<1>0. /\ compact \in [Compactor -> CompactState] /\ sstFiles \in [SstNum -> SstFile]
  BY PeerTypes DEF Apart, GetInv, NumberInv, TypeInv
<1> DEFINE file == compact[c].file
           table == CompactedTable(compact[c].inputs)
<1>1. /\ UNCHANGED <<up, sstables, skiplist, latest>>
      /\ compact[c].pc = "merge" /\ compact'[c].pc = "swap"
      /\ compact'[c].inputs = compact[c].inputs /\ compact'[c].file = file
      /\ \A d \in Compactor \ {c} : compact'[d] = compact[d]
  BY <1>0 DEF CompactFinish, CompactState
<1>2. file \in SstNum
  BY <1>0, <1>1 DEF Apart, GetInv, NumberInv, TypeInv, NumbersOK, CompactState, SstNum
<1>3. \/ sstFiles' = [sstFiles EXCEPT ![file] = WholeSst(table)]
      \/ sstFiles' = [sstFiles EXCEPT ![file] = BrokenSst]
  BY DEF CompactFinish
<1>4. InOrder' /\ Beneath'
  BY <1>1, SameList DEF Apart
<1>5. FlushAlone'
  BY NoFlushBeside DEF FlushAlone
<1>6. \A d \in Compactor : Peer(d)'
  BY <1>1, SameLive DEF Apart, PeerInv, Peer, Merging
<1>7. Own(c)'
  <2>1. sstFiles'[file].state = "whole" => sstFiles'[file].data = table
    <3> HIDE DEF table, file
    <3> QED BY <1>0, <1>2, <1>3 DEF WholeSst, BrokenSst
  <2> QED BY <1>1, <2>1 DEF Apart, PeerInv, Own, Merging
<1>8. ASSUME NEW d \in Compactor \ {c} PROVE Own(d)'
  <2>1. CASE compact[d].pc \in {"merge", "swap"}
    <3>1. compact[d].file # file
      BY <1>1, <2>1 DEF Apart, PeerInv, Own
    <3>2. sstFiles'[compact[d].file] = sstFiles[compact[d].file]
      <4>1. compact[d].file \in SstNum
        BY <1>0, <2>1 DEF Apart, GetInv, NumberInv, TypeInv, NumbersOK, CompactState, SstNum
      <4> HIDE DEF file, table
      <4> QED BY <1>0, <1>3, <3>1, <4>1
    <3> QED BY <1>1, <3>1, <3>2 DEF Apart, PeerInv, Own, Merging
  <2>2. CASE compact[d].pc \notin {"merge", "swap"}
    BY <1>1, <2>2 DEF Own
  <2> QED BY <2>1, <2>2
<1> QED BY <1>1, <1>4, <1>5, <1>6, <1>7, <1>8 DEF Apart, PeerInv

\* The steps in which a compaction ends.
LEMMA EndPeers ==
    ASSUME Apart, NEW c \in Compactor, CompactGiveUp(c) \/ CompactDelete(c)
    PROVE  PeerInv'
<1> USE DEF memory, disk, history
<1>0. /\ compact \in [Compactor -> CompactState] /\ sstFiles \in [SstNum -> SstFile]
  BY PeerTypes DEF Apart, GetInv, NumberInv, TypeInv
<1>1. /\ UNCHANGED <<up, sstables, skiplist, latest, flush, sst_counter>>
      /\ compact'[c].pc \in {"idle", "delete"}
      /\ \A d \in Compactor \ {c} : compact'[d] = compact[d]
  <2>1. CASE CompactGiveUp(c)
    BY <1>0, <2>1 DEF CompactGiveUp, IdleCompact
  <2>2. CASE CompactDelete(c)
    BY <1>0, <2>2 DEF CompactDelete, IdleCompact, CompactState
  <2> QED BY <2>1, <2>2
<1>2. InOrder' /\ Beneath'
  BY <1>1, SameList DEF Apart
<1>3. FlushAlone'
  BY <1>1 DEF Apart, PeerInv, FlushAlone, Merging
<1>4. \A d \in Compactor : Peer(d)'
  BY <1>1, SameLive DEF Apart, PeerInv, Peer, Merging
<1>5. \A n \in SstNum : sstFiles'[n].state = "whole" => sstFiles'[n] = sstFiles[n]
  <2>1. \/ UNCHANGED sstFiles
        \/ sstFiles' = [sstFiles EXCEPT ![FrontMost(compact[c].inputs).file] = MissingSst]
    BY DEF CompactGiveUp, CompactDelete
  <2> QED BY <1>0, <2>1 DEF MissingSst
<1>6. ASSUME NEW d \in Compactor PROVE Own(d)'
  <2>1. CASE d = c
    BY <1>1, <2>1 DEF Own
  <2>2. CASE d # c
    <3>1. compact[d].pc = "swap" => compact[d].file \in SstNum
      BY <1>0 DEF Apart, GetInv, NumberInv, TypeInv, NumbersOK, CompactState, SstNum
    <3> QED BY <1>1, <1>5, <2>2, <3>1 DEF Apart, PeerInv, Own, Merging
  <2> QED BY <2>1, <2>2
<1> QED BY <1>1, <1>2, <1>3, <1>4, <1>6 DEF Apart, PeerInv

\* The swap: what is listed then is as good as before.
LEMMA SwapPeers ==
    ASSUME Apart, NEW c \in Compactor, CompactSwap(c)
    PROVE  PeerInv'
<1> USE DEF memory, disk, history
<1> DEFINE inputs == compact[c].inputs
           new == [file |-> compact[c].file, seq |-> 0, rank |-> installed + 1, data |-> Live]
           kept == sstables \ inputs
<1>0. /\ compact \in [Compactor -> CompactState] /\ sstables \in SUBSET Reader
      /\ installed \in Nat /\ \A d \in Compactor : compact[d].file \in Nat
      /\ \A r \in Reader : r.file \in Nat /\ r.rank \in Nat
  BY PeerTypes DEF Apart, GetInv, NumberInv, TypeInv
<1>1. /\ UNCHANGED <<up, skiplist, latest, sstFiles, sst_counter>>
      /\ compact[c].pc = "swap" /\ compact'[c].pc = "delete"
      /\ \A d \in Compactor \ {c} : compact'[d] = compact[d]
  BY <1>0 DEF CompactSwap, CompactState
<1>2. Peer(c) /\ Own(c) /\ Merging(c)
  BY <1>1 DEF Apart, PeerInv, Merging
<1>3. sstables' = kept \cup {new}
  <2>1. sstFiles[compact[c].file].data = Live
    BY <1>1, <1>2 DEF CompactSwap, Peer, Own
  <2>2. {r \in sstables : r.file \notin {i.file : i \in inputs}} = kept
    BY <1>2 DEF Peer
  <2> QED BY <2>1, <2>2 DEF CompactSwap
<1>4. \A r \in sstables' : r.seq = 0 /\ r.data = Live /\ r.file \in Nat
  BY <1>0, <1>2, <1>3 DEF Peer
<1>5. \A r \in kept : r.file # new.file /\ r.rank # new.rank
  <2>1. \A r \in kept : r.rank <= installed /\ r.rank \in Nat
    BY <1>0 DEF Apart, GetInv, ReaderInv, Counted
  <2> QED BY <1>0, <1>2, <2>1, <1>1 DEF Own
<1>6. Live' = Live
  <2>1. ASSUME NEW k \in Key PROVE FrontSlot(k)' = Live[k]
    <3>1. CASE Has(Live, k)
      <4>1. Holders(sstables', k) = sstables' /\ sstables' # {}
        BY <1>3, <1>4, <3>1 DEF Holders
      <4>2. FrontMost(sstables') \in sstables'
        <5>1. new \in sstables' /\ \A r \in sstables' : r.rank <= new.rank
          <6>1. \A r \in kept : r.rank <= installed /\ r.rank \in Nat
            BY <1>0 DEF Apart, GetInv, ReaderInv, Counted
          <6> QED BY <1>0, <1>3, <6>1
        <5> HIDE DEF new
        <5> QED BY <5>1 DEF FrontMost
      <4> QED BY <1>4, <4>1, <4>2 DEF FrontSlot
    <3>2. CASE ~Has(Live, k)
      <4>1. Holders(sstables', k) = {}
        BY <1>4, <3>2 DEF Holders
      <4>2. Live[k] = NoSlot
        BY <3>2 DEF Live, Has, NoSlot
      <4> QED BY <4>1, <4>2 DEF FrontSlot
    <3> QED BY <3>1, <3>2
  <2>2. \A k \in Key : Live[k].type # "put" => Live[k] = NoSlot
    BY DEF Live
  <2> QED BY <2>1, <2>2 DEF Live
<1>7. \A k \in Key : Answer(FrontSlot(k)') = Answer(FrontSlot(k))
  <2>1. \A k \in Key : Answer(FrontSlot(k)) = Answer(Live[k])
    BY DEF Live, Answer, NoSlot
  <2>2. \A k \in Key : Answer(FrontSlot(k)') = Answer(Live'[k])
    BY DEF Live, Answer, NoSlot
  <2> QED BY <1>6, <2>1, <2>2
<1>8. InOrder'
  <2> HIDE DEF new, kept
  <2>1. \A r, s \in sstables' : r.file = s.file \/ r.rank = s.rank => r = s
    <3>1. \A r, s \in kept : r.file = s.file \/ r.rank = s.rank => r = s
      BY DEF Apart, PeerInv, InOrder, kept
    <3> QED BY <1>3, <1>5, <3>1
  <2>2. \A r, s \in sstables' : r.seq = s.seq /\ r.data = s.data /\ r.seq <= r.file
    BY <1>4
  <2> QED BY <2>1, <2>2 DEF InOrder
<1>9. Beneath'
  BY <1>1, <1>7 DEF Apart, PeerInv, Beneath, Has
<1>10. FlushAlone'
  BY NoFlushBeside DEF FlushAlone
<1>11. ASSUME NEW d \in Compactor PROVE Peer(d)' /\ Own(d)'
  <2>1. CASE d = c
    BY <1>1, <2>1 DEF Peer, Own, Merging
  <2>2. CASE d # c
    <3>1. Merging(d) => \A i \in compact[d].inputs : i.file # compact[c].file
      BY <1>1, <1>2, <2>2 DEF Own
    <3>2. compact[d].pc \in {"merge", "swap"} => compact[d].file # compact[c].file
      BY <1>1, <1>2, <2>2 DEF Own
    <3>3. Peer(d)'
      BY <1>1, <1>3, <1>4, <1>6, <2>2, <3>1 DEF Apart, PeerInv, Peer, Merging
    <3>4. Own(d)'
      BY <1>1, <1>3, <2>2, <3>2 DEF Apart, PeerInv, Own, Merging
    <3> QED BY <3>3, <3>4
  <2> QED BY <2>1, <2>2
<1> QED BY <1>1, <1>8, <1>9, <1>10, <1>11 DEF Apart, PeerInv

\* Every step of a running engine keeps the invariant.
LEMMA RunningPeers ==
    ASSUME FlushesApart, GetInv, PeerInv, [Next]_vars, ~Failure, ~Start
    PROVE  PeerInv'
<1>0. Apart
  BY DEF Apart
<1>1. CASE Client \/ FlushStep
  BY <1>0, <1>1, ClientPeers, FlushFilePeers, FlushOpenPeers, FlushRemovePeers DEF FlushStep
<1>2. ASSUME NEW c \in Compactor, CompactSnapshot(c) \/ CompactStep(c) PROVE PeerInv'
  BY <1>0, <1>2, SnapshotPeers, NumberPeers, FinishPeers, EndPeers, SwapPeers DEF CompactStep
<1>3. CASE UNCHANGED vars
  <2>1. UNCHANGED <<up, sstables, skiplist, latest, flush, compact, sst_counter, sstFiles>>
    BY <1>3 DEF vars, memory, disk, history
  <2>2. InOrder' /\ Beneath' /\ \A c \in Compactor : Peer(c)'
    BY <2>1, SameList, SamePeer
  <2> QED BY <2>1, <2>2 DEF PeerInv, FlushAlone, Own, Merging
<1> QED BY <1>1, <1>2, <1>3 DEF Next

\* What compactions at the same time rely on of each other holds throughout, if no flush
\* runs beside them and their increments of the counter come one after another.
THEOREM PeerInvHolds ==
    ASSUME FlushesApart, MaxCrash = 0
    PROVE  Spec => [](GetInv /\ PeerInv)
<1>1. Init => PeerInv
  BY DEF Init, PeerInv, InOrder, Beneath, FlushAlone, Peer, Own, Merging, FrontSlot, Holders,
     Has, EmptyTable, NoSlot, Answer, IdleFlush, IdleCompact
<1>2. Init => GetInv
  BY GetInvHolds DEF FlushesApart
<1>3. (GetInv /\ PeerInv) /\ [Next]_vars => (GetInv /\ PeerInv)'
  <2>1. GetInv /\ PeerInv => ~Failure /\ ~Start
    <3>1. TypeOK => ~(crashes < MaxCrash)
      BY DEF TypeOK
    <3> QED BY <3>1 DEF Failure, Crash, CrashAfterAppend, CrashInsideAppend, CrashMayHit, Start,
                PeerInv, GetInv, NumberInv, TypeInv
  <2> QED BY <2>1, GetInvHolds, RunningPeers DEF FlushesApart
<1> QED BY <1>1, <1>2, <1>3, PTL DEF Spec

\* In an ordered list with the last writes get and iterators answer alike, and right.
LEMMA PeersFresh ==
    ASSUME GetInv, PeerInv
    PROVE  GetFresh /\ IteratorFresh
<1>1. \A k \in Key : MergedSlot(sstables, k) = FrontSlot(k)
  BY MergeFindsFront DEF PeerInv
<1>2. \A k \in Key : /\ GetSlot(k) = IF Has(skiplist, k) THEN skiplist[k] ELSE FrontSlot(k)
                     /\ IteratorSlot(k) = GetSlot(k)
  BY <1>1 DEF GetSlot, FrontSlot, IteratorSlot
<1> QED BY <1>2 DEF PeerInv, Beneath, GetFresh, IteratorFresh

\* Threads that compact at the same time, in any number, merge the same readers more than
\* once, and install and drop them in each other's way; get and iterators answer with the
\* last accepted write throughout, as long as no flush runs beside them and no two of them
\* increment the counter at once, which would give both the same file.
THEOREM PeersReadFresh ==
    ASSUME FlushesApart, MaxCrash = 0
    PROVE  Spec => [](GetFresh /\ IteratorFresh)
<1>1. GetInv /\ PeerInv => GetFresh /\ IteratorFresh
  BY PeersFresh
<1> QED BY <1>1, PeerInvHolds, PTL
=============================================================================
