------------------------ MODULE KVEngineRestartProofs ------------------------
(***************************************************************************)
(* The log and the files of an engine tell a new process what the old one  *)
(* knew; the engine is the map its callers expect.  For any numbers of     *)
(* keys, writes and files, any number of restarts where nothing compacts,  *)
(* and one crash anywhere in a write, a flush or a compaction.             *)
(***************************************************************************)
EXTENDS KVEngineProofs

\* Nothing compacts, and the process dies, or ends, only outside a flush and with whole
\* records in its log.
RestartsOnly == Compactor = {} /\ CrashPoint \subseteq {"append"}

\* The log whose records are not in any file: the active one, the one a flush is about
\* to remove, or the one the next process will go on with.
LogNum ==
    IF flush.pc = "remove" THEN flush.reg
    ELSE IF up THEN current_wal ELSE LoadedCounter(sstFiles) + 1

\* It rebuilds the MemTable, and no other log has a record.
LogMirror ==
    /\ LogNum \in WalNum /\ walFiles[LogNum].linked
    /\ \A n \in WalNum \ {LogNum} : walFiles[n].log = <<>>
    /\ \A i \in DOMAIN walFiles[LogNum].log : walFiles[LogNum].log[i].type # "torn"
    /\ up => \A k \in Key : ReplayedSlot(walFiles[LogNum].log, k) = skiplist[k]

\* The number of the log is one above that of the newest file, so the next process
\* opens the log that the last one wrote.
NextWalNumber ==
    /\ MaxCrash = 0 => up
    /\ (RestartsOnly /\ up) =>
          /\ flush.pc # "path" => sst_counter = 0 \/ Present(sst_counter)
          /\ current_wal = IF flush.pc \in {"path", "finish", "open", "rotate"}
                           THEN sst_counter ELSE sst_counter + 1

MirrorInv == NumberInv /\ NextWalNumber /\ LogMirror
-----------------------------------------------------------------------------
(* Replay.                                                                 *)

\* A replay of a log that got one more record.
LEMMA ReplayAppended ==
    ASSUME NEW log \in Seq(LogRecord), NEW record \in LogRecord, NEW k \in Key,
           \A i \in DOMAIN log : log[i].type # "torn", record.type # "torn"
    PROVE  /\ ReplayedSlot(Append(log, record), k) =
                IF record.key = k THEN [type |-> record.type, write |-> record.write]
                ELSE ReplayedSlot(log, k)
           /\ \A i \in DOMAIN Append(log, record) : Append(log, record)[i].type # "torn"
<1> DEFINE longer == Append(log, record)
<1>1. /\ Len(log) \in Nat /\ DOMAIN log = 1 .. Len(log)
      /\ DOMAIN longer = 1 .. Len(log) + 1
      /\ \A i \in 1 .. Len(log) : longer[i] = log[i]
      /\ longer[Len(log) + 1] = record
  OBVIOUS
<1>2. \A i \in DOMAIN longer : longer[i].type # "torn"
  <2> HIDE DEF longer
  <2> QED BY <1>1
<1>3. /\ Replayable(log, k) = {i \in 1 .. Len(log) : log[i].key = k}
      /\ Replayable(longer, k) = {i \in 1 .. Len(log) + 1 : longer[i].key = k}
  <2> HIDE DEF longer
  <2> QED BY <1>1, <1>2 DEF Replayable
<1>4. CASE record.key = k
  <2>1. Len(log) + 1 \in Replayable(longer, k)
    <3> HIDE DEF longer
    <3> QED BY <1>1, <1>3, <1>4
  <2>2. /\ Replayable(longer, k) \in SUBSET Nat
        /\ \A i \in Replayable(longer, k) : i <= Len(log) + 1
    <3> HIDE DEF longer
    <3> QED BY <1>1, <1>3
  <2>3. Max(Replayable(longer, k)) = Len(log) + 1
    <3> HIDE DEF longer
    <3>1. /\ Max(Replayable(longer, k)) \in Replayable(longer, k)
          /\ \A i \in Replayable(longer, k) : i <= Max(Replayable(longer, k))
      BY <1>1, <2>1, <2>2, MaxIsGreatest
    <3> QED BY <1>1, <2>1, <2>2, <3>1
  <2>4. ReplayedSlot(longer, k) = [type |-> record.type, write |-> record.write]
    <3> HIDE DEF longer
    <3> QED BY <1>1, <2>1, <2>3 DEF ReplayedSlot
  <2> QED BY <1>2, <1>4, <2>4
<1>5. CASE record.key # k
  <2>1. Replayable(longer, k) = Replayable(log, k)
    <3> HIDE DEF longer
    <3> QED BY <1>1, <1>3, <1>5
  <2>2. CASE Replayable(log, k) = {}
    BY <1>2, <1>5, <2>1, <2>2 DEF ReplayedSlot
  <2>3. CASE Replayable(log, k) # {}
    <3>1. Max(Replayable(log, k)) \in Replayable(log, k)
      <4>1. /\ Replayable(log, k) \in SUBSET Nat
            /\ \A i \in Replayable(log, k) : i <= Len(log)
        BY <1>1, <1>3
      <4> QED BY <1>1, <2>3, <4>1, MaxIsGreatest
    <3>2. longer[Max(Replayable(log, k))] = log[Max(Replayable(log, k))]
      <4> HIDE DEF longer
      <4> QED BY <1>1, <1>3, <3>1
    <3>3. ReplayedSlot(longer, k) = ReplayedSlot(log, k)
      <4> HIDE DEF longer
      <4> QED BY <2>1, <3>2 DEF ReplayedSlot
    <3> QED BY <1>2, <1>5, <3>3
  <2> QED BY <2>2, <2>3
<1> QED BY <1>4, <1>5

\* An empty log has nothing to replay.
LEMMA ReplayEmpty ==
    ASSUME NEW k \in Key
    PROVE  Replayable(<<>>, k) = {} /\ ReplayedSlot(<<>>, k) = NoSlot
BY DEF Replayable, ReplayedSlot

\* When one log has all the records, recovery is a replay of that log.
LEMMA OneLogRecovers ==
    ASSUME NEW wals, NEW n \in WalNum, wals[n].linked,
           \A m \in WalNum \ {n} : wals[m].log = <<>>, NEW k \in Key
    PROVE  RecoveredMemTable(wals)[k] = ReplayedSlot(wals[n].log, k)
<1> DEFINE logs == {m \in WalNum : wals[m].linked /\ Replayable(wals[m].log, k) # {}}
<1>1. RecoveredMemTable(wals)[k] =
         IF logs = {} THEN NoSlot ELSE ReplayedSlot(wals[Max(logs)].log, k)
  BY DEF RecoveredMemTable
<1>2. logs \subseteq {n}
  BY ReplayEmpty
<1>3. CASE Replayable(wals[n].log, k) = {}
  BY <1>1, <1>2, <1>3 DEF ReplayedSlot
<1>4. CASE Replayable(wals[n].log, k) # {}
  <2>1. logs = {n}
    BY <1>2, <1>4
  <2>2. n \in Nat /\ Max({n}) = n
    <3>1. n \in Nat
      BY BoundTypes DEF WalNum
    <3> DEFINE one == {n}
    <3>2. one \in SUBSET Nat /\ one # {} /\ \A m \in one : m <= n
      BY <3>1
    <3>3. Max(one) \in one
      <4> HIDE DEF one
      <4> QED BY <3>1, <3>2, MaxIsGreatest
    <3> QED BY <3>1, <3>3
  <2> HIDE DEF logs
  <2> QED BY <1>1, <2>1, <2>2
<1> QED BY <1>3, <1>4

\* A running process and a new one agree on the number of the newest file.
LEMMA CounterIsLoaded ==
    ASSUME NumberInv, up, sst_counter = 0 \/ Present(sst_counter)
    PROVE  LoadedCounter(sstFiles) = sst_counter
<1> DEFINE Numbers == {0} \cup {m \in SstNum : sstFiles[m].state # "missing"}
<1>1. /\ Numbers \in SUBSET Nat /\ sst_counter \in Nat
      /\ \A m \in Numbers : m <= sst_counter
  BY LocalTypes DEF NumberInv, FileInv, TypeInv, SstNum, Present
<1>2. sst_counter \in Numbers
  BY LocalTypes DEF NumberInv, TypeInv, TypeOK, SstNum, Present
<1>3. Max(Numbers) \in Numbers /\ \A m \in Numbers : m <= Max(Numbers)
  <2> HIDE DEF Numbers
  <2> QED BY <1>1, <1>2, MaxIsGreatest
<1>4. Max(Numbers) = sst_counter
  <2> HIDE DEF Numbers
  <2>1. Max(Numbers) \in Nat
    BY <1>1, <1>3
  <2>2. Max(Numbers) <= sst_counter /\ sst_counter <= Max(Numbers)
    BY <1>1, <1>2, <1>3
  <2> QED BY <1>1, <2>1, <2>2
<1> QED BY <1>4 DEF LoadedCounter
-----------------------------------------------------------------------------
(* The log mirrors the MemTable.                                           *)

\* A write adds the same entry to the replay of the log as to the MemTable.
LEMMA AcceptMirrors ==
    ASSUME TypeOK, LogMirror, LogNum = current_wal,
           NEW op \in {"put", "erase"}, NEW k \in Key, Accept(op, k)
    PROVE  /\ walFiles'[LogNum].linked
           /\ \A n \in WalNum \ {LogNum} : walFiles'[n].log = <<>>
           /\ \A i \in DOMAIN walFiles'[LogNum].log : walFiles'[LogNum].log[i].type # "torn"
           /\ \A j \in Key : ReplayedSlot(walFiles'[LogNum].log, j) =
                                IF j = k THEN [type |-> op, write |-> writes + 1]
                                ELSE ReplayedSlot(walFiles[LogNum].log, j)
<1> DEFINE record == [type |-> op, key |-> k, write |-> writes + 1]
           log == walFiles[LogNum].log
<1>1. /\ record \in LogRecord /\ record.type # "torn"
      /\ record.key = k /\ record.type = op /\ record.write = writes + 1
  BY BoundTypes DEF Accept, LogRecord, TypeOK
<1>2. walFiles \in [WalNum -> WalFile] /\ walFiles[LogNum] \in WalFile /\ log \in Seq(LogRecord)
  BY DEF TypeOK, LogMirror, WalFile
<1>3. walFiles' = [walFiles EXCEPT ![LogNum].log = Append(log, record)]
  BY DEF Accept, AppendRecord, LogMirror
<1>4. /\ walFiles'[LogNum].log = Append(log, record)
      /\ walFiles'[LogNum].linked = walFiles[LogNum].linked
      /\ \A n \in WalNum \ {LogNum} : walFiles'[n] = walFiles[n]
  <2> DEFINE longer == Append(log, record)
  <2> HIDE DEF longer, log
  <2>1. walFiles' = [walFiles EXCEPT ![LogNum].log = longer]
    BY <1>3 DEF longer
  <2>2. LogNum \in WalNum
    BY DEF LogMirror
  <2>3. /\ walFiles'[LogNum].log = longer
        /\ walFiles'[LogNum].linked = walFiles[LogNum].linked
        /\ \A n \in WalNum \ {LogNum} : walFiles'[n] = walFiles[n]
    BY <1>2, <2>1, <2>2 DEF WalFile
  <2> QED BY <2>3 DEF longer
<1>5. \A i \in DOMAIN log : log[i].type # "torn"
  BY DEF LogMirror
<1> HIDE DEF record, log
<1>6. /\ \A i \in DOMAIN Append(log, record) : Append(log, record)[i].type # "torn"
      /\ \A j \in Key : ReplayedSlot(Append(log, record), j) =
                           IF record.key = j THEN [type |-> record.type, write |-> record.write]
                           ELSE ReplayedSlot(log, j)
  BY <1>1, <1>2, <1>5, ReplayAppended
<1> QED BY <1>1, <1>4, <1>6 DEF LogMirror, log

\* Outside a flush the log in question is the one that is open, and stays so when
\* the process dies.
LEMMA IdleLog ==
    ASSUME MirrorInv, up, flush.pc = "idle"
    PROVE  /\ LogNum = current_wal
           /\ RestartsOnly => current_wal = LoadedCounter(sstFiles) + 1
BY CounterIsLoaded DEF MirrorInv, NextWalNumber, LogNum

\* The process dies only outside a flush.
LEMMA DiesIdle ==
    ASSUME MirrorInv, RestartsOnly, CrashMayHit
    PROVE  up /\ flush.pc = "idle" /\ MaxCrash # 0
BY BoundTypes DEF CrashMayHit, RestartsOnly, MirrorInv, NumberInv, TypeInv, TypeOK

\* No death without a crash, no start without a death.
LEMMA OnlyRestartsFail ==
    ASSUME MirrorInv, Failure \/ Start, MaxCrash = 0
    PROVE  FALSE
BY BoundTypes DEF MirrorInv, NumberInv, TypeInv, TypeOK, NextWalNumber, Failure, Crash,
   CrashAfterAppend, CrashInsideAppend, CrashMayHit, Start

\* The next process opens the log that is active, through every step.
LEMMA NextWalNumberKept ==
    ASSUME CounterAlone, MaxCrash = 0 \/ RestartsOnly, MirrorInv, [Next]_vars
    PROVE  NextWalNumber'
<1> USE DEF memory, disk, history
<1>0. /\ flush \in FlushState /\ sst_counter \in Nat /\ current_wal \in Nat
      /\ sstFiles \in [SstNum -> SstFile]
      /\ flush.pc # "idle" => up
  BY LocalTypes DEF MirrorInv, NumberInv, TypeInv, TypeOK, NumbersOK
<1>1. CASE Client
  <2>1. /\ UNCHANGED <<up, sst_counter, current_wal, sstFiles>> /\ up /\ flush.pc = "idle"
        /\ flush'.pc \in {"idle", "load"}
    BY <1>0, <1>1 DEF Client, Put, Erase, ForceFlush, LockFree, FlushState
  <2> QED BY <2>1 DEF MirrorInv, NextWalNumber, Present
<1>2. CASE FlushStep
  <2>0. up /\ up' = up
    BY <1>0, <1>2 DEF FlushStep, FlushLoad, FlushStore, FlushCreate, FlushFinish, FlushOpen,
       FlushRotate, FlushRemove
  <2>1. CASE FlushLoad \/ FlushRemove
    <3>1. /\ UNCHANGED <<sst_counter, current_wal, sstFiles>>
          /\ flush.pc = "load" \/ flush.pc = "remove"
      BY <2>1 DEF FlushLoad, FlushRemove
    <3>2. flush'.pc = "store" \/ flush'.pc = "idle"
      <4>1. CASE FlushLoad
        BY <1>0, <4>1 DEF FlushLoad, FlushState
      <4>2. CASE FlushRemove
        BY <4>2 DEF FlushRemove, IdleFlush
      <4> QED BY <2>1, <4>1, <4>2
    <3> QED BY <2>0, <3>1, <3>2 DEF MirrorInv, NextWalNumber, Present
  <2>2. CASE FlushStore
    <3>1. /\ sst_counter' = sst_counter + 1 /\ UNCHANGED current_wal
          /\ flush.pc = "store" /\ flush'.pc = "path"
      BY <1>0, <2>2 DEF FlushStore, MirrorInv, NumberInv, CounterInv, FlushState
    <3> QED BY <1>0, <2>0, <3>1 DEF MirrorInv, NextWalNumber
  <2>3. CASE FlushCreate
    <3>1. /\ UNCHANGED <<sst_counter, current_wal>> /\ flush.pc = "path"
          /\ flush'.pc = "finish" /\ sst_counter \in SstNum
      BY <1>0, <2>3 DEF FlushCreate, MirrorInv, NumberInv, TypeInv, TypeOK, NumbersOK,
         FlushState, SstNum
    <3>2. Present(sst_counter)'
      BY <1>0, <2>3, <3>1 DEF FlushCreate, Present, BrokenSst
    <3> QED BY <2>0, <3>1, <3>2 DEF MirrorInv, NextWalNumber
  <2>4. CASE FlushFinish
    <3>1. /\ UNCHANGED <<sst_counter, current_wal>> /\ flush.pc = "finish"
          /\ flush'.pc = "open"
      BY <1>0, <2>4 DEF FlushFinish, FlushState
    <3>2. sst_counter = 0 \/ Present(sst_counter) => sst_counter = 0 \/ Present(sst_counter)'
      BY <1>0, <2>4 DEF FlushFinish, Present, WholeSst, BrokenSst, SstFile
    <3> QED BY <2>0, <3>1, <3>2 DEF MirrorInv, NextWalNumber
  <2>5. CASE FlushOpen \/ FlushRotate
    <3>1. /\ UNCHANGED <<sst_counter, sstFiles>>
          /\ \/ /\ UNCHANGED current_wal /\ flush.pc = "open" /\ flush'.pc = "rotate"
             \/ /\ current_wal' = sst_counter + 1 /\ flush.pc = "rotate"
                /\ flush'.pc = "remove"
      BY <1>0, <2>5 DEF FlushOpen, FlushRotate, FlushState
    <3> QED BY <2>0, <3>1 DEF MirrorInv, NextWalNumber, Present
  <2> QED BY <1>2, <2>1, <2>2, <2>3, <2>4, <2>5 DEF FlushStep
<1>3. ASSUME NEW c \in Compactor, CompactSnapshot(c) \/ CompactStep(c)
      PROVE  NextWalNumber'
  <2>1. ~RestartsOnly
    BY DEF RestartsOnly
  <2>2. up' = up
    BY <1>3 DEF CompactSnapshot, CompactStep, CompactLoad, CompactStore, CompactCreate,
       CompactFinish, CompactGiveUp, CompactSwap, CompactDelete
  <2> QED BY <2>1, <2>2 DEF MirrorInv, NextWalNumber, RestartsOnly
<1>4. CASE Failure
  <2>1. ~up' /\ MaxCrash # 0
    BY <1>4, OnlyRestartsFail
       DEF Failure, Crash, CrashAfterAppend, CrashInsideAppend, LoseMemory
  <2> QED BY <2>1 DEF NextWalNumber
<1>5. CASE Start
  <2>1. MaxCrash # 0 /\ flush'.pc = "idle"
    BY <1>5, OnlyRestartsFail DEF Start, MirrorInv, NumberInv, TypeInv, NumbersOK
  <2>2. /\ sst_counter' = LoadedCounter(sstFiles) /\ UNCHANGED sstFiles
        /\ current_wal' = LoadedCounter(sstFiles) + 1
    BY <1>5 DEF Start
  <2>3. LoadedCounter(sstFiles) = 0 \/ Present(LoadedCounter(sstFiles))
    <3> DEFINE Numbers == {0} \cup {m \in SstNum : sstFiles[m].state # "missing"}
    <3>1. Numbers \in SUBSET Nat /\ Numbers # {} /\ \A m \in Numbers : m <= MaxFile
      BY BoundTypes DEF SstNum
    <3>2. Max(Numbers) \in Numbers
      <4> HIDE DEF Numbers
      <4> QED BY <3>1, BoundTypes, MaxIsGreatest
    <3> QED BY <3>2 DEF LoadedCounter, Present
  <2>4. sst_counter' = 0 \/ Present(sst_counter)'
    BY <2>2, <2>3 DEF Present
  <2> QED BY <2>1, <2>2, <2>4 DEF NextWalNumber
<1>6. CASE UNCHANGED vars
  BY <1>6 DEF vars, MirrorInv, NextWalNumber, Present
<1> QED BY <1>1, <1>2, <1>3, <1>4, <1>5, <1>6 DEF Next

\* The log goes on mirroring the MemTable, and is the only one with records.
LEMMA RunningMirror ==
    ASSUME NumberInv, LogMirror,
           Client \/ FlushStep \/ \E c \in Compactor : CompactSnapshot(c) \/ CompactStep(c)
    PROVE  LogMirror'
<1> USE DEF memory, disk, history
<1>0. /\ TypeOK /\ flush \in FlushState /\ walFiles \in [WalNum -> WalFile]
      /\ skiplist \in Table /\ sst_counter \in Nat /\ current_wal \in WalNum
      /\ flush.pc # "idle" => up
      /\ \A c \in Compactor : compact[c].pc # "idle" => up
  BY LocalTypes DEF NumberInv, TypeInv, TypeOK, NumbersOK
<1>1. ASSUME UNCHANGED <<up, skiplist, walFiles, current_wal>>, up,
             flush.pc # "remove", flush'.pc # "remove"
      PROVE  LogMirror'
  <2>1. LogNum' = LogNum
    BY <1>1 DEF LogNum
  <2> QED BY <1>1, <2>1 DEF LogMirror
<1>2. CASE Client
  <2>1. CASE ForceFlush
    <3>1. /\ UNCHANGED <<up, skiplist, walFiles, current_wal>> /\ up
          /\ flush.pc # "remove" /\ flush'.pc # "remove"
      BY <1>0, <2>1 DEF ForceFlush, LockFree, FlushState
    <3> QED BY <1>1, <3>1
  <2>2. ASSUME NEW k \in Key, Put(k) \/ Erase(k) PROVE LogMirror'
    <3>1. PICK op \in {"put", "erase"} :
             Accept(op, k)
             /\ skiplist' = [skiplist EXCEPT ![k] = [type |-> op, write |-> writes + 1]]
      BY <2>2 DEF Put, Erase
    <3>2. /\ up /\ UNCHANGED <<up, current_wal>> /\ flush.pc = "idle"
          /\ flush'.pc \in {"idle", "load"}
      BY <1>0, <2>2 DEF Put, Erase, LockFree, FlushState
    <3>3. LogNum = current_wal /\ LogNum' = LogNum
      BY <3>2 DEF LogNum
    <3>4. /\ walFiles'[LogNum].linked
          /\ \A n \in WalNum \ {LogNum} : walFiles'[n].log = <<>>
          /\ \A i \in DOMAIN walFiles'[LogNum].log : walFiles'[LogNum].log[i].type # "torn"
          /\ \A j \in Key : ReplayedSlot(walFiles'[LogNum].log, j) =
                               IF j = k THEN [type |-> op, write |-> writes + 1]
                               ELSE ReplayedSlot(walFiles[LogNum].log, j)
      BY <1>0, <3>1, <3>3, AcceptMirrors
    <3>5. \A j \in Key : ReplayedSlot(walFiles'[LogNum].log, j) = skiplist'[j]
      BY <1>0, <3>1, <3>2, <3>4 DEF Table, LogMirror
    <3> QED BY <3>3, <3>4, <3>5 DEF LogMirror
  <2> QED BY <1>2, <2>1, <2>2 DEF Client
<1>3. CASE FlushStep
  <2>1. CASE FlushLoad \/ FlushStore \/ FlushCreate \/ FlushFinish \/ FlushOpen
    <3>1. /\ UNCHANGED <<up, skiplist, walFiles, current_wal>> /\ up
          /\ flush.pc # "remove"
          /\ flush'.pc \in {"store", "path", "finish", "open", "rotate"}
      BY <1>0, <2>1 DEF FlushLoad, FlushStore, FlushCreate, FlushFinish, FlushOpen, FlushState
    <3>2. flush'.pc # "remove"
      BY <3>1
    <3> QED BY <1>1, <3>1, <3>2
  <2>2. CASE FlushRotate
    <3>1. /\ up /\ UNCHANGED <<up, skiplist>> /\ flush.pc = "rotate"
          /\ flush'.pc = "remove" /\ flush'.reg = current_wal
          /\ walFiles' = [walFiles EXCEPT ![sst_counter + 1].linked = TRUE]
      BY <1>0, <2>2 DEF FlushRotate, FlushState
    <3>2. LogNum = current_wal /\ LogNum' = LogNum
      BY <3>1 DEF LogNum
    <3>3. \A n \in WalNum : /\ walFiles'[n].log = walFiles[n].log
                            /\ walFiles[n].linked => walFiles'[n].linked
      BY <1>0, <3>1 DEF WalFile
    <3> QED BY <3>1, <3>2, <3>3 DEF LogMirror
  <2>3. CASE FlushRemove
    <3>1. /\ up /\ UNCHANGED <<up, current_wal>> /\ flush.pc = "remove"
          /\ flush'.pc = "idle" /\ skiplist' = EmptyTable
          /\ walFiles' = [walFiles EXCEPT ![flush.reg] = MissingWal]
      BY <1>0, <2>3 DEF FlushRemove, IdleFlush
    <3>2. LogNum = flush.reg /\ LogNum' = current_wal /\ flush.reg # current_wal
      BY <3>1 DEF LogNum, NumberInv, LogInv
    <3>3. \A n \in WalNum : walFiles'[n].log = <<>>
      BY <1>0, <3>1, <3>2 DEF MissingWal, LogMirror
    <3>4. walFiles'[current_wal].linked
      BY <1>0, <3>1, <3>2 DEF NumberInv, LogInv
    <3>5. \A k \in Key : ReplayedSlot(<<>>, k) = skiplist'[k]
      BY <3>1, ReplayEmpty DEF EmptyTable
    <3> QED BY <1>0, <3>2, <3>3, <3>4, <3>5 DEF LogMirror
  <2> QED BY <1>3, <2>1, <2>2, <2>3 DEF FlushStep
<1>4. ASSUME NEW c \in Compactor, CompactSnapshot(c) \/ CompactStep(c)
      PROVE  LogMirror'
  <2>1. UNCHANGED <<up, skiplist, walFiles, current_wal, flush>> /\ up
    BY <1>0, <1>4 DEF CompactSnapshot, CompactStep, CompactLoad, CompactStore, CompactCreate,
       CompactFinish, CompactGiveUp, CompactSwap, CompactDelete, LockFree
  <2>2. LogNum' = LogNum
    BY <2>1 DEF LogNum
  <2> QED BY <2>1, <2>2 DEF LogMirror
<1> QED BY <1>2, <1>3, <1>4

\* So it does when an engine that may only be restarted stops and starts.
LEMMA NextMirror ==
    ASSUME CounterAlone, MaxCrash = 0 \/ RestartsOnly, MirrorInv, [Next]_vars
    PROVE  LogMirror'
<1> USE DEF memory, disk, history
<1>0. TypeOK /\ walFiles \in [WalNum -> WalFile]
  BY LocalTypes DEF MirrorInv, NumberInv, TypeInv
<1>1. CASE Client \/ FlushStep \/ \E c \in Compactor : CompactSnapshot(c) \/ CompactStep(c)
  BY <1>1, RunningMirror DEF MirrorInv
<1>2. CASE Failure
  <2>0. RestartsOnly /\ LoseMemory /\ UNCHANGED sstFiles /\ up /\ flush.pc = "idle"
    BY <1>2, OnlyRestartsFail, DiesIdle
       DEF Failure, Crash, CrashAfterAppend, CrashInsideAppend
  <2>1. /\ LogNum = current_wal /\ LogNum' = LogNum /\ ~up'
    BY <2>0, IdleLog DEF LogNum, LoseMemory, IdleFlush
  <2>2. CASE Crash
    BY <2>1, <2>2 DEF Crash, MirrorInv, LogMirror
  <2>3. ASSUME NEW k \in Key, NEW op \in {"put", "erase"}, CrashAfterAppend(op, k)
        PROVE  LogMirror'
    <3>1. Accept(op, k)
      BY <2>3 DEF CrashAfterAppend
    <3>2. /\ walFiles'[LogNum].linked
          /\ \A n \in WalNum \ {LogNum} : walFiles'[n].log = <<>>
          /\ \A i \in DOMAIN walFiles'[LogNum].log : walFiles'[LogNum].log[i].type # "torn"
      BY <1>0, <2>1, <3>1, AcceptMirrors DEF MirrorInv
    <3> QED BY <2>1, <3>2 DEF MirrorInv, LogMirror
  <2>4. \A k \in Key : ~CrashInsideAppend(k)
    BY <2>0 DEF CrashInsideAppend, RestartsOnly
  <2> QED BY <1>2, <2>2, <2>3, <2>4 DEF Failure
<1>3. CASE Start
  <2>1. /\ RestartsOnly /\ ~up /\ flush.pc = "idle" /\ flush' = flush /\ up'
        /\ current_wal' = LoadedCounter(sstFiles) + 1
        /\ skiplist' = RecoveredMemTable(walFiles)
        /\ walFiles' = [walFiles EXCEPT ![LoadedCounter(sstFiles) + 1].linked = TRUE]
    BY <1>3, OnlyRestartsFail DEF Start, MirrorInv, NumberInv, TypeInv, NumbersOK
  <2>2. LogNum = LoadedCounter(sstFiles) + 1 /\ LogNum' = LogNum
    BY <2>1 DEF LogNum
  <2>3. \A n \in WalNum : /\ walFiles'[n].log = walFiles[n].log
                          /\ walFiles[n].linked => walFiles'[n].linked
    BY <1>0, <2>1 DEF WalFile
  <2>4. \A k \in Key : ReplayedSlot(walFiles[LogNum].log, k) = skiplist'[k]
    BY <2>1, OneLogRecovers DEF MirrorInv, LogMirror
  <2> QED BY <2>2, <2>3, <2>4 DEF MirrorInv, LogMirror
<1>4. CASE UNCHANGED vars
  <2>1. LogNum' = LogNum
    BY <1>4 DEF vars, LogNum
  <2> QED BY <1>4, <2>1 DEF vars, MirrorInv, LogMirror
<1> QED BY <1>1, <1>2, <1>3, <1>4 DEF Next

\* All of it holds throughout.
LEMMA MirrorInvHolds ==
    ASSUME CounterAlone, MaxCrash = 0 \/ RestartsOnly
    PROVE  /\ Init => MirrorInv
           /\ MirrorInv /\ [Next]_vars => MirrorInv'
<1>1. ASSUME Init PROVE MirrorInv
  <2>1. NumberInv
    BY <1>1, InitNumber
  <2>2. NextWalNumber
    BY <1>1 DEF Init, NextWalNumber, IdleFlush
  <2>3. LogNum = 1 /\ LogNum \in WalNum
    BY <1>1, BoundTypes DEF Init, LogNum, IdleFlush, WalNum
  <2>4. walFiles[LogNum].linked
    BY <1>1, <2>1, <2>3 DEF Init, NumberInv, LogInv
  <2>5. \A n \in WalNum : walFiles[n].log = <<>>
    BY <1>1 DEF Init
  <2>6. \A k \in Key : ReplayedSlot(<<>>, k) = skiplist[k]
    BY <1>1, ReplayEmpty DEF Init, EmptyTable
  <2> QED BY <2>1, <2>2, <2>3, <2>4, <2>5, <2>6 DEF MirrorInv, LogMirror
<1>2. ASSUME MirrorInv, [Next]_vars PROVE MirrorInv'
  BY <1>2, NextNumber, NextWalNumberKept, NextMirror DEF MirrorInv
<1> QED BY <1>1, <1>2

\* While no flush is under way a replay of the active log gives the MemTable, entry for
\* entry: beside any number of compactions, or through any number of restarts.
THEOREM LogMirrorsMemTable ==
    ASSUME CounterAlone, MaxCrash = 0 \/ RestartsOnly
    PROVE  Spec => []WalMirrorsMemTable
<1>1. MirrorInv => WalMirrorsMemTable
  BY IdleLog DEF MirrorInv, LogMirror, WalMirrorsMemTable, LockFree
<1> QED BY <1>1, MirrorInvHolds, PTL DEF Spec
-----------------------------------------------------------------------------
(* The log and the files have every write.                                 *)

\* Of the files that hold k, the one with the highest number has its last write.
Holding(k) == {n \in SstNum : sstFiles[n].state = "whole" /\ Has(sstFiles[n].data, k)}
FilesLatest(k) ==
    IF Holding(k) = {} THEN latest[k].type # "put"
    ELSE \E n \in Holding(k) : /\ sstFiles[n].data[k] = latest[k]
                               /\ \A m \in Holding(k) : m <= n

\* The last write of a key is in the log, or else in the files.
Durable ==
    \A k \in Key :
        LET slot == ReplayedSlot(walFiles[LogNum].log, k)
        IN  IF slot.type # "none" THEN slot = latest[k] ELSE FilesLatest(k)

\* The readers are those a restart would make of the files, but for the file a flush is
\* about to open; what a flush installs is the MemTable.
Listed ==
    /\ flush.pc \in {"finish", "open"} => flush.file = sst_counter
    /\ flush.pc = "finish" => sstFiles[sst_counter].state # "whole"
    /\ flush.pc \in {"open", "rotate", "remove"} =>
          sst_counter \in SstNum /\ sstFiles[sst_counter] = WholeSst(skiplist)
    /\ up => /\ sstables = {r \in LoadedReaders(sstFiles) :
                                flush.pc = "open" => r.file # sst_counter}
             /\ IF flush.pc \in {"path", "finish", "open"} THEN installed + 1 = sst_counter
                ELSE installed = sst_counter

RestartInv == MirrorInv /\ Durable /\ Listed

\* A step that touches neither log nor files nor the writes accepted.
LEMMA SameDurable ==
    ASSUME RestartInv, LogNum' = LogNum, UNCHANGED <<sstFiles, latest>>,
           walFiles'[LogNum].log = walFiles[LogNum].log
    PROVE  Durable'
BY DEF RestartInv, Durable, FilesLatest, Holding

\* A write makes its entry the last one, in the log.
LEMMA AcceptDurable ==
    ASSUME RestartInv, LogNum = current_wal, LogNum' = LogNum, UNCHANGED sstFiles,
           NEW op \in {"put", "erase"}, NEW k \in Key, Accept(op, k)
    PROVE  Durable'
<1> DEFINE old(j) == ReplayedSlot(walFiles[LogNum].log, j)
           new(j) == ReplayedSlot(walFiles'[LogNum].log, j)
<1>0. TypeOK /\ latest \in Table
  BY DEF RestartInv, MirrorInv, NumberInv, TypeInv, TypeOK
<1>1. \A j \in Key : new(j) = IF j = k THEN [type |-> op, write |-> writes + 1] ELSE old(j)
  BY <1>0, AcceptMirrors DEF RestartInv, MirrorInv
<1>2. latest' = [latest EXCEPT ![k] = [type |-> op, write |-> writes + 1]]
  BY DEF Accept
<1>3. \A j \in Key \ {k} : latest'[j] = latest[j] /\ (FilesLatest(j) => FilesLatest(j)')
  BY <1>0, <1>2 DEF Table, FilesLatest, Holding
<1>4. latest'[k] = [type |-> op, write |-> writes + 1]
  BY <1>0, <1>2 DEF Table
<1>5. \A j \in Key : IF new(j).type # "none" THEN new(j) = latest'[j] ELSE FilesLatest(j)'
  <2>1. \A j \in Key : IF old(j).type # "none" THEN old(j) = latest[j] ELSE FilesLatest(j)
    BY DEF RestartInv, Durable
  <2> HIDE DEF old, new
  <2>2. new(k) = [type |-> op, write |-> writes + 1]
    BY <1>1
  <2>3. new(k).type # "none" /\ new(k) = latest'[k]
    BY <1>4, <2>2
  <2>4. ASSUME NEW j \in Key \ {k}
        PROVE  IF new(j).type # "none" THEN new(j) = latest'[j] ELSE FilesLatest(j)'
    BY <1>1, <1>3, <2>1
  <2> QED BY <2>3, <2>4
<1> QED BY <1>5 DEF Durable

\* Every write stays in the log or in the files.
LEMMA NextDurable ==
    ASSUME CounterAlone, RestartsOnly, "flush" \notin DiskFault,
           RestartInv, [Next]_vars
    PROVE  Durable'
<1> USE DEF memory, disk, history
<1>0. /\ TypeOK /\ flush \in FlushState /\ walFiles \in [WalNum -> WalFile]
      /\ sstFiles \in [SstNum -> SstFile] /\ sst_counter \in Nat
      /\ flush.pc # "idle" => up
      /\ flush.pc \in {"path", "finish", "open", "rotate", "remove"} => sst_counter \in SstNum
  BY LocalTypes
     DEF RestartInv, MirrorInv, NumberInv, TypeInv, TypeOK, NumbersOK, SstNum, Listed
<1>1. CASE Client
  <2>1. CASE ForceFlush
    <3>1. LogNum' = LogNum
      BY <1>0, <2>1 DEF ForceFlush, LockFree, FlushState, LogNum
    <3> QED BY <2>1, <3>1, SameDurable DEF ForceFlush
  <2>2. ASSUME NEW k \in Key, Put(k) \/ Erase(k) PROVE Durable'
    <3>1. PICK op \in {"put", "erase"} : Accept(op, k)
      BY <2>2 DEF Put, Erase
    <3>2. /\ up /\ UNCHANGED <<up, current_wal, sstFiles>> /\ flush.pc = "idle"
          /\ flush'.pc \in {"idle", "load"}
      BY <1>0, <2>2 DEF Put, Erase, LockFree, FlushState
    <3>3. LogNum = current_wal /\ LogNum' = LogNum
      BY <3>2 DEF LogNum
    <3> QED BY <3>1, <3>2, <3>3, AcceptDurable
  <2> QED BY <1>1, <2>1, <2>2 DEF Client
<1>2. CASE FlushStep
  <2>0. UNCHANGED latest
    BY <1>2 DEF FlushStep, FlushLoad, FlushStore, FlushCreate, FlushFinish, FlushOpen,
       FlushRotate, FlushRemove
  <2>1. CASE FlushLoad \/ FlushStore \/ FlushOpen
    <3>1. /\ UNCHANGED <<walFiles, sstFiles, current_wal, up>> /\ up
          /\ flush.pc # "remove" /\ flush'.pc \in {"store", "path", "rotate"}
      BY <1>0, <2>1 DEF FlushLoad, FlushStore, FlushOpen, FlushState
    <3>2. LogNum' = LogNum
      BY <3>1 DEF LogNum
    <3> QED BY <2>0, <3>1, <3>2, SameDurable
  <2>2. CASE FlushCreate \/ FlushFinish
    <3>1. /\ UNCHANGED <<walFiles, current_wal, up, skiplist>> /\ up
          /\ flush.pc # "remove" /\ flush'.pc \in {"finish", "open"}
      BY <1>0, <2>2 DEF FlushCreate, FlushFinish, FlushState
    <3>2. LogNum' = LogNum
      BY <3>1 DEF LogNum
    <3>3. /\ sstFiles[sst_counter].state # "whole"
          /\ \A n \in SstNum \ {sst_counter} : sstFiles'[n] = sstFiles[n]
          /\ sstFiles'[sst_counter] \in {BrokenSst, WholeSst(skiplist)}
      <4>1. CASE FlushCreate
        <5>1. AtPath /\ sst_counter \in SstNum /\ ~(sst_counter < sst_counter)
          BY <1>0, <4>1 DEF FlushCreate, AtPath
        <5>2. ~Present(sst_counter)
          BY <5>1 DEF RestartInv, MirrorInv, NumberInv, FileInv
        <5> QED BY <1>0, <4>1, <5>1, <5>2 DEF FlushCreate, Present
      <4>2. CASE FlushFinish
        <5>1. flush.file = sst_counter /\ sst_counter \in SstNum
              /\ sstFiles[sst_counter].state # "whole"
          BY <1>0, <4>2 DEF FlushFinish, RestartInv, Listed
        <5> QED BY <1>0, <4>2, <5>1 DEF FlushFinish
      <4> QED BY <2>2, <4>1, <4>2
    <3>4. ASSUME NEW k \in Key, ~Has(skiplist, k)
          PROVE  FilesLatest(k) => FilesLatest(k)'
      <4>1. Holding(k)' = Holding(k)
        BY <1>0, <3>3, <3>4 DEF Holding, BrokenSst, WholeSst
      <4>2. \A n \in Holding(k) : sstFiles'[n] = sstFiles[n]
        BY <3>3 DEF Holding
      <4> QED BY <2>0, <4>1, <4>2 DEF FilesLatest
    <3>5. \A k \in Key : ReplayedSlot(walFiles[LogNum].log, k) = skiplist[k]
      BY <3>1 DEF RestartInv, MirrorInv, LogMirror
    <3> QED BY <2>0, <3>1, <3>2, <3>4, <3>5 DEF RestartInv, Durable, Has
  <2>3. CASE FlushRotate
    <3>1. /\ up /\ UNCHANGED <<up, sstFiles>> /\ flush.pc = "rotate"
          /\ flush'.pc = "remove" /\ flush'.reg = current_wal
          /\ walFiles' = [walFiles EXCEPT ![sst_counter + 1].linked = TRUE]
      BY <1>0, <2>3 DEF FlushRotate, FlushState
    <3>2. LogNum' = LogNum
      BY <3>1 DEF LogNum
    <3>3. \A n \in WalNum : walFiles'[n].log = walFiles[n].log
      BY <1>0, <3>1 DEF WalFile
    <3>4. LogNum \in WalNum
      BY DEF RestartInv, MirrorInv, LogMirror
    <3> QED BY <2>0, <3>1, <3>2, <3>3, <3>4, SameDurable
  <2>4. CASE FlushRemove
    <3>1. /\ up /\ UNCHANGED <<up, current_wal, sstFiles>> /\ flush.pc = "remove"
          /\ flush'.pc = "idle"
          /\ walFiles' = [walFiles EXCEPT ![flush.reg] = MissingWal]
      BY <1>0, <2>4 DEF FlushRemove, IdleFlush
    <3>2. /\ LogNum = flush.reg /\ LogNum' = current_wal /\ flush.reg # current_wal
          /\ current_wal \in WalNum
      BY <1>0, <3>1 DEF LogNum, RestartInv, MirrorInv, NumberInv, LogInv, TypeOK
    <3>3. walFiles'[LogNum'].log = <<>>
      BY <1>0, <3>1, <3>2 DEF RestartInv, MirrorInv, LogMirror
    <3>4. ASSUME NEW k \in Key PROVE FilesLatest(k)'
      <4>1. ReplayedSlot(walFiles[LogNum].log, k) = skiplist[k]
        BY <3>1 DEF RestartInv, MirrorInv, LogMirror
      <4>2. CASE Has(skiplist, k)
        <5>1. skiplist[k] = latest[k]
          BY <4>1, <4>2 DEF RestartInv, Durable, Has
        <5>2. sstFiles[sst_counter] = WholeSst(skiplist) /\ sst_counter \in SstNum
          BY <1>0, <3>1 DEF RestartInv, Listed
        <5>3. sst_counter \in Holding(k) /\ sstFiles[sst_counter].data[k] = latest[k]
          BY <4>2, <5>1, <5>2 DEF Holding, WholeSst
        <5>4. \A m \in Holding(k) : m <= sst_counter
          BY <3>1 DEF Holding, RestartInv, MirrorInv, NumberInv, FileInv, Present
        <5> QED BY <2>0, <3>1, <5>3, <5>4 DEF FilesLatest, Holding
      <4>3. CASE ~Has(skiplist, k)
        BY <2>0, <3>1, <4>1, <4>3 DEF RestartInv, Durable, Has, FilesLatest, Holding
      <4> QED BY <4>2, <4>3
    <3>5. \A k \in Key : ReplayedSlot(walFiles'[LogNum'].log, k).type = "none"
      BY <3>3, ReplayEmpty DEF NoSlot
    <3> QED BY <3>4, <3>5 DEF Durable
  <2> QED BY <1>2, <2>1, <2>2, <2>3, <2>4 DEF FlushStep
<1>3. ~(\E c \in Compactor : CompactSnapshot(c) \/ CompactStep(c))
  BY DEF RestartsOnly
<1>4. CASE Failure
  <2>0. LoseMemory /\ UNCHANGED sstFiles /\ up /\ flush.pc = "idle"
    BY <1>4, DiesIdle
       DEF RestartInv, Failure, Crash, CrashAfterAppend, CrashInsideAppend
  <2>1. LogNum = current_wal /\ LogNum' = LogNum
    BY <2>0, IdleLog DEF RestartInv, LogNum, LoseMemory, IdleFlush
  <2>2. CASE Crash
    BY <2>1, <2>2, SameDurable DEF Crash
  <2>3. ASSUME NEW k \in Key, NEW op \in {"put", "erase"}, CrashAfterAppend(op, k)
        PROVE  Durable'
    BY <2>0, <2>1, <2>3, AcceptDurable DEF CrashAfterAppend
  <2>4. \A k \in Key : ~CrashInsideAppend(k)
    BY DEF CrashInsideAppend, RestartsOnly
  <2> QED BY <1>4, <2>2, <2>3, <2>4 DEF Failure
<1>5. CASE Start
  <2>1. /\ ~up /\ flush.pc = "idle" /\ flush' = flush /\ up' /\ UNCHANGED <<sstFiles, latest>>
        /\ current_wal' = LoadedCounter(sstFiles) + 1
        /\ walFiles' = [walFiles EXCEPT ![LoadedCounter(sstFiles) + 1].linked = TRUE]
    BY <1>5 DEF Start, RestartInv, MirrorInv, NumberInv, TypeInv, NumbersOK
  <2>2. LogNum' = LogNum /\ LogNum \in WalNum
    BY <2>1 DEF LogNum, RestartInv, MirrorInv, LogMirror
  <2>3. \A n \in WalNum : walFiles'[n].log = walFiles[n].log
    BY <1>0, <2>1 DEF WalFile
  <2> QED BY <2>1, <2>2, <2>3, SameDurable
<1>6. CASE UNCHANGED vars
  <2>1. LogNum' = LogNum
    BY <1>6 DEF vars, LogNum
  <2> QED BY <1>6, <2>1, SameDurable DEF vars
<1> QED BY <1>1, <1>2, <1>3, <1>4, <1>5, <1>6 DEF Next

\* A file that was not whole changes, the readers of the others do not.
LEMMA OneFileChanges ==
    ASSUME NEW m \in SstNum, sstFiles[m].state # "whole",
           \A n \in SstNum \ {m} : sstFiles'[n] = sstFiles[n]
    PROVE  /\ {r \in LoadedReaders(sstFiles') : r.file # m} = LoadedReaders(sstFiles)
           /\ sstFiles'[m].state # "whole" => LoadedReaders(sstFiles') = LoadedReaders(sstFiles)
BY DEF LoadedReaders

\* The list of readers follows the files.
LEMMA NextListed ==
    ASSUME CounterAlone, RestartsOnly, "flush" \notin DiskFault,
           RestartInv, [Next]_vars
    PROVE  Listed'
<1> USE DEF memory, disk, history
<1>0. /\ flush \in FlushState /\ sstFiles \in [SstNum -> SstFile]
      /\ sst_counter \in Nat /\ installed \in Nat
      /\ flush.pc # "idle" => up
      /\ flush.pc \in {"path", "finish", "open", "rotate", "remove"} => sst_counter \in SstNum
  BY LocalTypes
     DEF RestartInv, MirrorInv, NumberInv, TypeInv, TypeOK, NumbersOK, SstNum, Listed
<1>1. CASE Client
  <2>1. /\ UNCHANGED <<up, sst_counter, installed, sstFiles, sstables>> /\ up
        /\ flush.pc = "idle" /\ flush'.pc \in {"idle", "load"}
    BY <1>0, <1>1 DEF Client, Put, Erase, ForceFlush, LockFree, FlushState
  <2>2. flush'.pc \notin {"path", "finish", "open", "rotate", "remove"}
    BY <2>1
  <2> QED BY <2>1, <2>2 DEF RestartInv, Listed
<1>2. CASE FlushStep
  <2>1. CASE FlushLoad
    <3>1. /\ UNCHANGED <<up, sst_counter, installed, sstFiles, sstables>>
          /\ flush.pc = "load" /\ flush'.pc = "store"
      BY <1>0, <2>1 DEF FlushLoad, FlushState
    <3> QED BY <3>1 DEF RestartInv, Listed
  <2>2. CASE FlushStore
    <3>1. /\ UNCHANGED <<up, installed, sstFiles, sstables>> /\ sst_counter' = sst_counter + 1
          /\ flush.pc = "store" /\ flush'.pc = "path"
      BY <1>0, <2>2 DEF FlushStore, RestartInv, MirrorInv, NumberInv, CounterInv, FlushState
    <3> QED BY <1>0, <3>1 DEF RestartInv, Listed
  <2>3. CASE FlushCreate
    <3>1. /\ UNCHANGED <<up, sst_counter, installed, sstables>> /\ sst_counter \in SstNum
          /\ flush.pc = "path" /\ flush'.pc = "finish" /\ flush'.file = sst_counter
          /\ sstFiles' = [sstFiles EXCEPT ![sst_counter] = BrokenSst]
      BY <1>0, <2>3 DEF FlushCreate, FlushState
    <3>2. ~Present(sst_counter)
      <4>1. AtPath /\ ~(sst_counter < sst_counter)
        BY <1>0, <3>1 DEF AtPath
      <4> QED BY <3>1, <4>1 DEF RestartInv, MirrorInv, NumberInv, FileInv
    <3>3. /\ sstFiles[sst_counter].state # "whole" /\ sstFiles'[sst_counter].state # "whole"
          /\ \A n \in SstNum \ {sst_counter} : sstFiles'[n] = sstFiles[n]
      BY <1>0, <3>1, <3>2 DEF Present, BrokenSst
    <3>4. LoadedReaders(sstFiles') = LoadedReaders(sstFiles)
      BY <3>1, <3>3, OneFileChanges
    <3> QED BY <3>1, <3>3, <3>4 DEF RestartInv, Listed
  <2>4. CASE FlushFinish
    <3>1. /\ UNCHANGED <<up, sst_counter, installed, sstables, skiplist>>
          /\ sst_counter \in SstNum /\ up
          /\ flush.pc = "finish" /\ flush'.pc = "open" /\ flush'.file = flush.file
          /\ flush.file = sst_counter /\ sstFiles[sst_counter].state # "whole"
          /\ sstFiles' = [sstFiles EXCEPT ![sst_counter] = WholeSst(skiplist)]
      BY <1>0, <2>4 DEF FlushFinish, FlushState, RestartInv, Listed
    <3>2. /\ sstFiles'[sst_counter] = WholeSst(skiplist)
          /\ \A n \in SstNum \ {sst_counter} : sstFiles'[n] = sstFiles[n]
      BY <1>0, <3>1
    <3>3. {r \in LoadedReaders(sstFiles') : r.file # sst_counter} = LoadedReaders(sstFiles)
      BY <3>1, <3>2, OneFileChanges
    <3> QED BY <3>1, <3>2, <3>3 DEF RestartInv, Listed
  <2>5. CASE FlushOpen
    <3>1. /\ UNCHANGED <<up, sst_counter, skiplist, sstFiles>> /\ up
          /\ flush.pc = "open" /\ flush'.pc = "rotate" /\ flush.file = sst_counter
          /\ sst_counter \in SstNum /\ sstFiles[sst_counter] = WholeSst(skiplist)
          /\ installed + 1 = sst_counter
          /\ sstables = {r \in LoadedReaders(sstFiles) : r.file # sst_counter}
      BY <1>0, <2>5 DEF FlushOpen, FlushState, RestartInv, Listed
    <3>2. /\ installed' = sst_counter
          /\ sstables' = sstables \cup
                {[file |-> sst_counter, seq |-> sst_counter, rank |-> sst_counter,
                  data |-> sstFiles[sst_counter].data]}
      BY <2>5, <3>1 DEF FlushOpen, WholeSst
    <3>3. sstables' = LoadedReaders(sstFiles)
      BY <3>1, <3>2 DEF LoadedReaders, WholeSst
    <3> QED BY <3>1, <3>2, <3>3 DEF Listed
  <2>6. CASE FlushRotate
    <3>1. /\ UNCHANGED <<up, sst_counter, installed, skiplist, sstFiles, sstables>>
          /\ flush.pc = "rotate" /\ flush'.pc = "remove"
      BY <1>0, <2>6 DEF FlushRotate, FlushState
    <3> QED BY <3>1 DEF RestartInv, Listed
  <2>7. CASE FlushRemove
    <3>1. /\ UNCHANGED <<up, sst_counter, installed, sstFiles, sstables>>
          /\ flush.pc = "remove" /\ flush'.pc = "idle"
      BY <2>7 DEF FlushRemove, IdleFlush
    <3> QED BY <3>1 DEF RestartInv, Listed
  <2> QED BY <1>2, <2>1, <2>2, <2>3, <2>4, <2>5, <2>6, <2>7 DEF FlushStep
<1>3. ~(\E c \in Compactor : CompactSnapshot(c) \/ CompactStep(c))
  BY DEF RestartsOnly
<1>4. CASE Failure
  <2>1. LoseMemory
    BY <1>4 DEF Failure, Crash, CrashAfterAppend, CrashInsideAppend
  <2> QED BY <2>1 DEF LoseMemory, IdleFlush, Listed
<1>5. CASE Start
  <2>1. /\ flush'.pc = "idle" /\ UNCHANGED sstFiles /\ sstables' = LoadedReaders(sstFiles)
        /\ installed' = LoadedCounter(sstFiles) /\ sst_counter' = LoadedCounter(sstFiles)
    BY <1>5 DEF Start, RestartInv, MirrorInv, NumberInv, TypeInv, NumbersOK
  <2> QED BY <2>1 DEF Listed
<1>6. CASE UNCHANGED vars
  BY <1>6 DEF vars, RestartInv, Listed
<1> QED BY <1>1, <1>2, <1>3, <1>4, <1>5, <1>6 DEF Next

\* All of it holds throughout.
LEMMA RestartInvHolds ==
    ASSUME CounterAlone, RestartsOnly, "flush" \notin DiskFault
    PROVE  Spec => []RestartInv
<1>1. ASSUME Init PROVE RestartInv
  <2>1. MirrorInv
    BY <1>1, MirrorInvHolds
  <2>2. Listed
    BY <1>1 DEF Init, Listed, IdleFlush, LoadedReaders, MissingSst
  <2>3. \A k \in Key : FilesLatest(k)
    BY <1>1 DEF Init, FilesLatest, Holding, MissingSst, EmptyTable, NoSlot
  <2>4. \A k \in Key : ReplayedSlot(walFiles[LogNum].log, k).type = "none"
    BY <1>1, <2>1 DEF MirrorInv, LogMirror, Init, EmptyTable, NoSlot
  <2> QED BY <2>1, <2>2, <2>3, <2>4 DEF RestartInv, Durable
<1>2. RestartInv /\ [Next]_vars => RestartInv'
  BY MirrorInvHolds, NextDurable, NextListed DEF RestartInv
<1> QED BY <1>1, <1>2, PTL DEF Spec

\* A merge of the readers a restart makes of the files finds the last write of a key
\* that the files hold, and so does a search from the front.
LEMMA FilesAnswer ==
    ASSUME TypeOK, NEW k \in Key, FilesLatest(k), NEW readers \in SUBSET LoadedReaders(sstFiles),
           \A r \in LoadedReaders(sstFiles) : Has(r.data, k) => r \in readers
    PROVE  /\ Answer(MergedSlot(readers, k)) = Answer(latest[k])
           /\ Answer(IF Holders(readers, k) = {} THEN NoSlot
                     ELSE FrontMost(Holders(readers, k)).data[k]) = Answer(latest[k])
<1> DEFINE Of(n) == [file |-> n, seq |-> n, rank |-> n, data |-> sstFiles[n].data]
<1>1. /\ \A r \in Holders(readers, k) : r.file \in Holding(k) /\ r = Of(r.file)
      /\ \A n \in Holding(k) : Of(n) \in Holders(readers, k)
  BY DEF Holders, Holding, LoadedReaders
<1>2. readers \in SUBSET Reader
  BY LoadedTypes DEF TypeOK
<1>3. CASE Holding(k) = {}
  BY <1>1, <1>3 DEF FilesLatest, MergedSlot, Answer, NoSlot
<1>4. CASE Holding(k) # {}
  <2>1. PICK n \in Holding(k) : /\ sstFiles[n].data[k] = latest[k]
                                /\ \A m \in Holding(k) : m <= n
    BY <1>4 DEF FilesLatest
  <2>2. /\ Of(n) \in Holders(readers, k) /\ Of(n).data[k] = latest[k]
        /\ \A s \in Holders(readers, k) : s.seq <= Of(n).seq /\ s.rank <= Of(n).rank
    BY <1>1, <2>1
  <2>3. \A r, s \in readers : r.seq = s.seq => r = s
    BY DEF LoadedReaders
  <2>4. MergedSlot(readers, k) = latest[k]
    <3> HIDE DEF Of
    <3>1. \A s \in Holders(readers, k) : s.seq <= Of(n).seq
      BY <2>2
    <3>2. MergedSlot(readers, k) = Of(n).data[k]
      BY <1>2, <2>2, <2>3, <3>1, MergeTakesNewest
    <3> QED BY <2>2, <3>2
  <2>5. FrontMost(Holders(readers, k)) = Of(n)
    <3>1. \A s \in Holders(readers, k) \ {Of(n)} : s.rank < Of(n).rank
      <4>1. \A s \in Holders(readers, k) : s.rank = s.file /\ s.file \in Nat
        BY <1>1, BoundTypes DEF Holding, SstNum
      <4>2. n \in Nat
        BY BoundTypes DEF Holding, SstNum
      <4> QED BY <1>1, <2>2, <4>1, <4>2
    <3>2. Holders(readers, k) \in SUBSET Reader
      BY <1>2 DEF Holders
    <3> HIDE DEF Of
    <3> QED BY <2>2, <3>1, <3>2, FrontDecides
  <2> HIDE DEF Of
  <2> QED BY <2>2, <2>4, <2>5
<1> QED BY <1>3, <1>4

\* Whenever an engine that does not compact dies, inside a flush too, the next process
\* answers every key with its last accepted write, and this through any number of
\* restarts.
THEOREM CrashAlwaysSafe ==
    ASSUME CounterAlone, RestartsOnly, "flush" \notin DiskFault
    PROVE  Spec => []CrashNowIsSafe
<1>1. ASSUME RestartInv, NEW k \in Key PROVE Answer(RestartSlot(k)) = Answer(latest[k])
  <2>1. RecoveredMemTable(walFiles)[k] = ReplayedSlot(walFiles[LogNum].log, k)
    BY <1>1, OneLogRecovers DEF RestartInv, MirrorInv, LogMirror
  <2>2. CASE Has(RecoveredMemTable(walFiles), k)
    BY <1>1, <2>1, <2>2 DEF RestartSlot, RestartInv, Durable, Has
  <2>3. CASE ~Has(RecoveredMemTable(walFiles), k)
    <3>1. FilesLatest(k)
      BY <1>1, <2>1, <2>3 DEF RestartInv, Durable, Has
    <3>2. TypeOK
      BY <1>1 DEF RestartInv, MirrorInv, NumberInv, TypeInv
    <3>3. Answer(MergedSlot(LoadedReaders(sstFiles), k)) = Answer(latest[k])
      BY <3>1, <3>2, FilesAnswer
    <3> QED BY <2>3, <3>3 DEF RestartSlot
  <2> QED BY <2>2, <2>3
<1>2. RestartInv => CrashNowIsSafe
  BY <1>1 DEF CrashNowIsSafe
<1> QED BY <1>2, RestartInvHolds, PTL

\* And while it runs both iterators and get answer with the last accepted write, also
\* what they find of the time before a restart.
THEOREM RestartedReadsFresh ==
    ASSUME CounterAlone, RestartsOnly, "flush" \notin DiskFault
    PROVE  Spec => [](IteratorFresh /\ GetFresh)
<1>1. ASSUME RestartInv, up, NEW k \in Key
      PROVE  /\ Answer(IteratorSlot(k)) = Answer(latest[k])
             /\ Answer(GetSlot(k)) = Answer(latest[k])
  <2>1. ReplayedSlot(walFiles[LogNum].log, k) = skiplist[k]
    BY <1>1 DEF RestartInv, MirrorInv, LogMirror
  <2>2. CASE Has(skiplist, k)
    BY <1>1, <2>1, <2>2 DEF IteratorSlot, GetSlot, RestartInv, Durable, Has
  <2>3. CASE ~Has(skiplist, k)
    <3>1. FilesLatest(k) /\ TypeOK
      BY <1>1, <2>1, <2>3
         DEF RestartInv, Durable, Has, MirrorInv, NumberInv, TypeInv
    <3>2. /\ sstables \in SUBSET LoadedReaders(sstFiles)
          /\ \A r \in LoadedReaders(sstFiles) :
                Has(r.data, k) => r \in sstables
      <4>1. sstables = {r \in LoadedReaders(sstFiles) :
                           flush.pc = "open" => r.file # sst_counter}
        BY <1>1 DEF RestartInv, Listed
      <4>2. ASSUME NEW r \in LoadedReaders(sstFiles), flush.pc = "open", r.file = sst_counter
            PROVE  ~Has(r.data, k)
        BY <1>1, <2>3, <4>2 DEF RestartInv, Listed, LoadedReaders, WholeSst
      <4> QED BY <4>1, <4>2
    <3> QED BY <2>3, <3>1, <3>2, FilesAnswer DEF IteratorSlot, GetSlot
  <2> QED BY <2>2, <2>3
<1>2. RestartInv => IteratorFresh /\ GetFresh
  BY <1>1 DEF IteratorFresh, GetFresh, LockFree
<1> QED BY <1>2, RestartInvHolds, PTL
-----------------------------------------------------------------------------
(* The engine is a map.                                                    *)

\* What a caller can see, of the running process or of the next one.
Seen(k) == IF up THEN IteratorSlot(k) ELSE RestartSlot(k)
SeenFresh == \A k \in Key : Answer(Seen(k)) = Answer(latest[k])

\* A new engine is an empty map.
LEMMA InitIsMap ==
    ASSUME Init, SeenFresh
    PROVE  KV!MapInit
<1>1. \A k \in Key : Answer(Seen(k)) = 0
  BY DEF Init, SeenFresh, EmptyTable, NoSlot, Answer
<1>2. writes = 0
  BY DEF Init
<1> QED BY <1>1, <1>2 DEF KV!MapInit, Seen

\* While what is seen is fresh, a write is a step of the map and no other step of the
\* engine, be it of a flush, a compaction, a crash or a start, shows.
LEMMA StepIsMap ==
    ASSUME TypeOK, SeenFresh, SeenFresh', [Next]_vars
    PROVE  [KV!MapNext]_(KV!mapVars)
<1> USE DEF memory, disk, history
<1> DEFINE shown == [k \in Key |-> Answer(IF up THEN IteratorSlot(k) ELSE RestartSlot(k))]
<1>1. /\ shown = [k \in Key |-> Answer(latest[k])]
      /\ shown' = [k \in Key |-> Answer(latest'[k])]
  BY DEF SeenFresh, Seen
<1>2. ASSUME NEW k \in Key, NEW op \in {"put", "erase"}, Accept(op, k)
      PROVE  KV!MapNext
  <2>1. /\ writes' = writes + 1
        /\ \A j \in Key : latest'[j] = IF j = k THEN [type |-> op, write |-> writes + 1]
                                       ELSE latest[j]
    BY <1>2 DEF Accept, TypeOK, Table
  <2>2. CASE op = "put"
    <3>1. \A j \in Key : Answer(latest'[j]) = IF j = k THEN writes + 1 ELSE Answer(latest[j])
      BY <2>1, <2>2 DEF Answer
    <3>2. shown' = [shown EXCEPT ![k] = writes + 1]
      <4> HIDE DEF shown
      <4> QED BY <1>1, <3>1
    <3> QED BY <2>1, <3>2 DEF KV!MapNext, KV!MapPut
  <2>3. CASE op = "erase"
    <3>1. \A j \in Key : Answer(latest'[j]) = IF j = k THEN 0 ELSE Answer(latest[j])
      BY <2>1, <2>3 DEF Answer
    <3>2. shown' = [shown EXCEPT ![k] = 0]
      <4> HIDE DEF shown
      <4> QED BY <1>1, <3>1
    <3> QED BY <2>1, <3>2 DEF KV!MapNext, KV!MapErase
  <2> QED BY <2>2, <2>3
<1>3. ASSUME UNCHANGED <<latest, writes>>
      PROVE  UNCHANGED KV!mapVars
  <2>1. shown' = shown
    <3> HIDE DEF shown
    <3> QED BY <1>1, <1>3
  <2> QED BY <1>3, <2>1 DEF KV!mapVars
<1>4. \/ UNCHANGED <<latest, writes>>
      \/ \E k \in Key : \E op \in {"put", "erase"} : Accept(op, k)
  BY DEF Next, Client, Put, Erase, ForceFlush, FlushStep, FlushLoad, FlushStore, FlushCreate,
     FlushFinish, FlushOpen, FlushRotate, FlushRemove, CompactSnapshot, CompactStep,
     CompactLoad, CompactStore, CompactCreate, CompactFinish, CompactGiveUp, CompactSwap,
     CompactDelete, Failure, Crash, CrashAfterAppend, CrashInsideAppend, Start, vars
<1> QED BY <1>2, <1>3, <1>4

\* An engine that writes, flushes and compacts at the same time implements the map.
THEOREM ConcurrentEngineIsMap ==
    ASSUME Undisturbed
    PROVE  Spec => ImplementsMap
<1>1. TypeOK /\ ReadInv => SeenFresh
  <2>1. ReadInv => up
    BY DEF ReadInv
  <2> QED BY <2>1, ReadInvFresh DEF SeenFresh, Seen, IteratorFresh
<1>2. Init /\ SeenFresh => KV!MapInit
  BY InitIsMap
<1>3. TypeOK /\ SeenFresh /\ SeenFresh' /\ [Next]_vars => [KV!MapNext]_(KV!mapVars)
  BY StepIsMap
<1>4. Spec => [](TypeOK /\ ReadInv)
  BY TypeCorrect, ReadInvHolds, PTL
<1> QED BY <1>1, <1>2, <1>3, <1>4, PTL DEF Spec, ImplementsMap, KV!MapSpec

\* So does one that any number of threads compact, if no flush runs beside them and their
\* increments of the counter come one after another.
THEOREM PeersEngineIsMap ==
    ASSUME FlushesApart, MaxCrash = 0
    PROVE  Spec => ImplementsMap
<1>1. PeerInv /\ IteratorFresh => SeenFresh
  BY DEF PeerInv, SeenFresh, Seen, IteratorFresh
<1>2. Init /\ SeenFresh => KV!MapInit
  BY InitIsMap
<1>3. TypeOK /\ SeenFresh /\ SeenFresh' /\ [Next]_vars => [KV!MapNext]_(KV!mapVars)
  BY StepIsMap
<1>4. Spec => [](TypeOK /\ PeerInv /\ IteratorFresh)
  BY TypeCorrect, PeerInvHolds, PeersReadFresh, PTL
<1> QED BY <1>1, <1>2, <1>3, <1>4, PTL DEF Spec, ImplementsMap, KV!MapSpec

\* An engine that is stopped, killed between two steps of a write or started again, any
\* number of times, implements the map: nothing accepted is lost, nothing erased or
\* overwritten comes back.
THEOREM RestartedEngineIsMap ==
    ASSUME CounterAlone, RestartsOnly, "flush" \notin DiskFault
    PROVE  Spec => ImplementsMap
<1>1. IteratorFresh /\ CrashNowIsSafe => SeenFresh
  BY DEF SeenFresh, Seen, IteratorFresh, CrashNowIsSafe
<1>2. Init /\ SeenFresh => KV!MapInit
  BY InitIsMap
<1>3. TypeOK /\ SeenFresh /\ SeenFresh' /\ [Next]_vars => [KV!MapNext]_(KV!mapVars)
  BY StepIsMap
<1> QED BY <1>1, <1>2, <1>3, TypeCorrect, CrashAlwaysSafe, RestartedReadsFresh, PTL
        DEF Spec, ImplementsMap, KV!MapSpec
-----------------------------------------------------------------------------
(* One crash, anywhere in a write, a flush or a compaction: the files that *)
(* are left, however unfinished, give a new process the same map.          *)

\* One compaction at a time, which has its number before a flush runs beside it; flushes
\* succeed, and a merged file can be opened if it is whole; the process dies once at
\* most, and not while a compaction removes its inputs.
OneCrash ==
    /\ \A c, d \in Compactor : c = d
    /\ Overlap \subseteq {"build"}
    /\ DiskFault \subseteq {"compact"}
    /\ "delete" \notin CrashPoint
    /\ MaxCrash <= 1

Whole(n) == sstFiles[n].state = "whole"

\* Every reader has its file on disk, a merge reads newer files later, and every file on
\* disk is listed, about to be listed or about to be removed.
Filed == \A r \in sstables : Whole(r.file) /\ sstFiles[r.file].data = r.data

Ordered == \A r, s \in sstables : r.seq < s.seq => r.file < s.file

Accounted ==
    \A n \in SstNum : Whole(n) =>
       \/ \E r \in sstables : r.file = n
       \/ flush.pc = "open" /\ n = flush.file
       \/ \E c \in Compactor :
             \/ compact[c].pc = "swap" /\ n = compact[c].file
             \/ compact[c].pc = "delete" /\ \E r \in compact[c].inputs : r.file = n

\* A merged file is numbered above its inputs and below what was flushed beside it.
Between(c) ==
    /\ compact[c].pc \in {"load", "store", "path"} =>
          flush.pc = "idle" /\ compact[c].inputs = sstables
    /\ compact[c].pc \in {"merge", "swap"} =>
          \A r \in sstables : r \in compact[c].inputs <=> r.file < compact[c].file
    /\ compact[c].pc = "delete" =>
          \A r \in compact[c].inputs :
             r.file # compact[c].file /\ \A s \in sstables : s.file # r.file

DiskInv == Filed /\ Ordered /\ Accounted /\ \A c \in Compactor : Between(c)
-----------------------------------------------------------------------------
(* Readers and files of a running engine.                                  *)

\* What the lemmas below start from.
Running == OneCrash /\ NumberInv /\ ReadInv /\ DiskInv

\* The types the steps below do arithmetic and function application with.
LEMMA RunningTypes ==
    ASSUME Running
    PROVE  /\ TypeOK /\ up /\ LoneCompaction
           /\ flush \in FlushState /\ compact \in [Compactor -> CompactState]
           /\ sstFiles \in [SstNum -> SstFile] /\ sst_counter \in Nat
           /\ \A r \in sstables : r.file \in SstNum /\ r.file \in Nat /\ r.seq \in Nat
           /\ \A c \in Compactor :
                 /\ compact[c].file \in Nat
                 /\ \A r \in compact[c].inputs : r.file \in SstNum /\ r.file \in Nat
<1>1. TypeOK /\ up /\ LoneCompaction
  BY DEF Running, NumberInv, TypeInv, ReadInv, OneCrash, LoneCompaction
<1>2. \A r \in Reader : r.file \in SstNum
  BY DEF Reader
<1> QED BY <1>1, <1>2, LocalTypes, NumberTypes

\* Steps that leave readers and files alone and do not move a compaction.
LEMMA SameDisk ==
    ASSUME Running, UNCHANGED <<sstables, sstFiles, compact>>,
           flush.pc # "open", flush'.pc # "open",
           \A c \in Compactor : compact[c].pc \in {"load", "store", "path"} => flush'.pc = "idle"
    PROVE  DiskInv'
BY DEF Running, DiskInv, Filed, Ordered, Accounted, Between, Whole

\* Writers, and the steps of a flush that touch no file.
LEMMA ClientDisk ==
    ASSUME Running, Client \/ FlushLoad \/ FlushStore \/ FlushRotate \/ FlushRemove
    PROVE  DiskInv'
<1> USE DEF memory, disk, history
<1>0. flush \in FlushState
  BY RunningTypes
<1>1. UNCHANGED <<sstables, sstFiles, compact>>
  BY DEF Client, Put, Erase, ForceFlush, FlushLoad, FlushStore, FlushRotate, FlushRemove
<1>2. flush.pc # "open" /\ flush'.pc # "open"
  <2>1. CASE Client
    BY <1>0, <2>1 DEF Client, Put, Erase, ForceFlush, LockFree, FlushState
  <2>2. CASE FlushLoad \/ FlushStore \/ FlushRotate
    BY <1>0, <2>2 DEF FlushLoad, FlushStore, FlushRotate, FlushState
  <2>3. CASE FlushRemove
    BY <2>3 DEF FlushRemove, IdleFlush
  <2> QED BY <2>1, <2>2, <2>3
<1>3. ASSUME NEW c \in Compactor, compact[c].pc \in {"load", "store", "path"}
      PROVE  flush'.pc = "idle"
  <2>1. flush.pc = "idle"
    BY <1>3 DEF Running, DiskInv, Between
  <2>2. ~FlushMayRun
    BY <1>3 DEF FlushMayRun, CompactPart, Running, OneCrash
  <2> QED BY <2>1, <2>2
          DEF Client, Put, Erase, ForceFlush, FlushLoad, FlushStore, FlushRotate, FlushRemove
<1> QED BY <1>1, <1>2, <1>3, SameDisk

\* The file of a flush is numbered above all readers.
LEMMA FlushFileDisk ==
    ASSUME Running, FlushCreate \/ FlushFinish
    PROVE  DiskInv'
<1> USE DEF memory, disk, history
<1>0. /\ flush \in FlushState /\ sstFiles \in [SstNum -> SstFile] /\ sst_counter \in Nat
      /\ \A r \in sstables : r.file \in SstNum /\ r.file \in Nat
  BY RunningTypes
<1>1. /\ UNCHANGED <<sstables, compact>> /\ flush.pc \in {"path", "finish"}
      /\ flush'.pc = IF flush.pc = "path" THEN "finish" ELSE "open"
      /\ flush'.file = sst_counter
      /\ \A r \in sstables : r.file < sst_counter
      /\ \A c \in Compactor : compact[c].pc \notin {"load", "store", "path"}
  <2>1. flush.pc = "finish" => flush.file = sst_counter
    BY DEF Running, ReadInv, FlushFresh
  <2>2. flush.pc \in {"path", "finish"}
    BY DEF FlushCreate, FlushFinish
  <2> QED BY <1>0, <2>1, <2>2 DEF FlushCreate, FlushFinish, FlushState, Running, ReadInv,
       FlushFresh, DiskInv, Between
<1>2. /\ \A n \in SstNum \ {sst_counter} : sstFiles'[n] = sstFiles[n]
      /\ flush.pc = "path" => (sst_counter \in SstNum => sstFiles'[sst_counter].state # "whole")
  <2>1. CASE FlushCreate
    BY <1>0, <2>1 DEF FlushCreate, BrokenSst
  <2>2. CASE FlushFinish
    BY <1>0, <1>1, <2>2 DEF FlushFinish, FlushState
  <2> QED BY <2>1, <2>2
<1>3. Filed'
  <2>1. \A r \in sstables : sstFiles'[r.file] = sstFiles[r.file]
    BY <1>0, <1>1, <1>2
  <2> QED BY <1>1, <2>1 DEF Running, DiskInv, Filed, Whole
<1>4. Ordered' /\ \A c \in Compactor : Between(c)'
  BY <1>1 DEF Running, DiskInv, Ordered, Between
<1>5. Accounted'
  <2> SUFFICES ASSUME NEW n \in SstNum, Whole(n)'
               PROVE  \/ \E r \in sstables : r.file = n
                      \/ flush'.pc = "open" /\ n = sst_counter
                      \/ \E c \in Compactor :
                            \/ compact[c].pc = "swap" /\ n = compact[c].file
                            \/ /\ compact[c].pc = "delete"
                               /\ \E r \in compact[c].inputs : r.file = n
    BY <1>1 DEF Accounted
  <2>1. CASE n = sst_counter
    BY <1>1, <1>2, <2>1 DEF Whole
  <2>2. CASE n # sst_counter
    BY <1>1, <1>2, <2>2 DEF Running, DiskInv, Accounted, Whole
  <2> QED BY <2>1, <2>2
<1> QED BY <1>3, <1>4, <1>5 DEF DiskInv

\* What a flush opens is the newest file, and above a merged one.
LEMMA FlushOpenDisk ==
    ASSUME Running, FlushOpen
    PROVE  DiskInv'
<1> USE DEF memory, disk, history
<1> DEFINE new == [file |-> sst_counter, seq |-> sst_counter, rank |-> installed + 1,
                   data |-> skiplist]
<1>0. /\ flush \in FlushState /\ sstFiles \in [SstNum -> SstFile] /\ sst_counter \in Nat
      /\ \A r \in sstables : r.file \in Nat /\ r.seq \in Nat
      /\ \A c \in Compactor : compact[c].file \in Nat
      /\ \A c \in Compactor : \A r \in compact[c].inputs : r.file \in Nat
  BY RunningTypes
<1>1. /\ flush.pc = "open" /\ flush.file = sst_counter
      /\ sstFiles[sst_counter] = WholeSst(skiplist)
      /\ \A r \in sstables : r.file < sst_counter /\ r.seq < sst_counter
      /\ \A c \in Compactor :
            /\ compact[c].file < sst_counter
            /\ \A r \in compact[c].inputs : r.file < sst_counter
  BY DEF FlushOpen, Running, ReadInv, FlushFresh
<1>2. /\ sstables' = sstables \cup {new} /\ UNCHANGED <<sstFiles, compact>>
      /\ flush'.pc = "rotate"
  BY <1>0, <1>1 DEF FlushOpen, WholeSst, FlushState, Running, OneCrash
<1>3. new.file = sst_counter /\ new.seq = sst_counter /\ new.data = skiplist
  OBVIOUS
<1> HIDE DEF new
<1>4. Filed'
  <2>1. sstFiles[new.file].state = "whole" /\ sstFiles[new.file].data = new.data
    BY <1>1, <1>3 DEF WholeSst
  <2> QED BY <1>2, <2>1 DEF Running, DiskInv, Filed, Whole
<1>5. Ordered'
  <2> SUFFICES ASSUME NEW r \in sstables', NEW s \in sstables', r.seq < s.seq
               PROVE  r.file < s.file
    BY DEF Ordered
  <2>1. CASE r = new
    <3>1. ~(sst_counter < sst_counter) /\ \A q \in sstables : ~(sst_counter < q.seq)
      BY <1>0, <1>1
    <3> QED BY <1>2, <1>3, <2>1, <3>1
  <2>2. CASE r # new /\ s = new
    BY <1>1, <1>2, <1>3, <2>2
  <2>3. CASE r # new /\ s # new
    BY <1>2, <2>3 DEF Running, DiskInv, Ordered
  <2> QED BY <2>1, <2>2, <2>3
<1>6. Accounted'
  BY <1>1, <1>2, <1>3 DEF Running, DiskInv, Accounted, Whole
<1>7. ASSUME NEW c \in Compactor PROVE Between(c)'
  <2>1. Between(c) /\ new \notin compact[c].inputs /\ ~(new.file < compact[c].file)
        /\ \A r \in compact[c].inputs : r.file # new.file
    BY <1>0, <1>1, <1>3 DEF Running, DiskInv
  <2> QED BY <1>1, <1>2, <2>1 DEF Between
<1> QED BY <1>4, <1>5, <1>6, <1>7 DEF DiskInv

\* A compaction takes the readers there are, and gets its number before any other.
LEMMA SnapshotDisk ==
    ASSUME Running, NEW c \in Compactor,
           CompactSnapshot(c) \/ CompactLoad(c) \/ CompactStore(c)
    PROVE  DiskInv'
<1> USE DEF memory, disk, history
<1>0. compact \in [Compactor -> CompactState] /\ \A d \in Compactor : d = c
  BY RunningTypes DEF LoneCompaction
<1>1. /\ UNCHANGED <<sstables, sstFiles, flush>>
      /\ compact[c].pc \in {"idle", "load", "store"}
      /\ compact'[c].pc \in {"load", "store", "path"} /\ compact'[c].inputs = sstables
      /\ flush.pc = "idle"
  <2>1. CASE CompactSnapshot(c)
    BY <1>0, <2>1 DEF CompactSnapshot, LockFree, CompactState
  <2>2. CASE CompactLoad(c) \/ CompactStore(c)
    BY <1>0, <2>2 DEF CompactLoad, CompactStore, CompactState, Running, DiskInv, Between
  <2> QED BY <2>1, <2>2
<1>2. Filed' /\ Ordered'
  BY <1>1 DEF Running, DiskInv, Filed, Ordered, Whole
<1>3. Accounted'
  BY <1>0, <1>1 DEF Running, DiskInv, Accounted, Whole
<1>4. \A d \in Compactor : Between(d)'
  BY <1>0, <1>1 DEF Between
<1> QED BY <1>2, <1>3, <1>4 DEF DiskInv

\* The merged file is numbered above all readers, which are the inputs still.
LEMMA CreateDisk ==
    ASSUME Running, NEW c \in Compactor, CompactCreate(c)
    PROVE  DiskInv'
<1> USE DEF memory, disk, history
<1>0. /\ compact \in [Compactor -> CompactState] /\ \A d \in Compactor : d = c
      /\ sstFiles \in [SstNum -> SstFile]
  BY RunningTypes DEF LoneCompaction
<1>1. /\ UNCHANGED <<sstables, flush>> /\ compact[c].pc = "path"
      /\ compact'[c].pc = "merge" /\ compact'[c].file = sst_counter
      /\ compact'[c].inputs = sstables /\ flush.pc = "idle"
      /\ \A r \in sstables : r.file < sst_counter
      /\ sstFiles' = [sstFiles EXCEPT ![sst_counter] = BrokenSst]
  BY <1>0 DEF CompactCreate, CompactState, Running, DiskInv, Between, ReadInv, CompactFresh
<1>2. /\ \A n \in SstNum : sstFiles'[n].state = "whole" => sstFiles'[n] = sstFiles[n]
      /\ \A r \in sstables : sstFiles'[r.file] = sstFiles[r.file]
  <2>1. \A n \in SstNum \ {sst_counter} : sstFiles'[n] = sstFiles[n]
    BY <1>0, <1>1
  <2>2. sst_counter \in SstNum => sstFiles'[sst_counter].state # "whole"
    BY <1>0, <1>1 DEF BrokenSst
  <2>3. \A r \in sstables : r.file \in SstNum \ {sst_counter}
    BY <1>1, RunningTypes
  <2> QED BY <2>1, <2>2, <2>3
<1>3. Filed' /\ Ordered'
  BY <1>1, <1>2 DEF Running, DiskInv, Filed, Ordered, Whole
<1>4. Accounted'
  <2> SUFFICES ASSUME NEW n \in SstNum, Whole(n)' PROVE \E r \in sstables : r.file = n
    BY <1>1 DEF Accounted
  <2> QED BY <1>0, <1>1, <1>2 DEF Running, DiskInv, Accounted, Whole
<1>5. \A d \in Compactor : Between(d)'
  BY <1>0, <1>1 DEF Between
<1> QED BY <1>3, <1>4, <1>5 DEF DiskInv

\* The end of the merge, or of the attempt.
LEMMA FinishDisk ==
    ASSUME Running, NEW c \in Compactor, CompactFinish(c) \/ CompactGiveUp(c)
    PROVE  DiskInv'
<1> USE DEF memory, disk, history
<1>0. /\ compact \in [Compactor -> CompactState] /\ \A d \in Compactor : d = c
      /\ sstFiles \in [SstNum -> SstFile]
      /\ \A r \in sstables : r.file \in SstNum
  BY RunningTypes DEF LoneCompaction
<1>1. CASE CompactFinish(c)
  <2>1. /\ UNCHANGED <<sstables, flush>> /\ compact[c].pc = "merge"
        /\ compact'[c].pc = "swap" /\ compact'[c].file = compact[c].file
        /\ compact'[c].inputs = compact[c].inputs
    BY <1>0, <1>1 DEF CompactFinish, CompactState
  <2>2. \A n \in SstNum \ {compact[c].file} : sstFiles'[n] = sstFiles[n]
    BY <1>0, <1>1 DEF CompactFinish
  <2>3. \A r \in sstables : r.file # compact[c].file
    BY <2>1 DEF Running, ReadInv, CompactFresh
  <2>4. Filed' /\ Ordered'
    BY <1>0, <2>1, <2>2, <2>3 DEF Running, DiskInv, Filed, Ordered, Whole
  <2>5. Accounted'
    BY <1>0, <2>1, <2>2 DEF Running, DiskInv, Accounted, Whole
  <2>6. \A d \in Compactor : Between(d)'
    BY <1>0, <2>1 DEF Running, DiskInv, Between
  <2> QED BY <2>4, <2>5, <2>6 DEF DiskInv
<1>2. CASE CompactGiveUp(c)
  <2>1. /\ UNCHANGED <<sstables, flush, sstFiles>> /\ compact[c].pc = "swap"
        /\ sstFiles[compact[c].file].state # "whole" /\ compact'[c].pc = "idle"
    BY <1>0, <1>2 DEF CompactGiveUp, IdleCompact, Running, OneCrash
  <2>2. Filed' /\ Ordered'
    BY <2>1 DEF Running, DiskInv, Filed, Ordered, Whole
  <2>3. Accounted'
    BY <1>0, <2>1 DEF Running, DiskInv, Accounted, Whole
  <2>4. \A d \in Compactor : Between(d)'
    BY <1>0, <2>1 DEF Between
  <2> QED BY <2>2, <2>3, <2>4 DEF DiskInv
<1> QED BY <1>1, <1>2

\* The swap: the merged reader has sequence 0, and of all that stay the lowest number.
LEMMA SwapDisk ==
    ASSUME Running, NEW c \in Compactor, CompactSwap(c)
    PROVE  DiskInv'
<1> USE DEF memory, disk, history
<1> DEFINE inputs == compact[c].inputs
           kept == sstables \ inputs
           new == [file |-> compact[c].file, seq |-> 0, rank |-> installed + 1,
                   data |-> sstFiles[compact[c].file].data]
<1>0. /\ compact \in [Compactor -> CompactState] /\ \A d \in Compactor : d = c
      /\ compact[c].file \in Nat
      /\ \A r \in sstables : r.file \in Nat /\ r.seq \in Nat
  BY RunningTypes DEF LoneCompaction
<1>1. /\ UNCHANGED <<flush, sstFiles>> /\ compact[c].pc = "swap" /\ Whole(compact[c].file)
      /\ compact'[c].pc = "delete" /\ compact'[c].inputs = inputs
      /\ compact'[c].file = compact[c].file
  BY <1>0 DEF CompactSwap, CompactState, Whole
<1>2. /\ inputs # {} /\ inputs \subseteq sstables
      /\ \A r \in inputs, s \in kept : r.seq < s.seq
      /\ \A r \in sstables : r.file # compact[c].file
  BY <1>1 DEF Running, ReadInv, CompactFresh, Merging
<1>3. \A r, s \in sstables : r.file = s.file => r = s
  BY DEF Running, ReadInv, Distinct
<1>4. sstables' = kept \cup {new}
  <2>1. {r \in sstables : r.file \notin {s.file : s \in inputs}} = kept
    BY <1>2, <1>3
  <2> QED BY <2>1 DEF CompactSwap
<1>5. \A s \in kept : new.seq < s.seq /\ new.file < s.file /\ ~(s.seq < new.seq)
  <2> SUFFICES ASSUME NEW s \in kept
               PROVE  0 < s.seq /\ compact[c].file < s.file /\ ~(s.seq < 0)
    OBVIOUS
  <2>1. 0 < s.seq
    <3>1. PICK r \in inputs : TRUE
      BY <1>2
    <3>2. r.seq < s.seq /\ r.seq \in Nat /\ s.seq \in Nat
      BY <1>0, <1>2, <3>1
    <3> QED BY <3>2
  <2>2. compact[c].file < s.file
    <3>1. ~(s.file < compact[c].file) /\ s.file # compact[c].file
      BY <1>1, <1>2 DEF Running, DiskInv, Between
    <3> QED BY <1>0, <3>1
  <2> QED BY <1>0, <2>1, <2>2
<1>6. \A r \in inputs : r.file # new.file /\ \A s \in kept : s.file # r.file
  BY <1>2, <1>3
<1>7. /\ sstFiles[new.file].state = "whole" /\ sstFiles[new.file].data = new.data
      /\ ~(new.seq < new.seq)
  BY <1>1 DEF Whole
<1>8. new.file = compact[c].file
  OBVIOUS
<1> HIDE DEF new, kept
<1>9. Filed'
  <2>1. \A r \in kept : Whole(r.file) /\ sstFiles[r.file].data = r.data
    BY DEF Running, DiskInv, Filed, kept
  <2> QED BY <1>1, <1>4, <1>7, <2>1 DEF Filed, Whole
<1>10. Ordered'
  <2>1. \A r, s \in kept : r.seq < s.seq => r.file < s.file
    BY DEF Running, DiskInv, Ordered, kept
  <2> QED BY <1>4, <1>5, <1>7, <2>1 DEF Ordered
<1>11. Accounted'
  <2> SUFFICES ASSUME NEW n \in SstNum, Whole(n)
               PROVE  \/ \E r \in sstables' : r.file = n
                      \/ \E r \in inputs : r.file = n
    BY <1>1 DEF Accounted, Whole
  <2>1. \/ \E r \in sstables : r.file = n
        \/ n = compact[c].file
    BY <1>0, <1>1 DEF Running, DiskInv, Accounted, CompactSwap, LockFree
  <2> QED BY <1>4, <1>8, <2>1 DEF kept
<1>12. \A d \in Compactor : Between(d)'
  BY <1>0, <1>1, <1>4, <1>6, <1>8 DEF Between
<1> QED BY <1>9, <1>10, <1>11, <1>12 DEF DiskInv

\* The file that is removed belongs to no reader that is listed.
LEMMA DeleteDisk ==
    ASSUME Running, NEW c \in Compactor, CompactDelete(c)
    PROVE  DiskInv'
<1> USE DEF memory, disk, history
<1> DEFINE next == FrontMost(compact[c].inputs)
<1>0. /\ compact \in [Compactor -> CompactState] /\ \A d \in Compactor : d = c
      /\ sstFiles \in [SstNum -> SstFile]
      /\ \A r \in sstables : r.file \in SstNum
  BY RunningTypes DEF LoneCompaction
<1>1. UNCHANGED <<sstables, flush>> /\ compact[c].pc = "delete"
  BY DEF CompactDelete
<1>2. /\ next \in compact[c].inputs
      /\ \/ compact'[c].pc = "idle" /\ compact[c].inputs = {next}
         \/ /\ compact'[c].pc = "delete"
            /\ compact'[c].inputs = compact[c].inputs \ {next}
            /\ compact'[c].file = compact[c].file
  <2>1. /\ compact[c].inputs \in SUBSET Reader /\ compact[c].inputs # {}
        /\ \A r \in compact[c].inputs : r.rank <= installed
        /\ installed \in Nat
    BY <1>0, <1>1, RunningTypes DEF CompactState, Running, ReadInv, CompactFresh, TypeOK
  <2>2. next \in compact[c].inputs
    BY <2>1, FrontMostIsOne
  <2>3. compact[c] \in CompactState
    BY <1>0
  <2> HIDE DEF next
  <2>4. CASE compact[c].inputs \ {next} = {}
    <3>1. compact'[c] = IdleCompact
      BY <1>0, <2>4 DEF CompactDelete, next
    <3> QED BY <2>2, <2>4, <3>1 DEF IdleCompact
  <2>5. CASE compact[c].inputs \ {next} # {}
    <3>1. compact'[c] = [compact[c] EXCEPT !.inputs = compact[c].inputs \ {next}]
      BY <1>0, <2>5 DEF CompactDelete, next
    <3> QED BY <1>1, <2>2, <2>3, <3>1 DEF CompactState
  <2> QED BY <2>4, <2>5
<1>3. /\ \A n \in SstNum \ {next.file} : sstFiles'[n] = sstFiles[n]
      /\ next.file \in SstNum => sstFiles'[next.file].state # "whole"
  <2>1. next.file # compact[c].file
    BY <1>1, <1>2 DEF Running, DiskInv, Between
  <2> QED BY <1>0, <2>1 DEF CompactDelete, MissingSst
<1> HIDE DEF next
<1>4. \A s \in sstables : s.file # next.file
  BY <1>1, <1>2 DEF Running, DiskInv, Between
<1>5. Filed' /\ Ordered'
  BY <1>0, <1>1, <1>3, <1>4 DEF Running, DiskInv, Filed, Ordered, Whole
<1>6. Accounted'
  <2> SUFFICES ASSUME NEW n \in SstNum, Whole(n)'
               PROVE  \/ \E r \in sstables : r.file = n
                      \/ flush.pc = "open" /\ n = flush.file
                      \/ /\ compact'[c].pc = "delete"
                         /\ \E r \in compact'[c].inputs : r.file = n
    BY <1>1 DEF Accounted
  <2>1. n # next.file /\ Whole(n)
    BY <1>3 DEF Whole
  <2>2. \/ \E r \in sstables : r.file = n
        \/ flush.pc = "open" /\ n = flush.file
        \/ \E r \in compact[c].inputs : r.file = n
    BY <1>0, <1>1, <2>1 DEF Running, DiskInv, Accounted
  <2> QED BY <1>2, <2>1, <2>2
<1>7. \A d \in Compactor : Between(d)'
  BY <1>0, <1>1, <1>2 DEF Running, DiskInv, Between
<1> QED BY <1>5, <1>6, <1>7 DEF DiskInv

\* Every step of a running engine keeps readers and files together.
LEMMA RunningDisk ==
    ASSUME Running, [Next]_vars, ~Failure, ~Start
    PROVE  DiskInv'
<1>1. CASE Client \/ FlushStep
  BY <1>1, ClientDisk, FlushFileDisk, FlushOpenDisk DEF FlushStep
<1>2. ASSUME NEW c \in Compactor, CompactSnapshot(c) \/ CompactStep(c) PROVE DiskInv'
  BY <1>2, SnapshotDisk, CreateDisk, FinishDisk, SwapDisk, DeleteDisk DEF CompactStep
<1>3. CASE UNCHANGED vars
  BY <1>3 DEF Running, DiskInv, Filed, Ordered, Accounted, Between, Whole, vars, memory, disk
<1> QED BY <1>1, <1>2, <1>3 DEF Next

-----------------------------------------------------------------------------
(* What a crash leaves.                                                    *)

\* While no inputs are being removed, the files hold the last write of a key that the
\* MemTable does not have: a file about to be installed has what its inputs have.
LEMMA FilesHaveLatest ==
    ASSUME Running, \A c \in Compactor : compact[c].pc # "delete",
           NEW k \in Key, ~Has(skiplist, k)
    PROVE  FilesLatest(k)
<1>0. /\ TypeOK /\ \A c, d \in Compactor : c = d
      /\ compact \in [Compactor -> CompactState]
      /\ \A r \in sstables : r.file \in SstNum /\ r.file \in Nat /\ r.seq \in Nat
      /\ \A n \in SstNum : n \in Nat
  BY RunningTypes, BoundTypes DEF LoneCompaction, SstNum
<1>1. Covers(sstables, k)
  BY DEF Running, ReadInv, ReadersCover
<1>2. \A r \in Holders(sstables, k) : /\ r \in sstables /\ r.file \in Holding(k)
                                      /\ sstFiles[r.file].data = r.data
  BY <1>0 DEF Running, DiskInv, Filed, Whole, Holders, Holding
<1>3. ASSUME NEW n \in Holding(k)
      PROVE  \/ \E r \in Holders(sstables, k) : r.file = n
             \/ \E c \in Compactor :
                   /\ compact[c].pc = "swap" /\ n = compact[c].file
                   /\ sstFiles[n].data[k] = MergedSlot(compact[c].inputs, k)
                   /\ MergedSlot(compact[c].inputs, k).type = "put"
  <2>1. n \in SstNum /\ Whole(n) /\ Has(sstFiles[n].data, k)
    BY DEF Holding, Whole
  <2>2. CASE \E r \in sstables : r.file = n
    BY <2>1, <2>2 DEF Running, DiskInv, Filed, Holders
  <2>3. ~(flush.pc = "open" /\ n = flush.file)
    BY <2>1 DEF Running, ReadInv, FlushFresh, WholeSst
  <2>4. ASSUME NEW c \in Compactor, compact[c].pc = "swap", n = compact[c].file
        PROVE  /\ sstFiles[n].data[k] = MergedSlot(compact[c].inputs, k)
               /\ MergedSlot(compact[c].inputs, k).type = "put"
    <3>1. sstFiles[n].data = CompactedTable(compact[c].inputs)
      BY <2>1, <2>4 DEF Running, ReadInv, CompactFresh, Whole
    <3> QED BY <2>1, <3>1 DEF CompactedTable, Has, NoSlot
  <2> QED BY <2>1, <2>2, <2>3, <2>4 DEF Running, DiskInv, Accounted
<1>4. ASSUME NEW c \in Compactor, compact[c].pc = "swap"
      PROVE  /\ compact[c].inputs \subseteq sstables
             /\ \A r \in compact[c].inputs, s \in sstables \ compact[c].inputs : r.seq < s.seq
             /\ \A r \in sstables : /\ r \in compact[c].inputs <=> r.file < compact[c].file
                                    /\ r.file # compact[c].file
             /\ compact[c].file \in Nat
  BY <1>0, <1>4, RunningTypes DEF Running, ReadInv, CompactFresh, Merging, DiskInv, Between
<1>5. CASE Holders(sstables, k) = {}
  <2>1. ASSUME NEW n \in Holding(k) PROVE FALSE
    <3>1. PICK c \in Compactor : /\ compact[c].pc = "swap"
                                 /\ MergedSlot(compact[c].inputs, k).type = "put"
      BY <1>3, <1>5
    <3>2. Holders(compact[c].inputs, k) = {}
      BY <1>4, <1>5, <3>1 DEF Holders
    <3> QED BY <3>1, <3>2 DEF MergedSlot, NoSlot
  <2> QED BY <1>1, <1>5, <2>1 DEF Covers, FilesLatest
<1>6. CASE Holders(sstables, k) # {}
  <2>1. PICK r \in Holders(sstables, k) : /\ r.data[k] = latest[k]
                                          /\ \A s \in Holders(sstables, k) : s.seq <= r.seq
    BY <1>1, <1>6 DEF Covers
  <2>2. \A s \in Holders(sstables, k) : s.file <= r.file
    <3> SUFFICES ASSUME NEW s \in Holders(sstables, k) PROVE s.file <= r.file
      OBVIOUS
    <3>1. s.seq = r.seq => s = r
      BY <1>2, <2>1 DEF Running, ReadInv, Distinct
    <3>2. s.seq < r.seq => s.file < r.file
      BY <1>2, <2>1 DEF Running, DiskInv, Ordered
    <3>3. s.seq <= r.seq /\ s.seq \in Nat /\ r.seq \in Nat /\ s.file \in Nat /\ r.file \in Nat
      BY <1>0, <1>2, <2>1
    <3> QED BY <3>1, <3>2, <3>3
  <2>3. r.file \in Holding(k) /\ sstFiles[r.file].data[k] = latest[k]
    BY <1>2, <2>1
  <2>4. CASE \A n \in Holding(k) : n <= r.file
    BY <2>3, <2>4 DEF FilesLatest
  <2>5. ASSUME NEW n \in Holding(k), ~(n <= r.file) PROVE FilesLatest(k)
    <3>1. ~ \E s \in Holders(sstables, k) : s.file = n
      BY <2>2, <2>5
    <3>2. PICK c \in Compactor : /\ compact[c].pc = "swap" /\ n = compact[c].file
                                 /\ sstFiles[n].data[k] = MergedSlot(compact[c].inputs, k)
      BY <1>3, <3>1
    <3> DEFINE inputs == compact[c].inputs
    <3>3. r \in inputs
      <4>1. r.file \in Nat /\ n \in Nat /\ r \in sstables
        BY <1>0, <1>2, <2>1, <2>5 DEF Holding
      <4> QED BY <1>4, <2>5, <3>2, <4>1
    <3>4. MergedSlot(inputs, k) = r.data[k]
      <4>1. \A p, q \in inputs : p.seq = q.seq => p = q
        BY <1>4, <3>2 DEF Running, ReadInv, Distinct
      <4>2. inputs \in SUBSET Reader
        BY <1>0 DEF CompactState
      <4>3. r \in Holders(inputs, k) /\ \A s \in Holders(inputs, k) : s.seq <= r.seq
        BY <1>4, <2>1, <3>2, <3>3 DEF Holders
      <4> HIDE DEF inputs
      <4> QED BY <4>1, <4>2, <4>3, MergeTakesNewest
    <3>5. ASSUME NEW m \in Holding(k) PROVE m <= n
      <4>1. CASE \E s \in Holders(sstables, k) : s.file = m
        <5>1. m <= r.file
          BY <2>2, <4>1
        <5>2. m \in Nat /\ n \in Nat /\ r.file \in Nat
          BY <1>0, <1>2, <2>1 DEF Holding
        <5> QED BY <2>5, <5>1, <5>2
      <4>2. CASE \E d \in Compactor : m = compact[d].file
        BY <1>0, <1>4, <3>2, <4>2
      <4> QED BY <1>3, <4>1, <4>2
    <3> HIDE DEF inputs
    <3> QED BY <2>1, <2>5, <3>2, <3>4, <3>5 DEF FilesLatest, inputs
  <2> QED BY <2>4, <2>5
<1> QED BY <1>5, <1>6

\* A torn record is as good as none.
LEMMA ReplayTorn ==
    ASSUME NEW log \in Seq(LogRecord), NEW record \in LogRecord, NEW k \in Key,
           record.type = "torn"
    PROVE  ReplayedSlot(Append(log, record), k) = ReplayedSlot(log, k)
<1> DEFINE longer == Append(log, record)
<1>1. /\ Len(log) \in Nat /\ DOMAIN log = 1 .. Len(log)
      /\ DOMAIN longer = 1 .. Len(log) + 1
      /\ \A i \in 1 .. Len(log) : longer[i] = log[i]
      /\ longer[Len(log) + 1] = record
  OBVIOUS
<1> HIDE DEF longer
<1>2. Replayable(longer, k) = Replayable(log, k)
  <2>1. ASSUME NEW i \in 1 .. Len(log)
        PROVE  \A j \in 1 .. i : longer[j] = log[j]
    BY <1>1
  <2>2. Len(log) + 1 \notin Replayable(longer, k)
    BY <1>1 DEF Replayable
  <2>3. \A i \in 1 .. Len(log) : i \in Replayable(longer, k) <=> i \in Replayable(log, k)
    BY <1>1, <2>1 DEF Replayable
  <2>4. Replayable(longer, k) \subseteq 1 .. Len(log) + 1 /\ Replayable(log, k) \subseteq 1 .. Len(log)
    BY <1>1 DEF Replayable
  <2>5. 1 .. Len(log) + 1 = (1 .. Len(log)) \cup {Len(log) + 1}
    BY <1>1
  <2> QED BY <2>2, <2>3, <2>4, <2>5
<1>3. CASE Replayable(log, k) = {}
  BY <1>2, <1>3 DEF ReplayedSlot, longer
<1>4. CASE Replayable(log, k) # {}
  <2>1. /\ Replayable(log, k) \in SUBSET Nat
        /\ \A i \in Replayable(log, k) : i <= Len(log)
    BY <1>1 DEF Replayable
  <2>2. Max(Replayable(log, k)) \in Replayable(log, k)
    BY <1>1, <1>4, <2>1, MaxIsGreatest
  <2>3. longer[Max(Replayable(log, k))] = log[Max(Replayable(log, k))]
    BY <1>1, <2>2 DEF Replayable
  <2>4. ReplayedSlot(longer, k) = ReplayedSlot(log, k)
    BY <1>2, <2>3 DEF ReplayedSlot
  <2> QED BY <2>4 DEF longer
<1> QED BY <1>3, <1>4

\* What the next process makes of the logs is the last write, and the files have it of
\* the keys that are in no log.
Recoverable ==
    \A k \in Key :
        IF Has(RecoveredMemTable(walFiles), k) THEN RecoveredMemTable(walFiles)[k] = latest[k]
        ELSE FilesLatest(k)

\* A process that has not crashed before may die at any step, but for those that remove
\* inputs: in the middle of a record, of a flush, of a compaction.
LEMMA DeathRecoverable ==
    ASSUME Running, LogMirror, Failure
    PROVE  Recoverable'
<1> USE DEF memory, disk, history
<1>0. /\ TypeOK /\ up /\ walFiles \in [WalNum -> WalFile] /\ latest \in Table
      /\ skiplist \in Table
  BY RunningTypes DEF TypeOK
<1>1. CrashMayHit /\ UNCHANGED sstFiles
  BY DEF Failure, Crash, CrashAfterAppend, CrashInsideAppend
<1>2. \A c \in Compactor : compact[c].pc # "delete"
  BY <1>1 DEF CrashMayHit, Running, OneCrash
<1>3. \A k \in Key : IF Has(skiplist, k) THEN skiplist[k] = latest[k] ELSE FilesLatest(k)
  BY <1>2, FilesHaveLatest DEF Running, ReadInv, MemTableLatest
<1>4. \A k \in Key : ReplayedSlot(walFiles[LogNum].log, k) = skiplist[k]
  BY <1>0 DEF LogMirror
<1>5. CASE Crash
  <2>1. \A k \in Key : RecoveredMemTable(walFiles)[k] = skiplist[k]
    BY <1>4, OneLogRecovers DEF LogMirror
  <2> QED BY <1>3, <1>5, <2>1 DEF Crash, Recoverable, Has, FilesLatest, Holding
<1>6. ASSUME LockFree PROVE LogNum = current_wal
  BY <1>6 DEF LockFree, LogNum
<1>7. ASSUME NEW k \in Key, NEW op \in {"put", "erase"}, CrashAfterAppend(op, k)
      PROVE  Recoverable'
  <2>1. Accept(op, k) /\ LogNum = current_wal
    BY <1>6, <1>7 DEF CrashAfterAppend
  <2> DEFINE new(j) == ReplayedSlot(walFiles'[LogNum].log, j)
             slot == [type |-> op, write |-> writes + 1]
  <2>2. /\ walFiles'[LogNum].linked
        /\ \A n \in WalNum \ {LogNum} : walFiles'[n].log = <<>>
        /\ \A j \in Key : new(j) = IF j = k THEN slot ELSE skiplist[j]
    BY <1>0, <1>4, <2>1, AcceptMirrors
  <2>3. \A j \in Key : RecoveredMemTable(walFiles')[j] = new(j)
    BY <2>2, OneLogRecovers DEF LogMirror
  <2>4. latest'[k] = slot /\ \A j \in Key \ {k} : latest'[j] = latest[j]
    BY <1>0, <2>1 DEF Accept, Table
  <2>5. slot.type # "none"
    OBVIOUS
  <2> HIDE DEF new, slot
  <2>6. \A j \in Key \ {k} : FilesLatest(j) => FilesLatest(j)'
    BY <1>1, <2>4 DEF FilesLatest, Holding
  <2> QED BY <1>3, <2>2, <2>3, <2>4, <2>5, <2>6 DEF Recoverable, Has
<1>8. ASSUME NEW k \in Key, CrashInsideAppend(k)
      PROVE  Recoverable'
  <2> DEFINE record == [type |-> "torn", key |-> k, write |-> 0]
             log == walFiles[LogNum].log
  <2>1. AppendRecord(record) /\ LogNum = current_wal /\ UNCHANGED latest
    BY <1>6, <1>8 DEF CrashInsideAppend
  <2>2. record \in LogRecord /\ record.type = "torn"
    <3>1. 0 \in 0 .. MaxWrite
      BY BoundTypes
    <3> QED BY <3>1 DEF LogRecord
  <2>3. LogNum \in WalNum /\ log \in Seq(LogRecord)
    <3>1. LogNum \in WalNum
      BY DEF LogMirror
    <3>2. walFiles[LogNum] \in WalFile
      BY <1>0, <3>1
    <3> QED BY <3>1, <3>2 DEF WalFile
  <2> DEFINE longer == Append(log, record)
  <2> HIDE DEF record, longer
  <2>4. /\ walFiles'[LogNum].log = longer
        /\ walFiles'[LogNum].linked
        /\ \A n \in WalNum \ {LogNum} : walFiles'[n].log = <<>>
    <3>1. walFiles' = [walFiles EXCEPT ![LogNum].log = longer]
      BY <2>1 DEF AppendRecord, LogMirror, longer
    <3> QED BY <1>0, <2>3, <3>1 DEF WalFile, LogMirror
  <2>5. \A j \in Key : RecoveredMemTable(walFiles')[j] = ReplayedSlot(longer, j)
    <3>1. LogNum \in WalNum /\ walFiles'[LogNum].linked
          /\ \A n \in WalNum \ {LogNum} : walFiles'[n].log = <<>>
      BY <2>3, <2>4
    <3>2. \A j \in Key : RecoveredMemTable(walFiles')[j] = ReplayedSlot(walFiles'[LogNum].log, j)
      BY <3>1, OneLogRecovers
    <3> QED BY <2>4, <3>2
  <2>6. \A j \in Key : RecoveredMemTable(walFiles')[j] = skiplist[j]
    <3> HIDE DEF log
    <3>1. \A j \in Key : ReplayedSlot(longer, j) = ReplayedSlot(log, j)
      BY <2>2, <2>3, ReplayTorn DEF longer
    <3> QED BY <1>4, <2>5, <3>1 DEF log
  <2> QED BY <1>1, <1>3, <2>1, <2>6 DEF Recoverable, Has, FilesLatest, Holding
<1> QED BY <1>5, <1>7, <1>8 DEF Failure

\* The constructor makes of such files an engine whose reads are fresh.
LEMMA StartReads ==
    ASSUME NumberInv, Recoverable, Start, \A c \in Compactor : compact[c] = IdleCompact
    PROVE  ReadInv' /\ DiskInv'
<1> USE DEF memory, disk, history
<1>1. /\ up' /\ sstables' = LoadedReaders(sstFiles) /\ skiplist' = RecoveredMemTable(walFiles)
      /\ sst_counter' = LoadedCounter(sstFiles) /\ installed' = LoadedCounter(sstFiles)
      /\ UNCHANGED <<flush, compact, sstFiles, latest>>
      /\ flush.pc = "idle"
  BY DEF Start, NumberInv, TypeInv, NumbersOK
<1>2. /\ sstFiles \in [SstNum -> SstFile] /\ SstNum \subseteq Nat
      /\ \A c \in Compactor : /\ compact'[c].pc = "idle" /\ compact'[c].inputs = {}
                              /\ compact'[c].file = 0
  BY <1>1, LocalTypes DEF NumberInv, TypeInv, SstNum, IdleCompact
<1>3. LoadedCounter(sstFiles) \in Nat
  BY <1>2, LoadedTypes, BoundTypes
<1>4. \A r \in sstables' :
         /\ r.file \in SstNum /\ sstFiles[r.file].state = "whole"
         /\ r.seq = r.file /\ r.rank = r.file /\ r.data = sstFiles[r.file].data
         /\ r.file <= LoadedCounter(sstFiles)
         /\ \A s \in sstables' : r.file = s.file => r = s
  BY <1>1, LoadedCounterIsGreatest DEF LoadedReaders, Present
<1>5. \A n \in SstNum : sstFiles[n].state = "whole" =>
         \E r \in sstables' : r.file = n /\ r.data = sstFiles[n].data
  <2> SUFFICES ASSUME NEW n \in SstNum, sstFiles[n].state = "whole"
               PROVE  \E r \in sstables' : r.file = n /\ r.data = sstFiles[n].data
    OBVIOUS
  <2> DEFINE r == [file |-> n, seq |-> n, rank |-> n, data |-> sstFiles[n].data]
  <2>1. r \in sstables'
    BY <1>1 DEF LoadedReaders
  <2> QED BY <2>1
<1>6. MemTableLatest' /\ ReadersCover'
  <2>1. MemTableLatest'
    BY <1>1 DEF MemTableLatest, Recoverable, Has
  <2>2. ASSUME NEW k \in Key, FilesLatest(k)
        PROVE  Covers(sstables, k)'
    <3>1. \A r \in sstables' : Has(r.data, k) => r.file \in Holding(k)
      BY <1>4 DEF Holding
    <3>2. CASE Holding(k) = {}
      BY <1>1, <2>2, <3>1, <3>2 DEF Covers, Holders, Has, FilesLatest
    <3>3. CASE Holding(k) # {}
      <4>1. PICK n \in Holding(k) : /\ sstFiles[n].data[k] = latest[k]
                                    /\ \A m \in Holding(k) : m <= n
        BY <2>2, <3>3 DEF FilesLatest
      <4>2. PICK r \in sstables' : r.file = n /\ r.data = sstFiles[n].data
        BY <1>5, <4>1 DEF Holding
      <4>3. Has(r.data, k) /\ r.data[k] = latest'[k]
        BY <1>1, <4>1, <4>2 DEF Holding
      <4>4. \A s \in sstables' : Has(s.data, k) => s.seq <= r.seq
        BY <1>4, <3>1, <4>1, <4>2
      <4> QED BY <4>3, <4>4 DEF Covers, Holders, Has
    <3> QED BY <3>2, <3>3
  <2> QED BY <1>1, <2>1, <2>2 DEF ReadersCover, Recoverable, Has
<1>7. Distinct' /\ Numbered'
  BY <1>1, <1>4 DEF Distinct, Numbered
<1>8. FlushFresh' /\ \A c \in Compactor : CompactFresh(c)'
  BY <1>1, <1>2, <1>3 DEF FlushFresh, CompactFresh, Merging
<1>9. Filed' /\ Ordered' /\ Accounted' /\ \A c \in Compactor : Between(c)'
  BY <1>1, <1>2, <1>4, <1>5 DEF Filed, Ordered, Accounted, Between, Whole
<1> QED BY <1>1, <1>6, <1>7, <1>8, <1>9 DEF ReadInv, DiskInv

-----------------------------------------------------------------------------
(* The engine is a map, before the crash, while it is down and after.      *)

\* Before the crash one log mirrors the MemTable.  After it old logs may be left, which no
\* second crash will read.
OnceInv ==
    /\ NumberInv
    /\ up => ReadInv /\ DiskInv
    /\ crashes = 0 => up /\ LogMirror
    /\ ~up => Recoverable /\ \A c \in Compactor : compact[c] = IdleCompact

\* A new engine has nothing to lose.
LEMMA InitOnce ==
    ASSUME Init
    PROVE  OnceInv
<1>1. NumberInv /\ ReadInv /\ up
  BY InitNumber, InitReads DEF ReadInv
<1>2. \A n \in SstNum : ~Whole(n)
  BY DEF Init, Whole, MissingSst
<1>3. DiskInv
  BY <1>2 DEF Init, DiskInv, Filed, Ordered, Accounted, Between, IdleCompact
<1>4. LogMirror
  <2>1. 1 \in WalNum
    BY BoundTypes DEF WalNum
  <2>2. LogNum = 1 /\ walFiles = [n \in WalNum |-> [linked |-> n = 1, log |-> <<>>]]
    BY DEF Init, LogNum, IdleFlush
  <2>3. \A n \in WalNum : walFiles[n].log = <<>> /\ walFiles[1].linked
    BY <2>1, <2>2
  <2>4. \A k \in Key : ReplayedSlot(<<>>, k) = skiplist[k]
    BY ReplayEmpty DEF Init, EmptyTable
  <2> QED BY <2>1, <2>2, <2>3, <2>4 DEF LogMirror
<1> QED BY <1>1, <1>3, <1>4 DEF OnceInv

\* Clients, flushes and compactions work in a process that is up, and leave it up.
LEMMA WorkIsUp ==
    ASSUME TypeInv, Client \/ FlushStep \/ \E c \in Compactor : CompactSnapshot(c) \/ CompactStep(c)
    PROVE  up /\ up' /\ crashes' = crashes
<1> USE DEF memory, disk, history
<1>1. CASE Client
  <2>1. ASSUME NEW k \in Key, Put(k) \/ Erase(k)
        PROVE  up /\ up' /\ crashes' = crashes
    <3>1. Put(k) => up /\ up' /\ crashes' = crashes
      BY DEF Put, LockFree
    <3>2. Erase(k) => up /\ up' /\ crashes' = crashes
      BY DEF Erase, LockFree
    <3> QED BY <2>1, <3>1, <3>2
  <2>2. ForceFlush => up /\ up' /\ crashes' = crashes
    BY DEF ForceFlush, LockFree
  <2> QED BY <1>1, <2>1, <2>2 DEF Client
<1>2. CASE FlushStep
  BY <1>2 DEF TypeInv, NumbersOK, FlushStep, FlushLoad, FlushStore, FlushCreate,
     FlushFinish, FlushOpen, FlushRotate, FlushRemove
<1>3. ASSUME NEW c \in Compactor, CompactSnapshot(c) \/ CompactStep(c)
      PROVE  up /\ up' /\ crashes' = crashes
  <2>1. up
    <3>1. compact[c].pc # "idle" => up
      BY DEF TypeInv, NumbersOK
    <3>2. up \/ compact[c].pc # "idle"
      BY <1>3 DEF LockFree, CompactSnapshot, CompactStep, CompactLoad, CompactStore,
         CompactCreate, CompactFinish, CompactGiveUp, CompactSwap, CompactDelete
    <3> QED BY <3>1, <3>2
  <2>2. UNCHANGED <<up, crashes>>
    <3>1. CompactFinish(c) => UNCHANGED <<up, crashes>>
      BY DEF CompactFinish
    <3>2. CompactSwap(c) \/ CompactDelete(c) => UNCHANGED <<up, crashes>>
      BY DEF CompactSwap, CompactDelete
    <3> QED BY <1>3, <3>1, <3>2 DEF CompactSnapshot, CompactStep, CompactLoad, CompactStore,
         CompactCreate, CompactGiveUp
  <2> QED BY <2>1, <2>2
<1> QED BY <1>1, <1>2, <1>3

\* Every step keeps the invariant.
LEMMA NextOnce ==
    ASSUME OneCrash, OnceInv, [Next]_vars
    PROVE  OnceInv'
<1> USE DEF memory, disk, history
<1>1. NumberInv' /\ LoneCompaction /\ TypeInv
  BY NextNumber DEF OneCrash, OnceInv, NumberInv, LoneCompaction, CounterAlone
<1>2. CASE Client \/ FlushStep \/ \E c \in Compactor : CompactSnapshot(c) \/ CompactStep(c)
  <2>1. up /\ up' /\ crashes' = crashes
    BY <1>1, <1>2, WorkIsUp
  <2>2. ~Failure /\ ~Start
    BY <2>1 DEF Failure, Crash, CrashAfterAppend, CrashInsideAppend, LoseMemory, Start
  <2>3. ReadInv'
    BY <1>1, <2>1, <2>2, RunningReads DEF OnceInv
  <2>4. DiskInv'
    BY <2>1, <2>2, RunningDisk DEF OnceInv, Running
  <2>5. crashes = 0 => LogMirror'
    BY <1>2, RunningMirror DEF OnceInv
  <2> QED BY <1>1, <2>1, <2>3, <2>4, <2>5 DEF OnceInv
<1>3. CASE Failure
  <2>1. LoseMemory /\ CrashMayHit
    BY <1>3 DEF Failure, Crash, CrashAfterAppend, CrashInsideAppend
  <2>2. crashes = 0 /\ up
    BY <1>1, <2>1, BoundTypes DEF CrashMayHit, OneCrash, TypeInv, TypeOK
  <2>3. Recoverable'
    BY <1>3, <2>2, DeathRecoverable DEF OnceInv, Running
  <2>4. ~up' /\ crashes' = 1 /\ \A c \in Compactor : compact'[c] = IdleCompact
    BY <2>1, <2>2 DEF LoseMemory
  <2> QED BY <1>1, <2>3, <2>4 DEF OnceInv
<1>4. CASE Start
  <2>1. ~up /\ up' /\ crashes' = crashes /\ crashes # 0
    BY <1>4 DEF Start, OnceInv
  <2>2. ReadInv' /\ DiskInv'
    BY <1>4, <2>1, StartReads DEF OnceInv
  <2> QED BY <1>1, <2>1, <2>2 DEF OnceInv
<1>5. CASE UNCHANGED vars
  <2>1. ReadInv => ReadInv'
    BY <1>5, StutterReads
  <2>2. (DiskInv => DiskInv') /\ (Recoverable => Recoverable') /\ (LogMirror => LogMirror')
    BY <1>5 DEF vars, DiskInv, Filed, Ordered, Accounted, Between, Whole, Recoverable,
       FilesLatest, Holding, Has, LogMirror, LogNum
  <2> QED BY <1>1, <1>5, <2>1, <2>2 DEF vars, OnceInv
<1> QED BY <1>2, <1>3, <1>4, <1>5 DEF Next

\* So it holds throughout.
LEMMA OnceInvHolds ==
    ASSUME OneCrash
    PROVE  Spec => []OnceInv
<1>1. Init => OnceInv
  BY InitOnce
<1>2. OnceInv /\ [Next]_vars => OnceInv'
  BY NextOnce
<1> QED BY <1>1, <1>2, PTL DEF Spec

\* What is recoverable is what the next process answers.
LEMMA RecoverableAnswers ==
    ASSUME TypeOK, Recoverable
    PROVE  CrashNowIsSafe
<1>1. ASSUME NEW k \in Key PROVE Answer(RestartSlot(k)) = Answer(latest[k])
  <2>1. CASE Has(RecoveredMemTable(walFiles), k)
    BY <2>1 DEF RestartSlot, Recoverable
  <2>2. CASE ~Has(RecoveredMemTable(walFiles), k)
    <3>1. FilesLatest(k)
      BY <2>2 DEF Recoverable
    <3>2. Answer(MergedSlot(LoadedReaders(sstFiles), k)) = Answer(latest[k])
      BY <3>1, FilesAnswer
    <3> QED BY <2>2, <3>2 DEF RestartSlot
  <2> QED BY <2>1, <2>2
<1> QED BY <1>1 DEF CrashNowIsSafe

\* An engine that writes, flushes, merges beside it and dies once, between any two file
\* operations or in the middle of a record, implements the map throughout: before the
\* crash, while it is down, and after the restart, with whatever the crash has left.
THEOREM OnceCrashedEngineIsMap ==
    ASSUME OneCrash
    PROVE  Spec => ImplementsMap
<1>1. TypeOK /\ OnceInv => SeenFresh
  BY ReadInvFresh, RecoverableAnswers
     DEF OnceInv, SeenFresh, Seen, IteratorFresh, CrashNowIsSafe
<1>2. Init /\ SeenFresh => KV!MapInit
  BY InitIsMap
<1>3. TypeOK /\ SeenFresh /\ SeenFresh' /\ [Next]_vars => [KV!MapNext]_(KV!mapVars)
  BY StepIsMap
<1> QED BY <1>1, <1>2, <1>3, TypeCorrect, OnceInvHolds, PTL
        DEF Spec, ImplementsMap, KV!MapSpec

-----------------------------------------------------------------------------
(* Files are numbered by the age of what is in them.                       *)

\* No file has an entry newer than the last write.
LatestAge ==
    /\ Written(latest)
    /\ \A n \in SstNum : \A k \in Key :
          Whole(n) /\ Has(sstFiles[n].data, k) => sstFiles[n].data[k].write <= latest[k].write

AgeInv == LatestAge /\ NumberedByAge

\* The entries of a well-typed engine are numbered.
LEMMA AgeTypes ==
    ASSUME TypeOK
    PROVE  /\ writes \in Nat /\ \A k \in Key : latest[k].write \in Nat
           /\ \A n \in SstNum : \A k \in Key : sstFiles[n].data[k].write \in Nat
<1>1. latest \in Table /\ \A n \in SstNum : sstFiles[n].data \in Table
  BY DEF TypeOK, SstFile
<1>2. \A s \in Slot : s.write \in Nat
  BY BoundTypes DEF Slot
<1> QED BY <1>1, <1>2, BoundTypes DEF Table, TypeOK

\* The last write of a key is only replaced by a newer one.
LEMMA LatestGrows ==
    ASSUME TypeOK, Written(latest), [Next]_vars
    PROVE  Written(latest)' /\ \A k \in Key : latest[k].write <= latest'[k].write
<1> USE DEF memory, disk, history
<1>0. writes \in Nat /\ latest \in Table /\ \A k \in Key : latest[k].write \in Nat
  BY AgeTypes DEF TypeOK
<1>1. CASE UNCHANGED <<latest, writes>>
  BY <1>0, <1>1 DEF Written
<1>2. ASSUME NEW k \in Key, NEW op \in {"put", "erase"}, Accept(op, k)
      PROVE  Written(latest)' /\ \A j \in Key : latest[j].write <= latest'[j].write
  <2>1. /\ writes' = writes + 1
        /\ \A j \in Key : latest'[j] = IF j = k THEN [type |-> op, write |-> writes + 1]
                                       ELSE latest[j]
    BY <1>0, <1>2 DEF Accept, Table
  <2>2. \A j \in Key : latest'[j].write = IF j = k THEN writes + 1 ELSE latest[j].write
    BY <2>1
  <2> QED BY <1>0, <2>1, <2>2 DEF Written
<1>3. \/ UNCHANGED <<latest, writes>>
      \/ \E k \in Key, op \in {"put", "erase"} : Accept(op, k)
  <2>1. CASE Client
    BY <2>1 DEF Client, Put, Erase, ForceFlush
  <2>2. CASE FlushStep
    BY <2>2 DEF FlushStep, FlushLoad, FlushStore, FlushCreate, FlushFinish, FlushOpen,
       FlushRotate, FlushRemove
  <2>3. ASSUME NEW c \in Compactor, CompactSnapshot(c) \/ CompactStep(c)
        PROVE  UNCHANGED <<latest, writes>>
    BY <2>3 DEF CompactSnapshot, CompactStep, CompactLoad, CompactStore, CompactCreate,
       CompactFinish, CompactGiveUp, CompactSwap, CompactDelete
  <2>4. CASE Failure
    BY <2>4 DEF Failure, Crash, CrashAfterAppend, CrashInsideAppend
  <2>5. CASE Start \/ UNCHANGED vars
    BY <2>5 DEF Start, vars
  <2> QED BY <2>1, <2>2, <2>3, <2>4, <2>5 DEF Next
<1> QED BY <1>1, <1>2, <1>3

\* Files may only go, or stay as they are.
LEMMA AgeKept ==
    ASSUME TypeOK, TypeOK', AgeInv, [Next]_vars,
           \A n \in SstNum : Whole(n)' => Whole(n) /\ sstFiles'[n].data = sstFiles[n].data
    PROVE  AgeInv'
<1>1. /\ \A k \in Key : latest[k].write \in Nat /\ latest'[k].write \in Nat
      /\ \A n \in SstNum : \A k \in Key : sstFiles[n].data[k].write \in Nat
  <2>1. latest' \in Table /\ \A s \in Slot : s.write \in Nat
    BY BoundTypes DEF TypeOK, Slot
  <2> QED BY <2>1, AgeTypes DEF Table
<1>2. Written(latest)' /\ \A k \in Key : latest[k].write <= latest'[k].write
  BY LatestGrows DEF AgeInv, LatestAge
<1>3. LatestAge'
  BY <1>1, <1>2 DEF AgeInv, LatestAge, Has
<1>4. NumberedByAge'
  BY DEF AgeInv, NumberedByAge, Has, Whole
<1> QED BY <1>3, <1>4 DEF AgeInv

\* A file n that appears, whose entries lie between those of older and of younger files.
LEMMA AgeBetween ==
    ASSUME AgeInv, UNCHANGED <<latest, writes>>,
           NEW n \in SstNum, \A m \in SstNum \ {n} : sstFiles'[m] = sstFiles[m],
           NEW table, sstFiles'[n].state = "whole" => sstFiles'[n].data = table,
           \A k \in Key : Has(table, k) =>
              /\ table[k].write <= latest[k].write
              /\ \A m \in SstNum : Whole(m) /\ Has(sstFiles[m].data, k) =>
                    /\ m < n => sstFiles[m].data[k].write <= table[k].write
                    /\ n < m => table[k].write <= sstFiles[m].data[k].write
    PROVE  AgeInv'
<1>1. LatestAge'
  BY DEF AgeInv, LatestAge, Written, Whole, Has
<1>2. ASSUME NEW i \in SstNum, NEW j \in SstNum, NEW k \in Key, i < j,
             Whole(i)', Has(sstFiles'[i].data, k), Whole(j)', Has(sstFiles'[j].data, k)
      PROVE  sstFiles'[i].data[k].write <= sstFiles'[j].data[k].write
  <2>0. i # j
    BY <1>2 DEF SstNum
  <2>1. CASE i # n /\ j # n
    BY <1>2, <2>1 DEF AgeInv, NumberedByAge, Whole
  <2>2. CASE i = n
    BY <1>2, <2>0, <2>2 DEF Whole
  <2>3. CASE j = n
    BY <1>2, <2>0, <2>3 DEF Whole
  <2> QED BY <2>1, <2>2, <2>3
<1>3. NumberedByAge'
  BY <1>2 DEF NumberedByAge, Whole, Has
<1> QED BY <1>1, <1>3 DEF AgeInv

\* A flush writes the last writes to a file above all others.
LEMMA FlushFinishAge ==
    ASSUME Running, AgeInv, FlushFinish
    PROVE  AgeInv'
<1> USE DEF memory, disk, history
<1>0. /\ sstFiles \in [SstNum -> SstFile] /\ flush \in FlushState /\ sst_counter \in Nat
      /\ \A k \in Key : latest[k].write \in Nat
  BY RunningTypes, AgeTypes
<1>1. flush.pc = "finish" /\ flush.file = sst_counter /\ flush.file \in SstNum
  BY <1>0 DEF FlushFinish, Running, ReadInv, FlushFresh, NumberInv, TypeInv, NumbersOK,
     FlushState, SstNum
<1>2. \A m \in SstNum : Whole(m) => m <= flush.file
  BY <1>1 DEF Running, NumberInv, FileInv, ReadInv, Present, Whole
<1>3. /\ \A m \in SstNum \ {flush.file} : sstFiles'[m] = sstFiles[m]
      /\ sstFiles'[flush.file].state = "whole" => sstFiles'[flush.file].data = skiplist
  BY <1>0, <1>1 DEF FlushFinish, WholeSst, BrokenSst
<1>4. \A k \in Key : Has(skiplist, k) => skiplist[k] = latest[k]
  BY DEF Running, ReadInv, MemTableLatest
<1>5. \A k \in Key : Has(skiplist, k) =>
         /\ skiplist[k].write <= latest[k].write
         /\ \A m \in SstNum : Whole(m) /\ Has(sstFiles[m].data, k) =>
               /\ m < flush.file => sstFiles[m].data[k].write <= skiplist[k].write
               /\ flush.file < m => skiplist[k].write <= sstFiles[m].data[k].write
  BY <1>0, <1>1, <1>2, <1>4 DEF AgeInv, LatestAge, SstNum
<1>6. UNCHANGED <<latest, writes>>
  BY DEF FlushFinish
<1> QED BY <1>1, <1>3, <1>5, <1>6, AgeBetween

\* A compaction writes the newest entries of its inputs to a file above theirs and below
\* those that have been flushed since.
LEMMA CompactFinishAge ==
    ASSUME Running, AgeInv, NEW c \in Compactor, CompactFinish(c)
    PROVE  AgeInv'
<1> USE DEF memory, disk, history
<1> DEFINE inputs == compact[c].inputs
           n == compact[c].file
           table == CompactedTable(inputs)
<1>0. /\ sstFiles \in [SstNum -> SstFile] /\ compact \in [Compactor -> CompactState]
      /\ \A r \in sstables : r.file \in SstNum /\ r.file \in Nat /\ r.seq \in Nat
      /\ \A k \in Key : latest[k].write \in Nat
      /\ \A m \in SstNum : \A k \in Key : sstFiles[m].data[k].write \in Nat
      /\ SstNum \subseteq Nat
  BY RunningTypes, AgeTypes DEF SstNum
<1>1. compact[c].pc = "merge" /\ n \in SstNum
  BY <1>0 DEF CompactFinish, Running, NumberInv, TypeInv, NumbersOK, CompactState, SstNum
<1>2. /\ inputs \subseteq sstables /\ inputs \in SUBSET Reader
      /\ \A r \in sstables : r \in inputs <=> r.file < n
  BY <1>0, <1>1 DEF Running, ReadInv, CompactFresh, Merging, DiskInv, Between, CompactState
<1>3. \A r \in inputs : Whole(r.file) /\ sstFiles[r.file].data = r.data
  BY <1>2 DEF Running, DiskInv, Filed
<1>4. \A m \in SstNum : Whole(m) /\ m < n => \E r \in inputs : r.file = m
  <2> SUFFICES ASSUME NEW m \in SstNum, Whole(m), m < n
               PROVE  \E r \in inputs : r.file = m
    OBVIOUS
  <2>1. \/ \E r \in sstables : r.file = m
        \/ flush.pc = "open" /\ m = flush.file
        \/ \E d \in Compactor : compact[d].pc \in {"swap", "delete"}
    BY DEF Running, DiskInv, Accounted
  <2>2. ~ \E d \in Compactor : compact[d].pc \in {"swap", "delete"}
    BY <1>1 DEF Running, OneCrash
  <2>3. ~(flush.pc = "open" /\ m = flush.file)
    <3>1. flush.pc = "open" => n < flush.file
      BY DEF Running, ReadInv, FlushFresh
    <3>2. m \in Nat /\ n \in Nat
      BY <1>0, <1>1
    <3> QED BY <3>1, <3>2
  <2> QED BY <1>2, <2>1, <2>2, <2>3
<1> HIDE DEF inputs, n
<1>5. ASSUME NEW k \in Key, Has(table, k)
      PROVE  \E r \in inputs :
                /\ Has(r.data, k) /\ table[k] = r.data[k]
                /\ \A s \in inputs : Has(s.data, k) => s.file <= r.file
  <2>1. /\ table[k] = MergedSlot(inputs, k) /\ Holders(inputs, k) # {}
    BY <1>5 DEF CompactedTable, Has, NoSlot, MergedSlot
  <2> DEFINE r == HighestSeq(Holders(inputs, k))
  <2>2. Holders(inputs, k) \in SUBSET Reader
    BY <1>2 DEF Holders
  <2>3. r \in Holders(inputs, k) /\ \A s \in Holders(inputs, k) : s.seq <= r.seq
    BY <2>1, <2>2, HighestSeqIsGreatest
  <2>4. table[k] = r.data[k]
    BY <2>1 DEF MergedSlot
  <2> HIDE DEF r, table
  <2>5. \A s \in Holders(inputs, k) : s.file <= r.file
    <3> SUFFICES ASSUME NEW s \in Holders(inputs, k) PROVE s.file <= r.file
      OBVIOUS
    <3>1. s \in sstables /\ r \in sstables
      BY <1>2, <2>3 DEF Holders
    <3>2. s.seq = r.seq => s = r
      BY <3>1 DEF Running, ReadInv, Distinct
    <3>3. s.seq < r.seq => s.file < r.file
      BY <3>1 DEF Running, DiskInv, Ordered
    <3>4. s.seq <= r.seq
      BY <2>3
    <3> QED BY <1>0, <3>1, <3>2, <3>3, <3>4
  <2> QED BY <2>3, <2>4, <2>5 DEF Holders
<1> HIDE DEF table
<1>6. \A k \in Key : Has(table, k) =>
         /\ table[k].write <= latest[k].write
         /\ \A m \in SstNum : Whole(m) /\ Has(sstFiles[m].data, k) =>
               /\ m < n => sstFiles[m].data[k].write <= table[k].write
               /\ n < m => table[k].write <= sstFiles[m].data[k].write
  <2> SUFFICES ASSUME NEW k \in Key, Has(table, k)
               PROVE  /\ table[k].write <= latest[k].write
                      /\ \A m \in SstNum : Whole(m) /\ Has(sstFiles[m].data, k) =>
                            /\ m < n => sstFiles[m].data[k].write <= table[k].write
                            /\ n < m => table[k].write <= sstFiles[m].data[k].write
    OBVIOUS
  <2>1. PICK r \in inputs : /\ Has(r.data, k) /\ table[k] = r.data[k]
                            /\ \A s \in inputs : Has(s.data, k) => s.file <= r.file
    BY <1>5
  <2>2. /\ r.file \in SstNum /\ r.file < n /\ Whole(r.file)
        /\ sstFiles[r.file].data = r.data
    BY <1>0, <1>2, <1>3
  <2>3. table[k].write <= latest[k].write
    BY <2>1, <2>2 DEF AgeInv, LatestAge
  <2>4. ASSUME NEW m \in SstNum, Whole(m), Has(sstFiles[m].data, k), m < n
        PROVE  sstFiles[m].data[k].write <= table[k].write
    <3>1. m <= r.file
      BY <1>3, <1>4, <2>1, <2>4
    <3>2. CASE m = r.file
      BY <1>0, <2>1, <2>2, <3>2
    <3>3. CASE m < r.file
      BY <2>1, <2>2, <2>4, <3>3 DEF AgeInv, NumberedByAge, Whole
    <3>4. m \in Nat /\ r.file \in Nat
      BY <1>0, <2>2
    <3> QED BY <3>1, <3>2, <3>3, <3>4
  <2>5. ASSUME NEW m \in SstNum, Whole(m), Has(sstFiles[m].data, k), n < m
        PROVE  table[k].write <= sstFiles[m].data[k].write
    <3>1. r.file < m
      <4>1. m \in Nat /\ r.file \in Nat /\ n \in Nat
        BY <1>0, <1>1, <2>2
      <4> QED BY <2>2, <2>5, <4>1
    <3> QED BY <2>1, <2>2, <2>5, <3>1 DEF AgeInv, NumberedByAge, Whole
  <2> QED BY <2>3, <2>4, <2>5
<1>7. /\ UNCHANGED <<latest, writes>>
      /\ \A m \in SstNum \ {n} : sstFiles'[m] = sstFiles[m]
      /\ sstFiles'[n].state = "whole" => sstFiles'[n].data = table
  BY <1>0, <1>1 DEF CompactFinish, WholeSst, BrokenSst, n, table, inputs
<1> QED BY <1>1, <1>6, <1>7, AgeBetween


\* All other steps leave a file as it is, take it away, or leave a broken one in its place.
LEMMA OnlyTwoWrite ==
    ASSUME TypeInv, [Next]_vars, ~FlushFinish, \A c \in Compactor : ~CompactFinish(c)
    PROVE  \A n \in SstNum : Whole(n)' => Whole(n) /\ sstFiles'[n].data = sstFiles[n].data
<1> USE DEF memory, disk, history
<1>0. sstFiles \in [SstNum -> SstFile]
  BY DEF TypeInv, TypeOK
<1>1. CASE UNCHANGED sstFiles
  BY <1>1 DEF Whole
<1>2. CASE FlushCreate \/ \E c \in Compactor : CompactCreate(c)
  <2>1. sstFiles' = [sstFiles EXCEPT ![sst_counter] = BrokenSst]
    BY <1>2 DEF FlushCreate, CompactCreate
  <2> QED BY <1>0, <2>1 DEF BrokenSst, Whole
<1>3. ASSUME NEW c \in Compactor, CompactDelete(c)
      PROVE  \A n \in SstNum : Whole(n)' => Whole(n) /\ sstFiles'[n].data = sstFiles[n].data
  <2>1. \/ UNCHANGED sstFiles
        \/ sstFiles' = [sstFiles EXCEPT ![FrontMost(compact[c].inputs).file] = MissingSst]
    BY <1>3 DEF CompactDelete
  <2> QED BY <1>0, <1>1, <2>1 DEF MissingSst, Whole
<1>4. CASE Client
  BY <1>1, <1>4 DEF Client, Put, Erase, ForceFlush
<1>5. CASE FlushStep
  BY <1>1, <1>2, <1>5 DEF FlushStep, FlushLoad, FlushStore, FlushOpen, FlushRotate, FlushRemove
<1>6. ASSUME NEW c \in Compactor, CompactSnapshot(c) \/ CompactStep(c)
      PROVE  \/ UNCHANGED sstFiles
             \/ CompactCreate(c) \/ CompactDelete(c)
  BY <1>6 DEF CompactSnapshot, CompactStep, CompactLoad, CompactStore, CompactGiveUp,
     CompactSwap
<1>7. CASE Failure
  BY <1>1, <1>7 DEF Failure, Crash, CrashAfterAppend, CrashInsideAppend
<1>8. CASE Start \/ UNCHANGED vars
  BY <1>1, <1>8 DEF Start, vars
<1> QED BY <1>1, <1>2, <1>3, <1>4, <1>5, <1>6, <1>7, <1>8 DEF Next

\* Whatever number a file gets, and whenever a crash comes, a file with a smaller number
\* has the older entries: the flush that overtakes a compaction, the file of a dead
\* process that was never listed, and the merged file after it among them.
THEOREM FilesNumberedByAge ==
    ASSUME OneCrash
    PROVE  Spec => []NumberedByAge
<1>1. Init => OnceInv /\ AgeInv
  <2>1. ASSUME Init PROVE AgeInv
    <3>1. \A n \in SstNum : sstFiles[n].state = "missing"
      BY <2>1 DEF Init, MissingSst
    <3>2. \A k \in Key : latest[k].write = writes /\ writes = 0
      BY <2>1 DEF Init, EmptyTable, NoSlot
    <3> QED BY <3>1, <3>2 DEF AgeInv, LatestAge, NumberedByAge, Written, Whole
  <2> QED BY <2>1, InitOnce
<1>2. (OnceInv /\ AgeInv) /\ [Next]_vars => (OnceInv /\ AgeInv)'
  <2> SUFFICES ASSUME OnceInv, AgeInv, [Next]_vars
               PROVE  OnceInv' /\ AgeInv'
    OBVIOUS
  <2>1. OnceInv'
    BY NextOnce
  <2>2. TypeInv /\ TypeOK /\ TypeOK'
    BY <2>1 DEF OnceInv, NumberInv, TypeInv
  <2>3. ASSUME FlushFinish \/ \E c \in Compactor : CompactFinish(c)
        PROVE  AgeInv'
    <3>1. up
      BY <2>2, <2>3 DEF TypeInv, NumbersOK, FlushFinish, CompactFinish
    <3> QED BY <2>3, <3>1, FlushFinishAge, CompactFinishAge DEF OnceInv, Running
  <2>4. ASSUME ~FlushFinish, \A c \in Compactor : ~CompactFinish(c)
        PROVE  AgeInv'
    BY <2>2, <2>4, OnlyTwoWrite, AgeKept
  <2> QED BY <2>1, <2>3, <2>4
<1>3. AgeInv => NumberedByAge
  BY DEF AgeInv
<1> QED BY <1>1, <1>2, <1>3, PTL DEF Spec

-----------------------------------------------------------------------------
(* get, through one crash.                                                 *)

\* The list a process makes of the files is ordered.
LEMMA StartPeers ==
    ASSUME NumberInv, Recoverable, Start, \A c \in Compactor : compact[c] = IdleCompact
    PROVE  PeerInv'
<1> USE DEF memory, disk, history
<1>1. /\ up' /\ sstables' = LoadedReaders(sstFiles) /\ skiplist' = RecoveredMemTable(walFiles)
      /\ UNCHANGED <<flush, compact, sstFiles, latest>> /\ flush.pc = "idle"
  BY DEF Start, NumberInv, TypeInv, NumbersOK
<1>2. InOrder'
  BY <1>1 DEF InOrder, LoadedReaders, SstNum
<1>3. Beneath'
  <2> SUFFICES ASSUME NEW k \in Key, ~Has(RecoveredMemTable(walFiles), k)
               PROVE  Answer(FrontSlot(k)') = Answer(latest[k])
    BY <1>1 DEF Beneath, Recoverable, Has
  <2>1. FilesLatest(k)
    BY DEF Recoverable
  <2>2. TypeOK
    BY DEF NumberInv, TypeInv
  <2> DEFINE loaded == LoadedReaders(sstFiles)
  <2>3. Answer(IF Holders(loaded, k) = {} THEN NoSlot
               ELSE FrontMost(Holders(loaded, k)).data[k]) = Answer(latest[k])
    BY <2>1, <2>2, FilesAnswer
  <2> QED BY <1>1, <2>3 DEF FrontSlot
<1>4. FlushAlone' /\ \A c \in Compactor : Peer(c)' /\ Own(c)'
  BY <1>1 DEF FlushAlone, Peer, Own, Merging, IdleCompact
<1> QED BY <1>1, <1>2, <1>3, <1>4 DEF PeerInv

\* If no flush runs beside the compaction, get too answers with the last accepted write,
\* before the crash and after it.
THEOREM OnceCrashedGetFresh ==
    ASSUME OneCrash, Overlap = {}
    PROVE  Spec => []GetFresh
<1> DEFINE Inv == OnceInv /\ GetInv /\ (up => PeerInv)
<1>0. FlushesApart /\ CounterAlone
  BY DEF FlushesApart, OneCrash, CounterAlone
<1>1. Init => Inv
  <2>1. Init => PeerInv
    BY DEF Init, PeerInv, InOrder, Beneath, FlushAlone, Peer, Own, Merging, FrontSlot,
       Holders, Has, EmptyTable, NoSlot, Answer, IdleFlush, IdleCompact
  <2> QED BY <1>0, <2>1, InitOnce, GetInvHolds DEF FlushesApart
<1>2. Inv /\ [Next]_vars => Inv'
  <2> SUFFICES ASSUME Inv, [Next]_vars PROVE Inv'
    OBVIOUS
  <2>1. OnceInv' /\ GetInv'
    BY <1>0, NextOnce, GetInvHolds DEF FlushesApart
  <2>2. CASE Failure
    BY <2>1, <2>2 DEF Failure, Crash, CrashAfterAppend, CrashInsideAppend, LoseMemory
  <2>3. CASE Start
    BY <2>1, <2>3, StartPeers DEF OnceInv, Start
  <2>4. CASE ~Failure /\ ~Start
    <3>1. TypeInv
      BY DEF OnceInv, NumberInv
    <3>2. UNCHANGED vars => up' = up
      BY DEF vars
    <3>3. Next => up
      BY <2>4, <3>1, WorkIsUp DEF Next
    <3>4. up' => up
      BY <3>2, <3>3
    <3> QED BY <1>0, <2>1, <2>4, <3>4, RunningPeers
  <2> QED BY <2>2, <2>3, <2>4
<1>3. Inv => GetFresh
  BY PeersFresh DEF GetFresh, LockFree
<1> QED BY <1>1, <1>2, <1>3, PTL DEF Spec
=============================================================================
