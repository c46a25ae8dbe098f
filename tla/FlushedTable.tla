---------------------------- MODULE FlushedTable ----------------------------
(***************************************************************************)
(* What a flush promises: a MemTable, a map, becomes a table that answers   *)
(* as the map did, all of it at once.  The map is emptied only after that   *)
(* was tried, and if the table was refused what it held is lost.  If the    *)
(* process stops, the table is there whole or not at all.                   *)
(***************************************************************************)
EXTENDS TableEntries

VARIABLES
    mem,            \* the MemTable, a map
    table,          \* the tables there are: none, or one map
    stage           \* "before" the table is tried, "tried", "flushed", or "stopped"

flushVars == <<mem, table, stage>>

EmptyMap == [k \in {} |-> Absent]

FlushInit == mem = EmptyMap /\ table = {} /\ stage = "before"

Store(k, e) ==
    /\ stage = "before"
    /\ mem' = [x \in DOMAIN mem \cup {k} |-> IF x = k THEN e ELSE mem[x]]
    /\ UNCHANGED <<table, stage>>

RemoveKey(k) ==
    /\ stage = "before"
    /\ mem' = [x \in DOMAIN mem \ {k} |-> mem[x]]
    /\ UNCHANGED <<table, stage>>

\* The file is opened, or it is refused.
Publish == stage = "before" /\ stage' = "tried" /\ table' = {mem} /\ UNCHANGED mem

Refuse == stage = "before" /\ stage' = "tried" /\ UNCHANGED <<mem, table>>

\* Only then may the MemTable go; after Publish the table answers for it.
Release == stage = "tried" /\ stage' = "flushed" /\ mem' = EmptyMap /\ UNCHANGED table

\* The process stops: what was opened stays, what was not may be found at the start.
Stop ==
    /\ stage \in {"before", "tried"}
    /\ stage' = "stopped"
    /\ mem' = EmptyMap
    /\ table' = table \/ (table = {} /\ table' = {mem})

FlushNext ==
    \/ \E k \in Key, e \in Entry : Store(k, e)
    \/ \E k \in Key : RemoveKey(k)
    \/ Publish \/ Refuse \/ Release \/ Stop

FlushSpec == FlushInit /\ [][FlushNext]_flushVars
=============================================================================
