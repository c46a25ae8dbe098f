------------------------------ MODULE SkipList ------------------------------
(***************************************************************************)
(* The MemTable (src/include/skip_list.h) with its linked levels.  A node  *)
(* is an address; freed addresses are used again.  Levels count from 1.    *)
(* An operation is one step: the engine calls it under its lock.           *)
(***************************************************************************)
EXTENDS TableEntries

CONSTANTS
    MaxNode,        \* addresses a node can have
    MaxLevel        \* max_level

ASSUME SkipListAssumption == MaxNode \in Nat /\ MaxLevel \in Nat \ {0}

VARIABLES
    cell,           \* key and entry of each node in use
    forward,        \* forward[n][i]: the node after n on level i
    level,          \* current_level
    count           \* node_count_

listVars == <<cell, forward, level, count>>
-----------------------------------------------------------------------------
HeadNode == 0
Null == -1
Node == 1 .. MaxNode

Unlinked(height) == [i \in 1 .. height |-> Null]

ListInit ==
    /\ cell = <<>>
    /\ forward = [n \in {HeadNode} |-> Unlinked(MaxLevel)]
    /\ level = 1
    /\ count = 0

\* Level i, from node n to the right, while the next key is smaller.
LastBefore(k, i, n) ==
    LET along[m \in {x \in DOMAIN forward : i <= Len(forward[x])}] ==
            LET next == forward[m][i]
            IN  IF next # Null /\ cell[next].key < k THEN along[next] ELSE m
    IN  along[n]

\* update[]: on each level the last node before k, found from the top down.
Predecessors(k) ==
    LET update[i \in 1 .. level] ==
            LastBefore(k, i, IF i = level THEN HeadNode ELSE update[i + 1])
    IN  update

\* (Mutant: the walk also passes a node with the key itself.)
FindGreater(k) == forward[Predecessors(k + 1)[1]][1]

FindGreaterOrEqual(k) == forward[Predecessors(k)[1]][1]

Holds(n, k) == n # Null /\ cell[n].key = k

GetFromList(k) ==
    LET n == FindGreaterOrEqual(k) IN IF Holds(n, k) THEN cell[n].entry ELSE Absent

\* dump_all, and the copy that SkipListIterator makes from a lower bound on.
FollowLevel1(n) ==
    LET rest[m \in DOMAIN cell \cup {Null}] ==
            IF m = Null THEN <<>> ELSE <<cell[m]>> \o rest[forward[m][1]]
    IN  rest[n]
DumpAll == FollowLevel1(forward[HeadNode][1])
SnapshotFrom(lo) == FollowLevel1(FindGreaterOrEqual(lo))

\* put of a key that is there.
Overwrite(k, e) ==
    LET n == FindGreaterOrEqual(k)
    IN  /\ Holds(n, k)
        /\ cell' = [cell EXCEPT ![n].entry = e]
        /\ UNCHANGED <<forward, level, count>>

\* Where a new node of some height goes: levels not in use begin at the head.
InsertAfter(k, i) == IF i <= level THEN Predecessors(k)[i] ELSE HeadNode

\* put of another key: random_level gives any height.
Insert(k, e) ==
    /\ ~Holds(FindGreaterOrEqual(k), k)
    /\ DOMAIN cell # Node
    /\ \E height \in 1 .. MaxLevel :
          LET n == Min(Node \ DOMAIN cell)
              after == [i \in 1 .. height |-> InsertAfter(k, i)]
          IN  /\ cell' = [m \in DOMAIN cell \cup {n} |->
                            IF m = n THEN [key |-> k, entry |-> e] ELSE cell[m]]
              /\ forward' = [m \in DOMAIN forward \cup {n} |->
                    IF m = n THEN [i \in 1 .. height |-> forward[after[i]][i]]
                    ELSE [i \in DOMAIN forward[m] |->
                            IF i <= height /\ after[i] = m THEN n ELSE forward[m][i]]]
              /\ level' = IF height > level THEN height ELSE level
    /\ count' = count + 1

PutInList(k, e) == Overwrite(k, e) \/ Insert(k, e)

\* (Mutant: the loop also gives up the lowest level.)
LoweredToNone(top, links) ==
    Max({0} \cup {i \in 1 .. top : links[HeadNode][i] # Null})

\* Where the loop of erase, from level top down, stops.
Lowered(top, links) ==
    Max({1} \cup {i \in 1 .. top : links[HeadNode][i] # Null})

\* (Mutant: the top link of the node is left out.)
EraseBelowTop(k) ==
    LET n == FindGreaterOrEqual(k)
        update == Predecessors(k)
    IN  /\ Holds(n, k)
        /\ cell' = [m \in DOMAIN cell \ {n} |-> cell[m]]
        /\ forward' = [m \in DOMAIN forward \ {n} |->
              [i \in DOMAIN forward[m] |->
                  IF i < Len(forward[n]) /\ update[i] = m
                  THEN forward[n][i] ELSE forward[m][i]]]
        /\ level' = Lowered(level, forward')
        /\ count' = count - 1

EraseFromList(k) ==
    LET n == FindGreaterOrEqual(k)
        update == Predecessors(k)
    IN  /\ Holds(n, k)
        /\ cell' = [m \in DOMAIN cell \ {n} |-> cell[m]]
        /\ forward' = [m \in DOMAIN forward \ {n} |->
              [i \in DOMAIN forward[m] |->
                  IF i <= Len(forward[n]) /\ update[i] = m /\ forward[m][i] = n
                  THEN forward[n][i] ELSE forward[m][i]]]
        /\ level' = Lowered(level, forward')
        /\ count' = count - 1

\* The level-1 nodes are freed one by one, then the head is reset.
ClearList ==
    /\ cell' = <<>>
    /\ forward' = [n \in {HeadNode} |-> Unlinked(MaxLevel)]
    /\ level' = 1
    /\ count' = 0
-----------------------------------------------------------------------------
(* Properties.                                                             *)

ListTypeOK ==
    /\ DOMAIN cell \subseteq Node
    /\ \A n \in DOMAIN cell : cell[n] \in Pair
    /\ DOMAIN forward = DOMAIN cell \cup {HeadNode}
    /\ \A n \in DOMAIN forward :
          /\ Len(forward[n]) \in 1 .. MaxLevel
          /\ \A i \in DOMAIN forward[n] : forward[n][i] \in Node \cup {Null}
    /\ level \in 1 .. MaxLevel
    /\ count \in Nat

Contents == {cell[n] : n \in DOMAIN cell}

Tall(i) == {n \in DOMAIN cell : Len(forward[n]) >= i}
Beyond(n) ==
    {m \in DOMAIN cell : n = HeadNode \/ cell[m].key > cell[n].key}
Nearest(nodes) ==
    IF nodes = {} THEN Null
    ELSE CHOOSE n \in nodes : \A m \in nodes : cell[n].key <= cell[m].key

\* Each link leads to the nearest node of its height: every level is sorted and
\* part of the one below, no node in use is out of reach and no freed one within
\* it; a key has one node, the node count is right, and the highest level in use
\* is that of the tallest node (put, erase, clear).
LevelsLinked ==
    /\ \A n \in DOMAIN forward : \A i \in DOMAIN forward[n] :
          forward[n][i] = Nearest(Beyond(n) \cap Tall(i))
    /\ \A m, n \in DOMAIN cell : cell[m].key = cell[n].key => m = n
    /\ count = Cardinality(DOMAIN cell)
    /\ level = Max({1} \cup {Len(forward[n]) : n \in DOMAIN cell})

\* Reading through the levels gives what the nodes hold: get for each key, the copy
\* of an iterator for each lower bound, dump_all in ascending order.
MemTableReads ==
    /\ IsInOrder(DumpAll, Contents)
    /\ \A k \in Key :
          /\ GetFromList(k) = Lookup(Contents, k)
          /\ IsInOrder(SnapshotFrom(k), From(Contents, k))
=============================================================================
