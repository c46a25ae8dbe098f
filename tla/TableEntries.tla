---------------------------- MODULE TableEntries ----------------------------
(* What the MemTable and the SSTable files hold: keys, in an order, with a  *)
(* value or a tombstone (src/include/types.h).                              *)
EXTENDS Integers, Sequences, FiniteSetsExt, SequencesExt

CONSTANTS
    Key,            \* numbers, for the order of the strings
    Value,
    Tombstone

Entry == Value \cup {Tombstone}

\* What a search returns that finds nothing (false).
Absent == "absent"

ASSUME EntriesAssumption ==
    Key \subseteq Nat /\ Tombstone \notin Value /\ Absent \notin Entry

Pair == [key : Key, entry : Entry]

From(pairs, lo) == {p \in pairs : p.key >= lo}
UpTo(pairs, hi) == {p \in pairs : p.key <= hi}

\* s shows these pairs, in the order of the keys, each once.
IsInOrder(s, pairs) ==
    /\ ToSet(s) = pairs
    /\ \A i, j \in DOMAIN s : i < j => s[i].key < s[j].key

Lookup(pairs, k) ==
    IF \E p \in pairs : p.key = k
    THEN (CHOOSE p \in pairs : p.key = k).entry
    ELSE Absent
AsMap(pairs) == [k \in {p.key : p \in pairs} |-> Lookup(pairs, k)]
=============================================================================
