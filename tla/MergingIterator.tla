-------------------------- MODULE MergingIterator --------------------------
(***************************************************************************)
(* MergingIterator (src/src/iterator.cpp:190-290): the merge of several    *)
(* iterators by a heap of their current entries, step by step.  The loop   *)
(* bodies are the steps, so every state a child, the heap and the shown    *)
(* entry are in together is a state of the model.                          *)
(*                                                                         *)
(* A child is an iterator too: it goes through its own keys in ascending   *)
(* order (a table of the MemTable or of a file, or another merge).  The    *)
(* children are named by their sequence, the larger the newer; the version *)
(* of an entry is the sequence of its child.                               *)
(***************************************************************************)
EXTENDS Integers, FiniteSets

CONSTANTS
    Key,        \* a set of natural numbers: only the order of keys matters
    Child,      \* the sequences of the children, natural numbers above 0
    None        \* the key of a child, or of the merge, that is not valid

ASSUME MergeAssumption ==
    /\ Key \subseteq Nat
    /\ Child \subseteq Nat \ {0} /\ IsFiniteSet(Child)
    /\ None \notin Nat

VARIABLES
    content,    \* content[c]: the keys of child c
    at,         \* at[c]: the key child c is at, or None
    heap,       \* min_heap_: entries [key, child]
    current,    \* current_entry_, with the sequence of the child it came from
    valid,      \* valid_
    call        \* the thread: its place in the code and its local variables

vars == <<content, at, heap, current, valid, call>>
-----------------------------------------------------------------------------
Item == [key : Key, child : Child]

\* k is the first key of child c from t on, or None if there is none.
FirstFrom(c, k, t) ==
    IF k = None THEN \A j \in content[c] : j < t
    ELSE k \in content[c] /\ k >= t /\ \A j \in content[c] : j >= t => k <= j

\* (Mutant: of one key, the lowest sequence first.)
HeapBeforeOldest(a, b) == a.key < b.key \/ (a.key = b.key /\ a.child <= b.child)

\* operator> of HeapItem, the other way round.
HeapBefore(a, b) == a.key < b.key \/ (a.key = b.key /\ a.child >= b.child)
IsTop(item) == item \in heap /\ \A other \in heap : HeapBefore(item, other)

\* (Mutant: children_[idx] is advanced but what it is at now is not pushed.)
PopOnly(item) ==
    /\ heap' = heap \ {item}
    /\ \E k \in Key \cup {None} :
          /\ FirstFrom(item.child, k, at[item.child] + 1)
          /\ at' = [at EXCEPT ![item.child] = k]

\* The top is popped, its child advanced, and the child's next entry pushed.
PopAndAdvance(item) ==
    \E k \in Key \cup {None} :
        /\ FirstFrom(item.child, k, at[item.child] + 1)
        /\ at' = [at EXCEPT ![item.child] = k]
        /\ heap' = (heap \ {item}) \cup
                   (IF k = None THEN {} ELSE {[key |-> k, child |-> item.child]})

\* The call that is under way, and where it is: "push" visits the children,
\* "skip" and "clear" are the loops that drop further versions of a key.
CallState ==
    [pc : {"ready", "push", "skip", "take", "clear", "end"},
     op : {"none", "seek", "next"}, target : Nat, left : SUBSET Child]
Ready == [pc |-> "ready", op |-> "none", target |-> 0, left |-> {}]
-----------------------------------------------------------------------------
\* The constructor is given children at their first entries; it pushes them and
\* goes on to FindMin, as Seek does.
Init ==
    /\ content \in [Child -> SUBSET Key]
    /\ at \in [Child -> Key \cup {None}]
    /\ \A c \in Child : FirstFrom(c, at[c], 0)
    /\ heap = {}
    /\ current = [key |-> None, child |-> 0]
    /\ valid = FALSE
    /\ call = [pc |-> "push", op |-> "seek", target |-> 0, left |-> Child]

\* Seek empties the heap first.
Seek(t) ==
    /\ call.pc = "ready"
    /\ heap' = {}
    /\ call' = [pc |-> "push", op |-> "seek", target |-> t, left |-> Child]
    /\ UNCHANGED <<content, at, current, valid>>

\* (Mutant: a child is pushed without asking whether it is valid.)
PushChildAlways ==
    /\ call.pc = "push"
    /\ call.left # {}
    /\ \E c \in call.left, k \in Key \cup {None} :
          /\ \A d \in call.left : c <= d
          /\ FirstFrom(c, k, call.target)
          /\ at' = [at EXCEPT ![c] = k]
          /\ heap' = heap \cup {[key |-> k, child |-> c]}
          /\ call' = [call EXCEPT !.left = @ \ {c}]
    /\ UNCHANGED <<content, current, valid>>

\* The loop over the children, one by one: Seek of the child, then push.
PushChild ==
    /\ call.pc = "push"
    /\ call.left # {}
    /\ \E c \in call.left, k \in Key \cup {None} :
          /\ \A d \in call.left : c <= d
          /\ FirstFrom(c, k, call.target)
          /\ at' = [at EXCEPT ![c] = k]
          /\ heap' = heap \cup (IF k = None THEN {} ELSE {[key |-> k, child |-> c]})
          /\ call' = [call EXCEPT !.left = @ \ {c}]
    /\ UNCHANGED <<content, current, valid>>

PushDone ==
    /\ call.pc = "push"
    /\ call.left = {}
    /\ call' = [call EXCEPT !.pc = "take"]
    /\ UNCHANGED <<content, at, heap, current, valid>>

\* Next: an invalid merge, or one whose heap has run empty, is at its end.
CallNext ==
    /\ call.pc = "ready"
    /\ IF ~valid \/ heap = {}
       THEN call' = [call EXCEPT !.pc = "end", !.op = "next"]
       ELSE call' = [call EXCEPT !.pc = "skip", !.op = "next"]
    /\ UNCHANGED <<content, at, heap, current, valid>>

End ==
    /\ call.pc = "end"
    /\ valid' = FALSE
    /\ call' = Ready
    /\ UNCHANGED <<content, at, heap, current>>

\* Next drops entries of the key that was shown last.
Skip ==
    /\ call.pc = "skip"
    /\ IF \E item \in heap : IsTop(item) /\ item.key = current.key
       THEN /\ \E item \in heap : IsTop(item) /\ PopAndAdvance(item)
            /\ UNCHANGED call
       ELSE /\ call' = [call EXCEPT !.pc = "take"]
            /\ UNCHANGED <<at, heap>>
    /\ UNCHANGED <<content, current, valid>>

\* FindMin: the top becomes the current entry and its child moves on.
Take ==
    /\ call.pc = "take"
    /\ IF heap = {}
       THEN /\ valid' = FALSE
            /\ call' = Ready
            /\ UNCHANGED <<at, heap, current>>
       ELSE /\ \E item \in heap :
                  /\ IsTop(item)
                  /\ current' = item
                  /\ PopAndAdvance(item)
            /\ valid' = TRUE
            /\ call' = [call EXCEPT !.pc = "clear"]
    /\ UNCHANGED content

\* (Mutant: FindMin without the loop, as if Next alone dropped old versions.)
ClearNothing ==
    /\ call.pc = "clear"
    /\ call' = Ready
    /\ UNCHANGED <<content, at, heap, current, valid>>

\* FindMin: older versions of the key are dropped from the heap.
Clear ==
    /\ call.pc = "clear"
    /\ IF \E item \in heap : IsTop(item) /\ item.key = current.key
       THEN /\ \E item \in heap : IsTop(item) /\ PopAndAdvance(item)
            /\ UNCHANGED call
       ELSE /\ call' = Ready
            /\ UNCHANGED <<at, heap>>
    /\ UNCHANGED <<content, current, valid>>

MergeStep == PushChild \/ PushDone \/ End \/ Skip \/ Take \/ Clear

Next ==
    \/ CallNext
    \/ \E t \in Key : Seek(t)
    \/ MergeStep

Spec == Init /\ [][Next]_vars

\* A call that has begun goes on; the caller need not call again.
FairSpec == Spec /\ WF_vars(MergeStep)
-----------------------------------------------------------------------------
(* Properties.                                                             *)

\* Every variable keeps its type.
TypeOK ==
    /\ content \in [Child -> SUBSET Key]
    /\ at \in [Child -> Key \cup {None}]
    /\ heap \subseteq Item
    /\ current \in [key : Key \cup {None}, child : Child \cup {0}]
    /\ valid \in BOOLEAN
    /\ call \in CallState

\* The heap mirrors the children: outside a Seek it holds the entry each valid
\* child is at and nothing else (HeapItem is a copy, taken at the push).
HeapMirrors ==
    heap = {item \in Item : /\ item.child \notin call.left
                            /\ item.key = at[item.child]}

\* Between two calls every child is ahead of the entry shown, so no older version
\* of its key can come out later, and no child has passed a key not shown yet.
ChildrenAhead ==
    (call.pc = "ready" /\ valid) =>
        \A c \in Child : FirstFrom(c, at[c], current.key + 1)

\* The merge implements an ordered stream over the newest versions of all keys:
\* each key once, in order, from the child with the highest sequence, Next and
\* Seek answered for what they were called for, and answered in the end.
NewestVersion(k) ==
    LET holders == {c \in Child : k \in content[c]}
    IN  IF holders = {} THEN 0
        ELSE CHOOSE c \in holders : \A d \in holders : d <= c

Stream == INSTANCE OrderedStream WITH
    table <- [k \in Key |-> NewestVersion(k)],
    asked <- IF call.pc \in {"ready", "clear"} THEN [op |-> "none", target |-> 0]
             ELSE [op |-> call.op, target |-> call.target],
    shown <- [key |-> IF valid THEN current.key ELSE None,
              version |-> IF valid THEN current.child ELSE 0]

IsOrderedStream == Stream!StreamSpec
=============================================================================
