----------------------- MODULE MergingIteratorProofs -----------------------
(***************************************************************************)
(* The merge of any number of iterators over any keys: the heap mirrors    *)
(* the children, no child is left behind the entry shown, and the safety   *)
(* part of the refinement: what the merge shows is what an ordered stream  *)
(* over the newest versions shows.                                         *)
(***************************************************************************)
EXTENDS MergingIterator, TLAPS, Extremes

\* Where the thread can be, by the call it is in: a local variable a call does not
\* use has its initial value, and no call is left half way with nothing to do.
Placed ==
    /\ call.pc = "ready" => call = Ready
    /\ call.pc # "push" => call.left = {}
    /\ call.pc = "push" => call.op = "seek"
    /\ call.pc \in {"skip", "end"} => call.op = "next"
    /\ call.pc = "take" => call.op \in {"seek", "next"}
    /\ call.op = "next" => call.target = 0
    /\ call.pc = "end" => ~valid \/ heap = {}
    /\ call.pc \in {"skip", "clear"} => valid
    /\ (call.pc = "take" /\ call.op = "next") => valid

\* An entry that is shown was in the heap.
ShownIsItem == valid => current \in Item

\* How far the children are.  Before Next has taken anything they are past the entry
\* shown; a child that Seek has visited is at its first key from the target on; and
\* while older versions are cleared away a child is at the key shown or past it.
PastShown ==
    (valid /\ call.op # "seek" /\ call.pc \in {"ready", "skip", "end", "take"}) =>
        \A c \in Child : FirstFrom(c, at[c], current.key + 1)
AtTarget ==
    (call.op = "seek" /\ call.pc \in {"push", "take"}) =>
        \A c \in Child \ call.left : FirstFrom(c, at[c], call.target)
Clearing ==
    call.pc = "clear" =>
        \A c \in Child : \/ FirstFrom(c, at[c], current.key)
                         \/ FirstFrom(c, at[c], current.key + 1)

Inv == /\ TypeOK /\ HeapMirrors /\ Placed /\ ShownIsItem
       /\ PastShown /\ AtTarget /\ Clearing

-----------------------------------------------------------------------------
(* Facts about the operators.                                              *)

\* The first key from t on is the first key from u on, if it is not below u.
LEMMA FirstFromLater ==
    ASSUME TypeOK, NEW c \in Child, NEW k, NEW t \in Nat, NEW u \in Nat,
           FirstFrom(c, k, t), t <= u, k = None \/ k >= u
    PROVE  FirstFrom(c, k, u)
<1>1. content[c] \subseteq Nat
  BY MergeAssumption DEF TypeOK, MergeAssumption
<1>2. CASE k = None
  <2>1. \A j \in content[c] : j < t
    BY <1>2 DEF FirstFrom
  <2>2. \A j \in content[c] : j < u
    BY <1>1, <2>1
  <2> QED BY <1>2, <2>2 DEF FirstFrom
<1>3. CASE k # None
  <2>1. /\ k \in content[c] /\ k >= t
        /\ \A j \in content[c] : j >= t => k <= j
    BY <1>3 DEF FirstFrom
  <2>2. \A j \in content[c] : j >= u => k <= j
    BY <1>1, <2>1
  <2> QED BY <1>3, <2>1, <2>2 DEF FirstFrom
<1> QED BY <1>2, <1>3

\* The entry of a child that is in the heap, when no Seek is under way.
LEMMA ItemOfChild ==
    ASSUME TypeOK, HeapMirrors, call.left = {}, NEW c \in Child, at[c] # None
    PROVE  [key |-> at[c], child |-> c] \in heap
<1>1. [key |-> at[c], child |-> c] \in Item
  BY DEF TypeOK, Item
<1> QED BY <1>1 DEF HeapMirrors

\* An entry of the heap: its child is at its key, and has that key.
LEMMA ChildOfItem ==
    ASSUME TypeOK, HeapMirrors, NEW item \in heap
    PROVE  /\ item \in Item /\ item.key \in Key /\ item.child \in Child
           /\ item.key \in Nat /\ item.key # None
           /\ at[item.child] = item.key
           /\ item = [key |-> item.key, child |-> item.child]
<1>1. item \in Item /\ item.key = at[item.child]
  BY DEF HeapMirrors
<1> QED BY <1>1, MergeAssumption DEF Item, MergeAssumption

\* If a key is in the heap and none below it, some entry of that key is the top.
LEMMA TopExists ==
    ASSUME TypeOK, HeapMirrors, NEW least \in heap,
           \A other \in heap : least.key <= other.key
    PROVE  \E item \in heap : IsTop(item) /\ item.key = least.key
<1> DEFINE Holders == {c \in Child : [key |-> least.key, child |-> c] \in heap}
<1>1. Holders \in SUBSET Nat /\ Holders # {} /\ IsFiniteSet(Holders)
  <2>1. Holders \subseteq Child
    OBVIOUS
  <2>2. least.child \in Holders
    BY ChildOfItem
  <2> HIDE DEF Holders
  <2> QED BY <2>1, <2>2, FS_Subset, MergeAssumption DEF MergeAssumption
<1>2. PICK m \in Holders : \A c \in Holders : c <= m
  <2> HIDE DEF Holders
  <2> QED BY <1>1, FiniteGreatest
<1> DEFINE top == [key |-> least.key, child |-> m]
<1>3. top \in heap /\ top.key = least.key /\ top.child = m /\ m \in Nat
  BY <1>1
<1>4. ASSUME NEW other \in heap PROVE HeapBefore(top, other)
  <2>1. other = [key |-> other.key, child |-> other.child]
        /\ other.child \in Child /\ other.key \in Nat
    BY ChildOfItem
  <2>2. least.key \in Nat /\ least.key <= other.key
    BY ChildOfItem
  <2>3. CASE other.key = least.key
    <3>1. other.child \in Holders
      BY <2>1, <2>3
    <3>2. other.child <= m /\ other.child \in Nat
      BY <1>1, <1>2, <3>1
    <3> QED BY <1>3, <2>3, <3>2 DEF HeapBefore
  <2>4. CASE other.key # least.key
    BY <1>3, <2>1, <2>2, <2>4 DEF HeapBefore
  <2> QED BY <2>3, <2>4
<1>5. IsTop(top)
  BY <1>3, <1>4 DEF IsTop
<1> QED BY <1>3, <1>5

\* Popping the top and pushing its child's next entry leaves the heap a mirror of the
\* children; the child has gone on to its first key behind the one popped.
LEMMA AdvanceMirrors ==
    ASSUME TypeOK, HeapMirrors, call.left = {}, NEW item \in heap,
           PopAndAdvance(item), content' = content
    PROVE  /\ at' \in [Child -> Key \cup {None}]
           /\ heap' = {i \in Item : i.key = at'[i.child]}
           /\ FirstFrom(item.child, at[item.child], item.key + 1)'
           /\ \A c \in Child \ {item.child} : at'[c] = at[c]
<1>1. /\ item.key \in Nat /\ item.child \in Child /\ at[item.child] = item.key
      /\ item = [key |-> item.key, child |-> item.child]
  BY ChildOfItem
<1>2. PICK k \in Key \cup {None} :
        /\ FirstFrom(item.child, k, item.key + 1)
        /\ at' = [at EXCEPT ![item.child] = k]
        /\ heap' = (heap \ {item}) \cup
                   (IF k = None THEN {} ELSE {[key |-> k, child |-> item.child]})
  BY <1>1 DEF PopAndAdvance
<1>3. at' \in [Child -> Key \cup {None}] /\ at'[item.child] = k
  BY <1>1, <1>2 DEF TypeOK
<1>4. \A c \in Child \ {item.child} : at'[c] = at[c]
  BY <1>2 DEF TypeOK
<1>5. FirstFrom(item.child, at[item.child], item.key + 1)'
  BY <1>2, <1>3 DEF FirstFrom
<1>6. heap = {i \in Item : i.key = at[i.child]}
  BY DEF HeapMirrors
<1>7. ASSUME NEW i \in Item PROVE i \in heap' <=> i.key = at'[i.child]
  <2>1. i.child \in Child /\ i.key \in Key /\ i = [key |-> i.key, child |-> i.child]
    BY DEF Item
  <2>2. CASE i.child = item.child
    <3>1. i \in heap => i = item
      BY <1>1, <1>6, <2>1, <2>2
    <3>2. i \in heap' <=> k # None /\ i = [key |-> k, child |-> item.child]
      BY <1>2, <3>1
    <3>3. i.key # None
      BY <2>1, MergeAssumption DEF MergeAssumption
    <3> QED BY <1>3, <2>1, <2>2, <3>2, <3>3
  <2>3. CASE i.child # item.child
    <3>1. i \in heap' <=> i \in heap
      BY <1>1, <1>2, <2>1, <2>3
    <3> QED BY <1>4, <1>6, <2>1, <2>3, <3>1
  <2> QED BY <2>2, <2>3
<1>8. heap' \subseteq Item
  <2>1. heap \subseteq Item
    BY <1>6
  <2>2. k # None => [key |-> k, child |-> item.child] \in Item
    BY <1>1, <1>2 DEF Item
  <2> QED BY <1>2, <2>1, <2>2
<1> QED BY <1>3, <1>4, <1>5, <1>7, <1>8

\* When every child is at its first key from t on, the top of the heap is the first key
\* from t on of all children, from the newest of those that have it.
LEMMA TopIsFirst ==
    ASSUME TypeOK, HeapMirrors, call.left = {}, NEW t \in Nat,
           \A c \in Child : FirstFrom(c, at[c], t), NEW item \in heap, IsTop(item)
    PROVE  /\ item.key >= t /\ item.key \in content[item.child]
           /\ \A c \in Child : FirstFrom(c, at[c], item.key)
           /\ \A c \in Child : \A j \in content[c] : j >= t => item.key <= j
           /\ \A c \in Child : item.key \in content[c] => c <= item.child
<1>1. /\ item.child \in Child /\ item.key \in Nat /\ item.key # None
      /\ at[item.child] = item.key
  BY ChildOfItem
<1>2. item.key >= t /\ item.key \in content[item.child]
  BY <1>1 DEF FirstFrom
<1>3. ASSUME NEW c \in Child, at[c] # None
      PROVE  /\ at[c] \in Nat /\ item.key <= at[c]
             /\ at[c] = item.key => c <= item.child
  <2>1. [key |-> at[c], child |-> c] \in heap
    BY <1>3, ItemOfChild
  <2>2. HeapBefore(item, [key |-> at[c], child |-> c])
    BY <2>1 DEF IsTop
  <2>3. at[c] \in Nat /\ c \in Nat /\ item.child \in Nat
    BY <1>1, <1>3, MergeAssumption DEF TypeOK, MergeAssumption
  <2> QED BY <1>1, <2>2, <2>3 DEF HeapBefore
<1>4. \A c \in Child : content[c] \subseteq Nat
  BY MergeAssumption DEF TypeOK, MergeAssumption
<1>5. ASSUME NEW c \in Child PROVE FirstFrom(c, at[c], item.key)
  <2>1. at[c] = None \/ at[c] >= item.key
    BY <1>1, <1>3
  <2> QED BY <1>1, <1>2, <2>1, FirstFromLater
<1>6. ASSUME NEW c \in Child, NEW j \in content[c], j >= t
      PROVE  at[c] # None /\ at[c] \in Nat /\ at[c] <= j
  <2>1. FirstFrom(c, at[c], t) /\ j \in Nat
    BY <1>4
  <2>2. at[c] # None
    BY <1>6, <2>1 DEF FirstFrom
  <2> QED BY <1>3, <1>6, <2>1, <2>2 DEF FirstFrom
<1>7. ASSUME NEW c \in Child, NEW j \in content[c], j >= t PROVE item.key <= j
  <2>1. at[c] \in Nat /\ at[c] <= j /\ item.key <= at[c] /\ j \in Nat
    BY <1>3, <1>4, <1>6, <1>7
  <2> QED BY <1>1, <2>1
<1>8. ASSUME NEW c \in Child, item.key \in content[c] PROVE c <= item.child
  <2>1. at[c] # None /\ at[c] \in Nat /\ at[c] <= item.key /\ item.key <= at[c]
    BY <1>1, <1>2, <1>3, <1>6, <1>8
  <2> QED BY <1>1, <1>3, <2>1
<1> QED BY <1>2, <1>5, <1>7, <1>8

\* When every child is at its first key from t on and the heap is empty, no child has
\* a key from t on.
LEMMA EmptyHeapIsEnd ==
    ASSUME TypeOK, HeapMirrors, call.left = {}, heap = {}, NEW t,
           \A c \in Child : FirstFrom(c, at[c], t)
    PROVE  \A c \in Child : \A j \in content[c] : j < t
<1>1. ASSUME NEW c \in Child PROVE at[c] = None
  BY ItemOfChild
<1> QED BY <1>1 DEF FirstFrom

\* The loop of Next finds nothing to drop: no child is at the key shown last.
LEMMA NothingToSkip ==
    ASSUME Inv, call.pc = "skip", NEW item \in heap
    PROVE  item.key # current.key
<1>1. /\ TypeOK /\ HeapMirrors /\ valid /\ current.key \in Nat
      /\ FirstFrom(item.child, at[item.child], current.key + 1)
  BY ChildOfItem, MergeAssumption
     DEF Inv, Placed, PastShown, ShownIsItem, Item, MergeAssumption
<1>2. item.key = at[item.child] /\ item.key \in Nat /\ item.key # None
  BY <1>1, ChildOfItem
<1> QED BY <1>1, <1>2 DEF FirstFrom

\* Where a "take" starts from.
From == IF call.op = "seek" THEN call.target ELSE current.key + 1

\* A "take" finds every child at its first key from there on.
LEMMA TakeStart ==
    ASSUME Inv, call.pc = "take"
    PROVE  /\ call.left = {} /\ From \in Nat
           /\ \A c \in Child : FirstFrom(c, at[c], From)
<1>1. TypeOK /\ call.left = {} /\ call.op \in {"seek", "next"}
  BY DEF Inv, Placed
<1>2. CASE call.op = "seek"
  BY <1>1, <1>2 DEF Inv, AtTarget, From, TypeOK, CallState
<1>3. CASE call.op = "next"
  <2>1. valid /\ current.key \in Nat
    BY <1>3, MergeAssumption DEF Inv, Placed, ShownIsItem, Item, MergeAssumption
  <2> QED BY <1>1, <1>3, <2>1 DEF Inv, PastShown, From
<1> QED BY <1>1, <1>2, <1>3

-----------------------------------------------------------------------------
(* The inductive invariant, action by action.                              *)

\* The children are handed over at their first entries, and nothing is shown.
LEMMA InitInv == Init => Inv
<1> SUFFICES ASSUME Init PROVE Inv
  OBVIOUS
<1>1. TypeOK
  BY DEF Init, TypeOK, Item, CallState
<1>2. HeapMirrors
  BY DEF Init, HeapMirrors, Item
<1> QED BY <1>1, <1>2
       DEF Init, Inv, Placed, ShownIsItem, PastShown, AtTarget, Clearing

\* Seek, and the step of its loop that visits one child.
LEMMA SeekInv == ASSUME Inv, NEW t \in Key, Seek(t) PROVE Inv'
<1>1. TypeOK'
  BY MergeAssumption DEF Inv, TypeOK, Seek, CallState, MergeAssumption
<1>2. HeapMirrors'
  BY DEF Seek, HeapMirrors, Item
<1>3. Placed' /\ ShownIsItem' /\ PastShown' /\ AtTarget' /\ Clearing'
  BY DEF Inv, Seek, Placed, ShownIsItem, PastShown, AtTarget, Clearing
<1> QED BY <1>1, <1>2, <1>3 DEF Inv

\* Positioning one child and pushing it keeps the invariant.
LEMMA PushInv == ASSUME Inv, PushChild PROVE Inv'
<1>1. PICK c \in call.left, k \in Key \cup {None} :
          /\ FirstFrom(c, k, call.target)
          /\ at' = [at EXCEPT ![c] = k]
          /\ heap' = heap \cup (IF k = None THEN {} ELSE {[key |-> k, child |-> c]})
          /\ call' = [call EXCEPT !.left = @ \ {c}]
  BY DEF PushChild
<1>2. /\ TypeOK /\ HeapMirrors /\ Placed /\ call.pc = "push" /\ call.op = "seek"
      /\ c \in Child /\ call \in CallState
      /\ UNCHANGED <<content, current, valid>>
  BY DEF Inv, PushChild, TypeOK, CallState, Placed
<1>3. /\ call'.pc = "push" /\ call'.op = "seek" /\ call'.target = call.target
      /\ call'.left = call.left \ {c} /\ call' \in CallState
  BY <1>1, <1>2 DEF CallState
<1>4. at' \in [Child -> Key \cup {None}] /\ at'[c] = k
      /\ \A d \in Child \ {c} : at'[d] = at[d]
  BY <1>1, <1>2 DEF TypeOK
<1>5. heap' \subseteq Item
  <2>1. k # None => [key |-> k, child |-> c] \in Item
    BY <1>2 DEF Item
  <2> QED BY <1>1, <1>2, <2>1 DEF TypeOK
<1>6. TypeOK'
  BY <1>2, <1>3, <1>4, <1>5 DEF TypeOK
<1>7. ASSUME NEW i \in Item
      PROVE  i \in heap' <=> i.child \notin call'.left /\ i.key = at'[i.child]
  <2>1. /\ i.child \in Child /\ i.key # None
        /\ i = [key |-> i.key, child |-> i.child]
    BY MergeAssumption DEF Item, MergeAssumption
  <2>2. i \in heap <=> i.child \notin call.left /\ i.key = at[i.child]
    BY <1>2 DEF HeapMirrors
  <2>3. CASE i.child = c
    BY <1>1, <1>3, <1>4, <2>1, <2>2, <2>3
  <2>4. CASE i.child # c
    <3>1. i \in heap' <=> i \in heap
      BY <1>1, <2>4
    <3> QED BY <1>3, <1>4, <2>1, <2>2, <2>4, <3>1
  <2> QED BY <2>3, <2>4
<1>8. HeapMirrors'
  BY <1>5, <1>7 DEF HeapMirrors
<1>9. AtTarget'
  <2>1. FirstFrom(c, at[c], call.target)'
    BY <1>1, <1>2, <1>3, <1>4 DEF FirstFrom
  <2>2. ASSUME NEW d \in Child \ call'.left, d # c
        PROVE  FirstFrom(d, at[d], call.target)'
    <3>1. d \in Child \ call.left
      BY <1>3, <2>2
    <3>2. FirstFrom(d, at[d], call.target)
      BY <1>2, <3>1 DEF Inv, AtTarget
    <3> QED BY <1>2, <1>3, <1>4, <2>2, <3>2 DEF FirstFrom
  <2> QED BY <2>1, <2>2 DEF AtTarget
<1>10. Placed' /\ ShownIsItem' /\ PastShown' /\ Clearing'
  BY <1>2, <1>3 DEF Inv, Placed, ShownIsItem, PastShown, Clearing
<1> QED BY <1>6, <1>8, <1>9, <1>10 DEF Inv

\* The steps that leave the children and the heap alone.
LEMMA QuietInv == ASSUME Inv, PushDone \/ CallNext \/ End PROVE Inv'
<1>1. UNCHANGED <<content, at, heap, current>>
  BY DEF PushDone, CallNext, End
<1>3. TypeOK /\ call \in CallState
  BY DEF Inv, TypeOK
<1>2. TypeOK'
  <2>1. call' \in CallState /\ valid' \in BOOLEAN
    <3>1. CASE PushDone \/ CallNext
      BY <1>3, <3>1 DEF TypeOK, CallState, PushDone, CallNext
    <3>2. CASE End
      BY <3>2 DEF End, Ready, CallState
    <3> QED BY <3>1, <3>2
  <2> QED BY <1>1, <1>3, <2>1 DEF TypeOK
<1>4. CASE PushDone
  BY <1>1, <1>2, <1>3, <1>4 DEF CallState, Inv, HeapMirrors, Placed, ShownIsItem, PastShown,
     AtTarget, Clearing, PushDone, FirstFrom
<1>5. CASE CallNext
  <2>1. call = Ready /\ (call' = [call EXCEPT !.pc = "end", !.op = "next"]
                         \/ call' = [call EXCEPT !.pc = "skip", !.op = "next"])
    BY <1>5 DEF CallNext, Inv, Placed
  <2>2. /\ call'.pc \in {"end", "skip"} /\ call'.op = "next"
        /\ call'.target = 0 /\ call'.left = {}
    BY <2>1 DEF Ready
  <2>3. HeapMirrors' /\ ShownIsItem' /\ AtTarget' /\ Clearing'
    BY <1>1, <1>5, <2>1, <2>2
       DEF Inv, HeapMirrors, ShownIsItem, AtTarget, Clearing, CallNext, Ready
  <2>4. PastShown'
    BY <1>1, <1>5, <2>1, <2>2 DEF Inv, PastShown, FirstFrom, CallNext, Ready
  <2>5. Placed'
    BY <1>1, <1>5, <2>1, <2>2 DEF Inv, Placed, CallNext, Ready
  <2> QED BY <1>2, <2>3, <2>4, <2>5 DEF Inv
<1>6. CASE End
  BY <1>1, <1>2, <1>3, <1>6 DEF Inv, HeapMirrors, Placed, ShownIsItem, PastShown,
     AtTarget, Clearing, End, Ready
<1> QED BY <1>4, <1>5, <1>6

\* Next never drops anything in its loop; it goes on to FindMin.
LEMMA SkipInv == ASSUME Inv, Skip PROVE Inv'
<1>1. /\ UNCHANGED <<content, at, heap, current, valid>>
      /\ call' = [call EXCEPT !.pc = "take"] /\ call.pc = "skip"
  BY NothingToSkip DEF Skip
<1>2. call \in CallState
  BY DEF Inv, TypeOK
<1>3. call'.pc = "take" /\ call'.op = call.op /\ call'.target = call.target
      /\ call'.left = call.left /\ call' \in CallState
  BY <1>1, <1>2 DEF CallState
<1> QED BY <1>1, <1>3 DEF Inv, TypeOK, HeapMirrors, Placed, ShownIsItem, PastShown,
       AtTarget, Clearing, FirstFrom

\* FindMin takes the top, and every child is then at its key or past it.
LEMMA TakeInv == ASSUME Inv, Take PROVE Inv'
<1>1. /\ TypeOK /\ HeapMirrors /\ call.pc = "take" /\ call.left = {} /\ From \in Nat
      /\ \A c \in Child : FirstFrom(c, at[c], From)
      /\ content' = content /\ call \in CallState
  BY TakeStart DEF Inv, Take, TypeOK
<1>2. CASE heap = {}
  <2>1. UNCHANGED <<content, at, heap, current>> /\ valid' = FALSE /\ call' = Ready
    BY <1>2 DEF Take
  <2>2. TypeOK' /\ HeapMirrors'
    BY <1>1, <2>1 DEF TypeOK, HeapMirrors, Ready, CallState
  <2> QED BY <2>1, <2>2
          DEF Inv, Placed, ShownIsItem, PastShown, AtTarget, Clearing, Ready
<1>3. CASE heap # {}
  <2>1. PICK item \in heap : IsTop(item) /\ current' = item /\ PopAndAdvance(item)
    BY <1>3 DEF Take
  <2>2. /\ valid' = TRUE /\ call' = [call EXCEPT !.pc = "clear"]
        /\ call'.pc = "clear" /\ call'.left = {} /\ call' \in CallState
        /\ call'.op = call.op /\ call'.target = call.target
    BY <1>1, <1>3 DEF Take, CallState
  <2>3. /\ at' \in [Child -> Key \cup {None}]
        /\ heap' = {i \in Item : i.key = at'[i.child]}
        /\ FirstFrom(item.child, at[item.child], item.key + 1)'
        /\ \A c \in Child \ {item.child} : at'[c] = at[c]
    BY <1>1, <2>1, AdvanceMirrors
  <2>4. \A c \in Child : FirstFrom(c, at[c], item.key)
    BY <1>1, <2>1, TopIsFirst
  <2>5. item \in Item
    BY <1>1, ChildOfItem
  <2>6. TypeOK'
    BY <1>1, <2>1, <2>2, <2>3, <2>5 DEF TypeOK, Item
  <2>7. HeapMirrors'
    BY <2>2, <2>3 DEF HeapMirrors
  <2>8. Clearing'
    <3>1. ASSUME NEW c \in Child
          PROVE  FirstFrom(c, at[c], item.key)' \/ FirstFrom(c, at[c], item.key + 1)'
      <4>1. CASE c = item.child
        BY <2>3, <4>1
      <4>2. CASE c # item.child
        BY <1>1, <2>3, <2>4, <4>2 DEF FirstFrom
      <4> QED BY <4>1, <4>2
    <3> QED BY <2>1, <3>1 DEF Clearing
  <2>9. Placed' /\ ShownIsItem' /\ PastShown' /\ AtTarget'
    BY <2>1, <2>2, <2>5 DEF Inv, Placed, ShownIsItem, PastShown, AtTarget
  <2> QED BY <2>6, <2>7, <2>8, <2>9 DEF Inv
<1> QED BY <1>2, <1>3

\* The loop of FindMin ends when no child is at the key taken: all are past it.
LEMMA ClearInv == ASSUME Inv, Clear PROVE Inv'
<1>1. /\ TypeOK /\ HeapMirrors /\ call.pc = "clear" /\ call.left = {} /\ valid
      /\ current.key \in Nat /\ UNCHANGED <<content, current, valid>>
      /\ \A c \in Child : \/ FirstFrom(c, at[c], current.key)
                          \/ FirstFrom(c, at[c], current.key + 1)
  BY MergeAssumption
     DEF Inv, Clear, Placed, Clearing, ShownIsItem, Item, MergeAssumption
<1>2. CASE \E item \in heap : IsTop(item) /\ item.key = current.key
  <2>1. PICK item \in heap : IsTop(item) /\ PopAndAdvance(item)
    BY <1>2 DEF Clear
  <2>2. UNCHANGED call
    BY <1>2 DEF Clear
  <2>3. item.key = current.key
    <3>1. PICK other \in heap : IsTop(other) /\ other.key = current.key
      BY <1>2
    <3>2. HeapBefore(item, other) /\ HeapBefore(other, item)
      BY <2>1, <3>1 DEF IsTop
    <3>3. item.key \in Nat /\ other.key \in Nat
      BY <1>1, ChildOfItem
    <3> QED BY <1>1, <3>1, <3>2, <3>3 DEF HeapBefore
  <2>4. /\ at' \in [Child -> Key \cup {None}]
        /\ heap' = {i \in Item : i.key = at'[i.child]}
        /\ FirstFrom(item.child, at[item.child], item.key + 1)'
        /\ \A c \in Child \ {item.child} : at'[c] = at[c]
    BY <1>1, <2>1, AdvanceMirrors
  <2>5. TypeOK' /\ HeapMirrors'
    BY <1>1, <2>2, <2>4 DEF TypeOK, HeapMirrors
  <2>6. Clearing'
    <3>1. ASSUME NEW c \in Child
          PROVE  \/ FirstFrom(c, at[c], current.key)'
                 \/ FirstFrom(c, at[c], current.key + 1)'
      <4>1. CASE c = item.child
        BY <1>1, <2>3, <2>4, <4>1 DEF FirstFrom
      <4>2. CASE c # item.child
        BY <1>1, <2>4, <4>2 DEF FirstFrom
      <4> QED BY <4>1, <4>2
    <3> QED BY <3>1 DEF Clearing
  <2> QED BY <1>1, <2>2, <2>5, <2>6 DEF Inv, Placed, ShownIsItem, PastShown, AtTarget
<1>3. CASE ~\E item \in heap : IsTop(item) /\ item.key = current.key
  <2>1. call' = Ready /\ UNCHANGED <<at, heap>>
    BY <1>3 DEF Clear
  <2>2. ASSUME NEW c \in Child PROVE FirstFrom(c, at[c], current.key + 1)
    <3>1. at[c] # current.key
      <4> SUFFICES ASSUME at[c] = current.key PROVE FALSE
        OBVIOUS
      <4> DEFINE least == [key |-> at[c], child |-> c]
      <4>1. least \in heap
        BY <1>1, ItemOfChild, MergeAssumption DEF MergeAssumption
      <4>2. ASSUME NEW other \in heap PROVE least.key <= other.key
        <5>1. other.child \in Child /\ at[other.child] = other.key /\ other.key # None
              /\ other.key \in Nat
          BY <1>1, ChildOfItem
        <5>2. other.key >= current.key
          BY <1>1, <5>1 DEF FirstFrom
        <5> QED BY <1>1, <5>1, <5>2
      <4>3. \E item \in heap : IsTop(item) /\ item.key = least.key
        <5> HIDE DEF least
        <5> QED BY <1>1, <4>1, <4>2, TopExists
      <4> QED BY <1>3, <4>3
    <3>2. CASE FirstFrom(c, at[c], current.key)
      <4>1. at[c] = None \/ (at[c] \in Nat /\ at[c] >= current.key)
        BY <1>1, <3>2, MergeAssumption DEF FirstFrom, TypeOK, MergeAssumption
      <4>2. at[c] = None \/ at[c] >= current.key + 1
        BY <1>1, <3>1, <4>1
      <4>3. current.key + 1 \in Nat /\ current.key <= current.key + 1
        BY <1>1
      <4> QED BY <1>1, <3>2, <4>2, <4>3, FirstFromLater
    <3> QED BY <1>1, <3>2
  <2>3. TypeOK' /\ HeapMirrors'
    BY <1>1, <2>1 DEF TypeOK, HeapMirrors, Ready, CallState
  <2>4. PastShown'
    BY <1>1, <2>1, <2>2 DEF PastShown, FirstFrom
  <2> QED BY <1>1, <2>1, <2>3, <2>4
          DEF Inv, Placed, ShownIsItem, AtTarget, Clearing, Ready
<1> QED BY <1>2, <1>3

\* Every step keeps the invariant.
LEMMA NextInv == Inv /\ [Next]_vars => Inv'
<1> SUFFICES ASSUME Inv, [Next]_vars PROVE Inv'
  OBVIOUS
<1>1. CASE UNCHANGED vars
  BY <1>1 DEF vars, Inv, TypeOK, HeapMirrors, Placed, ShownIsItem, PastShown, AtTarget,
              Clearing, FirstFrom
<1>2. CASE Next
  BY <1>2, SeekInv, PushInv, QuietInv, SkipInv, TakeInv, ClearInv DEF Next, MergeStep
<1> QED BY <1>1, <1>2

\* The invariant holds throughout.
LEMMA InvHolds == Spec => []Inv
BY InitInv, NextInv, PTL DEF Spec

\* Type correctness of the merge.
THEOREM MergeTyped == Spec => []TypeOK
<1>1. Inv => TypeOK
  BY DEF Inv
<1> QED BY <1>1, InvHolds, PTL

\* The copies in the heap are never out of date with the children.
THEOREM HeapNeverStale == Spec => []HeapMirrors
<1>1. Inv => HeapMirrors
  BY DEF Inv
<1> QED BY <1>1, InvHolds, PTL

\* Between two calls no child is behind the entry shown and none has skipped a key.
THEOREM ChildrenStayAhead == Spec => []ChildrenAhead
<1>1. Inv => ChildrenAhead
  BY DEF Inv, ChildrenAhead, PastShown, Placed, Ready
<1> QED BY <1>1, InvHolds, PTL
-----------------------------------------------------------------------------
(* The refinement: what the steps of the merge are steps of the stream.    *)

\* The stream's variables, in terms of the merge's.
Table == [k \in Key |-> NewestVersion(k)]
Asked == IF call.pc \in {"ready", "clear"} THEN [op |-> "none", target |-> 0]
         ELSE [op |-> call.op, target |-> call.target]
Shown == [key |-> IF valid THEN current.key ELSE None,
          version |-> IF valid THEN current.child ELSE 0]

\* The newest version is that of the holder with the highest sequence, if any.
LEMMA NewestIsHighest ==
    ASSUME TypeOK, NEW k \in Key
    PROVE  /\ NewestVersion(k) \in Nat
           /\ NewestVersion(k) # 0 <=> \E c \in Child : k \in content[c]
           /\ \A c \in Child : (k \in content[c] /\ \A d \in Child : k \in content[d] => d <= c)
                 => NewestVersion(k) = c
<1> DEFINE Holders == {c \in Child : k \in content[c]}
<1>1. Holders \in SUBSET Nat /\ IsFiniteSet(Holders) /\ Holders \subseteq Child
  BY FS_Subset, MergeAssumption DEF MergeAssumption
<1>2. CASE Holders = {}
  BY <1>2 DEF NewestVersion
<1>3. CASE Holders # {}
  <2>1. PICK m \in Holders : \A d \in Holders : d <= m
    <3> HIDE DEF Holders
    <3> QED BY <1>1, <1>3, FiniteGreatest
  <2>2. NewestVersion(k) \in Holders /\ \A d \in Holders : d <= NewestVersion(k)
    BY <1>3, <2>1 DEF NewestVersion
  <2>3. NewestVersion(k) \in Nat /\ NewestVersion(k) # 0
    BY <1>1, <2>2, MergeAssumption DEF MergeAssumption
  <2>4. ASSUME NEW c \in Child, k \in content[c],
               \A d \in Child : k \in content[d] => d <= c
        PROVE  NewestVersion(k) = c
    <3>1. c \in Holders /\ c \in Nat /\ c <= NewestVersion(k) /\ NewestVersion(k) <= c
      BY <1>1, <2>2, <2>4
    <3> QED BY <2>3, <3>1
  <2> QED BY <1>3, <2>3, <2>4
<1> QED BY <1>2, <1>3

\* The initial states are the stream's.
LEMMA InitStream == Init => Stream!StreamInit
<1> SUFFICES ASSUME Init PROVE Stream!StreamInit
  OBVIOUS
<1>1. TypeOK
  BY InitInv DEF Inv
<1>2. Table \in [Key -> Nat]
  BY <1>1, NewestIsHighest DEF Table
<1>3. Asked = [op |-> "seek", target |-> 0] /\ Shown = [key |-> None, version |-> 0]
  BY DEF Init, Asked, Shown
<1> QED BY <1>2, <1>3 DEF Stream!StreamInit, Stream!AtEnd, Table, Asked, Shown

\* A step that leaves the contents alone leaves the table alone.
LEMMA TableSame == content' = content => Table' = Table
BY DEF Table, NewestVersion

\* The caller asks: a call begins, and what is shown stays.
LEMMA CallIsAsk ==
    ASSUME Inv, CallNext \/ \E t \in Key : Seek(t)
    PROVE  Stream!Ask
<1>1. call = Ready
  BY DEF Inv, Placed, CallNext, Seek
<1>2. Asked = Stream!Quiet
  BY <1>1 DEF Asked, Ready, Stream!Quiet
<1>3. Table' = Table /\ Shown' = Shown
  BY TableSame DEF CallNext, Seek, Shown
<1>4. CASE CallNext
  <2>1. Asked' = [op |-> "next", target |-> 0]
    BY <1>1, <1>4 DEF CallNext, Ready, Asked
  <2> QED BY <1>2, <1>3, <2>1 DEF Stream!Ask, Table, Asked, Shown
<1>5. ASSUME NEW t \in Key, Seek(t) PROVE Stream!Ask
  <2>1. Asked' = [op |-> "seek", target |-> t]
    BY <1>5 DEF Seek, Asked
  <2> QED BY <1>2, <1>3, <2>1 DEF Stream!Ask, Table, Asked, Shown
<1> QED BY <1>4, <1>5

\* The steps inside a call change nothing the caller can see.
LEMMA InsideIsStutter ==
    ASSUME Inv, PushChild \/ PushDone \/ Skip \/ Clear
    PROVE  UNCHANGED Stream!streamVars
<1>1. Table' = Table /\ Shown' = Shown
  BY TableSame DEF PushChild, PushDone, Skip, Clear, Shown
<1>2. call \in CallState
  BY DEF Inv, TypeOK
<1>3. Asked' = Asked
  BY <1>2 DEF PushChild, PushDone, Skip, Clear, CallState, Ready, Asked
<1> QED BY <1>1, <1>3 DEF Stream!streamVars, Table, Asked, Shown

\* What FindMin and Next find at the end: no child has a key from t on, nor has the table.
LEMMA EndIsShown ==
    ASSUME TypeOK, HeapMirrors, call.left = {}, heap = {}, NEW t,
           \A c \in Child : FirstFrom(c, at[c], t), valid' = FALSE
    PROVE  Stream!ShowFirstFrom(t)
<1>1. \A c \in Child : \A j \in content[c] : j < t
  BY EmptyHeapIsEnd
<1>2. \A k \in Key : Table[k] # 0 => k < t
  BY <1>1, NewestIsHighest DEF Table
<1>3. Shown' = Stream!AtEnd
  BY DEF Shown, Stream!AtEnd
<1> QED BY <1>2, <1>3 DEF Stream!ShowFirstFrom, Table, Shown

\* An entry that is shown is not the end.
LEMMA ShownIsNotEnd ==
    ASSUME Inv
    PROVE  /\ valid = (Shown # Stream!AtEnd)
           /\ valid => Shown.key = current.key
<1>1. valid \in BOOLEAN /\ (valid => current.key # None)
  BY MergeAssumption DEF Inv, TypeOK, ShownIsItem, Item, MergeAssumption
<1> QED BY <1>1 DEF Shown, Stream!AtEnd

\* Next at the end answers with the end.
LEMMA EndIsAnswer == ASSUME Inv, End PROVE Stream!AnswerNext
<1>1. /\ call.pc = "end" /\ call.op = "next" /\ call.target = 0 /\ call.left = {}
      /\ ~valid \/ heap = {}
      /\ valid' = FALSE /\ call' = Ready /\ UNCHANGED <<content, at, heap, current>>
  BY DEF Inv, Placed, End
<1>2. Asked = [op |-> "next", target |-> 0] /\ Asked' = Stream!Quiet /\ Table' = Table
  BY <1>1, TableSame DEF Asked, Ready, Stream!Quiet
<1>3. CASE ~valid
  <2>1. Shown = Stream!AtEnd /\ Shown' = Stream!AtEnd
    BY <1>1, <1>3 DEF Shown, Stream!AtEnd
  <2> QED BY <1>2, <2>1 DEF Stream!AnswerNext, Table, Asked, Shown
<1>4. CASE valid
  <2>1. Shown # Stream!AtEnd /\ Shown.key = current.key
    BY <1>4, ShownIsNotEnd
  <2>2. Stream!ShowFirstFrom(current.key + 1)
    BY <1>1, <1>4, EndIsShown DEF Inv, PastShown
  <2> QED BY <1>2, <2>1, <2>2 DEF Stream!AnswerNext, Table, Asked, Shown
<1> QED BY <1>1, <1>3, <1>4 DEF Inv, TypeOK

\* What FindMin takes is the first key of the table, and its newest version.
LEMMA TakeShowsFirst ==
    ASSUME Inv, Take
    PROVE  Stream!ShowFirstFrom(From)
<1>1. /\ TypeOK /\ HeapMirrors /\ call.left = {} /\ From \in Nat
      /\ content' = content /\ call.pc = "take"
      /\ \A c \in Child : FirstFrom(c, at[c], From)
  BY TakeStart DEF Inv, Take
<1>2. CASE heap = {}
  <2>1. valid' = FALSE
    BY <1>2 DEF Take
  <2> QED BY <1>1, <1>2, <2>1, EndIsShown
<1>3. CASE heap # {}
  <2>1. PICK item \in heap : IsTop(item) /\ current' = item /\ valid' = TRUE
    BY <1>3 DEF Take
  <2>2. item.child \in Child /\ item.key \in Key
    BY <1>1, ChildOfItem
  <2>3. /\ item.key >= From /\ item.key \in content[item.child]
        /\ \A c \in Child : \A j \in content[c] : j >= From => item.key <= j
        /\ \A c \in Child : item.key \in content[c] => c <= item.child
    BY <1>1, <2>1, TopIsFirst
  <2>4. Table[item.key] # 0 /\ Table[item.key] = item.child
    BY <1>1, <2>2, <2>3, NewestIsHighest DEF Table
  <2>5. \A j \in Key : (Table[j] # 0 /\ j >= From) => item.key <= j
    BY <1>1, <2>3, NewestIsHighest DEF Table
  <2>6. Shown' = [key |-> item.key, version |-> Table[item.key]]
    BY <2>1, <2>4 DEF Shown
  <2> QED BY <2>2, <2>3, <2>4, <2>5, <2>6 DEF Stream!ShowFirstFrom, Table, Shown
<1> QED BY <1>2, <1>3

\* FindMin answers the Seek or the Next it was called for.
LEMMA TakeIsAnswer ==
    ASSUME Inv, Take
    PROVE  Stream!AnswerSeek \/ Stream!AnswerNext
<1>1. /\ call.pc = "take" /\ call.op \in {"seek", "next"}
      /\ call.op = "next" => valid
      /\ content' = content /\ call \in CallState
  BY DEF Inv, Placed, Take, TypeOK
<1>2. Asked = [op |-> call.op, target |-> call.target]
  BY <1>1 DEF Asked
<1>3. Asked' = Stream!Quiet /\ Table' = Table
  <2>1. call'.pc \in {"ready", "clear"}
    BY <1>1 DEF Take, Ready, CallState
  <2> QED BY <1>1, <2>1, TableSame DEF Asked, Stream!Quiet
<1>4. Stream!ShowFirstFrom(From)
  BY TakeShowsFirst
<1>5. CASE call.op = "seek"
  BY <1>2, <1>3, <1>4, <1>5 DEF From, Stream!AnswerSeek, Table, Asked, Shown
<1>6. CASE call.op = "next"
  <2>1. Shown # Stream!AtEnd /\ Shown.key = current.key
    BY <1>1, <1>6, ShownIsNotEnd
  <2> QED BY <1>2, <1>3, <1>4, <1>6, <2>1
          DEF From, Stream!AnswerNext, Table, Asked, Shown
<1> QED BY <1>1, <1>5, <1>6

\* The merge refines the ordered stream: whatever it shows, after any calls, is what a
\* table with one version of each key would show.  (That it answers is for TLC.)
THEOREM MergeIsStream == Spec => Stream!StreamSafe
<1>1. Init => Stream!StreamInit
  BY InitStream
<1>2. Inv /\ [Next]_vars => [Stream!StreamNext]_(Stream!streamVars)
  <2> SUFFICES ASSUME Inv, [Next]_vars
               PROVE  Stream!StreamNext \/ UNCHANGED Stream!streamVars
    OBVIOUS
  <2>1. CASE CallNext \/ \E t \in Key : Seek(t)
    BY <2>1, CallIsAsk DEF Stream!StreamNext
  <2>2. CASE PushChild \/ PushDone \/ Skip \/ Clear
    BY <2>2, InsideIsStutter
  <2>3. CASE End \/ Take
    BY <2>3, EndIsAnswer, TakeIsAnswer DEF Stream!StreamNext
  <2>4. CASE UNCHANGED vars
    BY <2>4, TableSame DEF vars, Stream!streamVars, Table, Asked, Shown
  <2> QED BY <2>1, <2>2, <2>3, <2>4 DEF Next, MergeStep
<1> QED BY <1>1, <1>2, InvHolds, PTL DEF Spec, Stream!StreamSafe
=============================================================================
