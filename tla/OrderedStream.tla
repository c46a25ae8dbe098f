--------------------------- MODULE OrderedStream ---------------------------
(***************************************************************************)
(* What an iterator promises (class Iterator, src/include/iterator.h),     *)
(* with no children, blocks or heap: it shows, one after the other and in  *)
(* ascending order, the entries of a table that holds one version of each  *)
(* key, and Seek goes to the first key that is not below the target.       *)
(***************************************************************************)
EXTENDS Integers

CONSTANTS
    Key,        \* a set of natural numbers: only the order of keys matters
    None        \* the key of an iterator that is not valid

VARIABLES
    table,      \* table[k]: the version of key k, 0 if there is none
    asked,      \* the call under way: its kind, and the target of a Seek
    shown       \* the entry shown: a key, or None, and its version

streamVars == <<table, asked, shown>>

Quiet == [op |-> "none", target |-> 0]
AtEnd == [key |-> None, version |-> 0]

\* The entry of the first key of the table that is not below t is shown.
ShowFirstFrom(t) ==
    \/ /\ \A k \in Key : table[k] # 0 => k < t
       /\ shown' = AtEnd
    \/ \E k \in Key :
          /\ k >= t /\ table[k] # 0
          /\ \A j \in Key : (table[j] # 0 /\ j >= t) => k <= j
          /\ shown' = [key |-> k, version |-> table[k]]

\* A new iterator has been asked to go to its first entry.
StreamInit ==
    /\ table \in [Key -> Nat]
    /\ asked = [op |-> "seek", target |-> 0]
    /\ shown = AtEnd

\* Valid, entry and the caller's next request.
Ask ==
    /\ asked = Quiet
    /\ \/ asked' = [op |-> "next", target |-> 0]
       \/ \E t \in Key : asked' = [op |-> "seek", target |-> t]
    /\ UNCHANGED <<table, shown>>

AnswerSeek ==
    /\ asked.op = "seek"
    /\ ShowFirstFrom(asked.target)
    /\ asked' = Quiet
    /\ UNCHANGED table

\* Next of an iterator at its end leaves it there.
AnswerNext ==
    /\ asked.op = "next"
    /\ IF shown = AtEnd THEN shown' = AtEnd ELSE ShowFirstFrom(shown.key + 1)
    /\ asked' = Quiet
    /\ UNCHANGED table

StreamNext == Ask \/ AnswerSeek \/ AnswerNext

\* Nothing else is ever shown; and a call is answered.
StreamSafe == StreamInit /\ [][StreamNext]_streamVars
StreamSpec == StreamSafe /\ WF_streamVars(AnswerSeek \/ AnswerNext)
=============================================================================
