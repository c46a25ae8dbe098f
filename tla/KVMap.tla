------------------------------- MODULE KVMap -------------------------------
(***************************************************************************)
(* What a KVEngine promises its callers, with no files, logs or threads: a *)
(* map from keys to the value last put.  A value is named by the number of *)
(* the write that stored it (its stamp); 0 is "no such key".  A stamp is   *)
(* never used twice, so a state in which an old value, or an erased key,   *)
(* comes back is not reachable by any step of this specification.          *)
(***************************************************************************)
EXTENDS Naturals

CONSTANTS Key

VARIABLES
    store,      \* store[k]: stamp of the put that k answers with, 0 if absent
    clock       \* number of writes accepted so far

mapVars == <<store, clock>>

MapInit ==
    /\ store = [k \in Key |-> 0]
    /\ clock = 0

\* put(key, value): the key answers with the new write.
MapPut(k) ==
    /\ clock' = clock + 1
    /\ store' = [store EXCEPT ![k] = clock + 1]

\* erase(key): the key is absent, whether or not it was there.
MapErase(k) ==
    /\ clock' = clock + 1
    /\ store' = [store EXCEPT ![k] = 0]

MapNext == \E k \in Key : MapPut(k) \/ MapErase(k)

MapSpec == MapInit /\ [][MapNext]_mapVars
=============================================================================
