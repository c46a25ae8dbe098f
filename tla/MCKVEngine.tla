----------------------------- MODULE MCKVEngine -----------------------------
(* Small instances of KVEngine for TLC.                                    *)
EXTENDS KVEngineReadInv, TLC

\* Keys are only compared for equality, and so are compaction threads.
KeySymmetry == Permutations(Key)
=============================================================================
