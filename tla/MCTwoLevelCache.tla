-------------------------- MODULE MCTwoLevelCache --------------------------
(* Two callers load, set and delete one key; a third sets another, so that  *)
(* L1, which has room for one entry, evicts.                               *)
EXTENDS TwoLevelCache, TLC

CONSTANTS c1, c2, c3, k1, k2

MCKeyOf == c1 :> k1 @@ c2 :> k1 @@ c3 :> k2
MCUses == c1 :> {"Get", "GetOrSet"} @@ c2 :> {"GetOrSet", "Set", "Delete"} @@ c3 :> {"Set"}
MCShared == {k1}
MCMaxUpdates == k1 :> 1 @@ k2 :> 1
=============================================================================
