---------------------------- MODULE MCIdempotency ----------------------------
(* Three requests share a key, one of them with another body; a fourth has a *)
(* key of its own and competes for the single slot of the store.             *)
EXTENDS Idempotency, TLC

CONSTANTS r1, r2, r3, r4, k1, k2, p1, p2

MCKeyOf == r1 :> k1 @@ r2 :> k1 @@ r3 :> k1 @@ r4 :> k2
MCPrintOf == r1 :> p1 @@ r2 :> p1 @@ r3 :> p2 @@ r4 :> p1
=============================================================================
