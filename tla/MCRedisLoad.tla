---------------------------- MODULE MCRedisLoad ----------------------------
(* Two processes: one with two calls, the other with one.                   *)
EXTENDS RedisLoad, TLC

CONSTANTS p1, p2, c1, c2, c3

MCProcessOf == c1 :> p1 @@ c2 :> p1 @@ c3 :> p2
=============================================================================
