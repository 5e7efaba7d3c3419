-------------------------- MODULE MCRedisStreamQueue --------------------------
(***************************************************************************)
(* Small instances of RedisStreamQueue: two processes, the first of which  *)
(* has one request.                                                        *)
(***************************************************************************)
EXTENDS RedisStreamQueue, TLC

CONSTANTS n1, n2, t1, t2, t3

Homes == [t \in Task |-> IF t = t1 THEN n1 ELSE n2]

=============================================================================
