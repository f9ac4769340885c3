------------------------ MODULE MCAsyncQueryManager ------------------------
(* AsyncQueryManager on small instances. *)
EXTENDS AsyncQueryManager, TLC

CONSTANTS c1, c2, j1, j2, j3

TwoChannels == [j \in Jobs |-> IF j = j3 THEN c2 ELSE c1]

(* A bound on the clock. *)
ClockBound == now <= 2

(* Jobs of the same channel are interchangeable. *)
Perms == Permutations({j1, j2})
=============================================================================
