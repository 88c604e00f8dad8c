----------------------------- MODULE MCCacheQueue -----------------------------
(* CacheQueue on small instances. *)
EXTENDS CacheQueue, TLC

CONSTANTS i1, i2, c1, c2

\* Items and consumers are interchangeable (safety runs only).
Symmetric == Permutations({i1, i2}) \cup Permutations({c1, c2})
===============================================================================
