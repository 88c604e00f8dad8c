------------------------------- MODULE MCJobRuns -------------------------------
(* JobRuns on small instances. *)
EXTENDS JobRuns, TLC

CONSTANTS r1, r2, r3, i1, i2, i3, w1, w2, s1, s2

\* Runs, items, workers and sleep loops are interchangeable (safety runs only).
Symmetric == Permutations(Runs) \cup Permutations(Items)
                \cup Permutations(Workers) \cup Permutations(Schedulers)

\* The bound of the safety run: a run that asks to sleep is alone.
SleepsAlone ==
    (\E r \in Runs : slept[r] # {}) => Cardinality({r \in Runs : run[r].status # "unused"}) <= 1

SmallSpec == Init /\ [][Next /\ SleepsAlone']_vars
===============================================================================
