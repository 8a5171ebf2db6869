---- MODULE MCLaunchRegistry ----
(* Restart threads are interchangeable.  Pids are too, but fork() hands    *)
(* them out in one order, so they are not permuted.                        *)
EXTENDS LaunchRegistry, TLC
Symmetry == Permutations(Restarters)
====
