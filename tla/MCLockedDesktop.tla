---- MODULE MCLockedDesktop ----
(* Windows of the session are interchangeable, and so are lockers. *)
EXTENDS LockedDesktop, TLC
Symmetry == Permutations(AppWindows) \cup Permutations(Lockers)
====
