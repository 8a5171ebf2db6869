---- MODULE MCScreenLock ----
(* Two Desktops or one; lockers are interchangeable. *)
EXTENDS ScreenLock, TLC
Symmetry == Permutations(Lockers)
====
