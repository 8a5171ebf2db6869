--------------------------- MODULE MCJanusSession ---------------------------
(* Small instances of JanusSession. *)
EXTENDS JanusSession, TLC

(* Pids and threads only differ by name. *)
Symmetry == Permutations(Pids) \cup Permutations(Threads)
=============================================================================
