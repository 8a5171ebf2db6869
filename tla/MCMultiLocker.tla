---- MODULE MCMultiLocker ----
(* Threads are not declared interchangeable: the run checks liveness. *)
EXTENDS MultiLocker
====
