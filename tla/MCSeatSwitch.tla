---- MODULE MCSeatSwitch ----
(* Two terminals, no symmetry: the run checks liveness. *)
EXTENDS SeatSwitch
====
