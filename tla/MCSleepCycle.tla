---- MODULE MCSleepCycle ----
(* Two sleeps: reports of the first can reach the second. *)
EXTENDS SleepCycle
====
