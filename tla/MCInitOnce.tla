---- MODULE MCInitOnce ----
(* Three threads: one initialises, two lose the race and may both create a *)
(* semaphore, so the install/discard race happens.                          *)
EXTENDS InitOnce
====
