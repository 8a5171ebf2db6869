------------------------- MODULE MultiLocker_proofs -------------------------
(***************************************************************************)
(* What MultiLocker.cpp promises to any number of threads: a writer is     *)
(* alone, the counters say who is inside, and no wake-up gets lost.        *)
(***************************************************************************)
EXTENDS MultiLocker, FiniteSetTheorems, TLAPS

(* A thread that waits, or was woken, was granted nothing; a reader reads  *)
(* once; fWriterThread is reset with fWriterCount; a writer has no reader  *)
(* beside it.                                                              *)
WaitersAreOutside == \A t \in Threads : wait[t] # "none" => inside[t] = Outside
ReadersReadOnce == \A t \in Readers : inside[t].read = 1
WriterIsKnown ==
  /\ fWriterThread # NoThread <=> fWriterCount > 0
  /\ fWriterCount > 0 => fReaderCount = 0

LockInv ==
  /\ TypeOK
  /\ CountersAreTrue
  /\ WaitersAreOutside
  /\ ReadersReadOnce
  /\ WriterIsKnown
  /\ NoLostWakeUp

WaitTypes == {"none", "read", "write", "readWoken", "writeWoken"}
InsideTypes == [read : 0 .. MaxNest, write : 0 .. MaxNest]

-----------------------------------------------------------------------------
(* Readers is finite, so that it can be counted. *)
LEMMA ReadersFinite == IsFiniteSet(Readers)
  BY LockerConstants, FS_Subset DEF Readers

LEMMA ReadersFiniteNext == IsFiniteSet(Readers')
  BY LockerConstants, FS_Subset DEF Readers

(* A writer is alone, because readers are counted and it is the only one   *)
(* that fWriterThread names.                                               *)
LEMMA InvAlone == LockInv => WriterIsAlone
<1> SUFFICES ASSUME LockInv, NEW t \in Threads, NEW u \in Threads,
                    t # u, Writing(t)
             PROVE  inside[u] = Outside
  BY DEF WriterIsAlone
<1>1. fWriterThread = t /\ fWriterCount > 0
  BY DEF LockInv, CountersAreTrue, IsWriteLocked
<1>2. ~Writing(u)
  BY <1>1 DEF LockInv, CountersAreTrue, IsWriteLocked
<1>3. Readers = {}
  <2>1. Cardinality(Readers) = 0
    BY <1>1 DEF LockInv, CountersAreTrue, WriterIsKnown
  <2> QED BY <2>1, ReadersFinite, FS_EmptySet
<1>4. inside[u] \in InsideTypes /\ MaxNest \in Nat
  BY LockerConstants DEF LockInv, TypeOK, InsideTypes
<1>5. inside[u].write = 0 /\ inside[u].read = 0
  BY <1>2, <1>3, <1>4 DEF Writing, Readers, InsideTypes
<1> QED BY <1>4, <1>5 DEF Outside, InsideTypes

(* notify_one(): a thread that was waiting waits or is woken, and if a     *)
(* writer was waiting then one is awake.                                   *)
LEMMA Notified ==
  ASSUME TypeOK, NEW woken, woken \subseteq At("read"), NotifyOneWriter(woken)
  PROVE  /\ wait' \in [Threads -> WaitTypes]
         /\ \A u \in Threads : wait'[u] = "none" <=> wait[u] = "none"
         /\ At("read")' = At("read") \ woken
         /\ At("write")' # {} => At("writeWoken")' # {}
<1> DEFINE stay == [t \in Threads |-> IF t \in woken THEN "readWoken" ELSE wait[t]]
<1>1. CASE At("write") = {}
  <2>1. wait' = stay
    BY <1>1 DEF NotifyOneWriter
  <2> QED BY <1>1, <2>1 DEF TypeOK, At, WaitTypes
<1>2. CASE At("write") # {}
  <2>1. PICK w \in At("write") : wait' = [stay EXCEPT ![w] = "writeWoken"]
    BY <1>2 DEF NotifyOneWriter
  <2>2. /\ w \in Threads /\ wait[w] = "write" /\ w \notin woken
        /\ wait'[w] = "writeWoken"
        /\ \A u \in Threads \ {w} : wait'[u] = IF u \in woken THEN "readWoken"
                                               ELSE wait[u]
        /\ wait' \in [Threads -> WaitTypes]
    BY <2>1 DEF TypeOK, At, WaitTypes
  <2> QED BY <2>2 DEF TypeOK, At
<1> QED BY <1>1, <1>2

-----------------------------------------------------------------------------
(* Each way in and out keeps the invariant. *)
LEMMA InvNest ==
  ASSUME LockInv, NEW t \in Threads, NEW kind \in {"read", "write"},
         wait[t] = "none", IsWriteLocked(t), inside[t][kind] < MaxNest,
         Nest(t, kind), trapped' = trapped
  PROVE  LockInv'
<1> USE DEF LockInv
<1>0. MaxNest \in Nat
  BY LockerConstants
<1>1. /\ inside'[t] = [inside[t] EXCEPT ![kind] = @ + 1]
      /\ \A u \in Threads \ {t} : inside'[u] = inside[u]
      /\ inside' \in [Threads -> InsideTypes]
  BY <1>0 DEF Nest, Enter, TypeOK, InsideTypes
<1>2. Writing(t) /\ Writing(t)' /\ inside[t] \in InsideTypes
  BY <1>0, <1>1 DEF CountersAreTrue, Writing, TypeOK, InsideTypes
<1>3. Readers' = Readers
  <2>1. t \notin Readers /\ t \notin Readers'
    BY <1>0, <1>1, <1>2 DEF Readers, Writing, InsideTypes
  <2> QED BY <1>1, <2>1 DEF Readers
<1>4. inside'[t].read + inside'[t].write = inside[t].read + inside[t].write + 1
  BY <1>0, <1>1, <1>2 DEF InsideTypes
<1>5. TypeOK'
  BY <1>1 DEF TypeOK, Nest, InsideTypes
<1>6. CountersAreTrue'
  BY <1>1, <1>2, <1>3, <1>4 DEF CountersAreTrue, Nest, IsWriteLocked, Writing
<1>7. WaitersAreOutside'
  BY <1>1 DEF WaitersAreOutside, Nest
<1>8. ReadersReadOnce'
  BY <1>1, <1>2, <1>3 DEF ReadersReadOnce, Readers, Writing
<1>9. WriterIsKnown' /\ NoLostWakeUp'
  BY DEF WriterIsKnown, NoLostWakeUp, Nest, At
<1> QED BY <1>5, <1>6, <1>7, <1>8, <1>9

(* A thread outside that waits, or wakes up and has not looked yet. *)
LEMMA InvWait ==
  ASSUME LockInv, NEW t \in Threads, inside[t] = Outside, NEW w \in WaitTypes \ {"none"},
         Wait(t, w),
         w = "read" => fWriterCount > 0,
         w = "write" => fReaderCount > 0 \/ fWriterCount > 0,
         wait[t] = "writeWoken" => w = "write",
         UNCHANGED <<fReaderCount, fWriterCount, fWriterThread, fWriterNest,
                     inside, trapped>>
  PROVE  LockInv'
<1> USE DEF LockInv
<1>1. /\ wait' \in [Threads -> WaitTypes] /\ wait'[t] = w
      /\ \A u \in Threads \ {t} : wait'[u] = wait[u]
  BY DEF Wait, TypeOK, WaitTypes
<1>2. TypeOK'
  BY <1>1 DEF TypeOK, WaitTypes
<1>3. CountersAreTrue' /\ ReadersReadOnce' /\ WriterIsKnown'
  BY DEF CountersAreTrue, ReadersReadOnce, WriterIsKnown, Readers, Writing,
         IsWriteLocked
<1>4. WaitersAreOutside'
  BY <1>1 DEF WaitersAreOutside
<1>5. NoLostWakeUp'
  BY <1>1 DEF NoLostWakeUp, At
<1> QED BY <1>2, <1>3, <1>4, <1>5

LEMMA InvReadEnters ==
  ASSUME LockInv, NEW t \in Threads, inside[t] = Outside, ReadEnters(t),
         trapped' = trapped
  PROVE  LockInv'
<1> USE DEF LockInv
<1>0. MaxNest \in Nat \ {0} /\ IsFiniteSet(Readers)
  BY LockerConstants, ReadersFinite
<1>1. fWriterCount = 0
  BY DEF ReadEnters, CountersAreTrue, IsWriteLocked, Writing, Outside, TypeOK
<1>2. /\ inside'[t].read = 1 /\ inside'[t].write = 0
      /\ \A u \in Threads \ {t} : inside'[u] = inside[u]
      /\ inside' \in [Threads -> InsideTypes]
  BY <1>0 DEF ReadEnters, Enter, TypeOK, Outside, InsideTypes
<1>3. /\ wait' \in [Threads -> WaitTypes] /\ wait'[t] = "none"
      /\ \A u \in Threads \ {t} : wait'[u] = wait[u]
  BY DEF ReadEnters, Wait, TypeOK, WaitTypes
<1>4. t \notin Readers /\ Readers' = Readers \cup {t}
  BY <1>2 DEF Readers, Outside
<1>5. Cardinality(Readers') = Cardinality(Readers) + 1
  BY <1>0, <1>4, FS_AddElement
<1>6. TypeOK'
  BY <1>2, <1>3 DEF TypeOK, ReadEnters, WaitTypes, InsideTypes
<1>7. CountersAreTrue'
  BY <1>1, <1>2, <1>5 DEF CountersAreTrue, ReadEnters, IsWriteLocked, Writing
<1>8. WaitersAreOutside'
  BY <1>2, <1>3 DEF WaitersAreOutside
<1>9. ReadersReadOnce'
  BY <1>2, <1>4 DEF ReadersReadOnce, Readers
<1>10. WriterIsKnown' /\ NoLostWakeUp'
  BY <1>1, <1>3 DEF WriterIsKnown, NoLostWakeUp, ReadEnters, At, TypeOK
<1> QED BY <1>6, <1>7, <1>8, <1>9, <1>10

LEMMA InvWriteEnters ==
  ASSUME LockInv, NEW t \in Threads, inside[t] = Outside, WriteEnters(t),
         trapped' = trapped
  PROVE  LockInv'
<1> USE DEF LockInv
<1>0. MaxNest \in Nat \ {0} /\ NoThread \notin Threads
  BY LockerConstants
<1>1. fWriterCount = 0 /\ fReaderCount = 0
  BY DEF WriteEnters, TypeOK
<1>2. /\ inside'[t].read = 0 /\ inside'[t].write = 1
      /\ \A u \in Threads \ {t} : inside'[u] = inside[u]
      /\ inside' \in [Threads -> InsideTypes]
  BY <1>0 DEF WriteEnters, Enter, TypeOK, Outside, InsideTypes
<1>3. /\ wait' \in [Threads -> WaitTypes] /\ wait'[t] = "none"
      /\ \A u \in Threads \ {t} : wait'[u] = wait[u]
  BY DEF WriteEnters, Wait, TypeOK, WaitTypes
<1>4. Readers' = Readers
  BY <1>2 DEF Readers, Outside
<1>5. \A u \in Threads \ {t} : ~Writing(u)'
  BY <1>1, <1>2 DEF CountersAreTrue, IsWriteLocked, Writing
<1>6. TypeOK'
  BY <1>2, <1>3 DEF TypeOK, WriteEnters, WaitTypes, InsideTypes
<1>7. CountersAreTrue'
  <2>1. ~trapped' /\ fReaderCount' = Cardinality(Readers')
    BY <1>4 DEF CountersAreTrue, WriteEnters
  <2>2. Writing(t)' /\ IsWriteLocked(t)' /\ fWriterNest' = inside'[t].read + inside'[t].write
    BY <1>2 DEF WriteEnters, IsWriteLocked, Writing
  <2>3. \A u \in Threads \ {t} : ~IsWriteLocked(u)'
    BY DEF WriteEnters, IsWriteLocked
  <2> QED BY <1>5, <2>1, <2>2, <2>3 DEF CountersAreTrue
<1>8. WaitersAreOutside'
  BY <1>2, <1>3 DEF WaitersAreOutside
<1>9. ReadersReadOnce'
  BY <1>2, <1>4 DEF ReadersReadOnce, Readers
<1>10. WriterIsKnown' /\ NoLostWakeUp'
  BY <1>0, <1>1 DEF WriterIsKnown, NoLostWakeUp, WriteEnters, At
<1> QED BY <1>6, <1>7, <1>8, <1>9, <1>10
(* Unlocks that are not a writer's last one. *)
LEMMA InvUnnest ==
  ASSUME LockInv, NEW t \in Threads, NEW kind \in {"read", "write"},
         wait[t] = "none", IsWriteLocked(t), inside[t][kind] > 0,
         kind = "write" => inside[t].write > 1,
         Leave(t, kind), fWriterNest' = fWriterNest - 1,
         UNCHANGED <<fReaderCount, fWriterCount, fWriterThread, wait, trapped>>
  PROVE  LockInv'
<1> USE DEF LockInv
<1>0. MaxNest \in Nat
  BY LockerConstants
<1>1. /\ inside'[t] = [inside[t] EXCEPT ![kind] = @ - 1]
      /\ \A u \in Threads \ {t} : inside'[u] = inside[u]
      /\ inside' \in [Threads -> InsideTypes]
  BY <1>0 DEF Leave, TypeOK, InsideTypes
<1>2. /\ Writing(t) /\ inside[t] \in InsideTypes
      /\ fWriterNest = inside[t].read + inside[t].write
  BY <1>0, <1>1 DEF CountersAreTrue, TypeOK, InsideTypes
<1>3. /\ Writing(t)'
      /\ inside'[t].read + inside'[t].write = inside[t].read + inside[t].write - 1
      /\ fWriterNest' \in Nat
  BY <1>0, <1>1, <1>2 DEF Writing, InsideTypes
<1>4. Readers' = Readers
  <2>1. t \notin Readers /\ t \notin Readers'
    BY <1>0, <1>1, <1>2, <1>3 DEF Readers, Writing, InsideTypes
  <2> QED BY <1>1, <2>1 DEF Readers
<1>5. TypeOK'
  BY <1>1, <1>3 DEF TypeOK, InsideTypes
<1>6. CountersAreTrue'
  <2>1. \A u \in Threads \ {t} : ~IsWriteLocked(u)' /\ ~Writing(u)'
    BY <1>1 DEF CountersAreTrue, IsWriteLocked, Writing
  <2>2. /\ fWriterNest' = inside'[t].read + inside'[t].write
        /\ fWriterThread' = t /\ fWriterCount' > 0
    BY <1>0, <1>2, <1>3 DEF IsWriteLocked, InsideTypes
  <2>3. ~trapped' /\ fReaderCount' = Cardinality(Readers')
    BY <1>4 DEF CountersAreTrue
  <2> QED BY <1>3, <2>1, <2>2, <2>3 DEF CountersAreTrue, IsWriteLocked
<1>7. WaitersAreOutside' /\ ReadersReadOnce'
  BY <1>1, <1>4, <1>2 DEF WaitersAreOutside, ReadersReadOnce, Readers, Writing
<1>8. WriterIsKnown' /\ NoLostWakeUp'
  BY DEF WriterIsKnown, NoLostWakeUp, At
<1> QED BY <1>5, <1>6, <1>7, <1>8

(* A reader leaves; the last one wakes a writer. *)
LEMMA InvReaderLeaves ==
  ASSUME LockInv, NEW t \in Threads, wait[t] = "none", t \in Readers,
         Leave(t, "read"), fReaderCount' = fReaderCount - 1,
         IF fReaderCount = 1 THEN NotifyOneWriter({}) ELSE UNCHANGED wait,
         UNCHANGED <<fWriterCount, fWriterThread, fWriterNest, trapped>>
  PROVE  LockInv'
<1> USE DEF LockInv
<1>0. MaxNest \in Nat \ {0} /\ IsFiniteSet(Readers)
  BY LockerConstants, ReadersFinite
<1>1. inside[t].read = 1 /\ inside[t].write = 0
  BY DEF ReadersReadOnce, Readers
<1>2. /\ inside'[t].read = 0 /\ inside'[t].write = 0
      /\ \A u \in Threads \ {t} : inside'[u] = inside[u]
      /\ inside' \in [Threads -> InsideTypes]
  BY <1>0, <1>1 DEF Leave, TypeOK, InsideTypes
<1>3. Readers' = Readers \ {t}
  BY <1>2 DEF Readers
<1>4. Cardinality(Readers') = Cardinality(Readers) - 1
  BY <1>0, <1>3, FS_RemoveElement
<1>5. fReaderCount' \in Nat
  BY <1>0, <1>4, ReadersFiniteNext, FS_CardinalityType DEF CountersAreTrue
<1>6. /\ wait' \in [Threads -> WaitTypes]
      /\ \A u \in Threads : wait'[u] = "none" <=> wait[u] = "none"
      /\ At("read")' = At("read")
      /\ fReaderCount = 1 /\ At("write")' # {} => At("writeWoken")' # {}
      /\ fReaderCount # 1 => At("write")' = At("write")
  <2>1. CASE fReaderCount = 1
    BY <2>1, Notified
  <2>2. CASE fReaderCount # 1
    BY <2>2 DEF TypeOK, WaitTypes, At
  <2> QED BY <2>1, <2>2
<1>7. TypeOK'
  BY <1>2, <1>5, <1>6 DEF TypeOK, WaitTypes, InsideTypes
<1>8. CountersAreTrue'
  BY <1>1, <1>2, <1>4 DEF CountersAreTrue, IsWriteLocked, Writing
<1>9. WaitersAreOutside' /\ ReadersReadOnce'
  BY <1>2, <1>3, <1>6 DEF WaitersAreOutside, ReadersReadOnce, Readers
<1>10. fReaderCount > 0 /\ fWriterCount = 0
  BY <1>5 DEF WriterIsKnown, TypeOK
<1>11. WriterIsKnown' /\ NoLostWakeUp'
  BY <1>5, <1>6, <1>10 DEF WriterIsKnown, NoLostWakeUp, TypeOK
<1> QED BY <1>7, <1>8, <1>9, <1>11

(* The writer leaves; all readers and a writer are woken. *)
LEMMA InvWriterLeaves ==
  ASSUME LockInv, NEW t \in Threads, wait[t] = "none", IsWriteLocked(t),
         inside[t].write = 1, inside[t].read = 0,
         Leave(t, "write"),
         fWriterCount' = 0, fWriterThread' = NoThread, fWriterNest' = 0,
         NotifyOneWriter(At("read")),
         UNCHANGED <<fReaderCount, trapped>>
  PROVE  LockInv'
<1> USE DEF LockInv
<1>0. MaxNest \in Nat \ {0} /\ NoThread \notin Threads
  BY LockerConstants
<1>1. /\ inside'[t].read = 0 /\ inside'[t].write = 0
      /\ \A u \in Threads \ {t} : inside'[u] = inside[u]
      /\ inside' \in [Threads -> InsideTypes]
  BY <1>0 DEF Leave, TypeOK, InsideTypes
<1>2. Readers' = Readers
  BY <1>1 DEF Readers
<1>3. /\ wait' \in [Threads -> WaitTypes]
      /\ \A u \in Threads : wait'[u] = "none" <=> wait[u] = "none"
      /\ At("read")' = {}
      /\ At("write")' # {} => At("writeWoken")' # {}
  BY Notified
<1>4. TypeOK'
  BY <1>1, <1>3 DEF TypeOK, WaitTypes, InsideTypes
<1>5. CountersAreTrue'
  <2>1. \A u \in Threads : ~IsWriteLocked(u)' /\ ~Writing(u)'
    BY <1>0, <1>1 DEF CountersAreTrue, IsWriteLocked, Writing
  <2> QED BY <1>2, <2>1 DEF CountersAreTrue
<1>6. WaitersAreOutside' /\ ReadersReadOnce'
  BY <1>1, <1>2, <1>3 DEF WaitersAreOutside, ReadersReadOnce, Readers
<1>7. WriterIsKnown' /\ NoLostWakeUp'
  BY <1>3 DEF WriterIsKnown, NoLostWakeUp
<1> QED BY <1>4, <1>5, <1>6, <1>7

-----------------------------------------------------------------------------
LEMMA InvInit == Init => LockInv
<1> SUFFICES ASSUME Init PROVE LockInv
  OBVIOUS
<1>1. Readers = {} /\ Cardinality(Readers) = 0
  BY FS_EmptySet DEF Init, Readers, Outside
<1>2. TypeOK
  <2>1. Outside \in InsideTypes
    BY LockerConstants DEF Outside, InsideTypes
  <2>2. inside \in [Threads -> InsideTypes] /\ wait \in [Threads -> WaitTypes]
    BY <2>1 DEF Init, WaitTypes
  <2>3. /\ fReaderCount \in Nat /\ fWriterCount \in 0 .. 1 /\ fWriterNest \in Nat
        /\ fWriterThread \in Threads \cup {NoThread}
    BY DEF Init
  <2>4. trapped \in BOOLEAN
    BY DEF Init
  <2> QED BY <2>2, <2>3, <2>4 DEF TypeOK, InsideTypes, WaitTypes
<1>3. CountersAreTrue
  BY <1>1 DEF Init, CountersAreTrue, IsWriteLocked, Writing, Outside
<1>4. WaitersAreOutside /\ ReadersReadOnce /\ WriterIsKnown /\ NoLostWakeUp
  BY <1>1, LockerConstants
     DEF Init, WaitersAreOutside, ReadersReadOnce, WriterIsKnown, NoLostWakeUp, At
<1> QED BY <1>2, <1>3, <1>4 DEF LockInv

LEMMA InvReadLock ==
  ASSUME LockInv, NEW t \in Threads, ReadLock(t) PROVE LockInv'
<1>1. CASE IsWriteLocked(t)
  BY <1>1, InvNest DEF ReadLock, LockInv, CountersAreTrue
<1>2. CASE ~IsWriteLocked(t)
  <2>1. inside[t] = Outside
    BY <1>2, LockerConstants
       DEF ReadLock, LockInv, TypeOK, CountersAreTrue, Writing, Outside
  <2>2. CASE ReadWaits(t)
    BY <2>1, <2>2, InvWait DEF ReadLock, ReadWaits, WaitTypes
  <2>3. CASE ReadEnters(t)
    BY <2>1, <2>3, InvReadEnters DEF ReadLock
  <2> QED BY <1>2, <2>2, <2>3 DEF ReadLock
<1> QED BY <1>1, <1>2

LEMMA InvWriteLock ==
  ASSUME LockInv, NEW t \in Threads, WriteLock(t) PROVE LockInv'
<1>1. CASE fWriterThread = t
  <2>1. IsWriteLocked(t)
    BY <1>1, LockerConstants DEF LockInv, WriterIsKnown, IsWriteLocked
  <2> QED BY <1>1, <2>1, InvNest DEF WriteLock
<1>2. CASE fWriterThread # t
  <2>1. inside[t] = Outside
    BY <1>2, LockerConstants
       DEF WriteLock, LockInv, TypeOK, CountersAreTrue, IsWriteLocked, Writing,
           Outside, Readers
  <2>2. CASE WriteWaits(t)
    BY <2>1, <2>2, InvWait DEF WriteLock, WriteWaits, WaitTypes
  <2>3. CASE WriteEnters(t)
    BY <2>1, <2>3, InvWriteEnters DEF WriteLock
  <2> QED BY <1>2, <2>2, <2>3 DEF WriteLock
<1> QED BY <1>1, <1>2

LEMMA InvWakes ==
  ASSUME LockInv, NEW t \in Threads, Wakes(t) PROVE LockInv'
<1>1. inside[t] = Outside
  BY DEF Wakes, ReadWakes, WriteWakes, LockInv, WaitersAreOutside
<1>2. CASE ReadWakes(t)
  <2>1. CASE ReadWaits(t)
    BY <1>1, <1>2, <2>1, InvWait DEF ReadWakes, ReadWaits, WaitTypes
  <2>2. CASE ReadEnters(t)
    BY <1>1, <1>2, <2>2, InvReadEnters DEF ReadWakes
  <2> QED BY <1>2, <2>1, <2>2 DEF ReadWakes
<1>3. CASE WriteWakes(t)
  <2>1. CASE WriteWaits(t)
    BY <1>1, <1>3, <2>1, InvWait DEF WriteWakes, WriteWaits, WaitTypes
  <2>2. CASE WriteEnters(t)
    BY <1>1, <1>3, <2>2, InvWriteEnters DEF WriteWakes
  <2> QED BY <1>3, <2>1, <2>2 DEF WriteWakes
<1> QED BY <1>2, <1>3 DEF Wakes

LEMMA InvSpuriousWake ==
  ASSUME LockInv, NEW t \in Threads, SpuriousWake(t) PROVE LockInv'
<1>1. inside[t] = Outside
  BY DEF SpuriousWake, LockInv, WaitersAreOutside
<1> QED BY <1>1, InvWait DEF SpuriousWake, WaitTypes

LEMMA InvReadUnlock ==
  ASSUME LockInv, NEW t \in Threads, ReadUnlock(t) PROVE LockInv'
<1> USE DEF LockInv
<1>0. inside[t] \in InsideTypes /\ MaxNest \in Nat
  BY LockerConstants DEF TypeOK, InsideTypes
<1>1. CASE IsWriteLocked(t)
  <2>1. /\ fWriterNest = inside[t].read + inside[t].write
        /\ fWriterNest # 0
    BY <1>0, <1>1 DEF ReadUnlock, CountersAreTrue, InsideTypes
  <2>2. fWriterNest' = fWriterNest - 1 /\ trapped' = trapped
    BY <1>1, <2>1 DEF ReadUnlock, CountersAreTrue, TypeOK
  <2> QED BY <1>1, <2>2, InvUnnest DEF ReadUnlock
<1>2. CASE ~IsWriteLocked(t)
  <2>1. t \in Readers
    BY <1>0, <1>2 DEF ReadUnlock, CountersAreTrue, Writing, Readers, InsideTypes
  <2>2. fReaderCount \in Nat /\ fReaderCount # 0
    BY <2>1, ReadersFinite, FS_EmptySet DEF CountersAreTrue, TypeOK
  <2> QED BY <1>2, <2>1, <2>2, InvReaderLeaves DEF ReadUnlock
<1> QED BY <1>1, <1>2

LEMMA InvWriteUnlock ==
  ASSUME LockInv, NEW t \in Threads, WriteUnlock(t) PROVE LockInv'
<1> USE DEF LockInv
<1>1. /\ inside[t] \in InsideTypes /\ MaxNest \in Nat
      /\ IsWriteLocked(t) /\ fWriterNest = inside[t].read + inside[t].write
  BY LockerConstants DEF TypeOK, InsideTypes, WriteUnlock, CountersAreTrue
<1>2. CASE fWriterNest > 1
  <2>1. inside[t].write > 0 /\ inside[t].write > 1
    BY <1>1, <1>2 DEF WriteUnlock, Writing, InsideTypes
  <2>2. /\ wait[t] = "none" /\ Leave(t, "write") /\ fWriterNest' = fWriterNest - 1
        /\ UNCHANGED <<fReaderCount, fWriterCount, fWriterThread, wait, trapped>>
    BY <1>1, <1>2 DEF WriteUnlock, IsWriteLocked
  <2> QED BY <1>1, <2>1, <2>2, InvUnnest
<1>3. CASE ~(fWriterNest > 1)
  <2>1. inside[t].write = 1 /\ inside[t].read = 0
    BY <1>1, <1>3 DEF WriteUnlock, Writing, InsideTypes
  <2> QED BY <1>1, <1>3, <2>1, InvWriterLeaves DEF WriteUnlock, IsWriteLocked
<1> QED BY <1>2, <1>3

LEMMA InvNext == LockInv /\ [Next]_vars => LockInv'
<1> SUFFICES ASSUME LockInv, [Next]_vars PROVE LockInv'
  OBVIOUS
<1>1. CASE UNCHANGED vars
  BY <1>1 DEF vars, LockInv, TypeOK, CountersAreTrue, WaitersAreOutside,
     ReadersReadOnce, WriterIsKnown, NoLostWakeUp, Readers, Writing,
     IsWriteLocked, At
<1>2. ASSUME NEW t \in Threads,
             ReadLock(t) \/ WriteLock(t) \/ Wakes(t) \/ SpuriousWake(t) \/ Unlocks(t)
      PROVE  LockInv'
  BY <1>2, InvReadLock, InvWriteLock, InvWakes, InvSpuriousWake, InvReadUnlock,
     InvWriteUnlock DEF Unlocks
<1> QED BY <1>1, <1>2 DEF Next

-----------------------------------------------------------------------------
THEOREM LockInvariant == Spec => []LockInv
  BY InvInit, InvNext, PTL DEF Spec

(* The variables keep their types, whatever the threads do.                *)
THEOREM TypeCorrect == Spec => []TypeOK
<1>1. LockInv => TypeOK
  BY DEF LockInv
<1> QED BY <1>1, LockInvariant, PTL

(* A writer is alone in its section: WriteLock() and ReadLock() exclude    *)
(* each other through every nesting and every wake-up.                     *)
THEOREM MutualExclusion == Spec => []WriterIsAlone
  BY InvAlone, LockInvariant, PTL

(* fReaderCount, fWriterThread and fWriterNest are what the threads hold,  *)
(* and no unlock by the book ends in debugger().                           *)
THEOREM Counted == Spec => []CountersAreTrue
<1>1. LockInv => CountersAreTrue
  BY DEF LockInv
<1> QED BY <1>1, LockInvariant, PTL

(* No thread sleeps on a free lock without another one awake to pass it on.*)
THEOREM WakeUpsArrive == Spec => []NoLostWakeUp
<1>1. LockInv => NoLostWakeUp
  BY DEF LockInv
<1> QED BY <1>1, LockInvariant, PTL
=============================================================================
