-------------------------- MODULE Converter_proofs --------------------------
(***************************************************************************)
(* The accounting of storeCounter, and what hangs on it: that nothing is   *)
(* freed which is still in use. Then the stock: every packet is in one     *)
(* chunk, task or stage at a time or in the data set, so that the data set *)
(* is complete when the main thread is released. For all captures, chunk   *)
(* numbers and threads.                                                    *)
(***************************************************************************)
EXTENDS Converter, FiniteSetTheorems, SequenceTheorems, TLAPS

(* The store tasks of file i that wait in the queue, and those that run.    *)
Waiting(i) == {k \in DOMAIN queue : Stores(queue[k], i)}
Serving(i) == {t \in Threads : Stores(pool[t], i)}

(* What StartTask and Init put into the queue.                              *)
Queued == {GcTask("create", 1)}
            \cup {StoreTask(i, todo, "packet", 0) : i \in DOMAIN files, todo \in Seq(Nat)}

IsTask(r) ==
    \/ r = Idle
    \/ r.kind = "gc" /\ r.at \in {"create", "counters", "wait", "delete", "done"}
                     /\ r.file \in Nat \ {0}
    \/ r.kind = "store" /\ r.file \in DOMAIN files

Types ==
    /\ files \in Seq(File)
    /\ pc \in {"open", "start", "spare", "noReturn", "exit", "done"}
    /\ file \in Nat \ {0}
    /\ pc \in {"start", "spare"} => file \in DOMAIN files
    /\ pc = "spare" => chunks = <<>>
    /\ chunks \in Seq(Seq(Nat))
    /\ spare \in Nat
    /\ queue \in Seq(Queued)
    /\ pool = [t \in Threads |-> pool[t]]
    /\ \A t \in Threads : IsTask(pool[t])
    /\ rawPacketVec \in [DOMAIN files -> {"null", "live", "freed"}]
    /\ storeCounter \in Seq(Int)
    /\ Len(storeCounter) <= Len(files)
    /\ deleted \in BOOLEAN

(* There is one task of GarbageCollection, in the queue or on a thread.     *)
OneGc ==
    /\ \A t, u \in Threads : pool[t].kind = "gc" /\ pool[u].kind = "gc" => t = u
    /\ \A k \in DOMAIN queue : queue[k].kind = "gc" =>
          /\ \A t \in Threads : pool[t].kind # "gc"
          /\ \A j \in DOMAIN queue : queue[j].kind = "gc" => j = k

(* What it has done: counters exist until it deletes them, and those of the *)
(* files it has passed are at zero or below.                                *)
Passed(i) == i <= Len(storeCounter) /\ storeCounter[i] <= 0

GcStage ==
    /\ \A k \in DOMAIN queue : queue[k].kind = "gc" => ~deleted
    /\ \A t \in Threads : pool[t].kind = "gc" =>
          /\ pool[t].at \in {"create", "counters", "wait", "delete"} => ~deleted
          /\ pool[t].at \in {"wait", "delete"} => Len(storeCounter) = Len(files)
          /\ pool[t].at = "wait" => \A i \in DOMAIN files : i < pool[t].file => Passed(i)
          /\ pool[t].at = "delete" => \A i \in DOMAIN files : Passed(i)

(* A counter, from before it exists until after it is deleted.              *)
Account(i) ==
    IF deleted THEN Outstanding(i) = 0
    ELSE IF i <= Len(storeCounter) THEN storeCounter[i] = Outstanding(i)
    ELSE Outstanding(i) = STORE_MULTITHREAD

Exact ==
    fault = "none" => \A i \in DOMAIN files : FileWellSplit(i) => Account(i)

(* Raw packets are read before their tasks start and freed after they end.  *)
Unread ==
    \A i \in DOMAIN files : rawPacketVec[i] = "null" =>
        /\ file <= i
        /\ file = i => pc \notin {"start", "spare"}
        /\ Waiting(i) = {} /\ Serving(i) = {}

Freed ==
    fault = "none" =>
        \A i \in DOMAIN files :
            FileWellSplit(i) /\ rawPacketVec[i] = "freed" => Outstanding(i) = 0

FreedSafe ==
    fault \in {"freedRaw", "freedCounter"} => \E i \in DOMAIN files : ~FileWellSplit(i)

IInv == Types /\ OneGc /\ GcStage /\ Exact /\ Unread /\ Freed /\ FreedSafe

-----------------------------------------------------------------------------
(* splitVector *)

(* splitVector returns a sequence of sequences of positions.                *)
LEMMA SplitVectorTyped ==
  ASSUME NEW n \in Nat, NEW size \in Nat \ {0}
  PROVE  /\ SplitVector(n, size) \in Seq(Seq(Nat))
         /\ Len(SplitVector(n, size)) \in Nat
<1> DEFINE num == (n + size - 1) \div size
           last(k) == IF k * size < n THEN k * size ELSE n
           Piece(k) == SubSeq(Range1(n), (k - 1) * size + 1, last(k))
<1>1. num \in Nat
  <2>1. n + size - 1 \in Nat OBVIOUS
  <2>2. \A m \in Nat : m \div size \in Nat
    <3> SUFFICES ASSUME NEW m \in Nat PROVE m \div size \in Nat OBVIOUS
    <3>1. m \div size \in Int OBVIOUS
    <3>2. m % size \in 0 .. size - 1 /\ m = (size * (m \div size)) + (m % size) OBVIOUS
    <3> QED BY <3>1, <3>2
  <2> QED BY <2>1, <2>2
<1>2. ASSUME NEW k \in 1 .. num PROVE Piece(k) \in Seq(Nat)
  <2>1. Range1(n) \in Seq(Nat) /\ Len(Range1(n)) = n BY DEF Range1
  <2>2. k * size \in Nat /\ (k - 1) * size \in Nat BY <1>1
  <2> DEFINE first == (k - 1) * size + 1
  <2>3. first \in Nat \ {0} /\ last(k) \in Nat /\ last(k) <= n BY <2>2
  <2> HIDE DEF first, last
  <2>4. SubSeq(Range1(n), first, last(k)) \in Seq(Nat) BY <2>1, <2>3
  <2> QED BY <2>4 DEF first
<1>3. SplitVector(n, size) = [k \in 1 .. num |-> Piece(k)] BY DEF SplitVector
<1> HIDE DEF num, Piece
<1> QED BY <1>1, <1>2, <1>3

(* For a file that is well split, the chunks and the done() calls left to   *)
(* the main thread are STORE_MULTITHREAD together: nothing wraps.           *)
LEMMA NothingWraps ==
  ASSUME NEW n \in Nat \ {0}, ChunkSize(n) > 0, WellSplit(n)
  PROVE  /\ (STORE_MULTITHREAD - Len(SplitVector(n, ChunkSize(n)))) % SIZE_T \in Nat
         /\ Len(SplitVector(n, ChunkSize(n)))
              + ((STORE_MULTITHREAD - Len(SplitVector(n, ChunkSize(n)))) % SIZE_T)
              = STORE_MULTITHREAD
<1>1. ChunkSize(n) \in Int BY MultithreadAssumption DEF ChunkSize
<1>2. PICK l \in Nat : l = Len(SplitVector(n, ChunkSize(n)))
  BY <1>1, SplitVectorTyped
<1>3. l <= STORE_MULTITHREAD BY <1>2 DEF WellSplit
<1>4. STORE_MULTITHREAD - l \in 0 .. SIZE_T - 1 BY <1>3, MultithreadAssumption
<1>5. \A m \in 0 .. SIZE_T - 1 : m % SIZE_T = m BY MultithreadAssumption
<1>6. (STORE_MULTITHREAD - l) % SIZE_T = STORE_MULTITHREAD - l BY <1>4, <1>5
<1> QED BY <1>2, <1>3, <1>4, <1>6, MultithreadAssumption

-----------------------------------------------------------------------------
(* Outstanding *)

(* What is outstanding is a sum of three natural numbers.                   *)
LEMMA WorkFinite ==
  ASSUME Types, NEW i \in DOMAIN files
  PROVE  /\ IsFiniteSet(Waiting(i)) /\ Cardinality(Waiting(i)) \in Nat
         /\ IsFiniteSet(Serving(i)) /\ Cardinality(Serving(i)) \in Nat
         /\ FromMain(i) \in Nat
         /\ Outstanding(i) = FromMain(i) + Cardinality(Waiting(i)) + Cardinality(Serving(i))
         /\ Outstanding(i) \in Nat
<1>0. queue \in Seq(Queued) BY DEF Types
<1>1. PICK q \in Nat : q = Len(queue) /\ DOMAIN queue = 1 .. q BY <1>0
<1>2. IsFiniteSet(1 .. q) BY <1>1, FS_Interval
<1>3. Waiting(i) \subseteq 1 .. q BY <1>1 DEF Waiting
<1>4. IsFiniteSet(Waiting(i)) /\ Cardinality(Waiting(i)) \in Nat
  BY <1>2, <1>3, FS_Subset, FS_CardinalityType
<1>5. Serving(i) \subseteq Threads BY DEF Serving
<1>6. IsFiniteSet(Serving(i)) /\ Cardinality(Serving(i)) \in Nat
  BY <1>5, ThreadsAssumption, FS_Subset, FS_CardinalityType
<1>7. FromMain(i) \in Nat
  <2>1. Len(chunks) \in Nat /\ spare \in Nat BY DEF Types
  <2> QED BY <2>1, MultithreadAssumption DEF FromMain
<1>8. Outstanding(i) = FromMain(i) + Cardinality(Waiting(i)) + Cardinality(Serving(i))
  BY DEF Outstanding, Waiting, Serving
<1> QED BY <1>4, <1>6, <1>7, <1>8

(* No step of a thread within its task changes what is outstanding.         *)
LEMMA SameTask ==
  ASSUME Types, NEW t \in Threads, NEW task, pool' = [pool EXCEPT ![t] = task],
         UNCHANGED <<files, main, queue>>,
         \A i : Stores(task, i) <=> Stores(pool[t], i),
         NEW i
  PROVE  /\ Outstanding(i)' = Outstanding(i)
         /\ Waiting(i)' = Waiting(i) /\ Serving(i)' = Serving(i)
<1>1. \A u \in Threads : pool'[u] = IF u = t THEN task ELSE pool[u] BY DEF Types
<1>2. Serving(i)' = Serving(i) BY <1>1 DEF Serving, Stores
<1>3. Waiting(i)' = Waiting(i) BY DEF Waiting, Stores
<1>4. FromMain(i)' = FromMain(i) BY DEF FromMain, main
<1>5. /\ Outstanding(i) = FromMain(i) + Cardinality(Waiting(i)) + Cardinality(Serving(i))
      /\ Outstanding(i)' = FromMain(i)' + Cardinality(Waiting(i)') + Cardinality(Serving(i)')
  BY DEF Outstanding, Waiting, Serving
<1> QED BY <1>2, <1>3, <1>4, <1>5

(* A step that touches no counter keeps the accounts if it keeps what is    *)
(* outstanding.                                                             *)
LEMMA SameAccount ==
  ASSUME IInv, UNCHANGED <<files, counters>>,
         fault' = "none" => fault = "none",
         \A i \in DOMAIN files : rawPacketVec'[i] = "freed" => rawPacketVec[i] = "freed",
         \A i \in DOMAIN files : FileWellSplit(i) => Outstanding(i)' = Outstanding(i)
  PROVE  Exact' /\ Freed'
<1>1. \A i : FileWellSplit(i)' = FileWellSplit(i) BY DEF FileWellSplit
<1>2. Exact' BY <1>1 DEF IInv, Exact, Account, counters
<1>3. Freed' BY <1>1 DEF IInv, Freed
<1> QED BY <1>2, <1>3

(* A step without a memory fault keeps FreedSafe.                          *)
LEMMA SameSafe ==
  ASSUME IInv, files' = files, fault' = fault \/ fault' \notin {"freedRaw", "freedCounter"}
  PROVE  FreedSafe'
<1>1. \A i : FileWellSplit(i)' = FileWellSplit(i) BY DEF FileWellSplit
<1> QED BY <1>1 DEF IInv, FreedSafe

(* A done() that is due: the counter and what is outstanding go down        *)
(* together, and no memory is touched that is gone.                         *)
LEMMA DoneKeeps ==
  ASSUME IInv, fault = "none", NEW i \in DOMAIN files, Done(i),
         UNCHANGED <<files, deleted, rawPacketVec>>,
         Outstanding(i) >= 1, Outstanding(i)' = Outstanding(i) - 1,
         \A j \in DOMAIN files : j # i => Outstanding(j)' = Outstanding(j)
  PROVE  /\ storeCounter' \in Seq(Int) /\ Len(storeCounter') = Len(storeCounter)
         /\ \A j \in DOMAIN files : Passed(j) => Passed(j)'
         /\ Exact' /\ Freed' /\ FreedSafe'
<1> DEFINE Lower == /\ ~deleted /\ i <= Len(storeCounter)
                    /\ storeCounter' = [storeCounter EXCEPT ![i] = storeCounter[i] - 1]
                    /\ fault' = fault
<1>0. /\ files \in Seq(File) /\ storeCounter \in Seq(Int)
      /\ \A j \in DOMAIN files : j \in Nat \ {0}
  BY DEF IInv, Types
<1>1. Lower \/ (storeCounter' = storeCounter /\ fault' # "none")
  BY DEF Done
<1>2. ASSUME Lower
      PROVE  /\ i \in DOMAIN storeCounter
             /\ storeCounter' \in Seq(Int) /\ Len(storeCounter') = Len(storeCounter)
             /\ storeCounter[i] \in Int /\ storeCounter'[i] = storeCounter[i] - 1
             /\ \A j \in DOMAIN storeCounter : j # i => storeCounter'[j] = storeCounter[j]
  BY <1>0, <1>2
<1>3. storeCounter' \in Seq(Int) /\ Len(storeCounter') = Len(storeCounter)
  BY <1>0, <1>1, <1>2
<1>4. ASSUME NEW j \in DOMAIN files, Passed(j) PROVE Passed(j)'
  <2>1. j \in DOMAIN storeCounter BY <1>0, <1>4 DEF Passed
  <2>2. CASE Lower BY <1>2, <1>4, <2>1, <2>2 DEF Passed
  <2>3. CASE storeCounter' = storeCounter BY <1>4, <2>3 DEF Passed
  <2> QED BY <1>1, <2>2, <2>3
<1>5. \A j \in DOMAIN files : FileWellSplit(j)' <=> FileWellSplit(j) BY DEF FileWellSplit
<1>6. ASSUME fault' = "none", NEW j \in DOMAIN files, FileWellSplit(j) PROVE Account(j)'
  <2>1. Lower BY <1>1, <1>6
  <2>2. Account(j) BY <1>6 DEF IInv, Exact
  <2>3. CASE j = i
    <3>1. storeCounter[i] = Outstanding(i) BY <2>1, <2>2, <2>3 DEF Account
    <3>2. storeCounter'[i] = Outstanding(i)' BY <1>2, <2>1, <3>1
    <3> QED BY <1>3, <2>1, <2>3, <3>2 DEF Account
  <2>4. CASE j # i
    <3>1. Outstanding(j)' = Outstanding(j) BY <2>4
    <3>2. j <= Len(storeCounter) => storeCounter'[j] = storeCounter[j]
      BY <1>0, <1>2, <2>1, <2>4
    <3> QED BY <1>3, <2>1, <2>2, <3>1, <3>2 DEF Account
  <2> QED BY <2>3, <2>4
<1>7. Exact' BY <1>5, <1>6 DEF Exact
<1>8. ASSUME fault' = "none", NEW j \in DOMAIN files, FileWellSplit(j), rawPacketVec[j] = "freed"
      PROVE  Outstanding(j)' = 0
  <2>1. Outstanding(j) = 0 BY <1>8 DEF IInv, Freed
  <2> QED BY <2>1
<1>9. Freed' BY <1>5, <1>8 DEF Freed
<1>10. ASSUME fault' \in {"freedRaw", "freedCounter"} PROVE ~FileWellSplit(i)
  <2>1. deleted BY <1>10 DEF Done
  <2> QED BY <2>1 DEF IInv, Exact, Account
<1>11. FreedSafe' BY <1>5, <1>10 DEF FreedSafe
<1> QED BY <1>3, <1>4, <1>7, <1>9, <1>11

-----------------------------------------------------------------------------
(* GarbageCollection stays alone.                                           *)

(* A step within a task starts no second GarbageCollection.                 *)
LEMMA SameGc ==
  ASSUME Types, OneGc, NEW t \in Threads, NEW task, pool' = [pool EXCEPT ![t] = task],
         queue' = queue, task.kind = "gc" => pool[t].kind = "gc"
  PROVE  OneGc'
<1>1. \A u \in Threads : pool'[u] = IF u = t THEN task ELSE pool[u] BY DEF Types
<1>2. \A u \in Threads : pool'[u].kind = "gc" => pool[u].kind = "gc" BY <1>1
<1> QED BY <1>2 DEF OneGc

(* A step of another thread leaves it at its stage.                         *)
LEMMA SameStage ==
  ASSUME IInv, UNCHANGED <<files, deleted>>, Len(storeCounter') = Len(storeCounter),
         \A i \in DOMAIN files : Passed(i) => Passed(i)',
         \A k \in DOMAIN queue' : queue'[k].kind = "gc" =>
             \E j \in DOMAIN queue : queue[j].kind = "gc",
         \A u \in Threads : pool'[u].kind = "gc" => pool'[u] = pool[u]
  PROVE  GcStage'
<1>1. \A k \in DOMAIN queue' : queue'[k].kind = "gc" => ~deleted'
  BY DEF IInv, GcStage
<1>2. ASSUME NEW u \in Threads, pool'[u].kind = "gc"
      PROVE  /\ pool'[u].at \in {"create", "counters", "wait", "delete"} => ~deleted'
             /\ pool'[u].at \in {"wait", "delete"} => Len(storeCounter') = Len(files')
             /\ pool'[u].at = "wait" =>
                    \A i \in DOMAIN files' : i < pool'[u].file => Passed(i)'
             /\ pool'[u].at = "delete" => \A i \in DOMAIN files' : Passed(i)'
  <2>1. pool'[u] = pool[u] BY <1>2
  <2> QED BY <1>2, <2>1 DEF IInv, GcStage
<1> QED BY <1>1, <1>2 DEF GcStage

(* A step within a task keeps the types.                                    *)
LEMMA TaskTypes ==
  ASSUME Types, NEW t \in Threads, NEW task, pool' = [pool EXCEPT ![t] = task], IsTask(task),
         UNCHANGED <<files, main, queue>>,
         rawPacketVec' \in [DOMAIN files -> {"null", "live", "freed"}],
         storeCounter' \in Seq(Int), Len(storeCounter') <= Len(files), deleted' \in BOOLEAN
  PROVE  Types'
<1>1. \A u \in Threads : pool'[u] = IF u = t THEN task ELSE pool[u] BY DEF Types
<1>2. \A u \in Threads : IsTask(pool'[u]) BY <1>1 DEF Types
<1>3. \A u \in Threads : IsTask(pool[u])' BY <1>2 DEF IsTask
<1>4. pool' = [u \in Threads |-> pool'[u]] BY DEF Types
<1>5. queue' \in Seq(Queued') BY DEF Types, Queued
<1> QED BY <1>3, <1>4, <1>5 DEF Types, main

(* A step within a task touches no file that is not read yet.               *)
LEMMA SameUnread ==
  ASSUME IInv, NEW t \in Threads, NEW task, pool' = [pool EXCEPT ![t] = task],
         UNCHANGED <<files, main, queue>>,
         \A i : Stores(task, i) => Stores(pool[t], i),
         \A i \in DOMAIN files : rawPacketVec'[i] = "null" => rawPacketVec[i] = "null"
  PROVE  Unread'
<1>1. \A u \in Threads : pool'[u] = IF u = t THEN task ELSE pool[u] BY DEF IInv, Types
<1>2. \A i : Serving(i)' \subseteq Serving(i) BY <1>1 DEF Serving, Stores
<1>3. \A i : Waiting(i)' = Waiting(i) BY DEF Waiting, Stores
<1>4. UNCHANGED <<file, pc>> BY DEF main
<1> QED BY <1>2, <1>3, <1>4 DEF IInv, Unread

-----------------------------------------------------------------------------
(* The steps of the pool *)

(* A step of GarbageCollection or of a store task that is not its last.     *)
LEMMA WithinTask ==
  ASSUME IInv, fault = "none", UNCHANGED <<files, main, queue, fault>>,
         NEW t \in Threads, NEW task, pool' = [pool EXCEPT ![t] = task], IsTask(task),
         \A i : Stores(task, i) <=> Stores(pool[t], i),
         task.kind = "gc" => pool[t].kind = "gc",
         rawPacketVec' \in [DOMAIN files -> {"null", "live", "freed"}],
         \A i \in DOMAIN files : rawPacketVec'[i] = "null" => rawPacketVec[i] = "null",
         storeCounter' \in Seq(Int), Len(storeCounter') <= Len(files), deleted' \in BOOLEAN
  PROVE  /\ Types' /\ OneGc' /\ Unread' /\ FreedSafe'
         /\ \A i \in DOMAIN files : Outstanding(i)' = Outstanding(i) /\ Outstanding(i) \in Nat
         /\ \A i : FileWellSplit(i)' <=> FileWellSplit(i)
<1>1. Types' BY TaskTypes DEF IInv
<1>2. OneGc' BY SameGc DEF IInv
<1>3. Unread' BY SameUnread
<1>4. FreedSafe' BY SameSafe
<1>5. \A i \in DOMAIN files : Outstanding(i)' = Outstanding(i) /\ Outstanding(i) \in Nat
  BY SameTask, WorkFinite DEF IInv
<1>6. \A i : FileWellSplit(i)' <=> FileWellSplit(i) BY DEF FileWellSplit
<1> QED BY <1>1, <1>2, <1>3, <1>4, <1>5, <1>6

(* The next stage of GarbageCollection.                                     *)
LEMMA NextStage ==
  ASSUME NEW t \in Threads, NEW task, pool'[t] = task,
         \A u \in Threads : u # t => pool'[u].kind # "gc",
         \A k \in DOMAIN queue' : queue'[k].kind # "gc",
         task.kind = "gc" =>
             /\ task.at \in {"create", "counters", "wait", "delete"} => ~deleted'
             /\ task.at \in {"wait", "delete"} => Len(storeCounter') = Len(files')
             /\ task.at = "wait" => \A i \in DOMAIN files' : i < task.file => Passed(i)'
             /\ task.at = "delete" => \A i \in DOMAIN files' : Passed(i)'
  PROVE  GcStage'
<1>1. ASSUME NEW u \in Threads, pool'[u].kind = "gc" PROVE pool'[u] = task BY <1>1
<1>2. \A u \in Threads : pool'[u].kind = "gc" =>
             /\ pool'[u].at \in {"create", "counters", "wait", "delete"} => ~deleted'
             /\ pool'[u].at \in {"wait", "delete"} => Len(storeCounter') = Len(files')
             /\ pool'[u].at = "wait" =>
                    \A i \in DOMAIN files' : i < pool'[u].file => Passed(i)'
             /\ pool'[u].at = "delete" => \A i \in DOMAIN files' : Passed(i)'
  <2> SUFFICES ASSUME NEW u \in Threads, pool'[u].kind = "gc"
               PROVE  /\ task.at \in {"create", "counters", "wait", "delete"} => ~deleted'
                      /\ task.at \in {"wait", "delete"} => Len(storeCounter') = Len(files')
                      /\ task.at = "wait" =>
                             \A i \in DOMAIN files' : i < task.file => Passed(i)'
                      /\ task.at = "delete" => \A i \in DOMAIN files' : Passed(i)'
    BY <1>1
  <2>1. pool'[u] = task BY <1>1
  <2> QED BY <2>1
<1> QED BY <1>2 DEF GcStage

(* The steps of GarbageCollection keep the invariant.                       *)
LEMMA GcSteps ==
  ASSUME IInv, fault = "none", files' = files, NEW t \in Threads,
         GcCreate(t) \/ GcCounters(t) \/ GcWait(t) \/ GcDelete(t) \/ GcDone(t)
  PROVE  IInv'
<1>0. /\ Types /\ GcStage /\ pool[t].kind = "gc" /\ IsTask(pool[t])
      /\ \A i : ~Stores(pool[t], i)
      /\ files \in Seq(File) /\ storeCounter \in Seq(Int)
      /\ Len(files) \in Nat /\ Len(storeCounter) \in Nat /\ Len(storeCounter) <= Len(files)
      /\ DOMAIN files = 1 .. Len(files)
      /\ rawPacketVec \in [DOMAIN files -> {"null", "live", "freed"}]
      /\ deleted \in BOOLEAN
      /\ STORE_MULTITHREAD \in Int
  <2>1. pool[t].kind = "gc" BY DEF GcCreate, GcCounters, GcWait, GcDelete, GcDone
  <2>2. /\ Types /\ GcStage /\ IsTask(pool[t])
        /\ files \in Seq(File) /\ storeCounter \in Seq(Int) /\ Len(storeCounter) <= Len(files)
        /\ rawPacketVec \in [DOMAIN files -> {"null", "live", "freed"}]
        /\ deleted \in BOOLEAN
    BY DEF IInv, Types
  <2>3. \A i : ~Stores(pool[t], i) BY <2>1 DEF Stores
  <2>4. /\ Len(files) \in Nat /\ Len(storeCounter) \in Nat
        /\ DOMAIN files = 1 .. Len(files)
    BY <2>2
  <2> QED BY <2>1, <2>2, <2>3, <2>4, MultithreadAssumption
<1>1. pool[t].file \in Nat \ {0} BY <1>0 DEF IsTask, Idle
<1>2. /\ \A at, i : GcTask(at, i).kind = "gc" /\ GcTask(at, i).at = at
                                              /\ GcTask(at, i).file = i
      /\ \A at, i, j : ~Stores(GcTask(at, i), j)
      /\ \A at \in {"create", "counters", "wait", "delete", "done"}, i \in Nat \ {0} :
             IsTask(GcTask(at, i))
      /\ IsTask(GcTask("counters", 1)) /\ IsTask(GcTask("wait", 1))
      /\ Idle.kind = "idle" /\ IsTask(Idle) /\ \A j : ~Stores(Idle, j)
  BY DEF GcTask, Idle, Stores, IsTask
(* No other thread and no entry of the queue is a gc task.                  *)
<1>3. ASSUME NEW task, pool' = [pool EXCEPT ![t] = task], queue' = queue
      PROVE  /\ pool'[t] = task
             /\ \A u \in Threads : u # t => pool'[u].kind # "gc"
             /\ \A k \in DOMAIN queue' : queue'[k].kind # "gc"
  <2>1. \A u \in Threads : pool'[u] = IF u = t THEN task ELSE pool[u] BY <1>0, <1>3 DEF Types
  <2> QED BY <1>0, <1>3, <2>1 DEF IInv, OneGc
<1>4. CASE GcCreate(t)
  <2>1. /\ pool' = [pool EXCEPT ![t] = GcTask("counters", 1)]
        /\ UNCHANGED <<main, queue, rawPacketVec, counters, fault>> /\ ~deleted
    BY <1>0, <1>4 DEF GcCreate, GcStage
  <2>2. UNCHANGED <<storeCounter, deleted>> BY <2>1 DEF counters
  <2>3. /\ Types' /\ OneGc' /\ Unread' /\ FreedSafe'
        /\ \A i \in DOMAIN files : Outstanding(i)' = Outstanding(i)
    BY <1>0, <1>2, <2>1, <2>2, WithinTask
  <2>4. GcStage'
    <3> DEFINE task == GcTask("counters", 1)
    <3>1. /\ pool'[t] = task /\ \A u \in Threads : u # t => pool'[u].kind # "gc"
          /\ \A k \in DOMAIN queue' : queue'[k].kind # "gc"
      BY <1>3, <2>1
    <3>2. task.kind = "gc" /\ task.at = "counters" BY <1>2
    <3> HIDE DEF task
    <3> QED BY <3>1, <3>2, NextStage, <2>1, <2>2
  <2>5. Exact' /\ Freed' BY <2>1, <2>3, SameAccount
  <2> QED BY <2>3, <2>4, <2>5 DEF IInv
<1>5. CASE GcCounters(t) /\ Len(storeCounter) < Len(files)
  <2>1. /\ storeCounter' = Append(storeCounter, STORE_MULTITHREAD) /\ pool' = pool
        /\ UNCHANGED <<main, queue, rawPacketVec, deleted, fault>> /\ ~deleted
        /\ pool[t].at = "counters"
    BY <1>0, <1>5 DEF GcCounters, GcStage
  <2>2. /\ storeCounter' \in Seq(Int) /\ Len(storeCounter') = Len(storeCounter) + 1
        /\ storeCounter'[Len(storeCounter) + 1] = STORE_MULTITHREAD
        /\ \A i \in 1 .. Len(storeCounter) : storeCounter'[i] = storeCounter[i]
    BY <1>0, <2>1
  <2>3. pool' = [pool EXCEPT ![t] = pool[t]] /\ Len(storeCounter') <= Len(files)
    BY <1>0, <1>5, <2>1, <2>2 DEF Types
  <2>4. /\ Types' /\ OneGc' /\ Unread' /\ FreedSafe'
        /\ \A i \in DOMAIN files : Outstanding(i)' = Outstanding(i)
        /\ \A i : FileWellSplit(i)' <=> FileWellSplit(i)
    BY <1>0, <1>5, <2>1, <2>2, <2>3, WithinTask
  <2>5. GcStage' BY <1>0, <1>3, <2>1, <2>3, NextStage
  <2>6. ASSUME NEW i \in DOMAIN files, FileWellSplit(i) PROVE Account(i)'
    <3>1. Account(i) BY <2>6 DEF IInv, Exact
    <3>2. Outstanding(i)' = Outstanding(i) BY <2>4
    <3>3. i \in Nat \ {0} BY <1>0
    <3>4. CASE i <= Len(storeCounter) BY <1>0, <2>1, <2>2, <3>1, <3>2, <3>3, <3>4 DEF Account
    <3>5. CASE i = Len(storeCounter) + 1
      BY <1>0, <2>1, <2>2, <3>1, <3>2, <3>3, <3>5 DEF Account
    <3>6. CASE i > Len(storeCounter) + 1
      BY <1>0, <2>1, <2>2, <3>1, <3>2, <3>3, <3>6 DEF Account
    <3> QED BY <1>0, <3>3, <3>4, <3>5, <3>6
  <2>7. Exact' BY <2>4, <2>6 DEF Exact
  <2>8. Freed' BY <2>1, <2>4 DEF IInv, Freed
  <2> QED BY <2>4, <2>5, <2>7, <2>8 DEF IInv
<1>6. CASE GcCounters(t) /\ ~(Len(storeCounter) < Len(files))
  <2>1. /\ pool' = [pool EXCEPT ![t] = GcTask("wait", 1)]
        /\ UNCHANGED <<main, queue, rawPacketVec, storeCounter, deleted, fault>> /\ ~deleted
    BY <1>0, <1>6 DEF GcCounters, GcStage
  <2>2. /\ Types' /\ OneGc' /\ Unread' /\ FreedSafe'
        /\ \A i \in DOMAIN files : Outstanding(i)' = Outstanding(i)
    BY <1>0, <1>2, <2>1, WithinTask
  <2>3. Len(storeCounter) = Len(files) BY <1>0, <1>6
  <2>4. \A i \in DOMAIN files : ~(i < 1) BY <1>0
  <2>5. GcStage'
    <3> DEFINE task == GcTask("wait", 1)
    <3>1. /\ pool'[t] = task /\ \A u \in Threads : u # t => pool'[u].kind # "gc"
          /\ \A k \in DOMAIN queue' : queue'[k].kind # "gc"
      BY <1>3, <2>1
    <3>2. task.kind = "gc" /\ task.at = "wait" /\ task.file = 1 BY <1>2
    <3> HIDE DEF task
    <3> QED BY <3>1, <3>2, NextStage, <2>1, <2>3, <2>4
  <2>6. Exact' /\ Freed' BY <2>1, <2>2, SameAccount DEF counters
  <2> QED BY <2>2, <2>5, <2>6 DEF IInv
<1>7. CASE GcWait(t) /\ pool[t].file <= Len(files)
  <2> DEFINE i == pool[t].file
  <2>1. /\ pool' = [pool EXCEPT ![t] = GcTask("wait", i + 1)]
        /\ rawPacketVec' = [rawPacketVec EXCEPT ![i] = "freed"]
        /\ storeCounter[i] <= 0
        /\ UNCHANGED <<main, queue, counters, fault>> /\ ~deleted
        /\ Len(storeCounter) = Len(files)
        /\ \A j \in DOMAIN files : j < i => Passed(j)
    BY <1>0, <1>1, <1>7 DEF GcWait, GcStage
  <2>2. i \in DOMAIN files /\ i + 1 \in Nat \ {0} BY <1>0, <1>1, <1>7
  <2>3. UNCHANGED <<storeCounter, deleted>> BY <2>1 DEF counters
  <2>4. /\ rawPacketVec' \in [DOMAIN files -> {"null", "live", "freed"}]
        /\ \A j \in DOMAIN files : rawPacketVec'[j] = IF j = i THEN "freed" ELSE rawPacketVec[j]
    BY <1>0, <2>1, <2>2
  <2> HIDE DEF i
  <2>5. /\ Types' /\ OneGc' /\ Unread' /\ FreedSafe'
        /\ \A j \in DOMAIN files : Outstanding(j)' = Outstanding(j) /\ Outstanding(j) \in Nat
        /\ \A j : FileWellSplit(j)' <=> FileWellSplit(j)
    BY <1>0, <1>2, <2>1, <2>2, <2>3, <2>4, WithinTask
  <2>6. Passed(i) BY <1>0, <2>1, <2>2 DEF Passed
  <2>7. \A j \in DOMAIN files : j < i + 1 => Passed(j)'
    <3> SUFFICES ASSUME NEW j \in DOMAIN files, j < i + 1 PROVE Passed(j) BY <2>3 DEF Passed
    <3>1. j < i \/ j = i BY <1>0, <2>2
    <3> QED BY <2>1, <2>6, <3>1
  <2>8. GcStage'
    <3> DEFINE task == GcTask("wait", i + 1)
    <3>1. /\ pool'[t] = task /\ \A u \in Threads : u # t => pool'[u].kind # "gc"
          /\ \A k \in DOMAIN queue' : queue'[k].kind # "gc"
      BY <1>3, <2>1
    <3>2. task.kind = "gc" /\ task.at = "wait" /\ task.file = i + 1 BY <1>2
    <3> HIDE DEF task
    <3> QED BY <3>1, <3>2, NextStage, <2>1, <2>3, <2>7
  <2>9. Exact'
    <3>1. \A j \in DOMAIN files : FileWellSplit(j) => Account(j) BY DEF IInv, Exact
    <3> QED BY <2>3, <2>5, <3>1 DEF Exact, Account
  <2>10. FileWellSplit(i) => Outstanding(i) = 0
    <3> SUFFICES ASSUME FileWellSplit(i) PROVE Outstanding(i) = 0 OBVIOUS
    <3>1. storeCounter[i] = Outstanding(i) BY <2>1, <2>2, <2>6 DEF IInv, Exact, Account, Passed
    <3> QED BY <2>1, <2>2, <2>5, <3>1
  <2>11. Freed' BY <2>4, <2>5, <2>10 DEF IInv, Freed
  <2> QED BY <2>5, <2>8, <2>9, <2>11 DEF IInv
<1>8. CASE GcWait(t) /\ ~(pool[t].file <= Len(files))
  <2>1. /\ pool' = [pool EXCEPT ![t] = GcTask("delete", pool[t].file)]
        /\ UNCHANGED <<main, queue, rawPacketVec, counters, fault>> /\ ~deleted
        /\ Len(storeCounter) = Len(files)
        /\ \A j \in DOMAIN files : j < pool[t].file => Passed(j)
    BY <1>0, <1>8 DEF GcWait, GcStage
  <2>2. UNCHANGED <<storeCounter, deleted>> BY <2>1 DEF counters
  <2>3. /\ Types' /\ OneGc' /\ Unread' /\ FreedSafe'
        /\ \A i \in DOMAIN files : Outstanding(i)' = Outstanding(i)
    BY <1>0, <1>1, <1>2, <2>1, <2>2, WithinTask
  <2>4. \A j \in DOMAIN files : j < pool[t].file BY <1>0, <1>1, <1>8
  <2>5. \A j \in DOMAIN files : Passed(j)' BY <2>1, <2>2, <2>4 DEF Passed
  <2>6. GcStage' BY <1>2, <1>3, <2>1, <2>2, <2>5, NextStage
  <2>7. Exact' /\ Freed' BY <2>1, <2>3, SameAccount
  <2> QED BY <2>3, <2>6, <2>7 DEF IInv
<1>9. CASE GcDelete(t)
  <2>1. /\ pool' = [pool EXCEPT ![t] = GcTask("done", pool[t].file)]
        /\ storeCounter' = <<>> /\ deleted' = TRUE
        /\ UNCHANGED <<main, queue, rawPacketVec, fault>> /\ ~deleted
        /\ \A j \in DOMAIN files : Passed(j)
    BY <1>0, <1>9 DEF GcDelete, GcStage
  <2>2. storeCounter' \in Seq(Int) /\ Len(storeCounter') <= Len(files) BY <1>0, <2>1
  <2>3. /\ Types' /\ OneGc' /\ Unread' /\ FreedSafe'
        /\ \A j \in DOMAIN files : Outstanding(j)' = Outstanding(j) /\ Outstanding(j) \in Nat
        /\ \A j : FileWellSplit(j)' <=> FileWellSplit(j)
    BY <1>0, <1>1, <1>2, <2>1, <2>2, WithinTask
  <2>4. GcStage'
    <3> DEFINE task == GcTask("done", pool[t].file)
    <3>1. /\ pool'[t] = task /\ \A u \in Threads : u # t => pool'[u].kind # "gc"
          /\ \A k \in DOMAIN queue' : queue'[k].kind # "gc"
      BY <1>3, <2>1
    <3>2. task.kind = "gc" /\ task.at = "done" BY <1>2
    <3> HIDE DEF task
    <3> QED BY <3>1, <3>2, NextStage, <2>1
  <2>5. ASSUME NEW j \in DOMAIN files, FileWellSplit(j) PROVE Outstanding(j) = 0
    <3>1. storeCounter[j] = Outstanding(j) /\ storeCounter[j] <= 0
      BY <2>1, <2>5 DEF IInv, Exact, Account, Passed
    <3> QED BY <2>3, <3>1
  <2>6. Exact' BY <2>1, <2>3, <2>5 DEF Exact, Account
  <2>7. Freed' BY <2>1, <2>3 DEF IInv, Freed
  <2> QED BY <2>3, <2>4, <2>6, <2>7 DEF IInv
<1>10. CASE GcDone(t)
  <2>1. /\ pool' = [pool EXCEPT ![t] = Idle]
        /\ UNCHANGED <<main, queue, rawPacketVec, counters, fault>>
    BY <1>10 DEF GcDone
  <2>2. UNCHANGED <<storeCounter, deleted>> BY <2>1 DEF counters
  <2>3. /\ Types' /\ OneGc' /\ Unread' /\ FreedSafe'
        /\ \A i \in DOMAIN files : Outstanding(i)' = Outstanding(i)
    BY <1>0, <1>2, <2>1, <2>2, WithinTask
  <2>4. GcStage' BY <1>2, <1>3, <2>1, NextStage
  <2>5. Exact' /\ Freed' BY <2>1, <2>3, SameAccount
  <2> QED BY <2>3, <2>4, <2>5 DEF IInv
<1> QED BY <1>4, <1>5, <1>6, <1>7, <1>8, <1>9, <1>10

(* The steps of StoreKPackets keep the invariant.                           *)
LEMMA StoreSteps ==
  ASSUME IInv, fault = "none", files' = files, NEW t \in Threads,
         RawFault(t) \/ Parse(t) \/ Store(t) \/ StoreDone(t)
  PROVE  IInv'
<1>a. Types /\ Storing(t) /\ pool[t].kind = "store" /\ IsTask(pool[t])
  BY DEF IInv, Types, RawFault, Parse, Store, StoreDone, Storing
<1>b. PICK i \in DOMAIN files : i = pool[t].file BY <1>a DEF IsTask, Idle
<1>0. /\ Types /\ pool[t].kind = "store" /\ t \in Serving(i)
      /\ Len(storeCounter) <= Len(files) /\ storeCounter \in Seq(Int)
      /\ rawPacketVec \in [DOMAIN files -> {"null", "live", "freed"}]
      /\ deleted \in BOOLEAN
      /\ \A task : pool' = [pool EXCEPT ![t] = task] =>
             \A u \in Threads : pool'[u] = IF u = t THEN task ELSE pool[u]
  <2>1. t \in Serving(i) BY <1>a, <1>b DEF Serving, Stores
  <2>2. \A task : pool' = [pool EXCEPT ![t] = task] =>
             \A u \in Threads : pool'[u] = IF u = t THEN task ELSE pool[u]
    BY <1>a DEF Types
  <2> QED BY <1>a, <2>1, <2>2 DEF Types
<1>1. /\ \A todo, at, reg : LET task == StoreTask(i, todo, at, reg)
                            IN  /\ task.kind = "store" /\ task.file = i /\ IsTask(task)
                                /\ \A j : Stores(task, j) <=> Stores(pool[t], j)
      /\ Idle.kind = "idle" /\ IsTask(Idle) /\ \A j : ~Stores(Idle, j)
  BY <1>0, <1>b DEF StoreTask, Idle, IsTask, Stores
<1>2. /\ IsFiniteSet(Serving(i)) /\ Outstanding(i) >= 1
      /\ Cardinality(Serving(i)) \in Nat \ {0} /\ Cardinality(Waiting(i)) \in Nat
      /\ FromMain(i) \in Nat
      /\ Outstanding(i) = FromMain(i) + Cardinality(Waiting(i)) + Cardinality(Serving(i))
  <2>1. /\ IsFiniteSet(Serving(i)) /\ Cardinality(Serving(i)) \in Nat
        /\ Cardinality(Waiting(i)) \in Nat /\ FromMain(i) \in Nat
        /\ Outstanding(i) = FromMain(i) + Cardinality(Waiting(i)) + Cardinality(Serving(i))
    BY <1>0, WorkFinite
  <2>2. Cardinality(Serving(i)) # 0 BY <1>0, <2>1, FS_EmptySet
  <2>3. Outstanding(i) >= 1 BY <2>1, <2>2
  <2> QED BY <2>1, <2>2, <2>3
<1>3. CASE RawFault(t)
  <2>1. /\ UNCHANGED <<pool, queue, pc, file, chunks, spare, rawPacketVec, storeCounter, deleted>>
        /\ fault' = "freedRaw" /\ rawPacketVec[i] # "live"
    BY <1>3, <1>b DEF RawFault, main, counters, TouchRaw
  <2>2. Types' BY <2>1 DEF IInv, Types, IsTask, Queued
  <2>3. OneGc' BY <2>1 DEF IInv, OneGc
  <2>4. GcStage' BY <2>1 DEF IInv, GcStage, Passed
  <2>5. Unread' BY <2>1 DEF IInv, Unread, Waiting, Serving, Stores
  <2>6. Exact' /\ Freed' BY <2>1 DEF Exact, Freed
  <2>7. rawPacketVec[i] = "freed" BY <1>0, <2>1 DEF IInv, Unread
  <2>8. ~FileWellSplit(i) BY <1>0, <1>2, <2>7 DEF IInv, Freed
  <2>9. FreedSafe' BY <1>0, <2>8 DEF FreedSafe, FileWellSplit
  <2> QED BY <2>2, <2>3, <2>4, <2>5, <2>6, <2>9 DEF IInv
<1>4. CASE Parse(t) \/ Store(t)
  <2>1. PICK todo, at, reg : pool' = [pool EXCEPT ![t] = StoreTask(i, todo, at, reg)]
    <3>1. CASE Parse(t) BY <1>b, <3>1 DEF Parse
    <3>2. CASE Store(t) BY <1>b, <3>2 DEF Store
    <3> QED BY <1>4, <3>1, <3>2
  <2> DEFINE task == StoreTask(i, todo, at, reg)
  <2>2. UNCHANGED <<main, queue, rawPacketVec, counters, storeCounter, deleted, fault>>
    BY <1>4 DEF Parse, Store, counters
  <2>3. /\ task.kind = "store" /\ IsTask(task)
        /\ \A j : Stores(task, j) <=> Stores(pool[t], j)
    BY <1>1
  <2>4. pool' = [pool EXCEPT ![t] = task] BY <2>1
  <2> HIDE DEF task
  <2>5. /\ Types' /\ OneGc' /\ Unread' /\ FreedSafe'
        /\ \A j \in DOMAIN files : Outstanding(j)' = Outstanding(j)
    BY <1>0, <2>2, <2>3, <2>4, WithinTask
  <2>6. Exact' /\ Freed' BY <2>2, <2>5, SameAccount
  <2>7. \A j : Passed(j) => Passed(j)' BY <2>2 DEF Passed
  <2>8. \A u \in Threads : pool'[u].kind = "gc" => pool'[u] = pool[u] BY <1>0, <2>3, <2>4
  <2>9. GcStage' BY <2>2, <2>7, <2>8, SameStage
  <2> QED BY <2>5, <2>6, <2>9 DEF IInv
<1>5. CASE StoreDone(t)
  <2>1. /\ Done(i) /\ pool' = [pool EXCEPT ![t] = Idle]
        /\ UNCHANGED <<main, pc, file, chunks, spare, queue, rawPacketVec, deleted>>
    BY <1>5, <1>b DEF StoreDone, main
  <2>2. \A u \in Threads : pool'[u] = IF u = t THEN Idle ELSE pool[u] BY <1>0, <2>1
  <2>3. Serving(i)' = Serving(i) \ {t} BY <1>1, <2>2 DEF Serving, Stores
  <2>4. \A j : j # i => Serving(j)' = Serving(j) BY <1>1, <2>2 DEF Serving, Stores
  <2>5. \A j : Waiting(j)' = Waiting(j) /\ FromMain(j)' = FromMain(j)
    BY <2>1 DEF Waiting, Stores, FromMain
  <2>6. \A j : Outstanding(j)' = FromMain(j)' + Cardinality(Waiting(j)') + Cardinality(Serving(j)')
    BY DEF Outstanding, Waiting, Serving
  <2>7. \A j \in DOMAIN files : j # i => Outstanding(j)' = Outstanding(j)
    <3>1. \A j : Outstanding(j) = FromMain(j) + Cardinality(Waiting(j)) + Cardinality(Serving(j))
      BY DEF Outstanding, Waiting, Serving
    <3> QED BY <2>4, <2>5, <2>6, <3>1
  <2>8. Outstanding(i)' = Outstanding(i) - 1
    <3>0. Cardinality(Serving(i) \ {t}) = Cardinality(Serving(i)) - 1
      BY <1>0, <1>2, FS_RemoveElement
    <3>1. Cardinality(Serving(i)') = Cardinality(Serving(i)) - 1 BY <2>3, <3>0
    <3>2. Outstanding(i)' = FromMain(i) + Cardinality(Waiting(i)) + (Cardinality(Serving(i)) - 1)
      BY <2>5, <2>6, <3>1
    <3> QED BY <1>2, <3>2
  <2>9. /\ storeCounter' \in Seq(Int) /\ Len(storeCounter') = Len(storeCounter)
        /\ \A j \in DOMAIN files : Passed(j) => Passed(j)'
        /\ Exact' /\ Freed' /\ FreedSafe'
    BY <1>0, <1>2, <2>1, <2>7, <2>8, DoneKeeps
  <2>10. Types' BY <1>0, <1>1, <2>1, <2>9, TaskTypes
  <2>11. OneGc' BY <1>1, <2>1, SameGc DEF IInv
  <2>12. Unread' BY <1>1, <2>1, SameUnread
  <2>13. \A u \in Threads : pool'[u].kind = "gc" => pool'[u] = pool[u] BY <1>1, <2>2
  <2>14. GcStage' BY <2>1, <2>9, <2>13, SameStage
  <2> QED BY <2>9, <2>10, <2>11, <2>12, <2>14 DEF IInv
<1> QED BY <1>3, <1>4, <1>5

(* Moving every entry of the queue one place forward.                       *)
LEMMA ShiftCardinality ==
  ASSUME NEW S, IsFiniteSet(S), S \subseteq Nat, NEW T, T = {k - 1 : k \in S}
  PROVE  Cardinality(T) = Cardinality(S)
<1> DEFINE f == [k \in S |-> k - 1]
<1>1. f \in [S -> T] /\ DOMAIN f = S OBVIOUS
<1>2. f \in Surjection(S, T) BY DEF Surjection
<1>3. \A a, b \in S : f[a] = f[b] => a = b
  <2> SUFFICES ASSUME NEW a \in S, NEW b \in S, a - 1 = b - 1 PROVE a = b OBVIOUS
  <2>1. a \in Nat /\ b \in Nat OBVIOUS
  <2> QED BY <2>1
<1> HIDE DEF f
<1>4. f \in Injection(S, T) BY <1>1, <1>3 DEF Injection, IsInjective
<1> QED BY <1>2, <1>4, FS_Surjection

(* A thread that takes a task off the queue keeps the invariant.            *)
LEMMA DispatchStep ==
  ASSUME IInv, fault = "none", files' = files, NEW t \in Threads, Dispatch(t)
  PROVE  IInv'
<1> DEFINE task == Head(queue)
<1>0. /\ pool[t] = Idle /\ Idle.kind = "idle" /\ queue # <<>>
      /\ pool' = [pool EXCEPT ![t] = task] /\ queue' = Tail(queue)
      /\ UNCHANGED <<pc, file, chunks, spare, rawPacketVec, counters, storeCounter, deleted, fault>>
  BY DEF Dispatch, Idle, main, counters
<1>1. queue \in Seq(Queued) BY DEF IInv, Types
<1>2. PICK q \in Nat \ {0} : q = Len(queue) BY <1>0, <1>1
<1>3. /\ DOMAIN queue = 1 .. q /\ DOMAIN queue' = 1 .. q - 1
      /\ task = queue[1] /\ task \in Queued
      /\ \A k \in 1 .. q - 1 : queue'[k] = queue[k + 1]
      /\ queue' \in Seq(Queued)
  BY <1>0, <1>1, <1>2
<1>4. IsTask(task) BY <1>3 DEF Queued, IsTask, GcTask, StoreTask, IInv, Types
<1> HIDE DEF task
<1>5. \A u \in Threads : pool'[u] = IF u = t THEN task ELSE pool[u] BY <1>0 DEF IInv, Types
<1>6. Types'
  <2>1. \A u \in Threads : IsTask(pool'[u]) BY <1>4, <1>5 DEF IInv, Types
  <2>2. \A u \in Threads : IsTask(pool[u])' BY <2>1 DEF IsTask
  <2>3. pool' = [u \in Threads |-> pool'[u]] BY <1>0 DEF IInv, Types
  <2>4. queue' \in Seq(Queued') BY <1>3 DEF Queued
  <2> QED BY <1>0, <2>2, <2>3, <2>4 DEF IInv, Types
<1>7. /\ \A k \in DOMAIN queue' : k + 1 \in DOMAIN queue /\ k + 1 # 1 /\ queue'[k] = queue[k + 1]
      /\ 1 \in DOMAIN queue /\ task = queue[1]
      /\ \A k, j \in DOMAIN queue' : k + 1 = j + 1 => k = j
  BY <1>2, <1>3
<1>8. OneGc'
  <2>1. CASE task.kind = "gc"
    <3>1. \A u \in Threads : pool[u].kind # "gc" BY <1>7, <2>1 DEF IInv, OneGc
    <3>2. \A k \in DOMAIN queue' : queue'[k].kind # "gc" BY <1>7, <2>1 DEF IInv, OneGc
    <3>3. \A u \in Threads : pool'[u].kind = "gc" => u = t BY <1>5, <3>1
    <3> QED BY <3>2, <3>3 DEF OneGc
  <2>2. CASE task.kind # "gc"
    <3>1. \A u \in Threads : pool'[u].kind = "gc" => pool[u].kind = "gc" BY <1>5, <2>2
    <3>2. \A k \in DOMAIN queue' : queue'[k].kind = "gc" =>
             queue[k + 1].kind = "gc" /\ k + 1 \in DOMAIN queue
      BY <1>7
    <3>3. \A u, v \in Threads : pool'[u].kind = "gc" /\ pool'[v].kind = "gc" => u = v
      BY <3>1 DEF IInv, OneGc
    <3>4. \A k \in DOMAIN queue' : queue'[k].kind = "gc" =>
             /\ \A u \in Threads : pool'[u].kind # "gc"
             /\ \A j \in DOMAIN queue' : queue'[j].kind = "gc" => j = k
      <4> SUFFICES ASSUME NEW k \in DOMAIN queue', queue'[k].kind = "gc"
                   PROVE  /\ \A u \in Threads : pool'[u].kind # "gc"
                          /\ \A j \in DOMAIN queue' : queue'[j].kind = "gc" => j = k
        OBVIOUS
      <4>1. \A u \in Threads : pool'[u].kind # "gc" BY <3>1, <3>2 DEF IInv, OneGc
      <4>2. ASSUME NEW j \in DOMAIN queue', queue'[j].kind = "gc" PROVE j = k
        <5>1. j + 1 = k + 1 BY <3>2, <4>2 DEF IInv, OneGc
        <5> QED BY <1>7, <5>1
      <4> QED BY <4>1, <4>2
    <3> QED BY <3>3, <3>4 DEF OneGc
  <2> QED BY <2>1, <2>2
<1>9. GcStage'
  <2>1. \A i : Passed(i)' <=> Passed(i) BY <1>0 DEF Passed
  <2>2. \A k \in DOMAIN queue' : queue'[k].kind = "gc" => ~deleted'
    BY <1>0, <1>7 DEF IInv, GcStage
  <2>3. task.kind = "gc" => task.at = "create" /\ ~deleted
    <3> SUFFICES ASSUME task.kind = "gc" PROVE task.at = "create" /\ ~deleted OBVIOUS
    <3>1. task.at = "create" BY <1>3 DEF Queued, GcTask, StoreTask
    <3> QED BY <1>7, <3>1 DEF IInv, GcStage
  <2>4. CASE task.kind = "gc"
    <3>1. \A u \in Threads : u # t => pool'[u].kind # "gc" BY <1>5, <1>7, <2>4 DEF IInv, OneGc
    <3>2. \A k \in DOMAIN queue' : queue'[k].kind # "gc" BY <1>7, <2>4 DEF IInv, OneGc
    <3>3. pool'[t] = task BY <1>5
    <3> QED BY <1>0, <2>3, <2>4, <3>1, <3>2, <3>3, NextStage
  <2>5. CASE task.kind # "gc"
    <3>1. \A u \in Threads : pool'[u].kind = "gc" => pool'[u] = pool[u] BY <1>5, <2>5
    <3>2. \A k \in DOMAIN queue' : queue'[k].kind = "gc" =>
             \E j \in DOMAIN queue : queue[j].kind = "gc"
      BY <1>7
    <3> QED BY <1>0, <2>1, <3>1, <3>2, SameStage
  <2> QED BY <2>4, <2>5
(* The entry leaves the queue and arrives at the thread.                    *)
<1>10. ASSUME NEW i \in DOMAIN files
       PROVE  /\ Outstanding(i)' = Outstanding(i)
              /\ Waiting(i) = {} /\ Serving(i) = {} => Waiting(i)' = {} /\ Serving(i)' = {}
  <2>1. /\ IsFiniteSet(Waiting(i)) /\ Cardinality(Waiting(i)) \in Nat
        /\ IsFiniteSet(Serving(i)) /\ Cardinality(Serving(i)) \in Nat
        /\ FromMain(i) \in Nat
    BY WorkFinite DEF IInv
  <2>2. Waiting(i) \ {1} \subseteq Nat /\ IsFiniteSet(Waiting(i) \ {1})
    <3>1. Waiting(i) \ {1} \subseteq Nat BY <1>3 DEF Waiting
    <3>2. IsFiniteSet(Waiting(i) \ {1}) BY <2>1, FS_RemoveElement
    <3> QED BY <3>1, <3>2
  <2>3. Waiting(i)' = {k - 1 : k \in Waiting(i) \ {1}}
    <3>1. ASSUME NEW k \in Waiting(i)' PROVE \E j \in Waiting(i) \ {1} : k = j - 1
      <4>1. k \in DOMAIN queue' /\ Stores(queue'[k], i) BY <3>1 DEF Waiting, Stores
      <4>2. k + 1 \in Waiting(i) \ {1} BY <1>7, <4>1 DEF Waiting
      <4>3. k = (k + 1) - 1 BY <1>3, <4>1
      <4> QED BY <4>2, <4>3
    <3>2. ASSUME NEW j \in Waiting(i) \ {1} PROVE j - 1 \in Waiting(i)'
      <4>1. j \in 1 .. q /\ j # 1 /\ Stores(queue[j], i) BY <1>3 DEF Waiting
      <4>2. j - 1 \in 1 .. q - 1 /\ (j - 1) + 1 = j BY <1>2, <4>1
      <4>3. j - 1 \in DOMAIN queue' /\ queue'[j - 1] = queue[j] BY <1>3, <4>2
      <4> QED BY <4>1, <4>3 DEF Waiting, Stores
    <3> QED BY <3>1, <3>2
  <2>4. Cardinality(Waiting(i)') = Cardinality(Waiting(i) \ {1})
    BY <2>2, <2>3, ShiftCardinality
  <2>5. FromMain(i)' = FromMain(i) BY <1>0 DEF FromMain
  <2>6. /\ Outstanding(i) = FromMain(i) + Cardinality(Waiting(i)) + Cardinality(Serving(i))
        /\ Outstanding(i)' = FromMain(i)' + Cardinality(Waiting(i)') + Cardinality(Serving(i)')
    BY DEF Outstanding, Waiting, Serving
  <2>7. CASE Stores(task, i)
    <3>1. 1 \in Waiting(i) BY <1>7, <2>7 DEF Waiting
    <3>2. t \notin Serving(i) BY <1>0 DEF Serving, Stores
    <3>3. Serving(i)' = Serving(i) \cup {t} BY <1>5, <2>7 DEF Serving, Stores
    <3>4. Cardinality(Waiting(i) \ {1}) = Cardinality(Waiting(i)) - 1
      BY <2>1, <3>1, FS_RemoveElement
    <3>5. Cardinality(Serving(i) \cup {t}) = Cardinality(Serving(i)) + 1
      BY <2>1, <3>2, FS_AddElement
    <3>6. /\ Cardinality(Waiting(i)') = Cardinality(Waiting(i)) - 1
          /\ Cardinality(Serving(i)') = Cardinality(Serving(i)) + 1
      BY <2>4, <3>3, <3>4, <3>5
    <3>7. Outstanding(i)' = FromMain(i) + (Cardinality(Waiting(i)) - 1) + (Cardinality(Serving(i)) + 1)
      BY <2>5, <2>6, <3>6
    <3>8. Outstanding(i)' = Outstanding(i) BY <2>1, <2>6, <3>7
    <3> QED BY <3>1, <3>8
  <2>8. CASE ~Stores(task, i)
    <3>1. Serving(i)' = Serving(i)
      <4>1. ~Stores(pool[t], i) BY <1>0 DEF Stores
      <4> QED BY <1>5, <2>8, <4>1 DEF Serving, Stores
    <3>2. Waiting(i) \ {1} = Waiting(i) BY <1>7, <2>8 DEF Waiting
    <3>3. Outstanding(i)' = Outstanding(i) BY <2>4, <2>5, <2>6, <3>1, <3>2
    <3> QED BY <2>3, <3>1, <3>2, <3>3
  <2> QED BY <2>7, <2>8
<1>11. Unread' BY <1>0, <1>10 DEF IInv, Unread
<1>12. Exact' /\ Freed' BY <1>0, <1>10, SameAccount
<1>13. FreedSafe' BY <1>0, SameSafe
<1> QED BY <1>6, <1>8, <1>9, <1>11, <1>12, <1>13 DEF IInv

-----------------------------------------------------------------------------
(* The steps of the main thread *)

(* While it leaves the queue, the pool and the counters alone.              *)
LEMMA MainAlone ==
  ASSUME IInv, fault = "none", UNCHANGED <<files, queue, pool, counters>>,
         fault' \notin {"freedRaw", "freedCounter"},
         pc' \in {"open", "start", "spare", "noReturn", "exit", "done"},
         file' \in Nat \ {0}, chunks' \in Seq(Seq(Nat)), spare' \in Nat,
         pc' \in {"start", "spare"} => file' \in DOMAIN files,
         pc' = "spare" => chunks' = <<>>,
         rawPacketVec' \in [DOMAIN files -> {"null", "live", "freed"}],
         \A i \in DOMAIN files : rawPacketVec'[i] = "freed" => rawPacketVec[i] = "freed",
         \A i \in DOMAIN files : rawPacketVec'[i] = "null" =>
             /\ rawPacketVec[i] = "null"
             /\ file' <= i
             /\ file' = i => pc' \notin {"start", "spare"},
         \A i \in DOMAIN files : FileWellSplit(i) => FromMain(i)' = FromMain(i)
  PROVE  IInv'
<1>1. \A i : Waiting(i)' = Waiting(i) /\ Serving(i)' = Serving(i)
  BY DEF Waiting, Serving, Stores
<1>2. \A i \in DOMAIN files : FileWellSplit(i) => Outstanding(i)' = Outstanding(i)
  <2>1. \A i : /\ Outstanding(i) = FromMain(i) + Cardinality(Waiting(i)) + Cardinality(Serving(i))
               /\ Outstanding(i)' =
                      FromMain(i)' + Cardinality(Waiting(i)') + Cardinality(Serving(i)')
    BY DEF Outstanding, Waiting, Serving
  <2> QED BY <1>1, <2>1
<1>3. Types' BY DEF IInv, Types, IsTask, Queued, counters
<1>4. OneGc' BY DEF IInv, OneGc
<1>5. GcStage' BY DEF IInv, GcStage, Passed, counters
<1>6. Exact' /\ Freed' BY <1>2, SameAccount
<1>7. Unread' BY <1>1 DEF IInv, Unread
<1>8. FreedSafe' BY SameSafe
<1> QED BY <1>3, <1>4, <1>5, <1>6, <1>7, <1>8 DEF IInv

(* Reading and splitting a file keeps the invariant.                        *)
LEMMA ReadFileStep ==
  ASSUME IInv, fault = "none", files' = files, ReadFile
  PROVE  IInv'
<1>0. /\ files \in Seq(File) /\ file \in Nat \ {0} /\ Len(files) \in Nat
      /\ DOMAIN files = 1 .. Len(files)
      /\ rawPacketVec \in [DOMAIN files -> {"null", "live", "freed"}]
      /\ chunks \in Seq(Seq(Nat)) /\ spare \in Nat
      /\ UNCHANGED <<file, queue, pool, counters, fault>>
      /\ pc = "open" /\ file <= Len(files)
      /\ STORE_MULTITHREAD \in Nat /\ SIZE_T \in Nat \ {0}
  <2>1. STORE_MULTITHREAD \in Nat /\ SIZE_T \in Nat \ {0} BY MultithreadAssumption
  <2>2. UNCHANGED <<file, queue, pool, counters, fault>> /\ pc = "open" /\ file <= Len(files)
    BY DEF ReadFile
  <2> QED BY <2>1, <2>2 DEF IInv, Types
<1>1. PICK f \in DOMAIN files : f = file BY <1>0
<1>2. /\ rawPacketVec' \in [DOMAIN files -> {"null", "live", "freed"}]
      /\ \A i \in DOMAIN files : rawPacketVec'[i] = IF i = f THEN "live" ELSE rawPacketVec[i]
  BY <1>0, <1>1 DEF ReadFile
<1>3. PICK n \in Nat : n = Len(files[f].packets)
  <2>1. files[f] \in File BY <1>0, <1>1
  <2>2. files[f].packets \in Seq(RawPacket) BY <2>1 DEF File
  <2> QED BY <2>2
<1>4. FileWellSplit(f) <=> WellSplit(n) BY <1>3 DEF FileWellSplit
<1>5. FromMain(f) = STORE_MULTITHREAD BY <1>0, <1>1 DEF FromMain
<1>6. \A i \in DOMAIN files : i # f => FromMain(i)' = FromMain(i) BY <1>0, <1>1 DEF FromMain
<1>7. \A i \in DOMAIN files : rawPacketVec'[i] = "null" =>
             rawPacketVec[i] = "null" /\ file' <= i /\ file' # i
  BY <1>0, <1>1, <1>2 DEF IInv, Unread
<1>8. CASE n = 0
  <2>1. pc' = "spare" /\ chunks' = <<>> /\ spare' = STORE_MULTITHREAD
    BY <1>0, <1>1, <1>3, <1>8 DEF ReadFile
  <2>2. FromMain(f)' = STORE_MULTITHREAD BY <1>0, <1>1, <2>1 DEF FromMain
  <2>3. \A i \in DOMAIN files : FromMain(i)' = FromMain(i) BY <1>5, <1>6, <2>2
  <2> QED BY <1>0, <1>1, <1>2, <1>7, <2>1, <2>3, MainAlone
<1>9. CASE n > 0 /\ ChunkSize(n) = 0
  <2>1. pc' = "exit" /\ UNCHANGED <<chunks, spare>>
    BY <1>0, <1>1, <1>3, <1>9 DEF ReadFile
  <2>2. FromMain(f)' = STORE_MULTITHREAD BY <1>0, <1>1, <2>1 DEF FromMain
  <2>3. \A i \in DOMAIN files : FromMain(i)' = FromMain(i) BY <1>5, <1>6, <2>2
  <2> QED BY <1>0, <1>1, <1>2, <1>7, <2>1, <2>3, MainAlone
<1>10. CASE n > 0 /\ ChunkSize(n) > 0
  <2> DEFINE pieces == SplitVector(n, ChunkSize(n))
  <2>1. /\ pc' = "start" /\ chunks' = pieces
        /\ spare' = (STORE_MULTITHREAD - Len(pieces)) % SIZE_T
    BY <1>0, <1>1, <1>3, <1>10 DEF ReadFile
  <2>2. ChunkSize(n) \in Nat \ {0} BY <1>10, MultithreadAssumption DEF ChunkSize
  <2>3. pieces \in Seq(Seq(Nat)) /\ Len(pieces) \in Nat BY <2>2, SplitVectorTyped
  <2>4. spare' \in Nat
    <3>1. \A m \in Int : m % SIZE_T \in Nat BY <1>0
    <3>2. STORE_MULTITHREAD - Len(pieces) \in Int BY <1>0, <2>3
    <3> QED BY <2>1, <3>1, <3>2
  <2>5. WellSplit(n) => Len(chunks') + spare' = STORE_MULTITHREAD
    BY <1>10, <2>1, NothingWraps
  <2>6. FileWellSplit(f) => FromMain(f)' = STORE_MULTITHREAD
    BY <1>0, <1>1, <1>4, <2>1, <2>5 DEF FromMain
  <2> HIDE DEF pieces
  <2>7. \A i \in DOMAIN files : FileWellSplit(i) => FromMain(i)' = FromMain(i)
    BY <1>5, <1>6, <2>6
  <2> QED BY <1>0, <1>1, <1>2, <1>7, <2>1, <2>3, <2>4, <2>7, MainAlone
<1>11. ChunkSize(n) \in Int BY MultithreadAssumption DEF ChunkSize
<1>12. n = 0 \/ ChunkSize(n) = 0 \/ ChunkSize(n) > 0 BY <1>0, <1>1, <1>3 DEF ReadFile
<1> QED BY <1>3, <1>8, <1>9, <1>10, <1>12

(* So do the steps of the main thread that only move it on.                 *)
LEMMA QuietMainSteps ==
  ASSUME IInv, fault = "none", files' = files,
         OpenFails \/ AllStarted \/ NextFile \/ WaitForGc
  PROVE  IInv'
<1>0. /\ files \in Seq(File) /\ file \in Nat \ {0} /\ Len(files) \in Nat
      /\ DOMAIN files = 1 .. Len(files)
      /\ rawPacketVec \in [DOMAIN files -> {"null", "live", "freed"}]
      /\ chunks \in Seq(Seq(Nat)) /\ spare \in Nat
      /\ UNCHANGED <<queue, pool, counters, rawPacketVec, chunks, spare>>
      /\ pc \in {"start", "spare"} => file \in DOMAIN files
      /\ pc = "spare" => chunks = <<>>
  BY DEF IInv, Types, OpenFails, AllStarted, NextFile, WaitForGc
<1>1. \A i \in DOMAIN files : rawPacketVec[i] = "null" =>
          file <= i /\ (file = i => pc \notin {"start", "spare"})
  BY DEF IInv, Unread
<1>2. CASE OpenFails
  <2>1. pc = "open" /\ pc' = "noReturn" /\ UNCHANGED <<file, fault>> BY <1>2 DEF OpenFails
  <2>2. \A i \in DOMAIN files : FromMain(i)' = FromMain(i) BY <1>0, <2>1 DEF FromMain
  <2> QED BY <1>0, <1>1, <2>1, <2>2, MainAlone
<1>3. CASE AllStarted
  <2>1. pc = "start" /\ chunks = <<>> /\ pc' = "spare" /\ UNCHANGED <<file, fault>>
    BY <1>3 DEF AllStarted
  <2>2. \A i \in DOMAIN files : FromMain(i)' = FromMain(i) BY <1>0, <2>1 DEF FromMain
  <2> QED BY <1>0, <1>1, <2>1, <2>2, MainAlone
<1>4. CASE NextFile
  <2>1. pc = "spare" /\ spare = 0 /\ pc' = "open" /\ file' = file + 1 /\ fault' = fault
    BY <1>4 DEF NextFile
  <2>2. chunks = <<>> /\ Len(chunks) = 0 BY <1>0, <2>1
  <2>3. ASSUME NEW i \in DOMAIN files PROVE FromMain(i)' = FromMain(i)
    <3>1. i \in Nat BY <1>0
    <3>2. CASE i < file BY <1>0, <2>1, <3>1, <3>2 DEF FromMain
    <3>3. CASE i = file BY <1>0, <2>1, <2>2, <3>3 DEF FromMain
    <3>4. CASE i > file BY <1>0, <2>1, <3>1, <3>4 DEF FromMain
    <3> QED BY <1>0, <3>1, <3>2, <3>3, <3>4
  <2>4. \A i \in DOMAIN files : rawPacketVec[i] = "null" => file' <= i BY <1>0, <1>1, <2>1
  <2> QED BY <1>0, <2>1, <2>3, <2>4, MainAlone
<1>5. CASE WaitForGc
  <2>1. /\ pc = "open" /\ file > Len(files) /\ file' = file
        /\ pc' \in {"open", "done", "noReturn"} /\ fault' \in {fault, "noGcTask"}
    BY <1>5 DEF WaitForGc
  <2>2. \A i \in DOMAIN files : FromMain(i)' = FromMain(i) BY <1>0, <2>1 DEF FromMain
  <2> QED BY <1>0, <1>1, <2>1, <2>2, MainAlone
<1> QED BY <1>2, <1>3, <1>4, <1>5

(* So does a done() call by which the main thread makes up for a chunk.     *)
LEMMA SpareDoneStep ==
  ASSUME IInv, fault = "none", files' = files, SpareDone
  PROVE  IInv'
<1>0. /\ Types /\ files \in Seq(File) /\ storeCounter \in Seq(Int) /\ spare \in Nat \ {0}
      /\ chunks = <<>> /\ file \in DOMAIN files /\ pc = "spare"
      /\ Done(file) /\ spare' = spare - 1 /\ spare - 1 \in Nat
      /\ UNCHANGED <<pc, file, chunks, queue, pool, rawPacketVec, deleted>>
  BY DEF IInv, Types, SpareDone
<1>1. PICK f \in DOMAIN files : f = file BY <1>0
<1>2. /\ Cardinality(Serving(f)) \in Nat /\ Cardinality(Waiting(f)) \in Nat
      /\ Outstanding(f) = FromMain(f) + Cardinality(Waiting(f)) + Cardinality(Serving(f))
  BY <1>0, WorkFinite
<1>3. \A i : Waiting(i)' = Waiting(i) /\ Serving(i)' = Serving(i)
  BY <1>0 DEF Waiting, Serving, Stores
<1>4. \A i : /\ Outstanding(i) = FromMain(i) + Cardinality(Waiting(i)) + Cardinality(Serving(i))
             /\ Outstanding(i)' =
                    FromMain(i)' + Cardinality(Waiting(i)') + Cardinality(Serving(i)')
  BY DEF Outstanding, Waiting, Serving
<1>5. FromMain(f) = spare /\ FromMain(f)' = spare - 1
  <2>1. f \in Nat /\ Len(chunks) = 0 /\ Len(chunks') = 0 BY <1>0
  <2> QED BY <1>0, <1>1, <2>1 DEF FromMain
<1>6. Outstanding(f)' = Outstanding(f) - 1
  <2>1. Outstanding(f)' = (spare - 1) + Cardinality(Waiting(f)) + Cardinality(Serving(f))
    BY <1>3, <1>4, <1>5
  <2> QED BY <1>0, <1>2, <1>5, <2>1
<1>7. Outstanding(f) >= 1 BY <1>0, <1>2, <1>5
<1>8. \A i \in DOMAIN files : i # f => Outstanding(i)' = Outstanding(i)
  <2>1. \A i \in DOMAIN files : i # f => FromMain(i)' = FromMain(i) BY <1>0, <1>1 DEF FromMain
  <2> QED BY <1>3, <1>4, <2>1
<1>9. /\ storeCounter' \in Seq(Int) /\ Len(storeCounter') = Len(storeCounter)
      /\ \A j \in DOMAIN files : Passed(j) => Passed(j)'
      /\ Exact' /\ Freed' /\ FreedSafe'
  BY <1>0, <1>1, <1>6, <1>7, <1>8, DoneKeeps
<1>10. Types' BY <1>0, <1>9 DEF IInv, Types, IsTask, Queued
<1>11. OneGc' BY <1>0 DEF IInv, OneGc
<1>12. GcStage' BY <1>0, <1>9, SameStage
<1>13. Unread' BY <1>0, <1>3 DEF IInv, Unread
<1> QED BY <1>9, <1>10, <1>11, <1>12, <1>13 DEF IInv

(* A chunk becomes an entry of the queue.                                   *)
LEMMA StartTaskStep ==
  ASSUME IInv, fault = "none", files' = files, StartTask
  PROVE  IInv'
<1>0. /\ Types /\ files \in Seq(File) /\ spare \in Nat
      /\ chunks \in Seq(Seq(Nat)) /\ chunks # <<>> /\ file \in DOMAIN files /\ pc = "start"
      /\ chunks' = Tail(chunks) /\ queue \in Seq(Queued)
      /\ UNCHANGED <<pc, file, spare, pool, rawPacketVec, storeCounter, deleted, counters, fault>>
  BY DEF IInv, Types, StartTask, counters
<1>1. PICK f \in DOMAIN files : f = file BY <1>0
<1> DEFINE task == StoreTask(f, Head(chunks), "packet", 0)
<1>2. queue' = Append(queue, task) BY <1>1 DEF StartTask
<1>3. PICK c \in Nat : Len(chunks) = c + 1
  <2>1. Len(chunks) \in Nat \ {0} BY <1>0
  <2>2. Len(chunks) - 1 \in Nat /\ Len(chunks) = (Len(chunks) - 1) + 1 BY <2>1
  <2> QED BY <2>2
<1>4. /\ Head(chunks) \in Seq(Nat) /\ Tail(chunks) \in Seq(Seq(Nat)) /\ Len(Tail(chunks)) = c
  BY <1>0, <1>3
<1>5. /\ task \in Queued /\ task.kind = "store" /\ \A i : Stores(task, i) <=> i = f
  BY <1>4 DEF Queued, StoreTask, Stores
<1> HIDE DEF task
<1>6. PICK q \in Nat : q = Len(queue) BY <1>0
<1>7. /\ DOMAIN queue = 1 .. q /\ DOMAIN queue' = 1 .. q + 1
      /\ queue' \in Seq(Queued) /\ queue'[q + 1] = task
      /\ \A k \in 1 .. q : queue'[k] = queue[k]
  BY <1>0, <1>2, <1>5, <1>6
<1>8. \A k \in DOMAIN queue' : queue'[k].kind = "gc" =>
          k \in DOMAIN queue /\ queue[k].kind = "gc"
  BY <1>5, <1>6, <1>7
<1>9. Types' BY <1>0, <1>4, <1>7 DEF IInv, Types, IsTask, Queued
<1>10. OneGc' BY <1>0, <1>8 DEF IInv, OneGc
<1>11. GcStage'
  <2>1. \A i : Passed(i)' <=> Passed(i) BY <1>0 DEF Passed
  <2> QED BY <1>0, <1>8, <2>1, SameStage
<1>12. \A i : Serving(i)' = Serving(i) BY <1>0 DEF Serving, Stores
<1>13. \A i \in DOMAIN files : i # f => Waiting(i)' = Waiting(i)
  BY <1>5, <1>6, <1>7 DEF Waiting, Stores
<1>14. Waiting(f)' = Waiting(f) \cup {q + 1}
  <2>1. \A k \in DOMAIN queue' : k \in DOMAIN queue \/ k = q + 1 BY <1>6, <1>7
  <2>2. Stores(queue'[q + 1], f) /\ q + 1 \in DOMAIN queue' BY <1>5, <1>6, <1>7
  <2>3. \A k \in DOMAIN queue : k \in DOMAIN queue' /\ queue'[k] = queue[k] BY <1>6, <1>7
  <2> QED BY <2>1, <2>2, <2>3 DEF Waiting, Stores
<1>15. \A i : /\ Outstanding(i) = FromMain(i) + Cardinality(Waiting(i)) + Cardinality(Serving(i))
              /\ Outstanding(i)' =
                     FromMain(i)' + Cardinality(Waiting(i)') + Cardinality(Serving(i)')
  BY DEF Outstanding, Waiting, Serving
<1>16. ASSUME NEW i \in DOMAIN files PROVE Outstanding(i)' = Outstanding(i)
  <2>1. CASE i # f
    <3>1. FromMain(i)' = FromMain(i) BY <1>0, <1>1, <2>1 DEF FromMain
    <3> QED BY <1>12, <1>13, <1>15, <2>1, <3>1
  <2>2. CASE i = f
    <3>1. /\ IsFiniteSet(Waiting(f)) /\ Cardinality(Waiting(f)) \in Nat
          /\ Cardinality(Serving(f)) \in Nat
      BY <1>0, WorkFinite
    <3>2. q + 1 \notin Waiting(f) BY <1>6, <1>7 DEF Waiting
    <3>3. Cardinality(Waiting(f) \cup {q + 1}) = Cardinality(Waiting(f)) + 1
      BY <3>1, <3>2, FS_AddElement
    <3>4. FromMain(f) = (c + 1) + spare /\ FromMain(f)' = c + spare
      <4>1. f \in Nat /\ ~(f < f) BY <1>0
      <4>2. Len(chunks') = c /\ spare' = spare BY <1>0, <1>4
      <4>3. FromMain(f) = Len(chunks) + spare BY <1>0, <1>1, <4>1 DEF FromMain
      <4>4. FromMain(f)' = Len(chunks') + spare' BY <1>0, <1>1, <4>1 DEF FromMain
      <4> QED BY <1>3, <4>2, <4>3, <4>4
    <3>5. Outstanding(f)' = (c + spare) + (Cardinality(Waiting(f)) + 1) + Cardinality(Serving(f))
      BY <1>12, <1>14, <1>15, <3>3, <3>4
    <3>6. Outstanding(f) = ((c + 1) + spare) + Cardinality(Waiting(f)) + Cardinality(Serving(f))
      BY <1>15, <3>4
    <3> QED BY <1>0, <2>2, <3>1, <3>5, <3>6
  <2> QED BY <2>1, <2>2
<1>17. Exact' /\ Freed' BY <1>0, <1>16, SameAccount
<1>18. Unread'
  <2>1. \A i \in DOMAIN files : rawPacketVec[i] = "null" => i # f
    BY <1>0, <1>1 DEF IInv, Unread
  <2> QED BY <1>0, <1>12, <1>13, <2>1 DEF IInv, Unread
<1>19. FreedSafe' BY <1>0, SameSafe
<1> QED BY <1>9, <1>10, <1>11, <1>17, <1>18, <1>19 DEF IInv

-----------------------------------------------------------------------------
(* The initial states satisfy the invariant.                                *)
LEMMA Initially == Init => IInv
<1> SUFFICES ASSUME Init PROVE IInv OBVIOUS
<1>0. files \in Seq(File) /\ STORE_MULTITHREAD \in Nat
  BY CapturesAssumption, MultithreadAssumption DEF Init
<1>1. GcTask("create", 1) \in Queued /\ GcTask("create", 1).kind = "gc"
  BY DEF Queued, GcTask
<1>2. queue \in Seq(Queued) /\ DOMAIN queue = {1} /\ queue[1] = GcTask("create", 1)
  BY <1>1 DEF Init
<1>3. \A t \in Threads : pool[t] = Idle /\ IsTask(pool[t]) /\ pool[t].kind = "idle"
  BY DEF Init, Idle, IsTask
<1>a. /\ pc = "open" /\ file = 1 /\ chunks = <<>> /\ spare = 0
      /\ storeCounter = <<>> /\ deleted = FALSE /\ fault = "none"
      /\ \A i \in DOMAIN files : rawPacketVec[i] = "null"
  BY DEF Init
<1>4. Types
  <2>1. chunks \in Seq(Seq(Nat)) /\ storeCounter \in Seq(Int) BY <1>a
  <2>2. Len(storeCounter) <= Len(files) BY <1>0, <1>a
  <2>3. rawPacketVec \in [DOMAIN files -> {"null", "live", "freed"}] BY DEF Init
  <2>4. pool = [t \in Threads |-> pool[t]] BY DEF Init
  <2>5. pc \in {"open", "start", "spare", "noReturn", "exit", "done"} BY <1>a
  <2>6. pc \notin {"start", "spare"} BY <1>a
  <2>7. file \in Nat \ {0} /\ spare \in Nat BY <1>a
  <2>8. deleted \in BOOLEAN BY <1>a
  <2> QED BY <1>0, <1>2, <1>3, <2>1, <2>2, <2>3, <2>4, <2>5, <2>6, <2>7, <2>8 DEF Types
<1>5. OneGc BY <1>2, <1>3 DEF OneGc
<1>6. GcStage BY <1>2, <1>3, <1>a DEF GcStage
<1>7. \A i : Waiting(i) = {} /\ Serving(i) = {}
  BY <1>1, <1>2, <1>3 DEF Waiting, Serving, Stores
<1>8. ASSUME NEW i \in DOMAIN files
      PROVE  /\ Outstanding(i) = STORE_MULTITHREAD
             /\ ~(i <= Len(storeCounter)) /\ 1 <= i
  <2>1. i \in Nat \ {0} BY <1>0
  <2>2. FromMain(i) = STORE_MULTITHREAD BY <1>a, <2>1 DEF FromMain
  <2>3. Outstanding(i) = FromMain(i) + Cardinality({}) + Cardinality({})
    BY <1>7 DEF Outstanding, Waiting, Serving
  <2>4. Outstanding(i) = STORE_MULTITHREAD BY <1>0, <2>2, <2>3, FS_EmptySet
  <2> QED BY <1>a, <2>1, <2>4
<1>9. Exact BY <1>8, <1>a DEF Exact, Account
<1>10. Unread BY <1>7, <1>8, <1>a DEF Unread
<1>11. Freed /\ FreedSafe BY <1>a DEF Freed, FreedSafe
<1> QED BY <1>4, <1>5, <1>6, <1>9, <1>10, <1>11 DEF IInv

(* Invariance: the accounts balance in every reachable state.               *)
THEOREM Invariance == Spec => []IInv
<1>1. Init => IInv BY Initially
<1>2. IInv /\ [Next]_vars => IInv'
  <2> SUFFICES ASSUME IInv, [Next]_vars PROVE IInv' OBVIOUS
  <2>1. CASE UNCHANGED vars
    <3>1. UNCHANGED <<files, pc, file, chunks, spare, queue, pool, rawPacketVec, storeCounter,
                      deleted, fault>>
      BY <2>1 DEF vars, main, counters
    <3>2. Types' /\ OneGc' BY <3>1 DEF IInv, Types, IsTask, Queued, OneGc
    <3>3. GcStage' BY <3>1 DEF IInv, GcStage, Passed
    <3>4. \A i : /\ Outstanding(i)' = Outstanding(i)
                 /\ Waiting(i)' = Waiting(i) /\ Serving(i)' = Serving(i)
      BY <3>1 DEF Outstanding, FromMain, Stores, Waiting, Serving
    <3>5. Exact' /\ Freed' BY <3>1, <3>4, SameAccount DEF counters
    <3>6. Unread' BY <3>1, <3>4 DEF IInv, Unread
    <3>7. FreedSafe' BY <3>1, SameSafe
    <3> QED BY <3>2, <3>3, <3>5, <3>6, <3>7 DEF IInv
  <2>2. CASE Main
    <3>1. fault = "none" /\ files' = files
          /\ (OpenFails \/ ReadFile \/ StartTask \/ AllStarted \/ SpareDone
                \/ NextFile \/ WaitForGc)
      BY <2>2 DEF Main, Running
    <3> QED BY <3>1, QuietMainSteps, ReadFileStep, StartTaskStep, SpareDoneStep
  <2>3. ASSUME NEW t \in Threads, Worker(t) PROVE IInv'
    <3>1. fault = "none" /\ files' = files
          /\ (Dispatch(t) \/ GcCreate(t) \/ GcCounters(t) \/ GcWait(t) \/ GcDelete(t)
                \/ GcDone(t) \/ RawFault(t) \/ Parse(t) \/ Store(t) \/ StoreDone(t))
      BY <2>3 DEF Worker, Running
    <3> QED BY <3>1, DispatchStep, GcSteps, StoreSteps
  <2> QED BY <2>1, <2>2, <2>3 DEF Next, Terminating
<1> QED BY <1>1, <1>2, PTL DEF Spec

(* CounterExact: every WaitGroup counts exactly the done() calls still to   *)
(* come, for any number and size of files that are split into at most       *)
(* STORE_MULTITHREAD chunks, and any number of threads.                     *)
THEOREM CounterExactCorrect == Spec => []CounterExact
<1>1. IInv => CounterExact
  BY DEF IInv, Exact, Account, CounterExact
<1> QED BY <1>1, Invariance, PTL

-----------------------------------------------------------------------------
(* The stages of a packet *)

(* The least number of a set.                                               *)
Smallest(S) == CHOOSE i \in S : \A j \in S : i <= j

(* The least number of an interval is where it starts.                      *)
LEMMA SmallestOfInterval ==
  ASSUME NEW m \in Nat, NEW n \in Nat, m <= n
  PROVE  Smallest(m .. n) = m /\ m .. n # {}
<1>1. \A i \in m .. n : (\A j \in m .. n : i <= j) => i = m OBVIOUS
<1>2. m \in m .. n /\ \A j \in m .. n : m <= j OBVIOUS
<1> QED BY <1>1, <1>2 DEF Smallest

(* A packet has n stages, none twice.                                       *)
PlainStages(p, n) ==
    /\ DOMAIN Stages(p) = 1 .. n
    /\ \A i, j \in 1 .. n : Stages(p)[i] = Stages(p)[j] => i = j
    /\ \A i \in 1 .. n : Stages(p)[i] # "packet"

(* The next stage is the one behind, and behind the last the next packet.   *)
LEMMA AfterStage ==
  ASSUME NEW p, NEW n \in Nat, PlainStages(p, n)
  PROVE  /\ n = 0 => After("packet", p) = "packet"
         /\ n > 0 => After("packet", p) = Stages(p)[1]
         /\ \A k \in 1 .. n :
               /\ k = n => After(Stages(p)[k], p) = "packet"
               /\ k < n => After(Stages(p)[k], p) = Stages(p)[k + 1]
<1> DEFINE Later(s) == {i \in DOMAIN Stages(p) :
                           s = "packet" \/ \E j \in 1 .. i - 1 : Stages(p)[j] = s}
<1>0. /\ DOMAIN Stages(p) = 1 .. n
      /\ \A i, j \in 1 .. n : Stages(p)[i] = Stages(p)[j] => i = j
      /\ \A i \in 1 .. n : Stages(p)[i] # "packet"
  BY DEF PlainStages
<1>1. \A s : /\ Later(s) = {} => After(s, p) = "packet"
             /\ Later(s) # {} => After(s, p) = Stages(p)[Smallest(Later(s))]
  BY DEF After, Smallest
<1>2. Later("packet") = 1 .. n BY <1>0
<1>3. ASSUME NEW k \in 1 .. n PROVE Later(Stages(p)[k]) = k + 1 .. n
  <2>1. ASSUME NEW i \in Later(Stages(p)[k]) PROVE i \in k + 1 .. n
    <3>1. i \in 1 .. n /\ \E j \in 1 .. i - 1 : Stages(p)[j] = Stages(p)[k] BY <1>0
    <3>2. PICK j \in 1 .. i - 1 : Stages(p)[j] = Stages(p)[k] BY <3>1
    <3>3. j = k BY <1>0, <3>1, <3>2
    <3> QED BY <3>1, <3>2, <3>3
  <2>2. ASSUME NEW i \in k + 1 .. n PROVE i \in Later(Stages(p)[k])
    <3>1. i \in DOMAIN Stages(p) /\ k \in 1 .. i - 1 BY <1>0
    <3> QED BY <3>1
  <2> QED BY <2>1, <2>2
<1> HIDE DEF Later
<1>4. CASE n = 0
  <2>1. Later("packet") = {} BY <1>2, <1>4
  <2> QED BY <1>1, <1>4, <2>1
<1>5. CASE n > 0
  <2>1. Smallest(1 .. n) = 1 /\ 1 .. n # {} BY <1>5, SmallestOfInterval
  <2>2. After("packet", p) = Stages(p)[1] BY <1>1, <1>2, <2>1
  <2>3. ASSUME NEW k \in 1 .. n, k = n PROVE After(Stages(p)[k], p) = "packet"
    <3>1. Later(Stages(p)[k]) = {} BY <1>3, <2>3
    <3> QED BY <1>1, <3>1
  <2>4. ASSUME NEW k \in 1 .. n, k < n PROVE After(Stages(p)[k], p) = Stages(p)[k + 1]
    <3>1. k + 1 \in Nat /\ k + 1 <= n BY <2>4
    <3>2. Smallest(k + 1 .. n) = k + 1 /\ k + 1 .. n # {} BY <3>1, SmallestOfInterval
    <3> QED BY <1>1, <1>3, <3>2
  <2> QED BY <1>5, <2>2, <2>3, <2>4
<1> QED BY <1>4, <1>5

Stage == {"send", "recv", "useful"}

(* A stage behind two others.                                               *)
LEMMA ThirdStage ==
  ASSUME NEW w \in Seq(Stage), NEW v \in Seq(Stage), Len(w) = 2, Len(v) = 1
  PROVE  w \o v \in Seq(Stage) /\ Len(w \o v) = 3 /\ (w \o v)[3] = v[1]
<1>1. /\ Len(w \o v) = Len(w) + Len(v)
      /\ \A i \in 1 .. Len(w) + Len(v) :
            (w \o v)[i] = IF i <= Len(w) THEN w[i] ELSE v[i - Len(w)]
  BY ConcatProperties
<1> QED BY <1>1

(* Source, destination, useful: of the stages a packet has.                 *)
LEMMA AfterFacts ==
  ASSUME NEW p, p.ends \subseteq {"send", "recv"}
  PROVE  /\ p.ends = {} => After("packet", p) = "packet"
         /\ "send" \in p.ends => After("packet", p) = "send"
         /\ "send" \notin p.ends /\ "recv" \in p.ends => After("packet", p) = "recv"
         /\ "send" \in p.ends /\ "recv" \in p.ends => After("send", p) = "recv"
         /\ "send" \in p.ends /\ "recv" \notin p.ends => After("send", p) = "useful"
         /\ "recv" \in p.ends => After("recv", p) = "useful"
         /\ p.ends # {} => After("useful", p) = "packet"
<1> DEFINE none == <<>>
           send == none \o <<"send">>
           recv == none \o <<"recv">>
<1>1. /\ none \in Seq(Stage) /\ Len(none) = 0
      /\ send \in Seq(Stage) /\ Len(send) = 1 /\ send[1] = "send" /\ send = <<"send">>
      /\ recv \in Seq(Stage) /\ Len(recv) = 1 /\ recv[1] = "recv" /\ recv = <<"recv">>
      /\ none \o none = none /\ send \o none = send /\ none \o recv = recv
  BY DEF Stage
<1>2. CASE p.ends = {}
  <2>1. Stages(p) = none BY <1>1, <1>2 DEF Stages
  <2>2. PlainStages(p, 0) BY <1>1, <2>1 DEF PlainStages
  <2>3. After("packet", p) = "packet" BY <2>2, AfterStage
  <2> QED BY <1>2, <2>3
<1>3. CASE p.ends = {"send"}
  <2>1. Stages(p) = send \o <<"useful">>
    <3>1. Stages(p) = (<<"send">> \o none) \o <<"useful">> BY <1>3 DEF Stages
    <3> QED BY <1>1, <3>1
  <2> HIDE DEF none, send, recv
  <2>2. /\ DOMAIN Stages(p) = 1 .. 2
        /\ Stages(p)[1] = "send" /\ Stages(p)[2] = "useful"
    BY <1>1, <2>1
  <2>a. PlainStages(p, 2) BY <2>2 DEF PlainStages
  <2>3. /\ After("packet", p) = Stages(p)[1]
        /\ After(Stages(p)[1], p) = Stages(p)[2]
        /\ After(Stages(p)[2], p) = "packet"
    BY <2>a, AfterStage
  <2> QED BY <1>3, <2>2, <2>3
<1>4. CASE p.ends = {"recv"}
  <2>1. Stages(p) = recv \o <<"useful">>
    <3>1. Stages(p) = (none \o <<"recv">>) \o <<"useful">> BY <1>4 DEF Stages
    <3> QED BY <1>1, <3>1
  <2> HIDE DEF none, send, recv
  <2>2. /\ DOMAIN Stages(p) = 1 .. 2
        /\ Stages(p)[1] = "recv" /\ Stages(p)[2] = "useful"
    BY <1>1, <2>1
  <2>a. PlainStages(p, 2) BY <2>2 DEF PlainStages
  <2>3. /\ After("packet", p) = Stages(p)[1]
        /\ After(Stages(p)[1], p) = Stages(p)[2]
        /\ After(Stages(p)[2], p) = "packet"
    BY <2>a, AfterStage
  <2> QED BY <1>4, <2>2, <2>3
<1>5. CASE p.ends = {"send", "recv"}
  <2> DEFINE both == send \o <<"recv">>
  <2>1. Stages(p) = both \o <<"useful">>
    <3>1. Stages(p) = (<<"send">> \o <<"recv">>) \o <<"useful">> BY <1>5 DEF Stages
    <3> QED BY <1>1, <3>1
  <2> HIDE DEF none, send, recv
  <2>2. both \in Seq(Stage) /\ Len(both) = 2 /\ both[1] = "send" /\ both[2] = "recv"
    BY <1>1 DEF Stage
  <2> HIDE DEF both
  <2>3. /\ DOMAIN Stages(p) = 1 .. 3
        /\ Stages(p)[1] = "send" /\ Stages(p)[2] = "recv" /\ Stages(p)[3] = "useful"
    <3> DEFINE last == <<"useful">>
    <3>0. last \in Seq(Stage) /\ Len(last) = 1 /\ last[1] = "useful" BY DEF Stage
    <3> HIDE DEF last
    <3>1. both \o last \in Seq(Stage) /\ Len(both \o last) = 3 /\ (both \o last)[3] = "useful"
      BY <2>2, <3>0, ThirdStage
    <3>a. Stages(p) = both \o last BY <2>1 DEF last
    <3>2. Stages(p) \in Seq(Stage) /\ Len(Stages(p)) = 3 /\ Stages(p)[3] = "useful"
      BY <3>1, <3>a
    <3>3. DOMAIN Stages(p) = 1 .. 3 BY <3>2
    <3>4. Stages(p)[1] = "send" BY <2>1, <2>2
    <3>5. Stages(p)[2] = "recv" BY <2>1, <2>2
    <3> QED BY <3>2, <3>3, <3>4, <3>5
  <2>a. PlainStages(p, 3) BY <2>3 DEF PlainStages
  <2>4. /\ After("packet", p) = Stages(p)[1]
        /\ After(Stages(p)[1], p) = Stages(p)[2]
        /\ After(Stages(p)[2], p) = Stages(p)[3]
        /\ After(Stages(p)[3], p) = "packet"
    BY <2>a, AfterStage
  <2> QED BY <1>5, <2>3, <2>4
<1>6. p.ends \in {{}, {"send"}, {"recv"}, {"send", "recv"}} OBVIOUS
<1> QED BY <1>2, <1>3, <1>4, <1>5, <1>6

-----------------------------------------------------------------------------
(* The chunks of a file *)

(* Multiplication by a chunk size is monotone.                              *)
LEMMA TimesMonotone ==
  ASSUME NEW s \in Nat, NEW a \in Int, NEW b \in Int, a <= b
  PROVE  a * s <= b * s
OBVIOUS

(* Division rounds down.                                                    *)
LEMMA DivisionFacts ==
  ASSUME NEW n \in Nat, NEW s \in Nat \ {0}
  PROVE  /\ n \div s \in Nat
         /\ s * (n \div s) <= n
         /\ n < s * (n \div s) + s
<1>1. n \div s \in Int OBVIOUS
<1>2. n % s \in 0 .. s - 1 OBVIOUS
<1>3. n = (s * (n \div s)) + (n % s) OBVIOUS
<1>4. n \div s \in Nat BY <1>1, <1>2, <1>3
<1> QED BY <1>2, <1>3, <1>4

(* Cut in pieces of s, the positions 1 .. n fall into one piece each.       *)
InPiece(i, k, s) == (k - 1) * s + 1 <= i /\ i <= k * s

Pieces(m, n, s) ==
    /\ \A i \in 1 .. n : \E k \in 1 .. m : InPiece(i, k, s)
    /\ \A i \in 1 .. n : \A k, l \in 1 .. m : InPiece(i, k, s) /\ InPiece(i, l, s) => k = l

(* Every position is in one piece, and in no other.                         *)
LEMMA InOnePiece ==
  ASSUME NEW n \in Nat, NEW s \in Nat \ {0}
  PROVE  /\ (n + s - 1) \div s \in Nat
         /\ Pieces((n + s - 1) \div s, n, s)
<1> DEFINE m == (n + s - 1) \div s
<1>1. n + s - 1 \in Nat OBVIOUS
<1>2. m \in Nat /\ n + s - 1 < s * m + s BY <1>1, DivisionFacts
<1> HIDE DEF m
<1>3. n <= s * m
  <2>1. PICK p \in Nat : p = s * m BY <1>2
  <2> QED BY <1>2, <2>1
<1>4. ASSUME NEW i \in 1 .. n PROVE \E k \in 1 .. m : InPiece(i, k, s)
  <2>1. i - 1 \in Nat OBVIOUS
  <2>2. PICK q \in Nat : q = (i - 1) \div s BY <2>1, DivisionFacts
  <2>3. s * q <= i - 1 /\ i - 1 < s * q + s BY <2>1, <2>2, DivisionFacts
  <2>4. q < m
    <3> SUFFICES ASSUME m <= q PROVE FALSE BY <1>2
    <3>1. m * s <= q * s BY <1>2, TimesMonotone
    <3>2. PICK a \in Nat : a = s * m /\ a = m * s BY <1>2
    <3>3. PICK b \in Nat : b = s * q /\ b = q * s OBVIOUS
    <3> QED BY <1>3, <2>3, <3>1, <3>2, <3>3
  <2>5. PICK b \in Nat : b = s * q /\ b = q * s /\ (q + 1) * s = b + s OBVIOUS
  <2>6. q + 1 \in 1 .. m /\ (q + 1) - 1 = q BY <1>2, <2>4
  <2>7. q * s + 1 <= i /\ i <= (q + 1) * s BY <2>3, <2>5
  <2>8. InPiece(i, q + 1, s) BY <2>6, <2>7 DEF InPiece
  <2> QED BY <2>6, <2>8
<1>5. ASSUME NEW i \in 1 .. n, NEW k \in 1 .. m, NEW l \in 1 .. m, k < l,
             InPiece(i, k, s), InPiece(i, l, s)
      PROVE  FALSE
  <2>0. i <= k * s /\ (l - 1) * s + 1 <= i BY <1>5 DEF InPiece
  <2>1. k <= l - 1 /\ k \in Int /\ l - 1 \in Int BY <1>2, <1>5
  <2>2. k * s <= (l - 1) * s BY <2>1, TimesMonotone
  <2>3. PICK a \in Int : a = k * s BY <2>1
  <2>4. PICK b \in Int : b = (l - 1) * s BY <2>1
  <2> QED BY <2>0, <2>2, <2>3, <2>4
<1>6. \A k, l \in 1 .. m : k < l \/ l < k \/ k = l BY <1>2
<1>7. Pieces(m, n, s) BY <1>4, <1>5, <1>6 DEF Pieces
<1> QED BY <1>2, <1>7 DEF m

(* The k-th piece lists its positions, each once.                           *)
Lists(piece, n, k, s) ==
    /\ piece \in Seq(Nat)
    /\ \A j \in DOMAIN piece : piece[j] \in 1 .. n /\ InPiece(piece[j], k, s)
    /\ \A i, j \in DOMAIN piece : piece[i] = piece[j] => i = j
    /\ \A i \in 1 .. n : InPiece(i, k, s) => \E j \in DOMAIN piece : piece[j] = i

(* A piece lists its positions in order.                                    *)
LEMMA PieceLists ==
  ASSUME NEW n \in Nat, NEW s \in Nat, NEW k \in Nat \ {0}
  PROVE  Lists(SubSeq(Range1(n), (k - 1) * s + 1, IF k * s < n THEN k * s ELSE n), n, k, s)
<1> DEFINE piece == SubSeq(Range1(n), (k - 1) * s + 1, IF k * s < n THEN k * s ELSE n)
<1>1. PICK a \in Nat : a = (k - 1) * s OBVIOUS
<1>2. PICK c \in Nat : c = k * s OBVIOUS
<1>3. PICK b \in Nat : b = (IF c < n THEN c ELSE n) OBVIOUS
<1>4. b <= n /\ b <= c BY <1>3
<1>5. piece = SubSeq(Range1(n), a + 1, b) BY <1>1, <1>2, <1>3
<1> HIDE DEF piece
<1>6. /\ Range1(n) \in Seq(Nat) /\ Len(Range1(n)) = n
      /\ \A i \in 1 .. n : Range1(n)[i] = i
  BY DEF Range1
<1>7. /\ piece \in Seq(Nat)
      /\ DOMAIN piece = 1 .. b - a
      /\ \A j \in 1 .. b - a : piece[j] = a + j
  <2>1. CASE a + 1 <= b
    <3>1. piece \in Seq(Nat) /\ Len(piece) = b - a BY <1>4, <1>5, <1>6, <2>1
    <3>2. \A j \in 1 .. b - a : piece[j] = Range1(n)[(a + 1) + j - 1]
      BY <1>4, <1>5, <1>6, <2>1
    <3>3. \A j \in 1 .. b - a : (a + 1) + j - 1 = a + j /\ a + j \in 1 .. n BY <1>4
    <3>4. DOMAIN piece = 1 .. b - a BY <3>1
    <3>5. ASSUME NEW j \in 1 .. b - a PROVE piece[j] = a + j
      <4>1. PICK i \in 1 .. n : i = a + j /\ (a + 1) + j - 1 = i BY <3>3
      <4> QED BY <1>6, <3>2, <4>1
    <3> QED BY <3>1, <3>4, <3>5
  <2>2. CASE ~(a + 1 <= b)
    <3>1. piece = <<>> BY <1>4, <1>5, <1>6, <2>2
    <3>2. 1 .. b - a = {} BY <2>2
    <3>3. piece \in Seq(Nat) /\ DOMAIN piece = {} BY <3>1
    <3> QED BY <3>2, <3>3
  <2> QED BY <2>1, <2>2
<1>8. \A i : InPiece(i, k, s) <=> a + 1 <= i /\ i <= c BY <1>1, <1>2 DEF InPiece
<1>9. ASSUME NEW j \in DOMAIN piece PROVE piece[j] \in 1 .. n /\ InPiece(piece[j], k, s)
  <2>1. piece[j] = a + j /\ j \in 1 .. b - a BY <1>7
  <2> QED BY <1>4, <1>8, <2>1
<1>10. ASSUME NEW i \in DOMAIN piece, NEW j \in DOMAIN piece, piece[i] = piece[j]
       PROVE  i = j
  <2>1. i \in 1 .. b - a /\ j \in 1 .. b - a /\ a + i = a + j BY <1>7, <1>10
  <2> QED BY <2>1
<1>11. ASSUME NEW i \in 1 .. n, InPiece(i, k, s) PROVE \E j \in DOMAIN piece : piece[j] = i
  <2>1. a + 1 <= i /\ i <= c BY <1>8, <1>11
  <2>2. i - a \in 1 .. b - a /\ a + (i - a) = i BY <1>3, <2>1
  <2> QED BY <1>7, <2>2
<1>12. Lists(piece, n, k, s) BY <1>7, <1>9, <1>10, <1>11 DEF Lists
<1> QED BY <1>12 DEF piece

(* splitVector deals out the positions 1 .. n, each to one chunk.           *)
LEMMA SplitVectorDeals ==
  ASSUME NEW n \in Nat, NEW s \in Nat \ {0}
  PROVE  /\ DOMAIN SplitVector(n, s) = 1 .. Len(SplitVector(n, s))
         /\ Len(SplitVector(n, s)) \in Nat
         /\ Pieces(Len(SplitVector(n, s)), n, s)
         /\ \A k \in DOMAIN SplitVector(n, s) : Lists(SplitVector(n, s)[k], n, k, s)
<1> DEFINE m == (n + s - 1) \div s
           Piece(k) == SubSeq(Range1(n), (k - 1) * s + 1, IF k * s < n THEN k * s ELSE n)
<1>1. m \in Nat /\ Pieces(m, n, s) BY InOnePiece
<1>2. SplitVector(n, s) = [k \in 1 .. m |-> Piece(k)] BY DEF SplitVector
<1>3. ASSUME NEW k \in 1 .. m PROVE Lists(Piece(k), n, k, s)
  <2>1. k \in Nat \ {0} BY <1>1
  <2> QED BY <2>1, PieceLists
<1> HIDE DEF m, Piece
<1>4. DOMAIN SplitVector(n, s) = 1 .. m /\ Len(SplitVector(n, s)) = m BY <1>1, <1>2
<1> QED BY <1>1, <1>2, <1>3, <1>4

-----------------------------------------------------------------------------
(* What the store tasks have done and what they still have to do: of the    *)
(* files fs, those in read are read, line are the tasks to come, run is     *)
(* what the threads run, data the data set and st the statistics.           *)

(* The packets of all files, by file and position, and their KPackets.      *)
Packets(fs) == UNION {{<<i, k>> : k \in DOMAIN fs[i].packets} : i \in DOMAIN fs}
Ends(fs, g) == fs[g[1]].packets[g[2]].ends
KP(g, e) == [file |-> g[1], index |-> g[2], end |-> e]
KPackets(fs) == UNION {{KP(g, e) : e \in Ends(fs, g)} : g \in Packets(fs)}

(* Packet g is still to be stored, or being stored, by the task.            *)
Has(task, g) ==
    task.kind = "store" /\ task.file = g[1] /\ \E j \in DOMAIN task.todo : task.todo[j] = g[2]

(* A store task lists packets of a file that is read, each once, and is at  *)
(* a stage its first packet has.                                            *)
First(task) == <<task.file, Head(task.todo)>>

AtStage(fs, task) ==
    /\ task.todo # <<>>
    /\ \/ task.at \in Ends(fs, First(task))
       \/ task.at = "useful" /\ Ends(fs, First(task)) # {}

StoreOK(fs, task, read) ==
    /\ task = StoreTask(task.file, task.todo, task.at, task.reg)
    /\ task.file \in read
    /\ task.todo \in Seq(Nat)
    /\ \A j \in DOMAIN task.todo : <<task.file, task.todo[j]>> \in Packets(fs)
    /\ \A j, k \in DOMAIN task.todo : task.todo[j] = task.todo[k] => j = k
    /\ task.reg \in Nat
    /\ task.at # "packet" => AtStage(fs, task)

TasksOK(fs, line, run, read) ==
    /\ \A j \in DOMAIN line : line[j].kind = "store" =>
          StoreOK(fs, line[j], read) /\ line[j].at = "packet"
    /\ \A t \in Threads : run[t].kind = "store" => StoreOK(fs, run[t], read)

(* A packet is in one task at most, in the line or on a thread.             *)
OnePlace(g, line, run) ==
    /\ \A j, k \in DOMAIN line : Has(line[j], g) /\ Has(line[k], g) => j = k
    /\ \A j \in DOMAIN line : \A t \in Threads : ~(Has(line[j], g) /\ Has(run[t], g))
    /\ \A t, u \in Threads : Has(run[t], g) /\ Has(run[u], g) => t = u

PlacedOK(fs, line, run) == \A g \in Packets(fs) : OnePlace(g, line, run)

(* The ends a packet's task has stored when it is at a stage.               *)
Past(at) == IF at = "recv" THEN {"send"} ELSE IF at = "useful" THEN {"send", "recv"} ELSE {}

Reached(g, e, line, run, read) ==
    /\ g[1] \in read
    /\ \A j \in DOMAIN line : ~Has(line[j], g)
    /\ \A t \in Threads : Has(run[t], g) => g = First(run[t]) /\ e \in Past(run[t].at)

(* The data set has what the tasks have stored, once.                       *)
DataOK(fs, line, run, read, data) ==
    /\ data = [p \in DOMAIN data |-> 1]
    /\ DOMAIN data \subseteq KPackets(fs)
    /\ \A g \in Packets(fs) : \A e \in Ends(fs, g) :
          KP(g, e) \in DOMAIN data <=> Reached(g, e, line, run, read)

(* What each statistic would be without lost increments.                    *)
AtUseful(task, g) == task.kind = "store" /\ task.at = "useful" /\ First(task) = g

Counted(fs, run, data) ==
    {g \in Packets(fs) : /\ Ends(fs, g) # {}
                         /\ \A e \in Ends(fs, g) : KP(g, e) \in DOMAIN data
                         /\ \A t \in Threads : ~AtUseful(run[t], g)}

OfEnd(data, e) == {p \in DOMAIN data : p.end = e}

Count(fs, s, run, data) ==
    IF s = "useful" THEN Cardinality(Counted(fs, run, data)) ELSE Cardinality(OfEnd(data, s))

StatsOK(fs, run, data, st) ==
    /\ st \in [Stage -> Nat]
    /\ \A s \in Stage : st[s] <= Count(fs, s, run, data)
    /\ \A t \in Threads : run[t].kind = "store" /\ run[t].at # "packet" =>
          run[t].reg <= Count(fs, run[t].at, run, data)

WorkOK(fs, line, run, read, data, st) ==
    /\ fs \in Seq(File) /\ read \subseteq DOMAIN fs
    /\ TasksOK(fs, line, run, read)
    /\ PlacedOK(fs, line, run)
    /\ DataOK(fs, line, run, read, data)
    /\ StatsOK(fs, run, data, st)

(* The tasks to come: the queue, and behind it the chunks the main thread   *)
(* has not started yet.                                                     *)
Line ==
    [j \in 1 .. Len(queue) + Len(chunks) |->
        IF j <= Len(queue) THEN queue[j]
        ELSE StoreTask(file, chunks[j - Len(queue)], "packet", 0)]

Read == {i \in DOMAIN files : ~(file < i \/ (file = i /\ pc \notin {"start", "spare"}))}

StockOK == WorkOK(files, Line, pool, Read, dataset, stat)

(* GarbageCollection releases the main thread after it has deleted the      *)
(* counters; once the main thread is through, no store task is left.        *)
GcTaskOK ==
    /\ gcTask = 0 => deleted
    /\ \A t \in Threads : pool[t].kind = "gc" =>
          /\ pool[t].at # "create" => gcTask = 1
          /\ pool[t].at = "done" => deleted

DoneOK ==
    pc = "done" =>
        /\ file > Len(files)
        /\ (\A i \in DOMAIN files : FileWellSplit(i)) =>
              /\ \A j \in DOMAIN queue : queue[j].kind # "store"
              /\ \A t \in Threads : pool[t].kind # "store"

QuietOK == pc # "start" => chunks = <<>>

ThroughOK == GcTaskOK /\ DoneOK /\ QuietOK

-----------------------------------------------------------------------------
(* Packets and KPackets *)

(* A packet is a file and a position in it.                                 *)
LEMMA PacketFacts ==
  ASSUME NEW fs, fs \in Seq(File)
  PROVE  /\ \A g \in Packets(fs) : /\ g = <<g[1], g[2]>> /\ g[1] \in DOMAIN fs
                               /\ g[2] \in DOMAIN fs[g[1]].packets
                               /\ Ends(fs, g) \subseteq {"send", "recv"}
         /\ \A i \in DOMAIN fs : \A k \in DOMAIN fs[i].packets : <<i, k>> \in Packets(fs)
<1>1. ASSUME NEW g \in Packets(fs)
      PROVE  /\ g = <<g[1], g[2]>> /\ g[1] \in DOMAIN fs
             /\ g[2] \in DOMAIN fs[g[1]].packets
             /\ Ends(fs, g) \subseteq {"send", "recv"}
  <2>1. PICK i \in DOMAIN fs : g \in {<<i, k>> : k \in DOMAIN fs[i].packets}
    BY DEF Packets
  <2>2. PICK k \in DOMAIN fs[i].packets : g = <<i, k>> BY <2>1
  <2>3. fs[i].packets \in Seq(RawPacket)
    <3>1. fs[i] \in File OBVIOUS
    <3> QED BY <3>1 DEF File
  <2>4. fs[i].packets[k] \in RawPacket BY <2>3
  <2>5. fs[i].packets[k].ends \subseteq {"send", "recv"} BY <2>4 DEF RawPacket
  <2>6. g[1] = i /\ g[2] = k BY <2>2
  <2>7. Ends(fs, g) \subseteq {"send", "recv"} BY <2>5, <2>6 DEF Ends
  <2> QED BY <2>2, <2>6, <2>7
<1>2. \A i \in DOMAIN fs : \A k \in DOMAIN fs[i].packets : <<i, k>> \in Packets(fs)
  BY DEF Packets
<1> QED BY <1>1, <1>2

(* A KPacket names its packet and its end.                                  *)
LEMMA KPFacts ==
  ASSUME NEW fs, fs \in Seq(File)
  PROVE  /\ \A g, e : KP(g, e).end = e /\ KP(g, e).file = g[1] /\ KP(g, e).index = g[2]
         /\ \A g, h \in Packets(fs) : \A e, d : KP(g, e) = KP(h, d) => g = h /\ e = d
         /\ \A g \in Packets(fs) : \A e \in Ends(fs, g) : KP(g, e) \in KPackets(fs)
         /\ \A p \in KPackets(fs) : \E g \in Packets(fs) : \E e \in Ends(fs, g) : p = KP(g, e)
<1>1. \A g, e : KP(g, e).end = e /\ KP(g, e).file = g[1] /\ KP(g, e).index = g[2] BY DEF KP
<1>2. \A g \in Packets(fs) : g = <<g[1], g[2]>> BY PacketFacts
<1>3. \A g, h \in Packets(fs) : \A e, d : KP(g, e) = KP(h, d) => g = h /\ e = d
  <2> SUFFICES ASSUME NEW g \in Packets(fs), NEW h \in Packets(fs), NEW e, NEW d, KP(g, e) = KP(h, d)
               PROVE  g = h /\ e = d
    OBVIOUS
  <2>1. g[1] = h[1] /\ g[2] = h[2] /\ e = d BY <1>1
  <2>2. <<g[1], g[2]>> = <<h[1], h[2]>> BY <2>1
  <2> QED BY <1>2, <2>1, <2>2
<1>4. /\ \A g \in Packets(fs) : \A e \in Ends(fs, g) : KP(g, e) \in KPackets(fs)
      /\ \A p \in KPackets(fs) : \E g \in Packets(fs) : \E e \in Ends(fs, g) : p = KP(g, e)
  BY DEF KPackets
<1> QED BY <1>1, <1>3, <1>4

(* There are finitely many of both.                                         *)
LEMMA PacketsFinite ==
  ASSUME NEW fs, fs \in Seq(File)
  PROVE  IsFiniteSet(Packets(fs)) /\ IsFiniteSet(KPackets(fs))
<1> DEFINE Of(i) == {<<i, k>> : k \in DOMAIN fs[i].packets}
           KOf(g) == {KP(g, e) : e \in Ends(fs, g)}
<1>1. ASSUME NEW i \in DOMAIN fs PROVE IsFiniteSet(Of(i))
  <2>1. fs[i].packets \in Seq(RawPacket)
    <3>1. fs[i] \in File OBVIOUS
    <3> QED BY <3>1 DEF File
  <2>2. PICK n \in Nat : DOMAIN fs[i].packets = 1 .. n BY <2>1
  <2>3. IsFiniteSet(1 .. n) BY FS_Interval
  <2>4. PICK f : f = [k \in 1 .. n |-> <<i, k>>] OBVIOUS
  <2>5. f \in Surjection(1 .. n, Of(i)) BY <2>2, <2>4 DEF Surjection
  <2> QED BY <2>3, <2>5, FS_Surjection
<1>2. IsFiniteSet(Packets(fs))
  <2>1. PICK n \in Nat : DOMAIN fs = 1 .. n OBVIOUS
  <2>2. IsFiniteSet(DOMAIN fs) BY <2>1, FS_Interval
  <2> DEFINE all == {Of(i) : i \in DOMAIN fs}
  <2> HIDE DEF Of
  <2>3. PICK f : f = [i \in DOMAIN fs |-> Of(i)] OBVIOUS
  <2>4. f \in Surjection(DOMAIN fs, all) BY <2>3 DEF Surjection
  <2>5. IsFiniteSet(all) BY <2>2, <2>4, FS_Surjection
  <2>6. \A T \in all : IsFiniteSet(T) BY <1>1
  <2>7. Packets(fs) = UNION all BY DEF Packets, Of
  <2> HIDE DEF all
  <2> QED BY <2>5, <2>6, <2>7, FS_UNION
<1>3. ASSUME NEW g \in Packets(fs) PROVE IsFiniteSet(KOf(g))
  <2>1. Ends(fs, g) \subseteq {"send"} \cup {"recv"} BY PacketFacts
  <2>2. IsFiniteSet({"send"} \cup {"recv"}) BY FS_Singleton, FS_AddElement
  <2>3. IsFiniteSet(Ends(fs, g)) BY <2>1, <2>2, FS_Subset
  <2>4. PICK f : f = [e \in Ends(fs, g) |-> KP(g, e)] OBVIOUS
  <2>5. f \in Surjection(Ends(fs, g), KOf(g)) BY <2>4 DEF Surjection
  <2> QED BY <2>3, <2>5, FS_Surjection
<1>4. IsFiniteSet(KPackets(fs))
  <2> DEFINE all == {KOf(g) : g \in Packets(fs)}
  <2> HIDE DEF KOf
  <2>3. PICK f : f = [g \in Packets(fs) |-> KOf(g)] OBVIOUS
  <2>4. f \in Surjection(Packets(fs), all) BY <2>3 DEF Surjection
  <2>5. IsFiniteSet(all) BY <1>2, <2>4, FS_Surjection
  <2>6. \A T \in all : IsFiniteSet(T) BY <1>3
  <2>7. KPackets(fs) = UNION all BY DEF KPackets, KOf
  <2> HIDE DEF all
  <2> QED BY <2>5, <2>6, <2>7, FS_UNION
<1> QED BY <1>2, <1>4

-----------------------------------------------------------------------------
(* Steps that store nothing *)

(* A thread goes on with what it does, or with something that stores        *)
(* nothing, from something that stores nothing any more.                    *)
Idles(task, then) ==
    then = task \/ (then.kind # "store" /\ (task.kind = "store" => task.todo = <<>>))

(* Such a step moves no packet, and leaves every stage.                     *)
LEMMA IdlesFacts ==
  ASSUME NEW fs, NEW read, NEW task, NEW then, Idles(task, then),
         task.kind = "store" => StoreOK(fs, task, read)
  PROVE  /\ \A g : Has(then, g) <=> Has(task, g)
         /\ \A g : Has(task, g) => then = task
         /\ \A g : AtUseful(then, g) <=> AtUseful(task, g)
<1>1. CASE then = task BY <1>1
<1>2. CASE then.kind # "store" /\ task.kind # "store" BY <1>2 DEF Has, AtUseful
<1>3. CASE then.kind # "store" /\ task.kind = "store" /\ task.todo = <<>>
  <2>1. \A g : ~Has(then, g) /\ ~AtUseful(then, g) BY <1>3 DEF Has, AtUseful
  <2>2. DOMAIN task.todo = {} BY <1>3
  <2>3. \A g : ~Has(task, g) BY <2>2 DEF Has
  <2>4. task.at = "packet" BY <1>3 DEF StoreOK, AtStage
  <2>5. \A g : ~AtUseful(task, g) BY <2>4 DEF AtUseful
  <2> QED BY <2>1, <2>3, <2>5
<1> QED BY <1>1, <1>2, <1>3 DEF Idles

(* A file is read that has no packets, or none is.                          *)
NothingRead(fs, read, more) ==
    /\ read \subseteq more /\ more \subseteq DOMAIN fs
    /\ \A g \in Packets(fs) : g[1] \in more => g[1] \in read

(* Steps of threads that store nothing leave the work as it is.             *)
LEMMA SameWork ==
  ASSUME NEW fs, NEW line, NEW run, NEW read, NEW data, NEW st,
         WorkOK(fs, line, run, read, data, st),
         NEW then, \A t \in Threads : Idles(run[t], then[t]),
         NEW more, NothingRead(fs, read, more)
  PROVE  WorkOK(fs, line, then, more, data, st)
<1>0. /\ fs \in Seq(File) /\ TasksOK(fs, line, run, read) /\ PlacedOK(fs, line, run)
      /\ DataOK(fs, line, run, read, data) /\ StatsOK(fs, run, data, st)
      /\ read \subseteq more /\ more \subseteq DOMAIN fs
      /\ \A g \in Packets(fs) : g[1] \in more <=> g[1] \in read
  BY DEF WorkOK, NothingRead
<1>1. /\ \A t \in Threads : \A g : Has(then[t], g) <=> Has(run[t], g)
      /\ \A t \in Threads : \A g : Has(run[t], g) => then[t] = run[t]
      /\ \A t \in Threads : \A g : AtUseful(then[t], g) <=> AtUseful(run[t], g)
  <2> SUFFICES ASSUME NEW t \in Threads
               PROVE  /\ \A g : Has(then[t], g) <=> Has(run[t], g)
                      /\ \A g : Has(run[t], g) => then[t] = run[t]
                      /\ \A g : AtUseful(then[t], g) <=> AtUseful(run[t], g)
    OBVIOUS
  <2>1. Idles(run[t], then[t]) OBVIOUS
  <2>2. run[t].kind = "store" => StoreOK(fs, run[t], read) BY <1>0 DEF TasksOK
  <2> QED BY <2>1, <2>2, IdlesFacts
<1>2. TasksOK(fs, line, then, more)
  <2>1. \A task : StoreOK(fs, task, read) => StoreOK(fs, task, more) BY <1>0 DEF StoreOK
  <2>2. ASSUME NEW j \in DOMAIN line, line[j].kind = "store"
        PROVE  StoreOK(fs, line[j], more) /\ line[j].at = "packet"
    BY <1>0, <2>1, <2>2 DEF TasksOK
  <2>3. ASSUME NEW t \in Threads, then[t].kind = "store" PROVE StoreOK(fs, then[t], more)
    <3>1. then[t] = run[t] BY <2>3 DEF Idles
    <3> QED BY <1>0, <2>1, <2>3, <3>1 DEF TasksOK
  <2> QED BY <2>2, <2>3 DEF TasksOK
<1>3. PlacedOK(fs, line, then)
  <2> SUFFICES ASSUME NEW g \in Packets(fs) PROVE OnePlace(g, line, then) BY DEF PlacedOK
  <2>1. OnePlace(g, line, run) BY <1>0 DEF PlacedOK
  <2> QED BY <1>1, <2>1 DEF OnePlace
<1>4. DataOK(fs, line, then, more, data)
  <2>1. ASSUME NEW g \in Packets(fs), NEW e
        PROVE  Reached(g, e, line, then, more) <=> Reached(g, e, line, run, read)
    BY <1>0, <1>1 DEF Reached
  <2> QED BY <1>0, <2>1 DEF DataOK
<1>5. StatsOK(fs, then, data, st)
  <2>1. Counted(fs, then, data) = Counted(fs, run, data) BY <1>1 DEF Counted
  <2>2. \A s : Count(fs, s, then, data) = Count(fs, s, run, data) BY <2>1 DEF Count
  <2>3. ASSUME NEW t \in Threads, then[t].kind = "store", then[t].at # "packet"
        PROVE  then[t].reg <= Count(fs, then[t].at, then, data)
    <3>1. then[t] = run[t] BY <2>3 DEF Idles
    <3> QED BY <1>0, <2>2, <2>3, <3>1 DEF StatsOK
  <2> QED BY <1>0, <2>2, <2>3 DEF StatsOK
<1> QED BY <1>0, <1>2, <1>3, <1>4, <1>5 DEF WorkOK

(* The first task of the line goes to thread t, which is free.              *)
Dispatched(line, run, rest, then, t) ==
    /\ \E n \in Nat : /\ DOMAIN line = 1 .. n + 1 /\ DOMAIN rest = 1 .. n
                      /\ \A j \in 1 .. n : rest[j] = line[j + 1]
    /\ t \in Threads /\ run[t].kind # "store" /\ then[t] = line[1]
    /\ \A u \in Threads : u # t => then[u] = run[u]

(* A thread takes the first task of the line: it changes places.            *)
LEMMA DispatchWork ==
  ASSUME NEW fs, NEW line, NEW run, NEW read, NEW data, NEW st,
         WorkOK(fs, line, run, read, data, st),
         NEW rest, NEW then, NEW t, Dispatched(line, run, rest, then, t)
  PROVE  WorkOK(fs, rest, then, read, data, st)
<1>0. /\ fs \in Seq(File) /\ TasksOK(fs, line, run, read) /\ PlacedOK(fs, line, run)
      /\ DataOK(fs, line, run, read, data) /\ StatsOK(fs, run, data, st)
      /\ read \subseteq DOMAIN fs
  BY DEF WorkOK
<1>1. PICK n \in Nat : /\ DOMAIN line = 1 .. n + 1 /\ DOMAIN rest = 1 .. n
                       /\ \A j \in 1 .. n : rest[j] = line[j + 1]
  BY DEF Dispatched
<1>2. /\ t \in Threads /\ run[t].kind # "store" /\ then[t] = line[1]
      /\ \A u \in Threads : u # t => then[u] = run[u]
  BY DEF Dispatched
<1>3. /\ 1 \in DOMAIN line
      /\ \A j \in DOMAIN rest : j + 1 \in DOMAIN line /\ j + 1 # 1 /\ rest[j] = line[j + 1]
      /\ \A j \in DOMAIN line : j # 1 => j - 1 \in DOMAIN rest /\ rest[j - 1] = line[j]
      /\ \A j, k \in DOMAIN rest : j + 1 = k + 1 => j = k
  BY <1>1
<1>4. \A g : ~Has(run[t], g) /\ ~AtUseful(run[t], g) BY <1>2 DEF Has, AtUseful
<1>5. line[1].kind = "store" => StoreOK(fs, line[1], read) /\ line[1].at = "packet"
  BY <1>0, <1>3 DEF TasksOK
<1>6. \A g : ~AtUseful(then[t], g) BY <1>2, <1>5 DEF AtUseful
<1>7. TasksOK(fs, rest, then, read)
  <2>1. ASSUME NEW j \in DOMAIN rest, rest[j].kind = "store"
        PROVE  StoreOK(fs, rest[j], read) /\ rest[j].at = "packet"
    BY <1>0, <1>3, <2>1 DEF TasksOK
  <2>2. ASSUME NEW u \in Threads, then[u].kind = "store" PROVE StoreOK(fs, then[u], read)
    BY <1>0, <1>2, <1>5, <2>2 DEF TasksOK
  <2> QED BY <2>1, <2>2 DEF TasksOK
<1>8. PlacedOK(fs, rest, then)
  <2> SUFFICES ASSUME NEW g \in Packets(fs) PROVE OnePlace(g, rest, then) BY DEF PlacedOK
  <2>0. OnePlace(g, line, run) BY <1>0 DEF PlacedOK
  <2>1. \A j, k \in DOMAIN line : Has(line[j], g) /\ Has(line[k], g) => j = k
    BY <2>0 DEF OnePlace
  <2>2. \A j \in DOMAIN line : \A u \in Threads : ~(Has(line[j], g) /\ Has(run[u], g))
    BY <2>0 DEF OnePlace
  <2>3. \A u, v \in Threads : Has(run[u], g) /\ Has(run[v], g) => u = v
    BY <2>0 DEF OnePlace
  <2>4. ASSUME NEW j \in DOMAIN rest, NEW k \in DOMAIN rest, Has(rest[j], g), Has(rest[k], g)
        PROVE  j = k
    BY <1>3, <2>1, <2>4
  <2>5. ASSUME NEW j \in DOMAIN rest, NEW u \in Threads, Has(rest[j], g), Has(then[u], g)
        PROVE  FALSE
    <3>1. CASE u = t BY <1>2, <1>3, <2>1, <2>5, <3>1
    <3>2. CASE u # t BY <1>2, <1>3, <2>2, <2>5, <3>2
    <3> QED BY <3>1, <3>2
  <2>6. ASSUME NEW u \in Threads, NEW v \in Threads, Has(then[u], g), Has(then[v], g)
        PROVE  u = v
    <3>1. CASE u = t /\ v # t BY <1>2, <1>3, <2>2, <2>6, <3>1
    <3>2. CASE u # t /\ v = t BY <1>2, <1>3, <2>2, <2>6, <3>2
    <3>3. CASE u # t /\ v # t BY <1>2, <2>3, <2>6, <3>3
    <3> QED BY <3>1, <3>2, <3>3
  <2> QED BY <2>4, <2>5, <2>6 DEF OnePlace
<1>9. DataOK(fs, rest, then, read, data)
  <2>1. ASSUME NEW g \in Packets(fs), NEW e
        PROVE  Reached(g, e, rest, then, read) <=> Reached(g, e, line, run, read)
    <3>1. ASSUME Reached(g, e, rest, then, read) PROVE Reached(g, e, line, run, read)
      <4>1. /\ g[1] \in read /\ \A j \in DOMAIN rest : ~Has(rest[j], g)
            /\ \A u \in Threads : Has(then[u], g) => g = First(then[u]) /\ e \in Past(then[u].at)
        BY <3>1 DEF Reached
      <4>2. ~Has(line[1], g)
        <5> SUFFICES ASSUME Has(line[1], g) PROVE FALSE OBVIOUS
        <5>1. line[1].at = "packet" BY <1>5 DEF Has
        <5>2. e \in Past(line[1].at) BY <1>2, <4>1
        <5> QED BY <5>1, <5>2 DEF Past
      <4>3. \A j \in DOMAIN line : ~Has(line[j], g) BY <1>3, <4>1, <4>2
      <4>4. \A u \in Threads : Has(run[u], g) => g = First(run[u]) /\ e \in Past(run[u].at)
        BY <1>2, <1>4, <4>1
      <4> QED BY <4>1, <4>3, <4>4 DEF Reached
    <3>2. ASSUME Reached(g, e, line, run, read) PROVE Reached(g, e, rest, then, read)
      <4>1. /\ g[1] \in read /\ \A j \in DOMAIN line : ~Has(line[j], g)
            /\ \A u \in Threads : Has(run[u], g) => g = First(run[u]) /\ e \in Past(run[u].at)
        BY <3>2 DEF Reached
      <4>2. \A j \in DOMAIN rest : ~Has(rest[j], g) BY <1>3, <4>1
      <4>3. ~Has(then[t], g) BY <1>2, <1>3, <4>1
      <4>4. \A u \in Threads : Has(then[u], g) => g = First(then[u]) /\ e \in Past(then[u].at)
        BY <1>2, <4>1, <4>3
      <4> QED BY <4>1, <4>2, <4>4 DEF Reached
    <3> QED BY <3>1, <3>2
  <2> QED BY <1>0, <2>1 DEF DataOK
<1>10. StatsOK(fs, then, data, st)
  <2>1. \A u \in Threads : \A g : AtUseful(then[u], g) <=> AtUseful(run[u], g)
    BY <1>2, <1>4, <1>6
  <2>2. Counted(fs, then, data) = Counted(fs, run, data) BY <2>1 DEF Counted
  <2>3. \A s : Count(fs, s, then, data) = Count(fs, s, run, data) BY <2>2 DEF Count
  <2>4. ASSUME NEW u \in Threads, then[u].kind = "store", then[u].at # "packet"
        PROVE  then[u].reg <= Count(fs, then[u].at, then, data)
    <3>1. u # t BY <1>2, <1>5, <2>4
    <3>2. then[u] = run[u] BY <1>2, <3>1
    <3> QED BY <1>0, <2>3, <2>4, <3>2 DEF StatsOK
  <2> QED BY <1>0, <2>3, <2>4 DEF StatsOK
<1> QED BY <1>0, <1>7, <1>8, <1>9, <1>10 DEF WorkOK

-----------------------------------------------------------------------------
(* Steps that store *)

(* What comes after its first packet in a task.                             *)
LEMMA TodoFacts ==
  ASSUME NEW fs, fs \in Seq(File), NEW read, NEW task, StoreOK(fs, task, read),
         task.kind = "store", task.todo # <<>>
  PROVE  /\ First(task) \in Packets(fs) /\ Has(task, First(task))
         /\ First(task)[1] = task.file /\ First(task)[2] = Head(task.todo)
         /\ Tail(task.todo) \in Seq(Nat)
         /\ \A j \in DOMAIN Tail(task.todo) :
               j + 1 \in DOMAIN task.todo /\ Tail(task.todo)[j] = task.todo[j + 1]
         /\ \A g \in Packets(fs) :
               (task.file = g[1] /\ \E j \in DOMAIN Tail(task.todo) : Tail(task.todo)[j] = g[2])
               <=> Has(task, g) /\ g # First(task)
<1>0. /\ task.todo \in Seq(Nat)
      /\ \A j \in DOMAIN task.todo : <<task.file, task.todo[j]>> \in Packets(fs)
      /\ \A j, k \in DOMAIN task.todo : task.todo[j] = task.todo[k] => j = k
  BY DEF StoreOK
<1>1. PICK todo \in Seq(Nat) : todo = task.todo BY <1>0
<1>2. PICK n \in Nat : Len(todo) = n + 1
  <2>1. Len(todo) \in Nat /\ Len(todo) # 0 BY <1>1
  <2>2. Len(todo) - 1 \in Nat /\ Len(todo) = (Len(todo) - 1) + 1 BY <2>1
  <2> QED BY <2>2
<1>3. DOMAIN todo = 1 .. n + 1 /\ 1 \in DOMAIN todo BY <1>2
<1>4. Head(todo) = todo[1] BY <1>1
<1>5. PICK rest \in Seq(Nat) : rest = Tail(todo)
  <2>1. todo # <<>> BY <1>1
  <2>2. Tail(todo) \in Seq(Nat) BY <2>1
  <2> QED BY <2>2
<1>6. DOMAIN rest = 1 .. n /\ \A j \in 1 .. n : rest[j] = todo[j + 1] BY <1>2, <1>5
<1>7. /\ \A j \in DOMAIN rest : j + 1 \in DOMAIN todo /\ j + 1 # 1 /\ rest[j] = todo[j + 1]
      /\ \A j \in DOMAIN todo : j # 1 => j - 1 \in DOMAIN rest /\ rest[j - 1] = todo[j]
  <2>1. ASSUME NEW j \in 1 .. n
        PROVE  j + 1 \in 1 .. n + 1 /\ j + 1 # 1 /\ rest[j] = todo[j + 1]
    BY <1>6
  <2>2. ASSUME NEW j \in 1 .. n + 1, j # 1
        PROVE  j - 1 \in 1 .. n /\ rest[j - 1] = todo[j]
    <3>1. j - 1 \in 1 .. n /\ (j - 1) + 1 = j BY <2>2
    <3> QED BY <1>6, <3>1
  <2> QED BY <1>3, <1>6, <2>1, <2>2
<1>8. First(task) = <<task.file, todo[1]>> BY <1>1, <1>4 DEF First
<1>9. First(task) \in Packets(fs)
  <2>1. 1 \in DOMAIN task.todo /\ task.todo[1] = todo[1] BY <1>1, <1>3
  <2>2. <<task.file, task.todo[1]>> \in Packets(fs) BY <1>0, <2>1
  <2> QED BY <1>8, <2>1, <2>2
<1>10. First(task)[1] = task.file /\ First(task)[2] = todo[1] BY <1>8
<1>11. Has(task, First(task)) BY <1>1, <1>3, <1>10 DEF Has
<1>12. ASSUME NEW g \in Packets(fs)
       PROVE  (task.file = g[1] /\ \E j \in DOMAIN rest : rest[j] = g[2])
                 <=> Has(task, g) /\ g # First(task)
  <2>0. g = <<g[1], g[2]>> BY PacketFacts
  <2>1. ASSUME task.file = g[1], NEW j \in DOMAIN rest, rest[j] = g[2]
        PROVE  Has(task, g) /\ g # First(task)
    <3>1. j + 1 \in DOMAIN todo /\ j + 1 # 1 /\ todo[j + 1] = g[2] BY <1>7, <2>1
    <3>2. Has(task, g) BY <1>1, <2>1, <3>1 DEF Has
    <3>3. todo[j + 1] # todo[1] BY <1>0, <1>1, <1>3, <3>1
    <3>4. g # First(task) BY <1>10, <3>1, <3>3
    <3> QED BY <3>2, <3>4
  <2>2. ASSUME Has(task, g), g # First(task)
        PROVE  task.file = g[1] /\ \E j \in DOMAIN rest : rest[j] = g[2]
    <3>1. task.file = g[1] /\ \E j \in DOMAIN todo : todo[j] = g[2] BY <1>1, <2>2 DEF Has
    <3>2. PICK j \in DOMAIN todo : todo[j] = g[2] BY <3>1
    <3>3. j # 1 BY <1>8, <2>0, <2>2, <3>1, <3>2
    <3>4. j - 1 \in DOMAIN rest /\ rest[j - 1] = g[2] BY <1>7, <3>2, <3>3
    <3> QED BY <3>1, <3>4
  <2> QED BY <2>1, <2>2
<1> QED BY <1>1, <1>4, <1>5, <1>7, <1>9, <1>10, <1>11, <1>12

(* Thread t goes on with the stages of its packet, or with the next packet. *)
Moves(fs, read, run, then, t) ==
    /\ t \in Threads /\ run[t].kind = "store" /\ run[t].todo # <<>>
    /\ \A u \in Threads : u # t => then[u] = run[u]
    /\ then[t].kind = "store" /\ then[t].file = run[t].file
    /\ StoreOK(fs, then[t], read)
    /\ \/ then[t].todo = run[t].todo
       \/ then[t].todo = Tail(run[t].todo) /\ then[t].at = "packet"

(* A step within a store task moves no packet but its first.                *)
LEMMA MoveFacts ==
  ASSUME NEW fs, NEW line, NEW run, NEW read, NEW then, NEW t,
         fs \in Seq(File), TasksOK(fs, line, run, read), PlacedOK(fs, line, run),
         Moves(fs, read, run, then, t)
  PROVE  /\ TasksOK(fs, line, then, read) /\ PlacedOK(fs, line, then)
         /\ First(run[t]) \in Packets(fs) /\ StoreOK(fs, run[t], read)
         /\ \A g \in Packets(fs) : g # First(run[t]) => \A e :
               Reached(g, e, line, then, read) <=> Reached(g, e, line, run, read)
         /\ \A e : Reached(First(run[t]), e, line, run, read) <=> e \in Past(run[t].at)
         /\ then[t].todo = run[t].todo =>
               \A e : Reached(First(run[t]), e, line, then, read) <=> e \in Past(then[t].at)
         /\ then[t].todo # run[t].todo => \A e : Reached(First(run[t]), e, line, then, read)
         /\ \A u \in Threads : u # t => ~AtUseful(run[u], First(run[t]))
<1>0. /\ t \in Threads /\ run[t].kind = "store" /\ run[t].todo # <<>>
      /\ \A u \in Threads : u # t => then[u] = run[u]
      /\ then[t].kind = "store" /\ then[t].file = run[t].file
      /\ StoreOK(fs, then[t], read)
      /\ then[t].todo = run[t].todo \/ then[t].todo = Tail(run[t].todo)
      /\ then[t].todo = run[t].todo \/ then[t].at = "packet"
  BY DEF Moves
<1>1. StoreOK(fs, run[t], read) BY <1>0 DEF TasksOK
<1> DEFINE g0 == First(run[t])
<1>a. /\ g0 \in Packets(fs) /\ Has(run[t], g0)
      /\ g0[1] = run[t].file /\ g0[2] = Head(run[t].todo)
  BY <1>0, <1>1, TodoFacts
<1>b. \A g \in Packets(fs) :
         (run[t].file = g[1]
               /\ \E j \in DOMAIN Tail(run[t].todo) : Tail(run[t].todo)[j] = g[2])
         <=> Has(run[t], g) /\ g # g0
  <2>1. PICK task : task = run[t] OBVIOUS
  <2>2. StoreOK(fs, task, read) /\ task.kind = "store" /\ task.todo # <<>> BY <1>0, <1>1, <2>1
  <2>3. \A g \in Packets(fs) :
           (task.file = g[1] /\ \E j \in DOMAIN Tail(task.todo) : Tail(task.todo)[j] = g[2])
           <=> Has(task, g) /\ g # First(task)
    BY <2>2, TodoFacts
  <2> QED BY <2>1, <2>3
<1>2. \A g \in Packets(fs) : Has(then[t], g) <=>
         Has(run[t], g) /\ (then[t].todo # run[t].todo => g # g0)
  <2> SUFFICES ASSUME NEW g \in Packets(fs)
               PROVE  Has(then[t], g) <=>
                         Has(run[t], g) /\ (then[t].todo # run[t].todo => g # g0)
    OBVIOUS
  <2>1. CASE then[t].todo = run[t].todo BY <1>0, <2>1 DEF Has
  <2>2. CASE then[t].todo # run[t].todo
    <3>1. then[t].todo = Tail(run[t].todo) BY <1>0, <2>2
    <3>2. Has(then[t], g) <=> run[t].file = g[1]
             /\ \E j \in DOMAIN Tail(run[t].todo) : Tail(run[t].todo)[j] = g[2]
      BY <1>0, <3>1 DEF Has
    <3> QED BY <1>b, <2>2, <3>2
  <2> QED BY <2>1, <2>2
<1>3. then[t].todo = run[t].todo => First(then[t]) = g0 BY <1>0 DEF First
<1> HIDE DEF g0
<1>4. /\ \A j \in DOMAIN line : ~Has(line[j], g0)
      /\ \A u \in Threads : u # t => ~Has(run[u], g0)
  <2>1. OnePlace(g0, line, run) BY <1>a DEF PlacedOK
  <2> QED BY <1>0, <1>a, <2>1 DEF OnePlace
<1>5. g0[1] \in read BY <1>1, <1>a DEF StoreOK
<1>6. TasksOK(fs, line, then, read)
  <2>1. ASSUME NEW u \in Threads, then[u].kind = "store" PROVE StoreOK(fs, then[u], read)
    <3>1. CASE u = t BY <1>0, <3>1
    <3>2. CASE u # t BY <1>0, <2>1, <3>2 DEF TasksOK
    <3> QED BY <3>1, <3>2
  <2> QED BY <2>1 DEF TasksOK
<1>7. PlacedOK(fs, line, then)
  <2> SUFFICES ASSUME NEW g \in Packets(fs) PROVE OnePlace(g, line, then) BY DEF PlacedOK
  <2>1. OnePlace(g, line, run) BY DEF PlacedOK
  <2>2. \A u \in Threads : Has(then[u], g) => Has(run[u], g) BY <1>0, <1>2
  <2> QED BY <2>1, <2>2 DEF OnePlace
<1>8. ASSUME NEW g \in Packets(fs), g # g0, NEW e
      PROVE  Reached(g, e, line, then, read) <=> Reached(g, e, line, run, read)
  <2>1. \A u \in Threads : Has(then[u], g) <=> Has(run[u], g) BY <1>0, <1>2, <1>8
  <2>2. First(run[t]) # g BY <1>8 DEF g0
  <2>3. Has(then[t], g) => First(then[t]) # g \/ e \notin Past(then[t].at)
    <3>1. CASE then[t].todo = run[t].todo BY <1>3, <1>8, <3>1
    <3>2. CASE then[t].at = "packet" BY <3>2 DEF Past
    <3> QED BY <1>0, <3>1, <3>2
  <2> QED BY <1>0, <2>1, <2>2, <2>3 DEF Reached
<1>9. ASSUME NEW e PROVE Reached(g0, e, line, run, read) <=> e \in Past(run[t].at)
  <2>1. g0 = First(run[t]) BY DEF g0
  <2> QED BY <1>0, <1>a, <1>4, <1>5, <2>1 DEF Reached
<1>10. ASSUME then[t].todo = run[t].todo, NEW e
       PROVE  Reached(g0, e, line, then, read) <=> e \in Past(then[t].at)
  <2>1. Has(then[t], g0) BY <1>2, <1>a, <1>10
  <2> QED BY <1>0, <1>3, <1>4, <1>5, <1>10, <2>1 DEF Reached
<1>11. ASSUME then[t].todo # run[t].todo, NEW e PROVE Reached(g0, e, line, then, read)
  <2>1. ~Has(then[t], g0) BY <1>2, <1>a, <1>11
  <2> QED BY <1>0, <1>4, <1>5, <2>1 DEF Reached
<1>12. \A u \in Threads : u # t => ~AtUseful(run[u], g0)
  <2> SUFFICES ASSUME NEW u \in Threads, u # t, AtUseful(run[u], g0) PROVE FALSE OBVIOUS
  <2>1. /\ run[u].kind = "store" /\ run[u].at = "useful" /\ First(run[u]) = g0
        /\ StoreOK(fs, run[u], read)
    BY DEF AtUseful, TasksOK
  <2>2. run[u].todo # <<>> BY <2>1 DEF StoreOK, AtStage
  <2>3. Has(run[u], g0) BY <2>1, <2>2, TodoFacts
  <2> QED BY <1>4, <2>3
<1> QED BY <1>1, <1>a, <1>6, <1>7, <1>8, <1>9, <1>10, <1>11, <1>12 DEF g0

(* A packet is parsed, and skipped when it is of no interest.               *)
Parses(fs, run, then, t, st) ==
    /\ run[t].at = "packet"
    /\ then[t].todo # run[t].todo => Ends(fs, First(run[t])) = {}
    /\ \A e \in Ends(fs, First(run[t])) : e \notin Past(then[t].at)
    /\ then[t].at # "packet" => then[t].at \in {"send", "recv"} /\ then[t].reg = st[then[t].at]

(* A parsed packet is skipped, or goes to the first of its ends.            *)
LEMMA ParseWork ==
  ASSUME NEW fs, NEW line, NEW run, NEW read, NEW data, NEW st,
         WorkOK(fs, line, run, read, data, st),
         NEW then, NEW t, Moves(fs, read, run, then, t), Parses(fs, run, then, t, st)
  PROVE  WorkOK(fs, line, then, read, data, st)
<1>0. /\ fs \in Seq(File) /\ TasksOK(fs, line, run, read) /\ PlacedOK(fs, line, run)
      /\ DataOK(fs, line, run, read, data) /\ StatsOK(fs, run, data, st)
      /\ read \subseteq DOMAIN fs
  BY DEF WorkOK
<1> DEFINE g0 == First(run[t])
<1>1. /\ TasksOK(fs, line, then, read) /\ PlacedOK(fs, line, then) /\ g0 \in Packets(fs)
  BY <1>0, MoveFacts
<1>2. \A g \in Packets(fs) : g # g0 => \A e :
         Reached(g, e, line, then, read) <=> Reached(g, e, line, run, read)
  BY <1>0, MoveFacts
<1>3. \A e : Reached(g0, e, line, run, read) <=> e \in Past(run[t].at) BY <1>0, MoveFacts
<1>4. then[t].todo = run[t].todo =>
         \A e : Reached(g0, e, line, then, read) <=> e \in Past(then[t].at)
  BY <1>0, MoveFacts
<1>5. t \in Threads /\ \A u \in Threads : u # t => then[u] = run[u] BY DEF Moves
<1>6. /\ run[t].at = "packet"
      /\ then[t].todo # run[t].todo => Ends(fs, g0) = {}
      /\ \A e \in Ends(fs, g0) : e \notin Past(then[t].at)
      /\ then[t].at # "packet" =>
            then[t].at \in {"send", "recv"} /\ then[t].reg = st[then[t].at]
  BY DEF Parses
<1> HIDE DEF g0
<1>7. DataOK(fs, line, then, read, data)
  <2>1. ASSUME NEW g \in Packets(fs), NEW e \in Ends(fs, g)
        PROVE  Reached(g, e, line, then, read) <=> Reached(g, e, line, run, read)
    <3>1. CASE g # g0 BY <1>2, <3>1
    <3>2. CASE g = g0
      <4>1. ~Reached(g0, e, line, run, read) BY <1>3, <1>6 DEF Past
      <4>2. ~Reached(g0, e, line, then, read) BY <1>4, <1>6, <3>2
      <4> QED BY <3>2, <4>1, <4>2
    <3> QED BY <3>1, <3>2
  <2> QED BY <1>0, <2>1 DEF DataOK
<1>8. StatsOK(fs, then, data, st)
  <2>1. \A g : ~AtUseful(run[t], g) /\ ~AtUseful(then[t], g) BY <1>6 DEF AtUseful
  <2>2. \A u \in Threads : \A g : AtUseful(then[u], g) <=> AtUseful(run[u], g) BY <1>5, <2>1
  <2>3. Counted(fs, then, data) = Counted(fs, run, data) BY <2>2 DEF Counted
  <2>4. \A s : Count(fs, s, then, data) = Count(fs, s, run, data) BY <2>3 DEF Count
  <2>5. ASSUME NEW u \in Threads, then[u].kind = "store", then[u].at # "packet"
        PROVE  then[u].reg <= Count(fs, then[u].at, then, data)
    <3>1. CASE u # t
      <4>1. then[u] = run[u] BY <1>5, <3>1
      <4> QED BY <1>0, <2>4, <2>5, <4>1 DEF StatsOK
    <3>2. CASE u = t
      <4>1. then[t].at \in Stage /\ then[t].reg = st[then[t].at] BY <1>6, <2>5, <3>2 DEF Stage
      <4> QED BY <1>0, <2>4, <3>2, <4>1 DEF StatsOK
    <3> QED BY <3>1, <3>2
  <2> QED BY <1>0, <2>4, <2>5 DEF StatsOK
<1> QED BY <1>0, <1>1, <1>7, <1>8 DEF WorkOK

(* Counts are numbers, and grow with the data set.                          *)
LEMMA CountGrows ==
  ASSUME NEW fs, fs \in Seq(File), NEW run, NEW then, NEW data, NEW more,
         DOMAIN data \subseteq DOMAIN more, DOMAIN more \subseteq KPackets(fs),
         Counted(fs, run, data) \subseteq Counted(fs, then, more)
  PROVE  /\ IsFiniteSet(Counted(fs, run, data)) /\ \A e : IsFiniteSet(OfEnd(data, e))
         /\ \A s : /\ Count(fs, s, run, data) \in Nat /\ Count(fs, s, then, more) \in Nat
                   /\ Count(fs, s, run, data) <= Count(fs, s, then, more)
<1>1. IsFiniteSet(Packets(fs)) /\ IsFiniteSet(KPackets(fs)) BY PacketsFinite
<1>2. Counted(fs, then, more) \in SUBSET Packets(fs) BY DEF Counted
<1>3. IsFiniteSet(Counted(fs, then, more)) BY <1>1, <1>2, FS_Subset
<1>4. /\ IsFiniteSet(Counted(fs, run, data))
      /\ Cardinality(Counted(fs, run, data)) <= Cardinality(Counted(fs, then, more))
  BY <1>3, FS_Subset
<1>5. ASSUME NEW e
      PROVE  /\ IsFiniteSet(OfEnd(data, e)) /\ IsFiniteSet(OfEnd(more, e))
             /\ Cardinality(OfEnd(data, e)) <= Cardinality(OfEnd(more, e))
  <2>1. OfEnd(more, e) \in SUBSET KPackets(fs) BY DEF OfEnd
  <2>2. IsFiniteSet(OfEnd(more, e)) BY <1>1, <2>1, FS_Subset
  <2>3. OfEnd(data, e) \in SUBSET OfEnd(more, e) BY DEF OfEnd
  <2> QED BY <2>2, <2>3, FS_Subset
<1>6. ASSUME NEW s
      PROVE  /\ Count(fs, s, run, data) \in Nat /\ Count(fs, s, then, more) \in Nat
             /\ Count(fs, s, run, data) <= Count(fs, s, then, more)
  <2>1. CASE s = "useful" BY <1>3, <1>4, <2>1, FS_CardinalityType DEF Count
  <2>2. CASE s # "useful" BY <1>5, <2>2, FS_CardinalityType DEF Count
  <2> QED BY <2>1, <2>2
<1> QED BY <1>4, <1>5, <1>6

(* A statistic is written from a register that was not too high.            *)
LEMMA StatGrows ==
  ASSUME NEW fs, fs \in Seq(File), NEW line, NEW run, NEW read, NEW data, NEW st,
         TasksOK(fs, line, run, read), StatsOK(fs, run, data, st),
         NEW then, NEW t, Moves(fs, read, run, then, t), NEW more, NEW st2,
         run[t].at \in Stage, st2 = [st EXCEPT ![run[t].at] = run[t].reg + 1],
         \A s : /\ Count(fs, s, run, data) \in Nat /\ Count(fs, s, then, more) \in Nat
                /\ Count(fs, s, run, data) <= Count(fs, s, then, more),
         Count(fs, run[t].at, then, more) = Count(fs, run[t].at, run, data) + 1,
         then[t].at # "packet" => then[t].at \in Stage /\ then[t].reg = st2[then[t].at]
  PROVE  StatsOK(fs, then, more, st2)
<1>0. /\ st \in [Stage -> Nat]
      /\ \A s \in Stage : st[s] <= Count(fs, s, run, data)
      /\ \A u \in Threads : run[u].kind = "store" /\ run[u].at # "packet" =>
            run[u].reg <= Count(fs, run[u].at, run, data)
  BY DEF StatsOK
<1>1. /\ t \in Threads /\ run[t].kind = "store"
      /\ \A u \in Threads : u # t => then[u] = run[u]
  BY DEF Moves
<1>2. run[t].at # "packet" BY DEF Stage
<1>3. PICK reg \in Nat : reg = run[t].reg BY <1>1 DEF TasksOK, StoreOK
<1>4. PICK before \in Nat : before = Count(fs, run[t].at, run, data) OBVIOUS
<1>5. PICK now \in Nat : now = Count(fs, run[t].at, then, more) OBVIOUS
<1>6. reg <= before /\ now = before + 1 BY <1>0, <1>1, <1>2, <1>3, <1>4, <1>5
<1>7. reg + 1 <= now BY <1>6
<1>8. /\ st2 \in [Stage -> Nat] /\ st2[run[t].at] = reg + 1
      /\ \A s \in Stage : s # run[t].at => st2[s] = st[s]
  BY <1>0, <1>3
<1>9. ASSUME NEW s \in Stage PROVE st2[s] <= Count(fs, s, then, more)
  <2>1. CASE s = run[t].at BY <1>5, <1>7, <1>8, <2>1
  <2>2. CASE s # run[t].at
    <3>1. PICK a \in Nat : a = st[s] BY <1>0
    <3>2. PICK b \in Nat : b = Count(fs, s, run, data) OBVIOUS
    <3>3. PICK c \in Nat : c = Count(fs, s, then, more) OBVIOUS
    <3>4. a <= b /\ b <= c BY <1>0, <3>1, <3>2, <3>3
    <3>5. st2[s] = a BY <1>8, <2>2, <3>1
    <3> QED BY <3>3, <3>4, <3>5
  <2> QED BY <2>1, <2>2
<1>10. ASSUME NEW u \in Threads, then[u].kind = "store", then[u].at # "packet"
       PROVE  then[u].reg <= Count(fs, then[u].at, then, more)
  <2>1. CASE u = t BY <1>9, <1>10, <2>1
  <2>2. CASE u # t
    <3>0. then[u] = run[u] BY <1>1, <2>2
    <3>1. PICK a \in Nat : a = run[u].reg BY <1>10, <3>0 DEF TasksOK, StoreOK
    <3>2. PICK b \in Nat : b = Count(fs, run[u].at, run, data) OBVIOUS
    <3>3. PICK c \in Nat : c = Count(fs, run[u].at, then, more) OBVIOUS
    <3>4. a <= b /\ b <= c BY <1>0, <1>10, <3>0, <3>1, <3>2, <3>3
    <3>5. a <= c BY <3>4
    <3> QED BY <3>0, <3>1, <3>3, <3>5
  <2> QED BY <2>1, <2>2
<1> QED BY <1>8, <1>9, <1>10 DEF StatsOK

(* An end of the packet is stored; another end or "useful" comes next.      *)
StoresEnd(fs, run, then, t, data, more, st2) ==
    /\ run[t].at \in {"send", "recv"} /\ then[t].todo = run[t].todo
    /\ more = [p \in DOMAIN data \cup {KP(First(run[t]), run[t].at)} |-> 1]
    /\ \A e \in Ends(fs, First(run[t])) :
          e \in Past(then[t].at) <=> e \in Past(run[t].at) \/ e = run[t].at
    /\ then[t].at \in Stage /\ then[t].reg = st2[then[t].at]

(* An end is stored: the data set and its statistic grow together.          *)
LEMMA StoreEndWork ==
  ASSUME NEW fs, NEW line, NEW run, NEW read, NEW data, NEW st,
         WorkOK(fs, line, run, read, data, st),
         NEW then, NEW t, Moves(fs, read, run, then, t), NEW more, NEW st2,
         st2 = [st EXCEPT ![run[t].at] = run[t].reg + 1],
         StoresEnd(fs, run, then, t, data, more, st2)
  PROVE  WorkOK(fs, line, then, read, more, st2)
<1>0. /\ fs \in Seq(File) /\ TasksOK(fs, line, run, read) /\ PlacedOK(fs, line, run)
      /\ DataOK(fs, line, run, read, data) /\ StatsOK(fs, run, data, st)
      /\ read \subseteq DOMAIN fs
  BY DEF WorkOK
<1> DEFINE g0 == First(run[t])
           a == run[t].at
<1>1. /\ TasksOK(fs, line, then, read) /\ PlacedOK(fs, line, then)
      /\ g0 \in Packets(fs) /\ StoreOK(fs, run[t], read)
  BY <1>0, MoveFacts
<1>2. \A g \in Packets(fs) : g # g0 => \A e :
         Reached(g, e, line, then, read) <=> Reached(g, e, line, run, read)
  BY <1>0, MoveFacts
<1>3. \A e : Reached(g0, e, line, run, read) <=> e \in Past(a) BY <1>0, MoveFacts
<1>4. \A e : Reached(g0, e, line, then, read) <=> e \in Past(then[t].at)
  BY <1>0, MoveFacts DEF StoresEnd
<1>5. /\ t \in Threads /\ \A u \in Threads : u # t => then[u] = run[u]
      /\ then[t].file = run[t].file
  BY DEF Moves
<1>6. /\ a \in {"send", "recv"} /\ then[t].todo = run[t].todo
      /\ more = [p \in DOMAIN data \cup {KP(g0, a)} |-> 1]
      /\ \A e \in Ends(fs, g0) : e \in Past(then[t].at) <=> e \in Past(a) \/ e = a
      /\ then[t].at \in Stage /\ then[t].reg = st2[then[t].at]
  BY DEF StoresEnd
<1>7. a \in Ends(fs, g0) BY <1>1, <1>6 DEF StoreOK, AtStage
<1>8. First(then[t]) = g0 BY <1>5, <1>6 DEF First
<1> HIDE DEF g0
<1>10. DOMAIN more = DOMAIN data \cup {KP(g0, a)} BY <1>6
<1>11. KP(g0, a) \notin DOMAIN data
  <2>1. a \notin Past(a) BY <1>6 DEF Past
  <2> QED BY <1>0, <1>1, <1>3, <1>7, <2>1 DEF DataOK
<1>12. \A g \in Packets(fs) : \A e :
          KP(g, e) \in DOMAIN more <=> KP(g, e) \in DOMAIN data \/ (g = g0 /\ e = a)
  BY <1>0, <1>1, <1>10, KPFacts
<1>13. DOMAIN more \subseteq KPackets(fs)
  <2>1. KP(g0, a) \in KPackets(fs) BY <1>0, <1>1, <1>7, KPFacts
  <2> QED BY <1>0, <1>10, <2>1 DEF DataOK
<1>14. DataOK(fs, line, then, read, more)
  <2>1. ASSUME NEW g \in Packets(fs), NEW e \in Ends(fs, g)
        PROVE  KP(g, e) \in DOMAIN more <=> Reached(g, e, line, then, read)
    <3>1. KP(g, e) \in DOMAIN data <=> Reached(g, e, line, run, read) BY <1>0 DEF DataOK
    <3>2. CASE g # g0 BY <1>2, <1>12, <3>1, <3>2
    <3>3. CASE g = g0 BY <1>3, <1>4, <1>6, <1>12, <3>1, <3>3
    <3> QED BY <3>2, <3>3
  <2>2. more = [p \in DOMAIN more |-> 1] BY <1>6, <1>10
  <2> QED BY <1>13, <2>1, <2>2 DEF DataOK
<1>15. Counted(fs, run, data) \subseteq Counted(fs, then, more)
  <2> SUFFICES ASSUME NEW g \in Counted(fs, run, data) PROVE g \in Counted(fs, then, more)
    OBVIOUS
  <2>1. /\ g \in Packets(fs) /\ Ends(fs, g) # {}
        /\ \A e \in Ends(fs, g) : KP(g, e) \in DOMAIN data
        /\ \A u \in Threads : ~AtUseful(run[u], g)
    BY DEF Counted
  <2>2. g # g0 BY <1>7, <1>11, <2>1
  <2>3. ~AtUseful(then[t], g) BY <1>8, <2>2 DEF AtUseful
  <2>4. \A u \in Threads : ~AtUseful(then[u], g) BY <1>5, <2>1, <2>3
  <2> QED BY <1>10, <2>1, <2>4 DEF Counted
<1>16. /\ IsFiniteSet(OfEnd(data, a))
       /\ \A s : /\ Count(fs, s, run, data) \in Nat /\ Count(fs, s, then, more) \in Nat
                 /\ Count(fs, s, run, data) <= Count(fs, s, then, more)
  BY <1>0, <1>10, <1>13, <1>15, CountGrows
<1>17. Count(fs, a, then, more) = Count(fs, a, run, data) + 1
  <2>1. KP(g0, a).end = a BY <1>0, KPFacts
  <2>2. OfEnd(more, a) = OfEnd(data, a) \cup {KP(g0, a)} BY <1>10, <2>1 DEF OfEnd
  <2>3. KP(g0, a) \notin OfEnd(data, a) BY <1>11 DEF OfEnd
  <2>4. Cardinality(OfEnd(more, a)) = Cardinality(OfEnd(data, a)) + 1
    BY <1>16, <2>2, <2>3, FS_AddElement
  <2> QED BY <1>6, <2>4 DEF Count
<1>18. StatsOK(fs, then, more, st2)
  <2>1. a \in Stage BY <1>6 DEF Stage
  <2>2. then[t].at # "packet" => then[t].at \in Stage /\ then[t].reg = st2[then[t].at]
    BY <1>6
  <2>3. \A s : /\ Count(fs, s, run, data) \in Nat /\ Count(fs, s, then, more) \in Nat
                /\ Count(fs, s, run, data) <= Count(fs, s, then, more)
    BY <1>16
  <2> QED BY <1>0, <1>17, <2>1, <2>2, <2>3, StatGrows
<1> QED BY <1>0, <1>1, <1>14, <1>18 DEF WorkOK

(* The packet counts as useful, and the next one follows.                   *)
LEMMA StoreUsefulWork ==
  ASSUME NEW fs, NEW line, NEW run, NEW read, NEW data, NEW st,
         WorkOK(fs, line, run, read, data, st),
         NEW then, NEW t, Moves(fs, read, run, then, t), NEW st2,
         st2 = [st EXCEPT ![run[t].at] = run[t].reg + 1],
         run[t].at = "useful", then[t].at = "packet", then[t].todo # run[t].todo
  PROVE  WorkOK(fs, line, then, read, data, st2)
<1>0. /\ fs \in Seq(File) /\ TasksOK(fs, line, run, read) /\ PlacedOK(fs, line, run)
      /\ DataOK(fs, line, run, read, data) /\ StatsOK(fs, run, data, st)
      /\ read \subseteq DOMAIN fs
  BY DEF WorkOK
<1> DEFINE g0 == First(run[t])
<1>1. /\ TasksOK(fs, line, then, read) /\ PlacedOK(fs, line, then)
      /\ g0 \in Packets(fs) /\ StoreOK(fs, run[t], read)
  BY <1>0, MoveFacts
<1>2. \A g \in Packets(fs) : g # g0 => \A e :
         Reached(g, e, line, then, read) <=> Reached(g, e, line, run, read)
  BY <1>0, MoveFacts
<1>3. \A e : Reached(g0, e, line, run, read) <=> e \in Past(run[t].at) BY <1>0, MoveFacts
<1>4. \A e : Reached(g0, e, line, then, read) BY <1>0, MoveFacts
<1>5. /\ t \in Threads /\ run[t].kind = "store"
      /\ \A u \in Threads : u # t => then[u] = run[u]
  BY DEF Moves
<1>6. \A u \in Threads : u # t => ~AtUseful(run[u], g0) BY <1>0, MoveFacts
<1>7. Ends(fs, g0) # {} BY <1>1 DEF StoreOK, AtStage
<1>8. \A g : AtUseful(run[t], g) <=> g = g0 BY <1>5 DEF AtUseful
<1> HIDE DEF g0
<1>9. \A e \in Ends(fs, g0) : Reached(g0, e, line, run, read)
  <2>1. Ends(fs, g0) \subseteq {"send", "recv"} BY <1>0, <1>1, PacketFacts
  <2> QED BY <1>3, <2>1 DEF Past
<1>10. DataOK(fs, line, then, read, data)
  <2>1. ASSUME NEW g \in Packets(fs), NEW e \in Ends(fs, g)
        PROVE  Reached(g, e, line, then, read) <=> Reached(g, e, line, run, read)
    <3>1. CASE g # g0 BY <1>2, <3>1
    <3>2. CASE g = g0 BY <1>4, <1>9, <3>2
    <3> QED BY <3>1, <3>2
  <2> QED BY <1>0, <2>1 DEF DataOK
<1>11. \A g : ~AtUseful(then[t], g) BY DEF AtUseful
<1>12. Counted(fs, then, data) = Counted(fs, run, data) \cup {g0}
  <2>1. ASSUME NEW g \in Packets(fs), g # g0
        PROVE  \A u \in Threads : AtUseful(then[u], g) <=> AtUseful(run[u], g)
    BY <1>5, <1>8, <1>11, <2>1
  <2>2. \A u \in Threads : ~AtUseful(then[u], g0) BY <1>5, <1>6, <1>11
  <2>3. \A e \in Ends(fs, g0) : KP(g0, e) \in DOMAIN data BY <1>0, <1>1, <1>9 DEF DataOK
  <2>4. g0 \in Counted(fs, then, data) BY <1>1, <1>7, <2>2, <2>3 DEF Counted
  <2>5. ASSUME NEW g, g # g0
        PROVE  g \in Counted(fs, then, data) <=> g \in Counted(fs, run, data)
    BY <2>1, <2>5 DEF Counted
  <2> QED BY <2>4, <2>5
<1>13. g0 \notin Counted(fs, run, data) BY <1>5, <1>8 DEF Counted
<1>14. DOMAIN data \subseteq KPackets(fs) BY <1>0 DEF DataOK
<1>15. Counted(fs, run, data) \subseteq Counted(fs, then, data) BY <1>12
<1>16. /\ IsFiniteSet(Counted(fs, run, data))
       /\ \A s : /\ Count(fs, s, run, data) \in Nat /\ Count(fs, s, then, data) \in Nat
                 /\ Count(fs, s, run, data) <= Count(fs, s, then, data)
  BY <1>0, <1>14, <1>15, CountGrows
<1>17. Count(fs, "useful", then, data) = Count(fs, "useful", run, data) + 1
  <2>1. Cardinality(Counted(fs, then, data)) = Cardinality(Counted(fs, run, data)) + 1
    BY <1>12, <1>13, <1>16, FS_AddElement
  <2> QED BY <2>1 DEF Count
<1>18. StatsOK(fs, then, data, st2)
  <2>1. run[t].at \in Stage BY DEF Stage
  <2> QED BY <1>0, <1>16, <1>17, <2>1, StatGrows
<1> QED BY <1>0, <1>1, <1>10, <1>18 DEF WorkOK

(* File f is read, and its packets, cut into pieces, join the line.         *)
Adds(fs, line, read, longer, f, cut) ==
    /\ f \in DOMAIN fs /\ f \notin read
    /\ \E q \in Nat, m \in Nat, n \in Nat, s \in Nat :
          /\ DOMAIN line = 1 .. q /\ DOMAIN longer = 1 .. q + m
          /\ \A j \in 1 .. q : longer[j] = line[j]
          /\ \A k \in 1 .. m : longer[q + k] = StoreTask(f, cut[k], "packet", 0)
          /\ DOMAIN fs[f].packets = 1 .. n
          /\ Pieces(m, n, s)
          /\ \A k \in 1 .. m : Lists(cut[k], n, k, s)

(* A file that is read adds its packets to the end of the line.             *)
LEMMA AddWork ==
  ASSUME NEW fs, NEW line, NEW run, NEW read, NEW data, NEW st,
         WorkOK(fs, line, run, read, data, st),
         NEW longer, NEW f, NEW cut, Adds(fs, line, read, longer, f, cut)
  PROVE  WorkOK(fs, longer, run, read \cup {f}, data, st)
<1>0. /\ fs \in Seq(File) /\ TasksOK(fs, line, run, read) /\ PlacedOK(fs, line, run)
      /\ DataOK(fs, line, run, read, data) /\ StatsOK(fs, run, data, st)
      /\ read \subseteq DOMAIN fs
  BY DEF WorkOK
<1>1. f \in DOMAIN fs /\ f \notin read BY DEF Adds
<1>2. PICK q \in Nat, m \in Nat, n \in Nat, s \in Nat :
          /\ DOMAIN line = 1 .. q /\ DOMAIN longer = 1 .. q + m
          /\ \A j \in 1 .. q : longer[j] = line[j]
          /\ \A k \in 1 .. m : longer[q + k] = StoreTask(f, cut[k], "packet", 0)
          /\ DOMAIN fs[f].packets = 1 .. n
          /\ Pieces(m, n, s)
          /\ \A k \in 1 .. m : Lists(cut[k], n, k, s)
  BY DEF Adds
<1>3. /\ \A j \in DOMAIN line : j \in DOMAIN longer /\ longer[j] = line[j]
      /\ \A k \in 1 .. m : q + k \in DOMAIN longer /\ q + k \notin DOMAIN line
  BY <1>2
<1>4. \A j \in DOMAIN longer : j \in DOMAIN line \/ \E k \in 1 .. m : j = q + k
  <2> SUFFICES ASSUME NEW j \in DOMAIN longer, j \notin DOMAIN line
               PROVE  \E k \in 1 .. m : j = q + k
    OBVIOUS
  <2>1. j - q \in 1 .. m /\ j = q + (j - q) BY <1>2
  <2> QED BY <2>1
<1>5. ASSUME NEW k \in 1 .. m
      PROVE  /\ longer[q + k].kind = "store" /\ longer[q + k].file = f
             /\ longer[q + k].at = "packet" /\ longer[q + k].todo = cut[k]
             /\ StoreOK(fs, longer[q + k], read \cup {f})
  <2>1. PICK task : task = longer[q + k] OBVIOUS
  <2>2. task = StoreTask(f, cut[k], "packet", 0) BY <1>2, <2>1
  <2>3. /\ task.kind = "store" /\ task.file = f /\ task.at = "packet" /\ task.todo = cut[k]
        /\ task.reg = 0
    BY <2>2 DEF StoreTask
  <2>4. Lists(cut[k], n, k, s) BY <1>2
  <2>5. /\ cut[k] \in Seq(Nat) /\ \A j \in DOMAIN cut[k] : cut[k][j] \in 1 .. n
        /\ \A i, j \in DOMAIN cut[k] : cut[k][i] = cut[k][j] => i = j
    BY <2>4 DEF Lists
  <2>6. \A j \in DOMAIN cut[k] : <<f, cut[k][j]>> \in Packets(fs)
    BY <1>0, <1>1, <1>2, <2>5, PacketFacts
  <2>7. task = StoreTask(task.file, task.todo, task.at, task.reg) BY <2>2, <2>3
  <2>8. StoreOK(fs, task, read \cup {f})
    <3>1. PICK todo : todo = cut[k] OBVIOUS
    <3>2. /\ todo \in Seq(Nat)
          /\ \A i, j \in DOMAIN todo : todo[i] = todo[j] => i = j
          /\ \A j \in DOMAIN todo : <<f, todo[j]>> \in Packets(fs)
      BY <2>5, <2>6, <3>1
    <3>3. task.todo = todo BY <2>3, <3>1
    <3>4. task.reg \in Nat /\ task.file \in read \cup {f} BY <2>3
    <3>5. \A j \in DOMAIN task.todo : <<task.file, task.todo[j]>> \in Packets(fs)
      BY <2>3, <3>2, <3>3
    <3>6. \A i, j \in DOMAIN task.todo : task.todo[i] = task.todo[j] => i = j
      BY <3>2, <3>3
    <3>7. task.todo \in Seq(Nat) BY <3>2, <3>3
    <3> QED BY <2>3, <2>7, <3>4, <3>5, <3>6, <3>7 DEF StoreOK
  <2> QED BY <2>1, <2>3, <2>8
<1>6. TasksOK(fs, longer, run, read \cup {f})
  <2>1. \A task : StoreOK(fs, task, read) => StoreOK(fs, task, read \cup {f}) BY DEF StoreOK
  <2>2. ASSUME NEW j \in DOMAIN longer, longer[j].kind = "store"
        PROVE  StoreOK(fs, longer[j], read \cup {f}) /\ longer[j].at = "packet"
    <3>1. CASE j \in DOMAIN line BY <1>0, <1>3, <2>1, <2>2, <3>1 DEF TasksOK
    <3>2. CASE \E k \in 1 .. m : j = q + k BY <1>5, <3>2
    <3> QED BY <1>4, <3>1, <3>2
  <2>3. \A t \in Threads : run[t].kind = "store" => StoreOK(fs, run[t], read \cup {f})
    BY <1>0, <2>1 DEF TasksOK
  <2> QED BY <2>2, <2>3 DEF TasksOK
<1>7. ASSUME NEW g, g[1] # f
      PROVE  \A k \in 1 .. m : ~Has(longer[q + k], g)
  BY <1>5, <1>7 DEF Has
<1>8. ASSUME NEW g, g[1] = f
      PROVE  /\ \A j \in DOMAIN line : ~Has(longer[j], g)
             /\ \A t \in Threads : ~Has(run[t], g)
  BY <1>0, <1>1, <1>3, <1>8 DEF Has, TasksOK, StoreOK
<1>9. ASSUME NEW g \in Packets(fs), g[1] = f
      PROVE  /\ \E k \in 1 .. m : Has(longer[q + k], g)
             /\ \A k, l \in 1 .. m : Has(longer[q + k], g) /\ Has(longer[q + l], g) => k = l
  <2>1. g[2] \in 1 .. n BY <1>0, <1>2, <1>9, PacketFacts
  <2>2. \A k \in 1 .. m : Lists(cut[k], n, k, s) BY <1>2
  <2>3. ASSUME NEW k \in 1 .. m PROVE Has(longer[q + k], g) <=> InPiece(g[2], k, s)
    <3>1. Has(longer[q + k], g) <=> \E j \in DOMAIN cut[k] : cut[k][j] = g[2]
      BY <1>5, <1>9 DEF Has
    <3>2. /\ \A j \in DOMAIN cut[k] : InPiece(cut[k][j], k, s)
          /\ InPiece(g[2], k, s) => \E j \in DOMAIN cut[k] : cut[k][j] = g[2]
      BY <2>1, <2>2 DEF Lists
    <3> QED BY <3>1, <3>2
  <2>4. /\ \E k \in 1 .. m : InPiece(g[2], k, s)
        /\ \A k, l \in 1 .. m : InPiece(g[2], k, s) /\ InPiece(g[2], l, s) => k = l
    BY <1>2, <2>1 DEF Pieces
  <2> QED BY <2>3, <2>4
<1>10. PlacedOK(fs, longer, run)
  <2> SUFFICES ASSUME NEW g \in Packets(fs) PROVE OnePlace(g, longer, run) BY DEF PlacedOK
  <2>0. OnePlace(g, line, run) BY <1>0 DEF PlacedOK
  <2>1. CASE g[1] # f
    <3>1. \A j \in DOMAIN longer : Has(longer[j], g) => j \in DOMAIN line /\ Has(line[j], g)
      BY <1>3, <1>4, <1>7, <2>1
    <3> QED BY <2>0, <3>1 DEF OnePlace
  <2>2. CASE g[1] = f
    <3>1. ASSUME NEW i \in DOMAIN longer, NEW j \in DOMAIN longer,
                 Has(longer[i], g), Has(longer[j], g)
          PROVE  i = j
      <4>1. PICK k \in 1 .. m : i = q + k BY <1>4, <1>8, <2>2, <3>1
      <4>2. PICK l \in 1 .. m : j = q + l BY <1>4, <1>8, <2>2, <3>1
      <4>3. k = l BY <1>9, <2>2, <3>1, <4>1, <4>2
      <4> QED BY <4>1, <4>2, <4>3
    <3>2. \A t \in Threads : ~Has(run[t], g) BY <1>8, <2>2
    <3> QED BY <3>1, <3>2 DEF OnePlace
  <2> QED BY <2>1, <2>2
<1>11. DataOK(fs, longer, run, read \cup {f}, data)
  <2>1. ASSUME NEW g \in Packets(fs), NEW e
        PROVE  Reached(g, e, longer, run, read \cup {f}) <=> Reached(g, e, line, run, read)
    <3>1. CASE g[1] # f
      <4>1. (\A j \in DOMAIN longer : ~Has(longer[j], g))
               <=> \A j \in DOMAIN line : ~Has(line[j], g)
        BY <1>3, <1>4, <1>7, <3>1
      <4> QED BY <3>1, <4>1 DEF Reached
    <3>2. CASE g[1] = f
      <4>1. \E j \in DOMAIN longer : Has(longer[j], g) BY <1>3, <1>9, <3>2
      <4> QED BY <1>1, <3>2, <4>1 DEF Reached
    <3> QED BY <3>1, <3>2
  <2> QED BY <1>0, <2>1 DEF DataOK
<1> QED BY <1>0, <1>1, <1>6, <1>10, <1>11 DEF WorkOK

-----------------------------------------------------------------------------
(* The line *)

(* The line is the queue and behind it the chunks.                          *)
LEMMA LineFacts ==
  ASSUME Types
  PROVE  \E q \in Nat, c \in Nat :
            /\ Len(queue) = q /\ DOMAIN queue = 1 .. q
            /\ Len(chunks) = c /\ DOMAIN chunks = 1 .. c
            /\ DOMAIN Line = 1 .. q + c
            /\ \A j \in 1 .. q : Line[j] = queue[j]
            /\ \A k \in 1 .. c : Line[q + k] = StoreTask(file, chunks[k], "packet", 0)
<1>0. queue \in Seq(Queued) /\ chunks \in Seq(Seq(Nat)) BY DEF Types
<1>1. PICK q \in Nat : q = Len(queue) /\ DOMAIN queue = 1 .. q BY <1>0
<1>2. PICK c \in Nat : c = Len(chunks) /\ DOMAIN chunks = 1 .. c BY <1>0
<1>3. Line = [j \in 1 .. q + c |->
                 IF j <= q THEN queue[j] ELSE StoreTask(file, chunks[j - q], "packet", 0)]
  BY <1>1, <1>2 DEF Line
<1>4. DOMAIN Line = 1 .. q + c BY <1>3
<1>5. \A j \in 1 .. q : Line[j] = queue[j]
  <2>1. \A j \in 1 .. q : j \in 1 .. q + c /\ j <= q OBVIOUS
  <2> QED BY <1>3, <2>1
<1>6. ASSUME NEW k \in 1 .. c PROVE Line[q + k] = StoreTask(file, chunks[k], "packet", 0)
  <2>1. q + k \in 1 .. q + c /\ ~(q + k <= q) /\ (q + k) - q = k OBVIOUS
  <2> QED BY <1>3, <2>1
<1> QED BY <1>1, <1>2, <1>4, <1>5, <1>6

(* Nothing of the line changes.                                             *)
LEMMA SameLine ==
  ASSUME Types, UNCHANGED <<queue, chunks>>, file' = file \/ chunks = <<>>
  PROVE  Line' = Line
<1>1. CASE file' = file BY <1>1 DEF Line
<1>2. CASE chunks = <<>>
  <2>0. queue \in Seq(Queued) BY DEF Types
  <2>1. PICK q \in Nat : q = Len(queue) BY <2>0
  <2>2. Len(chunks) = 0 BY <1>2
  <2>3. Line = [j \in 1 .. q |-> queue[j]]
    <3>1. 1 .. Len(queue) + Len(chunks) = 1 .. q BY <2>1, <2>2
    <3>2. \A j \in 1 .. q : j <= Len(queue) BY <2>1
    <3> QED BY <3>1, <3>2 DEF Line
  <2>4. Line' = [j \in 1 .. q |-> queue'[j]]
    <3>0. Len(queue') = q /\ Len(chunks') = 0 BY <2>1, <2>2
    <3>1. 1 .. Len(queue') + Len(chunks') = 1 .. q BY <3>0
    <3>2. \A j \in 1 .. q : j <= Len(queue') BY <3>0
    <3> QED BY <3>1, <3>2 DEF Line
  <2> QED BY <2>3, <2>4
<1> QED BY <1>1, <1>2

(* A chunk that is started keeps its place in the line.                     *)
LEMMA StartedLine ==
  ASSUME IInv, IInv', StartTask
  PROVE  Line' = Line
<1>0. /\ Types /\ Types' /\ chunks # <<>> /\ chunks \in Seq(Seq(Nat)) /\ queue \in Seq(Queued)
      /\ queue' = Append(queue, StoreTask(file, Head(chunks), "packet", 0))
      /\ chunks' = Tail(chunks) /\ file' = file
  BY DEF IInv, Types, StartTask
<1>1. PICK q \in Nat, c \in Nat :
            /\ Len(queue) = q /\ DOMAIN queue = 1 .. q
            /\ Len(chunks) = c /\ DOMAIN chunks = 1 .. c
            /\ DOMAIN Line = 1 .. q + c
            /\ \A j \in 1 .. q : Line[j] = queue[j]
            /\ \A k \in 1 .. c : Line[q + k] = StoreTask(file, chunks[k], "packet", 0)
  BY <1>0, LineFacts
<1>2. PICK d \in Nat : c = d + 1
  <2>1. c # 0 BY <1>0, <1>1
  <2>2. c - 1 \in Nat /\ c = (c - 1) + 1 BY <2>1
  <2> QED BY <2>2
<1>3. /\ Len(chunks') = d /\ Head(chunks) = chunks[1]
      /\ \A k \in 1 .. d : chunks'[k] = chunks[k + 1]
  BY <1>0, <1>1, <1>2
<1>4. /\ Len(queue') = q + 1 /\ \A j \in 1 .. q : queue'[j] = queue[j]
      /\ queue'[q + 1] = StoreTask(file, chunks[1], "packet", 0)
  <2>1. file \in DOMAIN files BY DEF IInv, Types, StartTask
  <2>2. 1 \in 1 .. c /\ chunks[1] \in Seq(Nat) BY <1>0, <1>1, <1>2
  <2>3. PICK task \in Queued : task = StoreTask(file, chunks[1], "packet", 0)
    BY <2>1, <2>2 DEF Queued
  <2>4. queue' = Append(queue, task) BY <1>0, <1>3, <2>3
  <2>5. /\ Len(queue') = q + 1 /\ \A j \in 1 .. q : queue'[j] = queue[j]
        /\ queue'[q + 1] = task
    <3>1. queue \in Seq(Queued) /\ Len(queue) = q BY <1>0, <1>1
    <3>2. Len(queue') = q + 1 BY <2>4, <3>1
    <3>3. \A j \in 1 .. q : queue'[j] = queue[j] BY <2>4, <3>1
    <3>4. queue'[q + 1] = task BY <2>4, <3>1
    <3> QED BY <3>2, <3>3, <3>4
  <2> QED BY <2>3, <2>5
<1>5. Line' = [j \in 1 .. (q + 1) + d |->
                 IF j <= q + 1 THEN queue'[j]
                 ELSE StoreTask(file, chunks'[j - (q + 1)], "packet", 0)]
  BY <1>0, <1>3, <1>4 DEF Line
<1>6. (q + 1) + d = q + c BY <1>2
<1>7. ASSUME NEW j \in 1 .. q + c
      PROVE  Line[j] = IF j <= q + 1 THEN queue'[j]
                       ELSE StoreTask(file, chunks'[j - (q + 1)], "packet", 0)
  <2>1. CASE j <= q
    <3>1. j \in 1 .. q /\ j <= q + 1 BY <2>1
    <3> QED BY <1>1, <1>4, <3>1
  <2>2. CASE j = q + 1
    <3>1. 1 \in 1 .. c BY <1>2
    <3>2. Line[q + 1] = StoreTask(file, chunks[1], "packet", 0) BY <1>1, <3>1
    <3> QED BY <1>4, <2>2, <3>2
  <2>3. CASE j > q + 1
    <3>1. PICK k \in 1 .. d : k = j - (q + 1) BY <1>2, <2>3
    <3>2. k + 1 \in 1 .. c /\ q + (k + 1) = j /\ ~(j <= q + 1) BY <1>2, <2>3, <3>1
    <3>3. Line[q + (k + 1)] = StoreTask(file, chunks[k + 1], "packet", 0) BY <1>1, <3>2
    <3>4. Line[j] = StoreTask(file, chunks'[k], "packet", 0) BY <1>3, <3>2, <3>3
    <3> QED BY <3>1, <3>2, <3>4
  <2> QED BY <2>1, <2>2, <2>3
<1>8. Line = [j \in 1 .. q + c |-> Line[j]]
  <2>1. Line = [j \in DOMAIN Line |-> Line[j]] BY DEF Line
  <2> QED BY <1>1, <2>1
<1> HIDE DEF Line
<1> QED BY <1>5, <1>6, <1>7, <1>8

-----------------------------------------------------------------------------
(* The steps of the main thread *)

(* Steps that change neither line, data set nor statistics.                 *)
LEMMA SameStock ==
  ASSUME StockOK, files' = files, Line' = Line, dataset' = dataset, stat' = stat,
         \A t \in Threads : Idles(pool[t], pool'[t]), NothingRead(files, Read, Read')
  PROVE  StockOK'
<1>1. WorkOK(files, Line, pool', Read', dataset, stat) BY SameWork DEF StockOK
<1> QED BY <1>1 DEF StockOK

(* What is read stays read.                                                 *)
LEMMA SameRead ==
  ASSUME Read' = Read
  PROVE  NothingRead(files, Read, Read')
<1>1. Read \subseteq DOMAIN files BY DEF Read
<1> QED BY <1>1 DEF NothingRead

(* The steps of the main thread that read no file.                          *)
LEMMA QuietMainStock ==
  ASSUME IInv, IInv', StockOK, files' = files,
         OpenFails \/ StartTask \/ AllStarted \/ SpareDone \/ NextFile \/ WaitForGc
  PROVE  StockOK'
<1>0. /\ Types /\ files \in Seq(File) /\ file \in Nat \ {0}
      /\ pc = "spare" => chunks = <<>>
      /\ UNCHANGED <<pool, dataset, stat>>
  BY DEF IInv, Types, OpenFails, StartTask, AllStarted, SpareDone, NextFile, WaitForGc
<1>a. \A i \in DOMAIN files : i \in Nat BY <1>0
<1>1. Line' = Line
  <2>1. CASE StartTask BY <2>1, StartedLine
  <2>2. CASE OpenFails \/ AllStarted \/ SpareDone \/ NextFile \/ WaitForGc
    <3>1. UNCHANGED <<queue, chunks>> /\ (file' = file \/ chunks = <<>>)
      BY <1>0, <2>2 DEF OpenFails, AllStarted, SpareDone, NextFile, WaitForGc
    <3> QED BY <1>0, <3>1, SameLine
  <2> QED BY <2>1, <2>2
<1>2. Read' = Read
  <2>1. CASE OpenFails BY <2>1 DEF Read, OpenFails
  <2>2. CASE StartTask BY <2>2 DEF Read, StartTask
  <2>3. CASE AllStarted BY <2>3 DEF Read, AllStarted
  <2>4. CASE SpareDone BY <2>4 DEF Read, SpareDone
  <2>5. CASE NextFile
    <3>1. pc = "spare" /\ pc' = "open" /\ file' = file + 1 BY <2>5 DEF NextFile
    <3>2. \A i \in DOMAIN files : file < i <=> (file' < i \/ file' = i) BY <1>0, <1>a, <3>1
    <3> QED BY <3>1, <3>2 DEF Read
  <2>6. CASE WaitForGc BY <2>6 DEF Read, WaitForGc
  <2> QED BY <2>1, <2>2, <2>3, <2>4, <2>5, <2>6
<1>3. \A t \in Threads : Idles(pool[t], pool'[t]) BY <1>0 DEF Idles
<1> QED BY <1>0, <1>1, <1>2, <1>3, SameRead, SameStock

(* A file is read: its packets are dealt out to its chunks.                 *)
LEMMA ReadFileStock ==
  ASSUME IInv, IInv', StockOK, QuietOK, files' = files, ReadFile
  PROVE  StockOK'
<1>0. /\ Types /\ Types' /\ files \in Seq(File) /\ file \in Nat \ {0} /\ file <= Len(files)
      /\ pc = "open" /\ chunks = <<>>
      /\ UNCHANGED <<file, queue, pool, dataset, stat>>
  BY DEF IInv, Types, ReadFile, QuietOK
<1>1. PICK f \in DOMAIN files : f = file BY <1>0
<1>2. files[f].packets \in Seq(RawPacket)
  <2>1. files[f] \in File BY <1>0
  <2> QED BY <2>1 DEF File
<1>3. PICK n \in Nat : n = Len(files[f].packets) /\ DOMAIN files[f].packets = 1 .. n BY <1>2
<1>4. f \notin Read BY <1>0, <1>1 DEF Read
<1>5. pc' \in {"start", "spare"} => Read' = Read \cup {f}
  <2> SUFFICES ASSUME pc' \in {"start", "spare"} PROVE Read' = Read \cup {f} OBVIOUS
  <2>1. \A i \in DOMAIN files : (file < i <=> file < i \/ file = i) <=> i # f BY <1>0, <1>1
  <2> QED BY <1>0, <1>1, <2>1 DEF Read
<1>6. \A t \in Threads : Idles(pool[t], pool'[t]) BY <1>0 DEF Idles
<1>7. CASE n = 0
  <2>1. pc' = "spare" /\ chunks' = <<>> BY <1>0, <1>1, <1>3, <1>7, MultithreadAssumption
        DEF ReadFile, ChunkSize
  <2>2. Line' = Line BY <1>0, <2>1, SameLine
  <2>3. NothingRead(files, Read, Read')
    <3>1. Read' = Read \cup {f} BY <1>5, <2>1
    <3>2. Read' \subseteq DOMAIN files BY <3>1 DEF Read
    <3>3. \A g \in Packets(files) : g[1] # f BY <1>0, <1>3, <1>7, PacketFacts
    <3> QED BY <3>1, <3>2, <3>3 DEF NothingRead
  <2> QED BY <1>0, <1>6, <2>2, <2>3, SameStock
<1>8. CASE n > 0 /\ ChunkSize(n) = 0
  <2>1. pc' = "exit" /\ chunks' = chunks BY <1>0, <1>1, <1>3, <1>8 DEF ReadFile
  <2>2. Line' = Line BY <1>0, <2>1, SameLine
  <2>3. Read' = Read BY <1>0, <2>1 DEF Read
  <2> QED BY <1>0, <1>6, <2>2, <2>3, SameRead, SameStock
<1>9. CASE n > 0 /\ ChunkSize(n) > 0
  <2>1. pc' = "start" /\ chunks' = SplitVector(n, ChunkSize(n))
    BY <1>0, <1>1, <1>3, <1>9 DEF ReadFile
  <2>2. PICK s \in Nat \ {0} : s = ChunkSize(n)
    BY <1>9, MultithreadAssumption DEF ChunkSize
  <2>3. /\ DOMAIN chunks' = 1 .. Len(chunks') /\ Len(chunks') \in Nat
        /\ Pieces(Len(chunks'), n, s)
        /\ \A k \in DOMAIN chunks' : Lists(chunks'[k], n, k, s)
    BY <2>1, <2>2, SplitVectorDeals
  <2>4. PICK q \in Nat, c \in Nat :
            /\ Len(queue) = q /\ Len(chunks) = c
            /\ DOMAIN Line = 1 .. q + c
            /\ \A j \in 1 .. q : Line[j] = queue[j]
    BY <1>0, LineFacts
  <2>5. c = 0 /\ q + c = q BY <1>0, <2>4
  <2>6. PICK m \in Nat : m = Len(chunks') BY <2>3
  <2>7. Line' = [j \in 1 .. q + m |->
                    IF j <= q THEN queue[j] ELSE StoreTask(f, chunks'[j - q], "packet", 0)]
    BY <1>0, <1>1, <2>4, <2>6 DEF Line
  <2>8. DOMAIN Line' = 1 .. q + m BY <2>7
  <2>9. \A j \in 1 .. q : Line'[j] = Line[j]
    <3>1. \A j \in 1 .. q : j \in 1 .. q + m /\ j <= q OBVIOUS
    <3> QED BY <2>4, <2>7, <3>1
  <2>10. ASSUME NEW k \in 1 .. m PROVE Line'[q + k] = StoreTask(f, chunks'[k], "packet", 0)
    <3>1. q + k \in 1 .. q + m /\ ~(q + k <= q) /\ (q + k) - q = k OBVIOUS
    <3> QED BY <2>7, <3>1
  <2>11. Adds(files, Line, Read, Line', f, chunks')
    <3>1. DOMAIN Line = 1 .. q BY <2>4, <2>5
    <3>2. Pieces(m, n, s) /\ \A k \in 1 .. m : Lists(chunks'[k], n, k, s) BY <2>3, <2>6
    <3>3. s \in Nat BY <2>2
    <3> QED BY <1>3, <1>4, <2>8, <2>9, <2>10, <3>1, <3>2, <3>3 DEF Adds
  <2>12. WorkOK(files, Line', pool, Read \cup {f}, dataset, stat) BY <2>11, AddWork DEF StockOK
  <2> QED BY <1>0, <1>5, <2>1, <2>12 DEF StockOK
<1>10. n = 0 \/ (n > 0 /\ ChunkSize(n) = 0) \/ (n > 0 /\ ChunkSize(n) > 0)
  BY <1>0, <1>1, <1>3 DEF ReadFile
<1> QED BY <1>7, <1>8, <1>9, <1>10

-----------------------------------------------------------------------------
(* The steps of the pool *)

(* A thread of the pool keeps the line, and what is read.                   *)
LEMMA PoolKeeps ==
  ASSUME Types, UNCHANGED <<files, main, queue>>
  PROVE  Line' = Line /\ Read' = Read
<1>1. UNCHANGED <<pc, file, chunks>> BY DEF main
<1>2. Line' = Line BY <1>1, SameLine
<1>3. Read' = Read BY <1>1 DEF Read
<1> QED BY <1>2, <1>3

(* The steps of the pool that store nothing.                                *)
LEMMA QuietPoolStock ==
  ASSUME IInv, StockOK, files' = files, NEW t \in Threads,
         GcCreate(t) \/ GcCounters(t) \/ GcWait(t) \/ GcDelete(t) \/ GcDone(t)
           \/ RawFault(t) \/ StoreDone(t)
  PROVE  StockOK'
<1>0. Types BY DEF IInv
<1>1. UNCHANGED <<main, queue, dataset, stat>>
  BY DEF GcCreate, GcCounters, GcWait, GcDelete, GcDone, RawFault, StoreDone
<1>2. Line' = Line /\ Read' = Read BY <1>0, <1>1, PoolKeeps
<1>3. /\ \A task : pool' = [pool EXCEPT ![t] = task] =>
             \A u \in Threads : pool'[u] = IF u = t THEN task ELSE pool[u]
      /\ \A at, i : GcTask(at, i).kind # "store"
      /\ Idle.kind # "store"
  BY <1>0 DEF Types, GcTask, Idle
<1>4. \/ pool' = pool
      \/ /\ pool[t].kind # "store" \/ pool[t].todo = <<>>
         /\ \E task : task.kind # "store" /\ pool' = [pool EXCEPT ![t] = task]
  <2>1. CASE GcCreate(t)
    <3>1. /\ pool[t].kind # "store"
          /\ pool' = [pool EXCEPT ![t] = GcTask("counters", 1)]
      BY <2>1 DEF GcCreate
    <3> QED BY <1>3, <3>1
  <2>2. CASE GcCounters(t) BY <1>3, <2>2 DEF GcCounters
  <2>3. CASE GcWait(t)
    <3>1. /\ pool[t].kind # "store"
          /\ \/ pool' = [pool EXCEPT ![t] = GcTask("wait", pool[t].file + 1)]
             \/ pool' = [pool EXCEPT ![t] = GcTask("delete", pool[t].file)]
      BY <2>3 DEF GcWait
    <3> QED BY <1>3, <3>1
  <2>4. CASE GcDelete(t)
    <3>1. /\ pool[t].kind # "store"
          /\ pool' = [pool EXCEPT ![t] = GcTask("done", pool[t].file)]
      BY <2>4 DEF GcDelete
    <3> QED BY <1>3, <3>1
  <2>5. CASE GcDone(t) BY <1>3, <2>5 DEF GcDone
  <2>6. CASE RawFault(t) BY <2>6 DEF RawFault
  <2>7. CASE StoreDone(t) BY <1>3, <2>7 DEF StoreDone
  <2> QED BY <2>1, <2>2, <2>3, <2>4, <2>5, <2>6, <2>7
<1>5. \A u \in Threads : Idles(pool[u], pool'[u])
  <2>1. CASE pool' = pool BY <2>1 DEF Idles
  <2>2. CASE /\ pool[t].kind # "store" \/ pool[t].todo = <<>>
             /\ \E task : task.kind # "store" /\ pool' = [pool EXCEPT ![t] = task]
    <3>1. PICK task : task.kind # "store" /\ pool' = [pool EXCEPT ![t] = task] BY <2>2
    <3>2. \A u \in Threads : pool'[u] = IF u = t THEN task ELSE pool[u] BY <1>3, <3>1
    <3> QED BY <2>2, <3>1, <3>2 DEF Idles
  <2> QED BY <1>4, <2>1, <2>2
<1> QED BY <1>1, <1>2, <1>5, SameRead, SameStock

(* A thread takes a task from the queue.                                    *)
LEMMA DispatchStock ==
  ASSUME IInv, IInv', StockOK, files' = files, NEW t \in Threads, Dispatch(t)
  PROVE  StockOK'
<1>0. /\ Types /\ Types' /\ pool[t] = Idle /\ queue # <<>> /\ queue \in Seq(Queued)
      /\ pool' = [pool EXCEPT ![t] = Head(queue)] /\ queue' = Tail(queue)
      /\ UNCHANGED <<main, dataset, stat>>
  BY DEF IInv, Types, Dispatch
<1>1. UNCHANGED <<pc, file, chunks>> BY <1>0 DEF main
<1>2. PICK q \in Nat, c \in Nat :
            /\ Len(queue) = q /\ DOMAIN queue = 1 .. q
            /\ Len(chunks) = c /\ DOMAIN chunks = 1 .. c
            /\ DOMAIN Line = 1 .. q + c
            /\ \A j \in 1 .. q : Line[j] = queue[j]
            /\ \A k \in 1 .. c : Line[q + k] = StoreTask(file, chunks[k], "packet", 0)
  BY <1>0, LineFacts
<1>3. PICK p \in Nat : q = p + 1
  <2>1. q # 0 BY <1>0, <1>2
  <2>2. q - 1 \in Nat /\ q = (q - 1) + 1 BY <2>1
  <2> QED BY <2>2
<1>4. Len(queue') = p /\ Head(queue) = queue[1] /\ \A j \in 1 .. p : queue'[j] = queue[j + 1]
  <2>1. queue \in Seq(Queued) /\ Len(queue) = p + 1 /\ queue # <<>> BY <1>0, <1>2, <1>3
  <2>2. Len(queue') = p BY <1>0, <2>1
  <2>3. Head(queue) = queue[1] BY <2>1
  <2>4. \A j \in 1 .. p : queue'[j] = queue[j + 1] BY <1>0, <2>1
  <2> QED BY <2>2, <2>3, <2>4
<1>5. Line' = [j \in 1 .. p + c |->
                 IF j <= p THEN queue'[j] ELSE StoreTask(file, chunks[j - p], "packet", 0)]
  BY <1>1, <1>2, <1>4 DEF Line
<1>6. DOMAIN Line' = 1 .. p + c BY <1>5
<1>7. ASSUME NEW j \in 1 .. p + c PROVE Line'[j] = Line[j + 1]
  <2>0. Line'[j] = IF j <= p THEN queue'[j] ELSE StoreTask(file, chunks[j - p], "packet", 0)
    BY <1>5
  <2>1. CASE j <= p
    <3>1. j \in 1 .. p /\ j + 1 \in 1 .. q BY <1>3, <2>1
    <3> QED BY <1>2, <1>4, <2>0, <2>1, <3>1
  <2>2. CASE j > p
    <3>1. PICK k \in 1 .. c : k = j - p BY <2>2
    <3>2. q + k = j + 1 /\ ~(j <= p) BY <1>3, <2>2, <3>1
    <3> QED BY <1>2, <2>0, <3>1, <3>2
  <2> QED BY <2>1, <2>2
<1>8. \A u \in Threads : pool'[u] = IF u = t THEN Line[1] ELSE pool[u]
  <2>1. \A u \in Threads : pool'[u] = IF u = t THEN Head(queue) ELSE pool[u]
    BY <1>0 DEF Types
  <2>2. 1 \in 1 .. q BY <1>3
  <2>3. Line[1] = Head(queue) BY <1>2, <1>4, <2>2
  <2> QED BY <2>1, <2>3
<1>9. DOMAIN Line = 1 .. (p + c) + 1
  <2>1. q + c = (p + c) + 1 BY <1>3
  <2> QED BY <1>2, <2>1
<1>10. Dispatched(Line, pool, Line', pool', t)
  <2>1. pool[t].kind # "store" BY <1>0 DEF Idle
  <2>2. p + c \in Nat OBVIOUS
  <2> QED BY <1>6, <1>7, <1>8, <1>9, <2>1, <2>2 DEF Dispatched
<1>11. WorkOK(files, Line', pool', Read, dataset, stat) BY <1>10, DispatchWork DEF StockOK
<1>12. Read' = Read BY <1>1 DEF Read
<1> QED BY <1>0, <1>11, <1>12 DEF StockOK

(* A task goes on with its next packet, or with a stage of the first.       *)
LEMMA NextOK ==
  ASSUME NEW fs, fs \in Seq(File), NEW read, NEW task, StoreOK(fs, task, read),
         task.kind = "store", task.todo # <<>>
  PROVE  /\ StoreOK(fs, StoreTask(task.file, Tail(task.todo), "packet", 0), read)
         /\ Tail(task.todo) # task.todo
<1>0. /\ task.file \in read /\ task.todo \in Seq(Nat)
      /\ \A j \in DOMAIN task.todo : <<task.file, task.todo[j]>> \in Packets(fs)
      /\ \A j, k \in DOMAIN task.todo : task.todo[j] = task.todo[k] => j = k
  BY DEF StoreOK
<1>1. /\ Tail(task.todo) \in Seq(Nat)
      /\ \A j \in DOMAIN Tail(task.todo) :
               j + 1 \in DOMAIN task.todo /\ Tail(task.todo)[j] = task.todo[j + 1]
  BY TodoFacts
<1>2. PICK rest \in Seq(Nat) : rest = Tail(task.todo) BY <1>1
<1>3. PICK next : next = StoreTask(task.file, rest, "packet", 0) OBVIOUS
<1>4. next.file = task.file /\ next.todo = rest /\ next.at = "packet" /\ next.reg = 0
  BY <1>3 DEF StoreTask
<1>5. \A j \in DOMAIN rest : <<task.file, rest[j]>> \in Packets(fs) BY <1>0, <1>1, <1>2
<1>6. ASSUME NEW j \in DOMAIN rest, NEW k \in DOMAIN rest, rest[j] = rest[k] PROVE j = k
  <2>1. j + 1 = k + 1 BY <1>0, <1>1, <1>2, <1>6
  <2>2. j \in Nat /\ k \in Nat BY <1>2
  <2> QED BY <2>1, <2>2
<1>7. next = StoreTask(next.file, next.todo, next.at, next.reg) BY <1>3, <1>4
<1>8. StoreOK(fs, next, read)
  <2>1. next.file \in read /\ next.todo \in Seq(Nat) /\ next.reg \in Nat /\ next.at = "packet"
    BY <1>0, <1>2, <1>4
  <2>2. \A j \in DOMAIN next.todo : <<next.file, next.todo[j]>> \in Packets(fs) BY <1>4, <1>5
  <2>3. \A j, k \in DOMAIN next.todo : next.todo[j] = next.todo[k] => j = k BY <1>4, <1>6
  <2> QED BY <1>7, <2>1, <2>2, <2>3 DEF StoreOK
<1>9. rest # task.todo
  <2>1. PICK todo \in Seq(Nat) : todo = task.todo BY <1>0
  <2>2. Len(Tail(todo)) # Len(todo) BY <2>1
  <2> QED BY <1>2, <2>1, <2>2
<1> QED BY <1>2, <1>3, <1>8, <1>9

(* A task goes to a stage of its first packet.                              *)
LEMMA StageOK ==
  ASSUME NEW fs, NEW read, NEW task, StoreOK(fs, task, read), task.todo # <<>>,
         NEW at, NEW reg \in Nat,
         at \in Ends(fs, First(task)) \/ (at = "useful" /\ Ends(fs, First(task)) # {})
  PROVE  StoreOK(fs, StoreTask(task.file, task.todo, at, reg), read)
<1>0. /\ task.file \in read /\ task.todo \in Seq(Nat)
      /\ \A j \in DOMAIN task.todo : <<task.file, task.todo[j]>> \in Packets(fs)
      /\ \A j, k \in DOMAIN task.todo : task.todo[j] = task.todo[k] => j = k
  BY DEF StoreOK
<1>1. PICK next : next = StoreTask(task.file, task.todo, at, reg) OBVIOUS
<1>2. next.file = task.file /\ next.todo = task.todo /\ next.at = at /\ next.reg = reg
  BY <1>1 DEF StoreTask
<1>3. First(next) = First(task) BY <1>2 DEF First
<1>4. next = StoreTask(next.file, next.todo, next.at, next.reg) BY <1>1, <1>2
<1>5. AtStage(fs, next) BY <1>2, <1>3 DEF AtStage
<1>6. StoreOK(fs, next, read) BY <1>0, <1>2, <1>4, <1>5 DEF StoreOK
<1> QED BY <1>1, <1>6

(* The packet a store task parses, and its ends.                            *)
LEMMA PacketOf ==
  ASSUME IInv, StockOK, NEW t \in Threads, Storing(t), pool[t].todo # <<>>
  PROVE  /\ StoreOK(files, pool[t], Read) /\ First(pool[t]) \in Packets(files)
         /\ Packet(t).ends = Ends(files, First(pool[t]))
         /\ Packet(t).ends \subseteq {"send", "recv"}
         /\ KPacket(t) = KP(First(pool[t]), pool[t].at)
<1>1. files \in Seq(File) /\ pool[t].kind = "store" BY DEF IInv, Types, Storing
<1>2. StoreOK(files, pool[t], Read) BY <1>1 DEF StockOK, WorkOK, TasksOK
<1>3. /\ First(pool[t]) \in Packets(files)
      /\ First(pool[t])[1] = pool[t].file /\ First(pool[t])[2] = Head(pool[t].todo)
  BY <1>1, <1>2, TodoFacts
<1>4. Packet(t).ends = Ends(files, First(pool[t])) BY <1>3 DEF Packet, Ends
<1>5. Ends(files, First(pool[t])) \subseteq {"send", "recv"} BY <1>1, <1>3, PacketFacts
<1>6. KPacket(t) = KP(First(pool[t]), pool[t].at) BY <1>3 DEF KPacket, KP
<1> QED BY <1>2, <1>3, <1>4, <1>5, <1>6

(* A packet is parsed.                                                      *)
LEMMA ParseStock ==
  ASSUME IInv, StockOK, files' = files, NEW t \in Threads, Parse(t)
  PROVE  StockOK'
<1>0. /\ Types /\ files \in Seq(File) /\ Storing(t) /\ pool[t].kind = "store"
      /\ pool[t].todo # <<>> /\ pool[t].at = "packet"
      /\ UNCHANGED <<main, queue, dataset, stat>>
  BY DEF IInv, Types, Parse, Storing
<1>1. Line' = Line /\ Read' = Read BY <1>0, PoolKeeps
<1> DEFINE g0 == First(pool[t])
           s == After("packet", Packet(t))
<1>2. /\ StoreOK(files, pool[t], Read) /\ g0 \in Packets(files)
      /\ Packet(t).ends = Ends(files, g0) /\ Ends(files, g0) \subseteq {"send", "recv"}
  BY <1>0, PacketOf
<1>3. pool' = IF s = "packet"
              THEN [pool EXCEPT ![t] = StoreTask(pool[t].file, Tail(pool[t].todo), s, 0)]
              ELSE [pool EXCEPT ![t] = StoreTask(pool[t].file, pool[t].todo, s, stat[s])]
  BY DEF Parse
<1>4. /\ Ends(files, g0) = {} => s = "packet"
      /\ "send" \in Ends(files, g0) => s = "send"
      /\ "send" \notin Ends(files, g0) /\ "recv" \in Ends(files, g0) => s = "recv"
  BY <1>2, AfterFacts
<1> HIDE DEF g0, s
<1>5. stat \in [Stage -> Nat] BY DEF StockOK, WorkOK, StatsOK
<1>6. \A task : pool' = [pool EXCEPT ![t] = task] =>
             \A u \in Threads : pool'[u] = IF u = t THEN task ELSE pool[u]
  BY <1>0 DEF Types
<1>7. CASE s = "packet"
  <2>1. PICK next : next = StoreTask(pool[t].file, Tail(pool[t].todo), "packet", 0) OBVIOUS
  <2>2. pool' = [pool EXCEPT ![t] = next] BY <1>3, <1>7, <2>1
  <2>3. \A u \in Threads : pool'[u] = IF u = t THEN next ELSE pool[u] BY <1>6, <2>2
  <2>4. StoreOK(files, next, Read) /\ Tail(pool[t].todo) # pool[t].todo
    BY <1>0, <1>2, <2>1, NextOK
  <2>5. /\ next.kind = "store" /\ next.file = pool[t].file /\ next.todo = Tail(pool[t].todo)
        /\ next.at = "packet"
    BY <2>1 DEF StoreTask
  <2>6. Moves(files, Read, pool, pool', t) BY <1>0, <2>3, <2>4, <2>5 DEF Moves
  <2>7. Ends(files, g0) = {} BY <1>2, <1>4, <1>7
  <2>8. Parses(files, pool, pool', t, stat)
    <3>1. Ends(files, First(pool[t])) = {} BY <2>7 DEF g0
    <3> QED BY <1>0, <2>3, <2>5, <3>1 DEF Parses
  <2>9. WorkOK(files, Line, pool', Read, dataset, stat) BY <2>6, <2>8, ParseWork DEF StockOK
  <2> QED BY <1>0, <1>1, <2>9 DEF StockOK
<1>8. CASE s # "packet"
  <2>0. s \in Ends(files, g0) /\ s \in {"send", "recv"} BY <1>2, <1>4, <1>8
  <2>1. PICK next : next = StoreTask(pool[t].file, pool[t].todo, s, stat[s]) OBVIOUS
  <2>2. pool' = [pool EXCEPT ![t] = next] BY <1>3, <1>8, <2>1
  <2>3. \A u \in Threads : pool'[u] = IF u = t THEN next ELSE pool[u] BY <1>6, <2>2
  <2>4. stat[s] \in Nat BY <1>5, <2>0 DEF Stage
  <2>5. StoreOK(files, next, Read)
    <3>1. s \in Ends(files, First(pool[t])) BY <2>0 DEF g0
    <3> QED BY <1>0, <1>2, <2>1, <2>4, <3>1, StageOK
  <2>6. /\ next.kind = "store" /\ next.file = pool[t].file /\ next.todo = pool[t].todo
        /\ next.at = s /\ next.reg = stat[s]
    BY <2>1 DEF StoreTask
  <2>7. Moves(files, Read, pool, pool', t) BY <1>0, <2>3, <2>5, <2>6 DEF Moves
  <2>8. \A e \in Ends(files, g0) : e \notin Past(s) BY <1>2, <1>4, <2>0 DEF Past
  <2>9. Parses(files, pool, pool', t, stat)
    <3>1. \A e \in Ends(files, First(pool[t])) : e \notin Past(s) BY <2>8 DEF g0
    <3> QED BY <1>0, <2>0, <2>3, <2>6, <3>1 DEF Parses
  <2>10. WorkOK(files, Line, pool', Read, dataset, stat) BY <2>7, <2>9, ParseWork DEF StockOK
  <2> QED BY <1>0, <1>1, <2>10 DEF StockOK
<1> QED BY <1>7, <1>8

(* One more in a bag that had none of it.                                   *)
LEMMA OneMoreInBag ==
  ASSUME NEW bag, bag = [p \in DOMAIN bag |-> 1], NEW k, k \notin DOMAIN bag
  PROVE  bag (+) SetToBag({k}) = [p \in DOMAIN bag \cup {k} |-> 1]
<1>1. SetToBag({k}) = [e \in {k} |-> 1] BY DEF SetToBag
<1>2. DOMAIN SetToBag({k}) = {k} BY <1>1
<1>3. bag (+) SetToBag({k}) =
         [e \in DOMAIN bag \cup DOMAIN SetToBag({k}) |->
             (IF e \in DOMAIN bag THEN bag[e] ELSE 0)
               + (IF e \in DOMAIN SetToBag({k}) THEN SetToBag({k})[e] ELSE 0)]
  BY DEF (+)
<1>4. \A e \in DOMAIN bag : bag[e] = 1 OBVIOUS
<1> QED BY <1>1, <1>2, <1>3, <1>4

(* An end is stored, or a packet counted.                                   *)
LEMMA StoreStock ==
  ASSUME IInv, StockOK, files' = files, NEW t \in Threads, Store(t)
  PROVE  StockOK'
<1>0. /\ Types /\ files \in Seq(File) /\ Storing(t) /\ pool[t].kind = "store"
      /\ pool[t].todo # <<>> /\ pool[t].at # "packet"
      /\ UNCHANGED <<main, queue>>
      /\ stat' = [stat EXCEPT ![pool[t].at] = pool[t].reg + 1]
      /\ dataset' = IF pool[t].at = "useful" THEN dataset
                    ELSE dataset (+) SetToBag({KPacket(t)})
  BY DEF IInv, Types, Store, Storing
<1>1. Line' = Line /\ Read' = Read BY <1>0, PoolKeeps
<1> DEFINE g0 == First(pool[t])
           a == pool[t].at
           s == After(a, Packet(t))
<1>2. /\ StoreOK(files, pool[t], Read) /\ g0 \in Packets(files)
      /\ Packet(t).ends = Ends(files, g0) /\ Ends(files, g0) \subseteq {"send", "recv"}
      /\ KPacket(t) = KP(g0, a)
  BY <1>0, PacketOf
<1>3. pool' = IF s = "packet"
              THEN [pool EXCEPT ![t] = StoreTask(pool[t].file, Tail(pool[t].todo), s, 0)]
              ELSE [pool EXCEPT ![t] = StoreTask(pool[t].file, pool[t].todo, s, stat'[s])]
  BY DEF Store
<1>4. a \in Ends(files, g0) \/ (a = "useful" /\ Ends(files, g0) # {})
  BY <1>0, <1>2 DEF StoreOK, AtStage
<1>5. /\ a = "send" /\ "recv" \in Ends(files, g0) => s = "recv"
      /\ a = "send" /\ "recv" \notin Ends(files, g0) => s = "useful"
      /\ a = "recv" => s = "useful"
      /\ a = "useful" => s = "packet"
  BY <1>2, <1>4, AfterFacts
<1> HIDE DEF g0, s
<1>6. stat \in [Stage -> Nat] BY DEF StockOK, WorkOK, StatsOK
<1>7. \A task : pool' = [pool EXCEPT ![t] = task] =>
             \A u \in Threads : pool'[u] = IF u = t THEN task ELSE pool[u]
  BY <1>0 DEF Types
<1>8. a \in Stage /\ pool[t].reg \in Nat BY <1>2, <1>4 DEF Stage, StoreOK
<1>9. stat' \in [Stage -> Nat] BY <1>0, <1>6, <1>8
<1>10. CASE a = "useful"
  <2>0. s = "packet" BY <1>5, <1>10
  <2>1. PICK next : next = StoreTask(pool[t].file, Tail(pool[t].todo), "packet", 0) OBVIOUS
  <2>2. pool' = [pool EXCEPT ![t] = next] BY <1>3, <2>0, <2>1
  <2>3. \A u \in Threads : pool'[u] = IF u = t THEN next ELSE pool[u] BY <1>7, <2>2
  <2>4. StoreOK(files, next, Read) /\ Tail(pool[t].todo) # pool[t].todo
    BY <1>0, <1>2, <2>1, NextOK
  <2>5. /\ next.kind = "store" /\ next.file = pool[t].file /\ next.todo = Tail(pool[t].todo)
        /\ next.at = "packet"
    BY <2>1 DEF StoreTask
  <2>6. Moves(files, Read, pool, pool', t) BY <1>0, <2>3, <2>4, <2>5 DEF Moves
  <2>7. pool'[t].at = "packet" /\ pool'[t].todo # pool[t].todo BY <2>3, <2>4, <2>5
  <2>8. WorkOK(files, Line, pool', Read, dataset, stat')
    BY <1>0, <1>10, <2>6, <2>7, StoreUsefulWork DEF StockOK
  <2>9. dataset' = dataset BY <1>0, <1>10
  <2> QED BY <1>0, <1>1, <2>8, <2>9 DEF StockOK
<1>11. CASE a # "useful"
  <2>0. /\ s # "packet" /\ s \in {"recv", "useful"} /\ a \in {"send", "recv"}
        /\ a \in Ends(files, g0)
    BY <1>2, <1>4, <1>5, <1>11
  <2>1. PICK next : next = StoreTask(pool[t].file, pool[t].todo, s, stat'[s]) OBVIOUS
  <2>2. pool' = [pool EXCEPT ![t] = next] BY <1>3, <2>0, <2>1
  <2>3. \A u \in Threads : pool'[u] = IF u = t THEN next ELSE pool[u] BY <1>7, <2>2
  <2>4. stat'[s] \in Nat BY <1>9, <2>0 DEF Stage
  <2>5. StoreOK(files, next, Read)
    <3>1. s \in Ends(files, g0) \/ (s = "useful" /\ Ends(files, g0) # {})
      BY <1>5, <2>0
    <3> QED BY <1>0, <1>2, <2>1, <2>4, <3>1, StageOK DEF g0
  <2>6. /\ next.kind = "store" /\ next.file = pool[t].file /\ next.todo = pool[t].todo
        /\ next.at = s /\ next.reg = stat'[s]
    BY <2>1 DEF StoreTask
  <2>7. Moves(files, Read, pool, pool', t) BY <1>0, <2>3, <2>5, <2>6 DEF Moves
  <2>8. \A e \in Ends(files, g0) : e \in Past(s) <=> e \in Past(a) \/ e = a
    BY <1>2, <1>5, <2>0 DEF Past
  <2>9. dataset' = [p \in DOMAIN dataset \cup {KP(g0, a)} |-> 1]
    <3>1. dataset = [p \in DOMAIN dataset |-> 1] BY DEF StockOK, WorkOK, DataOK
    <3>2. KP(g0, a) \notin DOMAIN dataset
      <4>1. KP(g0, a) \in DOMAIN dataset <=> Reached(g0, a, Line, pool, Read)
        BY <1>2, <2>0 DEF StockOK, WorkOK, DataOK
      <4>2. \A e : Reached(g0, e, Line, pool, Read) <=> e \in Past(a)
        <5>1. TasksOK(files, Line, pool, Read) /\ PlacedOK(files, Line, pool)
          BY DEF StockOK, WorkOK
        <5> QED BY <1>0, <2>7, <5>1, MoveFacts DEF g0
      <4> QED BY <2>0, <4>1, <4>2 DEF Past
    <3>3. dataset' = dataset (+) SetToBag({KP(g0, a)}) BY <1>0, <1>2, <1>11
    <3> QED BY <3>1, <3>2, <3>3, OneMoreInBag
  <2>10. StoresEnd(files, pool, pool', t, dataset, dataset', stat')
    <3>1. \A e \in Ends(files, First(pool[t])) : e \in Past(s) <=> e \in Past(a) \/ e = a
      BY <2>8 DEF g0
    <3>2. dataset' = [p \in DOMAIN dataset \cup {KP(First(pool[t]), a)} |-> 1] BY <2>9 DEF g0
    <3>3. s \in Stage BY <2>0 DEF Stage
    <3> QED BY <2>0, <2>3, <2>6, <3>1, <3>2, <3>3 DEF StoresEnd
  <2>11. WorkOK(files, Line, pool', Read, dataset', stat')
    BY <1>0, <2>7, <2>10, StoreEndWork DEF StockOK
  <2> QED BY <1>0, <1>1, <2>11 DEF StockOK
<1> QED BY <1>10, <1>11

-----------------------------------------------------------------------------
(* What the main thread finds when it is through *)

(* A step that leaves gcTask and the counters alone, and moves no thread    *)
(* past their deletion.                                                     *)
LEMMA SameGcTask ==
  ASSUME GcTaskOK, UNCHANGED <<gcTask, deleted>>, NEW t \in Threads, NEW task,
         \A u \in Threads : pool'[u] = IF u = t THEN task ELSE pool[u],
         task.kind = "gc" =>
             \/ task.at = "create"
             \/ pool[t].kind = "gc" /\ pool[t].at # "create" /\ task.at # "done"
  PROVE  GcTaskOK'
<1>1. gcTask' = 0 => deleted' BY DEF GcTaskOK
<1>2. ASSUME NEW u \in Threads, pool'[u].kind = "gc"
      PROVE  /\ pool'[u].at # "create" => gcTask' = 1
             /\ pool'[u].at = "done" => deleted'
  <2>1. CASE u = t BY <1>2, <2>1 DEF GcTaskOK
  <2>2. CASE u # t BY <1>2, <2>2 DEF GcTaskOK
  <2> QED BY <2>1, <2>2
<1> QED BY <1>1, <1>2 DEF GcTaskOK

(* GarbageCollection lets the main thread go on after it has deleted the    *)
(* counters, and not before.                                                *)
LEMMA GcTaskStep ==
  ASSUME IInv, GcTaskOK, NEW t \in Threads, Worker(t)
  PROVE  GcTaskOK'
<1>0. /\ Types /\ OneGc /\ queue \in Seq(Queued)
      /\ \A task : pool' = [pool EXCEPT ![t] = task] =>
             \A u \in Threads : pool'[u] = IF u = t THEN task ELSE pool[u]
  BY DEF IInv, Types
<1>1. /\ \A at, i : GcTask(at, i).kind = "gc" /\ GcTask(at, i).at = at
      /\ \A i, todo, at, reg : StoreTask(i, todo, at, reg).kind = "store"
      /\ Idle.kind = "idle"
  BY DEF GcTask, StoreTask, Idle
<1>2. CASE Dispatch(t)
  <2>1. /\ UNCHANGED <<gcTask, deleted>> /\ queue # <<>>
        /\ pool' = [pool EXCEPT ![t] = Head(queue)]
    BY <1>2 DEF Dispatch, counters
  <2>2. Head(queue) \in Queued BY <1>0, <2>1
  <2>3. Head(queue).kind = "gc" => Head(queue).at = "create" BY <1>1, <2>2 DEF Queued
  <2>4. \A u \in Threads : pool'[u] = IF u = t THEN Head(queue) ELSE pool[u] BY <1>0, <2>1
  <2> QED BY <2>1, <2>3, <2>4, SameGcTask
<1>3. CASE GcCreate(t)
  <2>1. pool[t].kind = "gc" /\ gcTask' = 1 BY <1>3 DEF GcCreate
  <2>2. pool' = [pool EXCEPT ![t] = GcTask("counters", 1)] BY <1>3 DEF GcCreate
  <2>3. \A u \in Threads : pool'[u] = IF u = t THEN GcTask("counters", 1) ELSE pool[u]
    BY <1>0, <2>2
  <2>4. \A u \in Threads : pool'[u].kind = "gc" => u = t BY <1>0, <2>1, <2>3 DEF OneGc
  <2> QED BY <1>1, <2>1, <2>3, <2>4 DEF GcTaskOK
<1>4. CASE GcCounters(t)
  <2>1. /\ UNCHANGED <<gcTask, deleted>> /\ pool[t].kind = "gc" /\ pool[t].at = "counters"
        /\ pool' = pool \/ pool' = [pool EXCEPT ![t] = GcTask("wait", 1)]
    BY <1>4 DEF GcCounters
  <2>2. CASE pool' = pool BY <2>1, <2>2 DEF GcTaskOK
  <2>3. CASE pool' = [pool EXCEPT ![t] = GcTask("wait", 1)]
    <3>1. \A u \in Threads : pool'[u] = IF u = t THEN GcTask("wait", 1) ELSE pool[u]
      BY <1>0, <2>3
    <3>2. GcTask("wait", 1).at # "done" BY <1>1
    <3>3. UNCHANGED <<gcTask, deleted>> BY <2>1
    <3> QED BY <2>1, <3>1, <3>2, <3>3, SameGcTask
  <2> QED BY <2>1, <2>2, <2>3
<1>5. CASE GcWait(t)
  <2>1. UNCHANGED <<gcTask, deleted>> BY <1>5 DEF GcWait, counters
  <2>2. /\ pool[t].kind = "gc" /\ pool[t].at = "wait"
        /\ \/ pool' = [pool EXCEPT ![t] = GcTask("wait", pool[t].file + 1)]
           \/ pool' = [pool EXCEPT ![t] = GcTask("delete", pool[t].file)]
    BY <1>5 DEF GcWait
  <2>3. PICK task : pool' = [pool EXCEPT ![t] = task] /\ task.at # "done" BY <1>1, <2>2
  <2>4. \A u \in Threads : pool'[u] = IF u = t THEN task ELSE pool[u] BY <1>0, <2>3
  <2> QED BY <2>1, <2>2, <2>3, <2>4, SameGcTask
<1>6. CASE GcDelete(t)
  <2>1. /\ pool[t].kind = "gc" /\ pool[t].at = "delete" /\ deleted' = TRUE /\ gcTask' = gcTask
        /\ pool' = [pool EXCEPT ![t] = GcTask("done", pool[t].file)]
    BY <1>6 DEF GcDelete
  <2>2. \A u \in Threads : pool'[u] = IF u = t THEN GcTask("done", pool[t].file) ELSE pool[u]
    BY <1>0, <2>1
  <2>3. \A u \in Threads : pool'[u].kind = "gc" => u = t BY <1>0, <2>1, <2>2 DEF OneGc
  <2>4. gcTask = 1 BY <2>1 DEF GcTaskOK
  <2> QED BY <2>1, <2>3, <2>4 DEF GcTaskOK
<1>7. CASE GcDone(t)
  <2>1. /\ pool[t].kind = "gc" /\ pool[t].at = "done" /\ deleted' = deleted
        /\ pool' = [pool EXCEPT ![t] = Idle]
    BY <1>7 DEF GcDone, counters
  <2>2. \A u \in Threads : pool'[u] = IF u = t THEN Idle ELSE pool[u] BY <1>0, <2>1
  <2>3. \A u \in Threads : pool'[u].kind # "gc" BY <1>0, <1>1, <2>1, <2>2 DEF OneGc
  <2>4. deleted BY <2>1 DEF GcTaskOK
  <2> QED BY <2>1, <2>3, <2>4 DEF GcTaskOK
<1>8. CASE RawFault(t)
  <2>1. UNCHANGED <<gcTask, deleted, pool>> BY <1>8 DEF RawFault, counters
  <2> QED BY <2>1 DEF GcTaskOK
<1>9. CASE Parse(t) \/ Store(t) \/ StoreDone(t)
  <2>1. UNCHANGED <<gcTask, deleted>> BY <1>9 DEF Parse, Store, StoreDone, counters
  <2>2. \E task : task.kind # "gc" /\ pool' = [pool EXCEPT ![t] = task]
    <3>1. CASE Parse(t) BY <1>1, <3>1 DEF Parse
    <3>2. CASE Store(t) BY <1>1, <3>2 DEF Store
    <3>3. CASE StoreDone(t) BY <1>1, <3>3 DEF StoreDone
    <3> QED BY <1>9, <3>1, <3>2, <3>3
  <2>3. PICK task : task.kind # "gc" /\ pool' = [pool EXCEPT ![t] = task] BY <2>2
  <2>4. \A u \in Threads : pool'[u] = IF u = t THEN task ELSE pool[u] BY <1>0, <2>3
  <2> QED BY <2>1, <2>3, <2>4, SameGcTask
<1> QED BY <1>2, <1>3, <1>4, <1>5, <1>6, <1>7, <1>8, <1>9 DEF Worker

(* Chunks are left over in no other place than the loop that starts them.   *)
LEMMA QuietStep ==
  ASSUME QuietOK, OpenFails \/ ReadFile \/ StartTask \/ AllStarted \/ SpareDone
                    \/ NextFile \/ WaitForGc \/ UNCHANGED main
  PROVE  QuietOK'
<1>1. CASE OpenFails BY <1>1 DEF QuietOK, OpenFails
<1>2. CASE ReadFile BY <1>2 DEF QuietOK, ReadFile
<1>3. CASE StartTask BY <1>3 DEF QuietOK, StartTask
<1>4. CASE AllStarted BY <1>4 DEF QuietOK, AllStarted
<1>5. CASE SpareDone BY <1>5 DEF QuietOK, SpareDone
<1>6. CASE NextFile BY <1>6 DEF QuietOK, NextFile
<1>7. CASE WaitForGc BY <1>7 DEF QuietOK, WaitForGc
<1>8. CASE UNCHANGED main BY <1>8 DEF QuietOK, main
<1> QED BY <1>1, <1>2, <1>3, <1>4, <1>5, <1>6, <1>7, <1>8

(* Where nothing is outstanding, no store task is left.                     *)
LEMMA NothingLeft ==
  ASSUME IInv, fault = "none", deleted, \A i \in DOMAIN files : FileWellSplit(i)
  PROVE  /\ \A j \in DOMAIN queue : queue[j].kind # "store"
         /\ \A t \in Threads : pool[t].kind # "store"
<1>0. Types /\ queue \in Seq(Queued) BY DEF IInv, Types
<1>1. ASSUME NEW i \in DOMAIN files PROVE Waiting(i) = {} /\ Serving(i) = {}
  <2>1. Outstanding(i) = 0 BY DEF IInv, Exact, Account
  <2>2. /\ IsFiniteSet(Waiting(i)) /\ Cardinality(Waiting(i)) \in Nat
        /\ IsFiniteSet(Serving(i)) /\ Cardinality(Serving(i)) \in Nat
        /\ FromMain(i) \in Nat
        /\ Outstanding(i) = FromMain(i) + Cardinality(Waiting(i)) + Cardinality(Serving(i))
    BY <1>0, WorkFinite
  <2>3. Cardinality(Waiting(i)) = 0 /\ Cardinality(Serving(i)) = 0 BY <2>1, <2>2
  <2> QED BY <2>2, <2>3, FS_EmptySet
<1>2. ASSUME NEW j \in DOMAIN queue PROVE queue[j].kind # "store"
  <2>1. queue[j] \in Queued BY <1>0
  <2>2. queue[j].kind = "store" => queue[j].file \in DOMAIN files
    BY <2>1 DEF Queued, GcTask, StoreTask
  <2> QED BY <1>1, <2>2 DEF Waiting, Stores
<1>3. ASSUME NEW t \in Threads PROVE pool[t].kind # "store"
  <2>1. pool[t].kind = "store" => pool[t].file \in DOMAIN files
    <3>1. IsTask(pool[t]) BY <1>0 DEF Types
    <3>2. pool[t] = Idle => pool[t].kind # "store" BY DEF Idle
    <3> QED BY <3>1, <3>2 DEF IsTask
  <2> QED BY <1>1, <2>1 DEF Serving, Stores
<1> QED BY <1>2, <1>3

(* When the main thread is through, no store task is left.                  *)
LEMMA DoneMainStep ==
  ASSUME IInv, fault = "none", GcTaskOK, files' = files,
         OpenFails \/ ReadFile \/ StartTask \/ AllStarted \/ SpareDone \/ NextFile \/ WaitForGc
  PROVE  DoneOK'
<1>1. ASSUME pc' = "done"
      PROVE  /\ file > Len(files) /\ gcTask = 0 /\ UNCHANGED <<file, queue, pool>>
    BY <1>1 DEF OpenFails, ReadFile, StartTask, AllStarted, SpareDone, NextFile, WaitForGc
<1>2. \A i : FileWellSplit(i)' = FileWellSplit(i) BY DEF FileWellSplit
<1>3. ASSUME pc' = "done", \A i \in DOMAIN files : FileWellSplit(i)
      PROVE  /\ \A j \in DOMAIN queue : queue[j].kind # "store"
             /\ \A t \in Threads : pool[t].kind # "store"
  <2>1. deleted BY <1>1, <1>3 DEF GcTaskOK
  <2> QED BY <1>3, <2>1, NothingLeft
<1> QED BY <1>1, <1>2, <1>3 DEF DoneOK

(* And no step of a thread makes a new one.                                 *)
LEMMA DonePoolStep ==
  ASSUME IInv, DoneOK, NEW t \in Threads, Worker(t)
  PROVE  DoneOK'
<1>0. /\ queue \in Seq(Queued) /\ files' = files
      /\ \A task : pool' = [pool EXCEPT ![t] = task] =>
             \A u \in Threads : pool'[u] = IF u = t THEN task ELSE pool[u]
  BY DEF IInv, Types, Worker
<1>1. /\ \A at, i : GcTask(at, i).kind # "store"
      /\ Idle.kind # "store"
  BY DEF GcTask, Idle
<1>2. UNCHANGED main
  BY DEF Worker, Dispatch, GcCreate, GcCounters, GcWait, GcDelete, GcDone, RawFault, Parse,
         Store, StoreDone
<1>3. UNCHANGED <<pc, file>> BY <1>2 DEF main
<1>4. \A i : FileWellSplit(i)' = FileWellSplit(i) BY <1>0 DEF FileWellSplit
<1>5. ASSUME \A j \in DOMAIN queue : queue[j].kind # "store",
             \A u \in Threads : pool[u].kind # "store"
      PROVE  /\ \A j \in DOMAIN queue' : queue'[j].kind # "store"
             /\ \A u \in Threads : pool'[u].kind # "store"
  <2>1. CASE Dispatch(t)
    <3>1. /\ queue # <<>> /\ queue' = Tail(queue)
          /\ pool' = [pool EXCEPT ![t] = Head(queue)]
      BY <2>1 DEF Dispatch
    <3>2. PICK q \in Nat : q = Len(queue) /\ DOMAIN queue = 1 .. q BY <1>0
    <3>3. q # 0 BY <1>0, <3>1, <3>2
    <3>4. DOMAIN queue' = 1 .. q - 1 /\ \A j \in 1 .. q - 1 : queue'[j] = queue[j + 1]
      BY <1>0, <3>1, <3>2, <3>3
    <3>5. \A j \in DOMAIN queue' : j + 1 \in DOMAIN queue BY <3>2, <3>4
    <3>6. Head(queue) = queue[1] /\ 1 \in DOMAIN queue BY <1>0, <3>1, <3>2, <3>3
    <3>7. \A u \in Threads : pool'[u] = IF u = t THEN Head(queue) ELSE pool[u] BY <1>0, <3>1
    <3>8. \A j \in DOMAIN queue' : queue'[j].kind # "store" BY <1>5, <3>4, <3>5
    <3>9. \A u \in Threads : pool'[u].kind # "store" BY <1>5, <3>6, <3>7
    <3> QED BY <3>8, <3>9
  <2>2. CASE GcCreate(t) \/ GcCounters(t) \/ GcWait(t) \/ GcDelete(t) \/ GcDone(t)
               \/ RawFault(t)
    <3>1. queue' = queue
      BY <2>2 DEF GcCreate, GcCounters, GcWait, GcDelete, GcDone, RawFault
    <3>2. pool' = pool \/ \E task : task.kind # "store" /\ pool' = [pool EXCEPT ![t] = task]
      <4>1. CASE GcCreate(t) BY <1>1, <4>1 DEF GcCreate
      <4>2. CASE GcCounters(t) BY <1>1, <4>2 DEF GcCounters
      <4>3. CASE GcWait(t) BY <1>1, <4>3 DEF GcWait
      <4>4. CASE GcDelete(t) BY <1>1, <4>4 DEF GcDelete
      <4>5. CASE GcDone(t) BY <1>1, <4>5 DEF GcDone
      <4>6. CASE RawFault(t) BY <4>6 DEF RawFault
      <4> QED BY <2>2, <4>1, <4>2, <4>3, <4>4, <4>5, <4>6
    <3>3. \A u \in Threads : pool'[u].kind # "store" BY <1>0, <1>5, <3>2
    <3> QED BY <1>5, <3>1, <3>3
  <2>3. CASE Parse(t) \/ Store(t) \/ StoreDone(t)
    BY <1>5, <2>3 DEF Parse, Store, StoreDone, Storing
  <2> QED BY <2>1, <2>2, <2>3 DEF Worker
<1> QED BY <1>0, <1>3, <1>4, <1>5 DEF DoneOK

-----------------------------------------------------------------------------
(* The stock *)

(* Nothing is stored initially, and one task waits that stores nothing.     *)
LEMMA InitialStock ==
  ASSUME Init
  PROVE  StockOK /\ ThroughOK
<1>0. files \in Seq(File) /\ \A i \in DOMAIN files : i \in Nat \ {0}
  <2>1. files \in Seq(File) BY CapturesAssumption DEF Init
  <2> QED BY <2>1
<1>1. /\ queue = <<GcTask("create", 1)>> /\ chunks = <<>> /\ pc = "open" /\ file = 1
      /\ dataset = EmptyBag /\ stat = [send |-> 0, recv |-> 0, useful |-> 0]
      /\ gcTask = -1
      /\ \A t \in Threads : pool[t].kind = "idle"
  BY DEF Init, Idle
<1>2. Read = {} BY <1>0, <1>1 DEF Read
<1>3. DOMAIN Line = {1} /\ Line[1].kind = "gc"
  <2>1. Len(queue) = 1 /\ Len(chunks) = 0 BY <1>1
  <2>2. Line = [j \in 1 .. 1 |->
                  IF j <= 1 THEN queue[j] ELSE StoreTask(file, chunks[j - 1], "packet", 0)]
    BY <2>1 DEF Line
  <2>3. 1 \in 1 .. 1 /\ \A j \in 1 .. 1 : j = 1 OBVIOUS
  <2> QED BY <1>1, <2>2, <2>3 DEF GcTask
<1> HIDE DEF Line, Read
<1>4. DOMAIN dataset = {} /\ dataset = [p \in DOMAIN dataset |-> 1]
  BY <1>1 DEF EmptyBag, SetToBag
<1>5. TasksOK(files, Line, pool, Read) BY <1>1, <1>3 DEF TasksOK
<1>6. PlacedOK(files, Line, pool) BY <1>1, <1>3 DEF PlacedOK, OnePlace, Has
<1>7. DataOK(files, Line, pool, Read, dataset) BY <1>2, <1>4 DEF DataOK, Reached
<1>8. StatsOK(files, pool, dataset, stat)
  <2>1. stat \in [Stage -> Nat] /\ \A s \in Stage : stat[s] = 0 BY <1>1 DEF Stage
  <2>2. IsFiniteSet(Packets(files)) BY <1>0, PacketsFinite
  <2>3. \A s \in Stage : Count(files, s, pool, dataset) \in Nat
    <3>1. Counted(files, pool, dataset) \subseteq Packets(files) BY DEF Counted
    <3>2. Cardinality(Counted(files, pool, dataset)) \in Nat
      BY <2>2, <3>1, FS_Subset, FS_CardinalityType
    <3>3. \A e : OfEnd(dataset, e) = {} BY <1>4 DEF OfEnd
    <3>4. \A e : Cardinality(OfEnd(dataset, e)) \in Nat BY <3>3, FS_EmptySet
    <3> QED BY <3>2, <3>4 DEF Count
  <2> QED BY <1>1, <2>1, <2>3 DEF StatsOK
<1>9. StockOK BY <1>0, <1>2, <1>5, <1>6, <1>7, <1>8 DEF StockOK, WorkOK
<1>10. ThroughOK BY <1>1 DEF ThroughOK, GcTaskOK, DoneOK, QuietOK
<1> QED BY <1>9, <1>10

(* StockInvariance: every packet is in one place at most, still to be       *)
(* stored or in the data set, and no statistic runs ahead of it.            *)
THEOREM StockInvariance == Spec => [](StockOK /\ ThroughOK)
<1>1. Init => StockOK /\ ThroughOK BY InitialStock
<1>2. IInv /\ IInv' /\ StockOK /\ ThroughOK /\ [Next]_vars => StockOK' /\ ThroughOK'
  <2> SUFFICES ASSUME IInv, IInv', StockOK, ThroughOK, [Next]_vars
               PROVE  StockOK' /\ ThroughOK'
    OBVIOUS
  <2>0. GcTaskOK /\ DoneOK /\ QuietOK BY DEF ThroughOK
  <2>1. CASE UNCHANGED vars
    <3>1. UNCHANGED <<files, main, pc, file, chunks, queue, pool, deleted, gcTask, dataset, stat>>
      BY <2>1 DEF vars, main, counters
    <3>2. Line' = Line /\ Read' = Read BY <3>1 DEF Line, Read
    <3>3. \A t \in Threads : Idles(pool[t], pool'[t]) BY <3>1 DEF Idles
    <3>4. StockOK' BY <3>1, <3>2, <3>3, SameRead, SameStock
    <3>5. GcTaskOK' BY <2>0, <3>1 DEF GcTaskOK
    <3>6. DoneOK' BY <2>0, <3>1 DEF DoneOK, FileWellSplit
    <3>7. QuietOK' BY <2>0, <3>1, QuietStep
    <3> QED BY <3>4, <3>5, <3>6, <3>7 DEF ThroughOK
  <2>2. CASE Main
    <3>1. fault = "none" /\ files' = files
          /\ (OpenFails \/ ReadFile \/ StartTask \/ AllStarted \/ SpareDone
                \/ NextFile \/ WaitForGc)
      BY <2>2 DEF Main, Running
    <3>2. StockOK' BY <2>0, <3>1, QuietMainStock, ReadFileStock
    <3>3. UNCHANGED <<pool, deleted>>
      BY <3>1 DEF OpenFails, ReadFile, StartTask, AllStarted, SpareDone, NextFile, WaitForGc,
                  counters
    <3>4. gcTask' = gcTask
      BY <3>1 DEF OpenFails, ReadFile, StartTask, AllStarted, SpareDone, NextFile, WaitForGc
    <3>5. GcTaskOK' BY <2>0, <3>3, <3>4 DEF GcTaskOK
    <3>6. DoneOK' BY <2>0, <3>1, DoneMainStep
    <3>7. QuietOK' BY <2>0, <3>1, QuietStep
    <3> QED BY <3>2, <3>5, <3>6, <3>7 DEF ThroughOK
  <2>3. ASSUME NEW t \in Threads, Worker(t) PROVE StockOK' /\ ThroughOK'
    <3>1. files' = files
          /\ (Dispatch(t) \/ GcCreate(t) \/ GcCounters(t) \/ GcWait(t) \/ GcDelete(t)
                \/ GcDone(t) \/ RawFault(t) \/ Parse(t) \/ Store(t) \/ StoreDone(t))
      BY <2>3 DEF Worker
    <3>2. StockOK' BY <3>1, DispatchStock, QuietPoolStock, ParseStock, StoreStock
    <3>3. GcTaskOK' BY <2>0, <2>3, GcTaskStep
    <3>4. DoneOK' BY <2>0, <2>3, DonePoolStep
    <3>5. UNCHANGED main
      BY <3>1 DEF Dispatch, GcCreate, GcCounters, GcWait, GcDelete, GcDone, RawFault, Parse,
                  Store, StoreDone
    <3>6. QuietOK' BY <2>0, <3>5, QuietStep
    <3> QED BY <3>2, <3>3, <3>4, <3>6 DEF ThroughOK
  <2> QED BY <2>1, <2>2, <2>3 DEF Next, Terminating
<1> QED BY <1>1, <1>2, Invariance, PTL DEF Spec

-----------------------------------------------------------------------------
(* As long as there is no gcTask there is no counter, and the main thread   *)
(* has got past no file that it makes a done() call for.                    *)
AheadOK ==
    fault = "none" /\ gcTask = -1 =>
        /\ ~deleted /\ storeCounter = <<>>
        /\ \A i \in DOMAIN files : i < file /\ FileWellSplit(i) => Filled(i)
        /\ pc \in {"start", "spare"} /\ spare = 0 /\ FileWellSplit(file) => Filled(file)

UnassignedOK ==
    fault = "noGcTask" => \A i \in DOMAIN files : FileWellSplit(i) => Filled(i)

(* Before GarbageCollection has assigned gcTask, a done() has no counter.   *)
LEMMA NoCounterYet ==
  ASSUME NEW i \in Nat \ {0}, Done(i), ~deleted, storeCounter = <<>>
  PROVE  fault' = "noCounter"
<1>1. Len(storeCounter) = 0 OBVIOUS
<1> QED BY <1>1 DEF Done

(* What ReadFile leaves the main thread to do for a well-split file: to     *)
(* have nothing to do, the file has to have STORE_MULTITHREAD chunks.       *)
LEMMA NothingSpare ==
  ASSUME Types, ReadFile, pc' = "start" \/ pc' = "spare", spare' = 0, FileWellSplit(file)
  PROVE  Filled(file)
<1>1. PICK n \in Nat : n = Len(files[file].packets)
  <2>1. file \in DOMAIN files /\ files \in Seq(File)
    <3>1. file <= Len(files)
      BY DEF ReadFile
    <3>2. files \in Seq(File) /\ file \in Nat \ {0}
      BY DEF Types
    <3> QED BY <3>1, <3>2
  <2>2. PICK f \in File : f = files[file]
    BY <2>1
  <2>3. f.packets \in Seq(RawPacket)
    BY <2>2 DEF File
  <2> QED BY <2>2, <2>3
<1>2. n # 0
  BY <1>1, MultithreadAssumption DEF ReadFile
<1>3. ChunkSize(n) > 0 /\ WellSplit(n)
  BY <1>1, <1>2 DEF ReadFile, FileWellSplit
<1>4. spare' = (STORE_MULTITHREAD - Len(SplitVector(n, ChunkSize(n)))) % SIZE_T
  BY <1>1, <1>2 DEF ReadFile
<1>5. n > 0 /\ ChunkSize(n) \in Nat \ {0}
  BY <1>2, <1>3, MultithreadAssumption DEF ChunkSize
<1>6. PICK chunkNum \in Nat : chunkNum = Len(SplitVector(n, ChunkSize(n)))
  BY <1>5, SplitVectorTyped
<1>7. chunkNum = STORE_MULTITHREAD
  BY <1>2, <1>3, <1>4, <1>6, NothingWraps
<1> QED BY <1>1, <1>5, <1>6, <1>7 DEF Filled

(* The main thread keeps AheadOK: where it makes a done() call there is a   *)
(* counter, or the process has ended.                                       *)
LEMMA AheadMainStep ==
  ASSUME IInv, AheadOK, UnassignedOK, fault = "none", files' = files,
         OpenFails \/ ReadFile \/ StartTask \/ AllStarted \/ SpareDone \/ NextFile \/ WaitForGc
  PROVE  AheadOK' /\ UnassignedOK'
<1>1. /\ Types /\ UNCHANGED <<gcTask, deleted>>
      /\ \A i : FileWellSplit(i)' = FileWellSplit(i) /\ Filled(i)' = Filled(i)
  BY DEF IInv, OpenFails, ReadFile, StartTask, AllStarted, SpareDone, NextFile, WaitForGc,
         counters, FileWellSplit, Filled
<1>2. fault' \in {"none", "noGcTask", "noCounter", "freedCounter"}
  BY DEF OpenFails, ReadFile, StartTask, AllStarted, SpareDone, NextFile, WaitForGc, Done
<1>3. ASSUME fault' = "none", gcTask' = -1 PROVE AheadOK'
  <2>1. /\ ~deleted /\ storeCounter = <<>>
        /\ \A i \in DOMAIN files : i < file /\ FileWellSplit(i) => Filled(i)
        /\ pc \in {"start", "spare"} /\ spare = 0 /\ FileWellSplit(file) => Filled(file)
    BY <1>1, <1>3 DEF AheadOK
  <2>2. file \in Nat \ {0} /\ DOMAIN files \subseteq Nat
    BY <1>1 DEF Types
  <2>3. ~SpareDone
    BY <1>3, <2>1, <2>2, NoCounterYet DEF SpareDone
  <2>4. CASE OpenFails
    BY <1>1, <2>1, <2>4 DEF AheadOK, OpenFails, counters
  <2>5. CASE ReadFile
    <3>1. UNCHANGED <<file, storeCounter>>
      BY <2>5 DEF ReadFile, counters
    <3>2. pc' \in {"start", "spare"} /\ spare' = 0 /\ FileWellSplit(file) => Filled(file)
      BY <1>1, <2>5, NothingSpare
    <3> QED BY <1>1, <2>1, <3>1, <3>2 DEF AheadOK
  <2>6. CASE StartTask \/ AllStarted
    <3>1. /\ UNCHANGED <<file, storeCounter, spare>> /\ pc = "start"
      BY <2>6 DEF StartTask, AllStarted, counters
    <3> QED BY <1>1, <2>1, <3>1 DEF AheadOK
  <2>7. CASE NextFile
    <3>1. /\ UNCHANGED storeCounter /\ pc = "spare" /\ spare = 0 /\ pc' = "open"
          /\ file' = file + 1
      BY <2>7 DEF NextFile, counters
    <3>2. \A i \in DOMAIN files : i < file' => i < file \/ i = file
      BY <2>2, <3>1
    <3> QED BY <1>1, <2>1, <3>1, <3>2 DEF AheadOK
  <2>8. CASE WaitForGc
    <3>1. UNCHANGED <<file, storeCounter, spare>> /\ pc' \notin {"start", "spare"}
      BY <1>3, <2>8 DEF WaitForGc, counters
    <3> QED BY <1>1, <2>1, <3>1 DEF AheadOK
  <2> QED BY <2>3, <2>4, <2>5, <2>6, <2>7, <2>8
<1>4. ASSUME fault' = "noGcTask" PROVE UnassignedOK'
  <2>1. file > Len(files) /\ gcTask = -1
    BY <1>4 DEF OpenFails, ReadFile, StartTask, AllStarted, SpareDone, NextFile, WaitForGc, Done
  <2>2. \A i \in DOMAIN files : i < file
    BY <1>1, <2>1 DEF Types
  <2> QED BY <1>1, <2>1, <2>2 DEF AheadOK, UnassignedOK
<1> QED BY <1>3, <1>4 DEF AheadOK, UnassignedOK

(* The pool keeps it: counters come after gcTask, and gcTask is not lost.   *)
LEMMA AheadPoolStep ==
  ASSUME IInv, GcTaskOK, AheadOK, UnassignedOK, NEW t \in Threads, Worker(t)
  PROVE  AheadOK' /\ UnassignedOK'
<1>1. /\ Types /\ fault = "none" /\ files' = files
      /\ \A i : FileWellSplit(i)' = FileWellSplit(i) /\ Filled(i)' = Filled(i)
  BY DEF IInv, Worker, Running, FileWellSplit, Filled
<1>2. UNCHANGED <<pc, file, spare>> /\ fault' # "noGcTask"
  BY <1>1 DEF Worker, Dispatch, GcCreate, GcCounters, GcWait, GcDelete, GcDone, RawFault, Parse,
              Store, StoreDone, main, Done
<1>3. ASSUME fault' = "none", gcTask' = -1 PROVE AheadOK'
  <2>1. ~GcCreate(t) /\ ~GcDone(t)
    BY <1>3 DEF GcCreate, GcDone, GcTaskOK
  <2>2. gcTask = -1
    BY <1>3, <2>1 DEF Worker, Dispatch, GcCounters, GcWait, GcDelete, RawFault, Parse, Store,
                      StoreDone
  <2>3. ~deleted /\ storeCounter = <<>>
    BY <1>1, <2>2 DEF AheadOK
  <2>4. ~GcCounters(t) /\ ~GcDelete(t)
    BY <2>2 DEF GcCounters, GcDelete, GcTaskOK
  <2>5. ~StoreDone(t)
    <3>1. Storing(t) => pool[t].file \in Nat \ {0}
      <4>1. IsTask(pool[t]) /\ DOMAIN files \subseteq Nat \ {0}
        BY <1>1 DEF Types
      <4>2. Idle.kind = "idle"
        BY DEF Idle
      <4> QED BY <4>1, <4>2 DEF IsTask, Storing
    <3> QED BY <1>3, <2>3, <3>1, NoCounterYet DEF StoreDone
  <2>6. UNCHANGED <<storeCounter, deleted>>
    BY <2>1, <2>4, <2>5 DEF Worker, Dispatch, GcWait, RawFault, Parse, Store, counters
  <2> QED BY <1>1, <1>2, <2>2, <2>6 DEF AheadOK
<1> QED BY <1>2, <1>3 DEF AheadOK, UnassignedOK

(* MemorySafe: GarbageCollection frees nothing that is still in use, unless *)
(* a file is split into more than STORE_MULTITHREAD chunks; and if the main *)
(* thread waits for a gcTask that is not there, every well-split file had   *)
(* exactly STORE_MULTITHREAD chunks.                                        *)
THEOREM MemorySafeCorrect == Spec => []MemorySafe
<1>1. Init => AheadOK /\ UnassignedOK
  <2> SUFFICES ASSUME Init PROVE AheadOK /\ UnassignedOK OBVIOUS
  <2>1. /\ files \in Captures /\ pc = "open" /\ file = 1 /\ storeCounter = <<>> /\ ~deleted
        /\ fault = "none"
    BY DEF Init
  <2>2. \A i \in DOMAIN files : ~(i < 1)
    BY <2>1, CapturesAssumption
  <2> QED BY <2>1, <2>2 DEF AheadOK, UnassignedOK
<1>2. IInv /\ GcTaskOK /\ AheadOK /\ UnassignedOK /\ [Next]_vars => AheadOK' /\ UnassignedOK'
  <2> SUFFICES ASSUME IInv, GcTaskOK, AheadOK, UnassignedOK, [Next]_vars
               PROVE  AheadOK' /\ UnassignedOK'
    OBVIOUS
  <2>1. CASE UNCHANGED vars
    BY <2>1 DEF vars, main, counters, AheadOK, UnassignedOK, FileWellSplit, Filled
  <2>2. CASE Main
    BY <2>2, AheadMainStep DEF Main, Running
  <2>3. ASSUME NEW t \in Threads, Worker(t) PROVE AheadOK' /\ UnassignedOK'
    BY <2>3, AheadPoolStep
  <2> QED BY <2>1, <2>2, <2>3 DEF Next, Terminating
<1>3. ThroughOK => GcTaskOK BY DEF ThroughOK
<1>4. IInv /\ UnassignedOK => MemorySafe BY DEF IInv, FreedSafe, UnassignedOK, MemorySafe
<1> QED BY <1>1, <1>2, <1>3, <1>4, Invariance, StockInvariance, PTL DEF Spec

-----------------------------------------------------------------------------
(* The expected data set is the bag of all KPackets.                        *)
LEMMA ExpectedFacts ==
  ASSUME files \in Seq(File)
  PROVE  Expected = [p \in KPackets(files) |-> 1] /\ BagToSet(Expected) = KPackets(files)
<1> DEFINE Of(i) == UNION {{[file |-> i, index |-> k, end |-> e] :
                                e \in files[i].packets[k].ends} : k \in DOMAIN files[i].packets}
           all == UNION {Of(i) : i \in DOMAIN files}
<1>1. ASSUME NEW p \in all PROVE p \in KPackets(files)
  <2>1. PICK i \in DOMAIN files : p \in Of(i) OBVIOUS
  <2>2. PICK k \in DOMAIN files[i].packets :
            p \in {[file |-> i, index |-> k, end |-> e] : e \in files[i].packets[k].ends}
    BY <2>1
  <2>3. PICK e \in files[i].packets[k].ends : p = [file |-> i, index |-> k, end |-> e] BY <2>2
  <2>a. PICK g : g = <<i, k>> OBVIOUS
  <2>4. g = <<i, k>> /\ g[1] = i /\ g[2] = k BY <2>a
  <2>5. g \in Packets(files) BY <2>4, PacketFacts
  <2>6. e \in Ends(files, g) /\ p = KP(g, e) BY <2>3, <2>4 DEF Ends, KP
  <2> QED BY <2>5, <2>6, KPFacts
<1>2. ASSUME NEW p \in KPackets(files) PROVE p \in all
  <2>1. PICK g \in Packets(files) : \E e \in Ends(files, g) : p = KP(g, e) BY KPFacts
  <2>2. PICK e \in Ends(files, g) : p = KP(g, e) BY <2>1
  <2>3. PICK i \in DOMAIN files : i = g[1] BY PacketFacts
  <2>4. PICK k \in DOMAIN files[i].packets : k = g[2] BY <2>3, PacketFacts
  <2>5. /\ e \in files[i].packets[k].ends
        /\ p = [file |-> i, index |-> k, end |-> e]
    BY <2>2, <2>3, <2>4 DEF Ends, KP
  <2>6. p \in {[file |-> i, index |-> k, end |-> d] : d \in files[i].packets[k].ends} BY <2>5
  <2>7. p \in Of(i) BY <2>6
  <2> HIDE DEF Of
  <2> QED BY <2>7
<1>3. Expected = SetToBag(all) BY DEF Expected
<1> HIDE DEF all
<1>4. all = KPackets(files) BY <1>1, <1>2
<1> QED BY <1>3, <1>4 DEF SetToBag, BagToSet

(* DatasetComplete: whatever the captures and however the threads run, what *)
(* Sort and Serialize get is every IoT end of every packet, once.           *)
THEOREM DatasetCompleteCorrect == Spec => []DatasetComplete
<1>1. IInv /\ StockOK /\ ThroughOK => DatasetComplete
  <2> SUFFICES ASSUME IInv, StockOK, ThroughOK,
                      pc = "done", \A i \in DOMAIN files : FileWellSplit(i)
               PROVE  dataset = Expected
    BY DEF DatasetComplete
  <2>0. Types /\ files \in Seq(File) BY DEF IInv, Types
  <2>1. /\ file > Len(files) /\ file \in Nat /\ chunks = <<>>
        /\ \A j \in DOMAIN queue : queue[j].kind # "store"
        /\ \A t \in Threads : pool[t].kind # "store"
    BY DEF IInv, Types, ThroughOK, DoneOK, QuietOK
  <2>2. Read = DOMAIN files
    <3>1. \A i \in DOMAIN files : i \in Nat /\ i <= Len(files) BY <2>0
    <3>2. \A i \in DOMAIN files : ~(file < i) /\ file # i BY <2>0, <2>1, <3>1
    <3> QED BY <3>2 DEF Read
  <2>3. \A j \in DOMAIN Line : Line[j].kind # "store"
    <3>1. PICK q \in Nat, c \in Nat :
            /\ Len(queue) = q /\ DOMAIN queue = 1 .. q
            /\ Len(chunks) = c /\ DOMAIN chunks = 1 .. c
            /\ DOMAIN Line = 1 .. q + c
            /\ \A j \in 1 .. q : Line[j] = queue[j]
            /\ \A k \in 1 .. c : Line[q + k] = StoreTask(file, chunks[k], "packet", 0)
      BY <2>0, LineFacts
    <3>2. q + c = q BY <2>1, <3>1
    <3> QED BY <2>1, <3>1, <3>2
  <2>4. DataOK(files, Line, pool, Read, dataset) BY DEF StockOK, WorkOK
  <2> HIDE DEF Line, Read
  <2>5. \A g \in Packets(files) : \A e : Reached(g, e, Line, pool, Read)
    BY <2>0, <2>1, <2>2, <2>3, PacketFacts DEF Reached, Has
  <2>6. \A g \in Packets(files) : \A e \in Ends(files, g) : KP(g, e) \in DOMAIN dataset
    BY <2>4, <2>5 DEF DataOK
  <2>7. \A p \in KPackets(files) : p \in DOMAIN dataset BY <2>0, <2>6, KPFacts
  <2>8. DOMAIN dataset = KPackets(files) BY <2>4, <2>7 DEF DataOK
  <2>9. dataset = [p \in DOMAIN dataset |-> 1] BY <2>4 DEF DataOK
  <2> QED BY <2>0, <2>8, <2>9, ExpectedFacts
<1> QED BY <1>1, Invariance, StockInvariance, PTL

(* StatBounded: the race on the statistics loses increments and never makes *)
(* one up.                                                                  *)
THEOREM StatBoundedCorrect == Spec => []StatBounded
<1>1. IInv /\ StockOK => StatBounded
  <2> SUFFICES ASSUME IInv, StockOK PROVE StatBounded OBVIOUS
  <2>0. files \in Seq(File) BY DEF IInv, Types
  <2>1. /\ BagToSet(Expected) = KPackets(files)
        /\ IsFiniteSet(KPackets(files))
    BY <2>0, ExpectedFacts, PacketsFinite
  <2>2. /\ stat \in [Stage -> Nat] /\ DOMAIN dataset \subseteq KPackets(files)
        /\ \A s \in Stage : stat[s] <= Count(files, s, pool, dataset)
    BY DEF StockOK, WorkOK, StatsOK, DataOK
  <2>3. ASSUME NEW e \in {"send", "recv"}
        PROVE  stat[e] <= Cardinality({p \in BagToSet(Expected) : p.end = e})
    <3> DEFINE those == {p \in KPackets(files) : p.end = e}
    <3>1. IsFiniteSet(those) /\ those \subseteq KPackets(files) BY <2>1, FS_Subset
    <3>2. OfEnd(dataset, e) \subseteq those BY <2>2 DEF OfEnd
    <3> HIDE DEF those
    <3>3. /\ Cardinality(OfEnd(dataset, e)) \in Nat /\ Cardinality(those) \in Nat
          /\ Cardinality(OfEnd(dataset, e)) <= Cardinality(those)
      BY <3>1, <3>2, FS_Subset, FS_CardinalityType
    <3>4. e \in Stage /\ Count(files, e, pool, dataset) = Cardinality(OfEnd(dataset, e))
      BY DEF Stage, Count
    <3>5. stat[e] \in Nat /\ stat[e] <= Cardinality(OfEnd(dataset, e)) BY <2>2, <3>4
    <3>6. stat[e] <= Cardinality(those) BY <3>3, <3>5
    <3> QED BY <2>1, <3>6 DEF those
  <2>4. stat["useful"] <= Cardinality({<<p.file, p.index>> : p \in BagToSet(Expected)})
    <3> DEFINE those == {<<p.file, p.index>> : p \in KPackets(files)}
    <3>1. those \subseteq Packets(files)
      <4>1. ASSUME NEW p \in KPackets(files) PROVE <<p.file, p.index>> \in Packets(files)
        <5>1. PICK g \in Packets(files) : \E e \in Ends(files, g) : p = KP(g, e)
          BY <2>0, KPFacts
        <5>2. p.file = g[1] /\ p.index = g[2] BY <5>1 DEF KP
        <5>3. g = <<g[1], g[2]>> BY <2>0, PacketFacts
        <5> QED BY <5>2, <5>3
      <4> QED BY <4>1
    <3>2. Counted(files, pool, dataset) \subseteq those
      <4>1. ASSUME NEW g \in Counted(files, pool, dataset) PROVE g \in those
        <5>1. g \in Packets(files) /\ Ends(files, g) # {} BY DEF Counted
        <5>2. PICK e \in Ends(files, g) : TRUE BY <5>1
        <5>3. PICK p \in KPackets(files) : p = KP(g, e) BY <2>0, <5>1, <5>2, KPFacts
        <5>4. p.file = g[1] /\ p.index = g[2] BY <5>3 DEF KP
        <5>5. g = <<g[1], g[2]>> BY <2>0, <5>1, PacketFacts
        <5>6. g = <<p.file, p.index>> BY <5>4, <5>5
        <5> QED BY <5>6
      <4> QED BY <4>1
    <3> HIDE DEF those
    <3>3. IsFiniteSet(those) BY <2>0, <3>1, PacketsFinite, FS_Subset
    <3>4. /\ Cardinality(Counted(files, pool, dataset)) \in Nat /\ Cardinality(those) \in Nat
          /\ Cardinality(Counted(files, pool, dataset)) <= Cardinality(those)
      BY <3>2, <3>3, FS_Subset, FS_CardinalityType
    <3>5. /\ "useful" \in Stage
          /\ Count(files, "useful", pool, dataset) = Cardinality(Counted(files, pool, dataset))
      BY DEF Stage, Count
    <3>6. stat["useful"] \in Nat /\ stat["useful"] <= Cardinality(Counted(files, pool, dataset))
      BY <2>2, <3>5
    <3>7. stat["useful"] <= Cardinality(those) BY <3>4, <3>6
    <3> QED BY <2>1, <3>7 DEF those
  <2> QED BY <2>3, <2>4 DEF StatBounded
<1> QED BY <1>1, Invariance, StockInvariance, PTL
=============================================================================
