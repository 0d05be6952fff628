------------------------------ MODULE Converter ------------------------------
(***************************************************************************)
(* Converter::RawCvtoPktDataset: the capture files of a data set are read  *)
(* one after the other by the main thread, cut into chunks, and stored by  *)
(* go tasks of a thread pool, while one more go task, GarbageCollection,   *)
(* frees each file's raw packets when all of its chunks are stored.        *)
(*                                                                         *)
(* What keeps them apart is one WaitGroup per file, storeCounter[i], set   *)
(* to STORE_MULTITHREAD whatever the number of chunks: each store task     *)
(* calls done() once and the main thread makes up for the difference.      *)
(*                                                                         *)
(* A touch of memory that is not there (any more) ends the process; fault  *)
(* names the reason.                                                       *)
(***************************************************************************)
EXTENDS Integers, Sequences, FiniteSets, Bags

CONSTANTS
    STORE_MULTITHREAD,      \* 10 in AConfig.h
    SIZE_T,                 \* 2^64: the modulus of size_t
    Threads,                \* the compute threads of the pool
    Captures                \* the lists of files a run may have to read

(* One thread is taken by GarbageCollection, which blocks in wait().        *)
ASSUME ThreadsAssumption == IsFiniteSet(Threads) /\ Cardinality(Threads) >= 2

ASSUME MultithreadAssumption ==
    /\ STORE_MULTITHREAD \in Nat /\ STORE_MULTITHREAD >= 2
    /\ SIZE_T \in Nat /\ SIZE_T > STORE_MULTITHREAD

(* A raw packet: which of its two addresses belong to an IoT device (source *)
(* "send", destination "recv"; neither for a packet without the right       *)
(* layer), and whether it has a time stamp.                                 *)
RawPacket == [ends : SUBSET {"send", "recv"}, stamped : BOOLEAN]

(* A capture file: whether the reader opens it, and its packets.            *)
File == [opens : BOOLEAN, packets : Seq(RawPacket)]

ASSUME CapturesAssumption == \A files \in Captures : files \in Seq(File)

VARIABLES
    files,          \* the paths and their contents; never changes
    pc, file,       \* the main thread, and the file it is at
    chunks,         \* the chunks of the file it has not started yet
    spare,          \* the done() calls it still has to make
    queue,          \* the "store" queue of the pool: first in, first out
    pool,           \* what each compute thread runs
    rawPacketVec,   \* "null", "live" or "freed" for each file
    storeCounter,   \* nleft of each file's WaitGroup, as far as they exist
    deleted,        \* has the gc task deleted them?
    gcTask,         \* nleft of the member gcTask, -1 before it is created
    dataset,        \* the bag of KPackets stored
    stat,           \* totalSend, totalRecv (of all devices) and usefulPktNum
    fault

main == <<pc, file, chunks, spare>>
counters == <<storeCounter, deleted>>

vars == <<files, main, queue, pool, rawPacketVec, counters, gcTask, dataset, stat, fault>>

Idle == [kind |-> "idle"]
GcTask(at, i) == [kind |-> "gc", at |-> at, file |-> i]
StoreTask(i, todo, at, reg) ==
    [kind |-> "store", file |-> i, todo |-> todo, at |-> at, reg |-> reg]

Range1(n) == [k \in 1 .. n |-> k]

SplitVector_NoRest(n, chunkSize) ==     \* mutant: i + chunkSize <= size
    LET num == n \div chunkSize
    IN  [k \in 1 .. num |->
            SubSeq(Range1(n), (k - 1) * chunkSize + 1,
                   IF k * chunkSize < n THEN k * chunkSize ELSE n)]

(* splitVector on the positions 1 .. n: the last chunk may be shorter.      *)
SplitVector(n, chunkSize) ==
    LET num == (n + chunkSize - 1) \div chunkSize
    IN  [k \in 1 .. num |->
            SubSeq(Range1(n), (k - 1) * chunkSize + 1,
                   IF k * chunkSize < n THEN k * chunkSize ELSE n)]

ChunkSize(n) == n \div (STORE_MULTITHREAD - 1)

(* The file sizes for which the scheme works: at most STORE_MULTITHREAD     *)
(* chunks. From (STORE_MULTITHREAD - 1) * (STORE_MULTITHREAD - 2) packets   *)
(* on, which is 72, every size does.                                        *)
WellSplit(n) ==
    \/ n = 0
    \/ ChunkSize(n) > 0 /\ Len(SplitVector(n, ChunkSize(n))) <= STORE_MULTITHREAD

Init ==
    /\ files \in Captures
    /\ pc = "open" /\ file = 1 /\ chunks = <<>> /\ spare = 0
    /\ queue = <<GcTask("create", 1)>>
    /\ pool = [t \in Threads |-> Idle]
    /\ rawPacketVec = [i \in DOMAIN files |-> "null"]
    /\ storeCounter = <<>> /\ deleted = FALSE
    /\ gcTask = -1
    /\ dataset = EmptyBag
    /\ stat = [send |-> 0, recv |-> 0, useful |-> 0]
    /\ fault = "none"

(* A fault ends the process, and so does exit(-1).                          *)
Running == fault = "none" /\ pc # "exit"

-----------------------------------------------------------------------------
(* storeCounter[i]->done(), by whichever thread. The vector is filled by    *)
(* the gc task without a lock: an index beyond its size, or a look at it    *)
(* while it still grows, may hit unallocated memory.                        *)
Growing == ~deleted /\ Len(storeCounter) < Len(files)

Done(i) ==
    \/ /\ deleted
       /\ fault' = "freedCounter"
       /\ UNCHANGED storeCounter
    \/ /\ Growing
       /\ fault' = "noCounter"
       /\ UNCHANGED storeCounter
    \/ /\ ~deleted /\ i <= Len(storeCounter)
       /\ storeCounter' = [storeCounter EXCEPT ![i] = storeCounter[i] - 1]
       /\ UNCHANGED fault

-----------------------------------------------------------------------------
(* The main thread *)

(* OpenReader throws; GetBurstDataset catches the exception and runs off    *)
(* its end.                                                                 *)
OpenFails ==
    /\ pc = "open" /\ file <= Len(files)
    /\ ~files[file].opens
    /\ pc' = "noReturn"
    /\ UNCHANGED <<file, chunks, spare, queue, pool, rawPacketVec, counters, gcTask, dataset, stat,
                   fault>>

ReadFile_OneShort ==                    \* mutant: j + 1 < in the loop of done() calls
    /\ pc = "open" /\ file <= Len(files)
    /\ files[file].opens
    /\ rawPacketVec' = [rawPacketVec EXCEPT ![file] = "live"]
    /\ LET n == Len(files[file].packets)
       IN  \/ /\ n = 0
              /\ pc' = "spare" /\ chunks' = <<>> /\ spare' = STORE_MULTITHREAD
           \/ /\ n > 0 /\ ChunkSize(n) = 0
              /\ pc' = "exit" /\ UNCHANGED <<chunks, spare>>
           \/ /\ n > 0 /\ ChunkSize(n) > 0
              /\ pc' = "start"
              /\ chunks' = SplitVector(n, ChunkSize(n))
              /\ spare' = (STORE_MULTITHREAD - 1 - Len(SplitVector(n, ChunkSize(n)))) % SIZE_T
    /\ UNCHANGED <<file, queue, pool, counters, gcTask, dataset, stat, fault>>

(* Read the whole file and split it. A chunk size of zero makes splitVector *)
(* add empty chunks until memory is exhausted, and GetBurstDataset exits.   *)
ReadFile ==
    /\ pc = "open" /\ file <= Len(files)
    /\ files[file].opens
    /\ rawPacketVec' = [rawPacketVec EXCEPT ![file] = "live"]
    /\ LET n == Len(files[file].packets)
       IN  \/ /\ n = 0
              /\ pc' = "spare" /\ chunks' = <<>> /\ spare' = STORE_MULTITHREAD
           \/ /\ n > 0 /\ ChunkSize(n) = 0
              /\ pc' = "exit" /\ UNCHANGED <<chunks, spare>>
           \/ /\ n > 0 /\ ChunkSize(n) > 0
              /\ pc' = "start"
              /\ chunks' = SplitVector(n, ChunkSize(n))
              /\ spare' = (STORE_MULTITHREAD - Len(SplitVector(n, ChunkSize(n)))) % SIZE_T
    /\ UNCHANGED <<file, queue, pool, counters, gcTask, dataset, stat, fault>>

(* processTask->start() for the next chunk *)
StartTask ==
    /\ pc = "start"
    /\ chunks # <<>>
    /\ queue' = Append(queue, StoreTask(file, Head(chunks), "packet", 0))
    /\ chunks' = Tail(chunks)
    /\ UNCHANGED <<pc, file, spare, pool, rawPacketVec, counters, gcTask, dataset, stat, fault>>

AllStarted ==
    /\ pc = "start"
    /\ chunks = <<>>
    /\ pc' = "spare"
    /\ UNCHANGED <<file, chunks, spare, queue, pool, rawPacketVec, counters, gcTask, dataset, stat,
                   fault>>

SpareDone ==
    /\ pc = "spare"
    /\ spare > 0
    /\ Done(file)
    /\ spare' = spare - 1
    /\ UNCHANGED <<pc, file, chunks, queue, pool, rawPacketVec, deleted, gcTask, dataset, stat>>

NextFile ==
    /\ pc = "spare"
    /\ spare = 0
    /\ pc' = "open"
    /\ file' = file + 1
    /\ UNCHANGED <<chunks, spare, queue, pool, rawPacketVec, counters, gcTask, dataset, stat, fault>>

(* gcTask->wait() on the member, which the gc task creates; then Sort,      *)
(* which throws when a packet has no time stamp, OutputStat and Serialize.  *)
WaitForGc ==
    /\ pc = "open" /\ file > Len(files)
    /\ \/ /\ gcTask = -1
          /\ fault' = "noGcTask"
          /\ UNCHANGED pc
       \/ /\ gcTask = 0
          /\ pc' = IF \A p \in BagToSet(dataset) : files[p.file].packets[p.index].stamped
                   THEN "done" ELSE "noReturn"
          /\ UNCHANGED fault
    /\ UNCHANGED <<file, chunks, spare, queue, pool, rawPacketVec, counters, gcTask, dataset, stat>>

Main ==
    /\ Running
    /\ \/ OpenFails \/ ReadFile \/ StartTask \/ AllStarted \/ SpareDone
       \/ NextFile \/ WaitForGc
    /\ UNCHANGED files

-----------------------------------------------------------------------------
(* The pool *)

Dispatch(t) ==
    /\ pool[t] = Idle
    /\ queue # <<>>
    /\ pool' = [pool EXCEPT ![t] = Head(queue)]
    /\ queue' = Tail(queue)
    /\ UNCHANGED <<main, rawPacketVec, counters, gcTask, dataset, stat, fault>>

(* GarbageCollection: create the member gcTask and the counters, ...        *)
GcCreate(t) ==
    /\ pool[t].kind = "gc" /\ pool[t].at = "create"
    /\ gcTask' = 1
    /\ pool' = [pool EXCEPT ![t] = GcTask("counters", 1)]
    /\ UNCHANGED <<main, queue, rawPacketVec, counters, dataset, stat, fault>>

GcCounters(t) ==
    /\ pool[t].kind = "gc" /\ pool[t].at = "counters"
    /\ IF Len(storeCounter) < Len(files)
       THEN /\ storeCounter' = Append(storeCounter, STORE_MULTITHREAD)
            /\ UNCHANGED pool
       ELSE /\ pool' = [pool EXCEPT ![t] = GcTask("wait", 1)]
            /\ UNCHANGED storeCounter
    /\ UNCHANGED <<main, queue, rawPacketVec, deleted, gcTask, dataset, stat, fault>>

GcWait_NoWait(t) ==                     \* mutant: wait() dropped
    /\ pool[t].kind = "gc" /\ pool[t].at = "wait"
    /\ LET i == pool[t].file
       IN  \/ /\ i <= Len(files)
              /\ rawPacketVec' = [rawPacketVec EXCEPT ![i] = "freed"]
              /\ pool' = [pool EXCEPT ![t] = GcTask("wait", i + 1)]
           \/ /\ i > Len(files)
              /\ pool' = [pool EXCEPT ![t] = GcTask("delete", i)]
              /\ UNCHANGED rawPacketVec
    /\ UNCHANGED <<main, queue, counters, gcTask, dataset, stat, fault>>

GcWait_SameFile(t) ==                   \* mutant: i++ missing
    /\ pool[t].kind = "gc" /\ pool[t].at = "wait"
    /\ LET i == pool[t].file
       IN  \/ /\ i <= Len(files)
              /\ storeCounter[i] <= 0
              /\ rawPacketVec' = [rawPacketVec EXCEPT ![i] = "freed"]
              /\ UNCHANGED pool
           \/ /\ i > Len(files)
              /\ pool' = [pool EXCEPT ![t] = GcTask("delete", i)]
              /\ UNCHANGED rawPacketVec
    /\ UNCHANGED <<main, queue, counters, gcTask, dataset, stat, fault>>

(* ... wait for the files in order and free their raw packets, ...           *)
GcWait(t) ==
    /\ pool[t].kind = "gc" /\ pool[t].at = "wait"
    /\ LET i == pool[t].file
       IN  \/ /\ i <= Len(files)
              /\ storeCounter[i] <= 0
              /\ rawPacketVec' = [rawPacketVec EXCEPT ![i] = "freed"]
              /\ pool' = [pool EXCEPT ![t] = GcTask("wait", i + 1)]
           \/ /\ i > Len(files)
              /\ pool' = [pool EXCEPT ![t] = GcTask("delete", i)]
              /\ UNCHANGED rawPacketVec
    /\ UNCHANGED <<main, queue, counters, gcTask, dataset, stat, fault>>

(* ... delete the counters, ...                                             *)
GcDelete(t) ==
    /\ pool[t].kind = "gc" /\ pool[t].at = "delete"
    /\ storeCounter' = <<>> /\ deleted' = TRUE
    /\ pool' = [pool EXCEPT ![t] = GcTask("done", pool[t].file)]
    /\ UNCHANGED <<main, queue, rawPacketVec, gcTask, dataset, stat, fault>>

(* ... and release the main thread.                                         *)
GcDone(t) ==
    /\ pool[t].kind = "gc" /\ pool[t].at = "done"
    /\ gcTask' = gcTask - 1
    /\ pool' = [pool EXCEPT ![t] = Idle]
    /\ UNCHANGED <<main, queue, rawPacketVec, counters, dataset, stat, fault>>

Stages_UsefulPerEnd(packet) ==          \* mutant: usefulPktNum++ in AddPacket
    (IF "send" \in packet.ends THEN <<"send", "useful">> ELSE <<>>) \o
    (IF "recv" \in packet.ends THEN <<"recv", "useful">> ELSE <<>>)

(* StoreKPackets. The increments of the statistics are not synchronised:     *)
(* each is a read into a register and a write. The stages of a packet are    *)
(* AddPacket for the source, AddPacket for the destination, usefulPktNum.    *)
Stages(packet) ==
    (IF "send" \in packet.ends THEN <<"send">> ELSE <<>>) \o
    (IF "recv" \in packet.ends THEN <<"recv">> ELSE <<>>) \o
    (IF packet.ends # {} THEN <<"useful">> ELSE <<>>)

Storing(t) == pool[t].kind = "store"
Packet(t) == files[pool[t].file].packets[Head(pool[t].todo)]

(* Where the task goes after stage s of its packet; "packet" is the top of  *)
(* the loop.                                                                *)
After(s, packet) ==
    LET later == {i \in DOMAIN Stages(packet) :
                    s = "packet" \/ \E j \in 1 .. i - 1 : Stages(packet)[j] = s}
    IN  IF later = {} THEN "packet"
        ELSE Stages(packet)[CHOOSE i \in later : \A j \in later : i <= j]

TouchRaw(t) == rawPacketVec[pool[t].file] = "live"

RawFault(t) ==
    /\ Storing(t) /\ pool[t].todo # <<>>
    /\ pool[t].at # "useful"
    /\ ~TouchRaw(t)
    /\ fault' = "freedRaw"
    /\ UNCHANGED <<main, queue, pool, rawPacketVec, counters, gcTask, dataset, stat>>

(* Parse the next packet; skip it when it is of no interest.                *)
Parse(t) ==
    /\ Storing(t) /\ pool[t].todo # <<>>
    /\ pool[t].at = "packet"
    /\ TouchRaw(t)
    /\ LET s == After("packet", Packet(t))
       IN  pool' = IF s = "packet"
                   THEN [pool EXCEPT ![t] = StoreTask(pool[t].file, Tail(pool[t].todo), s, 0)]
                   ELSE [pool EXCEPT ![t] = StoreTask(pool[t].file, pool[t].todo, s, stat[s])]
    /\ UNCHANGED <<main, queue, rawPacketVec, counters, gcTask, dataset, stat, fault>>

(* Write the incremented statistic; AddPacket then stores the packet under  *)
(* pktDatasetMutex. The next statistic is read as early as a compiler may   *)
(* move an unsynchronised read: right away.                                 *)
KPacket(t) == [file |-> pool[t].file, index |-> Head(pool[t].todo), end |-> pool[t].at]

Store(t) ==
    /\ Storing(t) /\ pool[t].todo # <<>>
    /\ pool[t].at # "packet"
    /\ pool[t].at = "useful" \/ TouchRaw(t)
    /\ stat' = [stat EXCEPT ![pool[t].at] = pool[t].reg + 1]
    /\ dataset' = IF pool[t].at = "useful" THEN dataset ELSE dataset (+) SetToBag({KPacket(t)})
    /\ LET s == After(pool[t].at, Packet(t))
       IN  pool' = IF s = "packet"
                   THEN [pool EXCEPT ![t] = StoreTask(pool[t].file, Tail(pool[t].todo), s, 0)]
                   ELSE [pool EXCEPT ![t] = StoreTask(pool[t].file, pool[t].todo, s, stat'[s])]
    /\ UNCHANGED <<main, queue, rawPacketVec, counters, gcTask, fault>>

StoreDone_Forgotten(t) ==               \* mutant: the task returns early
    /\ Storing(t) /\ pool[t].todo = <<>>
    /\ pool' = [pool EXCEPT ![t] = Idle]
    /\ UNCHANGED <<main, queue, rawPacketVec, counters, gcTask, dataset, stat, fault>>

StoreDone(t) ==
    /\ Storing(t) /\ pool[t].todo = <<>>
    /\ Done(pool[t].file)
    /\ pool' = [pool EXCEPT ![t] = Idle]
    /\ UNCHANGED <<main, queue, rawPacketVec, deleted, gcTask, dataset, stat>>

Worker(t) ==
    /\ Running
    /\ \/ Dispatch(t)
       \/ GcCreate(t) \/ GcCounters(t) \/ GcWait(t) \/ GcDelete(t) \/ GcDone(t)
       \/ RawFault(t) \/ Parse(t) \/ Store(t) \/ StoreDone(t)
    /\ UNCHANGED files

Ended == pc \in {"done", "noReturn", "exit"} \/ fault # "none"

Terminating == Ended /\ UNCHANGED vars

Next == Main \/ (\E t \in Threads : Worker(t)) \/ Terminating

(* The operating system runs every thread, again and again.                 *)
Fairness == WF_vars(Main) /\ \A t \in Threads : WF_vars(Worker(t))

Spec == Init /\ [][Next]_vars

FairSpec == Spec /\ Fairness

-----------------------------------------------------------------------------
FileWellSplit(i) == WellSplit(Len(files[i].packets))

(* The done() calls on storeCounter[i] that are still to come: of the tasks *)
(* queued or running, and of the main thread.                               *)
Stores(task, i) == task.kind = "store" /\ task.file = i

FromMain(i) ==
    IF file < i \/ (file = i /\ pc \notin {"start", "spare"}) THEN STORE_MULTITHREAD
    ELSE IF file = i THEN Len(chunks) + spare
    ELSE 0

Outstanding(i) ==
    FromMain(i) + Cardinality({k \in DOMAIN queue : Stores(queue[k], i)})
                + Cardinality({t \in Threads : Stores(pool[t], i)})

(* The accounting the scheme lives on: as long as no file is split into     *)
(* more than STORE_MULTITHREAD chunks, every WaitGroup counts exactly the   *)
(* done() calls that are still to come, over the main thread, the queue and *)
(* the pool.                                                                *)
CounterExact ==
    \A i \in DOMAIN files :
        FileWellSplit(i) /\ fault = "none" =>
            IF deleted THEN Outstanding(i) = 0
            ELSE i <= Len(storeCounter) => storeCounter[i] = Outstanding(i)

(* GarbageCollection never frees raw packets or counters that a thread      *)
(* still touches, unless the number of packets of some file makes           *)
(* splitVector return more than STORE_MULTITHREAD chunks: then              *)
(* STORE_MULTITHREAD - splittedVec.size() wraps around. And the main thread *)
(* is at gcTask->wait() before there is a gcTask only when it had no done() *)
(* of its own to make, for each would have met a missing counter first: all *)
(* files were split into exactly STORE_MULTITHREAD chunks.                  *)
Filled(i) ==
    LET n == Len(files[i].packets)
    IN  n > 0 /\ Len(SplitVector(n, ChunkSize(n))) = STORE_MULTITHREAD

MemorySafe ==
    /\ fault \in {"freedRaw", "freedCounter"} => \E i \in DOMAIN files : ~FileWellSplit(i)
    /\ fault = "noGcTask" => \A i \in DOMAIN files : FileWellSplit(i) => Filled(i)

(* The KPackets a data set should consist of.                               *)
Expected ==
    SetToBag(UNION {UNION {{[file |-> i, index |-> k, end |-> e] :
                                e \in files[i].packets[k].ends} :
                            k \in DOMAIN files[i].packets} :
                    i \in DOMAIN files})

(* What Sort and Serialize get is complete: every IoT end of every packet   *)
(* of every file, once, and no store task adds to it later.                 *)
DatasetComplete ==
    pc = "done" /\ (\A i \in DOMAIN files : FileWellSplit(i)) => dataset = Expected

(* The statistics may lose increments to the race on them, but they never   *)
(* count a packet that is not there, and usefulPktNum counts packets, not   *)
(* ends.                                                                    *)
StatBounded ==
    /\ \A e \in {"send", "recv"} :
          stat[e] <= Cardinality({p \in BagToSet(Expected) : p.end = e})
    /\ stat["useful"] <= Cardinality({<<p.file, p.index>> : p \in BagToSet(Expected)})

(* The main thread always gets through: it returns, throws or crashes, and  *)
(* never waits for ever for a WaitGroup.                                    *)
IngestEnds == <>Ended
=============================================================================
