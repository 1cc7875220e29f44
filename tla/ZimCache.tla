------------------------------ MODULE ZimCache ------------------------------
(***************************************************************************)
(* The cluster cache of the archive reader (zim_reader.c: serve_blob,      *)
(* zstd_blob_copy and what they call), under several zim_worker tasks.     *)
(*                                                                         *)
(* A worker looks its cluster up under a mutex.  If it is not there the    *)
(* worker gives the mutex back, decompresses the cluster, takes the mutex  *)
(* again and puts the result into the cache, evicting what was used        *)
(* longest ago until it fits.  Two workers may miss the same cluster       *)
(* together.  A cluster beyond ZIM_CCACHE_MAX_CLUSTER, or a blob for which *)
(* no memory is left, is decompressed and sent without the cache.          *)
(*                                                                         *)
(* A buffer is allocated before its length is known and doubled while it   *)
(* is too small, and it keeps what it was allocated when the cache takes   *)
(* it; the cache counts the length of what is in it.                       *)
(***************************************************************************)
EXTENDS Integers, FiniteSetsExt

CONSTANTS
    Workers,     \* the zim_worker tasks (ZIM_WORKERS)
    Clusters,    \* the clusters of all archives, s_cc[i].z with s_cc[i].cluster
    Size,        \* Size[k]: bytes of cluster k decompressed
    SlotCount,   \* ZIM_CCACHE_SLOTS
    Budget,      \* ZIM_CCACHE_BUDGET
    MaxCluster,  \* ZIM_CCACHE_MAX_CLUSTER
    Start,       \* outcap at first, 262144
    MaxReads,    \* bound: blobs asked for
    MaxFaults    \* bound: reads or allocations that fail

ASSUME CacheAssumption ==
    /\ Size \in [Clusters -> Nat]
    /\ SlotCount \in Nat \ {0}
    /\ Budget \in Nat /\ MaxCluster \in Nat /\ Start \in Nat \ {0}
    /\ MaxReads \in Nat /\ MaxFaults \in Nat

Slots == 1..SlotCount

\* Values of the mutex and of the pointers that are nobody and nothing.
Nobody == "nobody"
Null == 0
ASSUME NobodyAssumption == Nobody \notin Workers /\ "garbage" \notin Clusters

VARIABLES
    slot,      \* s_cc: per slot its buffer, and the rest, which outlives the buffer
    total,     \* s_cc_total
    heap,      \* cluster buffers: buffer |-> the cluster in it, the bytes allocated
    holder,    \* who holds s_cc_mtx
    task,      \* per worker: where it is, its cluster, outcap, its buffer, the blob to send
    clock,     \* esp_timer_get_time(), counting the calls
    reads,     \* blobs asked for so far; number a buffer after its read
    faults

vars == <<slot, total, heap, holder, task, clock, reads, faults>>

Waiting == [pc |-> "idle", key |-> "-", cap |-> 0, buf |-> Null, read |-> 0, out |-> "-"]
Empty   == [buf |-> Null, key |-> "-", size |-> 0, stamp |-> 0]

Occupied == {s \in Slots : slot[s].buf # Null}

\* What memory holds where b points.
Contents(b) == IF b \in DOMAIN heap THEN heap[b].key ELSE "garbage"

\* A heap without the buffers in B.
Freed(B) == [b \in DOMAIN heap \ B |-> heap[b]]

Fault == faults < MaxFaults /\ faults' = faults + 1
NoFault == UNCHANGED faults

Goto(w, pc) == task' = [task EXCEPT ![w].pc = pc]
-----------------------------------------------------------------------------
(* A read that finds its cluster in the cache *)

\* zim_find has found the blob, in a compressed cluster.
Request(w, k) ==
    /\ task[w].pc = "idle" /\ reads < MaxReads
    /\ reads' = reads + 1
    /\ task' = [task EXCEPT ![w] = [Waiting EXCEPT !.pc = "look", !.key = k,
                                                   !.read = reads + 1]]
    /\ UNCHANGED <<slot, total, heap, holder, clock, faults>>

\* Mutant of Hits: the slot's buffer is not looked at.
HitsStale(k) == {s \in Slots : slot[s].key = k}
Hits(k) == {s \in Occupied : slot[s].key = k}

\* The first slot that matches is stamped, and the blob copied out of its
\* buffer while the mutex is held.  A blob number beyond the cluster's fails.
Hit(w) ==
    /\ task[w].pc = "look" /\ holder = Nobody
    /\ Hits(task[w].key) # {}
    /\ LET s == Min(Hits(task[w].key))
       IN  /\ slot' = [slot EXCEPT ![s].stamp = clock + 1]
           /\ \/ /\ task' = [task EXCEPT ![w].pc = "send",
                                         ![w].out = Contents(slot[s].buf)]
                 /\ NoFault
              \/ Goto(w, "stream") /\ Fault
              \/ Goto(w, "error") /\ Fault
    /\ clock' = clock + 1
    /\ UNCHANGED <<total, heap, holder, reads>>

Miss(w) ==
    /\ task[w].pc = "look" /\ holder = Nobody
    /\ Hits(task[w].key) = {}
    /\ task' = [task EXCEPT ![w].pc = "unpack", ![w].cap = Start]
    /\ UNCHANGED <<slot, total, heap, holder, clock, reads, faults>>
-----------------------------------------------------------------------------
(* A read that does not *)

\* The buffer is full and the frame not at its end: decompress_cluster doubles
\* the buffer, up to the cap.  Of a cluster that fills it exactly, the decoder
\* may or may not have seen the end.
Grow(w) ==
    /\ task[w].pc = "unpack" /\ Size[task[w].key] >= task[w].cap
    /\ task[w].cap < MaxCluster
    /\ task' = [task EXCEPT ![w].cap = Min({2 * @, MaxCluster})]
    /\ UNCHANGED <<slot, total, heap, holder, clock, reads, faults>>

\* The whole cluster, in a buffer that keeps its outcap bytes, then slice_blob
\* from it; the cache takes the buffer whatever the slice returned.
Unpack(w) ==
    /\ task[w].pc = "unpack" /\ Size[task[w].key] <= task[w].cap
    /\ heap' = [b \in DOMAIN heap \cup {task[w].read} |->
                   IF b = task[w].read THEN [key |-> task[w].key, cap |-> task[w].cap]
                                       ELSE heap[b]]
    /\ \/ /\ task' = [task EXCEPT ![w].pc = "lock", ![w].cap = 0,
                                  ![w].buf = task[w].read, ![w].out = task[w].key]
          /\ NoFault
       \/ /\ task' = [task EXCEPT ![w].pc = "lock", ![w].cap = 0, ![w].buf = task[w].read]
          /\ Fault
    /\ UNCHANGED <<slot, total, holder, clock, reads>>

\* The buffer is full at the cap: ESP_ERR_NO_MEM.
UnpackTooBig(w) ==
    /\ task[w].pc = "unpack" /\ Size[task[w].key] >= task[w].cap
    /\ task[w].cap >= MaxCluster
    /\ task' = [task EXCEPT ![w].pc = "stream", ![w].cap = 0]
    /\ UNCHANGED <<slot, total, heap, holder, clock, reads, faults>>

\* A buffer not allocated or not grown, a failed read, a frame that does not
\* decode, of any cluster: ESP_FAIL, everything freed.
UnpackFails(w) ==
    /\ task[w].pc = "unpack"
    /\ task' = [task EXCEPT ![w].pc = "error", ![w].cap = 0] /\ Fault
    /\ UNCHANGED <<slot, total, heap, holder, clock, reads>>

Lock(w) ==
    /\ task[w].pc = "lock" /\ holder = Nobody
    /\ holder' = w
    /\ Goto(w, "room")
    /\ UNCHANGED <<slot, total, heap, clock, reads, faults>>

Fits(w) == total + Size[task[w].key] <= Budget

Oldest(S) == CHOOSE s \in S : \A t \in S : slot[s].stamp <= slot[t].stamp

\* One round of the loop that makes room.
EvictForRoom(w) ==
    /\ task[w].pc = "room" /\ ~Fits(w) /\ Occupied # {}
    /\ LET s == Oldest(Occupied)
       IN  /\ total' = total - slot[s].size
           /\ heap' = Freed({slot[s].buf})
           /\ slot' = [slot EXCEPT ![s].buf = Null]
    /\ UNCHANGED <<holder, task, clock, reads, faults>>

\* Every slot is taken: the one used longest ago is.
EvictForSlot(w) ==
    /\ task[w].pc = "room" /\ Fits(w) /\ Occupied = Slots
    /\ LET s == Oldest(Slots)
       IN  /\ total' = total - slot[s].size
           /\ heap' = Freed({slot[s].buf})
           /\ slot' = [slot EXCEPT ![s].buf = Null]
    /\ UNCHANGED <<holder, task, clock, reads, faults>>

\* Mutant of Entry: the buffer's size is not recorded.
EntrySizeless(t, now) == [buf |-> t.buf, key |-> t.key, size |-> 0, stamp |-> now]
Entry(t, now) == [buf |-> t.buf, key |-> t.key, size |-> Size[t.key], stamp |-> now]

\* Mutant of AfterStore: the worker keeps its pointer, and frees it below.
AfterStoreKept(t) == [t EXCEPT !.pc = "free"]
AfterStore(t) == [t EXCEPT !.pc = "free", !.buf = Null]

\* Mutant of Released: the mutex is not given back after storing.
ReleasedNot(w) == w
Released(w) == Nobody

\* The first free slot, the ownership of the buffer, and the mutex.  Should
\* the budget be too small even for this cluster alone, the cache declines.
Store(w) ==
    /\ task[w].pc = "room" /\ (Fits(w) \/ Occupied = {}) /\ Occupied # Slots
    /\ IF Fits(w)
       THEN LET s == Min(Slots \ Occupied)
            IN  /\ slot' = [slot EXCEPT ![s] = Entry(task[w], clock + 1)]
                /\ total' = total + Size[task[w].key]
                /\ task' = [task EXCEPT ![w] = AfterStore(@)]
                /\ clock' = clock + 1
       ELSE Goto(w, "free") /\ UNCHANGED <<slot, total, clock>>
    /\ holder' = Released(w)
    /\ UNCHANGED <<heap, reads, faults>>

\* free(cbuf), a null pointer unless the cache declined, and the end of cbuf;
\* then the blob, or the lack of it.
Free(w) ==
    /\ task[w].pc = "free"
    /\ heap' = Freed({task[w].buf})
    /\ \E pc \in IF task[w].out # "-" THEN {"send"} ELSE {"stream", "error"} :
          task' = [task EXCEPT ![w].pc = pc, ![w].buf = Null]
    /\ UNCHANGED <<slot, total, holder, clock, reads, faults>>
-----------------------------------------------------------------------------
(* The answer: the blob, send_zstd_stream, or 500 *)

Answer(w) ==
    /\ task[w].pc \in {"send", "stream", "error"}
    /\ task' = [task EXCEPT ![w] = Waiting]
    /\ UNCHANGED <<slot, total, heap, holder, clock, reads, faults>>
-----------------------------------------------------------------------------
Init ==
    /\ slot = [s \in Slots |-> Empty] /\ total = 0
    /\ heap = [b \in {} |-> Null] /\ holder = Nobody
    /\ task = [w \in Workers |-> Waiting]
    /\ clock = 0 /\ reads = 0 /\ faults = 0

Work(w) ==
    \/ Hit(w) \/ Miss(w) \/ Grow(w) \/ Unpack(w) \/ UnpackTooBig(w) \/ UnpackFails(w)
    \/ Lock(w) \/ EvictForRoom(w) \/ EvictForSlot(w) \/ Store(w) \/ Free(w)
    \/ Answer(w)

Next == \E w \in Workers : Work(w) \/ \E k \in Clusters : Request(w, k)

\* Tasks of one priority share the processor and the mutex is handed over in
\* the order it was asked for: a worker waiting for it gets it (strong).
Fairness ==
    \A w \in Workers : WF_vars(Work(w)) /\ SF_vars(Hit(w) \/ Miss(w) \/ Lock(w))

Spec == Init /\ [][Next]_vars
FairSpec == Spec /\ Fairness
-----------------------------------------------------------------------------
(* Properties *)

Stages == {"idle", "look", "unpack", "lock", "room", "free", "send", "stream", "error"}
Keys == Clusters \cup {"-"}

\* The shape of the state; the mutex is held exactly by the worker that is
\* making room, one at a time.
TypeOK ==
    /\ slot \in [Slots -> [buf : Nat, key : Keys, size : Nat, stamp : Nat]]
    /\ total \in Int /\ clock \in Nat /\ reads \in Nat /\ faults \in Nat
    /\ DOMAIN heap \subseteq 1..reads
    /\ \A b \in DOMAIN heap : heap[b] \in [key : Clusters, cap : Nat]
    /\ task \in [Workers -> [pc : Stages, key : Keys, cap : Nat, buf : Nat, read : Nat,
                             out : Keys \cup {"garbage"}]]
    /\ holder \in Workers \cup {Nobody}
    /\ \A w \in Workers : task[w].pc = "room" <=> holder = w

\* What a slot keeps: the bytes of its cluster, and the bytes allocated for them.
Bytes(s) == IF s \in Occupied THEN Size[Contents(slot[s].buf)] ELSE 0
Allocated(s) == IF s \in Occupied THEN heap[slot[s].buf].cap ELSE 0

AddUp(f) ==
    LET upTo[i \in 0..SlotCount] == IF i = 0 THEN 0 ELSE upTo[i - 1] + f[i]
    IN  upTo[SlotCount]

\* The sum that zstd_blob_copy keeps is the lengths of the clusters in the cache,
\* and it is within the budget, through hits, races and both ways of evicting.
\* The memory behind it is more, the buffers being as long as they were
\* allocated: up to twice the sum, and a first allocation for every slot.
Accounted ==
    /\ total = AddUp([s \in Slots |-> Bytes(s)])
    /\ total <= Budget
    /\ AddUp([s \in Slots |-> Allocated(s)]) <= 2 * total + SlotCount * Start

Held(w) == task[w].buf

\* Every cluster buffer has one owner, a slot of the cache or a worker ("if the
\* cache declined it"), and every owner's buffer is allocated: no leak, no
\* second free, no use of a freed buffer.
OneOwner ==
    /\ \A s, t \in Occupied : slot[s].buf = slot[t].buf => s = t
    /\ \A w \in Workers, s \in Occupied : Held(w) # slot[s].buf
    /\ \A v, w \in Workers : Held(v) = Held(w) /\ Held(v) # Null => v = w
    /\ DOMAIN heap = {slot[s].buf : s \in Occupied} \cup ({Held(w) : w \in Workers} \ {Null})

\* The page sent is cut from the cluster that was asked for, whatever was
\* evicted, reused or stored in between.
RightBlob == \A w \in Workers : task[w].pc = "send" => task[w].out = task[w].key

\* Every read ends, with an answer, and the worker is free for the next one.
EveryReadEnds == \A w \in Workers : task[w].pc # "idle" ~> task[w].pc = "idle"
=============================================================================
