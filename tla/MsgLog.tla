------------------------------- MODULE MsgLog -------------------------------
(***************************************************************************)
(* The hub's message log (msg_log.c) and a browser that follows it         *)
(* (api_messages_handler and the script of messages.html).                 *)
(*                                                                         *)
(* Appending numbers a message, writes it to the newest chunk file on the  *)
(* SD card, rolls over to a new chunk and deletes the oldest ones when a   *)
(* limit is reached, and puts the message into a ring in RAM, all under    *)
(* one mutex.  A browser asks for what is newer than its cursor and gets   *)
(* it from the ring.  The hub may lose power at any step; it then recovers *)
(* the next number from the newest chunk.                                  *)
(*                                                                         *)
(* Every record has one size here, so sizes count records.                 *)
(***************************************************************************)
EXTENDS Integers, FiniteSetsExt, SequencesExt

CONSTANTS
    RingCap,     \* MSG_RING_CAP
    PollMax,     \* messages one answer holds (api_messages_handler: 100)
    ChunkMax,    \* MSG_CHUNK_MAX_BYTES
    TotalMax,    \* MSG_TOTAL_MAX_BYTES
    MaxAppends,  \* bound: messages appended
    MaxFaults,   \* bound: faults
    FaultKinds   \* faults that may happen, a subset of Faults

\* Power lost; power lost with a new chunk file created but nothing in it;
\* the file does not open; the card is full; a request or an answer is lost;
\* the page is loaded anew.
Faults == {"power", "empty", "nofile", "full", "net", "reload"}

ASSUME LogAssumption ==
    /\ RingCap \in Nat \ {0} /\ PollMax \in Nat \ {0}
    /\ ChunkMax \in Nat \ {0} /\ TotalMax \in Nat /\ ChunkMax <= TotalMax
    /\ MaxAppends \in Nat /\ MaxFaults \in Nat /\ FaultKinds \subseteq Faults

VARIABLES
    nextId,      \* s_next_id
    ring,        \* s_ring from oldest to newest, at most RingCap records
    chunkNo, chunkSize,
    disk,        \* the chunk files: number |-> records in it
    job,         \* the append that holds the mutex: [step, rec]
    page,        \* the browser: [since, shown], its cursor and what it shows
    flight,      \* its two requests on their way: [stage, since, list]; the
                 \* page shows the messages of an answer in its order
    appended,    \* history: messages appended so far
    refused,     \* history: the card did not take the latest record
    damaged,     \* history: power was lost while numbers that were given out
                 \* are not on the card, or left a chunk that is empty
    cuts,        \* history: power losses
    faults

vars == <<nextId, ring, chunkNo, chunkSize, disk, job, page, flight,
          appended, refused, damaged, cuts, faults>>

log == <<nextId, ring, chunkNo, chunkSize, disk, job, appended, refused>>

\* n (history) tells messages apart; the program only has the id.
Record(id, n) == [id |-> id, n |-> n]
Records == [id : Nat, n : Nat]
None == Record(0, 0)
Idle == [step |-> "idle", rec |-> None]

Slots == {1, 2}
NoRequest == [stage |-> "none", since |-> 0, list |-> {}]

Fault(kind) == kind \in FaultKinds /\ faults < MaxFaults /\ faults' = faults + 1
-----------------------------------------------------------------------------
(* msg_log_append, step by step *)

\* The mutex is taken and the message numbered.
Begin ==
    /\ job.step = "idle" /\ appended < MaxAppends
    /\ appended' = appended + 1
    /\ job' = [step |-> "write", rec |-> Record(nextId, appended + 1)]
    /\ nextId' = nextId + 1
    /\ UNCHANGED <<ring, chunkNo, chunkSize, disk, page, flight, refused, damaged, cuts,
                   faults>>

Chunk(d, no) == IF no \in DOMAIN d THEN d[no] ELSE <<>>
WithChunk(d, no, q) == [k \in DOMAIN d \cup {no} |-> IF k = no THEN q ELSE d[k]]

NextStep(size) == IF size >= ChunkMax THEN "roll" ELSE "insert"

\* fopen "ab", fwrite, fclose: neither result is reported to the caller.
Write ==
    /\ job.step = "write"
    /\ \/ /\ disk' = WithChunk(disk, chunkNo, Append(Chunk(disk, chunkNo), job.rec))
          /\ chunkSize' = chunkSize + 1
          /\ refused' = FALSE
          /\ UNCHANGED faults
       \/ /\ Fault("nofile") /\ refused' = TRUE
          /\ UNCHANGED <<disk, chunkSize>>
       \/ /\ Fault("full") /\ refused' = TRUE
          /\ disk' = WithChunk(disk, chunkNo, Chunk(disk, chunkNo))
          /\ chunkSize' = chunkSize + 1
    /\ job' = [job EXCEPT !.step = NextStep(chunkSize')]
    /\ UNCHANGED <<nextId, ring, chunkNo, page, flight, appended, damaged, cuts>>

Roll ==
    /\ job.step = "roll"
    /\ chunkNo' = chunkNo + 1 /\ chunkSize' = 0
    /\ job' = [job EXCEPT !.step = "cap"]
    /\ UNCHANGED <<nextId, ring, disk, page, flight, appended, refused, damaged, cuts,
                   faults>>

\* Where there is a record on the card: the chunk, and the place in it.
Places(d) == UNION {{no} \X (1..Len(d[no])) : no \in DOMAIN d}
TotalSize(d) == Cardinality(Places(d))

\* Mutant of OverCap: the last of two chunks counts as the only one.
OverCapLate(d) == TotalSize(d) > TotalMax + ChunkMax /\ Cardinality(DOMAIN d) > 1
OverCap(d) == TotalSize(d) > TotalMax /\ Cardinality(DOMAIN d) > 1

\* enforce_total_cap: one round of its loop deletes the oldest chunk.
DeleteOldest ==
    /\ job.step = "cap" /\ OverCap(disk)
    /\ disk' = [no \in DOMAIN disk \ {Min(DOMAIN disk)} |-> disk[no]]
    /\ UNCHANGED <<nextId, ring, chunkNo, chunkSize, job, page, flight, appended,
                   refused, damaged, cuts, faults>>

CapDone ==
    /\ job.step = "cap" /\ ~OverCap(disk)
    /\ job' = [job EXCEPT !.step = "insert"]
    /\ UNCHANGED <<nextId, ring, chunkNo, chunkSize, disk, page, flight, appended,
                   refused, damaged, cuts, faults>>

\* The slot after the newest is overwritten once the ring is full.
Pushed(q, r) == IF Len(q) < RingCap THEN Append(q, r) ELSE Append(Tail(q), r)

\* The ring gets the message and the mutex is given back.
Insert ==
    /\ job.step = "insert"
    /\ ring' = Pushed(ring, job.rec)
    /\ job' = Idle
    /\ UNCHANGED <<nextId, chunkNo, chunkSize, disk, page, flight, appended,
                   refused, damaged, cuts, faults>>
-----------------------------------------------------------------------------
(* The browser *)

\* poll(): by a timer, and again after a send; nothing keeps two apart.
Ask(s) ==
    /\ flight[s].stage = "none"
    /\ flight' = [flight EXCEPT ![s] = [NoRequest EXCEPT !.stage = "asked",
                                                         !.since = page.since]]
    /\ UNCHANGED <<log, page, damaged, cuts, faults>>

Newer(since) == {i \in 1..Len(ring) : ring[i].id > since}

\* Mutant of Since: the newest PollMax instead of the oldest.
SinceNewest(since) ==
    LET new == Newer(since)
    IN  {ring[i] : i \in {j \in new : Cardinality({k \in new : k > j}) < PollMax}}
\* msg_log_since: from the oldest on, until the answer is full.
Since(since) ==
    LET new == Newer(since)
    IN  {ring[i] : i \in {j \in new : Cardinality({k \in new : k < j}) < PollMax}}

\* The mutex is free: an append in progress is waited for.
Answer(s) ==
    /\ flight[s].stage = "asked" /\ job.step = "idle"
    /\ flight' = [flight EXCEPT ![s].stage = "answered",
                                ![s].list = Since(flight[s].since)]
    /\ UNCHANGED <<log, page, damaged, cuts, faults>>

\* Mutant of CursorAfter: the cursor stays behind.
CursorStuck(since, list) == since
CursorAfter(since, list) == Max({since} \cup {r.id : r \in list})

\* Every message of the answer gets a bubble, the cursor only moves forward.
Show(s) ==
    /\ flight[s].stage = "answered"
    /\ page' = [since |-> CursorAfter(page.since, flight[s].list),
                shown |-> page.shown \cup {r.n : r \in flight[s].list}]
    /\ flight' = [flight EXCEPT ![s] = NoRequest]
    /\ UNCHANGED <<log, damaged, cuts, faults>>

\* fetch(...).catch(function () {}).
LoseRequest(s) ==
    /\ flight[s].stage # "none" /\ Fault("net")
    /\ flight' = [flight EXCEPT ![s] = NoRequest]
    /\ UNCHANGED <<log, page, damaged, cuts>>

Reload ==
    /\ Fault("reload")
    /\ page' = [since |-> 0, shown |-> {}]
    /\ flight' = [s \in Slots |-> NoRequest]
    /\ UNCHANGED <<log, damaged, cuts>>
-----------------------------------------------------------------------------
(* Power *)

Newest(d) == Max({1} \cup DOMAIN d)

\* Mutant of RecoveredId: the highest id is not passed.
RecoveredIdSame(d) == Max({1} \cup {r.id : r \in ToSet(Chunk(d, Newest(d)))})
\* One more than the highest id in the newest chunk (its last 4096 bytes).
RecoveredId(d) == Max({1} \cup {r.id + 1 : r \in ToSet(Chunk(d, Newest(d)))})

\* msg_log_init after a power loss that left the card as d.
Recover(d) ==
    /\ disk' = d
    /\ chunkNo' = Newest(d) /\ chunkSize' = Len(Chunk(d, Newest(d)))
    /\ nextId' = RecoveredId(d)
    /\ ring' = <<>> /\ job' = Idle
    /\ cuts' = cuts + 1 /\ refused' = FALSE
    /\ flight' = [s \in Slots |->
                     IF flight[s].stage = "asked" THEN NoRequest ELSE flight[s]]
    /\ UNCHANGED <<page, appended>>

PowerLoss ==
    \/ Fault("power") /\ Recover(disk) /\ damaged' = (damaged \/ refused)
    \/ /\ Fault("empty") /\ job.step = "write" /\ chunkNo \notin DOMAIN disk
       /\ Recover(WithChunk(disk, chunkNo, <<>>))
       /\ damaged' = TRUE
-----------------------------------------------------------------------------
Init ==
    /\ nextId = 1 /\ ring = <<>> /\ chunkNo = 1 /\ chunkSize = 0
    /\ disk = [no \in {} |-> <<>>] /\ job = Idle
    /\ page = [since |-> 0, shown |-> {}]
    /\ flight = [s \in Slots |-> NoRequest]
    /\ appended = 0 /\ refused = FALSE /\ damaged = FALSE /\ cuts = 0 /\ faults = 0

AppendStep == Write \/ Roll \/ DeleteOldest \/ CapDone \/ Insert

Next ==
    \/ Begin \/ AppendStep
    \/ \E s \in Slots : Ask(s) \/ Answer(s) \/ Show(s) \/ LoseRequest(s)
    \/ Reload \/ PowerLoss

\* The page's timer keeps firing, the server answers, an append completes.
\* Strong for Answer: other appends may hold the mutex in between.
Fairness ==
    /\ WF_vars(AppendStep)
    /\ \A s \in Slots : WF_vars(Ask(s)) /\ SF_vars(Answer(s)) /\ WF_vars(Show(s))

Spec == Init /\ [][Next]_vars
FairSpec == Spec /\ Fairness
-----------------------------------------------------------------------------
(* Properties *)

OnDisk == UNION {ToSet(disk[no]) : no \in DOMAIN disk}

\* The shape of the state; the ring never holds more than MSG_RING_CAP.
TypeOK ==
    /\ nextId \in Nat /\ chunkNo \in Nat /\ chunkSize \in Nat
    /\ ring \in Seq(Records) /\ Len(ring) <= RingCap
    /\ DOMAIN disk \subseteq Nat /\ \A no \in DOMAIN disk : disk[no] \in Seq(Records)
    /\ job \in [step : {"idle", "write", "roll", "cap", "insert"}, rec : Records]
    /\ page.since \in Nat /\ page.shown \subseteq Nat
    /\ flight \in [Slots -> [stage : {"none", "asked", "answered"}, since : Nat,
                             list : SUBSET Records]]
    /\ appended \in Nat /\ refused \in BOOLEAN /\ damaged \in BOOLEAN
    /\ cuts \in Nat /\ faults \in Nat

\* Numbers grow along the ring and no message waiting for its slot is behind
\* them: what msg_log_since returns oldest first is also in order of ids.
RingSorted ==
    /\ \A i, j \in 1..Len(ring) : i < j => ring[i].id < ring[j].id
    /\ job.step # "idle" => \A i \in 1..Len(ring) : ring[i].id < job.rec.id

\* The next number is beyond every number on the card, across chunk changes,
\* deleted chunks, records the card refused and power losses at any step
\* (msg_log_init recovers it from the newest chunk alone).  Excepted is what
\* follows a power loss while the card lacks the latest record, or which
\* left an empty chunk behind.
NextIdBeyondDisk == \A r \in OnDisk : r.id < nextId
IdsAhead == damaged \/ NextIdBeyondDisk

\* A page's cursor never passes a message of the ring that the page does not
\* show, with two polls in flight, answers cut to their limit or lost, records
\* that the card refused, and power losses in between; excepted is what follows
\* a power loss while the card lacks the latest record: its number is given
\* out again, to pages whose cursor is beyond it.
NoSkip ==
    damaged \/ \A i \in 1..Len(ring) : ring[i].id <= page.since => ring[i].n \in page.shown

\* The card never holds more than the cap and one chunk, and a record for
\* every power loss that came between a write and its roll-over.
DiskBounded == TotalSize(disk) <= TotalMax + ChunkMax + cuts

\* A page that keeps polling comes to show everything the ring still holds.
CaughtUp == <>[](damaged \/ \A i \in 1..Len(ring) : ring[i].n \in page.shown)
=============================================================================
