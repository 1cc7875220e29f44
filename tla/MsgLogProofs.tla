---------------------------- MODULE MsgLogProofs ----------------------------
(***************************************************************************)
(* Proofs about the hub's message log for every ring, chunk and answer     *)
(* size, any number of messages and of faults: the number the hub recovers *)
(* after a power loss is beyond all it ever gave out (IdsAhead), a browser *)
(* that follows the log skips nothing the ring still held when it asked    *)
(* (NoSkip), and the card stays within its cap (DiskBounded).              *)
(*                                                                         *)
(* The heart of the invariant is Recoverable: at every step of an append   *)
(* the newest chunk alone gives the number of the next message, unless the *)
(* card refused the latest record.  Once a record is written again it does *)
(* so again, because every number on the card is older (DiskBehind).       *)
(***************************************************************************)
EXTENDS MsgLog, SequenceTheorems, FiniteSetTheorems, TLAPS

\* The numbers given out, also those of a message that is not yet in the ring.
Numbered ==
    /\ nextId \in 1..(appended + 1)
    /\ \A r \in OnDisk : r.id <= appended
    /\ \A s \in Slots : \A r \in flight[s].list : r.id <= appended
    /\ job.step # "idle" => nextId = job.rec.id + 1 /\ job.rec.id >= 1

\* Chunks are written in the order of their numbers.
ChunksUpTo == chunkNo >= 1 /\ DOMAIN disk \subseteq 1..chunkNo

\* The number of the next record that is written.
NextWritten == IF job.step = "write" THEN job.rec.id ELSE nextId

\* Every number on the card is older, whatever the card refused.
DiskBehind == \A no \in DOMAIN disk : \A r \in ToSet(disk[no]) : r.id < NextWritten

\* What a power loss now would recover.
Recoverable == RecoveredId(disk) = NextWritten

\* Whatever the ring and the browser know is older than this.
Unknown == IF job.step = "idle" THEN nextId ELSE job.rec.id

Answered == {s \in Slots : flight[s].stage = "answered"}

BrowserBehind ==
    /\ page.since < Unknown
    /\ \A s \in Slots : flight[s].since <= page.since
    /\ \A s \in Answered : \A r \in flight[s].list : r.id < Unknown

\* An answer on its way has all of the ring from where it was asked for up to
\* its last message.
Covering ==
    \A s \in Answered, i \in 1..Len(ring) : \A r \in flight[s].list :
        flight[s].since < ring[i].id /\ ring[i].id <= r.id => ring[i] \in flight[s].list

Shown == \A i \in 1..Len(ring) : ring[i].id <= page.since => ring[i].n \in page.shown

\* The ids of the ring were given out; 0 is none of them.
RingKnown == \A i \in 1..Len(ring) : 1 <= ring[i].id /\ ring[i].id < Unknown

LogInv ==
    /\ TypeOK /\ Numbered /\ ChunksUpTo /\ RingSorted /\ RingKnown
    /\ ~damaged => DiskBehind /\ (~refused => Recoverable) /\ BrowserBehind /\ Covering /\ Shown
-----------------------------------------------------------------------------
(* Minimum and maximum *)

(* A set of natural numbers that is not empty has a minimum. *)
LEMMA MinExists ==
    ASSUME NEW T, T \subseteq Nat, T # {}
    PROVE  Min(T) \in T /\ \A y \in T : Min(T) <= y
<1> DEFINE Below(x) == 0..x
           R == StrictSubsetOrdering(Nat)
           B == {Below(x) : x \in T}
<1>1. \E b \in B : \A c \in B : ~(<<c, b>> \in R)
  <2>1. \A x \in T : IsFiniteSet(Below(x)) /\ Below(x) \subseteq Nat
    BY FS_Interval
  <2>2. B \subseteq FiniteSubsetsOf(Nat) /\ B # {}
    BY <2>1 DEF FiniteSubsetsOf
  <2> QED BY <2>2, FS_StrictSubsetOrderingWellFounded, WFMin
<1>2. PICK x \in T : \A y \in T : ~(<<Below(y), Below(x)>> \in R)
  BY <1>1
<1>3. \A y \in T : x =< y
  <2> SUFFICES ASSUME NEW y \in T, y < x PROVE FALSE
    OBVIOUS
  <2>1. Below(y) \subseteq Below(x) /\ x \in Below(x) /\ x \notin Below(y)
    OBVIOUS
  <2>2. <<Below(y), Below(x)>> \in R
    BY <2>1 DEF StrictSubsetOrdering
  <2> QED BY <1>2, <2>2
<1> QED BY <1>3 DEF Min

(* One that has a bound has a maximum. *)
LEMMA MaxExists ==
    ASSUME NEW T, T \subseteq Nat, T # {}, NEW n \in Nat, \A x \in T : x <= n
    PROVE  Max(T) \in T /\ \A y \in T : y <= Max(T)
<1> DEFINE D == {n - x : x \in T}
<1>1. D \subseteq Nat /\ D # {}
  <2>1. \A x \in T : n - x \in Nat
    OBVIOUS
  <2> QED BY <2>1
<1>2. Min(D) \in D /\ \A d \in D : Min(D) <= d
  BY <1>1, MinExists
<1>3. PICK x \in T : Min(D) = n - x
  BY <1>2
<1>4. \A y \in T : x >= y
  <2> SUFFICES ASSUME NEW y \in T PROVE x >= y
    OBVIOUS
  <2>1. n - y \in D
    OBVIOUS
  <2>2. n - x <= n - y /\ x \in Nat /\ y \in Nat
    BY <1>2, <1>3, <2>1
  <2> QED BY <2>2
<1>5. Max(T) \in T /\ \A y \in T : Max(T) >= y
  BY <1>4 DEF Max
<1>6. \A y \in T : Max(T) \in Nat /\ y \in Nat
  BY <1>5
<1> QED BY <1>5, <1>6

LEMMA MaxIs ==
    ASSUME NEW T, T \subseteq Nat, NEW m \in T, \A y \in T : y <= m
    PROVE  Max(T) = m
<1>1. \A y \in T : m >= y
  OBVIOUS
<1>2. Max(T) \in T /\ \A y \in T : Max(T) >= y
  BY <1>1 DEF Max
<1>3. Max(T) \in Nat /\ m \in Nat /\ Max(T) >= m /\ m >= Max(T)
  BY <1>1, <1>2
<1> QED BY <1>3

-----------------------------------------------------------------------------
(* Chunks and the number they give *)

\* A card's chunks, numbered up to some number, with ids up to some id.
Card(d, no, id) ==
    /\ DOMAIN d \subseteq 1..no
    /\ \A k \in DOMAIN d : d[k] \in Seq(Records)
    /\ \A k \in DOMAIN d : \A r \in ToSet(d[k]) : r.id <= id

LEMMA NewestIs ==
    ASSUME NEW d, NEW no \in Nat, NEW id \in Nat, Card(d, no, id)
    PROVE  /\ Newest(d) \in {1} \cup DOMAIN d /\ Newest(d) \in Nat
           /\ \A k \in DOMAIN d : k <= Newest(d)
           /\ DOMAIN d # {} => Newest(d) \in DOMAIN d
<1> DEFINE T == {1} \cup DOMAIN d
<1>1. T \subseteq Nat /\ T # {} /\ (\A x \in T : x <= no + 1) /\ no + 1 \in Nat
  BY DEF Card
<1>2. Max(T) \in T /\ \A y \in T : y <= Max(T)
  BY <1>1, MaxExists
<1>3. ASSUME DOMAIN d # {} PROVE Max(T) \in DOMAIN d
  <2>1. PICK k \in DOMAIN d : TRUE
    BY <1>3
  <2>2. k \in Nat /\ k >= 1 /\ k <= Max(T)
    <3>1. k \in 1..no
      BY DEF Card
    <3>2. k <= Max(T)
      BY <1>2
    <3> QED BY <3>1, <3>2
  <2>3. Max(T) = 1 => k = 1
    BY <2>2
  <2> QED BY <1>2, <2>3
<1> QED BY <1>1, <1>2, <1>3 DEF Newest

LEMMA ChunkIs ==
    ASSUME NEW d, NEW no \in Nat, NEW id \in Nat, Card(d, no, id), NEW k
    PROVE  /\ Chunk(d, k) \in Seq(Records)
           /\ \A r \in ToSet(Chunk(d, k)) : r \in Records /\ r.id \in Nat /\ r.id <= id
<1>1. Chunk(d, k) \in Seq(Records)
  BY DEF Card, Chunk
<1>2. \A q \in Seq(Records) : \A r \in ToSet(q) : r \in Records
  BY DEF ToSet
<1>3. \A r \in Records : r.id \in Nat
  BY DEF Records
<1>4. \A r \in ToSet(<<>>) : FALSE
  BY DEF ToSet
<1> QED BY <1>1, <1>2, <1>3, <1>4 DEF Card, Chunk

LEMMA RecoveredIs ==
    ASSUME NEW d, NEW no \in Nat, NEW id \in Nat, Card(d, no, id)
    PROVE  /\ RecoveredId(d) \in 1..(id + 1)
           /\ \A r \in ToSet(Chunk(d, Newest(d))) : r.id < RecoveredId(d)
<1> DEFINE C == ToSet(Chunk(d, Newest(d)))
           T == {1} \cup {r.id + 1 : r \in C}
<1>1. \A r \in C : r.id \in Nat /\ r.id <= id
  BY ChunkIs
<1> HIDE DEF C
<1>2. T \subseteq Nat /\ T # {} /\ \A x \in T : 1 <= x /\ x <= id + 1
  BY <1>1
<1>3. Max(T) \in T /\ \A y \in T : y <= Max(T)
  <2>1. id + 1 \in Nat
    OBVIOUS
  <2> HIDE DEF T
  <2> QED BY <1>2, <2>1, MaxExists
<1>4. \A r \in C : r.id < Max(T)
  <2> SUFFICES ASSUME NEW r \in C PROVE r.id < Max(T)
    OBVIOUS
  <2>1. r.id + 1 \in T
    OBVIOUS
  <2> QED BY <1>1, <1>2, <1>3, <2>1
<1>5. RecoveredId(d) = Max(T)
  BY DEF RecoveredId, C
<1>6. Max(T) \in 1..(id + 1)
  BY <1>2, <1>3
<1> QED BY <1>4, <1>5, <1>6 DEF C
-----------------------------------------------------------------------------
(* What the lemmas above give in any state of the invariant *)

LEMMA CardOf == TypeOK /\ Numbered /\ ChunksUpTo => Card(disk, chunkNo, appended)
BY DEF TypeOK, Numbered, ChunksUpTo, Card, OnDisk

LEMMA CardNext ==
    ASSUME TypeOK', ChunksUpTo', \A k \in DOMAIN disk' : \A r \in ToSet(disk'[k]) : r.id <= appended'
    PROVE  Card(disk', chunkNo', appended') /\ \A r \in OnDisk' : r.id <= appended'
BY DEF TypeOK, ChunksUpTo, Card, OnDisk

LEMMA UnknownIs ==
    ASSUME TypeOK, Numbered
    PROVE  /\ Unknown \in Nat /\ Unknown <= nextId /\ nextId \in Nat /\ appended \in Nat
           /\ nextId <= appended + 1 /\ nextId >= 1
           /\ job.rec.id \in Nat /\ job.rec.n \in Nat /\ job.rec \in Records
           /\ job.step # "idle" => Unknown = job.rec.id /\ nextId = job.rec.id + 1
           /\ job.step = "idle" => Unknown = nextId
<1>1. job.rec \in Records /\ nextId \in Nat /\ appended \in Nat
  BY DEF TypeOK
<1>2. job.rec.id \in Nat /\ job.rec.n \in Nat
  BY <1>1 DEF Records
<1> QED BY <1>1, <1>2 DEF Numbered, Unknown

\* Steps that leave the browser alone.
LEMMA BrowserKept ==
    ASSUME LogInv, UNCHANGED <<page, flight>>, Unknown' \in Nat, Unknown' >= Unknown, ~damaged
    PROVE  BrowserBehind'
<1>1. Unknown \in Nat /\ page.since \in Nat
  BY UnknownIs DEF LogInv, TypeOK
<1>2. \A s \in Slots : \A r \in flight[s].list : r.id \in Nat
  BY DEF LogInv, TypeOK, Records
<1>3. BrowserBehind
  BY DEF LogInv
<1> QED BY <1>1, <1>2, <1>3 DEF BrowserBehind, Answered

-----------------------------------------------------------------------------
(* The steps of an append *)

LEMMA InitInv == Init => LogInv
<1> SUFFICES ASSUME Init PROVE LogInv
  OBVIOUS
<1> USE DEF Init
<1>1. None \in Records /\ <<>> \in Seq(Records)
  BY DEF None, Record, Records
<1>2. TypeOK
  <2>1. ring \in Seq(Records) /\ Len(ring) <= RingCap
    BY <1>1, LogAssumption
  <2>2. DOMAIN disk \subseteq Nat /\ \A no \in DOMAIN disk : disk[no] \in Seq(Records)
    OBVIOUS
  <2>3. job \in [step : {"idle", "write", "roll", "cap", "insert"}, rec : Records]
    BY <1>1 DEF Idle
  <2>4. NoRequest \in [stage : {"none", "asked", "answered"}, since : Nat, list : SUBSET Records]
    BY DEF NoRequest
  <2> QED BY <2>1, <2>2, <2>3, <2>4 DEF TypeOK
<1>3. OnDisk = {}
  BY DEF OnDisk
<1>4. Numbered /\ ChunksUpTo /\ RingSorted /\ RingKnown /\ DiskBehind /\ Covering /\ Shown
  BY <1>3 DEF Numbered, ChunksUpTo, RingSorted, RingKnown, DiskBehind, Covering, Shown, Idle, NoRequest
<1>5. Card(disk, 0, 0)
  BY DEF Card
<1>6. Recoverable
  BY <1>5, RecoveredIs DEF Recoverable, NextWritten, Idle
<1>7. BrowserBehind
  BY DEF BrowserBehind, Unknown, Idle, NoRequest, Answered
<1> QED BY <1>2, <1>4, <1>6, <1>7 DEF LogInv

LEMMA BeginInv == LogInv /\ Begin => LogInv'
<1> SUFFICES ASSUME LogInv, Begin PROVE LogInv'
  OBVIOUS
<1>1. /\ job.step = "idle" /\ nextId' = nextId + 1 /\ appended' = appended + 1
      /\ job' = [step |-> "write", rec |-> Record(nextId, appended + 1)]
      /\ UNCHANGED <<ring, chunkNo, chunkSize, disk, page, flight, refused, damaged, cuts, faults>>
  BY DEF Begin
<1>2. TypeOK /\ Numbered /\ ChunksUpTo /\ RingSorted
  BY DEF LogInv
<1>3. job'.rec \in Records /\ job'.rec.id = nextId /\ job'.step = "write"
  BY <1>1, <1>2 DEF TypeOK, Record, Records
<1>4. TypeOK'
  BY <1>1, <1>2, <1>3 DEF TypeOK
<1>5. Unknown' = Unknown /\ Unknown = nextId /\ nextId \in Nat /\ Unknown' = job'.rec.id
  BY <1>1, <1>2, <1>3 DEF Unknown, TypeOK
<1>6. Numbered'
  <2>1. \A r \in OnDisk : r.id <= appended + 1
    BY <1>2, CardOf, ChunkIs DEF Numbered, TypeOK, OnDisk, Chunk
  <2>2. \A s \in Slots : \A r \in flight[s].list : r.id <= appended + 1
    BY <1>2 DEF Numbered, TypeOK, Records
  <2>3. OnDisk' = OnDisk
    BY <1>1 DEF OnDisk
  <2> QED BY <1>1, <1>2, <1>3, <2>1, <2>2, <2>3 DEF Numbered, TypeOK
<1>7. ChunksUpTo' /\ RingSorted' /\ RingKnown'
  BY <1>1, <1>2, <1>3, <1>5 DEF LogInv, ChunksUpTo, RingSorted, RingKnown
<1>8. ~damaged => DiskBehind' /\ (~refused => Recoverable') /\ Covering' /\ Shown'
  BY <1>1, <1>3 DEF LogInv, DiskBehind, Recoverable, NextWritten, Covering, Shown, Answered
<1>9. ~damaged => BrowserBehind'
  BY <1>1, <1>5, BrowserKept
<1> QED BY <1>1, <1>4, <1>6, <1>7, <1>8, <1>9 DEF LogInv

\* The step of an append that leaves ring, chunks and browser alone.
LEMMA JobStepInv ==
    ASSUME LogInv, job.step \in {"roll", "cap"},
           NEW st \in {"cap", "insert"}, job' = [job EXCEPT !.step = st],
           chunkNo' \in Nat, chunkNo' >= chunkNo, chunkSize' \in Nat,
           UNCHANGED <<nextId, ring, disk, page, flight, appended, refused, damaged, cuts, faults>>
    PROVE  LogInv'
<1>1. TypeOK /\ Numbered /\ ChunksUpTo /\ RingSorted
  BY DEF LogInv
<1>2. job'.step = st /\ job'.rec = job.rec /\ job.rec \in Records
  BY <1>1 DEF TypeOK
<1>3. TypeOK'
  BY <1>1, <1>2 DEF TypeOK
<1>4. Unknown' = Unknown /\ Unknown \in Nat
  BY <1>1, <1>2, UnknownIs DEF Unknown
<1>5. OnDisk' = OnDisk
  BY DEF OnDisk
<1>6. Numbered' /\ ChunksUpTo' /\ RingSorted' /\ RingKnown'
  BY <1>1, <1>2, <1>4, <1>5 DEF LogInv, Numbered, ChunksUpTo, RingSorted, RingKnown, TypeOK
<1>7. ~damaged => DiskBehind' /\ (~refused => Recoverable') /\ Covering' /\ Shown'
  BY <1>2 DEF LogInv, DiskBehind, Recoverable, NextWritten, Covering, Shown, Answered
<1>8. ~damaged => BrowserBehind'
  BY <1>4, BrowserKept
<1> QED BY <1>3, <1>6, <1>7, <1>8 DEF LogInv

LEMMA RollInv == LogInv /\ Roll => LogInv'
<1> SUFFICES ASSUME LogInv, Roll PROVE LogInv'
  OBVIOUS
<1>1. chunkNo' \in Nat /\ chunkNo' >= chunkNo /\ chunkSize' \in Nat
  BY DEF Roll, LogInv, TypeOK
<1> QED BY <1>1, JobStepInv DEF Roll

LEMMA CapDoneInv == LogInv /\ CapDone => LogInv'
<1> SUFFICES ASSUME LogInv, CapDone PROVE LogInv'
  OBVIOUS
<1>1. chunkNo' \in Nat /\ chunkNo' >= chunkNo /\ chunkSize' \in Nat
  BY DEF CapDone, LogInv, TypeOK
<1> QED BY <1>1, JobStepInv DEF CapDone

\* Whatever happens to the file, the append goes on and nobody knows more.
LEMMA WriteQuiet ==
    ASSUME LogInv, Write, disk' = disk \/ \E q \in Seq(Records) : disk' = WithChunk(disk, chunkNo, q),
           \A k \in DOMAIN disk' : \A r \in ToSet(disk'[k]) : r.id <= appended
    PROVE  /\ TypeOK' /\ Numbered' /\ ChunksUpTo' /\ RingSorted'
           /\ job'.step \in {"roll", "insert"} /\ job'.rec = job.rec
           /\ Unknown' = Unknown /\ RingKnown'
<1>1. /\ job.step = "write" /\ job' = [job EXCEPT !.step = NextStep(chunkSize')]
      /\ UNCHANGED <<nextId, ring, chunkNo, page, flight, appended, damaged, cuts>>
      /\ chunkSize' \in {chunkSize, chunkSize + 1} /\ refused' \in BOOLEAN
      /\ faults' \in {faults, faults + 1}
  BY DEF Write, Fault
<1>2. TypeOK /\ Numbered /\ ChunksUpTo /\ RingSorted
  BY DEF LogInv
<1>3. job'.step \in {"roll", "insert"} /\ job'.rec = job.rec /\ job.rec \in Records
  BY <1>1, <1>2 DEF TypeOK, NextStep
<1>4. /\ DOMAIN disk' \subseteq 1..chunkNo
      /\ \A k \in DOMAIN disk' : disk'[k] \in Seq(Records)
  <2>1. /\ DOMAIN disk \subseteq 1..chunkNo /\ chunkNo \in 1..chunkNo
        /\ \A k \in DOMAIN disk : disk[k] \in Seq(Records)
    BY <1>2 DEF TypeOK, ChunksUpTo
  <2>2. CASE disk' = disk
    BY <2>1, <2>2
  <2>3. CASE \E q \in Seq(Records) : disk' = WithChunk(disk, chunkNo, q)
    BY <2>1, <2>3 DEF WithChunk
  <2> QED BY <2>2, <2>3
<1>5. ChunksUpTo'
  BY <1>1, <1>2, <1>4 DEF ChunksUpTo
<1>6. TypeOK'
  <2>1. chunkSize' \in Nat /\ faults' \in Nat
    <3>1. chunkSize \in Nat /\ faults \in Nat
      BY <1>2 DEF TypeOK
    <3> QED BY <1>1, <3>1
  <2>2. job' \in [step : {"idle", "write", "roll", "cap", "insert"}, rec : Records]
    BY <1>1, <1>2, <1>3 DEF TypeOK, NextStep
  <2>3. DOMAIN disk' \subseteq Nat
    BY <1>4
  <2> QED BY <1>1, <1>2, <1>4, <2>1, <2>2, <2>3 DEF TypeOK
<1>7. Unknown' = Unknown
  BY <1>1, <1>3 DEF Unknown
<1>8. \A r \in OnDisk' : r.id <= appended'
  BY <1>1 DEF OnDisk
<1>9. Numbered'
  BY <1>1, <1>2, <1>3, <1>8 DEF Numbered
<1>10. RingSorted' /\ RingKnown'
  BY <1>1, <1>2, <1>3, <1>7 DEF LogInv, RingSorted, RingKnown
<1> QED BY <1>3, <1>5, <1>6, <1>7, <1>9, <1>10

\* The record that is written becomes the last one of the newest chunk.
LEMMA WrittenInv ==
    ASSUME LogInv, Write, disk' = WithChunk(disk, chunkNo, Append(Chunk(disk, chunkNo), job.rec)),
           UNCHANGED damaged
    PROVE  LogInv'
<1> DEFINE q == Chunk(disk, chunkNo)
           q1 == Append(q, job.rec)
<1>1. /\ job.step = "write" /\ UNCHANGED <<nextId, ring, chunkNo, page, flight, appended>>
      /\ TypeOK /\ Numbered /\ ChunksUpTo
  BY DEF Write, LogInv
<1>2. Card(disk, chunkNo, appended) /\ chunkNo \in Nat /\ appended \in Nat /\ chunkNo >= 1
  BY <1>1, CardOf DEF TypeOK, ChunksUpTo
<1>3. /\ q \in Seq(Records) /\ \A r \in ToSet(q) : r \in Records /\ r.id \in Nat /\ r.id <= appended
  BY <1>2, ChunkIs
<1>4. /\ job.rec \in Records /\ job.rec.id \in Nat /\ job.rec.id <= appended
      /\ nextId = job.rec.id + 1 /\ job.rec.id >= 1
  BY <1>1, UnknownIs DEF Numbered
<1>5. /\ q1 \in Seq(Records) /\ q1 # <<>> /\ ToSet(q1) = ToSet(q) \cup {job.rec}
  <2>1. /\ q1 \in Seq(Records) /\ q1 # <<>> /\ Len(q1) = Len(q) + 1 /\ q1[Len(q) + 1] = job.rec
        /\ \A i \in 1..Len(q) : q1[i] = q[i]
    BY <1>3, <1>4, AppendProperties
  <2>2. DOMAIN q = 1..Len(q) /\ DOMAIN q1 = 1..(Len(q) + 1) /\ Len(q) \in Nat
    BY <1>3, <2>1
  <2> HIDE DEF q, q1
  <2>3. ToSet(q1) = ToSet(q) \cup {job.rec}
    BY <2>1, <2>2 DEF ToSet
  <2> QED BY <2>1, <2>3
<1> HIDE DEF q1
<1>6. /\ DOMAIN disk' = DOMAIN disk \cup {chunkNo} /\ disk'[chunkNo] = q1
      /\ \A k \in DOMAIN disk \ {chunkNo} : disk'[k] = disk[k]
  BY DEF WithChunk, q1
<1>7. \A k \in DOMAIN disk' : \A r \in ToSet(disk'[k]) : r.id <= appended
  BY <1>2, <1>3, <1>4, <1>5, <1>6 DEF Card
<1>8. /\ TypeOK' /\ Numbered' /\ ChunksUpTo' /\ RingSorted'
      /\ job'.step \in {"roll", "insert"} /\ job'.rec = job.rec
      /\ Unknown' = Unknown /\ RingKnown'
  BY <1>5, <1>7, WriteQuiet DEF q1
<1>9. ASSUME ~damaged
      PROVE  DiskBehind' /\ Recoverable' /\ BrowserBehind' /\ Covering' /\ Shown'
  <2>2. \A k \in DOMAIN disk : \A r \in ToSet(disk[k]) : r.id < job.rec.id
    BY <1>1, <1>9 DEF LogInv, DiskBehind, NextWritten
  <2>3. \A r \in ToSet(q) : r.id < job.rec.id
    <3>1. CASE chunkNo \in DOMAIN disk BY <2>2, <3>1 DEF Chunk
    <3>2. CASE chunkNo \notin DOMAIN disk BY <3>2 DEF Chunk, ToSet
    <3> QED BY <3>1, <3>2
  <2>4. DiskBehind'
    <3>1. NextWritten' = nextId
      BY <1>1, <1>8 DEF NextWritten
    <3>2. ASSUME NEW k \in DOMAIN disk', NEW r \in ToSet(disk'[k])
          PROVE  r.id < nextId
      <4>1. CASE k = chunkNo
        BY <1>3, <1>4, <1>5, <1>6, <2>3, <3>2, <4>1
      <4>2. CASE k # chunkNo
        <5>1. k \in DOMAIN disk /\ disk'[k] = disk[k]
          BY <1>6, <4>2
        <5>2. r.id < job.rec.id /\ r.id \in Nat
          BY <1>2, <2>2, <3>2, <5>1, ChunkIs DEF Chunk
        <5> QED BY <1>4, <5>2
      <4> QED BY <4>1, <4>2
    <3> QED BY <3>1, <3>2 DEF DiskBehind
  <2>5. RecoveredId(disk') = nextId
    <3>1. Newest(disk') = chunkNo
      <4>1. {1} \cup DOMAIN disk' \subseteq Nat /\ chunkNo \in {1} \cup DOMAIN disk'
            /\ \A k \in {1} \cup DOMAIN disk' : k <= chunkNo
        BY <1>2, <1>6 DEF Card
      <4> QED BY <4>1, MaxIs DEF Newest
    <3>2. Chunk(disk', chunkNo) = q1
      BY <1>6 DEF Chunk
    <3>3. RecoveredId(disk') = Max({1} \cup {r.id + 1 : r \in ToSet(q1)})
      BY <3>1, <3>2 DEF RecoveredId
    <3> DEFINE T == {1} \cup {r.id + 1 : r \in ToSet(q1)}
    <3>4. T \subseteq Nat /\ nextId \in T /\ \A x \in T : x <= nextId
      BY <1>3, <1>4, <1>5, <2>3
    <3> HIDE DEF T
    <3>5. Max(T) = nextId
      BY <3>4, MaxIs
    <3> QED BY <3>3, <3>5 DEF T
  <2>6. Recoverable'
    BY <1>1, <1>8, <2>5 DEF Recoverable, NextWritten
  <2>7. BrowserBehind'
    BY <1>1, <1>8, <1>9, BrowserKept, UnknownIs
  <2>8. Covering' /\ Shown'
    BY <1>1, <1>9 DEF LogInv, Covering, Shown, Answered
  <2> QED BY <2>4, <2>6, <2>7, <2>8
<1> QED BY <1>8, <1>9 DEF LogInv

LEMMA WriteInv == LogInv /\ Write => LogInv'
<1> SUFFICES ASSUME LogInv, Write PROVE LogInv'
  OBVIOUS
<1>1. CASE /\ disk' = WithChunk(disk, chunkNo, Append(Chunk(disk, chunkNo), job.rec))
           /\ UNCHANGED damaged
  BY <1>1, WrittenInv
<1>2. CASE /\ refused' = TRUE /\ UNCHANGED damaged
           /\ disk' = disk \/ disk' = WithChunk(disk, chunkNo, Chunk(disk, chunkNo))
  <2>1. /\ Card(disk, chunkNo, appended) /\ chunkNo \in Nat /\ appended \in Nat
        /\ TypeOK /\ Numbered /\ job.step = "write"
        /\ UNCHANGED <<nextId, ring, page, flight>>
    BY CardOf DEF LogInv, TypeOK, Write
  <2>2. /\ Chunk(disk, chunkNo) \in Seq(Records)
        /\ \A r \in ToSet(Chunk(disk, chunkNo)) : r.id <= appended
    BY <2>1, ChunkIs
  <2>3. \A k \in DOMAIN disk' : \A r \in ToSet(disk'[k]) : k \in DOMAIN disk /\ r \in ToSet(disk[k])
    BY <1>2 DEF WithChunk, Chunk, ToSet
  <2>4. \A k \in DOMAIN disk' : \A r \in ToSet(disk'[k]) : r.id <= appended
    BY <2>1, <2>3 DEF Card
  <2>5. /\ TypeOK' /\ Numbered' /\ ChunksUpTo' /\ RingSorted' /\ RingKnown'
        /\ job'.step \in {"roll", "insert"} /\ Unknown' = Unknown
    BY <1>2, <2>2, <2>4, WriteQuiet
  <2>6. ASSUME ~damaged PROVE DiskBehind' /\ BrowserBehind' /\ Covering' /\ Shown'
    <3>1. NextWritten = job.rec.id /\ NextWritten' = nextId /\ nextId = job.rec.id + 1 /\ job.rec.id \in Nat
      BY <2>1, <2>5, UnknownIs DEF NextWritten
    <3>2. DiskBehind'
      <4> SUFFICES ASSUME NEW k \in DOMAIN disk', NEW r \in ToSet(disk'[k]) PROVE r.id < nextId
        BY <3>1 DEF DiskBehind
      <4>1. k \in DOMAIN disk /\ r \in ToSet(disk[k])
        BY <2>3
      <4>2. r.id < job.rec.id
        BY <2>6, <3>1, <4>1 DEF LogInv, DiskBehind
      <4>3. r.id \in Nat
        BY <2>1, <4>1, ChunkIs DEF Chunk
      <4> QED BY <3>1, <4>2, <4>3
    <3>3. BrowserBehind'
      BY <2>1, <2>5, <2>6, BrowserKept, UnknownIs
    <3>4. Covering' /\ Shown'
      BY <2>1, <2>6 DEF LogInv, Covering, Shown, Answered
    <3> QED BY <3>2, <3>3, <3>4
  <2> QED BY <1>2, <2>5, <2>6 DEF LogInv
<1> QED BY <1>1, <1>2 DEF Write

\* The oldest of several chunks is not the one the next number comes from.
LEMMA DeleteInv == LogInv /\ DeleteOldest => LogInv'
<1> SUFFICES ASSUME LogInv, DeleteOldest PROVE LogInv'
  OBVIOUS
<1> DEFINE D == DOMAIN disk
           m == Min(D)
<1>1. /\ TypeOK /\ Numbered /\ ChunksUpTo /\ RingSorted
      /\ job.step = "cap" /\ Cardinality(D) > 1
      /\ disk' = [no \in D \ {m} |-> disk[no]]
      /\ UNCHANGED <<nextId, ring, chunkNo, chunkSize, job, page, flight, appended, refused, damaged, cuts, faults>>
  BY DEF LogInv, DeleteOldest, OverCap
<1>2. DOMAIN disk' = D \ {m} /\ \A k \in D \ {m} : disk'[k] = disk[k]
  BY <1>1
<1>3. Card(disk, chunkNo, appended) /\ chunkNo \in Nat /\ appended \in Nat
  BY <1>1, CardOf DEF TypeOK
<1>4. TypeOK' /\ ChunksUpTo' /\ RingSorted'
  BY <1>1, <1>2 DEF TypeOK, ChunksUpTo, RingSorted
<1>5. Unknown' = Unknown /\ Unknown \in Nat
  BY <1>1, UnknownIs DEF Unknown
<1>6. Numbered' /\ RingKnown'
  BY <1>1, <1>2, <1>5 DEF LogInv, Numbered, OnDisk, RingKnown
<1>7. ASSUME ~damaged
      PROVE  DiskBehind' /\ (~refused => Recoverable') /\ BrowserBehind' /\ Covering' /\ Shown'
  <2>1. DiskBehind'
    BY <1>1, <1>2, <1>7 DEF LogInv, DiskBehind, NextWritten
  <2>2. BrowserBehind'
    BY <1>1, <1>5, <1>7, BrowserKept
  <2>3. Covering' /\ Shown'
    BY <1>1, <1>7 DEF LogInv, Covering, Shown, Answered
  <2> DEFINE n == Newest(disk)
  <2>4. D # {} /\ D # {m}
    <3>1. Cardinality({}) = 0 /\ Cardinality({m}) = 1
      BY FS_EmptySet, FS_Singleton
    <3> HIDE DEF D, m
    <3> QED BY <1>1, <3>1
  <2>5. n \in D /\ n \in Nat /\ \A k \in D : k <= n
    BY <1>3, <2>4, NewestIs
  <2>6. D \subseteq Nat
    BY <1>3 DEF Card
  <2>7. m \in D /\ \A k \in D : m <= k
    BY <2>4, <2>6, MinExists
  <2> HIDE DEF D, m, n
  <2>8. n # m
    <3>1. PICK k \in D : k # m
      BY <2>4, <2>7
    <3>2. m \in Nat /\ k \in Nat
      BY <2>6, <2>7
    <3> QED BY <2>5, <2>7, <3>1, <3>2
  <2>9. n >= 1
    BY <1>1, <2>5 DEF ChunksUpTo, D
  <2>10. Newest(disk') = n
    <3> DEFINE T == {1} \cup (D \ {m})
    <3>1. /\ \A x \in T : x \in Nat
          /\ \A x \in T : x <= n
      BY <2>5, <2>6, <2>9
    <3>3. n \in T
      BY <2>5, <2>8
    <3> HIDE DEF T
    <3>4. Max(T) = n
      BY <3>1, <3>3, MaxIs
    <3> QED BY <1>2, <3>4 DEF Newest, T
  <2>11. Chunk(disk', n) = Chunk(disk, n)
    BY <1>2, <2>5, <2>8 DEF Chunk, D
  <2>12. RecoveredId(disk') = RecoveredId(disk)
    BY <2>10, <2>11 DEF RecoveredId, n
  <2>13. ~refused => Recoverable'
    BY <1>1, <1>7, <2>12 DEF LogInv, Recoverable, NextWritten
  <2> QED BY <2>1, <2>2, <2>3, <2>13
<1> QED BY <1>1, <1>4, <1>6, <1>7 DEF LogInv

\* The ring gives up its oldest record, or none, for the new one.
LEMMA PushedIs ==
    ASSUME NEW q \in Seq(Records), Len(q) <= RingCap, NEW r \in Records
    PROVE  /\ Pushed(q, r) \in Seq(Records) /\ Len(Pushed(q, r)) <= RingCap
           /\ Len(Pushed(q, r)) \in Nat /\ Len(q) \in Nat
           /\ \E k \in {0, 1} :
                 /\ Len(Pushed(q, r)) = Len(q) - k + 1
                 /\ \A i \in 1..(Len(q) - k) : Pushed(q, r)[i] = q[i + k]
                 /\ Pushed(q, r)[Len(q) - k + 1] = r
<1>1. Len(q) \in Nat /\ RingCap \in Nat /\ RingCap >= 1
  BY LogAssumption
<1>2. CASE Len(q) < RingCap
  <2>1. Pushed(q, r) = Append(q, r)
    BY <1>2 DEF Pushed
  <2>2. /\ Append(q, r) \in Seq(Records) /\ Len(Append(q, r)) = Len(q) + 1
        /\ \A i \in 1..Len(q) : Append(q, r)[i] = q[i]
        /\ Append(q, r)[Len(q) + 1] = r
    BY AppendProperties
  <2> QED BY <1>1, <1>2, <2>1, <2>2
<1>3. CASE Len(q) = RingCap
  <2> DEFINE t == Tail(q)
  <2>1. q # <<>>
    BY <1>1, <1>3
  <2>2. t \in Seq(Records) /\ Len(t) = Len(q) - 1 /\ \A i \in 1..Len(t) : t[i] = q[i + 1]
    BY <2>1, HeadTailProperties
  <2>3. Pushed(q, r) = Append(t, r)
    BY <1>3 DEF Pushed
  <2> HIDE DEF t
  <2>4. /\ Append(t, r) \in Seq(Records) /\ Len(Append(t, r)) = Len(t) + 1
        /\ \A i \in 1..Len(t) : Append(t, r)[i] = t[i]
        /\ Append(t, r)[Len(t) + 1] = r
    BY <2>2, AppendProperties
  <2> QED BY <1>1, <1>3, <2>2, <2>3, <2>4
<1> QED BY <1>1, <1>2, <1>3

LEMMA InsertInv == LogInv /\ Insert => LogInv'
<1> SUFFICES ASSUME LogInv, Insert PROVE LogInv'
  OBVIOUS
<1>1. /\ TypeOK /\ Numbered /\ ChunksUpTo /\ RingSorted
      /\ job.step = "insert" /\ ring' = Pushed(ring, job.rec) /\ job' = Idle
      /\ UNCHANGED <<nextId, chunkNo, chunkSize, disk, page, flight, appended, refused, damaged, cuts, faults>>
  BY DEF LogInv, Insert
<1>2. /\ Unknown = job.rec.id /\ nextId = job.rec.id + 1 /\ job.rec \in Records
      /\ job.rec.id \in Nat /\ Unknown' = nextId
  BY <1>1, UnknownIs DEF Unknown, Idle
<1>3. /\ ring \in Seq(Records) /\ Len(ring) <= RingCap
      /\ \A i \in 1..Len(ring) : ring[i] \in Records /\ ring[i].id \in Nat
  <2>1. ring \in Seq(Records) /\ Len(ring) <= RingCap
    BY <1>1 DEF TypeOK
  <2>2. \A i \in 1..Len(ring) : ring[i] \in Records
    BY <2>1, ElementOfSeq
  <2> QED BY <2>1, <2>2 DEF Records
<1>4. ring' \in Seq(Records) /\ Len(ring') <= RingCap /\ Len(ring') \in Nat /\ Len(ring) \in Nat
  BY <1>1, <1>2, <1>3, PushedIs
<1>5. PICK k \in {0, 1} :
          /\ Len(ring') = Len(ring) - k + 1
          /\ \A i \in 1..(Len(ring) - k) : ring'[i] = ring[i + k]
          /\ ring'[Len(ring) - k + 1] = job.rec
  BY <1>1, <1>2, <1>3, PushedIs
\* Each record of the new ring is the new one or an old one.
<1>6. \A i \in 1..Len(ring') :
          \/ i = Len(ring') /\ ring'[i] = job.rec
          \/ i < Len(ring') /\ i + k \in 1..Len(ring) /\ ring'[i] = ring[i + k]
  BY <1>4, <1>5
<1>7. /\ \A i \in 1..Len(ring) : ring[i].id < job.rec.id
      /\ \A i, j \in 1..Len(ring) : i < j => ring[i].id < ring[j].id
  BY <1>1 DEF RingSorted
<1>8. TypeOK'
  <2>1. job' \in [step : {"idle", "write", "roll", "cap", "insert"}, rec : Records]
    BY <1>1 DEF Idle, None, Record, Records
  <2> QED BY <1>1, <1>4, <2>1 DEF TypeOK
<1>9. Numbered' /\ ChunksUpTo'
  BY <1>1 DEF Numbered, ChunksUpTo, OnDisk, Idle
<1>10. \A i, j \in 1..Len(ring') : i < j => ring'[i].id < ring'[j].id
  <2> SUFFICES ASSUME NEW i \in 1..Len(ring'), NEW j \in 1..Len(ring'), i < j
               PROVE  ring'[i].id < ring'[j].id
    OBVIOUS
  <2>1. i < Len(ring') /\ i + k \in 1..Len(ring) /\ ring'[i] = ring[i + k]
    BY <1>4, <1>6
  <2>2. CASE j = Len(ring')
    BY <1>6, <1>7, <2>1, <2>2
  <2>3. CASE j < Len(ring')
    <3>1. j + k \in 1..Len(ring) /\ ring'[j] = ring[j + k]
      BY <1>6, <2>3
    <3>2. i + k < j + k
      OBVIOUS
    <3> QED BY <1>7, <2>1, <3>1, <3>2
  <2> QED BY <1>4, <2>2, <2>3
<1>11. RingSorted'
  BY <1>1, <1>10 DEF RingSorted, Idle
<1>12. RingKnown'
  <2> SUFFICES ASSUME NEW i \in 1..Len(ring') PROVE 1 <= ring'[i].id /\ ring'[i].id < nextId
    BY <1>2 DEF RingKnown
  <2>0. RingKnown /\ job.rec.id >= 1
    BY <1>1 DEF LogInv, Numbered
  <2>1. CASE ring'[i] = job.rec
    BY <1>2, <2>0, <2>1
  <2>2. CASE i + k \in 1..Len(ring) /\ ring'[i] = ring[i + k]
    BY <1>2, <1>3, <1>7, <2>0, <2>2 DEF RingKnown
  <2> QED BY <1>6, <2>1, <2>2
<1>13. ASSUME ~damaged
       PROVE  DiskBehind' /\ (~refused => Recoverable') /\ BrowserBehind' /\ Covering' /\ Shown'
  <2>1. DiskBehind /\ (~refused => Recoverable) /\ BrowserBehind /\ Covering /\ Shown
    BY <1>13 DEF LogInv
  <2>2. DiskBehind' /\ (~refused => Recoverable')
    BY <1>1, <2>1 DEF DiskBehind, Recoverable, NextWritten, Idle
  <2>3. BrowserBehind'
    BY <1>1, <1>2, <1>13, BrowserKept
  <2>4. page.since < job.rec.id /\ page.since \in Nat
        /\ \A s \in Answered : \A r \in flight[s].list : r.id < job.rec.id /\ r.id \in Nat
    BY <1>1, <1>2, <2>1 DEF BrowserBehind, Answered, TypeOK, Records
  <2>5. Covering'
    <3> SUFFICES ASSUME NEW s \in Answered, NEW i \in 1..Len(ring'), NEW r \in flight[s].list,
                        flight[s].since < ring'[i].id, ring'[i].id <= r.id
                 PROVE  ring'[i] \in flight[s].list
      BY <1>1 DEF Covering, Answered
    <3>1. ring'[i] # job.rec
      BY <1>2, <2>4
    <3> QED BY <1>6, <2>1, <3>1 DEF Covering
  <2>6. Shown'
    <3> SUFFICES ASSUME NEW i \in 1..Len(ring'), ring'[i].id <= page.since
                 PROVE  ring'[i].n \in page.shown
      BY <1>1 DEF Shown
    <3>1. ring'[i] # job.rec
      BY <1>2, <2>4
    <3> QED BY <1>6, <2>1, <3>1 DEF Shown
  <2> QED BY <2>2, <2>3, <2>5, <2>6
<1> QED BY <1>1, <1>8, <1>9, <1>11, <1>12, <1>13 DEF LogInv
-----------------------------------------------------------------------------
(* The browser's steps *)

Flight == [stage : {"none", "asked", "answered"}, since : Nat, list : SUBSET Records]

\* What a step of the browser must keep.
LEMMA BrowserStep ==
    ASSUME LogInv, UNCHANGED <<log, damaged, cuts>>, faults' \in Nat,
           flight' \in [Slots -> Flight],
           \A s \in Slots : \A r \in flight'[s].list : r.id <= appended,
           page'.since \in Nat, page'.shown \subseteq Nat,
           ~damaged => BrowserBehind' /\ Covering' /\ Shown'
    PROVE  LogInv'
<1> USE DEF LogInv, log
<1>1. TypeOK'
  BY DEF TypeOK, Flight
<1>2. Numbered'
  BY DEF Numbered, OnDisk
<1>3. ChunksUpTo' /\ RingSorted' /\ RingKnown'
  BY DEF ChunksUpTo, RingSorted, RingKnown, Unknown
<1>4. ~damaged => DiskBehind' /\ (~refused => Recoverable')
  BY DEF DiskBehind, Recoverable, NextWritten
<1> QED BY <1>1, <1>2, <1>3, <1>4

\* A request that is new, or lost.
LEMMA FlightsKept ==
    ASSUME LogInv, UNCHANGED <<log, page, damaged, cuts>>, faults' \in Nat,
           flight' \in [Slots -> Flight],
           \A t \in Slots :
              \/ flight'[t] = flight[t]
              \/ /\ flight'[t].stage # "answered" /\ flight'[t].list = {}
                 /\ flight'[t].since <= page.since
    PROVE  LogInv'
<1>1. \A s \in Slots : \A r \in flight'[s].list : r.id <= appended
  BY DEF LogInv, Numbered
<1>2. page'.since \in Nat /\ page'.shown \subseteq Nat
  BY DEF LogInv, TypeOK
<1>3. \A t \in Slots : flight'[t].stage = "answered" => flight'[t] = flight[t] /\ t \in Answered
  BY DEF Answered
<1>4. ASSUME ~damaged PROVE BrowserBehind' /\ Covering' /\ Shown'
  <2>1. BrowserBehind /\ Covering /\ Shown
    BY <1>4 DEF LogInv
  <2>2. Unknown' = Unknown /\ ring' = ring /\ page' = page
    BY DEF Unknown, log
  <2>3. \A t \in Answered' : flight'[t] = flight[t] /\ t \in Answered
    BY <1>3 DEF Answered
  <2>4. BrowserBehind'
    BY <2>1, <2>2, <2>3 DEF BrowserBehind, Answered
  <2>5. Covering' /\ Shown'
    BY <2>1, <2>2, <2>3 DEF Covering, Shown
  <2> QED BY <2>4, <2>5
<1> QED BY <1>1, <1>2, <1>4, BrowserStep

LEMMA NoRequestIs ==
    /\ NoRequest \in Flight /\ NoRequest.stage = "none" /\ NoRequest.list = {}
    /\ NoRequest.since = 0
BY DEF NoRequest, Flight

LEMMA AskInv == ASSUME LogInv, NEW s \in Slots, Ask(s) PROVE LogInv'
<1> DEFINE f == [NoRequest EXCEPT !.stage = "asked", !.since = page.since]
<1>1. page.since \in Nat /\ flight \in [Slots -> Flight] /\ faults' \in Nat
  BY DEF LogInv, TypeOK, Flight, Ask
<1>2. f \in Flight /\ f.stage = "asked" /\ f.list = {} /\ f.since = page.since
  BY <1>1 DEF NoRequest, Flight
<1> HIDE DEF f
<1>3. flight' = [flight EXCEPT ![s] = f]
  BY DEF Ask, f
<1>4. flight' \in [Slots -> Flight] /\ \A t \in Slots : flight'[t] = IF t = s THEN f ELSE flight[t]
  BY <1>1, <1>2, <1>3
<1>5. \A t \in Slots : \/ flight'[t] = flight[t]
                        \/ /\ flight'[t].stage # "answered" /\ flight'[t].list = {}
                           /\ flight'[t].since <= page.since
  BY <1>1, <1>2, <1>4
<1>6. UNCHANGED <<log, page, damaged, cuts>>
  BY DEF Ask
<1> QED BY <1>1, <1>4, <1>5, <1>6, FlightsKept

LEMMA LoseRequestInv == ASSUME LogInv, NEW s \in Slots, LoseRequest(s) PROVE LogInv'
<1>1. page.since \in Nat /\ flight \in [Slots -> Flight] /\ faults \in Nat
  BY DEF LogInv, TypeOK, Flight
<1>2. faults' \in Nat
  BY <1>1 DEF LoseRequest, Fault
<1>3. /\ flight' \in [Slots -> Flight]
      /\ \A t \in Slots : flight'[t] = IF t = s THEN NoRequest ELSE flight[t]
  BY <1>1, NoRequestIs DEF LoseRequest
<1>4. \A t \in Slots : \/ flight'[t] = flight[t]
                        \/ /\ flight'[t].stage # "answered" /\ flight'[t].list = {}
                           /\ flight'[t].since <= page.since
  BY <1>1, <1>3, NoRequestIs
<1> QED BY <1>1, <1>2, <1>3, <1>4, FlightsKept DEF LoseRequest

LEMMA ReloadInv == LogInv /\ Reload => LogInv'
<1> SUFFICES ASSUME LogInv, Reload PROVE LogInv'
  OBVIOUS
<1>1. /\ page'.since = 0 /\ page'.shown = {} /\ faults' \in Nat
      /\ UNCHANGED <<log, damaged, cuts>>
  BY DEF Reload, Fault, LogInv, TypeOK
<1>2. flight' \in [Slots -> Flight] /\ \A t \in Slots : flight'[t] = NoRequest
  BY NoRequestIs DEF Reload
<1>3. \A t \in Slots : flight'[t].list = {} /\ flight'[t].since = 0 /\ flight'[t].stage = "none"
  BY <1>2, NoRequestIs
<1>4. 1 <= Unknown
  BY UnknownIs DEF LogInv, Numbered
<1>5. BrowserBehind' /\ Covering'
  <2>1. Unknown' = Unknown /\ Unknown \in Nat
    BY <1>1, UnknownIs DEF Unknown, log, LogInv
  <2>2. Answered' = {}
    BY <1>3 DEF Answered
  <2> QED BY <1>1, <1>3, <1>4, <2>1, <2>2 DEF BrowserBehind, Covering
<1>6. ~damaged => Shown'
  <2>1. \A i \in 1..Len(ring) : ring[i] \in Records
    BY ElementOfSeq DEF LogInv, TypeOK
  <2>2. \A i \in 1..Len(ring) : ~(ring[i].id <= 0)
    BY <2>1 DEF LogInv, RingKnown, Records
  <2> QED BY <1>1, <2>2 DEF Shown, log
<1> QED BY <1>1, <1>2, <1>3, <1>5, <1>6, BrowserStep

\* What an answer holds: records of the ring, and with one of them all that
\* are older but newer than what was asked for.
LEMMA SinceIs ==
    ASSUME LogInv, NEW since \in Nat
    PROVE  /\ \A r \in Since(since) : \E j \in 1..Len(ring) : r = ring[j]
           /\ \A i \in 1..Len(ring) : \A r \in Since(since) :
                 since < ring[i].id /\ ring[i].id <= r.id => ring[i] \in Since(since)
<1> DEFINE new == Newer(since)
           Before(j) == {k \in new : k < j}
           kept == {j \in new : Cardinality(Before(j)) < PollMax}
<1>1. Since(since) = {ring[j] : j \in kept}
  BY DEF Since
<1>2. new \subseteq 1..Len(ring) /\ \A j \in kept : j \in 1..Len(ring)
  BY DEF Newer
<1>3. Len(ring) \in Nat /\ \A i \in 1..Len(ring) : ring[i].id \in Nat
  <2>1. \A i \in 1..Len(ring) : ring[i] \in Records
    BY ElementOfSeq DEF LogInv, TypeOK
  <2>2. ring \in Seq(Records)
    BY DEF LogInv, TypeOK
  <2> QED BY <2>1, <2>2, LenProperties DEF Records
<1>4. ASSUME NEW i \in 1..Len(ring), NEW j \in kept,
             since < ring[i].id, ring[i].id <= ring[j].id
      PROVE  i \in kept
  <2>1. i \in new
    BY <1>4 DEF Newer
  <2>2. i <= j
    <3> SUFFICES ASSUME j < i PROVE FALSE
      BY <1>2, <1>3
    <3>1. ring[j].id < ring[i].id
      BY <1>2 DEF LogInv, RingSorted
    <3> QED BY <1>2, <1>3, <1>4, <3>1
  <2>3. Before(i) \subseteq Before(j)
    BY <1>2, <1>3, <2>2
  <2>4. IsFiniteSet(Before(j))
    <3>1. IsFiniteSet(1..Len(ring))
      BY <1>3, FS_Interval
    <3> QED BY <1>2, <3>1, FS_Subset
  <2>5. /\ Cardinality(Before(i)) \in Nat /\ Cardinality(Before(j)) \in Nat
        /\ Cardinality(Before(i)) <= Cardinality(Before(j))
    BY <2>3, <2>4, FS_Subset, FS_CardinalityType
  <2>6. Cardinality(Before(j)) < PollMax /\ PollMax \in Nat
    BY LogAssumption
  <2>7. Cardinality(Before(i)) < PollMax
    BY <2>5, <2>6
  <2> QED BY <2>1, <2>7
<1> HIDE DEF kept
<1> QED BY <1>1, <1>2, <1>4

LEMMA AnswerInv == ASSUME LogInv, NEW s \in Slots, Answer(s) PROVE LogInv'
<1> DEFINE list == Since(flight[s].since)
           f == [flight[s] EXCEPT !.stage = "answered", !.list = list]
<1>1. /\ TypeOK /\ Numbered /\ flight \in [Slots -> Flight] /\ job.step = "idle"
      /\ UNCHANGED <<log, page, damaged, cuts, faults>>
  BY DEF LogInv, TypeOK, Flight, Answer
<1>2. flight[s].since \in Nat
  BY <1>1 DEF Flight
<1>3. \A i \in 1..Len(ring) : ring[i] \in Records
  BY <1>1, ElementOfSeq DEF TypeOK
<1>4. \A r \in list : r \in Records /\ r.id \in Nat /\ r.id < Unknown
  <2>1. \A r \in list : \E j \in 1..Len(ring) : r = ring[j]
    BY <1>2, SinceIs
  <2>2. \A j \in 1..Len(ring) : ring[j].id < Unknown
    BY DEF LogInv, RingKnown
  <2> HIDE DEF list
  <2> QED BY <1>3, <2>1, <2>2 DEF Records
<1>5. \A r \in list : r.id <= appended
  BY <1>1, <1>4, UnknownIs
<1>6. \A i \in 1..Len(ring) : \A r \in list :
          flight[s].since < ring[i].id /\ ring[i].id <= r.id => ring[i] \in list
  BY <1>2, SinceIs
<1>7. flight' = [flight EXCEPT ![s] = f]
  BY DEF Answer
<1> HIDE DEF list
<1>8. f \in Flight /\ f.stage = "answered" /\ f.since = flight[s].since /\ f.list = list
  <2>1. flight[s] \in Flight /\ list \in SUBSET Records
    BY <1>1, <1>4
  <2>2. ASSUME NEW x \in Flight, NEW l \in SUBSET Records
        PROVE  LET g == [x EXCEPT !.stage = "answered", !.list = l]
               IN  g \in Flight /\ g.stage = "answered" /\ g.since = x.since /\ g.list = l
    BY DEF Flight
  <2> QED BY <2>1, <2>2
<1> HIDE DEF f
<1>9. flight' \in [Slots -> Flight] /\ \A t \in Slots : flight'[t] = IF t = s THEN f ELSE flight[t]
  BY <1>1, <1>7, <1>8
<1>10. \A t \in Slots : \A r \in flight'[t].list : r.id <= appended
  BY <1>1, <1>5, <1>8, <1>9 DEF Numbered
<1>11. ASSUME ~damaged PROVE BrowserBehind' /\ Covering' /\ Shown'
  <2>1. BrowserBehind /\ Covering /\ Shown
    BY <1>11 DEF LogInv
  <2>2. Unknown' = Unknown /\ ring' = ring /\ page' = page
    BY <1>1 DEF Unknown, log
  <2>3. \A t \in Answered' : t \in Slots /\ (t # s => t \in Answered)
    BY <1>9 DEF Answered
  <2>4. BrowserBehind'
    BY <1>4, <1>8, <1>9, <2>1, <2>2, <2>3 DEF BrowserBehind, Answered
  <2>5. Covering'
    BY <1>6, <1>8, <1>9, <2>1, <2>2, <2>3 DEF Covering
  <2> QED BY <2>1, <2>2, <2>4, <2>5 DEF Shown
<1>12. page'.since \in Nat /\ page'.shown \subseteq Nat /\ faults' \in Nat
  BY <1>1 DEF TypeOK
<1>13. UNCHANGED <<log, damaged, cuts>>
  BY <1>1
<1> QED BY <1>9, <1>10, <1>11, <1>12, <1>13, BrowserStep

\* The cursor after an answer: where it was, or at one of its messages; behind
\* none of them.
LEMMA CursorIs ==
    ASSUME NEW since \in Nat, NEW list, NEW n \in Nat, since <= n,
           \A r \in list : r.id \in Nat /\ r.id <= n
    PROVE  /\ CursorAfter(since, list) \in Nat /\ since <= CursorAfter(since, list)
           /\ \/ CursorAfter(since, list) = since
              \/ \E r \in list : CursorAfter(since, list) = r.id
<1> DEFINE T == {since} \cup {r.id : r \in list}
<1>1. \A x \in T : x \in Nat /\ x <= n
  OBVIOUS
<1>2. since \in T
  OBVIOUS
<1> HIDE DEF T
<1>3. Max(T) \in T /\ \A y \in T : y <= Max(T)
  BY <1>1, <1>2, MaxExists
<1> QED BY <1>1, <1>2, <1>3 DEF T, CursorAfter

LEMMA ShowInv == ASSUME LogInv, NEW s \in Slots, Show(s) PROVE LogInv'
<1> DEFINE list == flight[s].list
<1>1. /\ TypeOK /\ Numbered /\ flight \in [Slots -> Flight] /\ flight[s].stage = "answered"
      /\ page'.since = CursorAfter(page.since, list)
      /\ page'.shown = page.shown \cup {r.n : r \in list}
      /\ flight' = [flight EXCEPT ![s] = NoRequest]
      /\ UNCHANGED <<log, damaged, cuts, faults>>
  BY DEF LogInv, TypeOK, Flight, Show
<1>2. \A r \in list : r \in Records /\ r.id \in Nat /\ r.n \in Nat /\ r.id <= appended
  BY <1>1 DEF Flight, Records, Numbered
<1>3. page.since \in Nat /\ page.shown \subseteq Nat /\ appended \in Nat /\ faults' \in Nat
  BY <1>1 DEF TypeOK
<1> HIDE DEF list
<1>4. page'.shown \subseteq Nat
  BY <1>1, <1>2, <1>3
<1>5. /\ flight' \in [Slots -> Flight]
      /\ \A t \in Slots : flight'[t] = IF t = s THEN NoRequest ELSE flight[t]
  BY <1>1, NoRequestIs
<1>6. /\ page'.since \in Nat /\ page.since <= page'.since
      /\ page'.since = page.since \/ \E r \in list : page'.since = r.id
  <2>1. page.since + appended \in Nat /\ page.since <= page.since + appended
    BY <1>3
  <2>2. \A r \in list : r.id <= page.since + appended
    BY <1>2, <1>3
  <2> QED BY <1>1, <1>2, <1>3, <2>1, <2>2, CursorIs
<1>7. \A t \in Slots : \A r \in flight'[t].list : r.id <= appended
  BY <1>1, <1>5, NoRequestIs DEF Numbered
<1>8. ASSUME ~damaged PROVE BrowserBehind' /\ Covering' /\ Shown'
  <2>1. BrowserBehind /\ Covering /\ Shown
    BY <1>8 DEF LogInv
  <2>2. Unknown' = Unknown /\ Unknown \in Nat /\ ring' = ring
    BY <1>1, UnknownIs DEF Unknown, log
  <2>3. \A t \in Answered' : t \in Answered /\ flight'[t] = flight[t]
    BY <1>5, NoRequestIs DEF Answered
  <2>4. s \in Answered
    BY <1>1 DEF Answered
  <2>5. page'.since < Unknown
    BY <1>6, <2>1, <2>4 DEF BrowserBehind, list
  <2>6. \A t \in Slots : flight'[t].since <= page'.since
    <3>1. \A t \in Slots : flight[t].since \in Nat /\ flight[t].since <= page.since
      BY <1>1, <2>1 DEF BrowserBehind, Flight
    <3> QED BY <1>3, <1>5, <1>6, <3>1, NoRequestIs
  <2>7. BrowserBehind'
    BY <2>1, <2>2, <2>3, <2>5, <2>6 DEF BrowserBehind
  <2>8. Covering'
    BY <2>1, <2>2, <2>3 DEF Covering
  <2>9. Shown'
    <3> SUFFICES ASSUME NEW i \in 1..Len(ring), ring[i].id <= page'.since
                 PROVE  ring[i].n \in page'.shown
      BY <2>2 DEF Shown
    <3>1. ring[i].id \in Nat
      <4>1. ring[i] \in Records
        BY <1>1, ElementOfSeq DEF TypeOK
      <4> QED BY <4>1 DEF Records
    <3>2. CASE ring[i].id <= page.since
      BY <1>1, <2>1, <3>2 DEF Shown
    <3>3. CASE page.since < ring[i].id
      <4>1. PICK r \in list : page'.since = r.id
        BY <1>3, <1>6, <3>1, <3>3
      <4>2. flight[s].since < ring[i].id
        BY <1>1, <1>3, <2>1, <3>1, <3>3 DEF BrowserBehind, Flight
      <4>3. ring[i] \in list
        BY <2>1, <2>4, <4>1, <4>2 DEF Covering, list
      <4> QED BY <1>1, <4>3
    <3> QED BY <1>3, <3>1, <3>2, <3>3
  <2> QED BY <2>7, <2>8, <2>9
<1>9. UNCHANGED <<log, damaged, cuts>>
  BY <1>1
<1> QED BY <1>3, <1>4, <1>5, <1>6, <1>7, <1>8, <1>9, BrowserStep
-----------------------------------------------------------------------------
(* Power losses *)

LEMMA RecoverInv ==
    ASSUME LogInv, NEW d, Recover(d), Card(d, chunkNo, appended),
           faults' \in Nat, damaged' \in BOOLEAN
    PROVE  /\ TypeOK' /\ Numbered' /\ ChunksUpTo' /\ RingSorted' /\ RingKnown'
           /\ Unknown' = RecoveredId(d) /\ Answered' \subseteq Answered
           /\ Recoverable' /\ Covering' /\ Shown'
           /\ \A t \in Slots : \/ flight'[t] = flight[t]
                               \/ flight'[t] = NoRequest
<1>1. /\ TypeOK /\ Numbered /\ chunkNo \in Nat /\ appended \in Nat
      /\ disk' = d /\ chunkNo' = Newest(d) /\ chunkSize' = Len(Chunk(d, Newest(d)))
      /\ nextId' = RecoveredId(d) /\ ring' = <<>> /\ job' = Idle /\ cuts' = cuts + 1
      /\ refused' = FALSE
      /\ UNCHANGED <<page, appended>>
  BY DEF LogInv, TypeOK, Recover
<1>2. /\ flight \in [Slots -> Flight]
      /\ flight' = [s \in Slots |-> IF flight[s].stage = "asked" THEN NoRequest ELSE flight[s]]
  BY <1>1 DEF TypeOK, Flight, Recover
<1>3. /\ flight' \in [Slots -> Flight]
      /\ \A t \in Slots : flight'[t] = flight[t] \/ flight'[t] = NoRequest
  BY <1>2, NoRequestIs
<1>4. Answered' \subseteq Answered
  BY <1>3, NoRequestIs DEF Answered
<1>5. /\ nextId' \in 1..(appended + 1)
      /\ Newest(d) \in Nat /\ Newest(d) \in {1} \cup DOMAIN d
      /\ \A k \in DOMAIN d : k <= Newest(d)
      /\ Chunk(d, Newest(d)) \in Seq(Records)
  BY <1>1, NewestIs, ChunkIs, RecoveredIs
<1>6. ChunksUpTo'
  <2>1. \A k \in DOMAIN d : k \in Nat /\ k >= 1
    BY <1>1 DEF Card
  <2> QED BY <1>1, <1>5, <2>1 DEF ChunksUpTo
<1>7. TypeOK'
  <2>1. ring' \in Seq(Records) /\ Len(ring') <= RingCap
    BY <1>1, LogAssumption
  <2>2. job' \in [step : {"idle", "write", "roll", "cap", "insert"}, rec : Records]
    BY <1>1 DEF Idle, None, Record, Records
  <2>3. nextId' \in Nat /\ chunkNo' \in Nat /\ chunkSize' \in Nat
    BY <1>1, <1>5, LenProperties
  <2>4. DOMAIN disk' \subseteq Nat /\ \A k \in DOMAIN disk' : disk'[k] \in Seq(Records)
    BY <1>1 DEF Card
  <2>5. page'.since \in Nat /\ page'.shown \subseteq Nat /\ appended' \in Nat /\ cuts' \in Nat
    BY <1>1 DEF TypeOK
  <2>6. refused' \in BOOLEAN
    BY <1>1
  <2> QED BY <1>3, <2>1, <2>2, <2>3, <2>4, <2>5, <2>6 DEF TypeOK, Flight
<1>8. Numbered'
  <2>1. \A r \in OnDisk' : r.id <= appended
    BY <1>1 DEF OnDisk, Card
  <2>2. \A t \in Slots : \A r \in flight'[t].list : r.id <= appended
    BY <1>1, <1>3, NoRequestIs DEF Numbered
  <2> QED BY <1>1, <1>5, <2>1, <2>2 DEF Numbered, Idle
<1>9. RingSorted' /\ RingKnown' /\ Covering' /\ Shown'
  BY <1>1 DEF RingSorted, RingKnown, Covering, Shown, Idle
<1>10. Recoverable' /\ Unknown' = RecoveredId(d)
  BY <1>1 DEF Recoverable, NextWritten, Unknown, Idle
<1> QED BY <1>3, <1>4, <1>6, <1>7, <1>8, <1>9, <1>10

LEMMA PowerLossInv == LogInv /\ PowerLoss => LogInv'
<1> SUFFICES ASSUME LogInv, PowerLoss PROVE LogInv'
  OBVIOUS
<1>1. /\ TypeOK /\ Numbered /\ ChunksUpTo /\ Card(disk, chunkNo, appended)
      /\ faults \in Nat /\ damaged \in BOOLEAN /\ page.since \in Nat
  BY CardOf DEF LogInv, TypeOK
<1>2. CASE Fault("power") /\ Recover(disk) /\ damaged' = (damaged \/ refused)
  <2>1. faults' \in Nat /\ damaged' \in BOOLEAN
    <3>1. faults' \in Nat
      BY <1>1, <1>2 DEF Fault
    <3>2. damaged' \in BOOLEAN
      BY <1>2, Zenon
    <3> QED BY <3>1, <3>2
  <2>2. /\ TypeOK' /\ Numbered' /\ ChunksUpTo' /\ RingSorted' /\ RingKnown'
        /\ Unknown' = RecoveredId(disk) /\ Answered' \subseteq Answered
        /\ Recoverable' /\ Covering' /\ Shown'
        /\ \A t \in Slots : flight'[t] = flight[t] \/ flight'[t] = NoRequest
    BY <1>1, <1>2, <2>1, RecoverInv
  <2>3. ASSUME ~damaged, ~refused PROVE DiskBehind' /\ BrowserBehind'
    <3>1. DiskBehind /\ Recoverable /\ BrowserBehind
      BY <2>3 DEF LogInv
    <3>2. DiskBehind' /\ page' = page
      <4>1. disk' = disk /\ job' = Idle /\ nextId' = RecoveredId(disk) /\ page' = page
        BY <1>2 DEF Recover
      <4>2. NextWritten' = NextWritten
        BY <3>1, <4>1 DEF NextWritten, Recoverable, Idle
      <4> QED BY <3>1, <4>1, <4>2 DEF DiskBehind
    <3>3. Unknown \in Nat /\ Unknown' \in Nat /\ Unknown' >= Unknown
      BY <1>1, <2>2, <3>1, UnknownIs DEF Recoverable, NextWritten
    <3>4. \A t \in Slots : flight'[t].since <= page.since
      BY <1>1, <2>2, <3>1, NoRequestIs DEF BrowserBehind
    <3>5. \A t \in Answered' : \A r \in flight'[t].list : r.id < Unknown'
      <4> SUFFICES ASSUME NEW t \in Answered', NEW r \in flight'[t].list PROVE r.id < Unknown'
        OBVIOUS
      <4>1. t \in Answered /\ t \in Slots /\ flight'[t] = flight[t]
        BY <2>2, NoRequestIs DEF Answered
      <4>2. r.id < Unknown /\ r.id \in Nat
        BY <1>1, <3>1, <4>1 DEF BrowserBehind, TypeOK, Records
      <4> QED BY <3>3, <4>2
    <3>6. page'.since < Unknown'
      BY <1>1, <3>1, <3>2, <3>3 DEF BrowserBehind
    <3> QED BY <3>2, <3>4, <3>5, <3>6 DEF BrowserBehind
  <2>4. ~damaged' => ~damaged /\ ~refused
    BY <1>2
  <2> QED BY <2>2, <2>3, <2>4 DEF LogInv
<1>3. CASE /\ Fault("empty") /\ job.step = "write" /\ chunkNo \notin DOMAIN disk
           /\ Recover(WithChunk(disk, chunkNo, <<>>)) /\ damaged' = TRUE
  <2> DEFINE d == WithChunk(disk, chunkNo, <<>>)
  <2>1. faults' \in Nat /\ damaged' \in BOOLEAN
    BY <1>1, <1>3 DEF Fault
  <2>2. Card(d, chunkNo, appended)
    <3>1. chunkNo \in Nat /\ chunkNo >= 1
      BY <1>1 DEF TypeOK, ChunksUpTo
    <3>2. DOMAIN d = DOMAIN disk \cup {chunkNo}
          /\ \A k \in DOMAIN d : d[k] = IF k = chunkNo THEN <<>> ELSE disk[k]
      BY DEF WithChunk
    <3> HIDE DEF d
    <3>3. DOMAIN d \subseteq 1..chunkNo
      BY <1>1, <3>1, <3>2 DEF Card
    <3>6. <<>> \in Seq(Records)
      OBVIOUS
    <3>7. \A k \in DOMAIN d : d[k] \in Seq(Records)
      BY <1>1, <3>2, <3>6 DEF Card
    <3>4. \A r \in ToSet(<<>>) : FALSE
      BY DEF ToSet
    <3>5. \A k \in DOMAIN d : \A r \in ToSet(d[k]) : r.id <= appended
      BY <1>1, <3>2, <3>4 DEF Card
    <3> QED BY <3>3, <3>5, <3>7 DEF Card
  <2> HIDE DEF d
  <2>3. Recover(d)
    BY <1>3 DEF d
  <2>4. TypeOK' /\ Numbered' /\ ChunksUpTo' /\ RingSorted' /\ RingKnown'
    BY <2>1, <2>2, <2>3, RecoverInv
  <2> QED BY <1>3, <2>4 DEF LogInv
<1> QED BY <1>2, <1>3 DEF PowerLoss
-----------------------------------------------------------------------------
(* The theorems *)

LEMMA LogStep == LogInv /\ [Next]_vars => LogInv'
<1> SUFFICES ASSUME LogInv, [Next]_vars PROVE LogInv'
  OBVIOUS
<1>1. CASE Begin
  BY <1>1, BeginInv
<1>2. CASE AppendStep
  BY <1>2, WriteInv, RollInv, DeleteInv, CapDoneInv, InsertInv DEF AppendStep
<1>3. CASE \E s \in Slots : Ask(s) \/ Answer(s) \/ Show(s) \/ LoseRequest(s)
  BY <1>3, AskInv, AnswerInv, ShowInv, LoseRequestInv
<1>4. CASE Reload
  BY <1>4, ReloadInv
<1>5. CASE PowerLoss
  BY <1>5, PowerLossInv
<1>6. CASE UNCHANGED vars
  BY <1>6 DEF vars, LogInv, TypeOK, Numbered, ChunksUpTo, RingSorted, RingKnown, DiskBehind,
              Recoverable, NextWritten, BrowserBehind, Covering, Shown, OnDisk, Unknown, Answered
<1> QED BY <1>1, <1>2, <1>3, <1>4, <1>5, <1>6 DEF Next

(* The invariant of the log: its type, how ids and chunks are ordered, what a *)
(* power loss would recover and how far the browser is, at every step of an   *)
(* append, for every size of the ring, the chunks and the answers             *)
(* (msg_log_append, msg_log_init, msg_log_since, messages.html).              *)
THEOREM LogInvariant == Spec => []LogInv
<1>1. Init => LogInv
  BY InitInv
<1>2. LogInv /\ [Next]_vars => LogInv'
  BY LogStep
<1> QED BY <1>1, <1>2, PTL DEF Spec

(* The next number is beyond every number on the card, whenever the power     *)
(* went, unless the card lost a record: msg_log_init never gives a number     *)
(* out again although it reads the newest chunk only.                         *)
THEOREM NumbersNeverComeBack == Spec => []IdsAhead
<1>1. LogInv => IdsAhead
  <2> SUFFICES ASSUME LogInv, ~damaged, NEW r \in OnDisk PROVE r.id < nextId
    BY DEF IdsAhead, NextIdBeyondDisk
  <2>1. TypeOK /\ Numbered /\ ChunksUpTo /\ DiskBehind
    BY DEF LogInv
  <2>2. Card(disk, chunkNo, appended) /\ chunkNo \in Nat /\ appended \in Nat
    BY <2>1, CardOf DEF TypeOK
  <2>3. PICK no \in DOMAIN disk : r \in ToSet(disk[no])
    BY DEF OnDisk
  <2>4. r.id < NextWritten
    BY <2>1, <2>3 DEF DiskBehind
  <2>5. r.id \in Nat
    BY <2>2, <2>3, ChunkIs DEF Chunk
  <2>6. NextWritten <= nextId /\ NextWritten \in Nat /\ nextId \in Nat
    BY <2>1, UnknownIs DEF NextWritten
  <2> QED BY <2>4, <2>5, <2>6
<1> QED BY <1>1, LogInvariant, PTL

(* No page's cursor passes a message of the ring that the page does not show, *)
(* with two polls in flight, answers cut to their limit, requests lost and    *)
(* power losses, unless the card lost a record.                               *)
THEOREM NothingIsSkipped == Spec => []NoSkip
<1>1. LogInv => NoSkip
  BY DEF LogInv, NoSkip, Shown
<1> QED BY <1>1, LogInvariant, PTL

-----------------------------------------------------------------------------
(* The size of the card *)

CardLimit == TotalMax + ChunkMax + cuts

\* What the newest chunk on the card holds; msg_log_init goes on with it.
NewestLen == Len(Chunk(disk, Newest(disk)))

\* The size the hub remembers is never below that of the file.
SizeKnown ==
    /\ Len(Chunk(disk, chunkNo)) <= chunkSize
    /\ chunkNo \notin DOMAIN disk => chunkSize = 0
    /\ job.step = "insert" => chunkSize < ChunkMax
    /\ job.step = "cap" => chunkSize = 0

\* The old chunks keep to the cap.  A chunk that is full only grows by the
\* message of an append during which power was lost before the roll-over.
Room ==
    /\ IsFiniteSet(Places(disk)) /\ TotalSize(disk) <= CardLimit
    /\ TotalSize(disk) - NewestLen <= TotalMax + cuts
    /\ NewestLen <= ChunkMax + cuts
    /\ job.step # "cap" /\ chunkSize < ChunkMax =>
          TotalSize(disk) <= TotalMax + cuts + chunkSize
    /\ job.step \in {"idle", "write"} /\ chunkSize >= ChunkMax =>
          TotalSize(disk) < CardLimit /\ NewestLen < ChunkMax + cuts

SizeInv == SizeKnown /\ Room

(* What places a card has.                                                 *)
LEMMA PlacesAre ==
    ASSUME NEW d
    PROVE  \A p : p \in Places(d) <=> \E no \in DOMAIN d : \E i \in 1..Len(d[no]) : p = <<no, i>>
BY DEF Places

\* A record more on the card.
LEMMA GrownBy ==
    ASSUME NEW d, IsFiniteSet(Places(d)), NEW no, NEW r, Chunk(d, no) \in Seq(Records)
    PROVE  LET e == WithChunk(d, no, Append(Chunk(d, no), r))
           IN  /\ IsFiniteSet(Places(e)) /\ TotalSize(e) = TotalSize(d) + 1
               /\ DOMAIN e = DOMAIN d \cup {no}
               /\ Len(Chunk(e, no)) = Len(Chunk(d, no)) + 1
<1> DEFINE q == Chunk(d, no)
           e == WithChunk(d, no, Append(q, r))
           new == <<no, Len(q) + 1>>
<1>1. Len(q) \in Nat /\ Len(Append(q, r)) = Len(q) + 1
  BY LenProperties
<1>2. DOMAIN e = DOMAIN d \cup {no} /\ e[no] = Append(q, r)
      /\ \A k \in DOMAIN d \ {no} : e[k] = d[k]
  BY DEF WithChunk
<1>3. no \in DOMAIN d => d[no] = q
  BY DEF Chunk
<1>4. no \notin DOMAIN d => Len(q) = 0
  BY DEF Chunk
<1>5. Chunk(e, no) = Append(q, r)
  BY <1>2 DEF Chunk
<1> HIDE DEF q, e
<1>6. \A p : p \in Places(e) <=> p \in Places(d) \/ p = new
  <2> SUFFICES ASSUME NEW p PROVE p \in Places(e) <=> p \in Places(d) \/ p = new
    OBVIOUS
  <2>1. ASSUME NEW k \in DOMAIN e, NEW i \in 1..Len(e[k]), p = <<k, i>>
        PROVE  p \in Places(d) \/ p = new
    <3>1. CASE k # no
      BY <1>2, <2>1, <3>1, PlacesAre
    <3>2. CASE k = no /\ i = Len(q) + 1
      BY <2>1, <3>2
    <3>3. CASE k = no /\ i # Len(q) + 1
      <4>1. i \in 1..Len(q)
        BY <1>1, <1>2, <2>1, <3>3
      <4>2. no \in DOMAIN d /\ d[no] = q
        BY <1>3, <1>4, <4>1
      <4> QED BY <2>1, <3>3, <4>1, <4>2, PlacesAre
    <3> QED BY <3>1, <3>2, <3>3
  <2>2. ASSUME NEW k \in DOMAIN d, NEW i \in 1..Len(d[k]), p = <<k, i>>
        PROVE  p \in Places(e)
    <3>1. CASE k # no
      BY <1>2, <2>2, <3>1, PlacesAre
    <3>2. CASE k = no
      <4>1. i \in 1..Len(e[no]) /\ no \in DOMAIN e
        BY <1>1, <1>2, <1>3, <2>2, <3>2
      <4> QED BY <2>2, <3>2, <4>1, PlacesAre
    <3> QED BY <3>1, <3>2
  <2>3. new \in Places(e)
    <3>1. Len(q) + 1 \in 1..Len(e[no]) /\ no \in DOMAIN e
      BY <1>1, <1>2
    <3> QED BY <3>1, PlacesAre
  <2> QED BY <2>1, <2>2, <2>3, PlacesAre
<1>7. new \notin Places(d)
  <2> SUFFICES ASSUME NEW k \in DOMAIN d, NEW i \in 1..Len(d[k]), new = <<k, i>> PROVE FALSE
    BY PlacesAre
  <2>1. k = no /\ i = Len(q) + 1
    OBVIOUS
  <2>2. i \in 1..Len(q)
    BY <1>3, <2>1
  <2> QED BY <1>1, <2>1, <2>2
<1>8. Places(e) = Places(d) \cup {new}
  BY <1>6
<1>9. IsFiniteSet(Places(e)) /\ Cardinality(Places(e)) = Cardinality(Places(d)) + 1
  BY <1>7, <1>8, FS_AddElement
<1> QED BY <1>1, <1>2, <1>5, <1>9 DEF TotalSize, q, e

\* The same records in the same places: a file is created, or not.
LEMMA GrownByNone ==
    ASSUME NEW d, NEW no, NEW q, q = Chunk(d, no), NEW e, e = WithChunk(d, no, q)
    PROVE  /\ Places(e) = Places(d) /\ TotalSize(e) = TotalSize(d)
           /\ DOMAIN e = DOMAIN d \cup {no} /\ Chunk(e, no) = Chunk(d, no)
<1>1. DOMAIN e = DOMAIN d \cup {no} /\ e[no] = q
      /\ \A k \in DOMAIN d : e[k] = d[k]
  BY DEF WithChunk, Chunk
<1>2. no \notin DOMAIN d => q = <<>>
  BY DEF Chunk
<1>3. Chunk(e, no) = q
  BY <1>1 DEF Chunk
<1>4. \A k \in DOMAIN e : \A i \in 1..Len(e[k]) : k \in DOMAIN d /\ e[k] = d[k]
  <2> SUFFICES ASSUME NEW k \in DOMAIN e, NEW i \in 1..Len(e[k]), k \notin DOMAIN d PROVE FALSE
    BY <1>1
  <2>1. Len(e[k]) = 0
    BY <1>1, <1>2
  <2> QED BY <2>1
<1>5. Places(e) = Places(d)
  <2>1. \A p : p \in Places(e) <=> p \in Places(d)
    BY <1>1, <1>4, PlacesAre
  <2> QED BY <2>1
<1> QED BY <1>1, <1>3, <1>5 DEF TotalSize

\* A single chunk is all there is.
LEMMA SingleChunk ==
    ASSUME NEW d, NEW no \in Nat, NEW id \in Nat, Card(d, no, id), Cardinality(DOMAIN d) <= 1
    PROVE  TotalSize(d) = Len(Chunk(d, Newest(d)))
<1> DEFINE n == Newest(d)
           c == Len(Chunk(d, n))
<1>1. IsFiniteSet(DOMAIN d) /\ Cardinality(DOMAIN d) \in Nat
  <2>1. IsFiniteSet(1..no)
    BY FS_Interval
  <2> QED BY <2>1, FS_Subset, FS_CardinalityType DEF Card
<1>2. CASE DOMAIN d = {}
  <2>1. Places(d) = {}
    BY <1>2 DEF Places
  <2>2. Chunk(d, n) = <<>>
    BY <1>2 DEF Chunk
  <2> QED BY <2>1, <2>2, FS_EmptySet DEF TotalSize
<1>3. CASE DOMAIN d # {}
  <2>1. n \in DOMAIN d /\ DOMAIN d = {n}
    <3>1. Cardinality(DOMAIN d) = 1
      BY <1>1, <1>3, FS_EmptySet
    <3>2. PICK x : DOMAIN d = {x}
      BY <1>1, <3>1, FS_Singleton
    <3>3. n \in DOMAIN d
      BY <1>3, NewestIs
    <3> HIDE DEF n
    <3> QED BY <3>2, <3>3
  <2>2. c \in Nat /\ Chunk(d, n) = d[n]
    <3>1. Chunk(d, n) \in Seq(Records)
      BY ChunkIs
    <3> QED BY <2>1, <3>1, LenProperties DEF Chunk
  <2> HIDE DEF n
  <2>3. Places(d) = {n} \X (1..c)
    BY <2>1, <2>2 DEF Places
  <2> HIDE DEF c
  <2>4. IsFiniteSet(1..c) /\ Cardinality(1..c) = c
    BY <2>2, FS_Interval
  <2>5. Cardinality(Places(d)) = 1 * c
    <3>1. IsFiniteSet({n}) /\ Cardinality({n}) = 1
      BY FS_Singleton
    <3>2. Cardinality({n} \X (1..c)) = Cardinality({n}) * Cardinality(1..c)
      BY <2>4, <3>1, FS_Product
    <3> QED BY <2>3, <2>4, <3>1, <3>2
  <2> QED BY <2>2, <2>5 DEF TotalSize, c, n
<1> QED BY <1>2, <1>3

\* The newest chunk, where the hub's chunk is on the card.
LEMMA NewestKnown ==
    ASSUME NEW d, NEW no \in Nat, NEW id \in Nat, Card(d, no, id), no \in DOMAIN d
    PROVE  Newest(d) = no
<1>1. Newest(d) \in DOMAIN d /\ no <= Newest(d) /\ Newest(d) \in Nat
  BY NewestIs
<1>2. Newest(d) <= no
  BY <1>1 DEF Card
<1> QED BY <1>1, <1>2

\* The numbers of the invariant are numbers.
LEMMA SizesAre ==
    ASSUME TypeOK, Numbered, ChunksUpTo, SizeInv
    PROVE  /\ TotalSize(disk) \in Nat /\ NewestLen \in Nat /\ chunkSize \in Nat
           /\ cuts \in Nat /\ chunkNo \in Nat /\ appended \in Nat
           /\ Card(disk, chunkNo, appended)
           /\ TotalMax \in Nat /\ ChunkMax \in Nat /\ ChunkMax >= 1 /\ ChunkMax <= TotalMax
           /\ Chunk(disk, chunkNo) \in Seq(Records) /\ Len(Chunk(disk, chunkNo)) \in Nat
<1>1. /\ chunkSize \in Nat /\ cuts \in Nat /\ chunkNo \in Nat /\ appended \in Nat
      /\ Card(disk, chunkNo, appended)
  BY CardOf DEF TypeOK
<1>2. Chunk(disk, chunkNo) \in Seq(Records) /\ Chunk(disk, Newest(disk)) \in Seq(Records)
  BY <1>1, ChunkIs
<1>3. TotalSize(disk) \in Nat
  BY FS_CardinalityType DEF SizeInv, Room, TotalSize
<1> QED BY <1>1, <1>2, <1>3, LenProperties, LogAssumption DEF NewestLen

LEMMA InitSize == Init => SizeInv
<1> SUFFICES ASSUME Init PROVE SizeInv
  OBVIOUS
<1>1. DOMAIN disk = {} /\ chunkSize = 0 /\ job.step = "idle" /\ cuts = 0
  BY DEF Init, Idle
<1>2. Places(disk) = {} /\ \A k : Chunk(disk, k) = <<>>
  BY <1>1 DEF Places, Chunk
<1>3. TotalSize(disk) = 0 /\ NewestLen = 0 /\ IsFiniteSet(Places(disk))
  BY <1>2, FS_EmptySet DEF TotalSize, NewestLen
<1> QED BY <1>1, <1>2, <1>3, LogAssumption DEF SizeInv, SizeKnown, Room, CardLimit

\* Steps that leave card and size alone and do not end an append.
LEMMA SizeKept ==
    ASSUME SizeInv, UNCHANGED <<disk, chunkNo, chunkSize, cuts>>,
           job'.step = job.step \/ (job.step = "idle" /\ job'.step = "write")
                                \/ (job.step = "insert" /\ job'.step = "idle"),
           TypeOK
    PROVE  SizeInv'
<1>1. NewestLen' = NewestLen /\ CardLimit' = CardLimit
  BY DEF NewestLen, CardLimit
<1>2. chunkSize \in Nat /\ ChunkMax \in Nat
  BY LogAssumption DEF TypeOK
<1> QED BY <1>1, <1>2 DEF SizeInv, SizeKnown, Room

\* The arithmetic of a write, from the sizes before (T, N, s) to those after.
LEMMA WriteSize ==
    ASSUME LogInv, SizeInv, Write PROVE SizeInv'
<1> DEFINE T == TotalSize(disk)
           N == NewestLen
           q == Chunk(disk, chunkNo)
<1>1. /\ TypeOK /\ Numbered /\ ChunksUpTo /\ job.step = "write"
      /\ job' = [job EXCEPT !.step = NextStep(chunkSize')]
      /\ UNCHANGED <<chunkNo, cuts>>
  BY DEF LogInv, Write
<1>2. /\ T \in Nat /\ N \in Nat /\ chunkSize \in Nat /\ cuts \in Nat /\ chunkNo \in Nat
      /\ Card(disk, chunkNo, appended) /\ appended \in Nat
      /\ TotalMax \in Nat /\ ChunkMax \in Nat /\ ChunkMax >= 1 /\ ChunkMax <= TotalMax
      /\ q \in Seq(Records) /\ Len(q) \in Nat
  BY <1>1, SizesAre
<1>3. /\ Len(q) <= chunkSize /\ (chunkNo \notin DOMAIN disk => chunkSize = 0)
      /\ IsFiniteSet(Places(disk)) /\ T <= TotalMax + ChunkMax + cuts
      /\ T - N <= TotalMax + cuts /\ N <= ChunkMax + cuts
      /\ chunkSize < ChunkMax => T <= TotalMax + cuts + chunkSize
      /\ chunkSize >= ChunkMax => T < TotalMax + ChunkMax + cuts /\ N < ChunkMax + cuts
  BY <1>1 DEF SizeInv, SizeKnown, Room, CardLimit
<1>4. chunkNo \in DOMAIN disk => N = Len(q)
  BY <1>2, NewestKnown DEF NewestLen
<1>5. /\ job'.step = IF chunkSize' >= ChunkMax THEN "roll" ELSE "insert"
      /\ LogInv' /\ CardLimit' = TotalMax + ChunkMax + cuts
  BY <1>1, WriteInv DEF NextStep, CardLimit, TypeOK
<1>6. Card(disk', chunkNo, appended')
  BY <1>1, <1>5, CardOf DEF LogInv, Card, TypeOK, Numbered, ChunksUpTo, OnDisk
<1>7. appended' \in Nat
  BY <1>5 DEF LogInv, TypeOK
<1>11. /\ job'.step \in {"roll", "insert"}
       /\ chunkSize' \in Nat => (job'.step = "insert" => chunkSize' < ChunkMax)
  BY <1>2, <1>5
<1>8. CASE /\ disk' = WithChunk(disk, chunkNo, Append(q, job.rec))
           /\ chunkSize' = chunkSize + 1
  <2>1. /\ IsFiniteSet(Places(disk')) /\ TotalSize(disk') = T + 1
        /\ DOMAIN disk' = DOMAIN disk \cup {chunkNo}
        /\ Len(Chunk(disk', chunkNo)) = Len(q) + 1
    BY <1>2, <1>3, <1>8, GrownBy
  <2>2. NewestLen' = Len(q) + 1
    <3>1. Newest(disk') = chunkNo
      BY <1>2, <1>6, <1>7, <2>1, NewestKnown
    <3> QED BY <2>1, <3>1 DEF NewestLen
  <2>3. chunkNo \notin DOMAIN disk => Len(q) = 0
    BY DEF Chunk
  <2> HIDE DEF T, N, q
  <2>4. SizeKnown'
    <3>1. Len(Chunk(disk', chunkNo')) <= chunkSize'
      BY <1>1, <1>2, <1>3, <1>8, <2>1
    <3>2. chunkNo' \in DOMAIN disk'
      BY <1>1, <2>1
    <3>3. chunkSize' \in Nat
      BY <1>2, <1>8
    <3> QED BY <1>11, <3>1, <3>2, <3>3 DEF SizeKnown
  <2>5. T + 1 <= TotalMax + ChunkMax + cuts
    BY <1>2, <1>3
  <2>6. /\ (T + 1) - (Len(q) + 1) <= TotalMax + cuts
        /\ Len(q) + 1 <= ChunkMax + cuts
    BY <1>2, <1>3, <1>4, <2>3
  <2>7. chunkSize + 1 < ChunkMax => T + 1 <= TotalMax + cuts + (chunkSize + 1)
    BY <1>2, <1>3
  <2>8. job'.step \notin {"idle", "write"}
    BY <1>5
  <2>9. Room'
    BY <1>1, <1>5, <1>8, <2>1, <2>2, <2>5, <2>6, <2>7, <2>8 DEF Room
  <2> QED BY <2>4, <2>9 DEF SizeInv
<1>9. CASE disk' = disk /\ chunkSize' = chunkSize
  <2>1. NewestLen' = NewestLen
    BY <1>9 DEF NewestLen
  <2>2. SizeKnown'
    <3>1. chunkSize' \in Nat
      BY <1>2, <1>9
    <3> QED BY <1>1, <1>3, <1>9, <1>11, <3>1 DEF SizeKnown
  <2>3. Room'
    BY <1>1, <1>3, <1>5, <1>9, <1>11, <2>1 DEF Room
  <2> QED BY <2>2, <2>3 DEF SizeInv
<1>10. CASE disk' = WithChunk(disk, chunkNo, q) /\ chunkSize' = chunkSize + 1
  <2>1. /\ Places(disk') = Places(disk) /\ TotalSize(disk') = T
        /\ DOMAIN disk' = DOMAIN disk \cup {chunkNo}
        /\ Chunk(disk', chunkNo) = q
    <3> HIDE DEF q, T
    <3>1. q = Chunk(disk, chunkNo) /\ T = TotalSize(disk)
      BY DEF q, T
    <3> QED BY <1>10, <3>1, GrownByNone
  <2>2. NewestLen' = Len(q)
    <3>1. Newest(disk') = chunkNo
      BY <1>2, <1>6, <1>7, <2>1, NewestKnown
    <3> QED BY <2>1, <3>1 DEF NewestLen
  <2>3. chunkNo \notin DOMAIN disk => Len(q) = 0
    BY DEF Chunk
  <2> HIDE DEF T, N, q
  <2>4. SizeKnown'
    <3>1. Len(Chunk(disk', chunkNo')) <= chunkSize'
      BY <1>1, <1>2, <1>3, <1>10, <2>1
    <3>2. chunkNo' \in DOMAIN disk'
      BY <1>1, <2>1
    <3>3. chunkSize' \in Nat
      BY <1>2, <1>10
    <3> QED BY <1>11, <3>1, <3>2, <3>3 DEF SizeKnown
  <2>5. T <= TotalMax + ChunkMax + cuts
    BY <1>3
  <2>6. T - Len(q) <= TotalMax + cuts /\ Len(q) <= ChunkMax + cuts
    BY <1>2, <1>3, <1>4, <2>3
  <2>7. chunkSize + 1 < ChunkMax => T <= TotalMax + cuts + (chunkSize + 1)
    BY <1>2, <1>3
  <2>8. job'.step \notin {"idle", "write"}
    BY <1>5
  <2>9. Room'
    BY <1>1, <1>3, <1>5, <1>10, <2>1, <2>2, <2>5, <2>6, <2>7, <2>8 DEF Room
  <2> QED BY <2>4, <2>9 DEF SizeInv
<1> QED BY <1>8, <1>9, <1>10 DEF Write

LEMMA RollSize == LogInv /\ SizeInv /\ Roll => SizeInv'
<1> SUFFICES ASSUME LogInv, SizeInv, Roll PROVE SizeInv'
  OBVIOUS
<1>1. /\ TypeOK /\ chunkNo' = chunkNo + 1 /\ chunkSize' = 0 /\ job'.step = "cap"
      /\ UNCHANGED <<disk, cuts>>
  BY DEF LogInv, Roll, TypeOK
<1>2. chunkNo \in Nat /\ chunkNo + 1 \notin DOMAIN disk
  <2>1. chunkNo \in Nat /\ DOMAIN disk \subseteq 1..chunkNo
    BY DEF LogInv, TypeOK, ChunksUpTo
  <2> QED BY <2>1
<1>3. NewestLen' = NewestLen /\ Chunk(disk', chunkNo') = <<>>
  BY <1>1, <1>2 DEF NewestLen, Chunk
<1> QED BY <1>1, <1>2, <1>3 DEF SizeInv, SizeKnown, Room, CardLimit

\* The oldest chunk goes, and with it nothing of the newest.
LEMMA DeleteSize == LogInv /\ SizeInv /\ DeleteOldest => SizeInv'
<1> SUFFICES ASSUME LogInv, SizeInv, DeleteOldest PROVE SizeInv'
  OBVIOUS
<1> DEFINE D == DOMAIN disk
           m == Min(D)
           n == Newest(disk)
<1>1. /\ TypeOK /\ Numbered /\ ChunksUpTo /\ job.step = "cap" /\ Cardinality(D) > 1
      /\ disk' = [no \in D \ {m} |-> disk[no]]
      /\ UNCHANGED <<chunkNo, chunkSize, job, cuts>>
  BY DEF LogInv, DeleteOldest, OverCap
<1>2. /\ TotalSize(disk) \in Nat /\ NewestLen \in Nat /\ cuts \in Nat /\ chunkNo \in Nat
      /\ Card(disk, chunkNo, appended) /\ appended \in Nat /\ appended' = appended
      /\ TotalMax \in Nat /\ ChunkMax \in Nat
  BY <1>1, SizesAre DEF DeleteOldest
<1>3. DOMAIN disk' = D \ {m} /\ \A k \in D \ {m} : disk'[k] = disk[k]
  BY <1>1
<1>4. D # {} /\ D # {m}
  <2>1. Cardinality({}) = 0 /\ Cardinality({m}) = 1
    BY FS_EmptySet, FS_Singleton
  <2> HIDE DEF D, m
  <2> QED BY <1>1, <2>1
<1>5. n \in D /\ n \in Nat /\ \A k \in D : k <= n
  BY <1>2, <1>4, NewestIs
<1>6. D \subseteq Nat
  BY <1>2 DEF Card
<1>7. m \in D /\ \A k \in D : m <= k
  BY <1>4, <1>6, MinExists
<1> HIDE DEF D, m, n
<1>8. n # m /\ n \in D \ {m}
  <2> SUFFICES ASSUME n = m PROVE FALSE
    BY <1>5
  <2>1. PICK k \in D : k # m
    BY <1>4, <1>7
  <2>2. k <= n /\ n <= k /\ k \in Nat
    BY <1>5, <1>6, <1>7, <2>1
  <2> QED BY <1>5, <2>1, <2>2
<1>9. Newest(disk') = n
  <2>1. {1} \cup (D \ {m}) \subseteq Nat /\ n \in {1} \cup (D \ {m})
    <3>1. 1 \in Nat
      OBVIOUS
    <3> QED BY <1>6, <1>8, <3>1, Zenon
  <2>2. \A k \in {1} \cup (D \ {m}) : k <= n
    <3>1. 1 <= n
      BY <1>2, <1>5 DEF Card, D
    <3> QED BY <1>5, <3>1
  <2>3. Max({1} \cup (D \ {m})) = n
    BY <2>1, <2>2, MaxIs
  <2> QED BY <1>3, <2>3 DEF Newest
<1>10. NewestLen' = NewestLen
  <2>1. Chunk(disk', n) = Chunk(disk, n)
    BY <1>3, <1>5, <1>8 DEF Chunk, D
  <2> QED BY <1>9, <2>1 DEF NewestLen, n
<1>11. /\ IsFiniteSet(Places(disk')) /\ TotalSize(disk') \in Nat
       /\ TotalSize(disk') <= TotalSize(disk)
  <2>1. Places(disk') \subseteq Places(disk) /\ IsFiniteSet(Places(disk))
    BY <1>3, PlacesAre DEF D, SizeInv, Room
  <2> QED BY <2>1, FS_Subset, FS_CardinalityType DEF TotalSize
<1>12. SizeKnown'
  <2>1. Len(Chunk(disk', chunkNo)) <= chunkSize
    <3>1. CASE chunkNo \in D \ {m}
      BY <1>3, <3>1 DEF Chunk, SizeInv, SizeKnown, D
    <3>2. CASE chunkNo \notin D \ {m}
      <4>1. Chunk(disk', chunkNo) = <<>>
        BY <1>3, <3>2 DEF Chunk
      <4> QED BY <1>1, <4>1 DEF TypeOK
    <3> QED BY <3>1, <3>2
  <2> QED BY <1>1, <2>1 DEF SizeInv, SizeKnown
<1>13. Room'
  BY <1>1, <1>2, <1>10, <1>11 DEF SizeInv, Room, CardLimit
<1> QED BY <1>12, <1>13 DEF SizeInv

\* The cap is kept, or the newest chunk is the only one.
LEMMA CapDoneSize == LogInv /\ SizeInv /\ CapDone => SizeInv'
<1> SUFFICES ASSUME LogInv, SizeInv, CapDone PROVE SizeInv'
  OBVIOUS
<1>1. /\ TypeOK /\ Numbered /\ ChunksUpTo /\ job.step = "cap" /\ ~OverCap(disk)
      /\ UNCHANGED <<disk, chunkNo, chunkSize, cuts>> /\ job'.step = "insert"
  BY DEF LogInv, CapDone, TypeOK
<1>2. /\ TotalSize(disk) \in Nat /\ NewestLen \in Nat /\ cuts \in Nat /\ chunkNo \in Nat
      /\ Card(disk, chunkNo, appended) /\ appended \in Nat
      /\ TotalMax \in Nat /\ ChunkMax \in Nat /\ ChunkMax >= 1 /\ ChunkMax <= TotalMax
  BY <1>1, SizesAre
<1>3. chunkSize = 0 /\ NewestLen' = NewestLen /\ CardLimit' = CardLimit
  BY <1>1 DEF SizeInv, SizeKnown, NewestLen, CardLimit
<1>4. TotalSize(disk) <= TotalMax + cuts
  <2>1. CASE TotalSize(disk) <= TotalMax
    BY <1>2, <2>1
  <2>2. CASE Cardinality(DOMAIN disk) <= 1
    <3>1. TotalSize(disk) = NewestLen
      BY <1>2, <2>2, SingleChunk DEF NewestLen
    <3> QED BY <1>2, <3>1 DEF SizeInv, Room
  <2>3. Cardinality(DOMAIN disk) \in Nat
    <3>1. IsFiniteSet(1..chunkNo)
      BY <1>2, FS_Interval
    <3> QED BY <1>2, <3>1, FS_Subset, FS_CardinalityType DEF Card
  <2> QED BY <1>1, <1>2, <2>1, <2>2, <2>3 DEF OverCap
<1> QED BY <1>1, <1>2, <1>3, <1>4 DEF SizeInv, SizeKnown, Room

\* The hub goes on with the newest chunk on the card.
LEMMA RecoverSize ==
    ASSUME LogInv, SizeInv, NEW d, Recover(d),
           \/ d = disk
           \/ /\ job.step = "write" /\ chunkNo \notin DOMAIN disk
              /\ d = WithChunk(disk, chunkNo, <<>>)
    PROVE  SizeInv'
<1> DEFINE c == Len(Chunk(d, Newest(d)))
<1>1. /\ TypeOK /\ Numbered /\ ChunksUpTo /\ disk' = d /\ cuts' = cuts + 1
      /\ chunkNo' = Newest(d) /\ chunkSize' = c /\ job'.step = "idle"
  BY DEF LogInv, Recover, Idle
<1>2. /\ TotalSize(disk) \in Nat /\ NewestLen \in Nat /\ cuts \in Nat /\ chunkNo \in Nat
      /\ Card(disk, chunkNo, appended) /\ appended \in Nat /\ chunkSize \in Nat
      /\ TotalMax \in Nat /\ ChunkMax \in Nat /\ ChunkMax >= 1
  BY <1>1, SizesAre
<1>3. /\ Places(d) = Places(disk) /\ TotalSize(d) = TotalSize(disk)
      /\ c \in Nat /\ TotalSize(disk) - c <= TotalMax + cuts + 1 /\ c <= ChunkMax + cuts
  <2>1. CASE d = disk
    <3>1. c = NewestLen
      BY <2>1 DEF NewestLen
    <3> HIDE DEF c
    <3> QED BY <1>2, <2>1, <3>1 DEF SizeInv, Room
  <2>2. CASE /\ job.step = "write" /\ chunkNo \notin DOMAIN disk
             /\ d = WithChunk(disk, chunkNo, <<>>)
    <3>1. Chunk(disk, chunkNo) = <<>>
      BY <2>2 DEF Chunk
    <3>2. /\ Places(d) = Places(disk) /\ TotalSize(d) = TotalSize(disk)
          /\ DOMAIN d = DOMAIN disk \cup {chunkNo} /\ Chunk(d, chunkNo) = <<>>
      <4> DEFINE q == <<>>
      <4>1. d = WithChunk(disk, chunkNo, q) /\ q = Chunk(disk, chunkNo)
        BY <2>2, <3>1
      <4> HIDE DEF q
      <4>2. ASSUME NEW e, e = WithChunk(disk, chunkNo, q)
            PROVE  /\ Places(e) = Places(disk) /\ TotalSize(e) = TotalSize(disk)
                   /\ DOMAIN e = DOMAIN disk \cup {chunkNo} /\ Chunk(e, chunkNo) = Chunk(disk, chunkNo)
        <5>1. q = Chunk(disk, chunkNo)
          BY <4>1
        <5>2. Places(e) = Places(disk)
          BY <4>2, <5>1, GrownByNone
        <5>3. TotalSize(e) = TotalSize(disk)
          BY <4>2, <5>1, GrownByNone
        <5>4. DOMAIN e = DOMAIN disk \cup {chunkNo}
          BY <4>2, <5>1, GrownByNone
        <5>5. Chunk(e, chunkNo) = Chunk(disk, chunkNo)
          <6>1. chunkNo \in DOMAIN e /\ e[chunkNo] = q
            BY <4>2 DEF WithChunk
          <6> QED BY <5>1, <6>1 DEF Chunk
        <5> QED BY <5>2, <5>3, <5>4, <5>5
      <4> QED BY <4>1, <4>2 DEF q
    <3>3. Newest(d) = chunkNo
      <4>1. {1} \cup DOMAIN d \subseteq Nat /\ chunkNo \in {1} \cup DOMAIN d
        BY <1>2, <3>2 DEF Card
      <4>2. \A k \in {1} \cup DOMAIN d : k <= chunkNo
        BY <1>1, <1>2, <3>2 DEF Card, ChunksUpTo
      <4> QED BY <4>1, <4>2, MaxIs DEF Newest
    <3>4. c = 0
      BY <3>1, <3>2, <3>3
    <3>5. TotalSize(disk) <= TotalMax + cuts
      BY <1>2, <2>2 DEF SizeInv, SizeKnown, Room
    <3> HIDE DEF c
    <3> QED BY <1>2, <3>2, <3>4, <3>5
  <2> QED BY <2>1, <2>2
<1>4. NewestLen' = c
  BY <1>1 DEF NewestLen
<1>5. SizeKnown'
  <2>1. ASSUME chunkNo' \notin DOMAIN disk' PROVE c = 0
    BY <1>1, <2>1 DEF Chunk
  <2> HIDE DEF c
  <2>2. Len(Chunk(disk', chunkNo')) = c
    BY <1>1 DEF c
  <2> QED BY <1>1, <1>3, <2>1, <2>2 DEF SizeKnown
<1> HIDE DEF c
<1>6. Room'
  <2>1. TotalSize(disk) <= TotalMax + ChunkMax + cuts /\ IsFiniteSet(Places(disk))
    BY DEF SizeInv, Room, CardLimit
  <2>2. TotalSize(disk') = TotalSize(disk) /\ CardLimit' = TotalMax + ChunkMax + (cuts + 1)
    BY <1>1, <1>3 DEF CardLimit
  <2> QED BY <1>1, <1>2, <1>3, <1>4, <2>1, <2>2 DEF Room
<1> QED BY <1>5, <1>6 DEF SizeInv

LEMMA SizeStep == LogInv /\ SizeInv /\ [Next]_vars => SizeInv'
<1> SUFFICES ASSUME LogInv, SizeInv, [Next]_vars PROVE SizeInv'
  OBVIOUS
<1>1. TypeOK
  BY DEF LogInv
<1>2. CASE Begin
  BY <1>1, <1>2, SizeKept DEF Begin
<1>3. CASE AppendStep
  <2>1. CASE Insert
    BY <1>1, <2>1, SizeKept DEF Insert, Idle
  <2> QED BY <1>3, <2>1, WriteSize, RollSize, DeleteSize, CapDoneSize DEF AppendStep
<1>4. CASE \/ \E s \in Slots : Ask(s) \/ Answer(s) \/ Show(s) \/ LoseRequest(s)
           \/ Reload \/ UNCHANGED vars
  <2>1. UNCHANGED <<disk, chunkNo, chunkSize, cuts, job>>
    BY <1>4 DEF Ask, Answer, Show, LoseRequest, Reload, vars, log
  <2> QED BY <1>1, <2>1, SizeKept
<1>5. CASE PowerLoss
  BY <1>5, RecoverSize DEF PowerLoss
<1> QED BY <1>2, <1>3, <1>4, <1>5 DEF Next

(* The card stays within its cap and one chunk, and a record for every power  *)
(* loss that came between a write and its roll-over, whatever the sizes and   *)
(* however often the card fails (msg_log_append, enforce_total_cap,           *)
(* msg_log_init).                                                             *)
THEOREM CardStaysWithinCap == Spec => []DiskBounded
<1>1. Init => SizeInv
  BY InitSize
<1>2. LogInv /\ SizeInv /\ [Next]_vars => SizeInv'
  BY SizeStep
<1>3. SizeInv => DiskBounded
  BY DEF SizeInv, Room, CardLimit, DiskBounded
<1> QED BY <1>1, <1>2, <1>3, LogInvariant, PTL DEF Spec
=============================================================================
