--------------------------- MODULE ZimCacheProofs ---------------------------
(***************************************************************************)
(* Proofs about the cluster cache, for any workers, clusters and their     *)
(* sizes, any number of slots and any budget, with reads and allocations   *)
(* that fail: no leak and no second free of a cluster's buffer (OneOwner), *)
(* the sum of its bytes and the memory behind it (Accounted), and the page *)
(* that is sent (RightBlob).                                               *)
(*                                                                         *)
(* A buffer has the number of the read it was allocated for.  The read is  *)
(* one worker's, so what a worker allocates is nobody else's; from there a *)
(* buffer only goes to a free slot, and from a slot or a worker to the     *)
(* heap (Works, Cached).                                                   *)
(***************************************************************************)
EXTENDS ZimCache, FiniteSetTheorems, WellFoundedInduction, TLAPS

Tasks == [pc : Stages, key : Keys, cap : Nat, buf : Nat, read : Nat, out : Keys \cup {"garbage"}]
Blocks == [key : Clusters, cap : Nat]
Entries == [buf : Nat, key : Keys, size : Nat, stamp : Nat]

\* A buffer of c bytes for cluster k is the first allocation or was grown for it.
Snug(k, c) == c \in Nat /\ (c <= Start \/ c <= 2 * Size[k])

\* A worker on its way through a read, with heap h and r reads so far: what it
\* asked for, the buffer it still has to hand over, the blob it will send.
Fine(t, h, r) ==
    /\ t.pc = "idle" => t.buf = Null /\ t.read = 0
    /\ t.pc # "idle" => t.key \in Clusters /\ t.read \in 1..r
    /\ t.pc \in {"look", "unpack"} => t.buf = Null /\ t.out = "-" /\ t.read \notin DOMAIN h
    /\ t.pc = "unpack" => Snug(t.key, t.cap)
    /\ t.pc \in {"lock", "room"} => t.buf = t.read /\ h[t.buf].key = t.key
    /\ t.pc \in {"lock", "room", "free"} => t.out \in {t.key, "-"}
    /\ t.pc = "free" => t.buf \in {Null, t.read}
    /\ t.pc \in {"send", "stream", "error"} => t.buf = Null
    /\ t.pc = "send" => t.out = t.key
Works == \A w \in Workers : Fine(task[w], heap, reads)

\* No two workers are in the same read.
OwnReads ==
    \A v, w \in Workers : task[v].read = task[w].read /\ task[v].read # 0 => v = w

\* A slot with a buffer says what is in it.
Holds(e, h) ==
    e.buf # Null => e.key \in Clusters /\ e.buf \in DOMAIN h /\ h[e.buf].key = e.key
                    /\ e.size = Size[e.key]
Cached == \A s \in Slots : Holds(slot[s], heap)

\* What was allocated, in the cache or not.
Fitted == \A b \in DOMAIN heap : Snug(heap[b].key, heap[b].cap)

\* The bytes of the first slots, up to each.
Sums(sum, e, all) ==
    /\ sum \in [0..SlotCount -> 0..Budget]
    /\ sum[0] = 0 /\ sum[SlotCount] = all
    /\ \A s \in Slots : sum[s] = sum[s - 1] + (IF e[s].buf # Null THEN e[s].size ELSE 0)
    /\ \A s, t \in 0..SlotCount : s <= t => sum[s] <= sum[t]
AddedUp == \E sum \in [0..SlotCount -> 0..Budget] : Sums(sum, slot, total)

CacheInv ==
    /\ TypeOK /\ Works /\ OwnReads /\ Cached /\ Fitted /\ AddedUp /\ OneOwner
-----------------------------------------------------------------------------
(* The least element, and what depends on it *)

LEMMA MinExists ==
    ASSUME NEW T, T \subseteq Nat, T # {}
    PROVE  Min(T) \in T /\ \A y \in T : Min(T) <= y
<1> DEFINE Below(x) == 0..x
           R == StrictSubsetOrdering(Nat)
           B == {Below(x) : x \in T}
<1>1. \E b \in B : \A c \in B : ~(<<c, b>> \in R)
  <2>1. \A x \in T : IsFiniteSet(Below(x)) /\ Below(x) \subseteq Nat
    BY FS_Interval
  <2>2. B \subseteq FiniteSubsetsOf(Nat) /\ B # {}
    BY <2>1 DEF FiniteSubsetsOf
  <2> QED BY <2>2, FS_StrictSubsetOrderingWellFounded, WFMin
<1>2. PICK x \in T : \A y \in T : ~(<<Below(y), Below(x)>> \in R)
  BY <1>1
<1>3. \A y \in T : x <= y
  <2> SUFFICES ASSUME NEW y \in T, y < x PROVE FALSE
    OBVIOUS
  <2>1. Below(y) \subseteq Below(x) /\ x \in Below(x) /\ x \notin Below(y)
    OBVIOUS
  <2>2. <<Below(y), Below(x)>> \in R
    BY <2>1 DEF StrictSubsetOrdering
  <2> QED BY <1>2, <2>2
<1> QED BY <1>3 DEF Min

\* Of some slots one was used longest ago.
LEMMA OldestIs ==
    ASSUME NEW S \in SUBSET Slots, S # {}, slot \in [Slots -> Entries]
    PROVE  Oldest(S) \in S
<1> DEFINE T == {slot[s].stamp : s \in S}
<1>1. T \subseteq Nat /\ T # {}
  BY DEF Entries
<1>2. PICK s \in S : slot[s].stamp = Min(T)
  BY <1>1, MinExists
<1>3. \A t \in S : slot[s].stamp <= slot[t].stamp
  <2>1. \A y \in T : Min(T) <= y
    BY <1>1, MinExists
  <2> QED BY <1>2, <2>1
<1> QED BY <1>3 DEF Oldest
-----------------------------------------------------------------------------
(* The sum of the cache's bytes *)

\* A buffer more, in a free slot.
LEMMA SumsMore ==
    ASSUME NEW e \in [Slots -> Entries], NEW d \in [Slots -> Entries], NEW s \in Slots,
           \A t \in Slots \ {s} : d[t] = e[t], e[s].buf = Null, d[s].buf # Null,
           NEW sum, NEW all, Sums(sum, e, all), all + d[s].size <= Budget
    PROVE  \E more \in [0..SlotCount -> 0..Budget] : Sums(more, d, all + d[s].size)
<1> DEFINE n == d[s].size
           more == [i \in 0..SlotCount |-> IF i < s THEN sum[i] ELSE sum[i] + n]
<1>1. /\ n \in Nat /\ Budget \in Nat /\ SlotCount \in Nat \ {0} /\ s \in 1..SlotCount
      /\ sum \in [0..SlotCount -> 0..Budget] /\ sum[SlotCount] = all /\ sum[0] = 0
      /\ \A i, j \in 0..SlotCount : i <= j => sum[i] <= sum[j]
      /\ \A t \in Slots : sum[t] = sum[t - 1] + (IF e[t].buf # Null THEN e[t].size ELSE 0)
  BY CacheAssumption DEF Sums, Entries, Slots
<1>2. \A i \in 0..SlotCount : sum[i] \in Nat /\ sum[i] <= all
  BY <1>1
<1>3. \A i \in 0..SlotCount : more[i] = (IF i < s THEN sum[i] ELSE sum[i] + n) /\ more[i] \in 0..Budget
  BY <1>1, <1>2
<1>4. more \in [0..SlotCount -> 0..Budget]
  BY <1>3
<1> HIDE DEF more, n
<1>5. more[0] = 0 /\ more[SlotCount] = all + n
  BY <1>1, <1>3
<1>6. ASSUME NEW t \in Slots
      PROVE  more[t] = more[t - 1] + (IF d[t].buf # Null THEN d[t].size ELSE 0)
  <2>1. t \in 1..SlotCount /\ t - 1 \in 0..SlotCount /\ t \in 0..SlotCount
    BY <1>1 DEF Slots
  <2>2. sum[t] = sum[t - 1] + (IF e[t].buf # Null THEN e[t].size ELSE 0)
    BY <1>1
  <2>3. sum[t - 1] \in Nat /\ sum[t] \in Nat
    BY <1>2, <2>1
  <2>4. CASE t = s
    <3>1. more[t - 1] = sum[t - 1] /\ more[t] = sum[t] + n /\ sum[t] = sum[t - 1]
      BY <1>1, <1>3, <2>1, <2>2, <2>3, <2>4
    <3> QED BY <2>3, <2>4, <3>1 DEF n
  <2>5. CASE t # s
    <3>1. d[t] = e[t]
      BY <2>5
    <3>2. e[t].size \in Nat
      BY DEF Entries
    <3>3. CASE t < s
      BY <1>1, <1>3, <2>1, <2>2, <3>1, <3>3
    <3>4. CASE t > s
      <4>1. more[t] = sum[t] + n /\ more[t - 1] = sum[t - 1] + n
        BY <1>1, <1>3, <2>1, <3>4
      <4>2. d[t].buf = e[t].buf /\ d[t].size = e[t].size /\ n \in Nat
        BY <1>1, <3>1
      <4> QED BY <2>2, <2>3, <3>2, <4>1, <4>2
    <3> QED BY <1>1, <2>1, <2>5, <3>3, <3>4
  <2> QED BY <2>4, <2>5
<1>7. \A i, j \in 0..SlotCount : i <= j => more[i] <= more[j]
  <2> SUFFICES ASSUME NEW i \in 0..SlotCount, NEW j \in 0..SlotCount, i <= j
               PROVE  more[i] <= more[j]
    OBVIOUS
  <2>1. sum[i] <= sum[j] /\ sum[i] \in Nat /\ sum[j] \in Nat
    BY <1>1, <1>2
  <2>2. /\ more[i] = (IF i < s THEN sum[i] ELSE sum[i] + n)
        /\ more[j] = (IF j < s THEN sum[j] ELSE sum[j] + n)
    BY <1>3
  <2> QED BY <1>1, <2>1, <2>2
<1> QED BY <1>4, <1>5, <1>6, <1>7 DEF Sums, n

\* A buffer less.
LEMMA SumsLess ==
    ASSUME NEW e \in [Slots -> Entries], NEW d \in [Slots -> Entries], NEW s \in Slots,
           \A t \in Slots \ {s} : d[t] = e[t], e[s].buf # Null, d[s].buf = Null,
           NEW sum, NEW all, Sums(sum, e, all)
    PROVE  \E less \in [0..SlotCount -> 0..Budget] : Sums(less, d, all - e[s].size)
<1> DEFINE n == e[s].size
           less == [i \in 0..SlotCount |-> IF i < s THEN sum[i] ELSE sum[i] - n]
<1>1. /\ n \in Nat /\ Budget \in Nat /\ SlotCount \in Nat \ {0} /\ s \in 1..SlotCount
      /\ sum \in [0..SlotCount -> 0..Budget] /\ sum[SlotCount] = all /\ sum[0] = 0
      /\ \A i, j \in 0..SlotCount : i <= j => sum[i] <= sum[j]
      /\ \A t \in Slots : sum[t] = sum[t - 1] + (IF e[t].buf # Null THEN e[t].size ELSE 0)
  BY CacheAssumption DEF Sums, Entries, Slots
<1>2. \A i \in 0..SlotCount : sum[i] \in Nat
  BY <1>1
<1>s. s - 1 \in 0..SlotCount /\ s \in 0..SlotCount /\ sum[s] = sum[s - 1] + n
  BY <1>1
<1>b. /\ \A i \in 0..SlotCount : i < s => sum[i] + n <= sum[s]
      /\ \A i \in 0..SlotCount : i >= s => sum[s] <= sum[i]
  <2>1. \A i \in 0..SlotCount : i < s => sum[i] <= sum[s - 1]
    BY <1>1, <1>s
  <2> QED BY <1>1, <1>2, <1>s, <2>1
<1>3. \A i \in 0..SlotCount : less[i] = (IF i < s THEN sum[i] ELSE sum[i] - n) /\ less[i] \in 0..Budget
  BY <1>1, <1>2, <1>s, <1>b
<1>4. less \in [0..SlotCount -> 0..Budget]
  BY <1>3
<1> HIDE DEF less, n
<1>5. less[0] = 0 /\ less[SlotCount] = all - n
  BY <1>1, <1>3
<1>6. ASSUME NEW t \in Slots
      PROVE  less[t] = less[t - 1] + (IF d[t].buf # Null THEN d[t].size ELSE 0)
  <2>1. t \in 1..SlotCount /\ t - 1 \in 0..SlotCount /\ t \in 0..SlotCount
    BY <1>1 DEF Slots
  <2>2. sum[t] = sum[t - 1] + (IF e[t].buf # Null THEN e[t].size ELSE 0)
    BY <1>1
  <2>3. sum[t - 1] \in Nat /\ sum[t] \in Nat
    BY <1>2, <2>1
  <2>4. CASE t = s
    <3>1. less[t - 1] = sum[t - 1] /\ less[t] = sum[t] - n
      BY <1>1, <1>3, <2>1, <2>4
    <3> QED BY <1>1, <1>s, <2>3, <2>4, <3>1
  <2>5. CASE t # s
    <3>1. d[t] = e[t]
      BY <2>5
    <3>2. e[t].size \in Nat
      BY DEF Entries
    <3>3. CASE t < s
      BY <1>1, <1>3, <2>1, <2>2, <3>1, <3>3
    <3>4. CASE t > s
      <4>1. less[t] = sum[t] - n /\ less[t - 1] = sum[t - 1] - n
        BY <1>1, <1>3, <2>1, <3>4
      <4>2. d[t].buf = e[t].buf /\ d[t].size = e[t].size /\ n \in Nat
        BY <1>1, <3>1
      <4> QED BY <2>2, <2>3, <3>2, <4>1, <4>2
    <3> QED BY <1>1, <2>1, <2>5, <3>3, <3>4
  <2> QED BY <2>4, <2>5
<1>7. \A i, j \in 0..SlotCount : i <= j => less[i] <= less[j]
  <2> SUFFICES ASSUME NEW i \in 0..SlotCount, NEW j \in 0..SlotCount, i <= j
               PROVE  less[i] <= less[j]
    OBVIOUS
  <2>1. sum[i] <= sum[j] /\ sum[i] \in Nat /\ sum[j] \in Nat /\ sum[s] \in Nat
    BY <1>1, <1>2, <1>s
  <2>2. CASE i < s /\ j >= s
    <3>1. sum[i] + n <= sum[s] /\ sum[s] <= sum[j]
      BY <1>b, <2>2
    <3> QED BY <1>1, <1>3, <2>1, <2>2, <3>1
  <2>3. CASE ~(i < s /\ j >= s)
    BY <1>1, <1>3, <2>1, <2>3
  <2> QED BY <2>2, <2>3
<1> QED BY <1>4, <1>5, <1>6, <1>7 DEF Sums, n

\* Only what is in the slots counts.
LEMMA SumsSame ==
    ASSUME NEW e \in [Slots -> Entries], NEW d \in [Slots -> Entries],
           \A t \in Slots : d[t].buf = e[t].buf /\ d[t].size = e[t].size,
           NEW sum, NEW all, Sums(sum, e, all)
    PROVE  Sums(sum, d, all)
BY DEF Sums

\* A sum, slot by slot.
IsSum(u, n, f) ==
    /\ u \in [0..n -> Nat] /\ u[0] = 0
    /\ \A s \in 1..n : u[s] = u[s - 1] + f[s]

LEMMA SumExists ==
    ASSUME NEW f \in [Slots -> Nat]
    PROVE  \E u : IsSum(u, SlotCount, f)
<1> DEFINE Bad == {n \in 0..SlotCount : ~ \E u : IsSum(u, n, f)}
<1>1. SlotCount \in Nat \ {0} /\ Slots = 1..SlotCount /\ Bad \subseteq Nat
  BY CacheAssumption DEF Slots
<1>2. CASE Bad = {}
  BY <1>1, <1>2
<1>3. CASE Bad # {}
  <2>1. PICK n : n = Min(Bad)
    OBVIOUS
  <2>2. n \in Bad /\ \A y \in Bad : n <= y
    BY <1>1, <1>3, <2>1, MinExists
  <2>3. n \in 0..SlotCount /\ (~ \E u : IsSum(u, n, f)) /\ n - 1 \notin Bad
    BY <2>2
  <2> HIDE DEF Bad
  <2>4. n # 0
    <3>1. IsSum([i \in 0..0 |-> 0], 0, f)
      BY DEF IsSum
    <3> QED BY <2>3, <3>1
  <2>5. n - 1 \in 0..SlotCount /\ n \in Slots /\ n \in Nat /\ f[n] \in Nat
    BY <1>1, <2>3, <2>4
  <2>6. PICK u : IsSum(u, n - 1, f)
    BY <2>3, <2>5 DEF Bad
  <2> DEFINE v == [i \in 0..n |-> IF i = n THEN u[n - 1] + f[n] ELSE u[i]]
  <2>7. u \in [0..(n - 1) -> Nat] /\ u[0] = 0 /\ \A s \in 1..(n - 1) : u[s] = u[s - 1] + f[s]
    BY <2>6 DEF IsSum
  <2>8. \A i \in 0..n : i # n => i \in 0..(n - 1)
    BY <2>5
  <2>9. u[n - 1] \in Nat /\ v \in [0..n -> Nat] /\ v[0] = 0
    BY <2>4, <2>5, <2>7, <2>8
  <2>10. \A s \in 1..n : v[s] = v[s - 1] + f[s]
    <3> SUFFICES ASSUME NEW s \in 1..n PROVE v[s] = v[s - 1] + f[s]
      OBVIOUS
    <3>1. s \in 0..n /\ s - 1 \in 0..n /\ s - 1 # n
      BY <2>5
    <3>2. CASE s = n
      BY <3>1, <3>2
    <3>3. CASE s # n
      <4>1. s \in 1..(n - 1)
        BY <2>5, <3>3
      <4>2. v[s] = u[s] /\ v[s - 1] = u[s - 1]
        BY <3>1, <3>3
      <4> HIDE DEF v
      <4> QED BY <2>7, <4>1, <4>2
    <3> QED BY <3>2, <3>3
  <2>11. IsSum(v, n, f)
    BY <2>9, <2>10 DEF IsSum
  <2> QED BY <2>3, <2>11
<1> QED BY <1>2, <1>3

\* And there is one.
LEMMA AddUpIs ==
    ASSUME NEW f \in [Slots -> Nat], NEW u, IsSum(u, SlotCount, f)
    PROVE  AddUp(f) = u[SlotCount]
<1> DEFINE Up(v) == v = [i \in 0..SlotCount |-> IF i = 0 THEN 0 ELSE v[i - 1] + f[i]]
           up == CHOOSE v : Up(v)
           Bad == {i \in 0..SlotCount : up[i] # u[i]}
<1>1. /\ SlotCount \in Nat \ {0} /\ u \in [0..SlotCount -> Nat] /\ u[0] = 0
      /\ \A s \in 1..SlotCount : u[s] = u[s - 1] + f[s]
  BY CacheAssumption DEF IsSum
<1>2. Up(u)
  BY <1>1
<1>3. Up(up)
  BY <1>2
<1>4. AddUp(f) = up[SlotCount]
  BY DEF AddUp
<1>5. \A i \in 0..SlotCount : up[i] = IF i = 0 THEN 0 ELSE up[i - 1] + f[i]
  BY <1>3
<1> HIDE DEF Up, up
<1>6. CASE Bad # {}
  <2>1. PICK n : n = Min(Bad)
    OBVIOUS
  <2>2. n \in Bad /\ \A y \in Bad : n <= y
    <3>1. Bad \subseteq Nat
      OBVIOUS
    <3> QED BY <1>6, <2>1, <3>1, MinExists
  <2>3. n \in 0..SlotCount /\ up[n] # u[n] /\ n - 1 \notin Bad
    BY <2>2
  <2>4. CASE n = 0
    BY <1>1, <1>5, <2>3, <2>4
  <2>5. CASE n # 0
    <3>1. n \in 1..SlotCount /\ n - 1 \in 0..SlotCount
      BY <1>1, <2>3, <2>5
    <3>2. up[n - 1] = u[n - 1]
      BY <2>3, <3>1
    <3>3. up[n] = up[n - 1] + f[n] /\ u[n] = u[n - 1] + f[n]
      BY <1>1, <1>5, <2>3, <2>5, <3>1
    <3> QED BY <2>3, <3>2, <3>3
  <2> QED BY <2>4, <2>5
<1>7. CASE Bad = {}
  <2>1. SlotCount \in 0..SlotCount
    BY <1>1
  <2>2. up[SlotCount] = u[SlotCount]
    BY <1>7, <2>1
  <2> QED BY <1>4, <2>2
<1> QED BY <1>6, <1>7

\* What is at most twice as much and a constant, slot by slot, is so in all.
LEMMA AddUpBound ==
    ASSUME NEW f \in [Slots -> Nat], NEW g \in [Slots -> Nat], NEW c \in Nat,
           \A s \in Slots : g[s] <= 2 * f[s] + c
    PROVE  AddUp(g) <= 2 * AddUp(f) + SlotCount * c
<1>1. SlotCount \in Nat \ {0} /\ Slots = 1..SlotCount
  BY CacheAssumption DEF Slots
<1>2. PICK u, v : IsSum(u, SlotCount, f) /\ IsSum(v, SlotCount, g)
  BY SumExists
<1>3. /\ u \in [0..SlotCount -> Nat] /\ u[0] = 0 /\ v \in [0..SlotCount -> Nat] /\ v[0] = 0
      /\ \A s \in 1..SlotCount : u[s] = u[s - 1] + f[s] /\ v[s] = v[s - 1] + g[s]
  BY <1>2 DEF IsSum
<1> DEFINE Bad == {i \in 0..SlotCount : ~(v[i] <= 2 * u[i] + i * c)}
<1>4. CASE Bad # {}
  <2>1. PICK n : n = Min(Bad)
    OBVIOUS
  <2>2. n \in Bad /\ \A y \in Bad : n <= y
    <3>1. Bad \subseteq Nat
      OBVIOUS
    <3> QED BY <1>4, <2>1, <3>1, MinExists
  <2>3. n \in 0..SlotCount /\ ~(v[n] <= 2 * u[n] + n * c) /\ n - 1 \notin Bad
    BY <2>2
  <2>4. CASE n = 0
    BY <1>1, <1>3, <2>3, <2>4
  <2>5. CASE n # 0
    <3>1. n \in 1..SlotCount /\ n - 1 \in 0..SlotCount /\ n \in Nat /\ n - 1 \in Nat
      BY <1>1, <2>3, <2>5
    <3>2. v[n - 1] <= 2 * u[n - 1] + (n - 1) * c
      BY <2>3, <3>1
    <3>3. PICK v0, v1, u0, u1, f1, g1, m, k :
              /\ v0 = v[n - 1] /\ v1 = v[n] /\ u0 = u[n - 1] /\ u1 = u[n]
              /\ f1 = f[n] /\ g1 = g[n] /\ m = (n - 1) * c /\ k = n * c
      OBVIOUS
    <3>4. /\ v0 \in Nat /\ v1 \in Nat /\ u0 \in Nat /\ u1 \in Nat /\ f1 \in Nat /\ g1 \in Nat
          /\ v1 = v0 + g1 /\ u1 = u0 + f1 /\ g1 <= 2 * f1 + c
      BY <1>1, <1>3, <2>3, <3>1, <3>3
    <3>5. k = m + c /\ m \in Nat /\ k \in Nat
      BY <3>1, <3>3
    <3>6. v0 <= 2 * u0 + m
      BY <3>2, <3>3
    <3>7. v1 <= 2 * u1 + k
      BY <3>4, <3>5, <3>6
    <3> QED BY <2>3, <3>3, <3>7
  <2> QED BY <2>4, <2>5
<1>5. CASE Bad = {}
  <2>1. v[SlotCount] <= 2 * u[SlotCount] + SlotCount * c
    <3>1. SlotCount \in 0..SlotCount
      BY <1>1
    <3>2. \A i \in 0..SlotCount : v[i] <= 2 * u[i] + i * c
      BY Zenon, <1>5
    <3> QED BY <3>1, <3>2
  <2>2. AddUp(f) = u[SlotCount] /\ AddUp(g) = v[SlotCount]
    BY <1>2, AddUpIs
  <2> QED BY <2>1, <2>2
<1> QED BY <1>4, <1>5

LEMMA AddsUp == CacheInv => Accounted
<1> SUFFICES ASSUME CacheInv PROVE Accounted
  OBVIOUS
<1> DEFINE f == [s \in Slots |-> Bytes(s)]
           g == [s \in Slots |-> Allocated(s)]
<1>1. PICK sum \in [0..SlotCount -> 0..Budget] : Sums(sum, slot, total)
  BY DEF CacheInv, AddedUp
<1>2. SlotCount \in Nat \ {0} /\ Slots = 1..SlotCount /\ Budget \in Nat /\ Start \in Nat
  BY CacheAssumption DEF Slots
<1>3. ASSUME NEW s \in Slots
      PROVE  /\ Bytes(s) = IF slot[s].buf # Null THEN slot[s].size ELSE 0
             /\ Bytes(s) \in Nat /\ Allocated(s) \in Nat
             /\ Allocated(s) <= 2 * Bytes(s) + Start
  <2>1. CASE slot[s].buf = Null
    BY <1>2, <2>1 DEF Bytes, Allocated, Occupied
  <2>2. CASE slot[s].buf # Null
    <3>1. PICK k, c, n : k = heap[slot[s].buf].key /\ c = heap[slot[s].buf].cap /\ n = Size[k]
      OBVIOUS
    <3>2. /\ slot[s].buf \in DOMAIN heap /\ slot[s].size = n /\ k \in Clusters /\ Snug(k, c)
      BY <2>2, <3>1 DEF CacheInv, Cached, Holds, Fitted
    <3>3. n \in Nat /\ c \in Nat /\ c <= 2 * n + Start
      <4>1. n \in Nat
        BY <3>1, <3>2, CacheAssumption
      <4>2. c \in Nat /\ (c <= Start \/ c <= 2 * n)
        BY <3>1, <3>2 DEF Snug
      <4> QED BY <1>2, <4>1, <4>2
    <3>4. Bytes(s) = n /\ Allocated(s) = c
      BY <2>2, <3>1, <3>2 DEF Bytes, Allocated, Occupied, Contents
    <3> QED BY <2>2, <3>2, <3>3, <3>4
  <2> QED BY <2>1, <2>2
<1>4. f \in [Slots -> Nat] /\ g \in [Slots -> Nat] /\ \A s \in Slots : g[s] <= 2 * f[s] + Start
  BY <1>3
<1>5. IsSum(sum, SlotCount, f) /\ sum[SlotCount] = total
  <2>1. /\ sum \in [0..SlotCount -> 0..Budget] /\ sum[0] = 0 /\ sum[SlotCount] = total
        /\ \A s \in Slots : sum[s] = sum[s - 1] + (IF slot[s].buf # Null THEN slot[s].size ELSE 0)
    BY <1>1 DEF Sums
  <2>2. \A s \in Slots : f[s] = IF slot[s].buf # Null THEN slot[s].size ELSE 0
    BY <1>3
  <2> HIDE DEF f
  <2>3. \A s \in Slots : sum[s] = sum[s - 1] + f[s]
    BY Zenon, <2>1, <2>2
  <2>4. sum \in [0..SlotCount -> Nat]
    BY <1>2
  <2> QED BY <1>2, <2>1, <2>3, <2>4 DEF IsSum
<1> HIDE DEF f, g
<1>6. total = AddUp(f) /\ total <= Budget
  <2>1. sum[SlotCount] \in 0..Budget
    BY <1>2
  <2>2. AddUp(f) = sum[SlotCount]
    BY <1>4, <1>5, AddUpIs
  <2> QED BY <1>2, <1>5, <2>1, <2>2
<1>7. AddUp(g) <= 2 * AddUp(f) + SlotCount * Start
  BY <1>2, <1>4, AddUpBound
<1> QED BY <1>6, <1>7 DEF Accounted, f, g
-----------------------------------------------------------------------------
(* Steps *)

LEMMA Types ==
    ASSUME CacheInv
    PROVE  /\ slot \in [Slots -> Entries] /\ task \in [Workers -> Tasks]
           /\ total \in Int /\ clock \in Nat /\ reads \in Nat /\ faults \in Nat
           /\ DOMAIN heap \subseteq 1..reads
           /\ \A b \in DOMAIN heap : heap[b] \in Blocks /\ heap[b].key \in Clusters
           /\ holder \in Workers \cup {Nobody}
           /\ \A w \in Workers : task[w].pc = "room" <=> holder = w
           /\ \A w \in Workers : /\ task[w] \in Tasks /\ task[w].pc \in Stages
                                 /\ task[w].buf \in Nat /\ task[w].read \in Nat
           /\ \A s \in Slots : slot[s] \in Entries /\ slot[s].buf \in Nat /\ slot[s].size \in Nat
BY DEF CacheInv, TypeOK, Tasks, Blocks, Entries

\* Buffers that have an owner are allocated, and have no other.
LEMMA Owned ==
    ASSUME CacheInv
    PROVE  /\ \A s \in Slots : slot[s].buf # Null => slot[s].buf \in DOMAIN heap
           /\ \A w \in Workers : task[w].buf # Null => task[w].buf \in DOMAIN heap
           /\ \A s, t \in Slots : slot[s].buf = slot[t].buf /\ slot[s].buf # Null => s = t
           /\ \A w \in Workers : \A s \in Slots : slot[s].buf # Null => task[w].buf # slot[s].buf
           /\ \A v, w \in Workers : task[v].buf = task[w].buf /\ task[v].buf # Null => v = w
           /\ \A b \in DOMAIN heap : \/ \E s \in Slots : slot[s].buf # Null /\ slot[s].buf = b
                                     \/ \E w \in Workers : task[w].buf # Null /\ task[w].buf = b
           /\ Null \notin DOMAIN heap
<1>1. OneOwner /\ DOMAIN heap \subseteq 1..reads
  BY Types DEF CacheInv
<1> QED BY <1>1 DEF OneOwner, Occupied, Held, Null

\* And the other way round.
LEMMA OwnedSo ==
    ASSUME \A s \in Slots : slot'[s].buf # Null => slot'[s].buf \in DOMAIN heap',
           \A w \in Workers : task'[w].buf # Null => task'[w].buf \in DOMAIN heap',
           \A s, t \in Slots : slot'[s].buf = slot'[t].buf /\ slot'[s].buf # Null => s = t,
           \A w \in Workers : \A s \in Slots : slot'[s].buf # Null => task'[w].buf # slot'[s].buf,
           \A v, w \in Workers : task'[v].buf = task'[w].buf /\ task'[v].buf # Null => v = w,
           \A b \in DOMAIN heap' : \/ \E s \in Slots : slot'[s].buf # Null /\ slot'[s].buf = b
                                   \/ \E w \in Workers : task'[w].buf # Null /\ task'[w].buf = b
    PROVE  OneOwner'
<1>1. \A s \in Slots : s \in Occupied' <=> slot'[s].buf # Null
  BY DEF Occupied
<1>2. Occupied' \subseteq Slots
  BY DEF Occupied
<1>3. \A w \in Workers : Held(w)' = task'[w].buf
  BY DEF Held
<1>4. \A s, t \in Occupied' : slot'[s].buf = slot'[t].buf => s = t
  BY <1>1, <1>2
<1>5. \A w \in Workers, s \in Occupied' : Held(w)' # slot'[s].buf
  BY <1>1, <1>2, <1>3
<1>6. \A v, w \in Workers : Held(v)' = Held(w)' /\ Held(v)' # Null => v = w
  BY <1>3
<1>7. DOMAIN heap' = {slot'[s].buf : s \in Occupied'} \cup ({Held(w)' : w \in Workers} \ {Null})
  <2>1. \A b \in DOMAIN heap' :
            b \in {slot'[s].buf : s \in Occupied'} \cup ({Held(w)' : w \in Workers} \ {Null})
    BY <1>1, <1>3
  <2>2. \A b \in {slot'[s].buf : s \in Occupied'} \cup ({Held(w)' : w \in Workers} \ {Null}) :
            b \in DOMAIN heap'
    BY <1>1, <1>2, <1>3
  <2> QED BY <2>1, <2>2
<1> QED BY <1>4, <1>5, <1>6, <1>7 DEF OneOwner

\* A step that moves no buffer.
LEMMA Quiet ==
    ASSUME CacheInv, NEW w \in Workers, UNCHANGED <<heap, total>>,
           slot' \in [Slots -> Entries],
           \A s \in Slots : /\ slot'[s].buf = slot[s].buf /\ slot'[s].key = slot[s].key
                            /\ slot'[s].size = slot[s].size,
           task' \in [Workers -> Tasks], \A v \in Workers \ {w} : task'[v] = task[v],
           task'[w].buf = task[w].buf, task'[w].read \in {0, task[w].read, reads + 1},
           reads' \in {reads, reads + 1}, Fine(task'[w], heap, reads'),
           clock' \in Nat, faults' \in Nat, holder' \in Workers \cup {Nobody},
           \A v \in Workers : task'[v].pc = "room" <=> holder' = v
    PROVE  CacheInv'
<1>1. TypeOK'
  <2>1. reads' \in Nat /\ 1..reads \subseteq 1..reads'
    BY Types
  <2> QED BY <2>1, Types DEF TypeOK, Tasks, Blocks, Entries
<1>2. Works'
  <2>1. \A v \in Workers \ {w} : Fine(task[v], heap, reads')
    <3>1. \A v \in Workers : Fine(task[v], heap, reads)
      BY DEF CacheInv, Works
    <3>2. 1..reads \subseteq 1..reads'
      BY Types
    <3> QED BY <3>1, <3>2 DEF Fine
  <2>2. \A v \in Workers : Fine(task'[v], heap', reads')
    BY <2>1
  <2> QED BY <2>2 DEF Works
<1>3. OwnReads'
  <2>1. \A v \in Workers : task[v].read \in 0..reads
    <3>1. \A v \in Workers : Fine(task[v], heap, reads)
      BY DEF CacheInv, Works
    <3> QED BY <3>1, Types DEF Fine
  <2>2. \A v \in Workers \ {w} : task'[v].read = task'[w].read => task'[w].read = 0
    BY <2>1, Types DEF CacheInv, OwnReads
  <2> QED BY <2>2 DEF OwnReads, CacheInv
<1>4. Cached'
  BY DEF CacheInv, Cached, Holds
<1>5. AddedUp'
  <2>1. PICK sum \in [0..SlotCount -> 0..Budget] : Sums(sum, slot, total)
    BY DEF CacheInv, AddedUp
  <2>2. Sums(sum, slot', total')
    BY <2>1, SumsSame, Types
  <2> QED BY <2>2 DEF AddedUp
<1>6. OneOwner'
  <2>1. \A v \in Workers : task'[v].buf = task[v].buf
    OBVIOUS
  <2>2. \A v \in Workers : task'[v].buf # Null => task'[v].buf \in DOMAIN heap'
    BY <2>1, Owned
  <2>3. \A v \in Workers : \A s \in Slots : slot'[s].buf # Null => task'[v].buf # slot'[s].buf
    BY <2>1, Owned
  <2>4. \A u, v \in Workers : task'[u].buf = task'[v].buf /\ task'[u].buf # Null => u = v
    BY <2>1, Owned
  <2>5. \A b \in DOMAIN heap' : \/ \E s \in Slots : slot'[s].buf # Null /\ slot'[s].buf = b
                                \/ \E v \in Workers : task'[v].buf # Null /\ task'[v].buf = b
    BY <2>1, Owned
  <2> QED BY <2>2, <2>3, <2>4, <2>5, Owned, OwnedSo
<1>7. Fitted'
  BY DEF CacheInv, Fitted
<1> QED BY <1>1, <1>2, <1>3, <1>4, <1>5, <1>6, <1>7 DEF CacheInv

LEMMA InitInv == Init => CacheInv
<1> SUFFICES ASSUME Init PROVE CacheInv
  OBVIOUS
<1>1. TypeOK
  BY NobodyAssumption DEF Init, TypeOK, Empty, Waiting, Null, Stages, Keys
<1>2. Works /\ OwnReads /\ Cached /\ Fitted /\ OneOwner
  BY DEF Init, Works, Fine, Waiting, OwnReads, Cached, Holds, Fitted, Empty, OneOwner, Occupied, Held, Null
<1>3. AddedUp
  <2> DEFINE sum == [i \in 0..SlotCount |-> 0]
  <2>1. sum \in [0..SlotCount -> 0..Budget] /\ \A s \in Slots : s - 1 \in 0..SlotCount /\ s \in 0..SlotCount
    BY CacheAssumption DEF Slots
  <2>2. Sums(sum, slot, total)
    BY <2>1, CacheAssumption DEF Sums, Init, Empty, Null
  <2> QED BY <2>1, <2>2 DEF AddedUp
<1> QED BY <1>1, <1>2, <1>3 DEF CacheInv

\* Where everyone is.
LEMMA WhereIs ==
    ASSUME CacheInv, NEW w \in Workers
    PROVE  /\ Fine(task[w], heap, reads)
           /\ task[w].pc # "idle" => task[w].key \in Clusters /\ task[w].key \in Keys
                                     /\ task[w].read \in 1..reads
BY DEF CacheInv, Works, Fine, Keys

LEMMA GotoIs ==
    ASSUME CacheInv, NEW w \in Workers, NEW pc \in Stages, Goto(w, pc)
    PROVE  /\ task' \in [Workers -> Tasks] /\ \A v \in Workers \ {w} : task'[v] = task[v]
           /\ task'[w].pc = pc /\ task'[w].key = task[w].key /\ task'[w].buf = task[w].buf
           /\ task'[w].read = task[w].read /\ task'[w].out = task[w].out
<1>1. task \in [Workers -> Tasks]
  BY Types
<1> QED BY <1>1 DEF Goto, Tasks

LEMMA RequestStep ==
    ASSUME CacheInv, NEW w \in Workers, NEW k \in Clusters, Request(w, k)
    PROVE  CacheInv'
<1> DEFINE t == [Waiting EXCEPT !.pc = "look", !.key = k, !.read = reads + 1]
<1>1. /\ task' = [task EXCEPT ![w] = t] /\ reads' = reads + 1 /\ task[w].pc = "idle"
      /\ UNCHANGED <<slot, total, heap, holder, clock, faults>>
  BY DEF Request
<1>2. /\ t \in Tasks /\ t.pc = "look" /\ t.key = k /\ t.read = reads + 1 /\ t.buf = Null
      /\ t.out = "-"
  <2>1. reads + 1 \in Nat
    BY Types
  <2> QED BY <2>1 DEF Waiting, Tasks, Stages, Keys, Null
<1>3. Fine(t, heap, reads + 1)
  <2>1. reads + 1 \in 1..(reads + 1) /\ reads + 1 \notin DOMAIN heap
    BY Types
  <2> HIDE DEF t
  <2> QED BY <1>2, <2>1 DEF Fine
<1> HIDE DEF t
<1>4. /\ task' \in [Workers -> Tasks] /\ \A v \in Workers \ {w} : task'[v] = task[v]
      /\ task'[w] = t
  BY <1>1, <1>2, Types
<1>5. task[w].buf = Null
  BY <1>1, WhereIs DEF Fine
<1>6. \A v \in Workers : task'[v].pc = "room" <=> holder' = v
  <2>1. task'[w].pc # "room" /\ holder # w
    BY <1>1, <1>2, <1>4, Types
  <2> QED BY <1>1, <1>4, <2>1, Types
<1> QED BY <1>1, <1>2, <1>3, <1>4, <1>5, <1>6, Quiet, Types

\* The same for a step of a worker within its read, that only goes on.
LEMMA GoesOn ==
    ASSUME CacheInv, NEW w \in Workers, UNCHANGED <<heap, total, reads>>,
           slot' \in [Slots -> Entries],
           \A s \in Slots : /\ slot'[s].buf = slot[s].buf /\ slot'[s].key = slot[s].key
                            /\ slot'[s].size = slot[s].size,
           task' \in [Workers -> Tasks], \A v \in Workers \ {w} : task'[v] = task[v],
           task'[w].buf = task[w].buf, task'[w].read \in {0, task[w].read},
           Fine(task'[w], heap, reads), clock' \in Nat, faults' \in Nat,
           \/ holder' = holder /\ (task'[w].pc = "room" <=> task[w].pc = "room")
           \/ holder = Nobody /\ holder' = w /\ task'[w].pc = "room"
           \/ holder = w /\ holder' = Nobody /\ task'[w].pc # "room"
    PROVE  CacheInv'
<1>1. /\ holder' \in Workers \cup {Nobody}
      /\ \A v \in Workers : task'[v].pc = "room" <=> holder' = v
  <2>1. /\ Nobody \notin Workers /\ holder \in Workers \cup {Nobody}
        /\ \A v \in Workers : task[v].pc = "room" <=> holder = v
    BY NobodyAssumption, Types
  <2> QED BY <2>1
<1> QED BY <1>1, Quiet

LEMMA HitStep ==
    ASSUME CacheInv, NEW w \in Workers, Hit(w)
    PROVE  CacheInv'
<1> DEFINE k == task[w].key
           s == Min(Hits(k))
<1>1. /\ task[w].pc = "look" /\ Hits(k) # {}
      /\ slot' = [slot EXCEPT ![s].stamp = clock + 1] /\ clock' = clock + 1
      /\ \/ /\ task' = [task EXCEPT ![w].pc = "send", ![w].out = Contents(slot[s].buf)]
            /\ UNCHANGED faults
         \/ Goto(w, "stream") /\ faults' = faults + 1
         \/ Goto(w, "error") /\ faults' = faults + 1
      /\ UNCHANGED <<total, heap, holder, reads>>
  BY DEF Hit, Fault, NoFault
<1>2. s \in Slots /\ slot[s].key = k /\ slot[s].buf # Null
  <2>1. Hits(k) \subseteq Nat
    BY DEF Hits, Occupied, Slots
  <2>2. s \in Hits(k)
    BY <1>1, <2>1, MinExists
  <2> QED BY <2>2 DEF Hits, Occupied
<1>3. Contents(slot[s].buf) = k
  BY <1>2, Types DEF CacheInv, Cached, Holds, Contents
<1>w. /\ task[w].read \in 1..reads /\ k \in Clusters /\ k \in Keys /\ task[w].buf = Null
      /\ task[w] \in Tasks
  BY <1>1, WhereIs, Types DEF Fine
<1> HIDE DEF s, k
<1>4. /\ slot' \in [Slots -> Entries]
      /\ \A t \in Slots : /\ slot'[t].buf = slot[t].buf /\ slot'[t].key = slot[t].key
                          /\ slot'[t].size = slot[t].size
  <2>1. \A e \in Entries : \A n \in Nat :
            LET g == [e EXCEPT !.stamp = n]
            IN  g \in Entries /\ g.buf = e.buf /\ g.key = e.key /\ g.size = e.size
    BY DEF Entries
  <2>2. slot \in [Slots -> Entries] /\ clock + 1 \in Nat
    BY Types
  <2>3. \A t \in Slots : slot'[t] = IF t = s THEN [slot[t] EXCEPT !.stamp = clock + 1] ELSE slot[t]
    BY <1>1, <2>2
  <2>4. slot' = [t \in Slots |-> IF t = s THEN [slot[t] EXCEPT !.stamp = clock + 1] ELSE slot[t]]
    BY <1>1, <2>2
  <2>5. \A t \in Slots : slot[t] \in Entries
    BY <2>2
  <2> QED BY <2>1, <2>2, <2>3, <2>4, <2>5
<1>5. clock' \in Nat /\ faults' \in Nat
  BY <1>1, Types
<1>6. /\ task' \in [Workers -> Tasks] /\ \A v \in Workers \ {w} : task'[v] = task[v]
      /\ task'[w].key = k /\ task'[w].buf = Null /\ task'[w].read = task[w].read
      /\ (task'[w].pc = "send" /\ task'[w].out = k) \/ task'[w].pc \in {"stream", "error"}
  <2>1. CASE task' = [task EXCEPT ![w].pc = "send", ![w].out = Contents(slot[s].buf)]
    <3>1. \A t \in Tasks : \A o \in Keys :
             LET g == [t EXCEPT !.pc = "send", !.out = o]
             IN  g \in Tasks /\ g.pc = "send" /\ g.out = o /\ g.key = t.key
                 /\ g.buf = t.buf /\ g.read = t.read
      BY DEF Tasks, Stages
    <3>2. /\ task' \in [Workers -> Tasks] /\ \A v \in Workers \ {w} : task'[v] = task[v]
          /\ task'[w] = [task[w] EXCEPT !.pc = "send", !.out = k]
      BY <1>w, <1>3, <2>1, <3>1, Types
    <3>3. LET g == [task[w] EXCEPT !.pc = "send", !.out = k]
          IN  g.pc = "send" /\ g.out = k /\ g.key = task[w].key
              /\ g.buf = task[w].buf /\ g.read = task[w].read
      BY <1>w, <3>1
    <3>4. task[w].key = k
      BY DEF k
    <3> QED BY <1>w, <3>2, <3>3, <3>4
  <2>2. CASE \E pc \in {"stream", "error"} : Goto(w, pc)
    BY <1>w, <2>2, GotoIs DEF Stages, k
  <2> QED BY <1>1, <2>1, <2>2
<1>7. Fine(task'[w], heap, reads)
  BY <1>w, <1>6 DEF Fine
<1>8. task'[w].pc # "room" /\ task[w].pc # "room"
  BY <1>1, <1>6
<1> QED BY <1>w, <1>1, <1>4, <1>5, <1>6, <1>7, <1>8, GoesOn

\* From the lookup to the end of decompress_cluster, and into it.
LEMMA UnpackingStep ==
    ASSUME CacheInv, NEW w \in Workers,
           Miss(w) \/ Grow(w) \/ UnpackTooBig(w) \/ UnpackFails(w)
    PROVE  CacheInv'
<1>1. PICK pc \in {"unpack", "stream", "error"} : \E c \in Nat :
          /\ task[w].pc \in {"look", "unpack"}
          /\ task' = [task EXCEPT ![w].pc = pc, ![w].cap = c]
          /\ pc = "unpack" => Snug(task[w].key, c)
          /\ faults' \in Nat /\ UNCHANGED <<slot, total, heap, holder, clock, reads>>
  <2>0. task[w] \in Tasks /\ task \in [Workers -> Tasks] /\ faults \in Nat /\ Start \in Nat
    BY Types, CacheAssumption
  <2>1. CASE Miss(w)
    <3>1. Snug(task[w].key, Start)
      BY <2>0 DEF Snug
    <3> QED BY <2>0, <2>1, <3>1 DEF Miss
  <2>2. CASE Grow(w)
    <3>1. PICK k, c, m : k = task[w].key /\ c = task[w].cap /\ m = Min({2 * c, MaxCluster})
      OBVIOUS
    <3>2. /\ k \in Clusters /\ c \in Nat /\ Size[k] \in Nat /\ Size[k] >= c
          /\ task[w].pc = "unpack" /\ MaxCluster \in Nat
      BY <2>0, <2>2, <3>1, WhereIs, CacheAssumption DEF Grow, Tasks
    <3>3. 2 * c \in Nat /\ {2 * c, MaxCluster} \subseteq Nat
      BY <3>2
    <3>4. m \in Nat /\ m <= 2 * c
      <4>1. /\ Min({2 * c, MaxCluster}) \in {2 * c, MaxCluster}
            /\ \A y \in {2 * c, MaxCluster} : Min({2 * c, MaxCluster}) <= y
        BY <3>3, MinExists
      <4> QED BY <3>1, <3>2, <3>3, <4>1
    <3>5. Snug(k, m)
      BY <3>2, <3>4 DEF Snug
    <3>6. task' = [task EXCEPT ![w].pc = "unpack", ![w].cap = m]
      <4>1. task' = [task EXCEPT ![w].cap = m]
        BY <2>2, <3>1 DEF Grow
      <4>2. [task[w] EXCEPT !.cap = m] = [task[w] EXCEPT !.pc = "unpack", !.cap = m]
        BY <2>0, <3>2 DEF Tasks
      <4> QED BY <2>0, <4>1, <4>2
    <3> QED BY <2>0, <2>2, <3>1, <3>2, <3>4, <3>5, <3>6 DEF Grow
  <2>3. CASE UnpackTooBig(w)
    BY <2>0, <2>3 DEF UnpackTooBig
  <2>4. CASE UnpackFails(w)
    <3>1. /\ task' = [task EXCEPT ![w].pc = "error", ![w].cap = 0] /\ task[w].pc = "unpack"
          /\ faults' = faults + 1 /\ UNCHANGED <<slot, total, heap, holder, clock, reads>>
      BY <2>4 DEF UnpackFails, Fault
    <3>2. faults' \in Nat /\ 0 \in Nat
      BY <2>0, <3>1
    <3> QED BY <3>1, <3>2
  <2> QED BY <2>1, <2>2, <2>3, <2>4
<1>2. PICK c \in Nat :
          /\ task' = [task EXCEPT ![w].pc = pc, ![w].cap = c]
          /\ pc = "unpack" => Snug(task[w].key, c)
  BY <1>1
<1>3. /\ task' \in [Workers -> Tasks] /\ \A v \in Workers \ {w} : task'[v] = task[v]
      /\ task'[w].pc = pc /\ task'[w].cap = c /\ task'[w].key = task[w].key
      /\ task'[w].buf = task[w].buf /\ task'[w].read = task[w].read
      /\ task'[w].out = task[w].out
  <2>1. \A t \in Tasks : LET g == [t EXCEPT !.pc = pc, !.cap = c]
                         IN  g \in Tasks /\ g.pc = pc /\ g.cap = c /\ g.key = t.key
                             /\ g.buf = t.buf /\ g.read = t.read /\ g.out = t.out
    BY DEF Tasks, Stages
  <2>2. task \in [Workers -> Tasks] /\ task[w] \in Tasks
    BY Types
  <2>3. /\ task' \in [Workers -> Tasks] /\ \A v \in Workers \ {w} : task'[v] = task[v]
        /\ task'[w] = [task[w] EXCEPT !.pc = pc, !.cap = c]
    BY <1>2, <2>1, <2>2
  <2> QED BY <2>1, <2>2, <2>3
<1>4. Fine(task'[w], heap, reads)
  BY <1>1, <1>2, <1>3, WhereIs DEF Fine
<1>5. task'[w].pc # "room" /\ task[w].pc # "room"
  BY <1>1, <1>3
<1>6. clock' \in Nat /\ slot' \in [Slots -> Entries]
  BY <1>1, Types
<1> QED BY <1>1, <1>3, <1>4, <1>5, <1>6, GoesOn

LEMMA LockStep ==
    ASSUME CacheInv, NEW w \in Workers, Lock(w)
    PROVE  CacheInv'
<1>1. /\ task[w].pc = "lock" /\ Goto(w, "room") /\ holder = Nobody /\ holder' = w
      /\ UNCHANGED <<slot, total, heap, clock, reads, faults>>
  BY DEF Lock
<1>2. "room" \in Stages
  BY DEF Stages
<1>3. Fine(task'[w], heap, reads)
  BY <1>1, <1>2, GotoIs, WhereIs DEF Fine
<1> QED BY <1>1, <1>2, <1>3, GotoIs, GoesOn, Types

LEMMA AnswerStep ==
    ASSUME CacheInv, NEW w \in Workers, Answer(w)
    PROVE  CacheInv'
<1>1. /\ task[w].pc \in {"send", "stream", "error"} /\ task' = [task EXCEPT ![w] = Waiting]
      /\ UNCHANGED <<slot, total, heap, holder, clock, reads, faults>>
  BY DEF Answer
<1>2. Waiting \in Tasks /\ Waiting.pc = "idle" /\ Waiting.buf = Null /\ Waiting.read = 0
  BY DEF Waiting, Tasks, Stages, Keys, Null
<1>3. Fine(Waiting, heap, reads) /\ task[w].buf = Null
  BY <1>1, <1>2, WhereIs DEF Fine
<1>4. /\ task' \in [Workers -> Tasks] /\ \A v \in Workers \ {w} : task'[v] = task[v]
      /\ task'[w] = Waiting
  BY <1>1, <1>2, Types
<1> QED BY <1>1, <1>2, <1>3, <1>4, GoesOn, Types

LEMMA EvictStep ==
    ASSUME CacheInv, NEW s \in Slots, slot[s].buf # Null,
           total' = total - slot[s].size, heap' = Freed({slot[s].buf}),
           slot' = [slot EXCEPT ![s].buf = Null],
           UNCHANGED <<holder, task, clock, reads, faults>>
    PROVE  CacheInv'
<1>b. PICK b : b = slot[s].buf
  OBVIOUS
<1>1. /\ DOMAIN heap' = DOMAIN heap \ {b}
      /\ \A c \in DOMAIN heap \ {b} : heap'[c] = heap[c]
  BY <1>b DEF Freed
<1>2. /\ slot' \in [Slots -> Entries] /\ \A t \in Slots \ {s} : slot'[t] = slot[t]
      /\ slot'[s] \in Entries /\ slot'[s].buf = Null
  <2>1. \A e \in Entries : [e EXCEPT !.buf = Null] \in Entries /\ [e EXCEPT !.buf = Null].buf = Null
    BY DEF Entries, Null
  <2> QED BY <2>1, Types
<1>3. TypeOK'
  <2>1. total' \in Int
    BY Types
  <2>2. DOMAIN heap' \subseteq 1..reads' /\ \A c \in DOMAIN heap' : heap'[c] \in Blocks
    BY <1>1, Types
  <2>3. /\ task' = task /\ holder' = holder /\ clock' = clock /\ reads' = reads
        /\ faults' = faults
    OBVIOUS
  <2>4. TypeOK
    BY DEF CacheInv
  <2>5. slot' \in [Slots -> [buf : Nat, key : Keys, size : Nat, stamp : Nat]]
    BY <1>2 DEF Entries
  <2> QED BY <2>1, <2>2, <2>3, <2>4, <2>5 DEF TypeOK, Blocks
<1>4. Works'
  <2> SUFFICES ASSUME NEW v \in Workers PROVE Fine(task[v], heap', reads)
    BY DEF Works
  <2>1. /\ Fine(task[v], heap, reads) /\ task[v].buf # b
        /\ task[v].pc # "idle" => task[v].read \in 1..reads
        /\ task[v].buf # Null => task[v].buf \in DOMAIN heap
    BY <1>b, WhereIs, Owned
  <2>2. task[v].pc \in {"lock", "room"} => heap'[task[v].buf] = heap[task[v].buf]
    <3>1. task[v].pc \in {"lock", "room"} => task[v].buf \in 1..reads
      BY <2>1 DEF Fine
    <3>2. task[v].pc \in {"lock", "room"} => task[v].buf # Null
      BY <3>1 DEF Null
    <3> QED BY <1>1, <2>1, <3>2
  <2> QED BY <1>1, <2>1, <2>2 DEF Fine
<1>5. Cached'
  <2> SUFFICES ASSUME NEW t \in Slots PROVE Holds(slot'[t], heap')
    BY DEF Cached
  <2>1. CASE t = s
    BY <1>2, <2>1 DEF Holds
  <2>2. CASE t # s
    <3>1. slot'[t] = slot[t] /\ Holds(slot[t], heap)
      BY <1>2, <2>2 DEF CacheInv, Cached
    <3>2. slot[t].buf # Null => slot[t].buf # b
      BY <1>b, <2>2, Owned
    <3> QED BY <1>1, <3>1, <3>2 DEF Holds
  <2> QED BY <2>1, <2>2
<1>6. AddedUp'
  <2>1. PICK sum \in [0..SlotCount -> 0..Budget] : Sums(sum, slot, total)
    BY DEF CacheInv, AddedUp
  <2>2. slot \in [Slots -> Entries]
    BY Types
  <2>3. \E less \in [0..SlotCount -> 0..Budget] : Sums(less, slot', total - slot[s].size)
    BY <1>2, <2>1, <2>2, SumsLess
  <2> QED BY <2>3 DEF AddedUp
<1>7. OneOwner'
  <2>1. \A t \in Slots : slot'[t].buf # Null => t # s /\ slot'[t].buf = slot[t].buf
    BY <1>2
  <2>2. \A t \in Slots : slot'[t].buf # Null => slot'[t].buf \in DOMAIN heap'
    BY <1>b, <1>1, <2>1, Owned
  <2>3. \A v \in Workers : task'[v].buf # Null => task'[v].buf \in DOMAIN heap'
    BY <1>b, <1>1, Owned
  <2>4. \A t, u \in Slots : slot'[t].buf = slot'[u].buf /\ slot'[t].buf # Null => t = u
    BY <2>1, Owned
  <2>5. \A v \in Workers : \A t \in Slots : slot'[t].buf # Null => task'[v].buf # slot'[t].buf
    BY <2>1, Owned
  <2>6. \A u, v \in Workers : task'[u].buf = task'[v].buf /\ task'[u].buf # Null => u = v
    BY Owned
  <2>7. \A c \in DOMAIN heap' : \/ \E t \in Slots : slot'[t].buf # Null /\ slot'[t].buf = c
                                \/ \E v \in Workers : task'[v].buf # Null /\ task'[v].buf = c
    BY <1>b, <1>1, <1>2, Owned
  <2> QED BY <2>2, <2>3, <2>4, <2>5, <2>6, <2>7, OwnedSo
<1>8. OwnReads'
  BY DEF CacheInv, OwnReads
<1>9. Fitted'
  BY <1>1 DEF CacheInv, Fitted
<1> QED BY <1>3, <1>4, <1>5, <1>6, <1>7, <1>8, <1>9 DEF CacheInv

LEMMA EvictionStep ==
    ASSUME CacheInv, NEW w \in Workers, EvictForRoom(w) \/ EvictForSlot(w)
    PROVE  CacheInv'
<1>1. slot \in [Slots -> Entries] /\ SlotCount \in Nat \ {0}
  BY Types, CacheAssumption
<1>2. PICK S \in {Occupied, Slots} :
          /\ S # {} /\ (S = Slots => Occupied = Slots)
          /\ total' = total - slot[Oldest(S)].size
          /\ heap' = Freed({slot[Oldest(S)].buf})
          /\ slot' = [slot EXCEPT ![Oldest(S)].buf = Null]
          /\ UNCHANGED <<holder, task, clock, reads, faults>>
  <2>1. CASE EvictForRoom(w)
    <3>1. Occupied = Slots \/ Occupied # Slots
      OBVIOUS
    <3> QED BY <2>1, <3>1 DEF EvictForRoom
  <2>2. CASE EvictForSlot(w)
    <3>1. Slots # {}
      BY <1>1 DEF Slots
    <3> QED BY <2>2, <3>1 DEF EvictForSlot
  <2> QED BY <2>1, <2>2
<1>3. S \in SUBSET Slots /\ S \subseteq Occupied
  BY <1>2 DEF Occupied
<1>4. PICK s : s = Oldest(S)
  OBVIOUS
<1>5. s \in Slots /\ slot[s].buf # Null
  <2>1. s \in S
    BY <1>1, <1>2, <1>3, <1>4, OldestIs
  <2> QED BY <1>3, <2>1 DEF Occupied
<1>6. /\ total' = total - slot[s].size /\ heap' = Freed({slot[s].buf})
      /\ slot' = [slot EXCEPT ![s].buf = Null]
      /\ UNCHANGED <<holder, task, clock, reads, faults>>
  BY <1>2, <1>4
<1> QED BY <1>5, <1>6, EvictStep

LEMMA UnpackStep ==
    ASSUME CacheInv, NEW w \in Workers, Unpack(w)
    PROVE  CacheInv'
<1>1. /\ task[w].pc = "unpack" /\ UNCHANGED <<slot, total, holder, clock, reads>>
      /\ faults' \in Nat
  BY Types DEF Unpack, Fault, NoFault
<1>b. PICK b, k, n : b = task[w].read /\ k = task[w].key /\ n = [key |-> k, cap |-> task[w].cap]
  OBVIOUS
<1>w. /\ task \in [Workers -> Tasks] /\ task[w] \in Tasks
      /\ b \in 1..reads /\ b \in Nat /\ b # Null /\ k \in Clusters /\ k \in Keys
      /\ b \notin DOMAIN heap /\ task[w].buf = Null /\ task[w].out = "-"
      /\ holder # w
  BY <1>1, <1>b, WhereIs, Types DEF Fine, Null
<1>n. n \in Blocks /\ n.key = k /\ Snug(n.key, n.cap)
  <2>1. task[w].cap \in Nat /\ Snug(k, task[w].cap)
    BY <1>1, <1>b, <1>w, WhereIs DEF Fine, Snug
  <2> QED BY <1>b, <1>w, <2>1 DEF Blocks
<1>3. /\ heap' = [c \in DOMAIN heap \cup {b} |-> IF c = b THEN n ELSE heap[c]]
      /\ \/ task' = [task EXCEPT ![w].pc = "lock", ![w].cap = 0, ![w].buf = b, ![w].out = k]
         \/ task' = [task EXCEPT ![w].pc = "lock", ![w].cap = 0, ![w].buf = b]
  BY <1>b DEF Unpack
<1>4. CacheInv'
  <2>1. /\ task' \in [Workers -> Tasks] /\ \A v \in Workers \ {w} : task'[v] = task[v]
        /\ task'[w] \in Tasks /\ task'[w].pc = "lock" /\ task'[w].buf = b /\ task'[w].key = k
        /\ task'[w].read = b /\ task'[w].out \in {k, "-"}
    <3>1. \A t \in Tasks :
             LET g == [t EXCEPT !.pc = "lock", !.cap = 0, !.buf = b, !.out = k]
             IN  g \in Tasks /\ g.pc = "lock" /\ g.buf = b /\ g.out = k /\ g.key = t.key
                 /\ g.read = t.read
      BY <1>w DEF Tasks, Stages
    <3>2. \A t \in Tasks :
             LET g == [t EXCEPT !.pc = "lock", !.cap = 0, !.buf = b]
             IN  g \in Tasks /\ g.pc = "lock" /\ g.buf = b /\ g.out = t.out /\ g.key = t.key
                 /\ g.read = t.read
      BY <1>w DEF Tasks, Stages
    <3>3. CASE task' = [task EXCEPT ![w].pc = "lock", ![w].cap = 0, ![w].buf = b, ![w].out = k]
      <4>1. /\ task' \in [Workers -> Tasks] /\ \A v \in Workers \ {w} : task'[v] = task[v]
            /\ task'[w] = [task[w] EXCEPT !.pc = "lock", !.cap = 0, !.buf = b, !.out = k]
        BY <1>w, <3>1, <3>3
      <4>2. LET g == [task[w] EXCEPT !.pc = "lock", !.cap = 0, !.buf = b, !.out = k]
            IN  g \in Tasks /\ g.pc = "lock" /\ g.buf = b /\ g.out = k /\ g.key = task[w].key
                /\ g.read = task[w].read
        BY <1>w, <3>1
      <4> QED BY <1>b, <4>1, <4>2
    <3>4. CASE task' = [task EXCEPT ![w].pc = "lock", ![w].cap = 0, ![w].buf = b]
      <4>1. /\ task' \in [Workers -> Tasks] /\ \A v \in Workers \ {w} : task'[v] = task[v]
            /\ task'[w] = [task[w] EXCEPT !.pc = "lock", !.cap = 0, !.buf = b]
        BY <1>w, <3>2, <3>4
      <4>2. LET g == [task[w] EXCEPT !.pc = "lock", !.cap = 0, !.buf = b]
            IN  g \in Tasks /\ g.pc = "lock" /\ g.buf = b /\ g.out = task[w].out
                /\ g.key = task[w].key /\ g.read = task[w].read
        BY <1>w, <3>2
      <4> QED BY <1>w, <1>b, <4>1, <4>2
    <3> QED BY <1>3, <3>3, <3>4
  <2>2. /\ DOMAIN heap' = DOMAIN heap \cup {b} /\ heap'[b] = n
        /\ \A c \in DOMAIN heap : heap'[c] = heap[c]
    BY <1>3, <1>w
  <2>3. TypeOK'
    <3>1. \A v \in Workers : task'[v].pc = "room" <=> holder' = v
      BY <1>1, <1>w, <2>1, Types
    <3>2. DOMAIN heap' \subseteq 1..reads' /\ \A c \in DOMAIN heap' : heap'[c] \in Blocks
      BY <1>1, <1>w, <1>n, <2>2, Types
    <3>3. TypeOK
      BY DEF CacheInv
    <3> QED BY <1>1, <2>1, <3>1, <3>2, <3>3 DEF TypeOK, Tasks, Blocks
  <2>4. Works'
    <3> SUFFICES ASSUME NEW v \in Workers PROVE Fine(task'[v], heap', reads)
      BY <1>1 DEF Works
    <3>1. CASE v = w
      BY <1>w, <1>n, <2>1, <2>2, <3>1 DEF Fine
    <3>2. CASE v # w
      <4>1. /\ Fine(task[v], heap, reads) /\ task'[v] = task[v]
            /\ task[v].pc # "idle" => task[v].read \in 1..reads
            /\ task[v].buf # Null => task[v].buf \in DOMAIN heap
        BY <2>1, <3>2, WhereIs, Owned
      <4>2. task[v].read # b
        BY <1>w, <1>b, <3>2 DEF CacheInv, OwnReads, Null
      <4>3. task[v].pc \in {"lock", "room"} => heap'[task[v].buf] = heap[task[v].buf]
        BY <2>2, <4>1 DEF Fine, Null
      <4> QED BY <2>2, <4>1, <4>2, <4>3 DEF Fine
    <3> QED BY <3>1, <3>2
  <2>5. OwnReads'
    BY <1>b, <2>1 DEF CacheInv, OwnReads
  <2>6. Cached'
    BY <1>1, <2>2 DEF CacheInv, Cached, Holds
  <2>7. AddedUp'
    BY <1>1 DEF CacheInv, AddedUp
  <2>8. OneOwner'
    <3>1. \A s \in Slots : slot'[s].buf # Null => slot'[s].buf \in DOMAIN heap' /\ slot'[s].buf # b
      BY <1>1, <1>w, <2>2, Owned
    <3>2. \A v \in Workers : task'[v].buf # Null => task'[v].buf \in DOMAIN heap'
      BY <2>1, <2>2, Owned
    <3>3. \A s, t \in Slots : slot'[s].buf = slot'[t].buf /\ slot'[s].buf # Null => s = t
      BY <1>1, Owned
    <3>4. \A v \in Workers : \A s \in Slots : slot'[s].buf # Null => task'[v].buf # slot'[s].buf
      BY <1>1, <2>1, <3>1, Owned
    <3>5. \A v \in Workers \ {w} : task'[v].buf # b
      BY <1>w, <2>1, Owned
    <3>6. \A u, v \in Workers : task'[u].buf = task'[v].buf /\ task'[u].buf # Null => u = v
      BY <2>1, <3>5, Owned
    <3>7. \A c \in DOMAIN heap' : \/ \E s \in Slots : slot'[s].buf # Null /\ slot'[s].buf = c
                                  \/ \E v \in Workers : task'[v].buf # Null /\ task'[v].buf = c
      BY <1>1, <1>w, <2>1, <2>2, Owned
    <3> QED BY <3>1, <3>2, <3>3, <3>4, <3>6, <3>7, OwnedSo
  <2>9. Fitted'
    BY <1>n, <2>2 DEF CacheInv, Fitted
  <2> QED BY <2>3, <2>4, <2>5, <2>6, <2>7, <2>8, <2>9 DEF CacheInv
<1> QED BY <1>4

LEMMA StoreStep ==
    ASSUME CacheInv, NEW w \in Workers, Store(w)
    PROVE  CacheInv'
<1>1. /\ task[w].pc = "room" /\ Occupied # Slots /\ holder' = Nobody
      /\ UNCHANGED <<heap, reads, faults>>
  BY DEF Store, Released
<1>b. PICK b, k : b = task[w].buf /\ k = task[w].key
  OBVIOUS
<1>w. /\ task \in [Workers -> Tasks] /\ task[w] \in Tasks /\ holder = w
      /\ b \in 1..reads /\ b \in Nat /\ b # Null /\ b = task[w].read /\ k \in Clusters /\ k \in Keys
      /\ b \in DOMAIN heap /\ heap[b].key = k /\ task[w].out \in {k, "-"}
      /\ Size[k] \in Nat
  <2>1. b \in 1..reads /\ b = task[w].read /\ heap[b].key = k /\ task[w].out \in {k, "-"}
        /\ k \in Clusters /\ k \in Keys
    BY <1>1, <1>b, WhereIs DEF Fine
  <2>2. b \in Nat /\ b # Null
    BY <2>1 DEF Null
  <2> QED BY <1>1, <1>b, <2>1, <2>2, Owned, Types, CacheAssumption
<1>2. CASE ~Fits(w)
  <2>1. Goto(w, "free") /\ UNCHANGED <<slot, total, clock>>
    BY <1>2 DEF Store
  <2>2. "free" \in Stages
    BY DEF Stages
  <2>3. Fine(task'[w], heap, reads)
    BY <1>b, <1>w, <2>1, <2>2, GotoIs DEF Fine
  <2> QED BY <1>1, <1>w, <2>1, <2>2, <2>3, GotoIs, GoesOn, Types
<1>3. CASE Fits(w)
  <2>1. PICK s : s = Min(Slots \ Occupied)
    OBVIOUS
  <2>2. s \in Slots /\ slot[s].buf = Null
    <3>1. Slots \ Occupied \subseteq Nat /\ Slots \ Occupied # {}
      BY <1>1 DEF Slots, Occupied
    <3>2. s \in Slots \ Occupied
      BY <2>1, <3>1, MinExists
    <3> QED BY <3>2 DEF Occupied
  <2>3. PICK e : e = Entry(task[w], clock + 1)
    OBVIOUS
  <2>4. e \in Entries /\ e.buf = b /\ e.key = k /\ e.size = Size[k]
    <3>1. clock + 1 \in Nat
      BY Types
    <3> QED BY <1>b, <1>w, <2>3, <3>1 DEF Entry, Entries
  <2>5. PICK t : t = AfterStore(task[w])
    OBVIOUS
  <2>6. /\ t \in Tasks /\ t.pc = "free" /\ t.buf = Null /\ t.key = k /\ t.read = b
        /\ t.out \in {k, "-"}
    <3>1. \A u \in Tasks : LET g == [u EXCEPT !.pc = "free", !.buf = Null]
                           IN  g \in Tasks /\ g.pc = "free" /\ g.buf = Null /\ g.key = u.key
                               /\ g.read = u.read /\ g.out = u.out
      BY DEF Tasks, Stages, Null
    <3>2. t = [task[w] EXCEPT !.pc = "free", !.buf = Null]
      BY <2>5 DEF AfterStore
    <3>3. /\ t \in Tasks /\ t.pc = "free" /\ t.buf = Null /\ t.key = task[w].key
          /\ t.read = task[w].read /\ t.out = task[w].out
      BY <1>w, <3>1, <3>2
    <3> QED BY <1>b, <1>w, <3>3
  <2>7. /\ slot' = [slot EXCEPT ![s] = e] /\ total' = total + Size[k] /\ clock' = clock + 1
        /\ task' = [task EXCEPT ![w] = t] /\ total + Size[k] <= Budget
    BY <1>3, <1>b, <2>1, <2>3, <2>5 DEF Store, Fits
  <2>8. /\ slot' \in [Slots -> Entries] /\ slot'[s] = e /\ \A u \in Slots \ {s} : slot'[u] = slot[u]
        /\ task' \in [Workers -> Tasks] /\ task'[w] = t
        /\ \A v \in Workers \ {w} : task'[v] = task[v]
    BY <1>w, <2>2, <2>4, <2>6, <2>7, Types
  <2>9. TypeOK'
    <3>1. total' \in Int /\ clock' \in Nat
      BY <1>w, <2>7, Types
    <3>2. \A v \in Workers : task'[v].pc = "room" <=> holder' = v
      BY <1>1, <1>w, <2>6, <2>8, NobodyAssumption, Types
    <3>3. slot' \in [Slots -> [buf : Nat, key : Keys, size : Nat, stamp : Nat]]
      BY <2>8 DEF Entries
    <3>4. TypeOK
      BY DEF CacheInv
    <3> QED BY <1>1, <2>8, <3>1, <3>2, <3>3, <3>4 DEF TypeOK, Tasks
  <2>15. Fitted'
    BY <1>1 DEF CacheInv, Fitted
  <2>10. Works'
    <3>1. Fine(t, heap, reads)
      BY <1>w, <2>6 DEF Fine
    <3>2. \A v \in Workers : Fine(task'[v], heap, reads)
      BY <2>8, <3>1, WhereIs
    <3> QED BY <1>1, <3>2 DEF Works
  <2>11. OwnReads'
    BY <1>w, <2>6, <2>8 DEF CacheInv, OwnReads
  <2>12. Cached'
    <3>1. Holds(e, heap)
      BY <1>w, <2>4 DEF Holds
    <3>2. \A u \in Slots : Holds(slot'[u], heap)
      BY <2>8, <3>1 DEF CacheInv, Cached
    <3> QED BY <1>1, <3>2 DEF Cached
  <2>13. AddedUp'
    <3>1. PICK sum \in [0..SlotCount -> 0..Budget] : Sums(sum, slot, total)
      BY DEF CacheInv, AddedUp
    <3>2. slot \in [Slots -> Entries] /\ slot'[s].buf # Null /\ slot'[s].size = Size[k]
      BY <1>w, <2>4, <2>8, Types
    <3>3. \E more \in [0..SlotCount -> 0..Budget] : Sums(more, slot', total + slot'[s].size)
      BY <2>2, <2>7, <2>8, <3>1, <3>2, SumsMore
    <3> QED BY <2>7, <3>2, <3>3 DEF AddedUp
  <2>14. OneOwner'
    <3>1. \A u \in Slots \ {s} : slot'[u].buf # b
      <4>1. \A u \in Slots : slot[u].buf # b
        <5>1. b # Null /\ b = task[w].buf
          BY <1>b, <1>w
        <5>2. \A u \in Slots : slot[u].buf # Null => task[w].buf # slot[u].buf
          BY Owned
        <5> QED BY <5>1, <5>2
      <4> QED BY <2>8, <4>1
    <3>2. \A v \in Workers : task'[v].buf # b
      <4>1. \A v \in Workers \ {w} : task[v].buf # b
        <5>1. b # Null /\ b = task[w].buf
          BY <1>b, <1>w
        <5>2. \A v \in Workers : task[v].buf = task[w].buf /\ task[v].buf # Null => v = w
          BY Owned
        <5> QED BY <5>1, <5>2
      <4> QED BY <1>w, <2>6, <2>8, <4>1
    <3>3. \A u \in Slots : slot'[u].buf # Null => slot'[u].buf \in DOMAIN heap'
      BY <1>1, <1>w, <2>4, <2>8, Owned
    <3>4. \A v \in Workers : task'[v].buf # Null => task'[v].buf \in DOMAIN heap' /\ v # w
      BY <1>1, <2>6, <2>8, Owned
    <3>5. \A u, v \in Slots : slot'[u].buf = slot'[v].buf /\ slot'[u].buf # Null => u = v
      BY <2>4, <2>8, <3>1, Owned
    <3>6. \A v \in Workers : \A u \in Slots : slot'[u].buf # Null => task'[v].buf # slot'[u].buf
      BY <1>w, <2>4, <2>6, <2>8, <3>2, Owned
    <3>7. \A u, v \in Workers : task'[u].buf = task'[v].buf /\ task'[u].buf # Null => u = v
      BY <2>8, <3>4, Owned
    <3>8. \A c \in DOMAIN heap' : \/ \E u \in Slots : slot'[u].buf # Null /\ slot'[u].buf = c
                                  \/ \E v \in Workers : task'[v].buf # Null /\ task'[v].buf = c
      <4> SUFFICES ASSUME NEW c \in DOMAIN heap
                   PROVE  \/ \E u \in Slots : slot'[u].buf # Null /\ slot'[u].buf = c
                          \/ \E v \in Workers : task'[v].buf # Null /\ task'[v].buf = c
        BY <1>1
      <4>1. CASE \E u \in Slots : slot[u].buf # Null /\ slot[u].buf = c
        BY <2>2, <2>8, <4>1
      <4>2. CASE \E v \in Workers \ {w} : task[v].buf # Null /\ task[v].buf = c
        BY <2>8, <4>2
      <4>3. CASE c = b
        BY <1>w, <2>2, <2>4, <2>8, <4>3
      <4> QED BY <1>b, <4>1, <4>2, <4>3, Owned
    <3> QED BY <3>3, <3>4, <3>5, <3>6, <3>7, <3>8, OwnedSo
  <2> QED BY <2>9, <2>10, <2>11, <2>12, <2>13, <2>14, <2>15 DEF CacheInv
<1> QED BY <1>2, <1>3

LEMMA FreeStep ==
    ASSUME CacheInv, NEW w \in Workers, Free(w)
    PROVE  CacheInv'
<1>1. /\ task[w].pc = "free" /\ heap' = Freed({task[w].buf})
      /\ UNCHANGED <<slot, total, holder, clock, reads, faults>>
  BY DEF Free
<1>2. PICK pc \in {"send", "stream", "error"} :
          /\ task' = [task EXCEPT ![w].pc = pc, ![w].buf = Null]
          /\ pc = "send" => task[w].out # "-"
  BY DEF Free
<1>b. PICK b, k : b = task[w].buf /\ k = task[w].key
  OBVIOUS
<1>w. /\ task \in [Workers -> Tasks] /\ task[w] \in Tasks /\ holder # w
      /\ k \in Clusters /\ task[w].out \in {k, "-"} /\ task[w].read \in 1..reads
  BY <1>1, <1>b, WhereIs, Types DEF Fine
<1>3. /\ task' \in [Workers -> Tasks] /\ \A v \in Workers \ {w} : task'[v] = task[v]
      /\ task'[w] \in Tasks /\ task'[w].pc = pc /\ task'[w].buf = Null /\ task'[w].key = k
      /\ task'[w].read = task[w].read /\ task'[w].out = task[w].out
  <2>1. \A t \in Tasks : LET g == [t EXCEPT !.pc = pc, !.buf = Null]
                         IN  g \in Tasks /\ g.pc = pc /\ g.buf = Null /\ g.key = t.key
                             /\ g.read = t.read /\ g.out = t.out
    BY DEF Tasks, Stages, Null
  <2>2. LET g == [task[w] EXCEPT !.pc = pc, !.buf = Null]
        IN  g \in Tasks /\ g.pc = pc /\ g.buf = Null /\ g.key = task[w].key
            /\ g.read = task[w].read /\ g.out = task[w].out
    BY <1>w, <2>1
  <2>3. /\ task' \in [Workers -> Tasks] /\ \A v \in Workers \ {w} : task'[v] = task[v]
        /\ task'[w] = [task[w] EXCEPT !.pc = pc, !.buf = Null]
    BY <1>2, <1>w, <2>1
  <2> QED BY <1>b, <2>2, <2>3
<1>4. /\ DOMAIN heap' = DOMAIN heap \ {b}
      /\ \A c \in DOMAIN heap \ {b} : heap'[c] = heap[c]
  BY <1>1, <1>b DEF Freed
<1>5. TypeOK'
  <2>1. \A v \in Workers : task'[v].pc = "room" <=> holder' = v
    BY <1>1, <1>w, <1>3, Types
  <2>2. DOMAIN heap' \subseteq 1..reads' /\ \A c \in DOMAIN heap' : heap'[c] \in Blocks
    BY <1>1, <1>4, Types
  <2>3. TypeOK
    BY DEF CacheInv
  <2> QED BY <1>1, <1>3, <2>1, <2>2, <2>3 DEF TypeOK, Tasks, Blocks
<1>6. Works'
  <2> SUFFICES ASSUME NEW v \in Workers PROVE Fine(task'[v], heap', reads)
    BY <1>1 DEF Works
  <2>1. CASE v = w
    <3>1. task[w].read \in 1..reads /\ task'[w].pc \in {"send", "stream", "error"}
          /\ (task'[w].pc = "send" => task'[w].out = k)
      BY <1>2, <1>w, <1>3
    <3> QED BY <1>w, <1>3, <2>1, <3>1 DEF Fine
  <2>2. CASE v # w
    <3>1. /\ Fine(task[v], heap, reads) /\ task'[v] = task[v]
          /\ task[v].pc # "idle" => task[v].read \in 1..reads
          /\ task[v].buf # Null => task[v].buf \in DOMAIN heap
      BY <1>3, <2>2, WhereIs, Owned
    <3>2. task[v].buf # Null => task[v].buf # b
      BY <1>b, <2>2, Owned
    <3>3. task[v].pc \in {"lock", "room"} => heap'[task[v].buf] = heap[task[v].buf]
      <4>1. task[v].pc \in {"lock", "room"} => task[v].buf \in 1..reads
        BY <3>1 DEF Fine
      <4>2. task[v].pc \in {"lock", "room"} => task[v].buf # Null
        BY <4>1 DEF Null
      <4> QED BY <1>4, <3>1, <3>2, <4>2
    <3> QED BY <1>4, <3>1, <3>3 DEF Fine
  <2> QED BY <2>1, <2>2
<1>7. OwnReads'
  BY <1>3 DEF CacheInv, OwnReads
<1>8. Cached'
  <2> SUFFICES ASSUME NEW s \in Slots PROVE Holds(slot[s], heap')
    BY <1>1 DEF Cached
  <2>1. Holds(slot[s], heap)
    BY DEF CacheInv, Cached
  <2>2. slot[s].buf # Null => slot[s].buf # b
    BY <1>b, Owned
  <2> QED BY <1>4, <2>1, <2>2 DEF Holds
<1>9. AddedUp'
  BY <1>1 DEF CacheInv, AddedUp
<1>10. OneOwner'
  <2>1. \A s \in Slots : slot'[s].buf # Null => slot'[s].buf \in DOMAIN heap'
    BY <1>1, <1>b, <1>4, Owned
  <2>2. \A v \in Workers : task'[v].buf # Null => v # w /\ task'[v].buf = task[v].buf
    BY <1>3
  <2>3. \A v \in Workers : task'[v].buf # Null => task'[v].buf \in DOMAIN heap'
    BY <1>b, <1>4, <2>2, Owned
  <2>4. \A s, t \in Slots : slot'[s].buf = slot'[t].buf /\ slot'[s].buf # Null => s = t
    BY <1>1, Owned
  <2>5. \A v \in Workers : \A s \in Slots : slot'[s].buf # Null => task'[v].buf # slot'[s].buf
    BY <1>1, <2>2, Owned
  <2>6. \A u, v \in Workers : task'[u].buf = task'[v].buf /\ task'[u].buf # Null => u = v
    BY <2>2, Owned
  <2>7. \A c \in DOMAIN heap' : \/ \E s \in Slots : slot'[s].buf # Null /\ slot'[s].buf = c
                                \/ \E v \in Workers : task'[v].buf # Null /\ task'[v].buf = c
    BY <1>1, <1>b, <1>3, <1>4, Owned
  <2> QED BY <2>1, <2>3, <2>4, <2>5, <2>6, <2>7, OwnedSo
<1>11. Fitted'
  BY <1>4 DEF CacheInv, Fitted
<1> QED BY <1>5, <1>6, <1>7, <1>8, <1>9, <1>10, <1>11 DEF CacheInv
-----------------------------------------------------------------------------
(* The theorems *)

\* The invariant of the cache: what a worker holds at each point of a read, what
\* is in the slots, and the bytes of the first slots up to each (zstd_blob_copy).
THEOREM CacheInvariant == Spec => []CacheInv
<1>1. Init => CacheInv
  BY InitInv
<1>2. CacheInv /\ [Next]_vars => CacheInv'
  <2> SUFFICES ASSUME CacheInv, [Next]_vars PROVE CacheInv'
    OBVIOUS
  <2>1. ASSUME NEW w \in Workers, Work(w) PROVE CacheInv'
    BY <2>1, HitStep, UnpackingStep, UnpackStep, LockStep, EvictionStep, StoreStep, FreeStep,
       AnswerStep DEF Work
  <2>2. ASSUME NEW w \in Workers, NEW k \in Clusters, Request(w, k) PROVE CacheInv'
    BY <2>2, RequestStep
  <2>3. CASE UNCHANGED vars
    <3>1. /\ slot' = slot /\ total' = total /\ heap' = heap /\ holder' = holder
          /\ task' = task /\ clock' = clock /\ reads' = reads /\ faults' = faults
      BY <2>3 DEF vars
    <3>2. TypeOK'
      BY <3>1 DEF CacheInv, TypeOK
    <3>3. Works' /\ OwnReads' /\ Cached' /\ Fitted' /\ AddedUp'
      BY <3>1 DEF CacheInv, Works, OwnReads, Cached, Fitted, AddedUp
    <3>4. OneOwner'
      BY <3>1 DEF CacheInv, OneOwner, Occupied, Held
    <3> QED BY <3>2, <3>3, <3>4 DEF CacheInv
  <2> QED BY <2>1, <2>2, <2>3 DEF Next
<1> QED BY <1>1, <1>2, PTL DEF Spec

\* No cluster's buffer is leaked, freed twice or used after it was freed, with any
\* number of workers in zstd_blob_copy, missing the same cluster together or not,
\* also when the cache declines a buffer ("free(cbuf)").
THEOREM EveryBufferHasOneOwner == Spec => []OneOwner
<1>1. CacheInv => OneOwner
  BY DEF CacheInv
<1> QED BY <1>1, CacheInvariant, PTL

\* s_cc_total is the lengths of the clusters in the cache, and never beyond
\* ZIM_CCACHE_BUDGET; the buffers they are in take at most twice that and a first
\* allocation (outcap = 262144) a slot.  For any sizes of clusters, number of slots
\* and budget, and however far a buffer was grown before the cluster fitted.
THEOREM BudgetIsKept == Spec => []Accounted
BY AddsUp, CacheInvariant, PTL

\* What serve_blob sends is cut from the cluster that the request asked for,
\* whatever was evicted and stored in the meantime.
THEOREM RightClusterIsSent == Spec => []RightBlob
<1>1. CacheInv => RightBlob
  BY DEF CacheInv, Works, Fine, RightBlob
<1> QED BY <1>1, CacheInvariant, PTL

=============================================================================
