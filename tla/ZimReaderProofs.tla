-------------------------- MODULE ZimReaderProofs --------------------------
(***************************************************************************)
(* Proofs about two parts of the archive reader.                           *)
(*                                                                         *)
(* Finding a page, for any archives, any table and any number of workers:  *)
(* a search ends at the page asked for or, if no read failed, there is     *)
(* none (FindsRight), with one read of the card for each time what is left *)
(* is halved (SearchesGoOn).  The order of keys is shown to be a strict    *)
(* total order, and that what the table keeps of two keys decides between  *)
(* them exactly as the keys do, whenever it decides.  Then no bisection    *)
(* leaves its key behind, as long as what is in the table is true.         *)
(*                                                                         *)
(* Decompressing a cluster, for frames of any blocks and buffers of any    *)
(* size: the hub gets every byte once and in order (Unpacked), a match     *)
(* still finds its window in the decoder's ring (WindowKept), and every    *)
(* call does something (NeverStalls).  Each byte of the input is counted,  *)
(* in the file, the loop's buffer or the decoder (InputCounted), each one  *)
(* of the content in the output or the ring (OutputCounted, RingHolds),    *)
(* and a call is only made with input and with room (HubReady, Progress).  *)
(***************************************************************************)
EXTENDS ZimLookup, ZstdStream, SequenceTheorems, FiniteSetTheorems, TLAPS

-----------------------------------------------------------------------------
(* The order of keys (strcmp) *)

(* A set of natural numbers that is not empty has a least element. *)
LEMMA LeastExists ==
    ASSUME NEW T, T \subseteq Nat, T # {}
    PROVE  \E x \in T : \A y \in T : x <= y
<1> DEFINE Below(x) == 0..x
           R == StrictSubsetOrdering(Nat)
           B == {Below(x) : x \in T}
<1>1. \E b \in B : \A c \in B : ~(<<c, b>> \in R)
  <2>1. \A x \in T : IsFiniteSet(Below(x)) /\ Below(x) \subseteq Nat
    BY FS_Interval
  <2>2. B \subseteq FiniteSubsetsOf(Nat) /\ B # {}
    BY <2>1 DEF FiniteSubsetsOf
  <2> QED BY <2>2, FS_StrictSubsetOrderingWellFounded, WFMin
<1>2. PICK x \in T : \A y \in T : ~(<<Below(y), Below(x)>> \in R)
  BY <1>1
<1>3. ASSUME NEW y \in T, y < x PROVE FALSE
  <2>1. Below(y) \subseteq Below(x) /\ x \in Below(x) /\ x \notin Below(y)
    BY <1>3
  <2>2. <<Below(y), Below(x)>> \in R
    BY <2>1 DEF StrictSubsetOrdering
  <2> QED BY <1>2, <2>2
<1> QED BY <1>3

LEMMA LessIrreflexive == \A p \in Seq(Nat) : ~Less(p, p)
BY DEF Less

LEMMA LessTransitive ==
    ASSUME NEW p \in Seq(Nat), NEW q \in Seq(Nat), NEW r \in Seq(Nat),
           Less(p, q), Less(q, r)
    PROVE  Less(p, r)
<1>1. PICK i \in 1..Len(q) :
          /\ \A j \in 1..(i - 1) : j <= Len(p) /\ p[j] = q[j]
          /\ i > Len(p) \/ (i <= Len(p) /\ p[i] < q[i])
  BY DEF Less
<1>2. PICK k \in 1..Len(r) :
          /\ \A j \in 1..(k - 1) : j <= Len(q) /\ q[j] = r[j]
          /\ k > Len(q) \/ (k <= Len(q) /\ q[k] < r[k])
  BY DEF Less
<1>3. Len(p) \in Nat /\ Len(q) \in Nat /\ Len(r) \in Nat
  BY LenProperties
<1>4. /\ \A j \in 1..Len(p) : p[j] \in Nat
      /\ \A j \in 1..Len(q) : q[j] \in Nat
      /\ \A j \in 1..Len(r) : r[j] \in Nat
  BY ElementOfSeq
<1>5. CASE i < k
  <2>1. i \in 1..Len(r) /\ q[i] = r[i]
    BY <1>2, <1>3, <1>5
  <2>2. \A j \in 1..(i - 1) : j <= Len(p) /\ p[j] = r[j]
    BY <1>1, <1>2, <1>5
  <2>3. i > Len(p) \/ (i <= Len(p) /\ p[i] < r[i])
    BY <1>1, <2>1
  <2> QED BY <2>1, <2>2, <2>3 DEF Less
<1>6. CASE k <= i
  <2>1. \A j \in 1..(k - 1) : j <= Len(p) /\ p[j] = r[j]
    BY <1>1, <1>2, <1>6
  <2>2. k <= Len(q) /\ q[k] < r[k]
    BY <1>1, <1>2, <1>3, <1>6
  <2>3. CASE k < i
    <3>1. k <= Len(p) /\ p[k] = q[k]
      BY <1>1, <1>2, <2>3
    <3> QED BY <2>1, <2>2, <3>1 DEF Less
  <2>4. CASE k = i
    <3>1. k > Len(p) \/ (k <= Len(p) /\ p[k] < q[k])
      BY <1>1, <2>4
    <3>2. k > Len(p) \/ (k <= Len(p) /\ p[k] < r[k])
      <4>1. CASE k > Len(p)
        BY <4>1
      <4>2. CASE k <= Len(p) /\ p[k] < q[k]
        <5>1. p[k] \in Nat /\ q[k] \in Nat /\ r[k] \in Nat
          BY <1>3, <1>4, <2>2, <4>2
        <5>2. p[k] < q[k] /\ q[k] < r[k]
          BY <2>2, <4>2
        <5>3. p[k] < r[k]
          BY <5>1, <5>2
        <5> QED BY <4>2, <5>3
      <4> QED BY <3>1, <4>1, <4>2
    <3> QED BY <2>1, <3>2 DEF Less
  <2> QED BY <1>1, <1>2, <1>6, <2>3, <2>4
<1> QED BY <1>1, <1>2, <1>5, <1>6

LEMMA LessAsymmetric ==
    \A p, q \in Seq(Nat) : ~(Less(p, q) /\ Less(q, p))
BY LessIrreflexive, LessTransitive

LEMMA LessTotal ==
    ASSUME NEW p \in Seq(Nat), NEW q \in Seq(Nat), p # q
    PROVE  Less(p, q) \/ Less(q, p)
<1> DEFINE Differ == {i \in 1..(Len(p) + Len(q) + 1) :
                        ~(i <= Len(p) /\ i <= Len(q) /\ p[i] = q[i])}
<1>1. Len(p) \in Nat /\ Len(q) \in Nat
  BY LenProperties
<1>2. /\ \A j \in 1..Len(p) : p[j] \in Nat
      /\ \A j \in 1..Len(q) : q[j] \in Nat
  BY ElementOfSeq
<1>3. Len(p) + Len(q) + 1 \in Differ /\ Differ \subseteq Nat
  BY <1>1
<1>4. PICK i \in Differ : \A j \in Differ : i <= j
  <2> HIDE DEF Differ
  <2> QED BY <1>3, LeastExists
<1>5. \A j \in 1..(i - 1) : j <= Len(p) /\ j <= Len(q) /\ p[j] = q[j]
  <2> SUFFICES ASSUME NEW j \in 1..(i - 1) PROVE j \notin Differ
    BY <1>1
  <2> QED BY <1>4
\* Not both of them end before i: they would be equal.
<1>6. i <= Len(p) \/ i <= Len(q)
  <2> SUFFICES ASSUME i > Len(p), i > Len(q) PROVE FALSE
    BY <1>1
  <2>1. Len(p) = Len(q)
    <3>1. CASE Len(p) < Len(q)
      <4>1. Len(q) \in 1..(i - 1)
        BY <1>1, <3>1
      <4> QED BY <1>1, <1>5, <3>1, <4>1
    <3>2. CASE Len(q) < Len(p)
      <4>1. Len(p) \in 1..(i - 1)
        BY <1>1, <3>2
      <4> QED BY <1>1, <1>5, <3>2, <4>1
    <3> QED BY <1>1, <3>1, <3>2
  <2>2. \A j \in 1..Len(p) : p[j] = q[j]
    BY <1>1, <1>5
  <2> QED BY <2>1, <2>2, SeqEqual
<1>7. ~(i <= Len(p) /\ i <= Len(q) /\ p[i] = q[i]) /\ i \in Nat /\ i >= 1
  OBVIOUS
<1> HIDE DEF Differ
<1>8. CASE i <= Len(q) /\ (i > Len(p) \/ p[i] < q[i])
  <2>1. i \in 1..Len(q) /\ (i > Len(p) \/ (i <= Len(p) /\ p[i] < q[i]))
    BY <1>1, <1>7, <1>8
  <2> QED BY <1>5, <2>1 DEF Less
<1>9. CASE i <= Len(p) /\ (i > Len(q) \/ q[i] < p[i])
  <2>1. i \in 1..Len(p) /\ (i > Len(q) \/ (i <= Len(q) /\ q[i] < p[i]))
    BY <1>1, <1>7, <1>9
  <2> QED BY <1>5, <2>1 DEF Less
<1> QED BY <1>1, <1>2, <1>6, <1>7, <1>8, <1>9

(* What strcmp says of two keys. *)
LEMMA CompareIs ==
    ASSUME NEW p \in Seq(Nat), NEW q \in Seq(Nat)
    PROVE  /\ Compare(p, q) \in {-1, 0, 1}
           /\ Compare(p, q) = 0 <=> p = q
           /\ Compare(p, q) = -1 <=> Less(p, q)
           /\ Compare(p, q) = 1 <=> Less(q, p)
<1>1. CASE p = q
  BY <1>1, LessIrreflexive DEF Compare
<1>2. CASE p # q
  <2>1. CASE Less(p, q)
    BY <1>2, <2>1, LessAsymmetric DEF Compare
  <2>2. CASE ~Less(p, q)
    BY <1>2, <2>2, LessTotal DEF Compare
  <2> QED BY <2>1, <2>2
<1> QED BY <1>1, <1>2
-----------------------------------------------------------------------------
(* What the table keeps of a key *)

LEMMA PrefixIs ==
    ASSUME NEW p \in Seq(Nat)
    PROVE  /\ Prefix(p) \in Seq(Nat) /\ Len(Prefix(p)) <= Len(p) /\ Len(Prefix(p)) <= KeyLen
           /\ Len(p) <= KeyLen => Prefix(p) = p
           /\ Len(p) > KeyLen => Len(Prefix(p)) = KeyLen
           /\ \A i \in 1..Len(Prefix(p)) : Prefix(p)[i] = p[i]
<1>1. Len(p) \in Nat /\ KeyLen \in Nat /\ KeyLen >= 1
  BY LenProperties, LookupAssumption
<1>2. CASE Len(p) <= KeyLen
  BY <1>1, <1>2 DEF Prefix
<1>3. CASE Len(p) > KeyLen
  <2> DEFINE q == SubSeq(p, 1, KeyLen)
  <2>1. q \in Seq(Nat) /\ Len(q) = KeyLen /\ \A i \in 1..KeyLen : q[i] = p[i]
    BY <1>1, <1>3, SubSeqProperties
  <2> HIDE DEF q
  <2>2. Prefix(p) = q
    BY <1>3 DEF Prefix, q
  <2> QED BY <1>1, <1>3, <2>1, <2>2
<1> QED BY <1>1, <1>2, <1>3

LEMMA PrefixLess ==
    ASSUME NEW p \in Seq(Nat), NEW q \in Seq(Nat), Less(Prefix(p), Prefix(q))
    PROVE  Less(p, q)
<1> DEFINE a == Prefix(p)
           b == Prefix(q)
<1>1. Len(p) \in Nat /\ Len(q) \in Nat /\ Len(a) \in Nat /\ Len(b) \in Nat /\ KeyLen \in Nat
  BY LenProperties, PrefixIs, LookupAssumption
<1>2. /\ Len(a) <= Len(p) /\ Len(b) <= Len(q) /\ Len(b) <= KeyLen
      /\ Len(p) <= KeyLen => a = p
      /\ Len(p) > KeyLen => Len(a) = KeyLen
      /\ \A i \in 1..Len(a) : a[i] = p[i]
      /\ \A i \in 1..Len(b) : b[i] = q[i]
  BY PrefixIs
<1>3. PICK i \in 1..Len(b) :
          /\ \A j \in 1..(i - 1) : j <= Len(a) /\ a[j] = b[j]
          /\ i > Len(a) \/ (i <= Len(a) /\ a[i] < b[i])
  BY DEF Less
<1> HIDE DEF a, b
<1>4. \A j \in 1..(i - 1) : j <= Len(p) /\ p[j] = q[j]
  <2> SUFFICES ASSUME NEW j \in 1..(i - 1) PROVE j <= Len(p) /\ p[j] = q[j]
    OBVIOUS
  <2>1. j <= Len(a) /\ a[j] = b[j]
    BY <1>3
  <2>2. j \in 1..Len(a) /\ j \in 1..Len(b)
    BY <1>1, <2>1
  <2>3. a[j] = p[j] /\ b[j] = q[j]
    BY <1>2, <2>2
  <2>4. j <= Len(p)
    BY <1>1, <1>2, <2>1
  <2> QED BY <2>1, <2>3, <2>4
<1>5. i > Len(p) \/ (i <= Len(p) /\ p[i] < q[i])
  <2>1. b[i] = q[i]
    BY <1>2
  <2>2. CASE i > Len(a)
    <3>1. Len(a) < KeyLen
      BY <1>1, <1>2, <2>2
    <3>2. ~(Len(p) > KeyLen)
      BY <1>1, <1>2, <3>1
    <3>3. a = p
      BY <1>1, <1>2, <3>2
    <3> QED BY <2>2, <3>3
  <2>3. CASE i <= Len(a) /\ a[i] < b[i]
    <3>1. i \in 1..Len(a) /\ i <= Len(p)
      BY <1>1, <1>2, <2>3
    <3>2. a[i] = p[i]
      BY <1>2, <3>1
    <3> QED BY <2>1, <2>3, <3>1, <3>2
  <2> QED BY <1>3, <2>2, <2>3
<1>6. i \in 1..Len(q)
  BY <1>1, <1>2, <1>3
<1> QED BY <1>4, <1>5, <1>6 DEF Less

(* What is kept of two keys, when it differs, is ordered as they are. *)
LEMMA PrefixDecides ==
    ASSUME NEW p \in Seq(Nat), NEW q \in Seq(Nat), Compare(Prefix(p), Prefix(q)) # 0
    PROVE  Compare(Prefix(p), Prefix(q)) = Compare(p, q)
<1>1. Prefix(p) \in Seq(Nat) /\ Prefix(q) \in Seq(Nat)
  BY PrefixIs
<1>2. CASE Less(Prefix(p), Prefix(q))
  <2>1. Less(p, q)
    BY <1>2, PrefixLess
  <2>2. Compare(p, q) = -1
    BY <2>1, CompareIs
  <2>3. Compare(Prefix(p), Prefix(q)) = -1
    BY <1>1, <1>2, CompareIs
  <2> QED BY <2>2, <2>3
<1>3. CASE Less(Prefix(q), Prefix(p))
  <2>1. Less(q, p)
    BY <1>3, PrefixLess
  <2>2. Compare(p, q) = 1
    BY <2>1, CompareIs
  <2>3. Compare(Prefix(p), Prefix(q)) = 1
    BY <1>1, <1>3, CompareIs
  <2> QED BY <2>2, <2>3
<1>4. Prefix(p) # Prefix(q)
  BY <1>1, CompareIs
<1> QED BY <1>1, <1>2, <1>3, <1>4, LessTotal
-----------------------------------------------------------------------------
(* The invariant *)

Stages == {"idle", "probe", "read", "insert", "confirm", "found", "missing"}
FindType ==
    find \in [Workers -> [pc : Stages, z : Archives \cup {"-"}, key : Targets \cup {<<>>},
                          lo : Nat, hi : Nat, ok : BOOLEAN]]

\* Places in an archive.
Within(z, idx) == z \in Archives /\ idx \in 0..(Len(Archive[z]) - 1)

\* What the table has used is true of the card: a whole key, or a longer one's start.
TrueEntry(e) ==
    e.used => /\ Within(e.zid, e.idx)
              /\ IF e.complete THEN e.key = KeyAt(e.zid, e.idx)
                 ELSE e.key = Prefix(KeyAt(e.zid, e.idx))
TableInv ==
    /\ DOMAIN table = {Hash[p] : p \in DOMAIN Hash}
    /\ \A h \in DOMAIN table : TrueEntry(table[h])

\* The key is not below lo, nor from hi on.
Between(f) ==
    /\ f.z \in Archives /\ f.key \in Targets
    /\ f.lo \in Nat /\ f.hi \in Nat /\ f.lo <= f.hi /\ f.hi <= Len(Archive[f.z])
    /\ \A i \in 0..(f.lo - 1) : Less(KeyAt(f.z, i), f.key)
    /\ \A i \in f.hi..(Len(Archive[f.z]) - 1) : Less(f.key, KeyAt(f.z, i))

\* Where a search stands.
Sound(f) ==
    f.pc # "idle" =>
        /\ Between(f)
        /\ f.pc \in {"read", "insert", "confirm", "found"} => f.lo < f.hi
        /\ f.pc = "found" => KeyAt(f.z, Mid(f)) = f.key
        /\ f.pc = "missing" /\ f.ok => f.lo >= f.hi

FindInv == FindType /\ TableInv /\ \A w \in Workers : Sound(find[w])
-----------------------------------------------------------------------------
(* One comparison *)

Find == [pc : Stages, z : Archives \cup {"-"}, key : Targets \cup {<<>>},
         lo : Nat, hi : Nat, ok : BOOLEAN]

LEMMA KeysAre ==
    ASSUME NEW z \in Archives
    PROVE  /\ Len(Archive[z]) \in Nat
           /\ \A i \in 0..(Len(Archive[z]) - 1) : KeyAt(z, i) \in Seq(Nat)
           /\ \A i, j \in 0..(Len(Archive[z]) - 1) : i < j => Less(KeyAt(z, i), KeyAt(z, j))
<1>1. Archive[z] \in Seq(Seq(Nat)) /\ Len(Archive[z]) \in Nat
  BY LookupAssumption
<1>2. \A i \in 0..(Len(Archive[z]) - 1) : i + 1 \in 1..Len(Archive[z])
  BY <1>1
<1>3. \A i \in 1..Len(Archive[z]) : Archive[z][i] \in Seq(Nat)
  BY <1>1, ElementOfSeq
<1>4. \A i, j \in 1..Len(Archive[z]) : i < j => Less(Archive[z][i], Archive[z][j])
  BY LookupAssumption
<1> QED BY <1>1, <1>2, <1>3, <1>4 DEF KeyAt

LEMMA MidIs ==
    ASSUME NEW f \in Find, f.lo < f.hi
    PROVE  Mid(f) \in Nat /\ f.lo <= Mid(f) /\ Mid(f) < f.hi
<1>1. f.lo \in Nat /\ f.hi \in Nat
  BY DEF Find
<1>2. \A lo, hi \in Nat : lo < hi =>
          lo + (hi - lo) \div 2 \in Nat /\ lo <= lo + (hi - lo) \div 2 /\ lo + (hi - lo) \div 2 < hi
  OBVIOUS
<1> QED BY <1>1, <1>2 DEF Mid

\* The half that is left still holds the key, if the archive has it.
LEMMA NarrowedIs ==
    ASSUME NEW f \in Find, f.pc # "idle", Between(f), f.lo < f.hi, NEW cmp,
           cmp = Compare(KeyAt(f.z, Mid(f)), f.key), cmp # 0
    PROVE  Narrowed(f, cmp) \in Find /\ Sound(Narrowed(f, cmp))
<1> DEFINE n == Len(Archive[f.z])
           m == Mid(f)
           K(i) == KeyAt(f.z, i)
<1>1. f.z \in Archives /\ f.key \in Seq(Nat) /\ f.lo \in Nat /\ f.hi \in Nat /\ f.hi <= n
  BY LookupAssumption DEF Between
<1>2. n \in Nat /\ (\A i \in 0..(n - 1) : K(i) \in Seq(Nat))
      /\ \A i, j \in 0..(n - 1) : i < j => Less(K(i), K(j))
  BY <1>1, KeysAre
<1>3. m \in Nat /\ f.lo <= m /\ m < f.hi /\ m \in 0..(n - 1)
  BY <1>1, <1>2, MidIs
<1>4. /\ \A i \in 0..(f.lo - 1) : Less(K(i), f.key)
      /\ \A i \in f.hi..(n - 1) : Less(f.key, K(i))
  BY DEF Between
<1>5. /\ cmp = -1 \/ cmp = 1
      /\ cmp = -1 => Less(K(m), f.key)
      /\ cmp = 1 => Less(f.key, K(m))
  BY <1>1, <1>2, <1>3, CompareIs
<1> HIDE DEF n, m, K
<1>6. CASE cmp = -1
  <2> DEFINE g == [f EXCEPT !.pc = "probe", !.lo = m + 1]
  <2>1. g \in Find /\ g.pc = "probe" /\ g.z = f.z /\ g.key = f.key /\ g.hi = f.hi /\ g.lo = m + 1
    <3>1. \A k \in Nat : LET h == [f EXCEPT !.pc = "probe", !.lo = k] IN
              /\ h \in Find /\ h.pc = "probe" /\ h.z = f.z /\ h.key = f.key
              /\ h.hi = f.hi /\ h.lo = k
      BY DEF Find, Stages
    <3>2. m + 1 \in Nat
      BY <1>3
    <3> QED BY <3>1, <3>2
  <2> HIDE DEF g
  <2>2. \A i \in 0..m : Less(K(i), f.key)
    <3> SUFFICES ASSUME NEW i \in 0..m, i # m PROVE Less(K(i), f.key)
      BY <1>5, <1>6
    <3>1. i \in 0..(n - 1) /\ i < m
      BY <1>2, <1>3
    <3> QED BY <1>1, <1>2, <1>3, <1>5, <1>6, <3>1, LessTransitive
  <2>3. Between(g)
    <3>1. \A i \in 0..(g.lo - 1) : Less(K(i), f.key)
      BY <1>3, <2>1, <2>2
    <3>2. g.z \in Archives /\ g.key \in Targets /\ g.lo \in Nat /\ g.hi \in Nat
          /\ g.lo <= g.hi /\ g.hi <= n
      BY <1>1, <1>3, <2>1 DEF Between
    <3> QED BY <1>4, <2>1, <3>1, <3>2 DEF Between, n, K
  <2>4. Narrowed(f, cmp) = g
    BY <1>6 DEF Narrowed, g, m
  <2> QED BY <2>1, <2>3, <2>4 DEF Sound
<1>7. CASE cmp = 1
  <2> DEFINE g == [f EXCEPT !.pc = "probe", !.hi = m]
  <2>1. g \in Find /\ g.pc = "probe" /\ g.z = f.z /\ g.key = f.key /\ g.hi = m /\ g.lo = f.lo
    BY <1>3 DEF Find, Stages
  <2> HIDE DEF g
  <2>2. \A i \in m..(n - 1) : Less(f.key, K(i))
    <3> SUFFICES ASSUME NEW i \in m..(n - 1), i # m PROVE Less(f.key, K(i))
      BY <1>5, <1>7
    <3>1. i \in 0..(n - 1) /\ m < i
      BY <1>2, <1>3
    <3> QED BY <1>1, <1>2, <1>3, <1>5, <1>7, <3>1, LessTransitive
  <2>3. Between(g)
    <3>1. \A i \in g.hi..(n - 1) : Less(f.key, K(i))
      BY <1>3, <2>1, <2>2
    <3>2. g.z \in Archives /\ g.key \in Targets /\ g.lo \in Nat /\ g.hi \in Nat
          /\ g.lo <= g.hi /\ g.hi <= n
      BY <1>1, <1>2, <1>3, <2>1 DEF Between
    <3> QED BY <1>4, <2>1, <3>1, <3>2 DEF Between, n, K
  <2>4. Narrowed(f, cmp) = g
    BY <1>7 DEF Narrowed, g, m
  <2> QED BY <2>1, <2>3, <2>4 DEF Sound
<1> QED BY <1>5, <1>6, <1>7

\* A comparison with what is on the card.
LEMMA SettledIs ==
    ASSUME NEW f \in Find, f.pc # "idle", Between(f), f.lo < f.hi
    PROVE  Settled(f) \in Find /\ Sound(Settled(f))
<1> DEFINE cmp == Compare(KeyAt(f.z, Mid(f)), f.key)
<1>1. CASE cmp # 0
  <2>1. Settled(f) = Narrowed(f, cmp)
    BY <1>1 DEF Settled
  <2> QED BY <1>1, <2>1, NarrowedIs
<1>2. CASE cmp = 0
  <2> DEFINE g == [f EXCEPT !.pc = "found"]
  <2>1. /\ g \in Find /\ g.pc = "found" /\ g.z = f.z /\ g.key = f.key
        /\ g.lo = f.lo /\ g.hi = f.hi
    BY DEF Find, Stages
  <2>2. Settled(f) = g
    BY <1>2 DEF Settled, Found
  <2> HIDE DEF g
  <2>3. Between(g) /\ Mid(g) = Mid(f)
    BY <2>1 DEF Between, Mid
  <2>4. f.z \in Archives /\ f.key \in Seq(Nat)
    BY LookupAssumption DEF Between
  <2>5. KeyAt(f.z, Mid(f)) \in Seq(Nat)
    <3>1. Mid(f) \in Nat /\ Mid(f) < f.hi /\ f.hi \in Nat /\ f.hi <= Len(Archive[f.z])
      BY MidIs DEF Between
    <3>2. Len(Archive[f.z]) \in Nat
      BY <2>4, KeysAre
    <3> QED BY <2>4, <3>1, <3>2, KeysAre
  <2>6. KeyAt(f.z, Mid(f)) = f.key
    BY <1>2, <2>4, <2>5, CompareIs
  <2> QED BY <2>1, <2>2, <2>3, <2>6 DEF Sound
<1> QED BY <1>1, <1>2

\* What the table decides is what the card would have decided.
LEMMA TableDecides ==
    ASSUME TableInv, NEW z, NEW idx, Within(z, idx), NEW key \in Seq(Nat), Decisive(z, idx, key)
    PROVE  FromTable(z, idx, key) = Compare(KeyAt(z, idx), key)
<1> DEFINE h == Hash[<<z, idx>>]
           e == table[h]
<1>1. KeyAt(z, idx) \in Seq(Nat) /\ h \in DOMAIN table
  BY KeysAre, LookupAssumption DEF Within, TableInv
<1>2. e.used /\ e.zid = z /\ e.idx = idx
  BY DEF Decisive, Known
<1>3. IF e.complete THEN e.key = KeyAt(z, idx) ELSE e.key = Prefix(KeyAt(z, idx))
  <2>1. TrueEntry(e)
    BY <1>1 DEF TableInv
  <2> HIDE DEF e
  <2> QED BY <1>2, <2>1 DEF TrueEntry
<1>4. CASE e.complete
  BY <1>3, <1>4 DEF FromTable
<1>5. CASE ~e.complete
  <2>1. FromTable(z, idx, key) # 0
    BY <1>5 DEF Decisive
  <2>2. FromTable(z, idx, key) = Compare(Prefix(KeyAt(z, idx)), Prefix(key))
    BY <1>3, <1>5 DEF FromTable
  <2> QED BY <1>1, <2>1, <2>2, PrefixDecides
<1> QED BY <1>4, <1>5

LEMMA KeptIsTrue ==
    ASSUME NEW z, NEW idx, Within(z, idx)
    PROVE  TrueEntry(Kept(z, idx))
<1>1. KeyAt(z, idx) \in Seq(Nat)
  BY KeysAre DEF Within
<1>2. Len(KeyAt(z, idx)) < KeyLen => Prefix(KeyAt(z, idx)) = KeyAt(z, idx)
  BY <1>1, PrefixIs, LenProperties, LookupAssumption
<1> QED BY <1>2 DEF TrueEntry, Kept
-----------------------------------------------------------------------------
(* The steps of a search *)

\* What a step of a worker must keep.
LEMMA FindStep ==
    ASSUME FindInv, NEW w \in Workers, NEW g \in Find, Sound(g),
           find' = [find EXCEPT ![w] = g], TableInv'
    PROVE  FindInv'
<1>1. find \in [Workers -> Find]
  BY DEF FindInv, FindType, Find
<1>2. find' \in [Workers -> Find] /\ \A v \in Workers : find'[v] = IF v = w THEN g ELSE find[v]
  BY <1>1
<1>3. FindType'
  BY <1>2 DEF FindType, Find
<1>4. \A v \in Workers : Sound(find'[v])
  BY <1>2 DEF FindInv
<1> QED BY <1>3, <1>4 DEF FindInv

\* A search that only changes where it is.
LEMMA MovedIs ==
    ASSUME NEW f \in Find, Sound(f), f.pc # "idle", NEW pc \in {"read", "insert", "confirm"}, f.lo < f.hi
    PROVE  [f EXCEPT !.pc = pc] \in Find /\ Sound([f EXCEPT !.pc = pc])
<1> DEFINE g == [f EXCEPT !.pc = pc]
<1>1. g \in Find /\ g.pc = pc /\ g.z = f.z /\ g.key = f.key /\ g.lo = f.lo /\ g.hi = f.hi
  BY DEF Find, Stages
<1> HIDE DEF g
<1>2. Sound(g)
  BY <1>1 DEF Sound, Between
<1> QED BY <1>1, <1>2 DEF g

LEMMA NotFoundIs ==
    ASSUME NEW f \in Find, Sound(f), f.pc # "idle", NEW ok \in BOOLEAN, ok => f.lo >= f.hi
    PROVE  NotFound(f, ok) \in Find /\ Sound(NotFound(f, ok))
<1> DEFINE g == [f EXCEPT !.pc = "missing", !.ok = ok]
<1>1. /\ g \in Find /\ g.pc = "missing" /\ g.z = f.z /\ g.key = f.key
      /\ g.lo = f.lo /\ g.hi = f.hi /\ g.ok = ok
  BY DEF Find, Stages
<1> HIDE DEF g
<1>2. Sound(g)
  BY <1>1 DEF Sound, Between
<1> QED BY <1>1, <1>2 DEF g, NotFound

LEMMA WaitingIs == Waiting \in Find /\ Sound(Waiting)
BY DEF Waiting, Find, Stages, Sound

LEMMA InitInv == Init => FindInv
<1> SUFFICES ASSUME Init PROVE FindInv
  OBVIOUS
<1>1. FindType /\ \A w \in Workers : Sound(find[w])
  BY WaitingIs DEF Init, FindType, Find
<1>2. TableInv
  BY DEF Init, TableInv, TrueEntry, Unused
<1> QED BY <1>1, <1>2 DEF FindInv

LEMMA BeginInv ==
    ASSUME FindInv, NEW w \in Workers, NEW z \in Archives, NEW key \in Targets, Begin(w, z, key)
    PROVE  FindInv'
<1> DEFINE g == [pc |-> "probe", z |-> z, key |-> key, lo |-> 0, hi |-> Len(Archive[z]), ok |-> TRUE]
<1>1. Len(Archive[z]) \in Nat
  BY KeysAre
<1>2. g \in Find
  BY <1>1 DEF Find, Stages
<1>3. Sound(g)
  BY <1>1 DEF Sound, Between
<1>4. find' = [find EXCEPT ![w] = g] /\ TableInv'
  BY DEF Begin, FindInv, TableInv
<1> HIDE DEF g
<1> QED BY <1>2, <1>3, <1>4, FindStep

LEMMA SearchInv ==
    ASSUME FindInv, NEW w \in Workers,
           Probe(w) \/ Read(w) \/ Confirm(w) \/ Exhausted(w) \/ Return(w)
    PROVE  FindInv'
<1> DEFINE f == find[w]
<1>1. f \in Find /\ Sound(f) /\ find \in [Workers -> Find] /\ TableInv
  BY DEF FindInv, FindType, Find
<1>2. TableInv'
  BY <1>1 DEF TableInv, Probe, Read, Confirm, Exhausted, Return
<1>3. \E g \in Find : Sound(g) /\ find' = [find EXCEPT ![w] = g]
  <2>2. CASE Probe(w)
    <3> DEFINE cmp == FromTable(f.z, Mid(f), f.key)
    <3>1. f.pc = "probe" /\ f.lo < f.hi
      BY <2>2 DEF Probe
    <3>2. Between(f)
      BY <1>1, <3>1 DEF Sound
    <3>3. CASE ~Decisive(f.z, Mid(f), f.key)
      <4>1. find' = [find EXCEPT ![w] = [f EXCEPT !.pc = "read"]]
        BY <2>2, <3>3 DEF Probe
      <4> QED BY <1>1, <3>1, <4>1, MovedIs
    <3>4. CASE Decisive(f.z, Mid(f), f.key) /\ cmp = 0
      <4>1. find' = [find EXCEPT ![w] = [f EXCEPT !.pc = "confirm"]]
        BY <2>2, <3>4 DEF Probe
      <4> QED BY <1>1, <3>1, <4>1, MovedIs
    <3>5. CASE Decisive(f.z, Mid(f), f.key) /\ cmp # 0
      <4>1. find' = [find EXCEPT ![w] = Narrowed(f, cmp)]
        BY <2>2, <3>5 DEF Probe
      <4>2. f.key \in Seq(Nat) /\ f.z \in Archives
        BY <3>2, LookupAssumption DEF Between
      <4>3. Within(f.z, Mid(f))
        <5>1. Mid(f) \in Nat /\ Mid(f) < f.hi /\ f.hi \in Nat /\ f.hi <= Len(Archive[f.z])
          BY <1>1, <3>1, <3>2, MidIs DEF Between
        <5>2. Len(Archive[f.z]) \in Nat
          BY <4>2, KeysAre
        <5> QED BY <4>2, <5>1, <5>2 DEF Within
      <4>4. cmp = Compare(KeyAt(f.z, Mid(f)), f.key)
        BY <1>1, <3>5, <4>2, <4>3, TableDecides
      <4> HIDE DEF cmp
      <4>5. Narrowed(f, cmp) \in Find /\ Sound(Narrowed(f, cmp))
        BY <1>1, <3>1, <3>2, <3>5, <4>4, NarrowedIs
      <4> QED BY <4>1, <4>5
    <3> QED BY <3>3, <3>4, <3>5
  <2>3. CASE Read(w)
    <3>1. f.pc = "read" /\ f.lo < f.hi
      BY <1>1, <2>3 DEF Read, Sound
    <3>2. CASE find' = [find EXCEPT ![w].pc = "insert"]
      <4>1. find' = [find EXCEPT ![w] = [f EXCEPT !.pc = "insert"]]
        BY <3>2
      <4> QED BY <1>1, <3>1, <4>1, MovedIs
    <3>3. CASE find' = [find EXCEPT ![w] = NotFound(@, FALSE)]
      BY <1>1, <3>1, <3>3, NotFoundIs
    <3> QED BY <2>3, <3>2, <3>3 DEF Read
  <2>4. CASE Confirm(w)
    <3>1. f.pc = "confirm" /\ f.lo < f.hi /\ Between(f)
      BY <1>1, <2>4 DEF Confirm, Sound
    <3>2. CASE find' = [find EXCEPT ![w] = Settled(@)]
      BY <1>1, <3>1, <3>2, SettledIs
    <3>3. CASE find' = [find EXCEPT ![w] = NotFound(@, FALSE)]
      BY <1>1, <3>1, <3>3, NotFoundIs
    <3> QED BY <2>4, <3>2, <3>3 DEF Confirm
  <2>5. CASE Exhausted(w)
    <3>1. f.pc = "probe" /\ f.lo >= f.hi /\ find' = [find EXCEPT ![w] = NotFound(f, TRUE)]
      BY <2>5 DEF Exhausted
    <3> QED BY <1>1, <3>1, NotFoundIs
  <2>6. CASE Return(w)
    BY <2>6, WaitingIs DEF Return
  <2> QED BY <2>2, <2>3, <2>4, <2>5, <2>6
<1> QED BY <1>2, <1>3, FindStep

LEMMA InsertInv == ASSUME FindInv, NEW w \in Workers, Insert(w) PROVE FindInv'
<1> DEFINE f == find[w]
           h == Hash[<<f.z, Mid(f)>>]
<1>1. f \in Find /\ Sound(f) /\ TableInv
  BY DEF FindInv, FindType, Find
<1>2. /\ f.pc = "insert" /\ f.lo < f.hi /\ Between(f)
      /\ table' = [table EXCEPT ![h] = Kept(f.z, Mid(f))]
      /\ find' = [find EXCEPT ![w] = Settled(f)]
  BY <1>1 DEF Insert, Sound
<1>3. Within(f.z, Mid(f))
  <2>1. Mid(f) \in Nat /\ Mid(f) < f.hi /\ f.hi \in Nat /\ f.hi <= Len(Archive[f.z])
        /\ f.z \in Archives
    BY <1>1, <1>2, MidIs DEF Between
  <2>2. Len(Archive[f.z]) \in Nat
    BY <2>1, KeysAre
  <2> QED BY <2>1, <2>2 DEF Within
<1>4. TrueEntry(Kept(f.z, Mid(f)))
  BY <1>3, KeptIsTrue
<1>5. TableInv'
  <2> HIDE DEF h, f
  <2>1. \A k \in DOMAIN table : table'[k] = table[k] \/ table'[k] = Kept(f.z, Mid(f))
    BY <1>2
  <2>2. DOMAIN table' = DOMAIN table
    BY <1>2
  <2> QED BY <1>1, <1>4, <2>1, <2>2 DEF TableInv
<1> QED BY <1>1, <1>2, <1>5, SettledIs, FindStep
-----------------------------------------------------------------------------
(* The theorems *)

(* At every step of every search the key is where the search still looks, and *)
(* the table tells the truth about the card (zim_find, dk_insert, dk_try).    *)
THEOREM FindInvariant == Spec => []FindInv
<1>1. Init => FindInv
  BY InitInv
<1>2. FindInv /\ [Next]_vars => FindInv'
  <2> SUFFICES ASSUME FindInv, [Next]_vars PROVE FindInv'
    OBVIOUS
  <2>1. ASSUME NEW w \in Workers, Step(w) PROVE FindInv'
    BY <2>1, SearchInv, InsertInv DEF Step
  <2>2. ASSUME NEW w \in Workers, NEW z \in Archives, NEW key \in Targets, Begin(w, z, key)
        PROVE  FindInv'
    BY <2>2, BeginInv
  <2>3. CASE UNCHANGED vars
    BY <2>3 DEF vars, FindInv, FindType, TableInv
  <2> QED BY <2>1, <2>2, <2>3 DEF Next
<1> QED BY <1>1, <1>2, PTL DEF Spec

(* A search ends at the page asked for, or the archive has no such page,      *)
(* unless a read failed: for any sorted archives, any table, whatever other   *)
(* workers put into the table or threw out of it meanwhile (zim_find).        *)
THEOREM SearchesAreRight == Spec => []FindsRight
<1>1. FindInv => FindsRight
  <2> SUFFICES ASSUME FindInv, NEW w \in Workers
               PROVE  LET f == find[w] IN
                      /\ f.pc = "found" => KeyAt(f.z, Mid(f)) = f.key
                      /\ f.pc = "missing" /\ f.ok => f.key \notin ToSet(Archive[f.z])
    BY DEF FindsRight
  <2> DEFINE f == find[w]
  <2>1. Sound(f)
    BY DEF FindInv
  <2> HIDE DEF f
  <2>2. f.pc = "found" => KeyAt(f.z, Mid(f)) = f.key
    BY <2>1 DEF Sound
  <2>3. ASSUME f.pc = "missing", f.ok, f.key \in ToSet(Archive[f.z]) PROVE FALSE
    <3>1. Between(f) /\ f.lo >= f.hi
      BY <2>1, <2>3 DEF Sound
    <3>2. f.z \in Archives /\ f.key \in Seq(Nat) /\ Len(Archive[f.z]) \in Nat
      BY <3>1, KeysAre, LookupAssumption DEF Between
    <3>3. PICK i \in 1..Len(Archive[f.z]) : Archive[f.z][i] = f.key
      <4>1. Archive[f.z] \in Seq(Seq(Nat))
        BY <3>2, LookupAssumption
      <4> QED BY <2>3, <4>1, LenProperties DEF ToSet
    <3>4. i - 1 \in 0..(Len(Archive[f.z]) - 1) /\ KeyAt(f.z, i - 1) = f.key
      BY <3>2, <3>3 DEF KeyAt
    <3>5. ~Less(f.key, f.key)
      BY <3>2, LessIrreflexive
    <3>6. f.lo \in Nat /\ f.hi \in Nat /\ f.lo = f.hi
      BY <3>1 DEF Between
    <3>7. i - 1 \in 0..(f.lo - 1) \/ i - 1 \in f.hi..(Len(Archive[f.z]) - 1)
      BY <3>2, <3>4, <3>6
    <3> QED BY <3>1, <3>4, <3>5, <3>7 DEF Between
  <2> QED BY <2>2, <2>3 DEF f
<1> QED BY <1>1, FindInvariant, PTL

-----------------------------------------------------------------------------
(* How long a search takes *)

(* The steps between two probes. *)
Rank(f) ==
    CASE f.pc = "probe" -> 3 [] f.pc = "read" -> 2 [] f.pc \in {"insert", "confirm"} -> 1 [] OTHER -> 0

(* A step of a search ends it, or goes on with the same places, or leaves at  *)
(* most half of the places that were left.                                    *)
GoesOn(f, g) ==
    \/ g.pc = "idle"
    \/ g.lo = f.lo /\ g.hi = f.hi /\ Rank(g) < Rank(f)
    \/ f.lo < f.hi /\ g.lo <= g.hi /\ 2 * (g.hi - g.lo) <= f.hi - f.lo

SearchesGoOn ==
    [][\A w \in Workers :
          find[w].pc # "idle" /\ find'[w] # find[w] => GoesOn(find[w], find'[w])]_vars

(* Either half of the places has at most half of them. *)
LEMMA HalfIsLeft ==
    ASSUME NEW f \in Find, f.lo < f.hi, NEW cmp
    PROVE  GoesOn(f, Narrowed(f, cmp))
<1>1. PICK lo \in Nat, hi \in Nat, d \in Nat \ {0} : lo = f.lo /\ hi = f.hi /\ hi = lo + d
  <2>1. PICK lo \in Nat, hi \in Nat : lo = f.lo /\ hi = f.hi
    BY DEF Find
  <2>2. hi - lo \in Nat \ {0} /\ hi = lo + (hi - lo)
    BY <2>1
  <2> QED BY <2>1, <2>2
<1>2. PICK h \in Nat : h = d \div 2 /\ 2 * h <= d /\ d <= 2 * h + 1 /\ h < d
  <2>1. d \div 2 \in Nat /\ 2 * (d \div 2) <= d /\ d <= 2 * (d \div 2) + 1 /\ d \div 2 < d
    OBVIOUS
  <2> QED BY <2>1
<1>3. Mid(f) = lo + h
  <2>1. hi - lo = d
    BY <1>1
  <2> QED BY <1>1, <1>2, <2>1 DEF Mid
<1>4. CASE cmp < 0
  <2>1. Narrowed(f, cmp) = [f EXCEPT !.pc = "probe", !.lo = lo + h + 1]
    BY <1>3, <1>4 DEF Narrowed
  <2>2. Narrowed(f, cmp).lo = lo + h + 1 /\ Narrowed(f, cmp).hi = hi
    BY <1>1, <2>1 DEF Find
  <2> QED BY <1>1, <1>2, <2>2 DEF GoesOn
<1>5. CASE ~(cmp < 0)
  <2>1. Narrowed(f, cmp) = [f EXCEPT !.pc = "probe", !.hi = lo + h]
    BY <1>3, <1>5 DEF Narrowed
  <2>2. Narrowed(f, cmp).lo = lo /\ Narrowed(f, cmp).hi = lo + h
    BY <1>1, <2>1 DEF Find
  <2> QED BY <1>1, <1>2, <2>2 DEF GoesOn
<1> QED BY <1>4, <1>5

(* The comparison with what was read ends a search or halves what is left. *)
LEMMA SettledGoesOn ==
    ASSUME NEW f \in Find, f.lo < f.hi, f.pc \in {"insert", "confirm"}
    PROVE  GoesOn(f, Settled(f))
<1> DEFINE cmp == Compare(KeyAt(f.z, Mid(f)), f.key)
<1>1. CASE cmp = 0
  <2>1. Settled(f) = [f EXCEPT !.pc = "found"]
    BY <1>1 DEF Settled, Found
  <2>2. Settled(f).pc = "found" /\ Settled(f).lo = f.lo /\ Settled(f).hi = f.hi
    BY <2>1 DEF Find
  <2>3. Rank(Settled(f)) = 0 /\ Rank(f) = 1
    BY <2>2 DEF Rank
  <2> QED BY <2>2, <2>3 DEF GoesOn
<1>2. CASE cmp # 0
  <2>1. Settled(f) = Narrowed(f, cmp)
    BY <1>2 DEF Settled
  <2> QED BY <2>1, HalfIsLeft
<1> QED BY <1>1, <1>2

(* A search of n places asks the table or the card at most once for each time *)
(* n can be halved, whatever other workers do to the table: each of its steps *)
(* ends it, brings the probe nearer to its end, or halves what is left        *)
(* (zim_find's loop).                                                         *)
THEOREM SearchesHalve == Spec => SearchesGoOn
<1>1. FindInv /\ [Next]_vars =>
          \A w \in Workers :
              find[w].pc # "idle" /\ find'[w] # find[w] => GoesOn(find[w], find'[w])
  <2> SUFFICES ASSUME FindInv, [Next]_vars, NEW w \in Workers, find[w].pc # "idle", find'[w] # find[w]
               PROVE  GoesOn(find[w], find'[w])
    OBVIOUS
  <2>f. PICK f : f = find[w]
    OBVIOUS
  <2>0. f \in Find /\ Sound(f) /\ find \in [Workers -> Find] /\ f.pc # "idle"
    BY <2>f DEF FindInv, FindType, Find
  <2>1. PICK v \in Workers : Step(v) \/ \E z \in Archives, key \in Targets : Begin(v, z, key)
    BY DEF Next, vars
  <2>2. \E g : find' = [find EXCEPT ![v] = g]
    BY <2>1 DEF Step, Probe, Read, Insert, Confirm, Exhausted, Return, Begin
  <2>3. v = w
    BY <2>0, <2>2
  <2>4. Step(w)
    BY <2>0, <2>1, <2>3, <2>f DEF Begin
  <2>5. ASSUME NEW g, find' = [find EXCEPT ![w] = g] PROVE find'[w] = g
    BY <2>0, <2>5
  <2>6. ASSUME NEW pc \in {"read", "confirm", "insert"}, f.pc \in {"probe", "read"}, pc = "insert" <=> f.pc = "read",
               find' = [find EXCEPT ![w] = [f EXCEPT !.pc = pc]]
        PROVE  GoesOn(f, find'[w])
    <3>1. find'[w] = [f EXCEPT !.pc = pc]
      BY <2>5, <2>6
    <3>2. find'[w].pc = pc /\ find'[w].lo = f.lo /\ find'[w].hi = f.hi
      BY <2>0, <3>1 DEF Find
    <3>3. Rank(find'[w]) < Rank(f)
      BY <2>6, <3>2 DEF Rank
    <3> QED BY <3>2, <3>3 DEF GoesOn
  <2>7. ASSUME f.pc \in {"probe", "read", "confirm"},
               \/ find' = [find EXCEPT ![w] = NotFound(f, TRUE)]
               \/ find' = [find EXCEPT ![w] = NotFound(f, FALSE)]
        PROVE  GoesOn(f, find'[w])
    <3>1. \/ find'[w] = [f EXCEPT !.pc = "missing", !.ok = TRUE]
          \/ find'[w] = [f EXCEPT !.pc = "missing", !.ok = FALSE]
      BY <2>5, <2>7 DEF NotFound
    <3>2. find'[w].pc = "missing" /\ find'[w].lo = f.lo /\ find'[w].hi = f.hi
      BY <2>0, <3>1 DEF Find
    <3>3. Rank(find'[w]) = 0 /\ Rank(f) > 0
      BY <2>7, <3>2 DEF Rank
    <3> QED BY <3>2, <3>3 DEF GoesOn
  <2>8. CASE Probe(w)
    <3> DEFINE cmp == FromTable(f.z, Mid(f), f.key)
    <3>1. f.pc = "probe" /\ f.lo < f.hi
      BY <2>8, <2>f DEF Probe
    <3>2. find' = [find EXCEPT ![w] = IF ~Decisive(f.z, Mid(f), f.key) THEN [f EXCEPT !.pc = "read"]
                                      ELSE IF cmp = 0 THEN [f EXCEPT !.pc = "confirm"]
                                      ELSE Narrowed(f, cmp)]
      BY <2>8, <2>f DEF Probe
    <3> HIDE DEF cmp
    <3>3. CASE find' = [find EXCEPT ![w] = [f EXCEPT !.pc = "read"]]
      BY <2>6, <2>f, <3>1, <3>3
    <3>4. CASE find' = [find EXCEPT ![w] = [f EXCEPT !.pc = "confirm"]]
      BY <2>6, <2>f, <3>1, <3>4
    <3>5. CASE find' = [find EXCEPT ![w] = Narrowed(f, cmp)]
      BY <2>0, <2>5, <2>f, <3>1, <3>5, HalfIsLeft
    <3> QED BY <3>2, <3>3, <3>4, <3>5
  <2>9. CASE Read(w)
    <3>1. f.pc = "read"
      BY <2>9, <2>f DEF Read
    <3>2. CASE find' = [find EXCEPT ![w].pc = "insert"]
      BY <2>6, <2>f, <3>1, <3>2
    <3>3. CASE find' = [find EXCEPT ![w] = NotFound(@, FALSE)]
      BY <2>7, <2>f, <3>1, <3>3
    <3> QED BY <2>9, <3>2, <3>3 DEF Read
  <2>10. CASE Insert(w)
    <3>1. f.pc = "insert" /\ f.lo < f.hi /\ find' = [find EXCEPT ![w] = Settled(f)]
      BY <2>0, <2>10, <2>f DEF Insert, Sound
    <3> QED BY <2>0, <2>5, <2>f, <3>1, SettledGoesOn
  <2>11. CASE Confirm(w)
    <3>1. f.pc = "confirm" /\ f.lo < f.hi
      BY <2>0, <2>11, <2>f DEF Confirm, Sound
    <3>2. CASE find' = [find EXCEPT ![w] = Settled(@)]
      BY <2>0, <2>5, <2>f, <3>1, <3>2, SettledGoesOn
    <3>3. CASE find' = [find EXCEPT ![w] = NotFound(@, FALSE)]
      BY <2>7, <2>f, <3>1, <3>3
    <3> QED BY <2>11, <3>2, <3>3 DEF Confirm
  <2>12. CASE Exhausted(w)
    <3>1. f.pc = "probe" /\ find' = [find EXCEPT ![w] = NotFound(f, TRUE)]
      BY <2>12, <2>f DEF Exhausted
    <3> QED BY <2>7, <2>f, <3>1
  <2>13. CASE Return(w)
    <3>1. find'[w] = Waiting
      BY <2>5, <2>13 DEF Return
    <3> QED BY <3>1 DEF GoesOn, Waiting
  <2> QED BY <2>4, <2>8, <2>9, <2>10, <2>11, <2>12, <2>13 DEF Step
<1> QED BY <1>1, FindInvariant, PTL DEF Spec, SearchesGoOn

-----------------------------------------------------------------------------
(* Decompression: sizes and places *)

(* The smaller of two numbers. *)
LEMMA MinIs ==
    ASSUME NEW a \in Int, NEW b \in Int
    PROVE  Min({a, b}) = IF a <= b THEN a ELSE b
<1> DEFINE m == IF a <= b THEN a ELSE b
<1>1. m \in {a, b} /\ \A y \in {a, b} : m <= y
  OBVIOUS
<1>2. \A x \in {a, b} : (\A y \in {a, b} : x <= y) => x = m
  OBVIOUS
<1> QED BY <1>1, <1>2 DEF Min

(* The larger of two numbers. *)
LEMMA MaxIs ==
    ASSUME NEW a \in Int, NEW b \in Int
    PROVE  Max({a, b}) = IF a >= b THEN a ELSE b
<1> DEFINE m == IF a >= b THEN a ELSE b
<1>1. m \in {a, b} /\ \A y \in {a, b} : m >= y
  OBVIOUS
<1>2. \A x \in {a, b} : (\A y \in {a, b} : x >= y) => x = m
  OBVIOUS
<1> QED BY <1>1, <1>2 DEF Max

\* Where a block begins and ends in the frame and in the content.
LEMMA BlocksAre ==
    ASSUME NEW f, IsFrame(f)
    PROVE  /\ Content(f) \in Nat /\ BlocksEnd(f) \in Nat /\ FrameSize(f) \in Nat
           /\ FrameSize(f) = BlocksEnd(f) + (IF f.checksum THEN Checksum ELSE 0)
           /\ Len(f.blocks) \in Nat \ {0} /\ DOMAIN f.blocks = 1..Len(f.blocks)
           /\ \A i \in DOMAIN f.blocks : f.blocks[i] \in Blocks
           /\ \A i \in DOMAIN f.blocks :
                 /\ f.blocks[i].at + f.blocks[i].r <= Content(f)
                 /\ f.blocks[i].from + BlockHeader + f.blocks[i].c <= BlocksEnd(f)
           /\ \A i \in DOMAIN f.blocks :
                 i < Len(f.blocks) => /\ i + 1 \in DOMAIN f.blocks
                                      /\ f.blocks[i + 1].at = f.blocks[i].at + f.blocks[i].r
                                      /\ f.blocks[i + 1].from =
                                            f.blocks[i].from + BlockHeader + f.blocks[i].c
           /\ LET b == f.blocks[Len(f.blocks)] IN
              Content(f) = b.at + b.r /\ BlocksEnd(f) = b.from + BlockHeader + b.c
<1> DEFINE bs == f.blocks
           n == Len(bs)
<1>1. /\ bs \in Seq(Blocks) /\ n \in Nat /\ n # 0 /\ DOMAIN bs = 1..n
      /\ BlockHeader \in Nat /\ Checksum \in Nat /\ f.checksum \in BOOLEAN
      /\ BlockMax \in Nat
  BY StreamAssumption, LenProperties, EmptySeq DEF IsFrame
<1>2. \A i \in 1..n : /\ bs[i] \in Blocks /\ bs[i].at \in Nat /\ bs[i].from \in Nat
                      /\ bs[i].c \in Nat /\ bs[i].r \in Nat
  <2>1. \A i \in 1..n : bs[i] \in Blocks
    <3> HIDE DEF bs
    <3> QED BY <1>1, ElementOfSeq
  <2>2. \A b \in Blocks : b.at \in Nat /\ b.from \in Nat /\ b.c \in Nat /\ b.r \in Nat
    BY <1>1 DEF Blocks
  <2> HIDE DEF bs, n
  <2> QED BY <2>1, <2>2
<1>3. Last(bs) = bs[n]
  BY DEF Last
<1>4. \A i \in 1..n : i < n =>
          /\ i + 1 \in 1..n /\ bs[i + 1].at = bs[i].at + bs[i].r
          /\ bs[i + 1].from = bs[i].from + BlockHeader + bs[i].c
  <2> SUFFICES ASSUME NEW i \in 1..n, i < n
               PROVE  /\ i + 1 \in 1..n /\ bs[i + 1].at = bs[i].at + bs[i].r
                      /\ bs[i + 1].from = bs[i].from + BlockHeader + bs[i].c
    OBVIOUS
  <2>1. i + 1 \in DOMAIN bs /\ i + 1 > 1 /\ (i + 1) - 1 = i
    BY <1>1
  <2> QED BY <1>1, <2>1 DEF IsFrame
<1>5. Content(f) = bs[n].at + bs[n].r /\ BlocksEnd(f) = bs[n].from + BlockHeader + bs[n].c
  BY <1>3 DEF Content, BlocksEnd
<1> HIDE DEF bs, n
<1>6. n \in 1..n /\ Content(f) \in Nat /\ BlocksEnd(f) \in Nat
  <2>1. n \in 1..n
    BY <1>1
  <2> QED BY <1>1, <1>2, <1>5, <2>1
<1> DEFINE Good(i) == /\ bs[i].at + bs[i].r <= Content(f)
                      /\ bs[i].from + BlockHeader + bs[i].c <= BlocksEnd(f)
           Bad == {k \in 0..(n - 1) : ~Good(n - k)}
<1>7. \A i \in 1..n : Good(i)
  <2> SUFFICES ASSUME NEW j \in 1..n, ~Good(j) PROVE FALSE
    OBVIOUS
  <2>1. n - j \in Bad
    <3>1. n - j \in 0..(n - 1) /\ n - (n - j) = j
      BY <1>1
    <3> QED BY <3>1
  <2>2. PICK k \in Bad : \A y \in Bad : k <= y
    <3>1. Bad \subseteq Nat /\ Bad # {}
      <4>1. \A k \in 0..(n - 1) : k \in Nat
        BY <1>1
      <4> QED BY <2>1, <4>1
    <3> HIDE DEF Bad
    <3> QED BY <3>1, LeastExists
  <2>3. k \in 0..(n - 1) /\ ~Good(n - k)
    OBVIOUS
  <2>4. k # 0
    BY <1>1, <1>2, <1>5, <1>6, <2>3
  <2>5. n - k \in 1..n /\ n - k < n /\ (n - k) + 1 = n - (k - 1) /\ k - 1 \in 0..(n - 1)
    BY <1>1, <2>3, <2>4
  <2>6. k - 1 \notin Bad
    <3> HIDE DEF Bad
    <3> QED BY <2>2, <2>3
  <2>7. Good((n - k) + 1)
    BY <2>5, <2>6
  <2>8. Good(n - k)
    <3>1. (n - k) + 1 \in 1..n /\ bs[(n - k) + 1].at = bs[n - k].at + bs[n - k].r
          /\ bs[(n - k) + 1].from = bs[n - k].from + BlockHeader + bs[n - k].c
      BY <1>4, <2>5
    <3>2. /\ bs[(n - k) + 1].at \in Nat /\ bs[(n - k) + 1].r \in Nat
          /\ bs[(n - k) + 1].from \in Nat /\ bs[(n - k) + 1].c \in Nat
      BY <1>2, <3>1
    <3> QED BY <1>1, <1>6, <2>7, <3>1, <3>2
  <2> QED BY <2>3, <2>8
<1>8. FrameSize(f) = BlocksEnd(f) + (IF f.checksum THEN Checksum ELSE 0)
  BY DEF FrameSize
<1>9. FrameSize(f) \in Nat
  BY <1>1, <1>6, <1>8
<1> QED BY <1>1, <1>2, <1>4, <1>5, <1>6, <1>7, <1>8, <1>9 DEF bs, n

-----------------------------------------------------------------------------
(* The account of one cluster *)

\* The shape of the decoder's state.
Decoders == [
    streamStage : {"init", "loadHeader", "read", "load", "flush"},
    stage : {"blockHeader", "block", "checksum", "end"},
    lhSize : Nat, expected : Nat, inPos : Nat, outStart : Nat, outEnd : Nat, block : Nat,
    decoded : Nat, hostage : BOOLEAN, noProgress : Nat]

Hubs == [
    step : {"loop", "grow", "call", "inside", "returned", "end", "refused", "done"},
    remain : Nat, len : Nat, pos : Nat, cap : Nat,
    result : {"none", "last", "more", "ok", "fail", "too big"}]

StreamTypeOK ==
    /\ frame \in Frames /\ mode \in {"cluster", "blob"} /\ blob \in Blobs
    /\ hub \in Hubs /\ out \in Seq(Nat) /\ zds \in Decoders /\ ring \in Seq(Nat)
    /\ call \in [ip : Nat, istart : Nat, ostart : Nat]

\* The loop goes on.
Active ==
    \/ hub.step \in {"loop", "grow", "call", "inside"}
    \/ hub.step = "returned" /\ hub.result = "more"

\* The next byte of the input buffer.
Position == IF hub.step = "inside" THEN call.ip ELSE hub.pos

\* The hub's side: input and room where a call needs them.
HubReady ==
    /\ Position <= hub.len /\ Len(out) <= hub.cap /\ 0 < hub.cap
    /\ hub.step \in {"grow", "call"} => hub.pos < hub.len
    /\ hub.step = "call" => Len(out) < hub.cap

\* Whether the frame's header is still being collected.
Beginning == zds.streamStage \in {"init", "loadHeader"}

\* Where the decoder is in the frame, and in its content.
Consumed ==
    IF Beginning THEN zds.lhSize
    ELSE zds.inPos +
         CASE zds.stage = "blockHeader" -> Block.from
           [] zds.stage = "block" -> Block.from + BlockHeader + (Block.c - zds.expected)
           [] zds.stage = "checksum" -> BlocksEnd(frame)
           [] zds.stage = "end" -> FrameSize(frame) - (IF zds.hostage THEN 1 ELSE 0)

ContentRead ==
    CASE zds.stage = "blockHeader" -> Block.at
      [] zds.stage = "block" -> Block.at + (IF Block.raw THEN Block.c - zds.expected ELSE 0)
      [] OTHER -> Content(frame)

\* No byte of the input is skipped or taken twice.
InputCounted ==
    Consumed + hub.remain + (hub.len - Position) = FrameSize(frame) + frame.more

\* What the decoder waits for.
Expecting ==
    /\ zds.stage = "blockHeader" => zds.expected = BlockHeader
    /\ zds.stage = "block" => /\ zds.expected \in 1..Block.c
                              /\ ~Block.raw => zds.expected = Block.c
    /\ zds.stage = "checksum" => zds.expected = Checksum /\ frame.checksum
    /\ zds.stage = "end" => zds.expected = 0
    /\ zds.inPos > 0 => zds.streamStage = "load"
    /\ zds.streamStage = "load" => /\ zds.inPos < zds.expected
                                   /\ ~(InBlock /\ Block.raw)
    /\ zds.hostage => zds.stage = "end" /\ Position < hub.len

\* The frame's end is seen by the call that reads it, or its last byte is kept
\* back for the call that brings the rest of the output.
EndSeen ==
    zds.stage = "end" =>
        IF hub.step = "inside"
        THEN zds.hostage \/ call.ip > call.istart
        ELSE zds.hostage /\ zds.streamStage = "flush"

\* A call that has done nothing yet will do something.
Progress ==
    hub.step = "inside" =>
        /\ call.istart <= call.ip /\ call.ostart <= Len(out)
        /\ \/ call.ip > call.istart \/ Len(out) > call.ostart
           \/ /\ call.ip < hub.len /\ Len(out) < hub.cap
              /\ ~(zds.streamStage = "read" /\ zds.expected = 0)

NothingYet ==
    /\ zds = [NewDecoder EXCEPT !.streamStage = zds.streamStage, !.lhSize = zds.lhSize]
    /\ zds.lhSize <= HeaderSize /\ out = <<>>
    /\ hub.step # "inside" \/ zds.streamStage = "init" => zds.lhSize < HeaderSize
    /\ zds.streamStage = "init" => zds.lhSize = 0

\* What is in the ring: the latest bytes up to outEnd, and behind them those of the
\* lap before, which began again because the next block might not fit.
Wraps == ~frame.sized \/ Len(ring) < Content(frame)
LapBefore(prev) ==
    /\ prev + BlockMax > Len(ring) /\ zds.outEnd + prev <= zds.decoded
    /\ \A i \in zds.outEnd + 1..prev : ring[i] = zds.decoded - zds.outEnd - prev + i

RingHolds ==
    /\ Len(ring) = RingSize(frame) /\ zds.outEnd <= Len(ring)
    /\ zds.outEnd <= zds.decoded
    /\ \A i \in 1..zds.outEnd : ring[i] = zds.decoded - zds.outEnd + i
    /\ \/ zds.decoded = zds.outEnd
       \/ Wraps /\ \E prev \in 1..Len(ring) : LapBefore(prev)
    /\ zds.streamStage \in {"read", "load"} /\ Wraps => zds.outStart + BlockMax <= Len(ring)

\* What is still to be flushed.
OutputCounted ==
    /\ Len(out) + zds.outEnd = zds.decoded + zds.outStart
    /\ IF zds.streamStage = "flush" THEN zds.outStart < zds.outEnd ELSE zds.outStart = zds.outEnd

InFrame ==
    /\ zds.block \in DOMAIN frame.blocks /\ zds.decoded = ContentRead
    /\ Expecting /\ EndSeen /\ RingHolds /\ OutputCounted

DecoderInv == (Beginning => NothingYet) /\ (~Beginning => InFrame)

\* The loop only ends when all is out.
Ended ==
    /\ hub.step = "returned" /\ hub.result # "more" =>
          hub.result = "last" /\ Len(out) = Content(frame)
    /\ hub.step = "end" /\ frame.more >= 0 =>
          Len(out) >= IF mode = "cluster" THEN Content(frame) ELSE Min({blob.upto, Content(frame)})

StreamInv ==
    /\ StreamTypeOK /\ zds.noProgress = 0 /\ \A i \in DOMAIN out : out[i] = i
    /\ Active => HubReady /\ InputCounted /\ Progress /\ DecoderInv
    /\ Ended

-----------------------------------------------------------------------------
(* The numbers of a state *)

(* The numbers of the state and of the constants. *)
LEMMA Shape ==
    ASSUME StreamTypeOK
    PROVE  /\ IsFrame(frame) /\ frame.more \in Int /\ blob.upto \in Nat /\ blob.known \in Nat
           /\ hub.remain \in Nat /\ hub.len \in Nat /\ hub.pos \in Nat /\ hub.cap \in Nat
           /\ call.ip \in Nat /\ call.istart \in Nat /\ call.ostart \in Nat
           /\ Len(out) \in Nat /\ DOMAIN out = 1..Len(out)
           /\ Len(ring) \in Nat /\ DOMAIN ring = 1..Len(ring)
           /\ Content(frame) \in Nat /\ BlocksEnd(frame) \in Nat /\ FrameSize(frame) \in Nat
           /\ InCap \in Nat \ {0} /\ OutCap \in Nat \ {0} /\ ClusterCap \in Nat \ {0}
           /\ BlobCap \in Nat \ {0} /\ HeaderSize \in Nat \ {0} /\ BlockHeader \in Nat \ {0}
           /\ Checksum \in Nat \ {0} /\ Window \in Nat \ {0} /\ BlockMax \in Nat \ {0}
           /\ MaxStalls \in Nat \ {0} /\ WildCopy \in Nat
<1>1. frame \in Frames /\ blob \in Blobs /\ hub \in Hubs /\ out \in Seq(Nat) /\ ring \in Seq(Nat)
      /\ call \in [ip : Nat, istart : Nat, ostart : Nat]
  BY DEF StreamTypeOK
<1>2. IsFrame(frame) /\ blob.upto \in Nat /\ blob.known \in Nat
  BY <1>1, StreamAssumption
<1>3. frame.more \in Int
  BY <1>2 DEF IsFrame
<1>4. hub.remain \in Nat /\ hub.len \in Nat /\ hub.pos \in Nat /\ hub.cap \in Nat
  BY <1>1 DEF Hubs
<1>5. call.ip \in Nat /\ call.istart \in Nat /\ call.ostart \in Nat
  BY <1>1
<1>6. /\ Len(out) \in Nat /\ DOMAIN out = 1..Len(out)
      /\ Len(ring) \in Nat /\ DOMAIN ring = 1..Len(ring)
  BY <1>1, LenProperties
<1>7. Content(frame) \in Nat /\ BlocksEnd(frame) \in Nat /\ FrameSize(frame) \in Nat
  BY <1>2, BlocksAre
<1> QED BY <1>2, <1>3, <1>4, <1>5, <1>6, <1>7, StreamAssumption

\* The fields of the decoder's state are what they are meant to be.
LEMMA DecoderShape ==
    ASSUME NEW z \in Decoders
    PROVE  /\ z.streamStage \in {"init", "loadHeader", "read", "load", "flush"}
           /\ z.stage \in {"blockHeader", "block", "checksum", "end"}
           /\ z.lhSize \in Nat /\ z.expected \in Nat /\ z.inPos \in Nat
           /\ z.outStart \in Nat /\ z.outEnd \in Nat /\ z.block \in Nat /\ z.decoded \in Nat
           /\ z.hostage \in BOOLEAN /\ z.noProgress \in Nat
BY DEF Decoders

\* The block the decoder is in.
LEMMA BlockIs ==
    ASSUME StreamTypeOK, zds.block \in DOMAIN frame.blocks
    PROVE  /\ Block.c \in 0..BlockMax /\ Block.r \in 0..BlockMax /\ Block.raw \in BOOLEAN
           /\ Block.from \in Nat /\ Block.at \in Nat
           /\ Block.c \in Nat /\ Block.r \in Nat /\ Block.r <= BlockMax
           /\ Block.at + Block.r <= Content(frame)
           /\ Block.from + BlockHeader + Block.c <= BlocksEnd(frame)
           /\ Block.raw => Block.c = Block.r
           /\ Block.c = 0 => Block.r = 0
<1>1. IsFrame(frame) /\ BlockMax \in Nat
  BY Shape
<1>2. /\ Block \in Blocks /\ Block.at + Block.r <= Content(frame)
      /\ Block.from + BlockHeader + Block.c <= BlocksEnd(frame)
  BY <1>1, BlocksAre DEF Block
<1>3. (Block.raw => Block.c = Block.r) /\ (Block.c = 0 => Block.r = 0)
  BY <1>1 DEF Block, IsFrame
<1>4. \A b \in Blocks : /\ b.c \in 0..BlockMax /\ b.r \in 0..BlockMax /\ b.raw \in BOOLEAN
                        /\ b.from \in Nat /\ b.at \in Nat
                        /\ b.c \in Nat /\ b.r \in Nat /\ b.r <= BlockMax
  BY <1>1 DEF Blocks
<1> HIDE DEF Block
<1> QED BY <1>2, <1>3, <1>4

\* What is waited for is never nothing, but at the end.
LEMMA ExpectedIs ==
    ASSUME StreamTypeOK, Expecting, zds.block \in DOMAIN frame.blocks
    PROVE  zds.expected \in Nat /\ (zds.expected = 0 <=> zds.stage = "end")
<1>1. zds.expected \in Nat /\ zds.stage \in {"blockHeader", "block", "checksum", "end"}
  BY DecoderShape DEF StreamTypeOK
<1>2. Block.c \in Nat /\ BlockHeader \in Nat \ {0} /\ Checksum \in Nat \ {0}
  BY BlockIs, Shape
<1> QED BY <1>1, <1>2 DEF Expecting

\* A frame whose end the decoder has not seen has bytes left.
LEMMA BytesLeft ==
    ASSUME StreamInv, Active, hub.step # "inside"
    PROVE  Consumed \in Nat /\ Consumed < FrameSize(frame)
<1>1. StreamTypeOK /\ DecoderInv
  BY DEF StreamInv
<1>2. zds \in Decoders /\ BlocksEnd(frame) \in Nat /\ HeaderSize \in Nat
      /\ BlockHeader \in Nat \ {0} /\ Checksum \in Nat \ {0}
  BY <1>1, Shape DEF StreamTypeOK
<1>3. zds.lhSize \in Nat /\ zds.inPos \in Nat /\ zds.expected \in Nat
      /\ zds.stage \in {"blockHeader", "block", "checksum", "end"}
  BY <1>2, DecoderShape
<1>4. /\ FrameSize(frame) = BlocksEnd(frame) + (IF frame.checksum THEN Checksum ELSE 0)
      /\ frame.checksum \in BOOLEAN /\ FrameSize(frame) \in Nat /\ FrameSize(frame) > HeaderSize
  <2>1. IsFrame(frame)
    BY <1>1, Shape
  <2>2. /\ FrameSize(frame) = BlocksEnd(frame) + (IF frame.checksum THEN Checksum ELSE 0)
        /\ 1 \in DOMAIN frame.blocks /\ frame.blocks[1] \in Blocks /\ FrameSize(frame) \in Nat
        /\ frame.blocks[1].from + BlockHeader + frame.blocks[1].c <= BlocksEnd(frame)
    BY <2>1, BlocksAre
  <2>3. frame.blocks[1].from = HeaderSize /\ frame.checksum \in BOOLEAN
    BY <2>1 DEF IsFrame
  <2>4. frame.blocks[1].c \in Nat
    BY <2>2, StreamAssumption DEF Blocks
  <2> QED BY <1>2, <2>2, <2>3, <2>4
<1>5. CASE Beginning
  <2>1. zds.lhSize <= HeaderSize
    BY <1>1, <1>5 DEF DecoderInv, NothingYet
  <2> QED BY <1>2, <1>3, <1>4, <1>5, <2>1 DEF Consumed
<1>6. CASE ~Beginning
  <2>1. zds.block \in DOMAIN frame.blocks /\ Expecting /\ EndSeen
    BY <1>1, <1>6 DEF DecoderInv, InFrame
  <2>2. /\ Block.c \in Nat /\ Block.from \in Nat
        /\ Block.from + BlockHeader + Block.c <= BlocksEnd(frame)
    BY <1>1, <2>1, BlockIs
  <2>3. zds.inPos = 0 \/ zds.inPos < zds.expected
    BY <1>3, <2>1 DEF Expecting
  <2>4. CASE zds.stage = "blockHeader"
    <3>1. Consumed = zds.inPos + Block.from /\ zds.expected = BlockHeader
      BY <1>6, <2>1, <2>4 DEF Consumed, Expecting
    <3> QED BY <1>2, <1>3, <1>4, <2>2, <2>3, <3>1
  <2>5. CASE zds.stage = "block"
    <3>1. Consumed = zds.inPos + (Block.from + BlockHeader + (Block.c - zds.expected))
          /\ zds.expected \in 1..Block.c
      BY <1>6, <2>1, <2>5 DEF Consumed, Expecting
    <3> QED BY <1>2, <1>3, <1>4, <2>2, <2>3, <3>1
  <2>6. CASE zds.stage = "checksum"
    <3>1. Consumed = zds.inPos + BlocksEnd(frame) /\ zds.expected = Checksum /\ frame.checksum
      BY <1>6, <2>1, <2>6 DEF Consumed, Expecting
    <3> QED BY <1>2, <1>3, <1>4, <2>3, <3>1
  <2>7. CASE zds.stage = "end"
    <3>1. zds.hostage /\ zds.inPos = 0
      BY <1>3, <2>1, <2>3, <2>7 DEF EndSeen, Expecting
    <3>2. Consumed = 0 + (FrameSize(frame) - 1)
      BY <1>6, <2>7, <3>1 DEF Consumed
    <3> QED BY <1>2, <1>4, <3>2
  <2> QED BY <1>3, <2>4, <2>5, <2>6, <2>7
<1> QED BY <1>5, <1>6

-----------------------------------------------------------------------------
(* The steps of the hub *)

\* The decoder's side where only the hub moves.
LEMMA DecoderKept ==
    ASSUME StreamInv, Active, UNCHANGED <<frame, out, zds, ring>>,
           hub.step # "inside",
           zds.hostage => Position' < hub'.len,
           hub'.step = "inside" => zds.streamStage # "init" \/ zds.lhSize < HeaderSize
    PROVE  DecoderInv' /\ Consumed' = Consumed
<1>1. Beginning' = Beginning /\ Block' = Block /\ Wraps' = Wraps /\ InBlock' = InBlock
  BY DEF Beginning, Block, Wraps, InBlock
<1>2. Consumed' = Consumed
  BY <1>1 DEF Consumed
<1>3. DecoderInv
  BY DEF StreamInv
<1>4. CASE Beginning
  <2>1. NothingYet
    BY <1>3, <1>4 DEF DecoderInv, InFrame
  <2>2. zds.lhSize < HeaderSize
    BY <2>1 DEF NothingYet
  <2>3. zds' = [NewDecoder EXCEPT !.streamStage = zds'.streamStage, !.lhSize = zds'.lhSize]
    BY <2>1 DEF NothingYet
  <2>4. NothingYet'
    BY <2>1, <2>2, <2>3 DEF NothingYet
  <2>5. Beginning'
    BY <1>4 DEF Beginning
  <2> QED BY Zenon, <1>2, <2>4, <2>5 DEF DecoderInv
<1>5. CASE ~Beginning
  <2>1. zds.block \in DOMAIN frame.blocks /\ zds.decoded = ContentRead
        /\ Expecting /\ EndSeen /\ RingHolds /\ OutputCounted
    BY <1>3, <1>5 DEF DecoderInv, InFrame
  <2>2. ContentRead' = ContentRead /\ OutputCounted'
    BY <1>1, <2>1 DEF ContentRead, OutputCounted
  <2>3. Expecting'
    BY <1>1, <2>1 DEF Expecting
  <2>4. EndSeen'
    BY <2>1 DEF EndSeen
  <2>5. RingHolds'
    BY <1>1, <2>1 DEF RingHolds, LapBefore
  <2>6. zds'.block \in DOMAIN frame'.blocks /\ zds'.decoded = ContentRead'
    BY <2>1, <2>2
  <2>7. ~Beginning'
    BY <1>5 DEF Beginning
  <2>8. InFrame'
    BY Zenon, <2>2, <2>3, <2>4, <2>5, <2>6 DEF InFrame
  <2> QED BY Zenon, <1>2, <2>7, <2>8 DEF DecoderInv
<1> QED BY <1>2, <1>4, <1>5

\* A step of the hub outside a call, after which the loop goes on.
LEMMA HubMoves ==
    ASSUME StreamInv, Active, UNCHANGED <<frame, mode, blob, out, zds, ring, call>>,
           hub' \in Hubs, hub.step # "inside", hub'.step \in {"loop", "grow", "call"},
           hub'.remain + (hub'.len - hub'.pos) = hub.remain + (hub.len - hub.pos),
           hub'.pos <= hub'.len, Len(out) <= hub'.cap, 0 < hub'.cap,
           hub'.step \in {"grow", "call"} => hub'.pos < hub'.len,
           hub'.step = "call" => Len(out) < hub'.cap,
           zds.hostage => hub'.pos < hub'.len
    PROVE  StreamInv'
<1>1. StreamTypeOK'
  BY DEF StreamInv, StreamTypeOK
<1>2. Position' = hub'.pos /\ Position = hub.pos /\ hub'.step # "inside" /\ Active'
  BY DEF Position, Active
<1>3. DecoderInv' /\ Consumed' = Consumed
  BY <1>2, DecoderKept
<1>4. HubReady' /\ Progress'
  BY <1>2 DEF HubReady, Progress
<1>5. InputCounted'
  <2>1. /\ hub.remain \in Nat /\ hub.len \in Nat /\ hub.pos \in Nat
        /\ hub'.remain \in Nat /\ hub'.len \in Nat /\ hub'.pos \in Nat
    BY Shape DEF StreamInv, Hubs
  <2>2. Consumed \in Nat /\ FrameSize(frame) \in Nat /\ frame.more \in Int
    BY BytesLeft, Shape DEF StreamInv
  <2>3. Consumed + hub.remain + (hub.len - hub.pos) = FrameSize(frame) + frame.more
    BY <1>2 DEF StreamInv, InputCounted
  <2>4. Consumed + hub'.remain + (hub'.len - hub'.pos) = FrameSize(frame) + frame.more
    <3>1. /\ hub.remain \in Int /\ hub.len \in Int /\ hub.pos \in Int
          /\ hub'.remain \in Int /\ hub'.len \in Int /\ hub'.pos \in Int
          /\ Consumed \in Int /\ FrameSize(frame) + frame.more \in Int
      BY SMTT(30), <2>1, <2>2
    <3>2. PICK c \in Int, s \in Int :
              c = Consumed /\ s = FrameSize(frame) + frame.more
      BY <3>1
    <3>3. PICK r \in Int, l \in Int, p \in Int :
              r = hub.remain /\ l = hub.len /\ p = hub.pos
      BY <3>1
    <3>4. PICK r1 \in Int, l1 \in Int, p1 \in Int :
              r1 = hub'.remain /\ l1 = hub'.len /\ p1 = hub'.pos
      BY <3>1
    <3>5. r1 + (l1 - p1) = r + (l - p) /\ c + r + (l - p) = s
      BY <2>3, <3>2, <3>3, <3>4
    <3>6. c + r1 + (l1 - p1) = s
      BY <3>5
    <3> QED BY <3>2, <3>4, <3>6
  <2> QED BY <1>2, <1>3, <2>4 DEF InputCounted
<1>6. Ended'
  BY DEF Ended
<1> QED BY <1>1, <1>3, <1>4, <1>5, <1>6 DEF StreamInv

\* The loop is over.
LEMMA HubEnds ==
    ASSUME StreamInv, UNCHANGED <<frame, mode, blob, out, zds, ring, call>>,
           hub' \in Hubs, hub'.step \in {"end", "refused", "done"},
           hub'.step = "end" /\ frame.more >= 0 =>
               Len(out) >= IF mode = "cluster" THEN Content(frame) ELSE Min({blob.upto, Content(frame)})
    PROVE  StreamInv'
<1>1. StreamTypeOK' /\ ~Active'
  BY DEF StreamInv, StreamTypeOK, Active
<1>2. Ended'
  BY DEF Ended
<1> QED BY <1>1, <1>2 DEF StreamInv

(* Reading on keeps the account: what was in the file is now in the buffer. *)
LEMMA RefillInv == StreamInv /\ Refill => StreamInv'
<1> SUFFICES ASSUME StreamInv, Refill PROVE StreamInv'
  OBVIOUS
<1>1. /\ hub.step = "loop" /\ hub.pos = hub.len /\ Active /\ Position = hub.len /\ hub \in Hubs
      /\ UNCHANGED <<frame, mode, blob, out, zds, ring, call>>
  BY DEF Refill, Active, Position, StreamInv, StreamTypeOK
<1>2. /\ hub.remain \in Nat /\ hub.len \in Nat /\ hub.pos \in Nat /\ InCap \in Nat \ {0}
      /\ frame.more \in Int /\ FrameSize(frame) \in Nat
  BY Shape DEF StreamInv
<1>3. Consumed \in Nat /\ Consumed < FrameSize(frame)
  BY <1>1, BytesLeft
<1>4. Consumed + hub.remain + (hub.len - hub.len) = FrameSize(frame) + frame.more
  BY <1>1 DEF StreamInv, InputCounted
<1>5. CASE hub.remain = 0 /\ hub' = [hub EXCEPT !.step = "end"]
  <2>1. frame.more < 0
    BY <1>2, <1>3, <1>4, <1>5
  <2>2. hub' \in Hubs /\ hub'.step = "end"
    BY <1>1, <1>5 DEF Hubs
  <2> QED BY <1>1, <1>2, <2>1, <2>2, HubEnds
<1>6. CASE hub.remain # 0 /\ Finish("fail")
  <2>1. hub' \in Hubs /\ hub'.step = "done"
    BY <1>1, <1>6 DEF Hubs, Finish
  <2> QED BY <1>1, <2>1, HubEnds
<1>7. ASSUME hub.remain # 0, NEW take, take = Min({hub.remain, InCap}),
             hub' = [hub EXCEPT !.step = "grow", !.remain = @ - take, !.len = take, !.pos = 0]
      PROVE  StreamInv'
  <2>1. take \in Nat /\ take >= 1 /\ take <= hub.remain
    BY <1>2, <1>7, MinIs
  <2>2. hub' \in Hubs /\ hub'.step = "grow" /\ hub'.remain = hub.remain - take
        /\ hub'.len = take /\ hub'.pos = 0 /\ hub'.cap = hub.cap
    <3>1. hub.remain - take \in Nat
      BY <1>2, <2>1
    <3> QED BY <1>1, <1>7, <2>1, <3>1 DEF Hubs
  <2>3. hub'.remain + (hub'.len - hub'.pos) = hub.remain + (hub.len - hub.pos)
    BY <1>1, <1>2, <2>1, <2>2
  <2>4. Len(out) <= hub'.cap /\ 0 < hub'.cap
    BY <1>1, <2>2 DEF StreamInv, HubReady
  <2> QED BY <1>1, <2>1, <2>2, <2>3, <2>4, HubMoves
<1> QED BY <1>5, <1>6, <1>7 DEF Refill

(* So does going on with the input that is left. *)
LEMMA KeepInputInv == StreamInv /\ KeepInput => StreamInv'
<1> SUFFICES ASSUME StreamInv, KeepInput PROVE StreamInv'
  OBVIOUS
<1>1. /\ hub.step = "loop" /\ hub.pos # hub.len /\ Active /\ Position = hub.pos /\ hub \in Hubs
      /\ UNCHANGED <<frame, mode, blob, out, zds, ring, call>>
      /\ hub' = [hub EXCEPT !.step = "grow"]
  BY DEF KeepInput, Active, Position, StreamInv, StreamTypeOK
<1>2. hub' \in Hubs /\ hub'.step = "grow" /\ hub'.remain = hub.remain
      /\ hub'.len = hub.len /\ hub'.pos = hub.pos /\ hub'.cap = hub.cap
  BY <1>1 DEF Hubs
<1>3. hub.pos <= hub.len /\ Len(out) <= hub.cap /\ 0 < hub.cap /\ hub.pos \in Nat /\ hub.len \in Nat
  BY <1>1, Shape DEF StreamInv, HubReady
<1>4. hub.pos < hub.len
  BY <1>1, <1>3
<1> QED BY <1>1, <1>2, <1>3, <1>4, HubMoves

(* A larger output buffer leaves room for the call. *)
LEMMA GrowInv == StreamInv /\ Grow => StreamInv'
<1> SUFFICES ASSUME StreamInv, Grow PROVE StreamInv'
  OBVIOUS
<1>1. /\ hub.step = "grow" /\ Active /\ Position = hub.pos /\ hub \in Hubs
      /\ UNCHANGED <<frame, mode, blob, out, zds, ring, call>>
  BY DEF Grow, Active, Position, StreamInv, StreamTypeOK
<1>2. hub.pos < hub.len /\ Len(out) <= hub.cap /\ 0 < hub.cap /\ hub.pos \in Nat /\ hub.len \in Nat
      /\ hub.cap \in Nat /\ Len(out) \in Nat /\ Cap \in Nat
  BY <1>1, Shape DEF StreamInv, HubReady, Cap
<1>3. CASE ~Full /\ hub' = [hub EXCEPT !.step = "call"]
  <2>1. hub' \in Hubs /\ hub'.step = "call" /\ hub'.remain = hub.remain
        /\ hub'.len = hub.len /\ hub'.pos = hub.pos /\ hub'.cap = hub.cap
    BY <1>1, <1>3 DEF Hubs
  <2>2. Len(out) < hub.cap
    BY <1>2, <1>3 DEF Full
  <2> QED BY <1>1, <1>2, <2>1, <2>2, HubMoves
<1>4. CASE Finish(TooBig) \/ Finish("fail")
  <2>1. TooBig \in {"fail", "too big"}
    BY DEF TooBig
  <2>2. hub' \in Hubs /\ hub'.step = "done"
    BY <1>1, <1>4, <2>1 DEF Hubs, Finish
  <2> QED BY <1>1, <2>2, HubEnds
<1>5. CASE /\ Full /\ ~(hub.cap >= Cap)
           /\ hub' = [hub EXCEPT !.step = "call", !.cap = Min({2 * @, Cap})]
  <2> DEFINE more == Min({2 * hub.cap, Cap})
  <2>1. Len(out) = hub.cap
    BY <1>5 DEF Full
  <2>2. hub.cap >= 1
    BY <1>1, <1>2 DEF StreamInv, HubReady
  <2>3. more \in Nat /\ more > hub.cap
    <3>1. 2 * hub.cap \in Int /\ Cap \in Int /\ 2 * hub.cap > hub.cap /\ Cap > hub.cap
      BY <1>2, <1>5, <2>2
    <3>2. more = IF 2 * hub.cap <= Cap THEN 2 * hub.cap ELSE Cap
      BY <3>1, MinIs
    <3> QED BY <1>2, <3>1, <3>2
  <2> HIDE DEF more
  <2>4. hub' = [hub EXCEPT !.step = "call", !.cap = more]
    BY <1>5 DEF more
  <2>5. hub' \in Hubs /\ hub'.step = "call" /\ hub'.remain = hub.remain
        /\ hub'.len = hub.len /\ hub'.pos = hub.pos /\ hub'.cap = more
    BY <1>1, <2>3, <2>4 DEF Hubs
  <2> QED BY <1>1, <1>2, <2>1, <2>3, <2>5, HubMoves
<1> QED BY <1>3, <1>4, <1>5 DEF Grow

(* A call begins with input and with room for output. *)
LEMMA EnterInv == StreamInv /\ Enter => StreamInv'
<1> SUFFICES ASSUME StreamInv, Enter PROVE StreamInv'
  OBVIOUS
<1>1. /\ hub.step = "call" /\ Active /\ Position = hub.pos /\ hub \in Hubs
      /\ UNCHANGED <<frame, mode, blob, out, zds, ring>>
      /\ hub' = [hub EXCEPT !.step = "inside"]
      /\ call' = [ip |-> hub.pos, istart |-> hub.pos, ostart |-> Len(out)]
  BY DEF Enter, Active, Position, StreamInv, StreamTypeOK
<1>2. /\ hub.pos < hub.len /\ Len(out) < hub.cap /\ 0 < hub.cap /\ hub.pos \in Nat /\ hub.len \in Nat
      /\ hub.cap \in Nat /\ Len(out) \in Nat /\ DecoderInv /\ InputCounted
  BY <1>1, Shape DEF StreamInv, HubReady
<1>3. /\ hub' \in Hubs /\ hub'.step = "inside" /\ hub'.remain = hub.remain
      /\ hub'.len = hub.len /\ hub'.pos = hub.pos /\ hub'.cap = hub.cap
      /\ call'.ip = hub.pos /\ call'.istart = hub.pos /\ call'.ostart = Len(out)
      /\ call' \in [ip : Nat, istart : Nat, ostart : Nat]
  BY <1>1, <1>2 DEF Hubs
<1>4. Position' = hub.pos /\ Active'
  BY <1>3 DEF Position, Active
<1>5. StreamTypeOK'
  BY <1>1, <1>3 DEF StreamInv, StreamTypeOK
<1>6. Beginning => zds.lhSize < HeaderSize
  BY <1>1, <1>2 DEF DecoderInv, NothingYet
<1>7. DecoderInv' /\ Consumed' = Consumed
  <2>1. zds.streamStage # "init" \/ zds.lhSize < HeaderSize
    BY <1>6 DEF Beginning
  <2> QED BY <1>1, <1>2, <1>3, <1>4, <2>1, DecoderKept
<1>8. HubReady'
  BY <1>1, <1>2, <1>3, <1>4 DEF HubReady
<1>9. InputCounted'
  BY <1>1, <1>2, <1>3, <1>4, <1>7 DEF InputCounted
<1>10. ~(zds.streamStage = "read" /\ zds.expected = 0)
  <2> SUFFICES ASSUME zds.streamStage = "read", zds.expected = 0 PROVE FALSE
    OBVIOUS
  <2>1. InFrame
    BY <1>2 DEF DecoderInv, Beginning
  <2>2. zds.stage = "end"
    BY <2>1, ExpectedIs DEF InFrame, StreamInv
  <2> QED BY <1>1, <2>1, <2>2 DEF InFrame, EndSeen
<1>11. Progress'
  BY <1>1, <1>2, <1>3, <1>10 DEF Progress
<1>12. Ended'
  BY <1>3 DEF Ended
<1> QED BY <1>1, <1>5, <1>7, <1>8, <1>9, <1>11, <1>12 DEF StreamInv

(* After a call the loop goes on, or ends with all bytes out. *)
LEMMA LeaveInv == StreamInv /\ Leave => StreamInv'
<1> SUFFICES ASSUME StreamInv, Leave PROVE StreamInv'
  OBVIOUS
<1> DEFINE r == IF hub.result = "last" THEN 0 ELSE 1
<1>1. /\ hub.step = "returned" /\ hub \in Hubs
      /\ UNCHANGED <<frame, mode, blob, out, zds, ring, call>>
      /\ hub' = [hub EXCEPT !.step = Returned(r), !.result = "none"]
  BY DEF Leave, Same, StreamInv, StreamTypeOK
<1>2. hub.len \in Nat /\ hub.pos \in Nat /\ hub.cap \in Nat /\ Len(out) \in Nat
      /\ blob.upto \in Nat /\ Content(frame) \in Nat
  BY Shape DEF StreamInv
<1>3. PICK step \in {"refused", "end", "loop"} :
          /\ step = Returned(r)
          /\ step = "loop" => r # 0
          /\ step = "end" => r = 0 \/ (mode = "blob" /\ Len(out) >= blob.upto)
  <2> DEFINE big == mode = "blob" /\ HaveRange /\ blob.upto > BlobCap
             there == mode = "blob" /\ HaveRange /\ Len(out) >= blob.upto
  <2>1. Returned(r) = IF big THEN "refused" ELSE IF there THEN "end"
                      ELSE IF r = 0 THEN "end" ELSE "loop"
    BY DEF Returned
  <2> HIDE DEF big, r
  <2>2. /\ Returned(r) \in {"refused", "end", "loop"}
        /\ Returned(r) = "loop" => r # 0
        /\ Returned(r) = "end" => r = 0 \/ there
    <3>1. CASE big
      BY <2>1, <3>1
    <3>2. CASE ~big /\ there
      BY <2>1, <3>2
    <3>3. CASE ~big /\ ~there
      <4> HIDE DEF there
      <4> QED BY <2>1, <3>3
    <3> QED BY <3>1, <3>2, <3>3
  <2>3. there => mode = "blob" /\ Len(out) >= blob.upto
    OBVIOUS
  <2> HIDE DEF there
  <2>4. Returned(r) = "end" => r = 0 \/ (mode = "blob" /\ Len(out) >= blob.upto)
    BY <2>2, <2>3
  <2> QED BY Zenon, <2>2, <2>4
<1>4. /\ hub' \in Hubs /\ hub'.step = step /\ hub'.remain = hub.remain
      /\ hub'.len = hub.len /\ hub'.pos = hub.pos /\ hub'.cap = hub.cap
  BY <1>1, <1>3 DEF Hubs
<1>5. r = 0 => Len(out) = Content(frame)
  BY <1>1 DEF StreamInv, Ended
<1>6. Min({blob.upto, Content(frame)}) =
          IF blob.upto <= Content(frame) THEN blob.upto ELSE Content(frame)
  <2>1. blob.upto \in Int /\ Content(frame) \in Int
    BY <1>2
  <2> QED BY <2>1, MinIs
<1>7. CASE step = "loop"
  <2>1. hub.result = "more" /\ Active
    <3>1. hub.result # "last"
      BY <1>3, <1>7
    <3> QED BY <1>1, <3>1 DEF StreamInv, Ended, Active
  <2>2. /\ hub.pos <= hub.len /\ Len(out) <= hub.cap /\ 0 < hub.cap
        /\ zds.hostage => hub.pos < hub.len
    <3>1. HubReady /\ DecoderInv /\ Position = hub.pos
      BY <1>1, <2>1 DEF StreamInv, Position
    <3>2. zds.hostage => Expecting
      BY <3>1 DEF DecoderInv, InFrame, NothingYet, NewDecoder
    <3> QED BY <3>1, <3>2 DEF HubReady, Expecting
  <2> QED BY <1>1, <1>4, <1>7, <2>1, <2>2, HubMoves
<1>8. CASE step \in {"refused", "end"}
  <2>1. step = "end" =>
            Len(out) >= IF mode = "cluster" THEN Content(frame) ELSE Min({blob.upto, Content(frame)})
    <3> SUFFICES ASSUME step = "end"
                 PROVE  /\ mode = "cluster" => Len(out) >= Content(frame)
                        /\ mode # "cluster" => Len(out) >= Min({blob.upto, Content(frame)})
      OBVIOUS
    <3>1. CASE r = 0
      BY <1>2, <1>5, <1>6, <3>1
    <3>2. CASE mode = "blob" /\ Len(out) >= blob.upto
      BY <1>2, <1>6, <3>2
    <3> QED BY <1>3, <3>1, <3>2
  <2> QED BY <1>1, <1>4, <1>8, <2>1, HubEnds
<1> QED BY <1>7, <1>8

(* What is returned at the end of the loop changes nothing of the account. *)
LEMMA EndInv == StreamInv /\ End => StreamInv'
<1> SUFFICES ASSUME StreamInv, End PROVE StreamInv'
  OBVIOUS
<1>1. /\ hub \in Hubs /\ UNCHANGED <<frame, mode, blob, out, zds, ring, call>>
      /\ Finish("ok") \/ Finish("fail")
  BY DEF End, StreamInv, StreamTypeOK
<1>2. hub' \in Hubs /\ hub'.step = "done"
  BY <1>1 DEF Hubs, Finish
<1> QED BY <1>1, <1>2, HubEnds

(* An error ends the loop. *)
LEMMA BrokenInv == StreamInv /\ Broken => StreamInv'
<1> SUFFICES ASSUME StreamInv, Broken PROVE StreamInv'
  OBVIOUS
<1>1. /\ hub \in Hubs /\ UNCHANGED <<frame, mode, blob, out, zds, ring, call>> /\ Finish("fail")
  BY DEF Broken, Error, Same, StreamInv, StreamTypeOK
<1>2. hub' \in Hubs /\ hub'.step = "done"
  BY <1>1 DEF Hubs, Finish
<1> QED BY <1>1, <1>2, HubEnds

-----------------------------------------------------------------------------
(* A call of the decoder *)

(* What is known inside a call. *)
LEMMA InsideIs ==
    ASSUME StreamInv, hub.step = "inside"
    PROVE  /\ StreamTypeOK /\ hub \in Hubs /\ zds \in Decoders /\ zds.noProgress = 0
           /\ call \in [ip : Nat, istart : Nat, ostart : Nat] /\ out \in Seq(Nat) /\ ring \in Seq(Nat)
           /\ call.ip \in Nat /\ call.istart \in Nat /\ call.ostart \in Nat
           /\ hub.len \in Nat /\ hub.cap \in Nat /\ hub.remain \in Nat /\ Len(out) \in Nat
           /\ Active /\ Position = call.ip /\ call.ip <= hub.len /\ Len(out) <= hub.cap
           /\ call.istart <= call.ip /\ call.ostart <= Len(out)
           /\ \/ call.ip > call.istart \/ Len(out) > call.ostart
              \/ /\ call.ip < hub.len /\ Len(out) < hub.cap
                 /\ ~(zds.streamStage = "read" /\ zds.expected = 0)
           /\ InputCounted /\ DecoderInv /\ \A i \in DOMAIN out : out[i] = i
<1>1. Active /\ Position = call.ip
  BY DEF Active, Position
<1>2. StreamTypeOK /\ HubReady /\ Progress /\ InputCounted /\ DecoderInv
      /\ zds.noProgress = 0 /\ \A i \in DOMAIN out : out[i] = i
  BY <1>1 DEF StreamInv
<1>3. hub \in Hubs /\ zds \in Decoders /\ out \in Seq(Nat) /\ ring \in Seq(Nat)
      /\ call \in [ip : Nat, istart : Nat, ostart : Nat]
  BY <1>2 DEF StreamTypeOK
<1>4. /\ call.ip \in Nat /\ call.istart \in Nat /\ call.ostart \in Nat
      /\ hub.len \in Nat /\ hub.cap \in Nat /\ hub.remain \in Nat /\ Len(out) \in Nat
  BY <1>2, Shape
<1>5. call.ip <= hub.len /\ Len(out) <= hub.cap
  BY <1>1, <1>2 DEF HubReady
<1> HIDE DEF Active
<1> QED BY <1>1, <1>2, <1>3, <1>4, <1>5 DEF Progress

(* The decoder's place in the frame is a number. *)
LEMMA ConsumedIs ==
    ASSUME StreamInv, Active
    PROVE  Consumed \in Int
<1>1. StreamTypeOK /\ DecoderInv /\ zds \in Decoders
  BY DEF StreamInv, StreamTypeOK
<1>2. /\ zds.lhSize \in Nat /\ zds.inPos \in Nat /\ zds.expected \in Nat
      /\ zds.stage \in {"blockHeader", "block", "checksum", "end"}
      /\ BlockHeader \in Nat /\ BlocksEnd(frame) \in Nat /\ FrameSize(frame) \in Nat
  BY <1>1, DecoderShape, Shape
<1>3. CASE Beginning
  BY <1>2, <1>3 DEF Consumed
<1>4. CASE ~Beginning
  <2>1. Block.from \in Nat /\ Block.c \in Nat
    BY <1>1, <1>4, BlockIs DEF DecoderInv, InFrame
  <2> DEFINE place == CASE zds.stage = "blockHeader" -> Block.from
                        [] zds.stage = "block" -> Block.from + BlockHeader + (Block.c - zds.expected)
                        [] zds.stage = "checksum" -> BlocksEnd(frame)
                        [] zds.stage = "end" -> FrameSize(frame) - (IF zds.hostage THEN 1 ELSE 0)
  <2>2. place \in Int
    <3>1. CASE zds.stage = "blockHeader"
      BY <2>1, <3>1
    <3>2. CASE zds.stage = "block"
      BY <1>2, <2>1, <3>2
    <3>3. CASE zds.stage = "checksum"
      BY <1>2, <3>3
    <3>4. CASE zds.stage = "end"
      BY <1>2, <3>4
    <3> QED BY <1>2, <3>1, <3>2, <3>3, <3>4
  <2>3. Consumed = zds.inPos + place
    BY <1>4 DEF Consumed
  <2> HIDE DEF place
  <2> QED BY <1>2, <2>2, <2>3
<1> QED BY <1>3, <1>4

\* The decoder takes n bytes, and the call or the loop goes on.
LEMMA Advances ==
    ASSUME StreamInv, hub.step = "inside", UNCHANGED <<frame, mode, blob>>,
           hub' \in Hubs, hub'.remain = hub.remain, hub'.len = hub.len, hub'.cap = hub.cap,
           hub'.step = "inside" \/ (hub'.step = "returned" /\ hub'.result = "more"),
           zds' \in Decoders, zds'.noProgress = 0, ring' \in Seq(Nat),
           call' \in [ip : Nat, istart : Nat, ostart : Nat],
           out' \in Seq(Nat), Len(out') <= hub.cap, \A i \in DOMAIN out' : out'[i] = i,
           NEW n \in Int, Position' = call.ip + n, Consumed' = Consumed + n,
           call.ip + n <= hub.len, DecoderInv', Progress'
    PROVE  StreamInv'
<1>1. StreamTypeOK'
  BY InsideIs DEF StreamTypeOK
<1>2. Active'
  BY DEF Active
<1>3. HubReady'
  <2>1. HubReady
    BY InsideIs DEF StreamInv
  <2> QED BY <2>1 DEF HubReady
<1>4. InputCounted'
  <2>1. Consumed + hub.remain + (hub.len - call.ip) = FrameSize(frame) + frame.more
    BY InsideIs DEF InputCounted
  <2>2. PICK c \in Int, r \in Int, l \in Int, ip \in Int :
            c = Consumed /\ r = hub.remain /\ l = hub.len /\ ip = call.ip
    <3>1. Active /\ hub.remain \in Int /\ hub.len \in Int /\ call.ip \in Int
      BY SMTT(30), InsideIs
    <3>2. Consumed \in Int
      BY <3>1, ConsumedIs
    <3> QED BY <3>1, <3>2
  <2>3. c + r + (l - ip) = (c + n) + r + (l - (ip + n))
    OBVIOUS
  <2> QED BY <2>1, <2>2, <2>3 DEF InputCounted
<1>5. Ended'
  BY DEF Ended
<1> QED BY <1>1, <1>2, <1>3, <1>4, <1>5 DEF StreamInv

\* A call that has done something is not counted as a stall.
LEMMA ReturnIs ==
    ASSUME StreamInv, hub.step = "inside", NEW z \in Decoders, NEW ip \in Int, NEW o \in Seq(Nat),
           ReturnFrom(z, ip, o), z.noProgress = 0, ip # call.istart \/ Len(o) # call.ostart,
           z.expected = 0 /\ z.outEnd = z.outStart /\ z.hostage => ip < hub.len
    PROVE  /\ zds' \in Decoders /\ out' = o
           /\ zds' = [z EXCEPT !.noProgress = 0, !.hostage = zds'.hostage]
           /\ zds'.hostage <=> z.hostage \/ (z.expected = 0 /\ z.outEnd # z.outStart)
           /\ z.expected = 0 /\ z.outEnd = z.outStart =>
                 hub' = [hub EXCEPT !.pos = IF z.hostage THEN ip + 1 ELSE ip,
                                    !.step = "returned", !.result = "last"]
           /\ ~(z.expected = 0 /\ z.outEnd = z.outStart) =>
                 hub' = [hub EXCEPT !.pos = IF z.expected = 0 /\ ~z.hostage THEN ip - 1 ELSE ip,
                                    !.step = "returned", !.result = "more"]
<1> DEFINE flushed == z.outEnd = z.outStart
           held == z.expected = 0 /\ flushed /\ z.hostage
           stuck == held /\ ip >= hub.len
           keeps == z.expected = 0 /\ z.outEnd # z.outStart /\ ~z.hostage
           moved == ~(ip = call.istart /\ Len(o) = call.ostart)
           z1 == [z EXCEPT !.noProgress = IF ip = call.istart /\ Len(o) = call.ostart THEN @ + 1 ELSE 0,
                           !.hostage = @ \/ LeavesHostage(z),
                           !.streamStage = IF stuck THEN "read" ELSE @]
           back == IF LeavesHostage(z) THEN ip - 1 ELSE IF held /\ ~stuck THEN ip + 1 ELSE ip
           r == IF z.expected = 0 /\ flushed /\ ~stuck THEN 0 ELSE 1
<1>1. hub.len \in Nat /\ MaxStalls \in Nat \ {0}
  BY InsideIs, Shape
<1>2. ~stuck /\ moved
  BY <1>1
<1>3. IF z1.noProgress >= MaxStalls THEN Finish("fail") /\ UNCHANGED <<zds, out>>
      ELSE /\ zds' = z1 /\ out' = o
           /\ hub' = [hub EXCEPT !.pos = back, !.step = "returned",
                                 !.result = IF r = 0 THEN "last" ELSE "more"]
  BY Zenon DEF ReturnFrom
<1>4. LeavesHostage(z) <=> keeps
  BY DEF LeavesHostage
<1>5. z1 = [z EXCEPT !.noProgress = 0, !.hostage = (z.hostage \/ LeavesHostage(z))]
  <2>1. (IF ip = call.istart /\ Len(o) = call.ostart THEN z.noProgress + 1 ELSE 0) = 0
    BY <1>2
  <2>2. (IF stuck THEN "read" ELSE z.streamStage) = z.streamStage
    BY <1>2
  <2> HIDE DEF stuck
  <2>3. z1 = [z EXCEPT !.noProgress = 0, !.hostage = (z.hostage \/ LeavesHostage(z)),
                       !.streamStage = z.streamStage]
    BY Zenon, <2>1, <2>2
  <2> HIDE DEF z1
  <2> QED BY <2>3 DEF Decoders
<1> HIDE DEF z1
<1>6. z1.noProgress = 0
  BY <1>5 DEF Decoders
<1>7. /\ zds' = z1 /\ out' = o
      /\ hub' = [hub EXCEPT !.pos = back, !.step = "returned", !.result = IF r = 0 THEN "last" ELSE "more"]
  <2>1. ~(z1.noProgress >= MaxStalls)
    BY <1>1, <1>6
  <2> HIDE DEF back, r
  <2> QED BY <1>3, <2>1
<1>8. (z.hostage \/ LeavesHostage(z)) \in BOOLEAN /\ z.hostage \in BOOLEAN
  BY DecoderShape DEF LeavesHostage
<1>9. zds' \in Decoders /\ zds'.hostage = (z.hostage \/ LeavesHostage(z))
  BY <1>5, <1>7, <1>8 DEF Decoders
<1>10. zds' = [z EXCEPT !.noProgress = 0, !.hostage = zds'.hostage]
  BY <1>5, <1>7, <1>9
<1>11. CASE z.expected = 0 /\ flushed
  <2>1. r = 0 /\ ~keeps /\ (held <=> z.hostage)
    BY <1>2, <1>11
  <2>2. back = IF z.hostage THEN ip + 1 ELSE ip
    BY <1>2, <1>4, <2>1
  <2> HIDE DEF back, r, keeps, stuck
  <2> QED BY <1>4, <1>7, <1>9, <1>10, <1>11, <2>1, <2>2
<1>12. CASE ~(z.expected = 0 /\ flushed)
  <2>1. r = 1 /\ ~held
    BY <1>2, <1>12
  <2>2. keeps <=> z.expected = 0 /\ ~z.hostage
    BY <1>12
  <2>3. back = IF z.expected = 0 /\ ~z.hostage THEN ip - 1 ELSE ip
    BY <1>4, <2>1, <2>2
  <2>4. zds'.hostage <=> z.hostage \/ (z.expected = 0 /\ ~flushed)
    BY <1>4, <1>8, <1>9, <1>12, <2>2
  <2> HIDE DEF back, r, keeps, stuck
  <2> QED BY <1>7, <1>9, <1>10, <1>12, <2>1, <2>3, <2>4
<1> QED BY <1>11, <1>12

\* The call that has all of the frame: its output is complete.
LEMMA CallEnds ==
    ASSUME StreamInv, hub.step = "inside", NEW z \in Decoders, NEW ip \in Nat, NEW o \in Seq(Nat),
           ReturnFrom(z, ip, o), z.noProgress = 0, ip # call.istart \/ Len(o) # call.ostart,
           z.expected = 0, z.outEnd = z.outStart, z.hostage => ip < hub.len,
           UNCHANGED <<frame, mode, blob, ring, call>>,
           Len(o) = Content(frame), \A i \in DOMAIN o : o[i] = i
    PROVE  StreamInv'
<1>2. /\ zds' \in Decoders /\ out' = o
      /\ zds' = [z EXCEPT !.noProgress = 0, !.hostage = zds'.hostage]
      /\ hub' = [hub EXCEPT !.pos = IF z.hostage THEN ip + 1 ELSE ip,
                            !.step = "returned", !.result = "last"]
  <2>1. ip \in Int
    OBVIOUS
  <2>2. /\ zds' \in Decoders /\ out' = o
        /\ zds' = [z EXCEPT !.noProgress = 0, !.hostage = zds'.hostage]
        /\ z.expected = 0 /\ z.outEnd = z.outStart =>
              hub' = [hub EXCEPT !.pos = IF z.hostage THEN ip + 1 ELSE ip,
                                 !.step = "returned", !.result = "last"]
    BY ZenonT(30), <2>1, ReturnIs
  <2> QED BY Zenon, <2>2
<1>3. PICK p \in Nat : p = IF z.hostage THEN ip + 1 ELSE ip
  OBVIOUS
<1>4. hub' \in Hubs /\ hub'.step = "returned" /\ hub'.result = "last"
  <2>1. hub' = [hub EXCEPT !.pos = p, !.step = "returned", !.result = "last"]
    BY <1>2, <1>3
  <2>2. hub \in Hubs
    BY InsideIs
  <2> QED BY <2>1, <2>2 DEF Hubs
<1>5. zds'.noProgress = 0
  BY <1>2 DEF Decoders
<1>6. StreamTypeOK'
  BY <1>2, <1>4, InsideIs DEF StreamTypeOK
<1>7. ~Active'
  BY <1>4 DEF Active
<1>8. Ended'
  BY <1>2, <1>4 DEF Ended
<1> QED BY <1>2, <1>5, <1>6, <1>7, <1>8 DEF StreamInv

\* A call that leaves output in the ring, or waits for more input.
LEMMA CallGoesOn ==
    ASSUME StreamInv, hub.step = "inside", NEW z \in Decoders, NEW ip \in Nat, NEW o \in Seq(Nat),
           ReturnFrom(z, ip, o), z.noProgress = 0, ip # call.istart \/ Len(o) # call.ostart,
           z.expected # 0 \/ z.outEnd # z.outStart
    PROVE  /\ zds' \in Decoders /\ out' = o /\ zds'.noProgress = 0
           /\ zds' = [z EXCEPT !.noProgress = 0, !.hostage = zds'.hostage]
           /\ zds'.hostage <=> z.hostage \/ z.expected = 0
           /\ hub' = [hub EXCEPT !.pos = IF z.expected = 0 /\ ~z.hostage THEN ip - 1 ELSE ip,
                                 !.step = "returned", !.result = "more"]
<1>2. /\ zds' \in Decoders /\ out' = o
      /\ zds' = [z EXCEPT !.noProgress = 0, !.hostage = zds'.hostage]
      /\ zds'.hostage <=> z.hostage \/ (z.expected = 0 /\ z.outEnd # z.outStart)
      /\ hub' = [hub EXCEPT !.pos = IF z.expected = 0 /\ ~z.hostage THEN ip - 1 ELSE ip,
                            !.step = "returned", !.result = "more"]
  <2>1. ip \in Int
    OBVIOUS
  <2> QED BY <2>1, ReturnIs
<1>3. zds'.noProgress = 0
  BY <1>2 DEF Decoders
<1>4. zds'.hostage <=> z.hostage \/ z.expected = 0
  BY <1>2
<1> QED BY <1>2, <1>3, <1>4
-----------------------------------------------------------------------------
(* The header of the frame *)

(* A decoder's first state. *)
LEMMA NewDecoderIs ==
    /\ NewDecoder \in Decoders
    /\ NewDecoder.noProgress = 0 /\ NewDecoder.lhSize = 0 /\ NewDecoder.streamStage = "init"
<1>1. 0 \in Nat /\ 1 \in Nat
  OBVIOUS
<1> QED BY <1>1 DEF NewDecoder, Decoders

(* Collecting the frame's header takes input and gives nothing yet. *)
LEMMA LoadHeaderInv == StreamInv /\ LoadHeader => StreamInv'
<1> SUFFICES ASSUME StreamInv, LoadHeader PROVE StreamInv'
  OBVIOUS
<1>1. /\ hub.step = "inside" /\ zds.streamStage \in {"init", "loadHeader"}
      /\ UNCHANGED <<frame, mode, blob, out, ring>>
  BY DEF LoadHeader, Inside, Same
<1>2. /\ NothingYet /\ Beginning /\ zds.lhSize \in Nat /\ zds \in Decoders /\ hub \in Hubs
      /\ call.ip \in Nat /\ call.istart \in Nat /\ hub.len \in Nat /\ HeaderSize \in Nat
      /\ call.ip <= hub.len /\ call.istart <= call.ip /\ Avail = hub.len - call.ip
      /\ call \in [ip : Nat, istart : Nat, ostart : Nat]
  BY <1>1, InsideIs, DecoderShape, Shape DEF DecoderInv, Beginning, Avail
<1>3. PICK z : /\ z = IF zds.streamStage = "init"
                      THEN [NewDecoder EXCEPT !.streamStage = "loadHeader", !.noProgress = zds.noProgress]
                      ELSE zds
               /\ z.lhSize < HeaderSize
               /\ IF HeaderSize - z.lhSize > Avail
                  THEN /\ zds' = [z EXCEPT !.lhSize = @ + Avail]
                       /\ hub' = [hub EXCEPT !.pos = hub.len, !.step = "returned", !.result = "more"]
                       /\ UNCHANGED call
                  ELSE /\ zds' = [z EXCEPT !.lhSize = HeaderSize]
                       /\ call' = [call EXCEPT !.ip = @ + (HeaderSize - z.lhSize)]
                       /\ UNCHANGED hub
  BY DEF LoadHeader
<1>4. z = [NewDecoder EXCEPT !.streamStage = "loadHeader", !.lhSize = zds.lhSize]
  <2>1. zds.noProgress = 0
    BY <1>1, InsideIs
  <2>2. CASE zds.streamStage = "init"
    <3>1. zds.lhSize = 0
      BY <1>2, <2>2 DEF NothingYet
    <3>2. z = [NewDecoder EXCEPT !.streamStage = "loadHeader", !.noProgress = 0]
      BY <1>3, <2>1, <2>2
    <3>3. NewDecoder.noProgress = 0 /\ NewDecoder.lhSize = 0 /\ NewDecoder \in Decoders
      BY NewDecoderIs
    <3> QED BY <3>1, <3>2, <3>3 DEF Decoders
  <2>3. CASE zds.streamStage = "loadHeader"
    BY <1>2, <1>3, <2>3 DEF NothingYet
  <2> QED BY <1>1, <2>2, <2>3
<1>5. z.lhSize = zds.lhSize
  BY <1>4 DEF NewDecoder
<1>6. ASSUME NEW k \in Nat, zds' = [z EXCEPT !.lhSize = k], k <= HeaderSize,
             hub'.step # "inside" => k < HeaderSize
      PROVE  /\ zds' \in Decoders /\ zds'.noProgress = 0 /\ DecoderInv' /\ Consumed' = k
             /\ zds'.streamStage = "loadHeader"
  <2>1. zds' = [NewDecoder EXCEPT !.streamStage = "loadHeader", !.lhSize = k]
    BY <1>4, <1>6 DEF NewDecoder
  <2>2. zds'.streamStage = "loadHeader" /\ zds'.lhSize = k /\ zds'.noProgress = 0
    BY <2>1 DEF NewDecoder
  <2>3. zds' \in Decoders
    <3>1. NewDecoder \in Decoders
      BY NewDecoderIs
    <3> QED BY <1>6, <2>1, <3>1 DEF Decoders
  <2>4. zds' = [NewDecoder EXCEPT !.streamStage = zds'.streamStage, !.lhSize = zds'.lhSize]
    BY <2>1, <2>2
  <2>5. NothingYet'
    BY <1>1, <1>2, <1>6, <2>2, <2>4 DEF NothingYet
  <2>6. Beginning' /\ Consumed' = k
    BY <2>2 DEF Beginning, Consumed
  <2> QED BY Zenon, <2>2, <2>3, <2>5, <2>6 DEF DecoderInv
<1>7. Consumed = zds.lhSize
  BY <1>2 DEF Consumed
<1>8. CASE HeaderSize - zds.lhSize > Avail
  <2>1. /\ zds' = [z EXCEPT !.lhSize = zds.lhSize + Avail]
        /\ hub' = [hub EXCEPT !.pos = hub.len, !.step = "returned", !.result = "more"]
        /\ UNCHANGED call
    BY <1>3, <1>5, <1>8
  <2>2. /\ hub' \in Hubs /\ hub'.step = "returned" /\ hub'.result = "more" /\ hub'.pos = hub.len
        /\ hub'.remain = hub.remain /\ hub'.len = hub.len /\ hub'.cap = hub.cap
    BY <1>2, <2>1 DEF Hubs
  <2>3. PICK k \in Nat : k = zds.lhSize + Avail /\ k < HeaderSize /\ Avail \in Int
    BY <1>2, <1>8
  <2>4. /\ zds' \in Decoders /\ zds'.noProgress = 0 /\ DecoderInv'
        /\ Consumed' = Consumed + Avail
    <3>1. zds' = [z EXCEPT !.lhSize = k] /\ k <= HeaderSize
      BY <1>2, <2>1, <2>3
    <3>2. /\ zds' \in Decoders /\ zds'.noProgress = 0 /\ DecoderInv' /\ Consumed' = k
      BY <1>6, <2>3, <3>1
    <3> QED BY <1>7, <2>3, <3>2
  <2>5. Position' = call.ip + Avail /\ call.ip + Avail <= hub.len
    BY <1>2, <2>2 DEF Position
  <2>6. Progress'
    BY <2>2 DEF Progress
  <2> QED BY <1>1, <1>2, <2>1, <2>2, <2>3, <2>4, <2>5, <2>6, InsideIs, Advances
<1>9. CASE ~(HeaderSize - zds.lhSize > Avail)
  <2>1. PICK n \in Nat : n = HeaderSize - zds.lhSize /\ n >= 1
    BY <1>2, <1>3, <1>5
  <2>2. zds' = [z EXCEPT !.lhSize = HeaderSize] /\ call' = [call EXCEPT !.ip = @ + n] /\ hub' = hub
    BY <1>3, <1>5, <1>9, <2>1
  <2>3. /\ zds' \in Decoders /\ zds'.noProgress = 0 /\ DecoderInv'
        /\ Consumed' = HeaderSize
    BY <1>1, <1>2, <1>6, <2>2
  <2>4. /\ call' \in [ip : Nat, istart : Nat, ostart : Nat] /\ call'.ip = call.ip + n
        /\ call'.istart = call.istart /\ call'.ostart = call.ostart
    BY <1>2, <2>2
  <2>5. Position' = call.ip + n /\ call.ip + n <= hub.len
    <3>1. n <= hub.len - call.ip
      BY <1>2, <1>9, <2>1
    <3> QED BY <1>1, <1>2, <2>2, <2>4, <3>1 DEF Position
  <2>6. Consumed' = Consumed + n /\ n \in Int
    BY <1>2, <1>7, <2>1, <2>3
  <2>7. Progress'
    <3>1. call'.istart < call'.ip /\ call'.ostart <= Len(out)
      BY SMTT(30), <1>1, <1>2, <2>1, <2>4, InsideIs
    <3> QED BY <1>1, <1>2, <2>4, <3>1 DEF Progress
  <2> QED BY <1>1, <1>2, <2>2, <2>3, <2>4, <2>5, <2>6, <2>7, InsideIs, Advances
<1> QED BY <1>8, <1>9

\* A ring that is not as large as the content is as large as it needs to be.
LEMMA RingSizeIs ==
    ASSUME StreamTypeOK
    PROVE  /\ RingNeeded \in Nat /\ RingNeeded >= Window + 2 * BlockMax /\ frame.sized \in BOOLEAN
           /\ RingSize(frame) \in Nat
           /\ ~frame.sized \/ RingSize(frame) < Content(frame) => RingSize(frame) = RingNeeded
<1>1. /\ IsFrame(frame) /\ Content(frame) \in Nat /\ Window \in Nat /\ BlockMax \in Nat
      /\ WildCopy \in Nat
  BY Shape
<1>2. frame.sized \in BOOLEAN
  BY <1>1 DEF IsFrame
<1>3. RingNeeded \in Nat /\ RingNeeded >= Window + 2 * BlockMax
  BY <1>1 DEF RingNeeded
<1>4. Min({Content(frame), RingNeeded}) =
          IF Content(frame) <= RingNeeded THEN Content(frame) ELSE RingNeeded
  <2>1. Content(frame) \in Int /\ RingNeeded \in Int
    BY <1>1, <1>3
  <2> QED BY <2>1, MinIs
<1>5. RingSize(frame) = IF ~frame.sized THEN RingNeeded
                        ELSE IF Content(frame) <= RingNeeded THEN Content(frame) ELSE RingNeeded
  BY <1>2, <1>4 DEF RingSize
<1> QED BY <1>1, <1>2, <1>3, <1>5

(* The ring of a new frame is empty, and as long as the frame needs. *)
LEMMA BeginFrameInv == StreamInv /\ BeginFrame => StreamInv'
<1> SUFFICES ASSUME StreamInv, BeginFrame PROVE StreamInv'
  OBVIOUS
<1>1. /\ hub.step = "inside" /\ zds.streamStage = "loadHeader" /\ zds.lhSize = HeaderSize
      /\ zds' = [zds EXCEPT !.streamStage = "read", !.stage = "blockHeader", !.expected = BlockHeader]
      /\ ring' = [i \in 1..RingSize(frame) |-> 0]
      /\ UNCHANGED <<frame, mode, blob, hub, out, call>>
  BY DEF BeginFrame, Inside, Same
<1>2. /\ NothingYet /\ Beginning /\ StreamTypeOK /\ zds \in Decoders /\ hub \in Hubs
      /\ call.ip \in Nat /\ BlockHeader \in Nat \ {0} /\ BlockMax \in Nat /\ HeaderSize \in Nat
      /\ Window \in Nat
  BY <1>1, InsideIs, Shape DEF DecoderInv, Beginning
<1>3. /\ zds.stage = "blockHeader" /\ zds.inPos = 0 /\ zds.outStart = 0 /\ zds.outEnd = 0
      /\ zds.block = 1 /\ zds.decoded = 0 /\ zds.hostage = FALSE /\ out = <<>>
  BY <1>2 DEF NothingYet, NewDecoder
<1>4. /\ zds' \in Decoders
      /\ zds'.streamStage = "read" /\ zds'.stage = "blockHeader" /\ zds'.expected = BlockHeader
      /\ zds'.inPos = 0 /\ zds'.outStart = 0 /\ zds'.outEnd = 0 /\ zds'.block = 1
      /\ zds'.decoded = 0 /\ ~zds'.hostage /\ zds'.noProgress = zds.noProgress
  BY <1>1, <1>2, <1>3 DEF Decoders
<1>5. 1 \in DOMAIN frame.blocks /\ frame.blocks[1].from = HeaderSize /\ frame.blocks[1].at = 0
  <2>1. IsFrame(frame)
    BY <1>2, Shape
  <2>2. Len(frame.blocks) \in Nat \ {0} /\ DOMAIN frame.blocks = 1..Len(frame.blocks)
    BY <2>1, BlocksAre
  <2>3. frame.blocks[1].from = HeaderSize /\ frame.blocks[1].at = 0
    BY <2>1 DEF IsFrame
  <2> QED BY <2>2, <2>3
<1>6. RingSize(frame) \in Nat /\ ring' \in Seq(Nat) /\ Len(ring') = RingSize(frame)
  <2>1. RingSize(frame) \in Nat
    BY <1>2, RingSizeIs
  <2>2. \A i \in 1..RingSize(frame) : 0 \in Nat
    OBVIOUS
  <2>3. ring' \in Seq(Nat) /\ Len(ring') = RingSize(frame)
    BY <1>1, <2>1, <2>2, IsASeq
  <2> QED BY <2>1, <2>3
<1>7. zds'.block \in DOMAIN frame'.blocks /\ zds'.decoded = ContentRead' /\ Consumed' = HeaderSize
  <2>1. Block'.at = 0 /\ Block'.from = HeaderSize
    BY <1>1, <1>4, <1>5 DEF Block
  <2>2. ~Beginning'
    BY <1>4 DEF Beginning
  <2>3. zds'.block \in DOMAIN frame'.blocks
    BY <1>1, <1>4, <1>5
  <2>4. ContentRead' = 0
    BY <1>4, <2>1 DEF ContentRead
  <2>5. Consumed' = 0 + HeaderSize
    BY <1>4, <2>1, <2>2 DEF Consumed
  <2> QED BY <1>2, <1>4, <2>3, <2>4, <2>5
<1>8. Expecting' /\ EndSeen' /\ OutputCounted'
  <2>1. Expecting'
    BY <1>4 DEF Expecting
  <2>2. EndSeen'
    BY <1>4 DEF EndSeen
  <2>3. Len(out') + zds'.outEnd = zds'.decoded + zds'.outStart
    BY <1>1, <1>3, <1>4
  <2>4. OutputCounted'
    BY <1>4, <2>3 DEF OutputCounted
  <2> QED BY <2>1, <2>2, <2>4
<1>9. RingHolds'
  <2>1. Wraps' => zds'.outStart + BlockMax <= Len(ring')
    <3> SUFFICES ASSUME Wraps' PROVE 0 + BlockMax <= RingSize(frame)
      BY <1>4, <1>6
    <3>1. ~frame.sized \/ RingSize(frame) < Content(frame)
      BY <1>1, <1>6 DEF Wraps
    <3>2. RingSize(frame) = RingNeeded /\ RingNeeded \in Nat /\ RingNeeded >= Window + 2 * BlockMax
      BY <1>2, <3>1, RingSizeIs
    <3> QED BY <1>2, <3>2
  <2>2. /\ Len(ring') = RingSize(frame)' /\ zds'.outEnd <= Len(ring')
        /\ zds'.outEnd <= zds'.decoded /\ zds'.decoded = zds'.outEnd
        /\ \A i \in 1..zds'.outEnd : ring'[i] = zds'.decoded - zds'.outEnd + i
    BY <1>1, <1>4, <1>6
  <2> QED BY <2>1, <2>2 DEF RingHolds
<1>10. DecoderInv'
  <2>1. ~Beginning'
    BY <1>4 DEF Beginning
  <2>2. InFrame'
    BY <1>7, <1>8, <1>9 DEF InFrame
  <2> QED BY Zenon, <2>1, <2>2 DEF DecoderInv
<1>11. Progress'
  <2>1. /\ call.istart <= call.ip /\ call.ostart <= Len(out)
        /\ \/ call.ip > call.istart \/ Len(out) > call.ostart
           \/ call.ip < hub.len /\ Len(out) < hub.cap
    BY <1>1, InsideIs
  <2>2. zds'.expected # 0
    BY <1>2, <1>4
  <2> QED BY <1>1, <2>1, <2>2 DEF Progress
<1>12. Consumed = HeaderSize /\ Position' = call.ip
  BY <1>1, <1>2 DEF Consumed, Position
<1>13. 0 \in Int /\ Position' = call.ip + 0 /\ Consumed' = Consumed + 0 /\ call.ip + 0 <= hub.len
       /\ zds'.noProgress = 0
  BY <1>1, <1>2, <1>4, <1>7, <1>12, InsideIs
<1> QED BY <1>1, <1>4, <1>6, <1>10, <1>11, <1>13, InsideIs, Advances

\* All of a frame at once.
LEMMA DecodeAllInv == StreamInv /\ DecodeAll => StreamInv'
<1> SUFFICES ASSUME StreamInv, DecodeAll PROVE StreamInv'
  OBVIOUS
<1> DEFINE z == [zds EXCEPT !.expected = 0, !.streamStage = "init"]
           ip == call.istart + FrameSize(frame)
           content == [i \in 1..Content(frame) |-> i]
           o == out \o content
<1>1. /\ hub.step = "inside" /\ zds.streamStage = "loadHeader" /\ ReturnFrom(z, ip, o)
      /\ UNCHANGED <<frame, mode, blob, ring, call>>
  BY DEF DecodeAll, Inside, Same
<1>2. /\ NothingYet /\ Beginning /\ StreamTypeOK /\ zds \in Decoders /\ zds.noProgress = 0
      /\ call.istart \in Nat
  BY <1>1, InsideIs DEF DecoderInv, Beginning
<1>3. zds.outStart = 0 /\ zds.outEnd = 0 /\ zds.hostage = FALSE /\ out = <<>>
  BY <1>2 DEF NothingYet, NewDecoder
<1>4. /\ z \in Decoders /\ z.noProgress = 0 /\ z.expected = 0 /\ z.outEnd = z.outStart
      /\ ~z.hostage
  BY <1>2, <1>3 DEF Decoders
<1>5. FrameSize(frame) \in Nat /\ FrameSize(frame) >= 1 /\ Content(frame) \in Nat
  <2>1. IsFrame(frame) /\ HeaderSize \in Nat \ {0} /\ BlockHeader \in Nat /\ Checksum \in Nat
    BY <1>2, Shape
  <2>2. /\ FrameSize(frame) = BlocksEnd(frame) + (IF frame.checksum THEN Checksum ELSE 0)
        /\ 1 \in DOMAIN frame.blocks /\ frame.blocks[1] \in Blocks /\ FrameSize(frame) \in Nat
        /\ frame.blocks[1].from + BlockHeader + frame.blocks[1].c <= BlocksEnd(frame)
        /\ Content(frame) \in Nat /\ BlocksEnd(frame) \in Nat
    BY <2>1, BlocksAre
  <2>3. frame.blocks[1].from = HeaderSize /\ frame.checksum \in BOOLEAN
    BY <2>1 DEF IsFrame
  <2>4. frame.blocks[1].c \in Nat
    BY <2>2, StreamAssumption DEF Blocks
  <2> QED BY <2>1, <2>2, <2>3, <2>4
<1>6. ip \in Nat /\ ip # call.istart
  BY <1>2, <1>5
<1>7. content \in Seq(Nat) /\ Len(content) = Content(frame)
      /\ \A i \in 1..Content(frame) : content[i] = i
  <2>1. \A i \in 1..Content(frame) : i \in Nat
    BY <1>5
  <2> QED BY <1>5, <2>1, IsASeq
<1> HIDE DEF z, ip, content
<1>8. o = content
  BY <1>3, <1>7, ConcatEmptySeq
<1>9. o \in Seq(Nat) /\ Len(o) = Content(frame) /\ \A i \in DOMAIN o : o[i] = i
  BY <1>7, <1>8, LenProperties
<1> HIDE DEF o
<1> QED BY <1>1, <1>4, <1>6, <1>9, CallEnds

-----------------------------------------------------------------------------
(* The blocks *)

\* What is known of a decoder in the middle of a frame.
LEMMA InFrameIs ==
    ASSUME StreamInv, hub.step = "inside", ~Beginning
    PROVE  /\ zds.block \in DOMAIN frame.blocks /\ zds.decoded = ContentRead
           /\ Expecting /\ EndSeen /\ RingHolds /\ OutputCounted
           /\ zds.expected = 0 <=> zds.stage = "end"
           /\ zds.streamStage \in {"read", "load", "flush"}
           /\ zds.stage \in {"blockHeader", "block", "checksum", "end"}
           /\ zds.expected \in Nat /\ zds.inPos \in Nat /\ zds.outStart \in Nat
           /\ zds.outEnd \in Nat /\ zds.decoded \in Nat /\ zds.hostage \in BOOLEAN
<1>1. InFrame /\ StreamTypeOK /\ zds \in Decoders
  BY InsideIs DEF DecoderInv
<1>2. zds.expected = 0 <=> zds.stage = "end"
  BY <1>1, ExpectedIs DEF InFrame
<1>3. zds.streamStage \in {"read", "load", "flush"}
  BY <1>1, DecoderShape DEF Beginning
<1> QED BY <1>1, <1>2, <1>3, DecoderShape DEF InFrame

\* Where the decoder is, as long as its stage is the same.
LEMMA PlaceKept ==
    ASSUME ~Beginning, ~Beginning', Block' = Block, frame' = frame,
           zds'.stage = zds.stage, zds'.expected = zds.expected, zds'.inPos = zds.inPos,
           zds'.hostage <=> zds.hostage,
           zds.stage \in {"blockHeader", "block", "checksum", "end"}
    PROVE  ContentRead' = ContentRead /\ Consumed' = Consumed
<1>1. ContentRead' = ContentRead
  BY DEF ContentRead
<1>2. CASE zds.stage = "end"
  <2>1. CASE zds.hostage
    BY <1>1, <1>2, <2>1 DEF Consumed
  <2>2. CASE ~zds.hostage
    BY <1>1, <1>2, <2>2 DEF Consumed
  <2> QED BY <2>1, <2>2
<1>3. CASE zds.stage # "end"
  BY <1>1, <1>3 DEF Consumed
<1> QED BY <1>2, <1>3

(* Beginning to collect input changes nothing of the account. *)
LEMMA ReadTooLittleInv == StreamInv /\ ReadTooLittle => StreamInv'
<1> SUFFICES ASSUME StreamInv, ReadTooLittle PROVE StreamInv'
  OBVIOUS
<1>1. /\ hub.step = "inside" /\ zds.streamStage = "read" /\ zds.expected # 0
      /\ Avail \in 1..Needed - 1 /\ zds' = [zds EXCEPT !.streamStage = "load"]
      /\ UNCHANGED <<frame, mode, blob, hub, out, ring, call>>
  BY DEF ReadTooLittle, Inside, Same
<1>2. ~Beginning /\ zds \in Decoders /\ Avail = hub.len - call.ip /\ Avail \in Int
  BY <1>1, InsideIs DEF Beginning, Avail
<1>3. /\ zds.block \in DOMAIN frame.blocks /\ zds.decoded = ContentRead
      /\ Expecting /\ EndSeen /\ RingHolds /\ OutputCounted /\ zds.expected \in Nat
      /\ zds.inPos \in Nat
  BY <1>1, <1>2, InFrameIs
<1>4. /\ zds' \in Decoders /\ zds'.streamStage = "load"
      /\ zds'.stage = zds.stage /\ zds'.lhSize = zds.lhSize /\ zds'.expected = zds.expected
      /\ zds'.inPos = zds.inPos /\ zds'.outStart = zds.outStart /\ zds'.outEnd = zds.outEnd
      /\ zds'.block = zds.block /\ zds'.decoded = zds.decoded /\ zds'.hostage = zds.hostage
      /\ zds'.noProgress = zds.noProgress
  BY <1>1, <1>2 DEF Decoders
<1>5. Beginning' = Beginning /\ Block' = Block /\ Wraps' = Wraps /\ InBlock' = InBlock
      /\ Position' = call.ip /\ ~Beginning'
  <2>1. ~Beginning' /\ ~Beginning
    BY <1>2, <1>4 DEF Beginning
  <2> QED BY <1>1, <1>4, <2>1 DEF Block, Wraps, InBlock, Position, Beginning
<1>6. zds.inPos = 0 /\ ~(InBlock /\ Block.raw)
  <2>1. zds.inPos = 0
    BY <1>1, <1>3 DEF Expecting
  <2>2. ASSUME InBlock, Block.raw PROVE FALSE
    <3>1. Needed = Max({1, Min({Avail, zds.expected})})
      BY <2>2 DEF Needed
    <3>2. PICK least : least = Min({Avail, zds.expected})
      OBVIOUS
    <3>3. least \in Int /\ least <= Avail
      <4>1. Avail \in Int /\ zds.expected \in Int
        BY <1>2, <1>3
      <4>2. least = IF Avail <= zds.expected THEN Avail ELSE zds.expected
        BY <3>2, <4>1, MinIs
      <4> QED BY <4>1, <4>2
    <3>4. Max({1, least}) = IF 1 >= least THEN 1 ELSE least
      BY <3>3, MaxIs
    <3> QED BY <1>1, <1>2, <3>1, <3>2, <3>3, <3>4
  <2> QED BY <2>1, <2>2
<1>7. Expecting'
  BY <1>1, <1>3, <1>4, <1>5, <1>6, InsideIs DEF Expecting
<1>8. ContentRead' = ContentRead /\ Consumed' = Consumed
  <2>1. zds.stage \in {"blockHeader", "block", "checksum", "end"}
    BY <1>2, DecoderShape
  <2> QED BY <1>1, <1>2, <1>4, <1>5, <2>1, PlaceKept
<1>9. EndSeen' /\ OutputCounted'
  BY <1>1, <1>3, <1>4 DEF EndSeen, OutputCounted
<1>10. RingHolds'
  BY <1>1, <1>3, <1>4, <1>5 DEF RingHolds, LapBefore
<1>11. DecoderInv'
  <2>1. zds'.block \in DOMAIN frame'.blocks /\ zds'.decoded = ContentRead'
    BY <1>1, <1>3, <1>4, <1>8
  <2>2. InFrame'
    BY Zenon, <1>7, <1>9, <1>10, <2>1 DEF InFrame
  <2>3. ~Beginning'
    BY <1>4 DEF Beginning
  <2> QED BY Zenon, <2>2, <2>3 DEF DecoderInv
<1>12. Progress'
  <2>1. /\ call.istart <= call.ip /\ call.ostart <= Len(out)
        /\ \/ call.ip > call.istart \/ Len(out) > call.ostart
           \/ call.ip < hub.len /\ Len(out) < hub.cap
    BY <1>1, InsideIs
  <2> QED BY <1>1, <1>4, <2>1 DEF Progress
<1>13. 0 \in Int /\ Position' = call.ip + 0 /\ Consumed' = Consumed + 0 /\ call.ip + 0 <= hub.len
       /\ zds'.noProgress = 0
  <2>1. Consumed \in Int
    BY <1>1, InsideIs, ConsumedIs
  <2> QED BY <1>1, <1>4, <1>5, <1>8, <2>1, InsideIs
<1> QED BY <1>1, <1>4, <1>11, <1>12, <1>13, InsideIs, Advances

(* Where the frame ends, or no input is left, all that is decoded is out. *)
LEMMA ReadEndInv == StreamInv /\ ReadEnd => StreamInv'
<1> SUFFICES ASSUME StreamInv, ReadEnd PROVE StreamInv'
  OBVIOUS
<1>1. /\ hub.step = "inside" /\ zds.streamStage = "read" /\ (zds.expected = 0 \/ Avail = 0)
      /\ ReturnFrom(IF zds.expected = 0 THEN [zds EXCEPT !.streamStage = "init"] ELSE zds,
                    call.ip, out)
      /\ UNCHANGED <<frame, mode, blob, ring, call>>
  BY DEF ReadEnd, Inside, Same
<1>2. /\ ~Beginning /\ zds \in Decoders /\ Avail = hub.len - call.ip /\ zds.noProgress = 0
      /\ call.ip \in Nat /\ hub.len \in Nat /\ out \in Seq(Nat) /\ call.ip <= hub.len
  BY <1>1, InsideIs DEF Beginning, Avail
<1>3. /\ zds.block \in DOMAIN frame.blocks /\ zds.decoded = ContentRead
      /\ Expecting /\ EndSeen /\ RingHolds /\ OutputCounted
      /\ zds.expected = 0 <=> zds.stage = "end"
      /\ zds.outStart = zds.outEnd /\ zds.outStart \in Nat /\ zds.decoded \in Nat
  BY <1>1, <1>2, InFrameIs DEF OutputCounted
<1>4. call.ip # call.istart \/ Len(out) # call.ostart
  <2>1. \/ call.ip > call.istart \/ Len(out) > call.ostart
        \/ call.ip < hub.len /\ ~(zds.streamStage = "read" /\ zds.expected = 0)
    BY <1>1, InsideIs
  <2>2. ~(call.ip < hub.len /\ zds.expected # 0)
    BY <1>1, <1>2
  <2>3. call.istart \in Nat /\ call.ostart \in Nat /\ Len(out) \in Nat
    BY <1>1, InsideIs
  <2> QED BY <1>1, <1>2, <2>1, <2>2, <2>3
<1>5. CASE zds.expected = 0
  <2> DEFINE z == [zds EXCEPT !.streamStage = "init"]
  <2>1. ReturnFrom(z, call.ip, out)
    BY <1>1, <1>5
  <2>2. z \in Decoders /\ z.noProgress = 0 /\ z.expected = 0 /\ z.outEnd = z.outStart
        /\ z.hostage = zds.hostage
    BY <1>2, <1>3, <1>5 DEF Decoders
  <2>3. z.hostage => call.ip < hub.len
    BY <1>1, <1>3, <2>2 DEF Expecting, Position
  <2>4. Len(out) = Content(frame) /\ \A i \in DOMAIN out : out[i] = i
    <3>1. zds.decoded = Content(frame)
      BY <1>3, <1>5 DEF ContentRead
    <3>2. Len(out) + zds.outEnd = zds.decoded + zds.outStart /\ Len(out) \in Nat
      BY <1>1, <1>3, InsideIs DEF OutputCounted
    <3> QED BY <1>1, <1>3, <3>1, <3>2, InsideIs
  <2> HIDE DEF z
  <2> QED BY <1>1, <1>2, <1>4, <2>1, <2>2, <2>3, <2>4, CallEnds
<1>6. CASE zds.expected # 0
  <2>1. ReturnFrom(zds, call.ip, out)
    BY <1>1, <1>6
  <2>2. /\ zds' \in Decoders /\ out' = out /\ zds'.noProgress = 0
        /\ zds' = [zds EXCEPT !.noProgress = 0, !.hostage = zds'.hostage]
        /\ zds'.hostage <=> zds.hostage
        /\ hub' = [hub EXCEPT !.pos = call.ip, !.step = "returned", !.result = "more"]
    BY ZenonT(30), <1>1, <1>2, <1>4, <1>6, <2>1, CallGoesOn
  <2>3. /\ zds'.streamStage = "read"
        /\ zds'.stage = zds.stage /\ zds'.lhSize = zds.lhSize /\ zds'.expected = zds.expected
        /\ zds'.inPos = zds.inPos /\ zds'.outStart = zds.outStart /\ zds'.outEnd = zds.outEnd
        /\ zds'.block = zds.block /\ zds'.decoded = zds.decoded
    BY <1>1, <1>2, <2>2 DEF Decoders
  <2>4. /\ hub' \in Hubs /\ hub'.step = "returned" /\ hub'.result = "more" /\ hub'.pos = call.ip
        /\ hub'.remain = hub.remain /\ hub'.len = hub.len /\ hub'.cap = hub.cap
    <3>1. hub \in Hubs
      BY <1>1, InsideIs
    <3> QED BY <1>2, <2>2, <3>1 DEF Hubs
  <2>5. Block' = Block /\ Wraps' = Wraps /\ InBlock' = InBlock /\ Position' = call.ip
        /\ ~Beginning'
    BY <1>1, <2>3, <2>4 DEF Block, Wraps, InBlock, Position, Beginning
  <2>6. zds.stage # "end" /\ ~zds.hostage
    BY <1>3, <1>6 DEF Expecting
  <2>7. Expecting'
    BY <1>1, <1>3, <2>2, <2>3, <2>5, <2>6 DEF Expecting
  <2>8. ContentRead' = ContentRead /\ Consumed' = Consumed
    <3>1. Consumed' = Consumed
      BY <1>1, <1>2, <1>3, <2>3, <2>5, <2>6, InFrameIs DEF Consumed
    <3>2. ContentRead' = ContentRead
      BY <1>1, <2>3, <2>5 DEF ContentRead
    <3> QED BY <3>1, <3>2
  <2>9. EndSeen' /\ OutputCounted'
    BY <1>1, <1>3, <2>2, <2>3, <2>6 DEF EndSeen, OutputCounted
  <2>10. RingHolds'
    BY <1>1, <1>3, <2>3, <2>5 DEF RingHolds, LapBefore
  <2>11. DecoderInv'
    <3>1. zds'.block \in DOMAIN frame'.blocks /\ zds'.decoded = ContentRead'
      BY <1>1, <1>3, <2>3, <2>8
    <3>2. InFrame'
      BY Zenon, <2>7, <2>9, <2>10, <3>1 DEF InFrame
    <3> QED BY Zenon, <2>5, <3>2 DEF DecoderInv
  <2>12. Progress'
    BY <2>4 DEF Progress
  <2>13. 0 \in Int /\ Position' = call.ip + 0 /\ Consumed' = Consumed + 0 /\ call.ip + 0 <= hub.len
    <3>1. Consumed \in Int
      BY <1>1, InsideIs, ConsumedIs
    <3> QED BY <1>2, <2>5, <2>8, <3>1
  <2> QED BY <1>1, <1>2, <2>2, <2>4, <2>11, <2>12, <2>13, InsideIs, Advances
<1> QED BY <1>5, <1>6

\* What follows the block that the decoder is in.
Follows(w) ==
    \/ /\ zds.block < Len(frame.blocks)
       /\ w.stage = "blockHeader" /\ w.expected = BlockHeader /\ w.block = zds.block + 1
    \/ /\ zds.block = Len(frame.blocks) /\ frame.checksum
       /\ w.stage = "checksum" /\ w.expected = Checksum /\ w.block = zds.block
    \/ /\ zds.block = Len(frame.blocks) /\ ~frame.checksum
       /\ w.stage = "end" /\ w.expected = 0 /\ w.block = zds.block

(* What follows a block is where that block ends. *)
LEMMA AfterBlockIs ==
    ASSUME StreamTypeOK, zds.block \in DOMAIN frame.blocks, NEW z \in Decoders, z.block = zds.block
    PROVE  /\ AfterBlock(z) \in Decoders /\ Follows(AfterBlock(z))
           /\ AfterBlock(z) = [z EXCEPT !.stage = AfterBlock(z).stage,
                                        !.expected = AfterBlock(z).expected,
                                        !.block = AfterBlock(z).block]
<1>1. /\ zds.block \in Nat /\ zds.block <= Len(frame.blocks) /\ Len(frame.blocks) \in Nat
      /\ frame.checksum \in BOOLEAN /\ BlockHeader \in Nat /\ Checksum \in Nat
  <2>1. IsFrame(frame)
    BY Shape
  <2>2. DOMAIN frame.blocks = 1..Len(frame.blocks) /\ Len(frame.blocks) \in Nat
    BY <2>1, BlocksAre
  <2>3. frame.checksum \in BOOLEAN
    BY <2>1 DEF IsFrame
  <2>4. BlockHeader \in Nat /\ Checksum \in Nat
    BY Shape
  <2> QED BY <2>2, <2>3, <2>4
<1>2. CASE zds.block < Len(frame.blocks)
  <2>1. AfterBlock(z) = [z EXCEPT !.stage = "blockHeader", !.expected = BlockHeader,
                                  !.block = zds.block + 1]
    BY <1>2 DEF AfterBlock
  <2>2. zds.block + 1 \in Nat
    BY <1>1
  <2> HIDE DEF AfterBlock
  <2> QED BY <1>1, <1>2, <2>1, <2>2 DEF Decoders, Follows
<1>3. CASE ~(zds.block < Len(frame.blocks)) /\ frame.checksum
  <2>1. AfterBlock(z) = [z EXCEPT !.stage = "checksum", !.expected = Checksum]
    BY <1>3 DEF AfterBlock
  <2>2. zds.block = Len(frame.blocks)
    BY <1>1, <1>3
  <2> QED BY <1>1, <1>3, <2>1, <2>2 DEF Decoders, Follows
<1>4. CASE ~(zds.block < Len(frame.blocks)) /\ ~frame.checksum
  <2>1. AfterBlock(z) = [z EXCEPT !.stage = "end", !.expected = 0]
    BY <1>4 DEF AfterBlock
  <2>2. zds.block = Len(frame.blocks)
    BY <1>1, <1>4
  <2> HIDE DEF AfterBlock
  <2>3. AfterBlock(z) \in Decoders /\ AfterBlock(z).stage = "end" /\ AfterBlock(z).expected = 0
        /\ AfterBlock(z).block = z.block
    <3>1. PICK none \in Nat : none = 0
      OBVIOUS
    <3>2. AfterBlock(z) = [z EXCEPT !.stage = "end", !.expected = none]
      BY <2>1, <3>1
    <3> QED BY <3>1, <3>2 DEF Decoders
  <2>4. Follows(AfterBlock(z))
    BY <1>4, <2>2, <2>3 DEF Follows
  <2>5. AfterBlock(z) = [z EXCEPT !.stage = AfterBlock(z).stage,
                                  !.expected = AfterBlock(z).expected,
                                  !.block = AfterBlock(z).block]
    BY <2>1, <2>3 DEF Decoders
  <2> QED BY <2>3, <2>4, <2>5
<1> QED BY <1>2, <1>3, <1>4

\* One call of ZSTD_decompressContinue.
LEMMA DecodedIs ==
    ASSUME StreamTypeOK, zds.block \in DOMAIN frame.blocks, Expecting, zds.expected # 0,
           NEW k \in Nat, NEW z, z = [zds EXCEPT !.inPos = k],
           NEW n \in 1..zds.expected, ~(InBlock /\ Block.raw) => n = zds.expected,
           NEW w, w = Decoded(z, n)
    PROVE  /\ Produced(n) \in Nat
           /\ w \in Decoders /\ w.inPos = 0 /\ ~w.hostage /\ w.noProgress = zds.noProgress
           /\ w.outStart = zds.outStart /\ w.outEnd = zds.outStart + Produced(n)
           /\ w.decoded = zds.decoded + Produced(n)
           /\ w.streamStage = IF Produced(n) = 0 THEN "read" ELSE "flush"
           /\ \/ /\ zds.stage = "blockHeader" /\ Block.c > 0 /\ Produced(n) = 0 /\ n = BlockHeader
                 /\ w.stage = "block" /\ w.expected = Block.c /\ w.block = zds.block
              \/ /\ zds.stage = "blockHeader" /\ Block.c = 0 /\ Produced(n) = 0 /\ n = BlockHeader
                 /\ Follows(w)
              \/ /\ zds.stage = "block" /\ Block.raw /\ Produced(n) = n /\ n < zds.expected
                 /\ w.stage = "block" /\ w.expected = zds.expected - n /\ w.block = zds.block
              \/ /\ zds.stage = "block" /\ n = zds.expected
                 /\ Produced(n) = IF Block.raw THEN n ELSE Block.r
                 /\ Follows(w)
              \/ /\ zds.stage = "checksum" /\ Produced(n) = 0 /\ n = Checksum
                 /\ w.stage = "end" /\ w.expected = 0 /\ w.block = zds.block
<1>1. /\ zds \in Decoders /\ zds.expected \in Nat /\ zds.decoded \in Nat /\ zds.outStart \in Nat
      /\ zds.stage \in {"blockHeader", "block", "checksum"} /\ ~zds.hostage /\ n \in Nat
      /\ zds.hostage = FALSE
  BY ExpectedIs, DecoderShape DEF StreamTypeOK, Expecting
<1>2. Block.c \in Nat /\ Block.r \in Nat /\ Block.raw \in BOOLEAN
  BY BlockIs
<1>3. Produced(n) \in Nat
  BY <1>1, <1>2 DEF Produced
<1>4. PICK size \in Nat : size = Produced(n)
  BY <1>3
<1> DEFINE left == IF InBlock /\ Block.raw THEN z.expected - n ELSE 0
           z1 == [z EXCEPT !.inPos = 0, !.decoded = @ + size, !.outEnd = z.outStart + size,
                           !.streamStage = IF size = 0 THEN "read" ELSE "flush"]
<1>5. /\ z \in Decoders /\ z.stage = zds.stage /\ z.expected = zds.expected
      /\ z.outStart = zds.outStart /\ z.decoded = zds.decoded /\ z.block = zds.block
      /\ ~z.hostage /\ z.noProgress = zds.noProgress
  BY <1>1 DEF Decoders
<1>6. /\ z1 \in Decoders /\ z1.inPos = 0 /\ ~z1.hostage /\ z1.noProgress = zds.noProgress
      /\ z1.outStart = zds.outStart /\ z1.outEnd = zds.outStart + size
      /\ z1.decoded = zds.decoded + size /\ z1.block = zds.block
      /\ z1.streamStage = IF size = 0 THEN "read" ELSE "flush"
      /\ z1.stage = zds.stage /\ z1.expected = zds.expected
  <2>1. PICK d \in Nat, e \in Nat : d = z.decoded + size /\ e = z.outStart + size
    BY <1>1, <1>5
  <2>2. PICK s \in {"read", "flush"} : s = IF size = 0 THEN "read" ELSE "flush"
    OBVIOUS
  <2>3. z1 = [z EXCEPT !.inPos = 0, !.decoded = d, !.outEnd = e, !.streamStage = s]
    BY <2>1, <2>2
  <2> HIDE DEF z1
  <2> QED BY ZenonT(30), <1>5, <2>1, <2>2, <2>3 DEF Decoders
<1>7. Decoded(z, n) =
          CASE z.stage = "blockHeader" ->
                IF Block.c > 0 THEN [z1 EXCEPT !.stage = "block", !.expected = Block.c]
                ELSE AfterBlock(z1)
            [] z.stage = "block" ->
                IF left > 0 THEN [z1 EXCEPT !.expected = left] ELSE AfterBlock(z1)
            [] OTHER -> [z1 EXCEPT !.stage = "end", !.expected = 0]
  BY <1>4 DEF Decoded
<1>8. size = IF ~InBlock THEN 0 ELSE IF Block.raw THEN n ELSE Block.r
  BY <1>4 DEF Produced
<1>9. InBlock <=> zds.stage = "block"
  BY DEF InBlock
<1> HIDE DEF z1
<1>10. ASSUME w = AfterBlock(z1)
       PROVE  /\ w \in Decoders /\ w.inPos = 0 /\ ~w.hostage /\ w.noProgress = zds.noProgress
              /\ w.outStart = zds.outStart /\ w.outEnd = zds.outStart + size
              /\ w.decoded = zds.decoded + size
              /\ w.streamStage = IF size = 0 THEN "read" ELSE "flush"
              /\ Follows(w)
  <2>1. /\ w \in Decoders /\ Follows(w)
        /\ w = [z1 EXCEPT !.stage = w.stage, !.expected = w.expected, !.block = w.block]
    BY <1>6, <1>10, AfterBlockIs
  <2> QED BY ZenonT(30), <1>6, <2>1 DEF Decoders
<1>11. CASE zds.stage = "blockHeader" /\ Block.c > 0
  <2>1. w = [z1 EXCEPT !.stage = "block", !.expected = Block.c]
    BY <1>5, <1>7, <1>11
  <2>2. size = 0 /\ n = BlockHeader
    BY <1>8, <1>9, <1>11 DEF Expecting
  <2> QED BY <1>2, <1>4, <1>6, <1>11, <2>1, <2>2 DEF Decoders
<1>12. CASE zds.stage = "blockHeader" /\ ~(Block.c > 0)
  <2>1. w = AfterBlock(z1) /\ Block.c = 0
    BY <1>2, <1>5, <1>7, <1>12
  <2>2. size = 0 /\ n = BlockHeader
    BY <1>8, <1>9, <1>12 DEF Expecting
  <2> QED BY <1>4, <1>10, <1>12, <2>1, <2>2
<1>13. CASE zds.stage = "block" /\ left > 0
  <2>1. w = [z1 EXCEPT !.expected = left]
    BY <1>5, <1>7, <1>13
  <2>2. Block.raw /\ left = zds.expected - n /\ left \in Nat /\ size = n /\ n < zds.expected
    BY <1>1, <1>2, <1>5, <1>8, <1>9, <1>13
  <2> HIDE DEF left
  <2> QED BY <1>4, <1>6, <1>13, <2>1, <2>2 DEF Decoders
<1>14. CASE zds.stage = "block" /\ ~(left > 0)
  <2>1. w = AfterBlock(z1)
    BY <1>5, <1>7, <1>14
  <2>2. n = zds.expected
    BY <1>1, <1>2, <1>5, <1>9, <1>14
  <2>3. size = IF Block.raw THEN n ELSE Block.r
    BY <1>8, <1>9, <1>14
  <2> QED BY <1>4, <1>10, <1>14, <2>1, <2>2, <2>3
<1>15. CASE zds.stage = "checksum"
  <2>1. w = [z1 EXCEPT !.stage = "end", !.expected = 0]
    BY <1>5, <1>7, <1>15
  <2>2. size = 0 /\ n = Checksum
    BY <1>8, <1>9, <1>15 DEF Expecting
  <2> QED BY <1>4, <1>6, <1>15, <2>1, <2>2 DEF Decoders
<1> QED BY <1>1, <1>11, <1>12, <1>13, <1>14, <1>15

\* The ring, when a call of ZSTD_decompressContinue has put size bytes more in it.
LEMMA RingGrows ==
    ASSUME StreamTypeOK, RingHolds, OutputCounted, zds.streamStage \in {"read", "load"},
           NEW size \in Nat, zds.outStart + size <= Len(ring), UNCHANGED <<frame, out>>,
           ring' = [i \in DOMAIN ring |->
                       IF i \in zds.outStart + 1..zds.outStart + size
                       THEN zds.decoded + i - zds.outStart ELSE ring[i]],
           zds'.outStart = zds.outStart, zds'.outEnd = zds.outStart + size,
           zds'.decoded = zds.decoded + size,
           zds'.streamStage = IF size = 0 THEN "read" ELSE "flush"
    PROVE  ring' \in Seq(Nat) /\ RingHolds' /\ OutputCounted'
<1>1. /\ ring \in Seq(Nat) /\ Len(ring) \in Nat /\ DOMAIN ring = 1..Len(ring) /\ BlockMax \in Nat
      /\ zds.outStart \in Nat /\ zds.outEnd \in Nat /\ zds.decoded \in Nat /\ Len(out) \in Nat
  BY Shape, DecoderShape DEF StreamTypeOK
<1>2. zds.outEnd = zds.outStart /\ zds.outEnd <= Len(ring) /\ zds.outEnd <= zds.decoded
  BY DEF OutputCounted, RingHolds
<1>3. PICK len \in Nat, start \in Nat, was \in Nat :
          len = Len(ring) /\ start = zds.outStart /\ was = zds.decoded
  BY <1>1
<1>4. \A i \in 1..len : ring[i] \in Nat
  BY <1>1, <1>3, ElementOfSeq
<1>5. /\ \A i \in 1..len :
            /\ i > start /\ i <= start + size => ring'[i] = was + i - start
            /\ i <= start \/ i > start + size => ring'[i] = ring[i]
      /\ start + size <= len /\ start <= was
  <2>1. \A i \in 1..len : ring'[i] = IF i \in start + 1..start + size THEN was + i - start ELSE ring[i]
    BY <1>1, <1>3
  <2>2. \A i \in 1..len : /\ i > start /\ i <= start + size => i \in start + 1..start + size
                          /\ i <= start \/ i > start + size => i \notin start + 1..start + size
    BY <1>3
  <2> QED BY <1>2, <1>3, <2>1, <2>2
<1>6. ring' \in Seq(Nat) /\ Len(ring') = len
  <2> DEFINE at(i) == IF i \in start + 1..start + size THEN was + i - start ELSE ring[i]
  <2>1. \A i \in 1..len : at(i) \in Nat
    <3> SUFFICES ASSUME NEW i \in 1..len PROVE at(i) \in Nat
      OBVIOUS
    <3>1. CASE i \in start + 1..start + size
      <4>1. was + i - start \in Nat
        BY SMTT(30), <1>3, <3>1
      <4> QED BY <3>1, <4>1
    <3>2. CASE i \notin start + 1..start + size
      BY <1>4, <3>2
    <3> QED BY <3>1, <3>2
  <2>2. ring' = [i \in 1..len |-> at(i)]
    BY <1>1, <1>3
  <2> HIDE DEF at
  <2>3. [i \in 1..len |-> at(i)] \in Seq(Nat)
    BY <2>1, IsASeq
  <2>4. Len([i \in 1..len |-> at(i)]) = len
    OBVIOUS
  <2> QED BY <2>2, <2>3, <2>4
<1>7. Wraps' <=> Wraps
  BY <1>3, <1>6 DEF Wraps
<1>8. /\ Len(ring') = RingSize(frame)' /\ zds'.outEnd <= Len(ring') /\ zds'.outEnd <= zds'.decoded
      /\ zds'.outEnd = start + size /\ zds'.decoded = was + size /\ zds'.outStart = start
  BY <1>1, <1>2, <1>3, <1>5, <1>6 DEF RingHolds
<1>9. \A i \in 1..(start + size) : ring'[i] = (was + size) - (start + size) + i
  <2> SUFFICES ASSUME NEW i \in 1..(start + size)
               PROVE  ring'[i] = (was + size) - (start + size) + i
    OBVIOUS
  <2>1. i \in 1..len
    BY <1>5
  <2>2. CASE i > start
    <3>1. ring'[i] = was + i - start
      <4>1. i <= start + size
        OBVIOUS
      <4> QED BY <1>5, <2>1, <2>2, <4>1
    <3> QED BY <3>1
  <2>3. CASE ~(i > start)
    <3>1. ring'[i] = ring[i] /\ i \in 1..start
      BY <1>5, <2>1, <2>3
    <3>2. ring[i] = was - start + i
      BY <1>2, <1>3, <3>1 DEF RingHolds
    <3> QED BY <3>1, <3>2
  <2> QED BY <2>2, <2>3
<1>10. \/ zds'.decoded = zds'.outEnd
       \/ Wraps' /\ \E prev \in 1..Len(ring') : LapBefore(prev)'
  <2>1. CASE zds.decoded = zds.outEnd
    BY <1>2, <1>3, <1>8, <2>1
  <2>2. ASSUME Wraps, NEW prev \in 1..Len(ring), LapBefore(prev)
        PROVE  Wraps' /\ \E q \in 1..Len(ring') : LapBefore(q)'
    <3>1. /\ prev \in 1..len /\ prev + BlockMax > len /\ start + prev <= was
          /\ \A i \in start + 1..prev : ring[i] = was - start - prev + i
      BY <1>2, <1>3, <2>2 DEF LapBefore
    <3>2. (start + size) + prev <= was + size
      BY <3>1
    <3>3. \A i \in (start + size) + 1..prev : ring'[i] = (was + size) - (start + size) - prev + i
      <4> SUFFICES ASSUME NEW i \in (start + size) + 1..prev
                   PROVE  ring'[i] = (was + size) - (start + size) - prev + i
        OBVIOUS
      <4>1. i \in 1..len /\ i \in start + 1..prev /\ i > start + size
        BY <3>1
      <4>2. ring'[i] = ring[i] /\ ring[i] = was - start - prev + i
        BY <1>5, <3>1, <4>1
      <4> QED BY <3>1, <4>2
    <3>4. LapBefore(prev)'
      BY <1>6, <1>8, <3>1, <3>2, <3>3 DEF LapBefore
    <3> QED BY <1>6, <1>7, <2>2, <3>1, <3>4
  <2> QED BY <2>1, <2>2 DEF RingHolds
<1>11. zds'.streamStage \in {"read", "load"} /\ Wraps' => zds'.outStart + BlockMax <= Len(ring')
  BY <1>3, <1>6, <1>7, <1>8 DEF RingHolds
<1>12. RingHolds'
  BY <1>8, <1>9, <1>10, <1>11 DEF RingHolds
<1>13. OutputCounted'
  <2>1. Len(out') + zds'.outEnd = zds'.decoded + zds'.outStart
    <3>1. PICK n \in Nat : n = Len(out)
      BY <1>1
    <3>2. n + start = was + start
      BY <1>2, <1>3, <3>1 DEF OutputCounted
    <3>3. n + (start + size) = (was + size) + start
      BY <3>2
    <3> QED BY <1>8, <3>1, <3>3
  <2>2. IF size = 0 THEN zds'.outStart = zds'.outEnd ELSE zds'.outStart < zds'.outEnd
    BY <1>8
  <2> QED BY <2>1, <2>2 DEF OutputCounted
<1> QED BY <1>6, <1>12, <1>13

\* The bytes a call of ZSTD_decompressContinue takes lead on to the next place in
\* the frame, and what it gives to the next one in the content.
LEMMA PlaceMoves ==
    ASSUME StreamInv, hub.step = "inside", zds.streamStage \in {"read", "load"}, zds.expected # 0,
           NEW k \in Nat, NEW z, z = [zds EXCEPT !.inPos = k],
           NEW n \in 1..zds.expected, ~(InBlock /\ Block.raw) => n = zds.expected,
           NEW took \in Nat, took >= 1, n = zds.inPos + took,
           zds' = Decoded(z, n), call' = [call EXCEPT !.ip = @ + took],
           UNCHANGED <<frame, mode, blob, hub>>
    PROVE  /\ zds'.block \in DOMAIN frame'.blocks /\ zds'.decoded = ContentRead'
           /\ Expecting' /\ EndSeen' /\ ~Beginning' /\ Consumed' = Consumed + took
<1>1. /\ StreamTypeOK /\ zds \in Decoders /\ call.ip \in Nat /\ call.istart \in Nat
      /\ call \in [ip : Nat, istart : Nat, ostart : Nat] /\ call.istart <= call.ip
      /\ ~Beginning
  BY InsideIs DEF Beginning
<1>2. /\ zds.block \in DOMAIN frame.blocks /\ zds.decoded = ContentRead /\ Expecting
      /\ zds.expected \in Nat /\ zds.inPos \in Nat /\ zds.decoded \in Nat
  BY <1>1, InFrameIs
<1>3. /\ Block.c \in Nat /\ Block.r \in Nat /\ Block.raw \in BOOLEAN /\ Block.from \in Nat
      /\ Block.at \in Nat /\ (Block.raw => Block.c = Block.r) /\ (Block.c = 0 => Block.r = 0)
      /\ BlockHeader \in Nat \ {0} /\ Checksum \in Nat \ {0} /\ Content(frame) \in Nat
      /\ BlocksEnd(frame) \in Nat /\ FrameSize(frame) \in Nat
  BY <1>1, <1>2, BlockIs, Shape
<1>4. /\ Produced(n) \in Nat
      /\ zds' \in Decoders /\ zds'.inPos = 0 /\ ~zds'.hostage
      /\ zds'.decoded = zds.decoded + Produced(n)
      /\ zds'.streamStage = IF Produced(n) = 0 THEN "read" ELSE "flush"
      /\ \/ /\ zds.stage = "blockHeader" /\ Block.c > 0 /\ Produced(n) = 0 /\ n = BlockHeader
            /\ zds'.stage = "block" /\ zds'.expected = Block.c /\ zds'.block = zds.block
         \/ /\ zds.stage = "blockHeader" /\ Block.c = 0 /\ Produced(n) = 0 /\ n = BlockHeader
            /\ Follows(zds')
         \/ /\ zds.stage = "block" /\ Block.raw /\ Produced(n) = n /\ n < zds.expected
            /\ zds'.stage = "block" /\ zds'.expected = zds.expected - n /\ zds'.block = zds.block
         \/ /\ zds.stage = "block" /\ n = zds.expected
            /\ Produced(n) = IF Block.raw THEN n ELSE Block.r
            /\ Follows(zds')
         \/ /\ zds.stage = "checksum" /\ Produced(n) = 0 /\ n = Checksum
            /\ zds'.stage = "end" /\ zds'.expected = 0 /\ zds'.block = zds.block
  BY <1>1, <1>2, DecodedIs
<1>5. PICK size \in Nat : size = Produced(n)
  BY <1>4
<1>6. ~Beginning' /\ zds'.streamStage \in {"read", "flush"}
  BY <1>4 DEF Beginning
<1>7. EndSeen'
  <2>1. call'.ip = call.ip + took /\ call'.istart = call.istart
    BY <1>1
  <2>2. call'.ip > call'.istart
    BY <1>1, <2>1
  <2> QED BY <2>2 DEF EndSeen
<1>8. PICK from \in Nat, at \in Nat, c \in Nat, r \in Nat, inPos \in Nat, left \in Nat, was \in Nat,
           end \in Nat, all \in Nat, content \in Nat :
          /\ from = Block.from /\ at = Block.at /\ c = Block.c /\ r = Block.r
          /\ inPos = zds.inPos /\ left = zds.expected /\ was = zds.decoded
          /\ end = BlocksEnd(frame) /\ all = FrameSize(frame) /\ content = Content(frame)
  BY <1>2, <1>3
<1>9. n = inPos + took /\ n \in Nat
  BY <1>8
<1>10. all = end + (IF frame.checksum THEN Checksum ELSE 0)
  BY <1>1, <1>8, Shape, BlocksAre
\* Where it was.
<1>11. /\ zds.stage = "blockHeader" => Consumed = inPos + from /\ was = at
       /\ zds.stage = "block" => /\ Consumed = inPos + (from + BlockHeader + (c - left))
                                 /\ was = at + (IF Block.raw THEN c - left ELSE 0)
                                 /\ left \in 1..c /\ (~Block.raw => left = c)
       /\ zds.stage = "checksum" => Consumed = inPos + end /\ was = content /\ frame.checksum
  BY <1>1, <1>2, <1>8 DEF Consumed, ContentRead, Expecting
\* What the decoder keeps of the input, and of its last byte.
<1>6a. ~zds'.hostage /\ zds'.inPos = 0 /\ zds'.streamStage \in {"read", "flush"}
  BY <1>4, <1>6
\* Where it gets, if the block goes on.
<1>12. ASSUME zds'.stage = "block", zds'.block = zds.block, NEW rest \in 1..c, zds'.expected = rest,
              rest = c \/ Block.raw,
              Consumed + took = from + BlockHeader + (c - rest),
              was + size = at + (IF Block.raw THEN c - rest ELSE 0)
       PROVE  /\ zds'.block \in DOMAIN frame'.blocks /\ zds'.decoded = ContentRead'
              /\ Expecting' /\ Consumed' = Consumed + took
  <2>1. Block' = Block
    BY <1>12 DEF Block
  <2>2. Expecting'
    BY <1>4, <1>6, <1>8, <1>12, <2>1 DEF Expecting
  <2>3. Consumed' = 0 + (from + BlockHeader + (c - rest))
    BY <1>4, <1>6, <1>8, <1>12, <2>1 DEF Consumed
  <2>4. ContentRead' = at + (IF Block.raw THEN c - rest ELSE 0)
    BY <1>8, <1>12, <2>1 DEF ContentRead
  <2>5. zds'.decoded = ContentRead'
    BY <1>4, <1>5, <1>8, <1>12, <2>4
  <2>6. Consumed' = Consumed + took
    BY <1>3, <1>12, <2>3
  <2> QED BY <1>2, <1>12, <2>2, <2>5, <2>6
\* Where it gets, if the block is over.
<1>13. ASSUME Follows(zds'), Consumed + took = from + BlockHeader + c, was + size = at + r
       PROVE  /\ zds'.block \in DOMAIN frame'.blocks /\ zds'.decoded = ContentRead'
              /\ Expecting' /\ Consumed' = Consumed + took
  <2>1. IsFrame(frame) /\ zds.block \in 1..Len(frame.blocks)
    BY <1>1, <1>2, Shape, BlocksAre
  <2>2. zds'.decoded = at + r
    BY <1>4, <1>5, <1>8, <1>13
  <2>3. CASE /\ zds.block < Len(frame.blocks)
             /\ zds'.stage = "blockHeader" /\ zds'.expected = BlockHeader
             /\ zds'.block = zds.block + 1
    <3>1. /\ zds'.block \in DOMAIN frame.blocks
          /\ Block'.at = at + r /\ Block'.from = from + BlockHeader + c
      <4> DEFINE next == frame.blocks[zds.block + 1]
                 this == frame.blocks[zds.block]
      <4>1. /\ zds.block + 1 \in DOMAIN frame.blocks /\ next.at = this.at + this.r
            /\ next.from = this.from + BlockHeader + this.c
        <5>1. \A i \in DOMAIN frame.blocks :
                 i < Len(frame.blocks) => /\ i + 1 \in DOMAIN frame.blocks
                                          /\ frame.blocks[i + 1].at = frame.blocks[i].at + frame.blocks[i].r
                                          /\ frame.blocks[i + 1].from =
                                                frame.blocks[i].from + BlockHeader + frame.blocks[i].c
          BY <2>1, BlocksAre
        <5> QED BY <1>2, <2>3, <5>1
      <4>2. this = Block /\ Block' = next
        BY <2>3 DEF Block
      <4> HIDE DEF this, next
      <4> QED BY <1>8, <2>3, <4>1, <4>2
    <3>2. Expecting'
      BY SMTT(30), <1>6, <1>6a, <2>3 DEF Expecting
    <3>3. ContentRead' = at + r
      BY <2>3, <3>1 DEF ContentRead
    <3>4. Consumed' = 0 + (from + BlockHeader + c)
      BY <1>6, <1>6a, <2>3, <3>1 DEF Consumed
    <3> QED BY <1>3, <1>13, <2>2, <3>1, <3>2, <3>3, <3>4
  <2>4. zds.block = Len(frame.blocks) => content = at + r /\ end = from + BlockHeader + c
    BY <1>8, <2>1, BlocksAre DEF Block
  <2>5. CASE /\ zds.block = Len(frame.blocks) /\ frame.checksum
             /\ zds'.stage = "checksum" /\ zds'.expected = Checksum /\ zds'.block = zds.block
    <3>1. Expecting'
      BY SMTT(30), <1>6, <1>6a, <2>5 DEF Expecting
    <3>2. ContentRead' = content
      BY <1>8, <2>5 DEF ContentRead
    <3>3. Consumed' = 0 + end
      BY <1>6, <1>6a, <1>8, <2>5 DEF Consumed
    <3>4. zds'.block \in DOMAIN frame'.blocks
      BY <1>1, <1>2, <2>5
    <3>5. Consumed + took = end /\ zds'.decoded = content
      BY <1>13, <2>2, <2>4, <2>5
    <3> QED BY <1>8, <3>1, <3>2, <3>3, <3>4, <3>5
  <2>6. CASE /\ zds.block = Len(frame.blocks) /\ ~frame.checksum
             /\ zds'.stage = "end" /\ zds'.expected = 0 /\ zds'.block = zds.block
    <3>1. Expecting'
      BY SMTT(30), <1>6, <1>6a, <2>6 DEF Expecting
    <3>2. ContentRead' = content
      BY <1>8, <2>6 DEF ContentRead
    <3>3. Consumed' = 0 + (all - 0)
      BY <1>6, <1>6a, <1>8, <2>6 DEF Consumed
    <3>4. all = end
      BY <1>10, <2>6
    <3> QED BY SMTT(30), <1>2, <1>13, <2>2, <2>4, <2>6, <3>1, <3>2, <3>3, <3>4
  <2> QED BY <1>13, <2>3, <2>5, <2>6 DEF Follows
<1>14. CASE /\ zds.stage = "blockHeader" /\ Block.c > 0 /\ Produced(n) = 0 /\ n = BlockHeader
            /\ zds'.stage = "block" /\ zds'.expected = Block.c /\ zds'.block = zds.block
  <2>1. c \in 1..c /\ zds'.expected = c
    BY <1>8, <1>14
  <2>2. Consumed + took = from + BlockHeader + (c - c)
    BY <1>3, <1>9, <1>11, <1>14
  <2>3. was + size = at + (IF Block.raw THEN c - c ELSE 0)
    BY <1>5, <1>11, <1>14
  <2>4. /\ zds'.block \in DOMAIN frame'.blocks /\ zds'.decoded = ContentRead'
        /\ Expecting' /\ Consumed' = Consumed + took
    BY <1>12, <1>14, <2>1, <2>2, <2>3
  <2> QED BY <1>6, <1>7, <2>4
<1>15. CASE /\ zds.stage = "blockHeader" /\ Block.c = 0 /\ Produced(n) = 0 /\ n = BlockHeader
            /\ Follows(zds')
  <2>1. c = 0 /\ r = 0 /\ size = 0
    BY <1>3, <1>5, <1>8, <1>15
  <2>2. Consumed + took = from + BlockHeader + c
    BY <1>3, <1>9, <1>11, <1>15, <2>1
  <2>3. was + size = at + r
    BY <1>11, <1>15, <2>1
  <2>4. /\ zds'.block \in DOMAIN frame'.blocks /\ zds'.decoded = ContentRead'
        /\ Expecting' /\ Consumed' = Consumed + took
    BY <1>13, <1>15, <2>2, <2>3
  <2> QED BY <1>6, <1>7, <2>4
<1>16. CASE /\ zds.stage = "block" /\ Block.raw /\ Produced(n) = n /\ n < zds.expected
            /\ zds'.stage = "block" /\ zds'.expected = zds.expected - n /\ zds'.block = zds.block
  <2>1. PICK rest \in 1..c : rest = left - n /\ zds'.expected = rest
    BY <1>8, <1>9, <1>11, <1>16
  <2>2. Consumed + took = from + BlockHeader + (c - rest)
    BY <1>3, <1>9, <1>11, <1>16, <2>1
  <2>3. was + size = at + (IF Block.raw THEN c - rest ELSE 0)
    BY <1>5, <1>9, <1>11, <1>16, <2>1
  <2>4. /\ zds'.block \in DOMAIN frame'.blocks /\ zds'.decoded = ContentRead'
        /\ Expecting' /\ Consumed' = Consumed + took
    BY <1>12, <1>16, <2>1, <2>2, <2>3
  <2> QED BY <1>6, <1>7, <2>4
<1>17. CASE /\ zds.stage = "block" /\ n = zds.expected
            /\ Produced(n) = IF Block.raw THEN n ELSE Block.r
            /\ Follows(zds')
  <2>1. n = left /\ left \in 1..c /\ (~Block.raw => left = c) /\ (Block.raw => c = r)
    BY <1>3, <1>8, <1>11, <1>17
  <2>2. Consumed + took = from + BlockHeader + c
    BY <1>3, <1>9, <1>11, <1>17, <2>1
  <2>3. was + size = at + r
    <3>1. CASE Block.raw
      <4>1. size = n /\ was = at + (c - left)
        BY <1>5, <1>11, <1>17, <3>1
      <4> QED BY <2>1, <3>1, <4>1
    <3>2. CASE ~Block.raw
      <4>1. size = r /\ was = at + 0
        BY <1>5, <1>8, <1>11, <1>17, <3>2
      <4> QED BY <4>1
    <3> QED BY <3>1, <3>2
  <2>4. /\ zds'.block \in DOMAIN frame'.blocks /\ zds'.decoded = ContentRead'
        /\ Expecting' /\ Consumed' = Consumed + took
    BY <1>13, <1>17, <2>2, <2>3
  <2> QED BY <1>6, <1>7, <2>4
<1>18. CASE /\ zds.stage = "checksum" /\ Produced(n) = 0 /\ n = Checksum
            /\ zds'.stage = "end" /\ zds'.expected = 0 /\ zds'.block = zds.block
  <2>1. Consumed + took = all /\ was + size = content
    BY <1>3, <1>5, <1>9, <1>10, <1>11, <1>18
  <2>2. Expecting'
    BY <1>4, <1>6, <1>18 DEF Expecting
  <2>3. ContentRead' = content
    BY <1>8, <1>18 DEF ContentRead
  <2>4. Consumed' = 0 + (all - 0)
    BY <1>4, <1>6, <1>8, <1>18 DEF Consumed
  <2>5. zds'.decoded = ContentRead' /\ Consumed' = Consumed + took
    BY <1>4, <1>5, <1>8, <2>1, <2>3, <2>4
  <2> QED BY <1>2, <1>6, <1>7, <1>18, <2>2, <2>5
<1> QED BY <1>4, <1>14, <1>15, <1>16, <1>17, <1>18

(* ZSTD_decompressContinue takes what it waited for and adds it to the ring. *)
LEMMA ContinueInv ==
    ASSUME StreamInv, hub.step = "inside", zds.streamStage \in {"read", "load"}, zds.expected # 0,
           NEW k \in Nat, NEW z, z = [zds EXCEPT !.inPos = k],
           NEW n \in 1..zds.expected, ~(InBlock /\ Block.raw) => n = zds.expected,
           NEW took \in Nat, took >= 1, n = zds.inPos + took, call.ip + took <= hub.len,
           Continue(z, n), call' = [call EXCEPT !.ip = @ + took], UNCHANGED <<frame, mode, blob>>
    PROVE  StreamInv'
<1>1. /\ StreamTypeOK /\ zds \in Decoders /\ hub \in Hubs /\ call.ip \in Nat /\ call.istart \in Nat
      /\ call \in [ip : Nat, istart : Nat, ostart : Nat] /\ call.istart <= call.ip
      /\ call.ostart <= Len(out) /\ out \in Seq(Nat) /\ ring \in Seq(Nat) /\ zds.noProgress = 0
      /\ Len(out) <= hub.cap /\ \A i \in DOMAIN out : out[i] = i
      /\ ~Beginning
  BY InsideIs DEF Beginning
<1>2. /\ call' \in [ip : Nat, istart : Nat, ostart : Nat]
      /\ call'.ip = call.ip + took /\ call'.istart = call.istart /\ call'.ostart = call.ostart
  <2>1. PICK ip \in Nat : ip = call.ip + took
    BY <1>1
  <2> QED BY <1>1, <2>1
<1>3. z.outStart = zds.outStart /\ z.decoded = zds.decoded
  BY <1>1 DEF Decoders
<1>4. CASE Error
  <2>1. hub' \in Hubs /\ hub'.step = "done" /\ UNCHANGED <<out, zds, ring>>
    BY <1>1, <1>4 DEF Hubs, Error, Finish
  <2>2. StreamTypeOK' /\ ~Active' /\ Ended'
    BY <1>1, <1>2, <2>1 DEF StreamTypeOK, Active, Ended
  <2> QED BY <1>1, <2>1, <2>2 DEF StreamInv
<1>5. CASE /\ ~(z.outStart + Produced(n) > Len(ring)) /\ zds' = Decoded(z, n)
           /\ ring' = [i \in DOMAIN ring |->
                  IF i \in z.outStart + 1..z.outStart + Produced(n)
                  THEN z.decoded + i - z.outStart ELSE ring[i]]
           /\ UNCHANGED <<hub, out>>
  <2>1. /\ zds'.block \in DOMAIN frame'.blocks /\ zds'.decoded = ContentRead'
        /\ Expecting' /\ EndSeen' /\ ~Beginning' /\ Consumed' = Consumed + took
    BY <1>5, PlaceMoves
  <2>2. /\ zds.block \in DOMAIN frame.blocks /\ Expecting /\ RingHolds /\ OutputCounted
        /\ zds.outStart \in Nat
    BY <1>1, InFrameIs
  <2>3. /\ Produced(n) \in Nat
        /\ zds' \in Decoders /\ zds'.noProgress = 0
        /\ zds'.outStart = zds.outStart /\ zds'.outEnd = zds.outStart + Produced(n)
        /\ zds'.decoded = zds.decoded + Produced(n)
        /\ zds'.streamStage = IF Produced(n) = 0 THEN "read" ELSE "flush"
    <3>1. zds' = Decoded(z, n)
      BY <1>5
    <3>2. /\ Produced(n) \in Nat
          /\ zds' \in Decoders /\ zds'.inPos = 0 /\ ~zds'.hostage /\ zds'.noProgress = zds.noProgress
          /\ zds'.outStart = zds.outStart /\ zds'.outEnd = zds.outStart + Produced(n)
          /\ zds'.decoded = zds.decoded + Produced(n)
          /\ zds'.streamStage = IF Produced(n) = 0 THEN "read" ELSE "flush"
      <4>1. StreamTypeOK
        BY <1>1
      <4> QED BY <2>2, <3>1, <4>1, DecodedIs
    <3> QED BY <1>1, <3>2
  <2>4. PICK size \in Nat : size = Produced(n)
    BY <2>3
  <2>5. /\ zds.outStart + size <= Len(ring)
        /\ ring' = [i \in DOMAIN ring |->
               IF i \in zds.outStart + 1..zds.outStart + size
               THEN zds.decoded + i - zds.outStart ELSE ring[i]]
        /\ zds'.outEnd = zds.outStart + size /\ zds'.decoded = zds.decoded + size
        /\ zds'.streamStage = IF size = 0 THEN "read" ELSE "flush"
    <3>1. Len(ring) \in Nat
      BY <1>1, LenProperties
    <3> QED BY <1>3, <1>5, <2>2, <2>3, <2>4, <3>1
  <2>6. ring' \in Seq(Nat) /\ RingHolds' /\ OutputCounted'
    BY <1>1, <1>5, <2>2, <2>3, <2>5, RingGrows
  <2>7. DecoderInv'
    <3>1. InFrame'
      BY Zenon, <2>1, <2>6 DEF InFrame
    <3> QED BY Zenon, <2>1, <3>1 DEF DecoderInv
  <2>8. Progress'
    <3>1. call'.istart < call'.ip /\ call'.istart <= call'.ip
      BY <1>1, <1>2
    <3> QED BY <1>1, <1>2, <1>5, <3>1 DEF Progress
  <2>9. Position' = call.ip + took /\ took \in Int
    BY <1>2, <1>5 DEF Position
  <2> QED BY <1>1, <1>2, <1>5, <2>1, <2>3, <2>6, <2>7, <2>8, <2>9, Advances
<1>6. \/ Error
      \/ /\ ~(z.outStart + Produced(n) > Len(ring)) /\ zds' = Decoded(z, n)
         /\ ring' = [i \in DOMAIN ring |->
                IF i \in z.outStart + 1..z.outStart + Produced(n)
                THEN z.decoded + i - z.outStart ELSE ring[i]]
         /\ UNCHANGED <<hub, out>>
  <2> HIDE DEF Error
  <2> QED BY Zenon DEF Continue
<1> QED BY <1>4, <1>5, <1>6

(* Decoding straight from the hub's buffer. *)
LEMMA ReadDirectInv == StreamInv /\ ReadDirect => StreamInv'
<1> SUFFICES ASSUME StreamInv, ReadDirect PROVE StreamInv'
  OBVIOUS
<1>1. /\ hub.step = "inside" /\ zds.streamStage = "read" /\ zds.expected # 0 /\ Avail >= Needed
      /\ Continue(zds, Needed) /\ call' = [call EXCEPT !.ip = @ + Needed]
      /\ UNCHANGED <<frame, mode, blob>>
  BY DEF ReadDirect, Inside, Same
<1>2. ~Beginning /\ zds \in Decoders /\ Avail = hub.len - call.ip /\ Avail \in Int
      /\ hub.len \in Nat /\ call.ip \in Nat
  BY <1>1, InsideIs DEF Beginning, Avail
<1>3. zds.expected \in Nat \ {0} /\ Expecting /\ zds.inPos \in Nat
  BY <1>1, <1>2, InFrameIs
<1>4. zds.inPos = 0
  BY <1>1, <1>3 DEF Expecting
<1>5. Needed \in 1..zds.expected /\ (~(InBlock /\ Block.raw) => Needed = zds.expected)
  <2>1. CASE InBlock /\ Block.raw
    <3>1. Needed = Max({1, Min({Avail, zds.expected})})
      BY <2>1 DEF Needed
    <3>2. PICK least \in Int : least = Min({Avail, zds.expected}) /\ least <= zds.expected
      <4>1. Avail \in Int /\ zds.expected \in Int
        BY <1>2, <1>3
      <4>2. Min({Avail, zds.expected}) = IF Avail <= zds.expected THEN Avail ELSE zds.expected
        BY <4>1, MinIs
      <4> QED BY <4>1, <4>2
    <3>3. Max({1, least}) = IF 1 >= least THEN 1 ELSE least
      BY MaxIs
    <3> QED BY <1>3, <2>1, <3>1, <3>2, <3>3
  <2>2. CASE ~(InBlock /\ Block.raw)
    BY <1>3, <2>2 DEF Needed
  <2> QED BY <2>1, <2>2
<1>6. PICK n \in 1..zds.expected : n = Needed
  BY <1>5
<1>7. n \in Nat /\ n >= 1 /\ n = zds.inPos + n /\ call.ip + n <= hub.len
  BY <1>1, <1>2, <1>3, <1>4, <1>6
<1>8. zds = [zds EXCEPT !.inPos = 0] /\ 0 \in Nat
  BY <1>2, <1>4 DEF Decoders
<1>9. Continue(zds, n) /\ call' = [call EXCEPT !.ip = @ + n]
      /\ (~(InBlock /\ Block.raw) => n = zds.expected)
  BY <1>1, <1>5, <1>6
<1> QED BY <1>1, <1>6, <1>7, <1>8, <1>9, ContinueInv

(* Collecting input, and decoding when there is enough of it. *)
LEMMA LoadInv == StreamInv /\ Load => StreamInv'
<1> SUFFICES ASSUME StreamInv, Load PROVE StreamInv'
  OBVIOUS
<1>1. PICK loaded : loaded = Min({zds.expected - zds.inPos, Avail})
  OBVIOUS
<1>ip. PICK ip : ip = call.ip + loaded
  OBVIOUS
<1> DEFINE z == [zds EXCEPT !.inPos = @ + loaded]
<1>2. /\ hub.step = "inside" /\ zds.streamStage = "load" /\ UNCHANGED <<frame, mode, blob>>
      /\ IF loaded < zds.expected - zds.inPos
         THEN ReturnFrom(z, ip, out) /\ UNCHANGED <<ring, call>>
         ELSE Continue(z, zds.expected) /\ call' = [call EXCEPT !.ip = @ + loaded]
  BY <1>1, <1>ip DEF Load, Inside, Same
<1>3. /\ ~Beginning /\ zds \in Decoders /\ Avail = hub.len - call.ip /\ Avail \in Int
      /\ hub.len \in Nat /\ call.ip \in Nat /\ call.istart \in Nat /\ call.ostart \in Nat
      /\ call.ip <= hub.len /\ call.istart <= call.ip /\ out \in Seq(Nat) /\ Len(out) \in Nat
      /\ zds.noProgress = 0 /\ hub \in Hubs
  BY <1>2, InsideIs DEF Beginning, Avail
<1>4. /\ zds.block \in DOMAIN frame.blocks /\ zds.decoded = ContentRead
      /\ Expecting /\ EndSeen /\ RingHolds /\ OutputCounted
      /\ zds.expected = 0 <=> zds.stage = "end"
      /\ zds.expected \in Nat /\ zds.inPos \in Nat
      /\ zds.stage \in {"blockHeader", "block", "checksum", "end"}
  BY <1>2, <1>3, InFrameIs
<1>5. zds.inPos < zds.expected /\ ~(InBlock /\ Block.raw) /\ zds.stage # "end" /\ ~zds.hostage
      /\ zds.expected # 0
  BY <1>2, <1>4 DEF Expecting
<1>6. loaded = IF zds.expected - zds.inPos <= Avail THEN zds.expected - zds.inPos ELSE Avail
  <2>1. zds.expected - zds.inPos \in Int /\ Avail \in Int
    BY <1>3, <1>4
  <2> QED BY <1>1, <2>1, MinIs
<1>7. loaded \in Nat /\ loaded <= Avail
  BY <1>3, <1>4, <1>5, <1>6
<1>8. PICK k \in Nat : k = zds.inPos + loaded
  BY <1>4, <1>7
<1>9. z = [zds EXCEPT !.inPos = k]
  BY <1>8
<1>10. CASE loaded < zds.expected - zds.inPos
  <2>1. ReturnFrom(z, ip, out) /\ UNCHANGED <<ring, call>>
    BY <1>2, <1>10
  <2>2. ip \in Nat /\ ip = call.ip + loaded /\ ip = hub.len
    BY <1>ip, <1>3, <1>6, <1>7, <1>10
  <2>3. ip # call.istart \/ Len(out) # call.ostart
    <3>1. \/ call.ip > call.istart \/ Len(out) > call.ostart
          \/ call.ip < hub.len
      BY <1>2, InsideIs
    <3> QED BY <1>3, <2>2, <3>1
  <2>4. /\ z \in Decoders /\ z.noProgress = 0 /\ z.expected # 0 /\ z.expected = zds.expected
        /\ z.streamStage = "load" /\ z.stage = zds.stage /\ z.inPos = k /\ z.block = zds.block
        /\ z.outStart = zds.outStart /\ z.outEnd = zds.outEnd /\ z.decoded = zds.decoded
        /\ z.lhSize = zds.lhSize /\ ~z.hostage
    BY <1>2, <1>3, <1>5, <1>9 DEF Decoders
  <2> HIDE DEF z
  <2>5. /\ zds' \in Decoders /\ out' = out /\ zds'.noProgress = 0
        /\ zds' = [z EXCEPT !.noProgress = 0, !.hostage = zds'.hostage]
        /\ zds'.hostage <=> z.hostage \/ z.expected = 0
        /\ hub' = [hub EXCEPT !.pos = IF z.expected = 0 /\ ~z.hostage THEN ip - 1 ELSE ip,
                              !.step = "returned", !.result = "more"]
    BY <1>2, <1>3, <2>1, <2>2, <2>3, <2>4, CallGoesOn
  <2>6. /\ zds'.streamStage = "load" /\ ~zds'.hostage
        /\ zds'.stage = zds.stage /\ zds'.lhSize = zds.lhSize /\ zds'.expected = zds.expected
        /\ zds'.inPos = k /\ zds'.outStart = zds.outStart /\ zds'.outEnd = zds.outEnd
        /\ zds'.block = zds.block /\ zds'.decoded = zds.decoded
    BY <2>4, <2>5 DEF Decoders
  <2>7. /\ hub' \in Hubs /\ hub'.step = "returned" /\ hub'.result = "more" /\ hub'.pos = ip
        /\ hub'.remain = hub.remain /\ hub'.len = hub.len /\ hub'.cap = hub.cap
    <3>1. hub' = [hub EXCEPT !.pos = ip, !.step = "returned", !.result = "more"]
      BY <2>4, <2>5
    <3> QED BY <1>3, <2>2, <3>1 DEF Hubs
  <2>8. Block' = Block /\ Wraps' = Wraps /\ InBlock' = InBlock /\ Position' = ip /\ ~Beginning'
    BY <1>2, <2>1, <2>6, <2>7 DEF Block, Wraps, InBlock, Position, Beginning
  <2>9. Expecting'
    <3>1. k < zds.expected
      BY <1>4, <1>7, <1>8, <1>10
    <3> QED BY <1>2, <1>4, <1>5, <2>6, <2>8, <3>1 DEF Expecting
  <2>10. ContentRead' = ContentRead
    BY <1>2, <2>6, <2>8 DEF ContentRead
  <2>11. Consumed' = Consumed + loaded
    <3>1. Block.from \in Nat /\ Block.c \in Nat /\ BlockHeader \in Nat /\ BlocksEnd(frame) \in Nat
      BY <1>2, <1>4, InsideIs, BlockIs, Shape
    <3>2. PICK place \in Int :
              /\ zds.stage = "blockHeader" => place = Block.from
              /\ zds.stage = "block" => place = Block.from + BlockHeader + (Block.c - zds.expected)
              /\ zds.stage = "checksum" => place = BlocksEnd(frame)
      <4>1. Block.from + BlockHeader + (Block.c - zds.expected) \in Int
        BY <1>4, <3>1
      <4> QED BY <3>1, <4>1
    <3>3. Consumed = zds.inPos + place
      BY <1>3, <1>4, <1>5, <3>2 DEF Consumed
    <3>4. Consumed' = zds'.inPos + place
      BY <1>2, <1>4, <1>5, <2>6, <2>8, <3>2 DEF Consumed
    <3> QED BY <1>4, <1>7, <1>8, <2>6, <3>3, <3>4
  <2>12. EndSeen' /\ OutputCounted'
    BY <1>2, <1>4, <1>5, <2>5, <2>6 DEF EndSeen, OutputCounted
  <2>13. RingHolds'
    BY <1>2, <1>4, <2>1, <2>6, <2>8 DEF RingHolds, LapBefore
  <2>14. DecoderInv'
    <3>1. zds'.block \in DOMAIN frame'.blocks /\ zds'.decoded = ContentRead'
      BY <1>2, <1>4, <2>6, <2>10
    <3>2. InFrame'
      BY Zenon, <2>9, <2>12, <2>13, <3>1 DEF InFrame
    <3> QED BY Zenon, <2>8, <3>2 DEF DecoderInv
  <2>15. Progress'
    BY <2>7 DEF Progress
  <2>16. loaded \in Int /\ Position' = call.ip + loaded /\ call.ip + loaded <= hub.len
    BY <1>3, <1>7, <2>2, <2>8
  <2> QED BY <1>2, <1>3, <2>1, <2>5, <2>7, <2>11, <2>14, <2>15, <2>16, InsideIs, Advances
<1>11. CASE ~(loaded < zds.expected - zds.inPos)
  <2>1. Continue(z, zds.expected) /\ call' = [call EXCEPT !.ip = @ + loaded]
    BY <1>2, <1>11
  <2>2. loaded = zds.expected - zds.inPos /\ loaded >= 1 /\ zds.expected = zds.inPos + loaded
        /\ zds.expected \in 1..zds.expected /\ call.ip + loaded <= hub.len
    <3>1. PICK e \in Nat, i \in Nat, l \in Nat, a \in Int, ip0 \in Nat, len \in Nat :
              e = zds.expected /\ i = zds.inPos /\ l = loaded /\ a = Avail /\ ip0 = call.ip /\ len = hub.len
      BY <1>3, <1>4, <1>7
    <3>2. l = (IF e - i <= a THEN e - i ELSE a) /\ ~(l < e - i) /\ i < e /\ a = len - ip0
      BY <1>3, <1>5, <1>6, <1>11, <3>1
    <3>3. l = e - i /\ l >= 1 /\ e = i + l /\ e \in 1..e /\ ip0 + l <= len
      BY <3>2
    <3> QED BY <3>1, <3>3
  <2> HIDE DEF z
  <2> QED BY <1>2, <1>5, <1>7, <1>8, <1>9, <2>1, <2>2, ContinueInv
<1> QED BY <1>10, <1>11

(* A flush gives the next bytes of the ring, and restarts it only when they are out. *)
LEMMA FlushInv == StreamInv /\ Flush => StreamInv'
<1> SUFFICES ASSUME StreamInv, Flush PROVE StreamInv'
  OBVIOUS
<1>1. PICK n : n = Min({zds.outEnd - zds.outStart, Room})
  OBVIOUS
<1>2. PICK o : o = out \o SubSeq(ring, zds.outStart + 1, zds.outStart + n)
  OBVIOUS
<1> DEFINE z == [zds EXCEPT !.outStart = @ + n]
           wrap == Wraps /\ z.outStart + BlockMax > Len(ring)
<1>3. /\ hub.step = "inside" /\ zds.streamStage = "flush"
      /\ UNCHANGED <<frame, mode, blob, ring, call>>
      /\ IF z.outStart < z.outEnd THEN ReturnFrom(z, call.ip, o)
         ELSE /\ zds' = [z EXCEPT !.streamStage = "read",
                                  !.outStart = IF wrap THEN 0 ELSE @, !.outEnd = IF wrap THEN 0 ELSE @]
              /\ out' = o /\ UNCHANGED hub
  BY <1>1, <1>2 DEF Flush, Inside, Same, Wraps
<1>4. /\ ~Beginning /\ zds \in Decoders /\ StreamTypeOK /\ hub \in Hubs /\ zds.noProgress = 0
      /\ hub.len \in Nat /\ hub.cap \in Nat /\ call.ip \in Nat /\ call.istart \in Nat
      /\ call.ostart \in Nat /\ call \in [ip : Nat, istart : Nat, ostart : Nat]
      /\ call.ip <= hub.len /\ call.istart <= call.ip /\ call.ostart <= Len(out)
      /\ out \in Seq(Nat) /\ ring \in Seq(Nat) /\ Len(out) \in Nat /\ Len(out) <= hub.cap
      /\ \A i \in DOMAIN out : out[i] = i
  BY <1>3, InsideIs DEF Beginning
<1>5. /\ zds.block \in DOMAIN frame.blocks /\ zds.decoded = ContentRead
      /\ Expecting /\ EndSeen /\ RingHolds /\ OutputCounted
      /\ zds.expected = 0 <=> zds.stage = "end"
      /\ zds.stage \in {"blockHeader", "block", "checksum", "end"}
      /\ zds.outStart \in Nat /\ zds.outEnd \in Nat /\ zds.decoded \in Nat /\ zds.inPos \in Nat
      /\ zds.hostage \in BOOLEAN /\ zds.expected \in Nat
  BY <1>3, <1>4, InFrameIs
<1>6. PICK start \in Nat, end \in Nat, was \in Nat, got \in Nat, len \in Nat, room \in Nat :
          /\ start = zds.outStart /\ end = zds.outEnd /\ was = zds.decoded /\ got = Len(out)
          /\ len = Len(ring) /\ room = Room /\ room = hub.cap - Len(out)
  <2>1. Room \in Nat /\ Len(ring) \in Nat /\ Room = hub.cap - Len(out)
    BY <1>4, LenProperties DEF Room
  <2> QED BY <1>4, <1>5, <2>1
<1>7. start < end /\ end <= len /\ end <= was /\ got + end = was + start
      /\ \A i \in 1..end : ring[i] = was - end + i
  BY <1>3, <1>5, <1>6 DEF OutputCounted, RingHolds
<1>8. n \in Nat /\ n <= end - start /\ n <= room /\ (n < end - start => n = room)
  <2>1. n = IF end - start <= room THEN end - start ELSE room
    <3>1. end - start \in Int /\ room \in Int /\ n = Min({end - start, room})
      BY <1>1, <1>6
    <3> QED BY <3>1, MinIs
  <2> QED BY <1>7, <2>1
<1>9. /\ o \in Seq(Nat) /\ Len(o) = got + n /\ DOMAIN o = 1..Len(o) /\ \A i \in DOMAIN o : o[i] = i
  <2> DEFINE piece == SubSeq(ring, start + 1, start + n)
  <2>1. /\ piece \in Seq(Nat) /\ Len(piece) = n /\ \A i \in 1..n : piece[i] = ring[start + i]
    <3>1. start + 1 \in Int /\ start + n \in Int
      BY <1>8
    <3>4. \A i \in (start + 1)..(start + n) : ring[i] \in Nat
      <4>1. \A i \in (start + 1)..(start + n) : i \in 1..len
        BY <1>7, <1>8
      <4> QED BY <1>4, <1>6, <4>1, ElementOfSeq
    <3>2. /\ piece \in Seq(Nat)
          /\ Len(piece) = IF start + 1 <= start + n THEN (start + n) - (start + 1) + 1 ELSE 0
          /\ \A i \in 1..(start + n) - (start + 1) + 1 : piece[i] = ring[(start + 1) + i - 1]
      BY <3>1, <3>4, SubSeqProperties
    <3>3. \A i \in 1..n : i \in 1..(start + n) - (start + 1) + 1 /\ (start + 1) + i - 1 = start + i
      BY <1>8
    <3> HIDE DEF piece
    <3>5. \A i \in 1..n : piece[i] = ring[start + i]
      BY <3>2, <3>3
    <3>6. Len(piece) = n
      <4>1. CASE n = 0
        BY <3>2, <4>1
      <4>2. CASE n # 0
        <5>1. start + 1 <= start + n /\ (start + n) - (start + 1) + 1 = n
          BY <1>8, <4>2
        <5> QED BY <3>2, <5>1
      <4> QED BY <4>1, <4>2
    <3> QED BY <3>2, <3>5, <3>6
  <2>2. o = out \o piece
    BY <1>2, <1>6
  <2> HIDE DEF piece
  <2>3. /\ o \in Seq(Nat) /\ Len(o) = got + n
        /\ \A i \in 1..got + n : o[i] = IF i <= got THEN out[i] ELSE piece[i - got]
    <3>1. /\ o \in Seq(Nat) /\ Len(o) = Len(out) + Len(piece)
          /\ \A i \in 1..Len(out) + Len(piece) :
                o[i] = IF i <= Len(out) THEN out[i] ELSE piece[i - Len(out)]
      <4>1. out \in Seq(Nat) /\ piece \in Seq(Nat)
        BY <1>4, <2>1
      <4>2. /\ out \o piece \in Seq(Nat) /\ Len(out \o piece) = Len(out) + Len(piece)
            /\ \A i \in 1..Len(out) + Len(piece) :
                  (out \o piece)[i] = IF i <= Len(out) THEN out[i] ELSE piece[i - Len(out)]
        BY Zenon, <4>1, ConcatProperties
      <4> QED BY Zenon, <2>2, <4>2
    <3>2. Len(out) = got /\ Len(piece) = n
      BY <1>6, <2>1
    <3> QED BY Zenon, <3>1, <3>2
  <2>4. DOMAIN o = 1..Len(o)
    BY <2>3, LenProperties
  <2>5. ASSUME NEW i \in 1..got + n PROVE o[i] = i
    <3>1. CASE i <= got
      <4>1. i \in DOMAIN out
        BY <1>4, <1>6, <3>1, LenProperties
      <4> QED BY <1>4, <2>3, <3>1, <4>1
    <3>2. CASE i > got
      <4>1. PICK j \in 1..n : j = i - got
        BY <1>8, <3>2
      <4>2. o[i] = piece[j] /\ piece[j] = ring[start + j]
        BY <2>1, <2>3, <3>2, <4>1
      <4>3. start + j \in 1..end
        BY <1>7, <1>8, <4>1
      <4>4. ring[start + j] = was - end + (start + j)
        BY <1>7, <4>3
      <4> QED BY <1>7, <4>1, <4>2, <4>4
    <3> QED BY <1>8, <3>1, <3>2
  <2> QED BY <2>3, <2>4, <2>5
<1>10. PICK next \in Nat : next = start + n
  BY <1>8
<1>11. /\ z = [zds EXCEPT !.outStart = next]
       /\ z \in Decoders /\ z.noProgress = 0 /\ z.expected = zds.expected /\ z.outStart = next
       /\ z.outEnd = zds.outEnd /\ z.streamStage = "flush" /\ z.stage = zds.stage
       /\ z.inPos = zds.inPos /\ z.block = zds.block /\ z.decoded = zds.decoded
       /\ z.lhSize = zds.lhSize /\ z.hostage = zds.hostage
  BY <1>3, <1>4, <1>6, <1>10 DEF Decoders
<1>12. zds.inPos = 0
  BY <1>3, <1>5 DEF Expecting
<1> HIDE DEF z
<1>13. CASE z.outStart < z.outEnd
  <2>1. ReturnFrom(z, call.ip, o) /\ next < end /\ n = room
    BY <1>3, <1>6, <1>7, <1>8, <1>10, <1>11, <1>13
  <2>2. call.ip # call.istart \/ Len(o) # call.ostart
    <3>1. call.ip > call.istart \/ Len(out) > call.ostart \/ Len(out) < hub.cap
      BY <1>3, InsideIs
    <3>2. Len(out) < hub.cap => n >= 1
      BY <1>4, <1>6, <2>1
    <3>3. got > call.ostart \/ n >= 1 => Len(o) > call.ostart
      BY <1>4, <1>6, <1>8, <1>9
    <3> QED BY <1>4, <1>6, <1>9, <3>1, <3>2, <3>3
  <2>3. /\ zds' \in Decoders /\ out' = o /\ zds'.noProgress = 0
        /\ zds' = [z EXCEPT !.noProgress = 0, !.hostage = zds'.hostage]
        /\ zds'.hostage <=> z.hostage \/ z.expected = 0
        /\ hub' = [hub EXCEPT !.pos = IF z.expected = 0 /\ ~z.hostage THEN call.ip - 1 ELSE call.ip,
                              !.step = "returned", !.result = "more"]
    <3>1. z.outEnd # z.outStart
      BY <1>6, <1>11, <2>1
    <3>2. /\ hub.step = "inside" /\ z \in Decoders /\ call.ip \in Nat /\ o \in Seq(Nat)
          /\ ReturnFrom(z, call.ip, o) /\ z.noProgress = 0
      BY <1>3, <1>4, <1>9, <1>11, <2>1
    <3> HIDE DEF StreamInv
    <3> QED BY Zenon, <2>2, <3>1, <3>2, CallGoesOn
  <2>4. /\ zds'.streamStage = "flush" /\ zds'.stage = zds.stage /\ zds'.lhSize = zds.lhSize
        /\ zds'.expected = zds.expected /\ zds'.inPos = zds.inPos /\ zds'.outStart = next
        /\ zds'.outEnd = zds.outEnd /\ zds'.block = zds.block /\ zds'.decoded = zds.decoded
    BY <1>11, <2>3 DEF Decoders
  <2>5. ASSUME NEW p \in Nat, p = IF z.expected = 0 /\ ~z.hostage THEN call.ip - 1 ELSE call.ip
        PROVE  /\ hub' \in Hubs /\ hub'.step = "returned" /\ hub'.result = "more" /\ hub'.pos = p
               /\ hub'.remain = hub.remain /\ hub'.len = hub.len /\ hub'.cap = hub.cap
    <3>1. hub' = [hub EXCEPT !.pos = p, !.step = "returned", !.result = "more"]
      BY <2>3, <2>5
    <3> QED BY <1>4, <3>1 DEF Hubs
  <2>6. /\ Block' = Block /\ Wraps' = Wraps /\ InBlock' = InBlock /\ ~Beginning'
        /\ hub'.step = "returned" /\ Position' = hub'.pos
    <3>1. hub'.step = "returned"
      BY <1>4, <2>3 DEF Hubs
    <3> QED BY <1>3, <2>4, <3>1 DEF Block, Wraps, InBlock, Beginning, Position
  <2>7. ContentRead' = ContentRead
    BY <1>3, <2>4, <2>6 DEF ContentRead
  <2>8. Len(o) = hub.cap
    BY SMTT(30), <1>4, <1>6, <1>9, <2>1
  <2>9. OutputCounted'
    <3>1. got + n + end = was + next
      BY <1>7, <1>8, <1>10
    <3> QED BY <1>6, <1>9, <2>1, <2>3, <2>4, <3>1 DEF OutputCounted
  <2>10. RingHolds'
    BY <1>3, <1>5, <2>4, <2>6 DEF RingHolds, LapBefore
  <2>11. EndSeen'
    <3>1. zds'.stage = "end" => zds'.hostage
      BY <1>5, <1>11, <2>3, <2>4
    <3> QED BY <2>4, <2>6, <3>1 DEF EndSeen
  <2>12. Progress'
    BY <2>6 DEF Progress
  <2>13. ASSUME Expecting' PROVE DecoderInv'
    <3>1. zds'.block \in DOMAIN frame'.blocks /\ zds'.decoded = ContentRead'
      BY <1>3, <1>5, <2>4, <2>7
    <3>2. InFrame'
      BY Zenon, <2>9, <2>10, <2>11, <2>13, <3>1 DEF InFrame
    <3> QED BY Zenon, <2>6, <3>2 DEF DecoderInv
  <2>14. ASSUME zds'.hostage => Position' < hub'.len PROVE Expecting'
    <3>1. zds'.hostage => zds'.stage = "end"
      BY <1>5, <1>11, <2>3, <2>4 DEF Expecting
    <3> QED BY <1>3, <1>5, <1>12, <2>4, <2>6, <2>14, <3>1 DEF Expecting
  <2>15. CASE zds.expected = 0 /\ ~zds.hostage
    <3>1. zds.stage = "end" /\ call.ip >= 1
      BY <1>3, <1>4, <1>5, <2>15 DEF EndSeen
    <3>2. PICK p \in Nat : p = call.ip - 1 /\ p < hub.len
      BY <1>4, <3>1
    <3>3. /\ hub' \in Hubs /\ hub'.step = "returned" /\ hub'.result = "more" /\ hub'.pos = p
          /\ hub'.remain = hub.remain /\ hub'.len = hub.len /\ hub'.cap = hub.cap
      <4>1. p = IF z.expected = 0 /\ ~z.hostage THEN call.ip - 1 ELSE call.ip
        BY <1>11, <2>15, <3>2
      <4> QED BY <2>5, <4>1
    <3>4. DecoderInv'
      BY <2>6, <2>13, <2>14, <3>2, <3>3
    <3>5. Consumed = 0 + (FrameSize(frame) - 0)
      BY <1>4, <1>12, <2>15, <3>1 DEF Consumed
    <3>6. Consumed' = 0 + (FrameSize(frame) - 1)
      <4>1. zds'.hostage
        BY <1>11, <2>3, <2>15
      <4> QED BY <1>3, <1>12, <2>4, <2>6, <3>1, <4>1 DEF Consumed
    <3>7. PICK m \in Int : /\ Position' = call.ip + m /\ Consumed' = Consumed + m
                           /\ call.ip + m <= hub.len
      <4>1. FrameSize(frame) \in Nat
        BY <1>4, Shape
      <4>2. PICK m \in Int : m = -1
        OBVIOUS
      <4>3. Position' = call.ip + m
        BY <1>4, <2>6, <3>2, <3>3, <4>2
      <4>4. Consumed' = Consumed + m
        BY <3>5, <3>6, <4>1, <4>2
      <4>5. call.ip + m <= hub.len
        BY <1>4, <4>2
      <4> QED BY <4>3, <4>4, <4>5
    <3>8. /\ UNCHANGED <<frame, mode, blob>> /\ hub' \in Hubs /\ hub'.remain = hub.remain
          /\ hub'.len = hub.len /\ hub'.cap = hub.cap /\ hub'.step = "returned"
          /\ hub'.result = "more" /\ zds' \in Decoders /\ zds'.noProgress = 0
      BY <1>3, <2>3, <3>3
    <3>9. /\ ring' \in Seq(Nat) /\ call' \in [ip : Nat, istart : Nat, ostart : Nat]
          /\ out' \in Seq(Nat) /\ Len(out') <= hub.cap /\ \A i \in DOMAIN out' : out'[i] = i
      BY SMTT(30), <1>3, <1>4, <1>9, <2>3, <2>8
    <3> QED BY Zenon, <1>3, <2>12, <3>4, <3>7, <3>8, <3>9, Advances
  <2>16. CASE ~(zds.expected = 0 /\ ~zds.hostage)
    <3>1. /\ hub' \in Hubs /\ hub'.step = "returned" /\ hub'.result = "more" /\ hub'.pos = call.ip
          /\ hub'.remain = hub.remain /\ hub'.len = hub.len /\ hub'.cap = hub.cap
      <4>1. call.ip = IF z.expected = 0 /\ ~z.hostage THEN call.ip - 1 ELSE call.ip
        BY <1>11, <2>16
      <4> QED BY <1>4, <2>5, <4>1
    <3>2. zds'.hostage <=> zds.hostage
      BY <1>11, <2>3, <2>16
    <3>3. zds'.hostage => Position' < hub'.len
      BY <1>3, <1>5, <2>6, <3>1, <3>2 DEF Expecting, Position
    <3>4. DecoderInv'
      BY <2>13, <2>14, <3>3
    <3>5. Consumed' = Consumed
      BY <1>3, <1>4, <1>5, <2>4, <2>6, <3>2, PlaceKept
    <3>6. 0 \in Int /\ Position' = call.ip + 0 /\ Consumed' = Consumed + 0 /\ call.ip + 0 <= hub.len
      <4>1. Consumed \in Int
        BY <1>3, InsideIs, ConsumedIs
      <4> QED BY <1>4, <2>6, <3>1, <3>5, <4>1
    <3> QED BY SMTT(30), <1>3, <1>4, <1>9, <2>3, <2>8, <2>12, <3>1, <3>4, <3>6, Advances
  <2> QED BY <2>15, <2>16
<1>14. CASE ~(z.outStart < z.outEnd)
  <2>1. next = end /\ n = end - start
    BY <1>6, <1>7, <1>8, <1>10, <1>11, <1>14
  <2>2. PICK back \in Nat : back = IF wrap THEN 0 ELSE end
    OBVIOUS
  <2>3. /\ zds' = [z EXCEPT !.streamStage = "read", !.outStart = back, !.outEnd = back]
        /\ out' = o /\ UNCHANGED hub
    BY <1>3, <1>6, <1>11, <1>14, <2>1, <2>2
  <2>4. wrap <=> Wraps /\ end + BlockMax > len
    BY <1>6, <1>11, <2>1
  <2> HIDE DEF wrap
  <2>5. /\ zds' \in Decoders /\ zds'.noProgress = 0
        /\ zds'.streamStage = "read" /\ zds'.stage = zds.stage /\ zds'.lhSize = zds.lhSize
        /\ zds'.expected = zds.expected /\ zds'.inPos = zds.inPos /\ zds'.outStart = back
        /\ zds'.outEnd = back /\ zds'.block = zds.block /\ zds'.decoded = zds.decoded
        /\ zds'.hostage = zds.hostage
    BY <1>11, <2>3 DEF Decoders
  <2>6. Block' = Block /\ InBlock' = InBlock /\ Position' = call.ip /\ ~Beginning'
        /\ (Wraps' <=> Wraps) /\ Position = call.ip
    BY <1>3, <2>3, <2>5 DEF Block, Wraps, InBlock, Beginning, Position
  <2>7. ContentRead' = ContentRead /\ Consumed' = Consumed
    <3>1. zds'.hostage <=> zds.hostage
      BY <2>5
    <3> QED BY <1>3, <1>4, <1>5, <2>5, <2>6, <3>1, PlaceKept
  <2>8. OutputCounted'
    <3>1. got + n + back = was + back
      BY <1>7, <2>1
    <3> QED BY <1>6, <1>9, <2>3, <2>5, <3>1 DEF OutputCounted
  <2>9. EndSeen' /\ Expecting'
    <3>1. EndSeen'
      BY <1>3, <1>5, <2>3, <2>5 DEF EndSeen
    <3>2. Expecting'
      BY <1>3, <1>5, <1>12, <2>3, <2>5, <2>6 DEF Expecting
    <3> QED BY <3>1, <3>2
  <2>10. RingHolds'
    <3>1. RingSize(frame) \in Nat /\ BlockMax \in Nat /\ Window \in Nat /\ len = RingSize(frame)
      BY <1>4, <1>5, <1>6, Shape, RingSizeIs DEF RingHolds
    <3>2. CASE wrap
      <4>1. back = 0 /\ Wraps /\ end + BlockMax > len
        BY <2>2, <2>4, <3>2
      <4>2. 0 + BlockMax <= len
        <5>1. ~frame.sized \/ RingSize(frame) < Content(frame)
          BY <1>6, <3>1, <4>1 DEF Wraps
        <5>2. RingSize(frame) = RingNeeded /\ RingNeeded \in Nat /\ RingNeeded >= Window + 2 * BlockMax
          BY <1>4, <5>1, RingSizeIs
        <5> QED BY <3>1, <5>2
      <4>3. LapBefore(end)'
        <5>1. \A i \in 1..end : ring[i] = was - 0 - end + i
          BY <1>7
        <5> QED BY <1>3, <1>6, <1>7, <2>5, <4>1, <5>1 DEF LapBefore
      <4>4. end \in 1..Len(ring')
        BY <1>3, <1>6, <1>7
      <4> QED BY <1>3, <1>6, <2>5, <2>6, <3>1, <4>1, <4>2, <4>3, <4>4 DEF RingHolds
    <3>3. CASE ~wrap
      <4>1. back = end
        BY <2>2, <3>3
      <4>2. Wraps' => back + BlockMax <= len
        BY <2>4, <2>6, <3>1, <3>3, <4>1
      <4>3. /\ Len(ring') = RingSize(frame)' /\ zds'.outEnd <= Len(ring') /\ zds'.outEnd <= zds'.decoded
            /\ \A i \in 1..zds'.outEnd : ring'[i] = zds'.decoded - zds'.outEnd + i
            /\ \/ zds'.decoded = zds'.outEnd
               \/ Wraps' /\ \E prev \in 1..Len(ring') : LapBefore(prev)'
        BY <1>3, <1>5, <1>6, <2>5, <2>6, <4>1 DEF RingHolds, LapBefore
      <4> QED BY <1>3, <1>6, <2>5, <4>2, <4>3 DEF RingHolds
    <3> QED BY <3>2, <3>3
  <2>11. DecoderInv'
    <3>1. zds'.block \in DOMAIN frame'.blocks /\ zds'.decoded = ContentRead'
      BY <1>3, <1>5, <2>5, <2>7
    <3>2. InFrame'
      BY Zenon, <2>8, <2>9, <2>10, <3>1 DEF InFrame
    <3> QED BY Zenon, <2>6, <3>2 DEF DecoderInv
  <2>12. Len(o) > call.ostart /\ Len(o) <= hub.cap
    <3>1. PICK from \in Nat, cap \in Nat : from = call.ostart /\ cap = hub.cap
      BY <1>4
    <3>2. n >= 1 /\ n <= room /\ room = cap - got /\ from <= got
      BY SMTT(30), <1>4, <1>6, <1>7, <1>8, <2>1, <3>1
    <3>3. got + n > from /\ got + n <= cap
      BY <1>8, <3>1, <3>2
    <3> QED BY <1>9, <3>1, <3>3
  <2>13. Progress'
    BY <1>3, <1>4, <2>3, <2>12 DEF Progress
  <2>14. 0 \in Int /\ Position' = call.ip + 0 /\ Consumed' = Consumed + 0 /\ call.ip + 0 <= hub.len
    <3>1. Consumed \in Int
      BY <1>3, InsideIs, ConsumedIs
    <3> QED BY <1>4, <2>6, <2>7, <3>1
  <2> QED BY <1>3, <1>4, <1>9, <2>3, <2>5, <2>11, <2>12, <2>13, <2>14, Advances
<1> QED BY <1>13, <1>14

(* The loop starts with the whole cluster unread. *)
LEMMA StreamInitInv == StreamInit => StreamInv
<1> SUFFICES ASSUME StreamInit PROVE StreamInv
  OBVIOUS
<1>1. /\ frame \in Frames /\ mode \in {"cluster", "blob"} /\ blob \in Blobs
      /\ FrameSize(frame) + frame.more > 0
      /\ hub = [step |-> "loop", remain |-> FrameSize(frame) + frame.more, len |-> 0, pos |-> 0,
                cap |-> OutCap, result |-> "none"]
      /\ out = <<>> /\ zds = NewDecoder /\ ring = <<>>
      /\ call = [ip |-> 0, istart |-> 0, ostart |-> 0]
  BY DEF StreamInit
<1>2. IsFrame(frame) /\ OutCap \in Nat \ {0} /\ HeaderSize \in Nat \ {0}
  BY <1>1, StreamAssumption
<1>3. FrameSize(frame) \in Nat /\ frame.more \in Int
  <2>1. frame.more \in Int
    BY <1>2 DEF IsFrame
  <2> QED BY <1>2, <2>1, BlocksAre
<1>4. PICK all \in Nat : all = FrameSize(frame) + frame.more
  BY <1>1, <1>3
<1>5. /\ hub \in Hubs /\ hub.step = "loop" /\ hub.len = 0 /\ hub.pos = 0 /\ hub.remain = all
      /\ hub.cap = OutCap
  BY <1>1, <1>2, <1>4 DEF Hubs
<1>6. /\ zds \in Decoders /\ zds.noProgress = 0 /\ zds.lhSize = 0 /\ zds.streamStage = "init"
  BY <1>1, NewDecoderIs
<1>7. out \in Seq(Nat) /\ ring \in Seq(Nat) /\ Len(out) = 0 /\ DOMAIN out = {}
  BY <1>1, EmptySeq
<1>8. StreamTypeOK
  BY <1>1, <1>5, <1>6, <1>7 DEF StreamTypeOK
<1>9. Position = 0 /\ Beginning
  BY <1>5, <1>6 DEF Position, Beginning
<1>10. HubReady
  BY <1>2, <1>5, <1>7, <1>9 DEF HubReady
<1>11. InputCounted
  <2>1. Consumed = 0
    BY <1>6, <1>9 DEF Consumed
  <2> QED BY <1>4, <1>5, <1>9, <2>1 DEF InputCounted
<1>12. Progress /\ Ended
  BY <1>5 DEF Progress, Ended
<1>13. DecoderInv
  <2>1. zds = [NewDecoder EXCEPT !.streamStage = zds.streamStage, !.lhSize = zds.lhSize]
    BY <1>1 DEF NewDecoder
  <2>2. NothingYet
    BY <1>1, <1>2, <1>6, <2>1 DEF NothingYet
  <2> QED BY <1>9, <2>2 DEF DecoderInv
<1> QED BY <1>6, <1>7, <1>8, <1>10, <1>11, <1>12, <1>13 DEF StreamInv

(* What is not changed stays so. *)
LEMMA StutterInv == StreamInv /\ UNCHANGED stream => StreamInv'
<1> SUFFICES ASSUME StreamInv, UNCHANGED stream PROVE StreamInv'
  OBVIOUS
<1>1. UNCHANGED <<frame, mode, blob, hub, out, zds, ring, call>>
  BY DEF stream
<1>2. UNCHANGED Block /\ (InBlock' <=> InBlock) /\ (Beginning' <=> Beginning) /\ UNCHANGED Position
      /\ (Wraps' <=> Wraps) /\ (Active' <=> Active)
  BY <1>1 DEF Block, InBlock, Beginning, Position, Wraps, Active
<1>3. UNCHANGED ContentRead
  BY <1>1, <1>2 DEF ContentRead
<1>4. UNCHANGED Consumed
  <2>1. CASE Beginning
    <3>1. Beginning'
      BY <1>2, <2>1
    <3> QED BY <1>1, <2>1, <3>1 DEF Consumed
  <2>2. CASE ~Beginning
    <3>1. ~Beginning'
      BY <1>2, <2>2
    <3>2. zds.stage \in {"blockHeader", "block", "checksum", "end"}
      BY DecoderShape DEF StreamInv, StreamTypeOK
    <3> QED BY <1>1, <1>2, <2>2, <3>1, <3>2, PlaceKept
  <2> QED BY <2>1, <2>2
<1>5. StreamTypeOK' /\ Ended' /\ zds'.noProgress = 0 /\ \A i \in DOMAIN out' : out'[i] = i
  BY <1>1 DEF StreamInv, StreamTypeOK, Ended
<1>6. (HubReady => HubReady') /\ (InputCounted => InputCounted') /\ (Progress => Progress')
  BY <1>1, <1>2, <1>4 DEF HubReady, InputCounted, Progress
<1>7. NothingYet => NothingYet'
  BY <1>1 DEF NothingYet
<1>8. (Expecting => Expecting') /\ (EndSeen => EndSeen') /\ (OutputCounted => OutputCounted')
  BY <1>1, <1>2 DEF Expecting, EndSeen, OutputCounted
<1>9. RingHolds => RingHolds'
  BY <1>1, <1>2 DEF RingHolds, LapBefore
<1>10. DecoderInv => DecoderInv'
  <2>1. InFrame => InFrame'
    BY <1>1, <1>3, <1>8, <1>9 DEF InFrame
  <2> QED BY <1>2, <1>7, <2>1 DEF DecoderInv
<1>11. Active' => HubReady' /\ InputCounted' /\ Progress' /\ DecoderInv'
  BY <1>2, <1>6, <1>10 DEF StreamInv
<1> QED BY Zenon, <1>5, <1>11 DEF StreamInv

(* Every step of the loops and of the decoder keeps StreamInv. *)
LEMMA StreamStep == StreamInv /\ [StreamNext]_stream => StreamInv'
<1> SUFFICES ASSUME StreamInv, [StreamNext]_stream PROVE StreamInv'
  OBVIOUS
<1>1. CASE HubStep
  BY <1>1, RefillInv, KeepInputInv, GrowInv, EnterInv, LeaveInv, EndInv DEF HubStep
<1>2. CASE DecoderStep
  BY <1>2, LoadHeaderInv, DecodeAllInv, BeginFrameInv, ReadEndInv, ReadDirectInv,
     ReadTooLittleInv, LoadInv, FlushInv DEF DecoderStep
<1>3. CASE Broken
  BY <1>3, BrokenInv
<1>4. CASE UNCHANGED stream
  BY <1>4, StutterInv
<1> QED BY <1>1, <1>2, <1>3, <1>4 DEF StreamNext

\* Every state of the loops and of the decoder keeps the account of StreamInv: what
\* is read, what is decoded, what the ring holds and what is out.
THEOREM StreamInvariant == StreamSpec => []StreamInv
<1> QED BY StreamInitInv, StreamStep, PTL DEF StreamSpec

\* The hub gets the bytes of the content once each and in order, and all of them
\* (or all of the blob) when its loop ends without an error.
THEOREM StreamUnpacks == StreamSpec => []Unpacked
<1>1. StreamInv => Unpacked
  BY DEF StreamInv, Ended, Unpacked
<1> QED BY <1>1, StreamInvariant, PTL

\* ZSTD_decompressStream never counts a call without progress.
THEOREM StreamNeverStalls == StreamSpec => []NeverStalls
<1>1. StreamInv => NeverStalls
  BY DEF StreamInv, NeverStalls
<1> QED BY <1>1, StreamInvariant, PTL

(* StreamInv leaves room for the next block, outside the window before it. *)
LEMMA RingKeepsWindow == StreamInv => WindowKept
<1> SUFFICES ASSUME StreamInv, InBlock, ~Block.raw, Inside({"read", "load"})
             PROVE  /\ zds.outStart + Block.r <= Len(ring)
                    /\ \A p \in Max({1, zds.decoded - Window + 1})..zds.decoded :
                          \E i \in DOMAIN ring :
                              ring[i] = p /\ i \notin zds.outStart + 1..zds.outStart + BlockMax
  BY DEF WindowKept
<1>1. /\ hub.step = "inside" /\ ~Beginning /\ zds.streamStage \in {"read", "load"}
      /\ zds.stage = "block" /\ StreamTypeOK
  <2>1. hub.step = "inside" /\ zds.streamStage \in {"read", "load"}
    BY DEF Inside
  <2> QED BY <2>1, InsideIs DEF Beginning, InBlock
<1>2. /\ zds.block \in DOMAIN frame.blocks /\ zds.decoded = ContentRead
      /\ RingHolds /\ OutputCounted
  BY <1>1, InFrameIs
<1>3. PICK start \in Nat, end \in Nat, was \in Nat, len \in Nat, window \in Nat, max \in Nat,
          r \in Nat, content \in Nat, at \in Nat :
          /\ start = zds.outStart /\ end = zds.outEnd /\ was = zds.decoded /\ len = Len(ring)
          /\ window = Window /\ max = BlockMax /\ r = Block.r /\ content = Content(frame)
          /\ at = Block.at
  <2>1. zds.outStart \in Nat /\ zds.outEnd \in Nat /\ zds.decoded \in Nat
    BY <1>1, InFrameIs
  <2>2. Len(ring) \in Nat /\ Window \in Nat /\ BlockMax \in Nat /\ Content(frame) \in Nat
    BY <1>1, Shape
  <2>3. Block.r \in Nat /\ Block.at \in Nat
    BY <1>1, <1>2, BlockIs
  <2> QED BY <2>1, <2>2, <2>3
<1>4. r <= max /\ was = at /\ at + r <= content
  <2>1. Block.r <= BlockMax /\ Block.at + Block.r <= Content(frame)
    BY <1>1, <1>2, BlockIs
  <2>2. ContentRead = Block.at + 0
    BY <1>1 DEF ContentRead
  <2> QED BY <1>2, <1>3, <2>1, <2>2
<1>5. /\ start = end /\ end <= len /\ end <= was /\ DOMAIN ring = 1..len
      /\ \A i \in 1..end : ring[i] = was - end + i
      /\ Wraps => start + max <= len
  <2>1. DOMAIN ring = 1..len
    BY <1>1, <1>3, Shape
  <2>2. zds.outStart = zds.outEnd
    BY <1>1, <1>2 DEF OutputCounted
  <2> QED BY <1>1, <1>2, <1>3, <2>1, <2>2 DEF RingHolds
<1>6. was = end \/ (Wraps /\ \E prev \in 1..len : LapBefore(prev))
  BY <1>2, <1>3 DEF RingHolds
<1>7. start + r <= len
  <2>1. CASE Wraps
    BY <1>4, <1>5, <2>1
  <2>2. CASE ~Wraps
    <3>1. content <= len
      BY <1>3, <2>2 DEF Wraps
    <3> QED BY <1>4, <1>5, <1>6, <2>2, <3>1
  <2> QED BY <2>1, <2>2
<1>8. ASSUME NEW p \in Max({1, was - window + 1})..was
      PROVE  \E i \in 1..len : ring[i] = p /\ i \notin start + 1..start + max
  <2>1. p \in Int /\ p >= 1 /\ p >= was - window + 1 /\ p <= was
    <3>1. 1 \in Int /\ was - window + 1 \in Int
      OBVIOUS
    <3>2. Max({1, was - window + 1}) = IF 1 >= was - window + 1 THEN 1 ELSE was - window + 1
      BY <3>1, MaxIs
    <3> QED BY <1>8, <3>2
  <2>2. CASE p > was - end
    <3>1. PICK i \in 1..end : i = p - was + end
      BY <1>5, <2>1, <2>2
    <3>2. ring[i] = p
      <4>1. ring[i] = was - end + i
        BY <1>5
      <4> QED BY <2>1, <3>1, <4>1
    <3>3. i \in 1..len /\ i \notin start + 1..start + max
      BY <1>5
    <3> QED BY <3>2, <3>3
  <2>3. CASE p <= was - end
    <3>1. Wraps /\ \E prev \in 1..len : LapBefore(prev)
      BY <1>5, <1>6, <2>1, <2>3
    <3>2. PICK prev \in 1..len : LapBefore(prev)
      BY <3>1
    <3>3. /\ prev + max > len /\ end + prev <= was
          /\ \A i \in end + 1..prev : ring[i] = was - end - prev + i
      BY <1>3, <3>2 DEF LapBefore
    <3>4. len >= window + 2 * max
      <4>1. ~frame.sized \/ RingSize(frame) < Content(frame)
        BY <1>2, <3>1 DEF Wraps, RingHolds
      <4>2. RingSize(frame) = RingNeeded /\ RingNeeded \in Nat /\ RingNeeded >= Window + 2 * BlockMax
        BY <1>1, <4>1, RingSizeIs
      <4>3. Len(ring) = RingSize(frame)
        BY <1>2 DEF RingHolds
      <4> QED BY <1>3, <4>2, <4>3
    <3>5. PICK i \in Int : i = p - was + end + prev
      BY <2>1
    <3>6. i > end + max /\ i <= prev /\ i \in end + 1..prev
      BY <2>1, <2>3, <3>3, <3>4, <3>5
    <3>7. ring[i] = p
      <4>1. ring[i] = was - end - prev + i
        BY <3>3, <3>6
      <4> QED BY <2>1, <3>5, <4>1
    <3>8. i \in 1..len /\ i \notin start + 1..start + max
      BY <1>5, <3>6
    <3> QED BY <3>7, <3>8
  <2> QED BY <2>1, <2>2, <2>3
<1> QED BY <1>3, <1>5, <1>7, <1>8

\* A match of the next block still finds the bytes of the window in the ring.
THEOREM StreamKeepsWindow == StreamSpec => []WindowKept
<1> QED BY RingKeepsWindow, StreamInvariant, PTL
=============================================================================
