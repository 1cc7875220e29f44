----------------------------- MODULE MeshProofs -----------------------------
(***************************************************************************)
(* Proofs about the flood between radio boards, for any boards and links,  *)
(* any number of hops, any size of the ring of ids, with packets lost at   *)
(* every listener and boards restarting: who stores a message              *)
(* (RightBoards), how often (AtMostOnce), and how often it is put on the   *)
(* air (FloodBounded).                                                     *)
(*                                                                         *)
(* A ring forgets an id only when it is full of others.  Its ids differ,   *)
(* so it forgets none as long as there are no more messages than places.   *)
(* What a board has stored or sent more often than it restarted is then in *)
(* its ring (Counted).                                                     *)
(***************************************************************************)
EXTENDS Mesh, SequenceTheorems, FiniteSetTheorems, TLAPS

\* A packet is a copy of a message that was originated.
Copy(p) == p.id \in Ids /\ p.to = msgs[p.id].to

\* What a board has in its radio was sent by a board one hop nearer to the
\* writer, or by itself; every hop has cost the packet one.
Heard(n, p) == Copy(p) /\ Within(Ttl - p.ttl + 1, msgs[p.id].from, n)
ToRepeat(n, p) ==
    /\ Copy(p) /\ Within(Ttl - p.ttl, msgs[p.id].from, n)
    /\ p.to # n /\ p.id \in ToSet(seen[n])

OnTheWay ==
    \A n \in Nodes :
        /\ buf[n] = Nothing \/ Heard(n, buf[n])
        /\ flag[n] => buf[n] # Nothing
        /\ relay[n] = Nothing \/ ToRepeat(n, relay[n])

Different(q) == \A i, j \in 1..Len(q) : q[i] = q[j] => i = j

\* The ids of a ring are ids of messages, each in it once.
Rings == \A n \in Nodes : ToSet(seen[n]) \subseteq Ids /\ Different(seen[n])

Addressed == \A id \in Ids : msgs[id].to = Address(msgs[id].box)

\* Who stored and who sent a message, however often.
Histories ==
    \A n \in Nodes :
        /\ ToSet(stored[n]) \subseteq Ids /\ ToSet(sent[n]) \subseteq Ids
        /\ \A id \in ToSet(stored[n]) :
              msgs[id].to \in {Everyone, n} /\ Within(Ttl + 1, msgs[id].from, n)
        /\ \A id \in ToSet(sent[n]) : msgs[id].from = n \/ msgs[id].to # n

One(condition) == IF condition THEN 1 ELSE 0

\* A board that has stored or sent a message once more than it restarted has it
\* in its ring, unless it is still about to send it.
CountedFor(n, id) ==
    /\ msgs[id].from = n /\ boots[n] = 0 =>
          id \in ToSet(seen[n]) /\ id \notin ToSet(stored[n])
    /\ Times(stored[n], id) <= boots[n] + One(id \in ToSet(seen[n]))
    /\ Times(sent[n], id) <= boots[n] + One(id \in ToSet(seen[n]) /\ relay[n].id # id)
Counted == Len(msgs) <= SeenMax => \A n \in Nodes, id \in Ids : CountedFor(n, id)

MeshInv ==
    /\ TypeOK /\ OnTheWay /\ Rings /\ Addressed /\ Histories /\ Counted
-----------------------------------------------------------------------------
(* Sequences *)

LEMMA AppendIs ==
    ASSUME NEW S, NEW q \in Seq(S), NEW x \in S
    PROVE  /\ Append(q, x) \in Seq(S) /\ ToSet(Append(q, x)) = ToSet(q) \cup {x}
           /\ Len(q) \in Nat /\ Len(Append(q, x)) = Len(q) + 1
           /\ \A i \in 1..Len(q) : Append(q, x)[i] = q[i]
           /\ Append(q, x)[Len(q) + 1] = x
<1> DEFINE r == Append(q, x)
<1>1. /\ r \in Seq(S) /\ Len(r) = Len(q) + 1 /\ Len(q) \in Nat
      /\ \A i \in 1..Len(q) : r[i] = q[i]
      /\ r[Len(q) + 1] = x
  BY AppendProperties, LenProperties
<1> HIDE DEF r
<1>2. DOMAIN q = 1..Len(q) /\ DOMAIN r = 1..Len(r)
  BY <1>1, LenProperties
<1>3. ToSet(r) = ToSet(q) \cup {x}
  <2>1. \A y \in ToSet(r) : y \in ToSet(q) \cup {x}
    BY <1>1, <1>2 DEF ToSet
  <2>2. \A y \in ToSet(q) \cup {x} : y \in ToSet(r)
    BY <1>1, <1>2 DEF ToSet
  <2> QED BY <2>1, <2>2
<1> QED BY <1>1, <1>3 DEF r

LEMMA TimesIs ==
    ASSUME NEW q \in Seq(Nat), NEW x \in Nat, NEW id
    PROVE  /\ Times(q, id) \in Nat
           /\ Times(Append(q, x), id) = Times(q, id) + One(x = id)
           /\ id \notin ToSet(q) => Times(q, id) = 0
<1> DEFINE at(s) == {i \in DOMAIN s : s[i] = id}
           r == Append(q, x)
<1>1. /\ r \in Seq(Nat) /\ Len(r) = Len(q) + 1 /\ Len(q) \in Nat
      /\ \A i \in 1..Len(q) : r[i] = q[i]
      /\ r[Len(q) + 1] = x
      /\ DOMAIN q = 1..Len(q) /\ DOMAIN r = 1..Len(r)
  BY AppendIs, LenProperties
<1> HIDE DEF r
<1>2. IsFiniteSet(at(q)) /\ Cardinality(at(q)) \in Nat
  <2>1. IsFiniteSet(1..Len(q)) /\ at(q) \in SUBSET (1..Len(q))
    BY <1>1, FS_Interval
  <2> QED BY <2>1, FS_Subset, FS_CardinalityType
<1>3. CASE x = id
  <2>1. at(r) = at(q) \cup {Len(q) + 1} /\ Len(q) + 1 \notin at(q)
    BY <1>1, <1>3
  <2>2. Cardinality(at(r)) = Cardinality(at(q)) + 1
    BY <1>2, <2>1, FS_AddElement
  <2>3. id \notin ToSet(q) => at(q) = {}
    BY DEF ToSet
  <2> QED BY <1>2, <1>3, <2>2, <2>3, FS_EmptySet DEF Times, One, r
<1>4. CASE x # id
  <2>1. at(r) = at(q)
    BY <1>1, <1>4
  <2>3. id \notin ToSet(q) => at(q) = {}
    BY DEF ToSet
  <2>4. Times(r, id) = Times(q, id) /\ Times(q, id) = Cardinality(at(q)) /\ One(x = id) = 0
    BY <1>4, <2>1 DEF Times, One
  <2> HIDE DEF at
  <2> QED BY <1>2, <2>3, <2>4, FS_EmptySet DEF r
<1> QED BY <1>3, <1>4

\* A ring of different ids out of m, one of them not in it, has room if it has m places.
LEMMA RingHasRoom ==
    ASSUME NEW q \in Seq(Nat), Different(q), NEW m \in Nat, ToSet(q) \subseteq 1..m,
           NEW x \in 1..m, x \notin ToSet(q)
    PROVE  Len(q) < m
<1> DEFINE T == (1..m) \ {x}
<1>1. Len(q) \in Nat /\ q \in [1..Len(q) -> Nat]
  BY LenProperties
<1>2. \A i \in 1..Len(q) : q[i] \in T
  BY <1>1 DEF ToSet
<1>3. q \in Injection(1..Len(q), T)
  BY <1>1, <1>2 DEF Different, Injection, IsInjective
<1>4. IsFiniteSet(T) /\ Cardinality(T) = m - 1
  <2>1. IsFiniteSet(1..m) /\ Cardinality(1..m) = m
    BY FS_Interval
  <2> QED BY <2>1, FS_RemoveElement
<1>5. Cardinality(1..Len(q)) <= m - 1
  <2> HIDE DEF T
  <2> QED BY <1>3, <1>4, FS_Injection
<1>6. Cardinality(1..Len(q)) = Len(q)
  <2>1. \A n \in Nat : Cardinality(1..n) = n
    BY FS_Interval
  <2> QED BY <1>1, <2>1
<1> QED BY <1>1, <1>5, <1>6

\* A new id in a ring: in the place of the oldest, or in a place of its own.
LEMMA RememberIs ==
    ASSUME NEW q \in Seq(Nat), Len(q) <= SeenMax, Different(q), NEW id \in Nat, id \notin ToSet(q)
    PROVE  /\ Remember(q, id) \in Seq(Nat) /\ Len(Remember(q, id)) <= SeenMax
           /\ Different(Remember(q, id))
           /\ ToSet(Remember(q, id)) \subseteq ToSet(q) \cup {id}
           /\ id \in ToSet(Remember(q, id))
           /\ Len(q) < SeenMax => ToSet(Remember(q, id)) = ToSet(q) \cup {id}
<1>1. SeenMax \in Nat /\ SeenMax >= 1 /\ Len(q) \in Nat
  BY MeshAssumption
\* What is appended to differs, in itself and from the id.
<1>2. ASSUME NEW r \in Seq(Nat), Different(r), id \notin ToSet(r)
      PROVE  Different(Append(r, id))
  <2>1. /\ Append(r, id) \in Seq(Nat) /\ Len(Append(r, id)) = Len(r) + 1 /\ Len(r) \in Nat
        /\ \A i \in 1..Len(r) : Append(r, id)[i] = r[i]
        /\ Append(r, id)[Len(r) + 1] = id
    BY AppendIs
  <2>2. \A i \in 1..Len(r) : r[i] # id
    BY <1>2 DEF ToSet
  <2>3. \A i, j \in 1..Len(r) : r[i] = r[j] => i = j
    BY <1>2 DEF Different
  <2> QED BY <2>1, <2>2, <2>3 DEF Different
<1>3. CASE Len(q) < SeenMax
  <2>1. Remember(q, id) = Append(q, id)
    BY <1>3 DEF Remember
  <2>2. Different(Append(q, id))
    BY <1>2
  <2> QED BY <1>1, <1>3, <2>1, <2>2, AppendIs
<1>4. CASE Len(q) = SeenMax
  <2> DEFINE r == Tail(q)
  <2>1. q # <<>>
    BY <1>1, <1>4
  <2>2. r \in Seq(Nat) /\ Len(r) = Len(q) - 1 /\ \A i \in 1..Len(r) : r[i] = q[i + 1]
    BY <2>1, HeadTailProperties
  <2>3. Remember(q, id) = Append(r, id)
    BY <1>4 DEF Remember
  <2> HIDE DEF r
  <2>4. DOMAIN r = 1..Len(r) /\ DOMAIN q = 1..Len(q)
    BY <2>2, LenProperties
  <2>5. ToSet(r) \subseteq ToSet(q)
    <3>1. \A i \in 1..Len(r) : i + 1 \in 1..Len(q)
      BY <1>1, <2>2
    <3> QED BY <2>2, <2>4, <3>1 DEF ToSet
  <2>6. Different(r)
    <3>1. \A i \in 1..Len(r) : i + 1 \in 1..Len(q) /\ r[i] = q[i + 1]
      BY <1>1, <2>2
    <3>2. \A i, j \in 1..Len(r) : r[i] = r[j] => i + 1 = j + 1
      BY <3>1 DEF Different
    <3> QED BY <3>2 DEF Different
  <2>7. Different(Append(r, id)) /\ id \notin ToSet(r)
    BY <1>2, <2>2, <2>5, <2>6
  <2> QED BY <1>1, <1>4, <2>2, <2>3, <2>5, <2>7, AppendIs
<1> QED BY <1>1, <1>3, <1>4
-----------------------------------------------------------------------------
(* Hops *)

LEMMA WithinIs ==
    /\ \A a \in Nodes : \A k \in Nat : Within(k, a, a)
    /\ \A a, n \in Nodes : \A k, l \in Nat : Within(k, a, n) /\ k <= l => Within(l, a, n)
    /\ \A a, n, m \in Nodes : \A k \in Nat :
          Within(k, a, n) /\ m \in Neighbours(n) => Within(k + 1, a, m)
<1>1. ASSUME NEW a \in Nodes, NEW k \in Nat PROVE Within(k, a, a)
  <2> DEFINE walk == [i \in 0..k |-> a]
  <2>1. walk \in [0..k -> Nodes] /\ walk[0] = a /\ walk[k] = a
        /\ \A i \in 1..k : walk[i] \in Neighbours(walk[i - 1]) \cup {walk[i - 1]}
    OBVIOUS
  <2> QED BY <2>1 DEF Within
<1>2. ASSUME NEW a \in Nodes, NEW n \in Nodes, NEW k \in Nat, NEW l \in Nat,
             Within(k, a, n), k <= l
      PROVE  Within(l, a, n)
  <2>1. PICK walk \in [0..k -> Nodes] :
            /\ walk[0] = a /\ walk[k] = n
            /\ \A i \in 1..k : walk[i] \in Neighbours(walk[i - 1]) \cup {walk[i - 1]}
    BY <1>2 DEF Within
  <2> DEFINE longer == [i \in 0..l |-> IF i <= k THEN walk[i] ELSE n]
  <2>2. /\ longer \in [0..l -> Nodes] /\ longer[0] = a /\ longer[l] = n
        /\ \A i \in 0..k : longer[i] = walk[i]
        /\ \A i \in k..l : longer[i] = n
    BY <1>2, <2>1
  <2> HIDE DEF longer
  <2>3. \A i \in 1..l : longer[i] \in Neighbours(longer[i - 1]) \cup {longer[i - 1]}
    <3> SUFFICES ASSUME NEW i \in 1..l
                 PROVE  longer[i] \in Neighbours(longer[i - 1]) \cup {longer[i - 1]}
      OBVIOUS
    <3>1. CASE i <= k
      <4>1. i \in 1..k /\ longer[i] = walk[i] /\ longer[i - 1] = walk[i - 1]
        BY <2>2, <3>1
      <4> QED BY <2>1, <4>1
    <3>2. CASE i > k
      <4>1. longer[i] = n /\ longer[i - 1] = n
        BY <2>2, <3>2
      <4> QED BY <4>1
    <3> QED BY <3>1, <3>2
  <2> QED BY <2>2, <2>3 DEF Within
<1>3. ASSUME NEW a \in Nodes, NEW n \in Nodes, NEW m \in Nodes, NEW k \in Nat,
             Within(k, a, n), m \in Neighbours(n)
      PROVE  Within(k + 1, a, m)
  <2>1. PICK walk \in [0..k -> Nodes] :
            /\ walk[0] = a /\ walk[k] = n
            /\ \A i \in 1..k : walk[i] \in Neighbours(walk[i - 1]) \cup {walk[i - 1]}
    BY <1>3 DEF Within
  <2> DEFINE longer == [i \in 0..(k + 1) |-> IF i <= k THEN walk[i] ELSE m]
  <2>2. /\ longer \in [0..(k + 1) -> Nodes] /\ longer[0] = a /\ longer[k + 1] = m
        /\ \A i \in 0..k : longer[i] = walk[i]
    BY <1>3, <2>1
  <2> HIDE DEF longer
  <2>3. \A i \in 1..(k + 1) : longer[i] \in Neighbours(longer[i - 1]) \cup {longer[i - 1]}
    <3> SUFFICES ASSUME NEW i \in 1..(k + 1)
                 PROVE  longer[i] \in Neighbours(longer[i - 1]) \cup {longer[i - 1]}
      OBVIOUS
    <3>1. CASE i <= k
      <4>1. i \in 1..k /\ longer[i] = walk[i] /\ longer[i - 1] = walk[i - 1]
        BY <2>2, <3>1
      <4> QED BY <2>1, <4>1
    <3>2. CASE i = k + 1
      <4>1. longer[i] = m /\ longer[i - 1] = n
        BY <2>1, <2>2, <3>2
      <4> QED BY <1>3, <4>1
    <3> QED BY <3>1, <3>2
  <2> QED BY <2>2, <2>3 DEF Within
<1> QED BY <1>1, <1>2, <1>3
-----------------------------------------------------------------------------

(* What is on the way *)

Message == [from : Nodes, box : ToBox, to : Addresses]

\* The types, taken apart.
LEMMA Types ==
    ASSUME MeshInv
    PROVE  /\ msgs \in Seq(Message) /\ Len(msgs) \in Nat
           /\ \A id \in Ids : msgs[id].from \in Nodes /\ msgs[id].to \in Addresses
           /\ \A n \in Nodes :
                 /\ seen[n] \in Seq(Nat) /\ Len(seen[n]) <= SeenMax
                 /\ stored[n] \in Seq(Nat) /\ sent[n] \in Seq(Nat) /\ boots[n] \in Nat
                 /\ buf[n] \in Packets /\ relay[n] \in Packets /\ flag[n] \in BOOLEAN
<1>1. TypeOK
  BY DEF MeshInv
<1>2. msgs \in Seq(Message) /\ Len(msgs) \in Nat
  BY <1>1, LenProperties DEF TypeOK, Message
<1>3. \A id \in Ids : msgs[id].from \in Nodes /\ msgs[id].to \in Addresses
  <2>1. \A id \in Ids : msgs[id] \in Message
    BY <1>2, ElementOfSeq DEF Ids
  <2> QED BY <2>1 DEF Message
<1>4. \A n \in Nodes :
         /\ seen[n] \in Seq(Nat) /\ Len(seen[n]) <= SeenMax
         /\ stored[n] \in Seq(Nat) /\ sent[n] \in Seq(Nat) /\ boots[n] \in Nat
         /\ buf[n] \in Packets /\ relay[n] \in Packets /\ flag[n] \in BOOLEAN
  BY <1>1 DEF TypeOK
<1> QED BY <1>2, <1>3, <1>4

LEMMA NothingIs == Nothing \in Packets /\ Nothing.id = 0 /\ Nothing.ttl = 0
BY MeshAssumption DEF Nothing, Packet, Packets, Addresses

\* A packet that its sender put on the air, or is about to.
Sendable(n, p) == Copy(p) /\ p \in Packets /\ Within(Ttl - p.ttl, msgs[p.id].from, n)

\* Where it is heard.
LEMMA HeardIs ==
    ASSUME MeshInv, NEW n \in Nodes, NEW p, Sendable(n, p), NEW m \in Neighbours(n) \cup {n}
    PROVE  Heard(m, p)
<1>1. /\ Ttl \in Nat /\ p.ttl \in 0..Ttl /\ p.id \in Ids
      /\ Ttl - p.ttl \in Nat /\ Ttl - p.ttl + 1 \in Nat
  BY MeshAssumption DEF Sendable, Packets, Copy
<1>2. msgs[p.id].from \in Nodes /\ m \in Nodes
  BY <1>1, Types DEF Neighbours
<1>3. Within(Ttl - p.ttl + 1, msgs[p.id].from, m)
  BY <1>1, <1>2, WithinIs DEF Sendable
<1> QED BY <1>3 DEF Heard, Sendable

\* What a transmission does.
LEMMA TransmitIs ==
    ASSUME MeshInv, NEW n \in Nodes, NEW p \in Packets, Transmit(n, p)
    PROVE  /\ buf' \in [Nodes -> Packets] /\ flag' \in [Nodes -> BOOLEAN]
           /\ \A m \in Nodes : \/ buf'[m] = buf[m] /\ (flag'[m] => flag[m])
                               \/ buf'[m] = p /\ m \in Neighbours(n) \cup {n}
           /\ sent' \in [Nodes -> Seq(Nat)]
           /\ \A m \in Nodes : sent'[m] = IF m = n THEN Append(sent[n], p.id) ELSE sent[m]
<1>1. /\ buf \in [Nodes -> Packets] /\ flag \in [Nodes -> BOOLEAN]
      /\ sent \in [Nodes -> Seq(Nat)]
  BY DEF MeshInv, TypeOK
<1>2. PICK hears \in SUBSET Neighbours(n) :
          /\ buf' = [m \in Nodes |-> IF m \in hears \cup {n} THEN p ELSE buf[m]]
          /\ flag' = [m \in Nodes |-> m \in hears \cup {n} \/ flag[m]]
  BY DEF Transmit
<1>3. buf' \in [Nodes -> Packets]
  BY <1>1, <1>2
<1>4. flag' \in [Nodes -> BOOLEAN]
  BY <1>1, <1>2
<1>5. \A m \in Nodes : m \notin hears \cup {n} => buf'[m] = buf[m] /\ (flag'[m] => flag[m])
  BY <1>2
<1>6. \A m \in Nodes : m \in hears \cup {n} => buf'[m] = p
  BY <1>2
<1>7. sent' = [sent EXCEPT ![n] = Append(@, p.id)] /\ p.id \in Nat
  BY DEF Transmit, Packets
<1>8. sent' \in [Nodes -> Seq(Nat)]
      /\ \A m \in Nodes : sent'[m] = IF m = n THEN Append(sent[n], p.id) ELSE sent[m]
  BY <1>1, <1>7, AppendIs
<1> QED BY <1>3, <1>4, <1>5, <1>6, <1>8

-----------------------------------------------------------------------------
(* The steps of a board: what is on the way, and who has stored and sent what *)

Plain == TypeOK /\ OnTheWay /\ Rings /\ Addressed /\ Histories

LEMMA InitInv == Init => MeshInv
<1> SUFFICES ASSUME Init PROVE MeshInv
  OBVIOUS
<1> USE DEF Init
<1>1. TypeOK
  BY NothingIs, MeshAssumption DEF TypeOK
<1>2. Ids = {} /\ \A n \in Nodes : ToSet(seen[n]) = {} /\ ToSet(stored[n]) = {} /\ ToSet(sent[n]) = {}
  BY DEF Ids, ToSet
<1>3. OnTheWay /\ Rings /\ Addressed /\ Histories /\ Counted
  BY <1>2 DEF OnTheWay, Rings, Addressed, Histories, Counted, Different
<1> QED BY <1>1, <1>3 DEF MeshInv

\* A message that is new leaves what is known of the others.
LEMMA OriginateIs ==
    ASSUME MeshInv, NEW n \in Nodes, NEW box \in Boxes, Originate(n, box)
    PROVE  LET id == Len(msgs) + 1
               p == Packet(id, Address(box), Ttl)
           IN  /\ id \in Nat /\ id \notin Ids /\ Ids' = Ids \cup {id} /\ Len(msgs') = id
               /\ msgs' \in Seq(Message)
               /\ \A k \in Ids : msgs'[k] = msgs[k]
               /\ msgs'[id].from = n /\ msgs'[id].box = box /\ msgs'[id].to = Address(box)
               /\ p \in Packets /\ p.id = id /\ p.to = Address(box) /\ p.ttl = Ttl
               /\ relay[n] = Nothing
<1> DEFINE id == Len(msgs) + 1
           p == Packet(id, Address(box), Ttl)
           mes == [from |-> n, box |-> box, to |-> Address(box)]
<1>1. msgs \in Seq(Message) /\ Len(msgs) \in Nat
  BY Types
<1>2. Address(box) \in Addresses /\ box \in ToBox
  BY MeshAssumption DEF Address, ToBox, Addresses
<1>3. mes \in Message /\ mes.from = n /\ mes.box = box /\ mes.to = Address(box)
  BY <1>2 DEF Message
<1>4. p \in Packets /\ p.id = id /\ p.to = Address(box) /\ p.ttl = Ttl
  BY <1>1, <1>2, MeshAssumption DEF Packet, Packets
<1>5. msgs' = Append(msgs, mes) /\ relay[n] = Nothing
  BY DEF Originate
<1> HIDE DEF mes, p
<1>6. /\ msgs' \in Seq(Message) /\ Len(msgs') = id /\ msgs'[id] = mes
      /\ \A k \in 1..Len(msgs) : msgs'[k] = msgs[k]
  BY <1>1, <1>3, <1>5, AppendProperties
<1>7. Ids = 1..Len(msgs) /\ Ids' = 1..Len(msgs')
  BY DEF Ids
<1>8. id \in Nat /\ id \notin Ids /\ Ids' = Ids \cup {id}
  BY <1>1, <1>6, <1>7
<1> QED BY <1>3, <1>4, <1>5, <1>6, <1>7, <1>8 DEF p

LEMMA OriginatePlain ==
    ASSUME MeshInv, NEW n \in Nodes, NEW box \in Boxes, Originate(n, box)
    PROVE  Plain'
<1>id. PICK id : id = Len(msgs) + 1
  OBVIOUS
<1>p. PICK p : p = Packet(id, Address(box), Ttl)
  OBVIOUS
<1>1. /\ id \in Nat /\ id \notin Ids /\ Ids' = Ids \cup {id}
      /\ msgs' \in Seq(Message)
      /\ \A k \in Ids : msgs'[k] = msgs[k]
      /\ msgs'[id].from = n /\ msgs'[id].box = box /\ msgs'[id].to = Address(box)
      /\ p \in Packets /\ p.id = id /\ p.to = Address(box) /\ p.ttl = Ttl
      /\ relay[n] = Nothing
  BY <1>id, <1>p, OriginateIs
<1>2. /\ seen' = [seen EXCEPT ![n] = Remember(@, id)] /\ Transmit(n, p)
      /\ UNCHANGED <<relay, stored, boots>>
  BY <1>id, <1>p DEF Originate
<1>3. /\ TypeOK /\ OnTheWay /\ Rings /\ Addressed /\ Histories
      /\ seen \in [Nodes -> Seq(Nat)]
  BY DEF MeshInv, TypeOK
<1>4. /\ buf' \in [Nodes -> Packets] /\ flag' \in [Nodes -> BOOLEAN]
      /\ \A m \in Nodes : \/ buf'[m] = buf[m] /\ (flag'[m] => flag[m])
                          \/ buf'[m] = p /\ m \in Neighbours(n) \cup {n}
      /\ sent' \in [Nodes -> Seq(Nat)]
      /\ \A m \in Nodes : sent'[m] = IF m = n THEN Append(sent[n], p.id) ELSE sent[m]
  BY <1>1, <1>2, TransmitIs
\* The ring of n
<1>5. /\ Remember(seen[n], id) \in Seq(Nat) /\ Len(Remember(seen[n], id)) <= SeenMax
      /\ Different(Remember(seen[n], id))
      /\ ToSet(Remember(seen[n], id)) \subseteq ToSet(seen[n]) \cup {id}
  <2>1. id \notin ToSet(seen[n]) /\ Different(seen[n])
    BY <1>1, <1>3 DEF Rings
  <2> QED BY <1>1, <2>1, RememberIs, Types
<1>6. /\ seen' \in [Nodes -> Seq(Nat)]
      /\ \A m \in Nodes : seen'[m] = IF m = n THEN Remember(seen[n], id) ELSE seen[m]
  BY <1>2, <1>3, <1>5
<1>7. TypeOK'
  <2>1. \A m \in Nodes : Len(seen'[m]) <= SeenMax
    BY <1>5, <1>6, Types
  <2>2. relay' \in [Nodes -> Packets] /\ stored' \in [Nodes -> Seq(Nat)] /\ boots' \in [Nodes -> Nat]
    BY <1>2, <1>3 DEF TypeOK
  <2> QED BY <1>1, <1>4, <1>6, <2>1, <2>2 DEF TypeOK, Message
<1>8. Rings'
  BY <1>1, <1>3, <1>5, <1>6 DEF Rings
<1>9. Addressed'
  BY <1>1, <1>3 DEF Addressed
\* Copies of the other messages stay copies; this one begins with all its hops.
<1>10. \A q : Copy(q) => Copy(q)' /\ msgs'[q.id] = msgs[q.id] /\ q.id # id
  BY <1>1 DEF Copy
<1>11. Copy(p)' /\ msgs'[p.id].from = n
  BY <1>1 DEF Copy
<1>12. \A m \in Neighbours(n) \cup {n} : Within(1, n, m) /\ m \in Nodes
  BY WithinIs DEF Neighbours
<1>13. OnTheWay'
  <2>1. \A m \in Nodes : \A q : Heard(m, q) => Heard(m, q)'
    BY <1>10 DEF Heard
  <2>2. \A m \in Neighbours(n) \cup {n} : Heard(m, p)'
    <3>1. Ttl - p.ttl + 1 = 1
      BY <1>1, MeshAssumption
    <3> QED BY <1>11, <1>12, <3>1 DEF Heard
  <2>3. p # Nothing
    BY <1>id, <1>1, NothingIs, Types
  <2>4. ASSUME NEW m \in Nodes, NEW q, q = buf'[m]
        PROVE  (q = Nothing \/ Heard(m, q)') /\ (flag'[m] => q # Nothing)
    <3>1. CASE q = buf[m] /\ (flag'[m] => flag[m])
      BY <1>3, <2>1, <3>1 DEF OnTheWay
    <3>2. CASE q = p /\ m \in Neighbours(n) \cup {n}
      BY <2>2, <2>3, <3>2
    <3> QED BY <1>4, <2>4, <3>1, <3>2
  <2>5. ASSUME NEW m \in Nodes, NEW q, q = relay'[m]
        PROVE  q = Nothing \/ ToRepeat(m, q)'
    <3> SUFFICES ASSUME q # Nothing PROVE ToRepeat(m, q)'
      OBVIOUS
    <3>1. q = relay[m]
      BY <1>2, <2>5
    <3>2. ToRepeat(m, q) /\ m # n
      BY <1>1, <1>3, <3>1 DEF OnTheWay
    <3>3. seen'[m] = seen[m]
      BY <1>6, <3>2
    <3> QED BY <1>10, <3>2, <3>3 DEF ToRepeat
  <2> QED BY <2>4, <2>5 DEF OnTheWay, Heard, ToRepeat, Copy
<1>14. Histories'
  <2> SUFFICES ASSUME NEW m \in Nodes
               PROVE  /\ ToSet(stored'[m]) \subseteq Ids' /\ ToSet(sent'[m]) \subseteq Ids'
                      /\ \A k \in ToSet(stored'[m]) :
                            msgs'[k].to \in {Everyone, m} /\ Within(Ttl + 1, msgs'[k].from, m)
                      /\ \A k \in ToSet(sent'[m]) : msgs'[k].from = m \/ msgs'[k].to # m
    BY DEF Histories
  <2>1. /\ ToSet(stored[m]) \subseteq Ids /\ ToSet(sent[m]) \subseteq Ids
        /\ \A k \in ToSet(stored[m]) :
              msgs[k].to \in {Everyone, m} /\ Within(Ttl + 1, msgs[k].from, m)
        /\ \A k \in ToSet(sent[m]) : msgs[k].from = m \/ msgs[k].to # m
    BY <1>3 DEF Histories
  <2>2. stored'[m] = stored[m]
    BY <1>2
  <2>3. ToSet(sent'[m]) = ToSet(sent[m]) \cup (IF m = n THEN {id} ELSE {})
    <3>1. sent[n] \in Seq(Nat)
      BY Types
    <3>2. ToSet(Append(sent[n], id)) = ToSet(sent[n]) \cup {id}
      BY <1>1, <3>1, AppendIs
    <3> QED BY <1>1, <1>4, <3>2
  <2> QED BY <1>1, <2>1, <2>2, <2>3
<1> QED BY <1>7, <1>8, <1>9, <1>13, <1>14 DEF Plain

\* Steps that originate nothing.
LEMMA CopiesStay ==
    ASSUME UNCHANGED msgs
    PROVE  /\ Ids' = Ids
           /\ \A q : Copy(q)' <=> Copy(q)
           /\ \A m, q : Heard(m, q)' <=> Heard(m, q)
BY DEF Ids, Copy, Heard

LEMMA RelayPlain ==
    ASSUME MeshInv, NEW n \in Nodes, Relay(n)
    PROVE  Plain'
<1>p. PICK p : p = relay[n]
  OBVIOUS
<1>1. /\ p # Nothing /\ Transmit(n, p) /\ relay' = [relay EXCEPT ![n] = Nothing]
      /\ UNCHANGED <<seen, msgs, stored, boots>>
  BY <1>p DEF Relay
<1>2. /\ TypeOK /\ OnTheWay /\ Rings /\ Addressed /\ Histories
      /\ relay \in [Nodes -> Packets]
  BY DEF MeshInv, TypeOK
<1>3. ToRepeat(n, p) /\ p \in Packets /\ Sendable(n, p)
  BY <1>p, <1>1, <1>2 DEF OnTheWay, ToRepeat, Sendable
<1>4. /\ buf' \in [Nodes -> Packets] /\ flag' \in [Nodes -> BOOLEAN]
      /\ \A m \in Nodes : \/ buf'[m] = buf[m] /\ (flag'[m] => flag[m])
                          \/ buf'[m] = p /\ m \in Neighbours(n) \cup {n}
      /\ sent' \in [Nodes -> Seq(Nat)]
      /\ \A m \in Nodes : sent'[m] = IF m = n THEN Append(sent[n], p.id) ELSE sent[m]
  BY <1>1, <1>3, TransmitIs
<1>5. /\ relay' \in [Nodes -> Packets]
      /\ \A m \in Nodes : relay'[m] = IF m = n THEN Nothing ELSE relay[m]
  BY <1>1, <1>2, NothingIs
<1>6. TypeOK'
  BY <1>1, <1>2, <1>4, <1>5 DEF TypeOK
<1>7. Rings' /\ Addressed'
  BY <1>1, <1>2 DEF Rings, Addressed, Ids
<1>8. OnTheWay'
  <2>1. ASSUME NEW m \in Nodes, NEW q, q = buf'[m]
        PROVE  (q = Nothing \/ Heard(m, q)') /\ (flag'[m] => q # Nothing)
    <3>1. CASE q = buf[m] /\ (flag'[m] => flag[m])
      BY <1>1, <1>2, <3>1, CopiesStay DEF OnTheWay
    <3>2. CASE q = p /\ m \in Neighbours(n) \cup {n}
      BY <1>1, <1>3, <3>2, HeardIs, CopiesStay
    <3> QED BY <1>4, <2>1, <3>1, <3>2
  <2>2. ASSUME NEW m \in Nodes, NEW q, q = relay'[m]
        PROVE  q = Nothing \/ ToRepeat(m, q)'
    BY <1>1, <1>2, <1>5, <2>2, CopiesStay DEF OnTheWay, ToRepeat
  <2> QED BY <2>1, <2>2 DEF OnTheWay, Heard, ToRepeat, Copy
<1>9. Histories'
  <2> SUFFICES ASSUME NEW m \in Nodes
               PROVE  /\ ToSet(stored'[m]) \subseteq Ids' /\ ToSet(sent'[m]) \subseteq Ids'
                      /\ \A k \in ToSet(stored'[m]) :
                            msgs'[k].to \in {Everyone, m} /\ Within(Ttl + 1, msgs'[k].from, m)
                      /\ \A k \in ToSet(sent'[m]) : msgs'[k].from = m \/ msgs'[k].to # m
    BY DEF Histories
  <2>1. /\ ToSet(stored[m]) \subseteq Ids /\ ToSet(sent[m]) \subseteq Ids
        /\ \A k \in ToSet(stored[m]) :
              msgs[k].to \in {Everyone, m} /\ Within(Ttl + 1, msgs[k].from, m)
        /\ \A k \in ToSet(sent[m]) : msgs[k].from = m \/ msgs[k].to # m
    BY <1>2 DEF Histories
  <2>2. stored'[m] = stored[m] /\ msgs' = msgs /\ Ids' = Ids
    BY <1>1, CopiesStay
  <2>3. ToSet(sent'[m]) = ToSet(sent[m]) \cup (IF m = n THEN {p.id} ELSE {})
    <3>1. sent[n] \in Seq(Nat) /\ p.id \in Nat
      BY <1>3, Types DEF Packets
    <3>2. ToSet(Append(sent[n], p.id)) = ToSet(sent[n]) \cup {p.id}
      BY <3>1, AppendIs
    <3> QED BY <1>4, <3>2
  <2>4. p.id \in Ids /\ msgs[p.id].to # n
    BY <1>3 DEF ToRepeat, Copy
  <2> QED BY <2>1, <2>2, <2>3, <2>4
<1> QED BY <1>6, <1>7, <1>8, <1>9 DEF Plain

LEMMA RestartPlain ==
    ASSUME MeshInv, NEW n \in Nodes, Restart(n)
    PROVE  Plain'
<1>1. /\ boots' = [boots EXCEPT ![n] = @ + 1]
      /\ seen' = [seen EXCEPT ![n] = <<>>]
      /\ buf' = [buf EXCEPT ![n] = Nothing]
      /\ flag' = [flag EXCEPT ![n] = FALSE]
      /\ relay' = [relay EXCEPT ![n] = Nothing]
      /\ UNCHANGED <<msgs, stored, sent>>
  BY DEF Restart
<1>2. /\ TypeOK /\ OnTheWay /\ Rings /\ Addressed /\ Histories
  BY DEF MeshInv
<1>3. /\ seen \in [Nodes -> Seq(Nat)] /\ buf \in [Nodes -> Packets]
      /\ relay \in [Nodes -> Packets] /\ flag \in [Nodes -> BOOLEAN] /\ boots \in [Nodes -> Nat]
  BY <1>2 DEF TypeOK
<1>4. /\ seen' \in [Nodes -> Seq(Nat)] /\ buf' \in [Nodes -> Packets]
      /\ relay' \in [Nodes -> Packets] /\ boots' \in [Nodes -> Nat]
  BY <1>1, <1>3, NothingIs
<1>5. flag' \in [Nodes -> BOOLEAN]
  BY <1>1, <1>3
<1>6. \A m \in Nodes :
          IF m = n THEN seen'[m] = <<>> /\ buf'[m] = Nothing /\ relay'[m] = Nothing /\ ~flag'[m]
          ELSE seen'[m] = seen[m] /\ buf'[m] = buf[m] /\ relay'[m] = relay[m] /\ (flag'[m] => flag[m])
  BY <1>1, <1>3
<1>7. TypeOK'
  <2>1. \A m \in Nodes : Len(seen'[m]) <= SeenMax
    BY <1>2, <1>6, MeshAssumption DEF TypeOK
  <2> QED BY <1>1, <1>2, <1>4, <1>5, <2>1 DEF TypeOK
<1>8. Rings'
  <2>1. ToSet(<<>>) = {} /\ Different(<<>>)
    BY DEF ToSet, Different
  <2> QED BY <1>1, <1>2, <1>6, <2>1, CopiesStay DEF Rings
<1>9. OnTheWay'
  <2>1. ASSUME NEW m \in Nodes, NEW q, q = buf'[m]
        PROVE  (q = Nothing \/ Heard(m, q)') /\ (flag'[m] => q # Nothing)
    BY <1>1, <1>2, <1>6, <2>1, CopiesStay DEF OnTheWay
  <2>2. ASSUME NEW m \in Nodes, NEW q, q = relay'[m]
        PROVE  q = Nothing \/ ToRepeat(m, q)'
    BY <1>1, <1>2, <1>6, <2>2, CopiesStay DEF OnTheWay, ToRepeat
  <2> QED BY <2>1, <2>2 DEF OnTheWay, Heard, ToRepeat, Copy
<1>10. Addressed' /\ Histories'
  BY <1>1, <1>2 DEF Addressed, Histories, Ids
<1> QED BY <1>7, <1>8, <1>9, <1>10 DEF Plain

LEMMA ReceivePlain ==
    ASSUME MeshInv, NEW n \in Nodes, Receive(n)
    PROVE  Plain'
<1>p. PICK p : p = buf[n]
  OBVIOUS
<1>1. /\ flag[n] /\ relay[n] = Nothing /\ flag' = [flag EXCEPT ![n] = FALSE]
      /\ UNCHANGED <<buf, msgs, sent, boots>>
  BY DEF Receive, FlagRead
<1>2. /\ TypeOK /\ OnTheWay /\ Rings /\ Addressed /\ Histories
      /\ seen \in [Nodes -> Seq(Nat)] /\ stored \in [Nodes -> Seq(Nat)]
      /\ relay \in [Nodes -> Packets] /\ flag \in [Nodes -> BOOLEAN]
  BY DEF MeshInv, TypeOK
<1>3. p # Nothing /\ Heard(n, p) /\ p \in Packets /\ p.id \in Ids /\ p.id \in Nat
  BY <1>p, <1>1, <1>2, Types DEF OnTheWay, Heard, Copy, Packets
<1>4. flag' \in [Nodes -> BOOLEAN] /\ \A m \in Nodes : flag'[m] => flag[m]
  BY <1>1, <1>2
<1>5. Addressed'
  BY <1>1, <1>2 DEF Addressed, Ids
<1>6. CASE p.id \in ToSet(seen[n])
  <2>1. UNCHANGED <<seen, stored, relay>>
    BY <1>p, <1>6 DEF Receive
  <2>2. TypeOK' /\ Rings' /\ Histories'
    BY <1>1, <1>2, <1>4, <2>1 DEF TypeOK, Rings, Histories, Ids
  <2>3. OnTheWay'
    BY <1>1, <1>2, <1>4, <2>1 DEF OnTheWay, Heard, ToRepeat, Copy, Ids
  <2> QED BY <1>5, <2>2, <2>3 DEF Plain
<1>7. CASE p.id \notin ToSet(seen[n])
  <2>1. /\ seen' = [seen EXCEPT ![n] = Remember(@, p.id)]
        /\ stored' = IF ForMe(n, p) THEN [stored EXCEPT ![n] = Append(@, p.id)] ELSE stored
        /\ relay' = IF Relays(n, p) THEN [relay EXCEPT ![n] = OneHopLess(p)] ELSE relay
    BY <1>p, <1>7 DEF Receive
  <2>2. /\ Remember(seen[n], p.id) \in Seq(Nat) /\ Len(Remember(seen[n], p.id)) <= SeenMax
        /\ Different(Remember(seen[n], p.id))
        /\ ToSet(Remember(seen[n], p.id)) \subseteq ToSet(seen[n]) \cup {p.id}
        /\ p.id \in ToSet(Remember(seen[n], p.id))
    BY <1>2, <1>3, <1>7, RememberIs, Types DEF Rings
  <2>3. /\ seen' \in [Nodes -> Seq(Nat)]
        /\ \A m \in Nodes : seen'[m] = IF m = n THEN Remember(seen[n], p.id) ELSE seen[m]
    BY <1>2, <2>1, <2>2
  <2>4. /\ stored[n] \in Seq(Nat) /\ Append(stored[n], p.id) \in Seq(Nat)
        /\ ToSet(Append(stored[n], p.id)) = ToSet(stored[n]) \cup {p.id}
    <3>1. stored[n] \in Seq(Nat)
      BY <1>2
    <3> QED BY <1>3, <3>1, AppendIs
  <2>5. /\ stored' \in [Nodes -> Seq(Nat)]
        /\ \A m \in Nodes : stored'[m] = IF m = n /\ ForMe(n, p) THEN Append(stored[n], p.id) ELSE stored[m]
    BY <1>2, <2>1, <2>4
  \* What n will repeat has one hop less, or nothing is repeated.
  <2>6. Relays(n, p) => /\ OneHopLess(p) \in Packets /\ OneHopLess(p).id = p.id
                        /\ OneHopLess(p).to = p.to /\ OneHopLess(p).to # n
                        /\ p.ttl \in Nat /\ p.ttl > 0 /\ OneHopLess(p).ttl = p.ttl - 1
    <3> SUFFICES ASSUME Relays(n, p)
                 PROVE  /\ OneHopLess(p) \in Packets /\ OneHopLess(p).id = p.id
                        /\ OneHopLess(p).to = p.to /\ OneHopLess(p).to # n
                        /\ p.ttl \in Nat /\ p.ttl > 0 /\ OneHopLess(p).ttl = p.ttl - 1
      OBVIOUS
    <3>1. p.ttl \in 0..Ttl /\ p.ttl > 0 /\ p.to # n /\ Ttl \in Nat
      BY <1>3, MeshAssumption DEF Relays, Packets
    <3>2. p.ttl - 1 \in 0..Ttl /\ p.ttl \in Nat
      BY <3>1
    <3>3. OneHopLess(p) = [p EXCEPT !.ttl = p.ttl - 1]
      BY <3>1 DEF OneHopLess
    <3>4. ASSUME NEW t \in 0..Ttl
          PROVE  LET g == [p EXCEPT !.ttl = t]
                 IN  g \in Packets /\ g.id = p.id /\ g.to = p.to /\ g.ttl = t
      BY <1>3 DEF Packets
    <3> QED BY <3>1, <3>2, <3>3, <3>4
  <2>7. /\ relay' \in [Nodes -> Packets]
        /\ \A m \in Nodes : relay'[m] = IF m = n /\ Relays(n, p) THEN OneHopLess(p) ELSE relay[m]
    BY <1>2, <2>1, <2>6
  <2>8. TypeOK'
    <3>1. \A m \in Nodes : Len(seen'[m]) <= SeenMax
      BY <2>2, <2>3, Types
    <3> QED BY <1>1, <1>2, <1>4, <2>3, <2>5, <2>7, <3>1 DEF TypeOK
  <2>9. Rings'
    <3>1. ToSet(seen[n]) \cup {p.id} \subseteq Ids
      BY <1>2, <1>3 DEF Rings
    <3>2. Ids' = Ids
      BY <1>1, CopiesStay
    <3> QED BY <1>2, <2>2, <2>3, <3>1, <3>2 DEF Rings
  <2>10. OnTheWay'
    <3>1. ASSUME NEW m \in Nodes, NEW q, q = buf'[m]
          PROVE  (q = Nothing \/ Heard(m, q)') /\ (flag'[m] => q # Nothing)
      BY <1>1, <1>2, <1>4, <3>1, CopiesStay DEF OnTheWay
    <3>2. ASSUME NEW m \in Nodes, NEW q, q = relay'[m]
          PROVE  q = Nothing \/ ToRepeat(m, q)'
      <4>1. CASE m = n /\ Relays(n, p)
        <5>1. q = OneHopLess(p)
          BY <2>7, <3>2, <4>1
        <5>2. Copy(q)' /\ q.id = p.id
          BY <1>1, <1>3, <2>6, <4>1, <5>1, CopiesStay DEF Copy, Heard
        <5>3. Ttl - q.ttl = Ttl - p.ttl + 1
          BY <2>6, <4>1, <5>1, MeshAssumption
        <5>4. Within(Ttl - q.ttl, msgs'[q.id].from, n)
          BY <1>1, <1>3, <5>2, <5>3 DEF Heard
        <5>5. q.to # n /\ q.id \in ToSet(seen'[n])
          BY <2>2, <2>3, <2>6, <4>1, <5>1, <5>2
        <5> QED BY <4>1, <5>2, <5>4, <5>5 DEF ToRepeat
      <4>2. CASE ~(m = n /\ Relays(n, p))
        <5>1. q = relay[m]
          BY <2>7, <3>2, <4>2
        <5>2. CASE m = n
          BY <1>1, <5>1, <5>2
        <5>3. CASE m # n
          BY <1>1, <1>2, <2>3, <5>1, <5>3, CopiesStay DEF OnTheWay, ToRepeat
        <5> QED BY <5>2, <5>3
      <4> QED BY <4>1, <4>2
    <3> QED BY <3>1, <3>2 DEF OnTheWay, Heard, ToRepeat, Copy
  <2>11. Histories'
    <3> SUFFICES ASSUME NEW m \in Nodes
                 PROVE  /\ ToSet(stored'[m]) \subseteq Ids' /\ ToSet(sent'[m]) \subseteq Ids'
                        /\ \A k \in ToSet(stored'[m]) :
                              msgs'[k].to \in {Everyone, m} /\ Within(Ttl + 1, msgs'[k].from, m)
                        /\ \A k \in ToSet(sent'[m]) : msgs'[k].from = m \/ msgs'[k].to # m
      BY DEF Histories
    <3>1. /\ ToSet(stored[m]) \subseteq Ids /\ ToSet(sent[m]) \subseteq Ids
          /\ \A k \in ToSet(stored[m]) :
                msgs[k].to \in {Everyone, m} /\ Within(Ttl + 1, msgs[k].from, m)
          /\ \A k \in ToSet(sent[m]) : msgs[k].from = m \/ msgs[k].to # m
      BY <1>2 DEF Histories
    <3>2. sent'[m] = sent[m] /\ msgs' = msgs /\ Ids' = Ids
      BY <1>1, CopiesStay
    <3>3. CASE m = n /\ ForMe(n, p)
      <4>1. ToSet(stored'[m]) = ToSet(stored[m]) \cup {p.id}
        BY <2>4, <2>5, <3>3
      <4>2. msgs[p.id].to \in {Everyone, m}
        BY <1>3, <3>3 DEF ForMe, Heard, Copy
      <4>3. Within(Ttl + 1, msgs[p.id].from, m)
        <5>1. p.ttl \in 0..Ttl /\ Ttl \in Nat /\ Ttl - p.ttl + 1 \in Nat /\ Ttl - p.ttl + 1 <= Ttl + 1
          BY <1>3, MeshAssumption DEF Packets
        <5>2. msgs[p.id].from \in Nodes /\ Within(Ttl - p.ttl + 1, msgs[p.id].from, m)
          BY <1>3, <3>3, Types DEF Heard
        <5>3. Ttl + 1 \in Nat
          BY <5>1
        <5> QED BY <5>1, <5>2, <5>3, WithinIs
      <4> QED BY <1>3, <3>1, <3>2, <4>1, <4>2, <4>3
    <3>4. CASE ~(m = n /\ ForMe(n, p))
      <4>1. stored'[m] = stored[m]
        BY <2>5, <3>4
      <4> QED BY <3>1, <3>2, <4>1
    <3> QED BY <3>3, <3>4
  <2> QED BY <1>5, <2>8, <2>9, <2>10, <2>11 DEF Plain
<1> QED BY <1>6, <1>7

-----------------------------------------------------------------------------
(* The steps of a board: how often *)

LEMMA CountsAre ==
    ASSUME MeshInv, NEW m \in Nodes, NEW k
    PROVE  Times(stored[m], k) \in Nat /\ Times(sent[m], k) \in Nat /\ boots[m] \in Nat
<1>1. stored[m] \in Seq(Nat) /\ sent[m] \in Seq(Nat) /\ boots[m] \in Nat
  BY Types
<1> QED BY <1>1, TimesIs

\* A board remembers every message as long as there are no more than its ring holds.
LEMMA NothingForgotten ==
    ASSUME MeshInv, NEW n \in Nodes, NEW max \in Nat, max <= SeenMax, Len(msgs) <= max,
           NEW id \in 1..max, id \notin ToSet(seen[n])
    PROVE  ToSet(Remember(seen[n], id)) = ToSet(seen[n]) \cup {id}
<1>1. seen[n] \in Seq(Nat) /\ Len(seen[n]) <= SeenMax /\ Len(msgs) \in Nat
  BY Types
<1>2. Different(seen[n]) /\ ToSet(seen[n]) \subseteq 1..max
  <2>1. Rings
    BY DEF MeshInv
  <2>2. 1..Len(msgs) \subseteq 1..max
    BY <1>1
  <2> QED BY <2>1, <2>2 DEF Rings, Ids
<1>3. Len(seen[n]) < max
  BY <1>1, <1>2, RingHasRoom
<1>4. Len(seen[n]) < SeenMax
  BY <1>1, <1>3, MeshAssumption, LenProperties
<1> QED BY <1>1, <1>2, <1>4, RememberIs

LEMMA OriginateCounted ==
    ASSUME MeshInv, NEW n \in Nodes, NEW box \in Boxes, Originate(n, box), Len(msgs') <= SeenMax,
           NEW m \in Nodes, NEW k \in Ids'
    PROVE  CountedFor(m, k)'
<1>id. PICK id : id = Len(msgs) + 1
  OBVIOUS
<1>p. PICK p : p = Packet(id, Address(box), Ttl)
  OBVIOUS
<1>1. /\ id \in Nat /\ id \notin Ids /\ Ids' = Ids \cup {id} /\ Len(msgs') = id
      /\ \A j \in Ids : msgs'[j] = msgs[j]
      /\ msgs'[id].from = n
      /\ p \in Packets /\ p.id = id /\ relay[n] = Nothing
  BY <1>id, <1>p, OriginateIs
<1>2. /\ seen' = [seen EXCEPT ![n] = Remember(@, id)] /\ Transmit(n, p)
      /\ UNCHANGED <<relay, stored, boots>>
  BY <1>id, <1>p DEF Originate
<1>3. /\ seen \in [Nodes -> Seq(Nat)] /\ Len(msgs) \in Nat /\ Len(msgs) <= SeenMax /\ Counted
      /\ id >= 1 /\ id \in 1..id
  <2>1. seen \in [Nodes -> Seq(Nat)] /\ Len(msgs) \in Nat /\ Counted
    BY Types DEF MeshInv, TypeOK
  <2>2. SeenMax \in Nat
    BY MeshAssumption
  <2>3. id >= 1 /\ id \in 1..id
    BY <1>id, <2>1
  <2>4. Len(msgs) <= SeenMax
    BY <1>id, <1>1, <2>1, <2>2
  <2> QED BY <2>1, <2>3, <2>4
<1>4. /\ id \notin ToSet(seen[m]) /\ id \notin ToSet(stored[m]) /\ id \notin ToSet(sent[m])
      /\ id \notin ToSet(seen[n])
  BY <1>1 DEF MeshInv, Rings, Histories
<1>5. ToSet(seen'[m]) = IF m = n THEN ToSet(seen[m]) \cup {id} ELSE ToSet(seen[m])
  <2>1. ToSet(Remember(seen[n], id)) = ToSet(seen[n]) \cup {id}
    <3>1. id \in Nat /\ id <= SeenMax /\ Len(msgs) <= id
      <4>1. Len(msgs) \in Nat /\ SeenMax \in Nat /\ Len(msgs') <= SeenMax
        BY <1>3, MeshAssumption
      <4> QED BY <1>id, <1>1, <4>1
    <3> QED BY <1>3, <1>4, <3>1, NothingForgotten
  <2>2. seen'[m] = IF m = n THEN Remember(seen[n], id) ELSE seen[m]
    BY <1>2, <1>3
  <2> QED BY <2>1, <2>2
<1>6. sent'[m] = IF m = n THEN Append(sent[m], id) ELSE sent[m]
  BY <1>1, <1>2, TransmitIs
<1>7. Times(sent'[m], k) = Times(sent[m], k) + One(m = n /\ k = id)
  <2>1. sent[m] \in Seq(Nat) /\ Times(sent[m], k) \in Nat
    BY Types, CountsAre
  <2>2. Times(Append(sent[m], id), k) = Times(sent[m], k) + One(id = k)
    BY <1>1, <2>1, TimesIs
  <2> QED BY <1>6, <2>1, <2>2 DEF One
<1>8. stored'[m] = stored[m] /\ relay'[m] = relay[m] /\ boots'[m] = boots[m]
  BY <1>2
<1>9. Times(stored[m], k) \in Nat /\ Times(sent[m], k) \in Nat /\ boots[m] \in Nat
  BY CountsAre
<1>10. CASE k = id
  <2>1. Times(stored[m], k) = 0 /\ Times(sent[m], k) = 0
    BY <1>4, <1>10, Types, TimesIs
  <2>2. m = n => relay'[m].id # k
    BY <1>1, <1>3, <1>8, <1>10, NothingIs
  <2> QED BY <1>1, <1>4, <1>5, <1>7, <1>8, <1>9, <1>10, <2>1, <2>2 DEF CountedFor, One
<1>11. CASE k \in Ids
  <2>1. CountedFor(m, k) /\ k # id /\ msgs'[k] = msgs[k]
    BY <1>1, <1>3, <1>11 DEF Counted
  <2>2. k \in ToSet(seen'[m]) <=> k \in ToSet(seen[m])
    BY <1>5, <2>1
  <2> QED BY <1>7, <1>8, <1>9, <2>1, <2>2 DEF CountedFor, One
<1> QED BY <1>1, <1>10, <1>11

LEMMA RelayCounted ==
    ASSUME MeshInv, NEW n \in Nodes, Relay(n), Len(msgs') <= SeenMax, NEW m \in Nodes, NEW k \in Ids'
    PROVE  CountedFor(m, k)'
<1>p. PICK p : p = relay[n]
  OBVIOUS
<1>1. /\ p # Nothing /\ Transmit(n, p) /\ relay' = [relay EXCEPT ![n] = Nothing]
      /\ UNCHANGED <<seen, msgs, stored, boots>>
  BY <1>p DEF Relay
<1>2. relay \in [Nodes -> Packets] /\ ToRepeat(n, p) /\ p \in Packets /\ p.id \in Nat
  BY <1>p, <1>1 DEF MeshInv, TypeOK, OnTheWay, Packets
<1>3. k \in Ids /\ CountedFor(m, k) /\ k # 0
  BY <1>1, CopiesStay DEF MeshInv, Counted, Ids
<1>4. sent'[m] = IF m = n THEN Append(sent[m], p.id) ELSE sent[m]
  BY <1>1, <1>2, TransmitIs
<1>5. Times(sent'[m], k) = Times(sent[m], k) + One(m = n /\ k = p.id)
  <2>1. sent[m] \in Seq(Nat) /\ Times(sent[m], k) \in Nat
    BY Types, CountsAre
  <2>2. Times(Append(sent[m], p.id), k) = Times(sent[m], k) + One(p.id = k)
    BY <1>2, <2>1, TimesIs
  <2> QED BY <1>4, <2>1, <2>2 DEF One
<1>6. relay'[m] = IF m = n THEN Nothing ELSE relay[m]
  BY <1>1, <1>2
<1>7. Times(stored[m], k) \in Nat /\ Times(sent[m], k) \in Nat /\ boots[m] \in Nat
  BY CountsAre
<1>8. m = n => relay[m] = p /\ p.id \in ToSet(seen[m])
  BY <1>p, <1>2 DEF ToRepeat
<1>9. seen'[m] = seen[m] /\ stored'[m] = stored[m] /\ boots'[m] = boots[m] /\ msgs' = msgs
  BY <1>1
<1> QED BY <1>3, <1>5, <1>6, <1>7, <1>8, <1>9, NothingIs DEF CountedFor, One

LEMMA RestartCounted ==
    ASSUME MeshInv, NEW n \in Nodes, Restart(n), Len(msgs') <= SeenMax, NEW m \in Nodes, NEW k \in Ids'
    PROVE  CountedFor(m, k)'
<1>1. /\ boots' = [boots EXCEPT ![n] = @ + 1]
      /\ seen' = [seen EXCEPT ![n] = <<>>]
      /\ relay' = [relay EXCEPT ![n] = Nothing]
      /\ UNCHANGED <<msgs, stored, sent>>
  BY DEF Restart
<1>2. /\ boots \in [Nodes -> Nat] /\ seen \in [Nodes -> Seq(Nat)] /\ relay \in [Nodes -> Packets]
  BY DEF MeshInv, TypeOK
<1>3. k \in Ids /\ CountedFor(m, k)
  BY <1>1, CopiesStay DEF MeshInv, Counted, Ids
<1>4. Times(stored[m], k) \in Nat /\ Times(sent[m], k) \in Nat /\ boots[m] \in Nat
  BY CountsAre
<1>5. CASE m = n
  <2>1. boots'[m] = boots[m] + 1 /\ boots'[m] # 0 /\ boots'[m] \in Nat
    BY <1>1, <1>2, <1>4, <1>5
  <2>2. Times(stored[m], k) <= boots'[m] /\ Times(sent[m], k) <= boots'[m]
    BY <1>3, <1>4, <2>1 DEF CountedFor, One
  <2> QED BY <1>1, <1>4, <2>1, <2>2 DEF CountedFor, One
<1>6. CASE m # n
  <2>1. boots'[m] = boots[m] /\ seen'[m] = seen[m] /\ relay'[m] = relay[m]
    BY <1>1, <1>2, <1>6
  <2> QED BY <1>1, <1>3, <2>1 DEF CountedFor
<1> QED BY <1>5, <1>6

LEMMA ReceiveCounted ==
    ASSUME MeshInv, NEW n \in Nodes, Receive(n), Len(msgs') <= SeenMax, NEW m \in Nodes, NEW k \in Ids'
    PROVE  CountedFor(m, k)'
<1>p. PICK p : p = buf[n]
  OBVIOUS
<1>1. flag[n] /\ relay[n] = Nothing /\ UNCHANGED <<buf, msgs, sent, boots>>
  BY DEF Receive
<1>2. /\ seen \in [Nodes -> Seq(Nat)] /\ stored \in [Nodes -> Seq(Nat)]
      /\ relay \in [Nodes -> Packets] /\ p \in Packets /\ p.id \in Ids /\ p.id \in Nat
  BY <1>p, <1>1, Types DEF MeshInv, TypeOK, OnTheWay, Heard, Copy, Packets
<1>3. k \in Ids /\ CountedFor(m, k) /\ k # 0 /\ Len(msgs) <= SeenMax
  BY <1>1, CopiesStay DEF MeshInv, Counted, Ids
<1>4. Times(stored[m], k) \in Nat /\ Times(sent[m], k) \in Nat /\ boots[m] \in Nat
  BY CountsAre
<1>5. CASE p.id \in ToSet(seen[n])
  <2>1. UNCHANGED <<seen, stored, relay>>
    BY <1>p, <1>5 DEF Receive
  <2> QED BY <1>1, <1>3, <2>1 DEF CountedFor
<1>6. CASE p.id \notin ToSet(seen[n])
  <2>1. /\ seen' = [seen EXCEPT ![n] = Remember(@, p.id)]
        /\ stored' = IF ForMe(n, p) THEN [stored EXCEPT ![n] = Append(@, p.id)] ELSE stored
        /\ relay' = IF Relays(n, p) THEN [relay EXCEPT ![n] = OneHopLess(p)] ELSE relay
    BY <1>p, <1>6 DEF Receive
  <2>2. CASE m # n
    <3>1. seen'[m] = seen[m] /\ stored'[m] = stored[m] /\ relay'[m] = relay[m]
      BY <1>2, <2>1, <2>2
    <3> QED BY <1>1, <1>3, <3>1 DEF CountedFor
  <2>3. CASE m = n
    <3>1. ToSet(seen'[m]) = ToSet(seen[m]) \cup {p.id}
      <4> DEFINE max == Len(msgs)
      <4>m. max \in Nat /\ max <= SeenMax /\ p.id \in 1..max /\ p.id \notin ToSet(seen[n])
        BY <1>2, <1>3, <1>6, Types DEF Ids
      <4>1. ToSet(Remember(seen[n], p.id)) = ToSet(seen[n]) \cup {p.id}
        BY <4>m, NothingForgotten
      <4> QED BY <1>2, <2>1, <2>3, <4>1
    <3>2. stored'[m] = Append(stored[m], p.id) \/ stored'[m] = stored[m]
      BY <1>2, <2>1, <2>3
    <3>3. /\ Times(stored'[m], k) <= Times(stored[m], k) + One(k = p.id)
          /\ Times(stored'[m], k) \in Nat
          /\ k # p.id => (k \in ToSet(stored'[m]) <=> k \in ToSet(stored[m]))
      <4>1. stored[m] \in Seq(Nat) /\ p.id \in Nat
        BY <1>2
      <4>2. Times(Append(stored[m], p.id), k) = Times(stored[m], k) + One(p.id = k)
        BY <4>1, TimesIs
      <4>3. \A q \in Seq(Nat) : \A x \in Nat : ToSet(Append(q, x)) = ToSet(q) \cup {x}
        BY AppendIs
      <4>4. ToSet(Append(stored[m], p.id)) = ToSet(stored[m]) \cup {p.id}
        BY <4>1, <4>3
      <4>5. CASE stored'[m] = stored[m]
        BY <1>4, <4>5 DEF One
      <4>6. CASE stored'[m] = Append(stored[m], p.id)
        <5>1. Times(stored'[m], k) = Times(stored[m], k) + One(k = p.id)
          <6>1. One(p.id = k) = One(k = p.id)
            BY DEF One
          <6> QED BY <4>2, <4>6, <6>1
        <5>2. One(k = p.id) \in Nat
          BY DEF One
        <5>3. k # p.id => (k \in ToSet(stored'[m]) <=> k \in ToSet(stored[m]))
          BY <4>4, <4>6
        <5> QED BY <1>4, <5>1, <5>2, <5>3
      <4> QED BY <3>2, <4>5, <4>6
    <3>4. relay'[m].id \in {0, p.id} /\ relay[m].id = 0
      <4>1. OneHopLess(p).id = p.id
        BY <1>2 DEF OneHopLess, Packets
      <4>2. relay'[m] = OneHopLess(p) \/ relay'[m] = relay[m]
        BY <1>2, <2>1, <2>3
      <4> QED BY <1>1, <2>3, <4>1, <4>2, NothingIs
    <3>5. CASE k = p.id
      <4>1. k \notin ToSet(seen[m]) /\ k \in ToSet(seen'[m])
        BY <1>6, <2>3, <3>1, <3>5
      <4> QED BY <1>1, <1>3, <1>4, <3>3, <3>5, <4>1 DEF CountedFor, One
    <3>6. CASE k # p.id
      <4>1. k \in ToSet(seen'[m]) <=> k \in ToSet(seen[m])
        BY <3>1, <3>6
      <4>2. relay'[m].id # k /\ relay[m].id # k
        BY <1>3, <3>4, <3>6
      <4> QED BY <1>1, <1>3, <1>4, <3>3, <3>6, <4>1, <4>2 DEF CountedFor, One
    <3> QED BY <3>5, <3>6
  <2> QED BY <2>2, <2>3
<1> QED BY <1>5, <1>6
-----------------------------------------------------------------------------
(* The theorems *)

LEMMA MeshStep == MeshInv /\ [Next]_vars => MeshInv'
<1> SUFFICES ASSUME MeshInv, [Next]_vars PROVE MeshInv'
  OBVIOUS
<1>1. ASSUME NEW n \in Nodes, NEW box \in Boxes, Originate(n, box) PROVE MeshInv'
  BY <1>1, OriginatePlain, OriginateCounted DEF MeshInv, Plain, Counted
<1>2. ASSUME NEW n \in Nodes, Receive(n) PROVE MeshInv'
  BY <1>2, ReceivePlain, ReceiveCounted DEF MeshInv, Plain, Counted
<1>3. ASSUME NEW n \in Nodes, Relay(n) PROVE MeshInv'
  BY <1>3, RelayPlain, RelayCounted DEF MeshInv, Plain, Counted
<1>4. ASSUME NEW n \in Nodes, Restart(n) PROVE MeshInv'
  BY <1>4, RestartPlain, RestartCounted DEF MeshInv, Plain, Counted
<1>5. CASE UNCHANGED vars
  <2>1. TypeOK'
    BY <1>5 DEF vars, MeshInv, TypeOK
  <2>2. OnTheWay'
    BY <1>5 DEF vars, MeshInv, OnTheWay, Heard, ToRepeat, Copy, Ids
  <2>3. Rings' /\ Addressed' /\ Histories'
    BY <1>5 DEF vars, MeshInv, Rings, Addressed, Histories, Ids
  <2>4. Counted'
    BY <1>5 DEF vars, MeshInv, Counted, CountedFor, Ids
  <2> QED BY <2>1, <2>2, <2>3, <2>4 DEF MeshInv
<1> QED BY <1>1, <1>2, <1>3, <1>4, <1>5 DEF Next

(* The invariant of the flood: every packet in a radio is a copy of a message *)
(* that has lost a hop for every board on its way, and a board's ring holds   *)
(* what it stored and sent since it started (markSeen, handleReceivedPacket). *)
THEOREM MeshInvariant == Spec => []MeshInv
<1>1. Init => MeshInv
  BY InitInv
<1>2. MeshInv /\ [Next]_vars => MeshInv'
  BY MeshStep
<1> QED BY <1>1, <1>2, PTL DEF Spec

(* A message is stored only by boards it is for and within its reach, and not *)
(* by its writer while the writer remembers it, whatever the links, the       *)
(* losses and the restarts (handleReceivedPacket, strtoul of the "To" box).   *)
THEOREM OnlyTheRightBoards == Spec => []RightBoards
<1>1. MeshInv => RightBoards
  <2> SUFFICES ASSUME MeshInv PROVE RightBoards
    OBVIOUS
  <2>1. Addressed /\ Histories /\ Counted
    BY DEF MeshInv
  <2>2. OwnNeverStored
    BY <2>1 DEF OwnNeverStored, Counted, CountedFor
  <2>3. OnlyAddressee
    <3> SUFFICES ASSUME NEW n \in Nodes, NEW id \in Ids, id \in ToSet(stored[n]),
                        msgs[id].box \in Nodes \ {n}
                 PROVE  FALSE
      BY DEF OnlyAddressee
    <3>1. msgs[id].to = msgs[id].box
      <4>1. \A b \in Nodes : Address(b) = b
        BY MeshAssumption DEF Address
      <4> QED BY <2>1, <4>1 DEF Addressed
    <3>2. msgs[id].to \in {Everyone, n}
      BY <2>1 DEF Histories
    <3> QED BY <3>1, <3>2, MeshAssumption
  <2>4. HopsBounded
    BY <2>1 DEF HopsBounded, Histories
  <2> QED BY <2>2, <2>3, <2>4 DEF RightBoards
<1> QED BY <1>1, MeshInvariant, PTL

(* As long as the ring has a place for every message, a board stores each at  *)
(* most once per boot, in whatever order its copies arrive (seen, markSeen).  *)
THEOREM StoredAtMostOnce == Spec => []AtMostOnce
<1>1. MeshInv => AtMostOnce
  <2> SUFFICES ASSUME MeshInv, Len(msgs) <= SeenMax, NEW n \in Nodes, NEW id \in Ids
               PROVE  Times(stored[n], id) <= boots[n] + 1
    BY DEF AtMostOnce
  <2>1. CountedFor(n, id)
    BY DEF MeshInv, Counted
  <2> QED BY <2>1, CountsAre DEF CountedFor, One
<1> QED BY <1>1, MeshInvariant, PTL

(* A board puts a message on the air at most once per boot, and never one     *)
(* that is addressed to it (handleReceivedPacket: dst != MY_ID).              *)
THEOREM FloodIsBounded == Spec => []FloodBounded
<1>1. MeshInv => FloodBounded
  <2> SUFFICES ASSUME MeshInv, Len(msgs) <= SeenMax, NEW n \in Nodes, NEW id \in Ids
               PROVE  /\ Times(sent[n], id) <= boots[n] + 1
                      /\ msgs[id].to = n /\ msgs[id].from # n => Times(sent[n], id) = 0
    BY DEF FloodBounded
  <2>1. CountedFor(n, id) /\ Histories /\ sent[n] \in Seq(Nat)
    BY Types DEF MeshInv, Counted
  <2>2. Times(sent[n], id) <= boots[n] + 1
    <3>1. Times(sent[n], id) \in Nat /\ boots[n] \in Nat
      BY CountsAre
    <3>2. \A b \in BOOLEAN : One(b) \in 0..1
      BY DEF One
    <3>3. One(id \in ToSet(seen[n]) /\ relay[n].id # id) \in 0..1
      BY <3>2
    <3>4. Times(sent[n], id) <= boots[n] + One(id \in ToSet(seen[n]) /\ relay[n].id # id)
      BY <2>1 DEF CountedFor
    <3> QED BY <3>1, <3>3, <3>4
  <2>3. msgs[id].to = n /\ msgs[id].from # n => id \notin ToSet(sent[n])
    BY <2>1 DEF Histories
  <2>4. id \notin ToSet(sent[n]) => Times(sent[n], id) = 0
    <3>1. 0 \in Nat
      OBVIOUS
    <3> QED BY <2>1, <3>1, TimesIs
  <2> QED BY <2>2, <2>3, <2>4
<1> QED BY <1>1, MeshInvariant, PTL

=============================================================================
