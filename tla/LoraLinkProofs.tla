--------------------------- MODULE LoraLinkProofs ---------------------------
(***************************************************************************)
(* Proofs about LoraLink for every value of its constants: the type        *)
(* invariant; that an acknowledgement only ever covers messages that the   *)
(* hub has logged (AckCoversItsDump); that the flag in RAM tells whether   *)
(* the file holds anything (FlagTracksFile); that requests go on the air   *)
(* in order (SendsInOrder); and that the link implements Mailbox.          *)
(***************************************************************************)
EXTENDS LoraLink, SequenceTheorems, TLAPS

-----------------------------------------------------------------------------
(* The elements of the sequences the wire and the file are cut into *)

(* Dropping the first element of a sequence adds no element (loop() of the
   board and rx_task of the hub consuming the wire). *)
LEMMA TailSet ==
    ASSUME NEW S, NEW s \in Seq(S), s # <<>>
    PROVE  /\ Tail(s) \in Seq(S)
           /\ ToSet(Tail(s)) \subseteq ToSet(s)
           /\ Head(s) \in S /\ Head(s) \in ToSet(s)
BY DEF ToSet

(* Appending adds exactly the appended element (a token written to the wire,
   a line added to the file). *)
LEMMA AppendSet ==
    ASSUME NEW S, NEW s \in Seq(S), NEW x \in S
    PROVE  /\ Append(s, x) \in Seq(S)
           /\ ToSet(Append(s, x)) = ToSet(s) \cup {x}
<1>1. /\ Append(s, x) \in Seq(S) /\ Len(Append(s, x)) = Len(s) + 1
      /\ Append(s, x)[Len(s) + 1] = x
      /\ \A i \in 1..Len(s) : Append(s, x)[i] = s[i]
  OBVIOUS
<1>2. DOMAIN s = 1..Len(s) /\ DOMAIN Append(s, x) = 1..(Len(s) + 1) /\ Len(s) \in Nat
  OBVIOUS
<1> QED BY <1>1, <1>2 DEF ToSet

(* A slice of a sequence has no element of its own (a wire cut by a restart,
   a trimmed file). *)
LEMMA SliceSet ==
    ASSUME NEW S, NEW s \in Seq(S), NEW i \in 1..(Len(s) + 1), NEW j \in 0..Len(s)
    PROVE  /\ SubSeq(s, i, j) \in Seq(S)
           /\ ToSet(SubSeq(s, i, j)) \subseteq ToSet(s)
BY SubSeqProperties DEF ToSet

(* Nor has the concatenation of two slices, which is what RemoveAt makes. *)
LEMMA ConcatSet ==
    ASSUME NEW S, NEW s \in Seq(S), NEW t \in Seq(S)
    PROVE  /\ s \o t \in Seq(S)
           /\ ToSet(s \o t) = ToSet(s) \cup ToSet(t)
<1>1. /\ s \o t \in Seq(S) /\ Len(s \o t) = Len(s) + Len(t)
      /\ \A i \in 1..Len(s) : (s \o t)[i] = s[i]
      /\ \A i \in 1..Len(t) : (s \o t)[Len(s) + i] = t[i]
      /\ \A i \in (Len(s) + 1)..(Len(s) + Len(t)) : (s \o t)[i] = t[i - Len(s)]
  BY ConcatProperties
<1>2. /\ DOMAIN s = 1..Len(s) /\ DOMAIN t = 1..Len(t)
      /\ DOMAIN (s \o t) = 1..(Len(s) + Len(t))
      /\ Len(s) \in Nat /\ Len(t) \in Nat
  BY <1>1
<1>3. ToSet(s \o t) \subseteq ToSet(s) \cup ToSet(t)
  <2> SUFFICES ASSUME NEW i \in 1..(Len(s) + Len(t))
               PROVE  (s \o t)[i] \in ToSet(s) \cup ToSet(t)
    BY <1>2 DEF ToSet
  <2>1. CASE i \in 1..Len(s)
    BY <2>1, <1>1, <1>2 DEF ToSet
  <2>2. CASE i \in (Len(s) + 1)..(Len(s) + Len(t))
    <3>1. i - Len(s) \in 1..Len(t) BY <2>2, <1>2
    <3> QED BY <3>1, <2>2, <1>1, <1>2 DEF ToSet
  <2> QED BY <2>1, <2>2, <1>2
<1>4. ToSet(s) \subseteq ToSet(s \o t)
  <2> SUFFICES ASSUME NEW i \in 1..Len(s) PROVE s[i] \in ToSet(s \o t)
    BY <1>2 DEF ToSet
  <2>1. i \in 1..(Len(s) + Len(t)) BY <1>2
  <2> QED BY <2>1, <1>1, <1>2 DEF ToSet
<1>5. ToSet(t) \subseteq ToSet(s \o t)
  <2> SUFFICES ASSUME NEW i \in 1..Len(t) PROVE t[i] \in ToSet(s \o t)
    BY <1>2 DEF ToSet
  <2>1. Len(s) + i \in 1..(Len(s) + Len(t)) BY <1>2
  <2> QED BY <2>1, <1>1, <1>2 DEF ToSet
<1> QED BY <1>1, <1>3, <1>4, <1>5

LEMMA RemoveSet ==
    ASSUME NEW S, NEW s \in Seq(S), NEW i \in 1..Len(s)
    PROVE  /\ RemoveAt(s, i) \in Seq(S)
           /\ ToSet(RemoveAt(s, i)) \subseteq ToSet(s)
<1>1. /\ SubSeq(s, 1, i - 1) \in Seq(S)
      /\ ToSet(SubSeq(s, 1, i - 1)) \subseteq ToSet(s)
  <2>1. 1 \in 1..(Len(s) + 1) /\ i - 1 \in 0..Len(s) OBVIOUS
  <2> QED BY <2>1, SliceSet
<1>2. /\ SubSeq(s, i + 1, Len(s)) \in Seq(S)
      /\ ToSet(SubSeq(s, i + 1, Len(s))) \subseteq ToSet(s)
  <2>1. i + 1 \in 1..(Len(s) + 1) /\ Len(s) \in 0..Len(s) OBVIOUS
  <2> QED BY <2>1, SliceSet
<1> DEFINE left == SubSeq(s, 1, i - 1)
           right == SubSeq(s, i + 1, Len(s))
<1>3. RemoveAt(s, i) = left \o right
  BY DEF RemoveAt
<1> HIDE DEF left, right
<1>5. /\ left \in Seq(S) /\ right \in Seq(S)
      /\ ToSet(left) \subseteq ToSet(s) /\ ToSet(right) \subseteq ToSet(s)
  BY <1>1, <1>2 DEF left, right
<1>4. /\ left \o right \in Seq(S)
      /\ ToSet(left \o right) = ToSet(left) \cup ToSet(right)
  <2>1. left \in Seq(S) /\ right \in Seq(S)
    BY <1>5
  <2> QED BY <2>1, ConcatSet
<1> QED BY <1>3, <1>4, <1>5

-----------------------------------------------------------------------------
(* The flash file *)

Box == [file : Seq(Nat), hasData : BOOLEAN]

(* A box whose file holds, beyond the messages of another, only messages
   that the board has not accepted before. *)
Fed(box, new) ==
    /\ new \in Box
    /\ ToSet(new.file) \subseteq ToSet(box.file) \cup {m \in Nat : m > accepted}

LEMMA TrimSet ==
    ASSUME NEW q \in Seq(Nat)
    PROVE  Trim(q) \in Seq(Nat) /\ ToSet(Trim(q)) \subseteq ToSet(q)
<1>1. CASE Len(q) > InboxMax
  <2>1. /\ Len(q) \in Nat /\ Len(q) >= 1
    BY <1>1, LinkAssumption DEF LinkAssumption
  <2>2. /\ Len(q) - ((Len(q) - 1) \div 2) + 1 \in 1..(Len(q) + 1)
        /\ Len(q) \in 0..Len(q)
    BY <2>1, Z3
  <2> QED BY <1>1, <2>2, SliceSet DEF Trim
<1>2. CASE ~(Len(q) > InboxMax)
  BY <1>2 DEF Trim
<1> QED BY <1>1, <1>2

LEMMA StoredFed ==
    ASSUME NEW box \in Box, NEW new, Fed(box, new), accepted \in Nat,
           NEW m \in Nat, m > accepted
    PROVE  Fed(box, Stored(new, m))
<1>1. new.file \in Seq(Nat)
  BY DEF Fed, Box
<1>2. Trim(new.file) \in Seq(Nat) /\ ToSet(Trim(new.file)) \subseteq ToSet(new.file)
  BY <1>1, TrimSet
<1>3. /\ Append(Trim(new.file), m) \in Seq(Nat)
      /\ ToSet(Append(Trim(new.file), m)) = ToSet(Trim(new.file)) \cup {m}
  BY <1>2, AppendSet
<1> QED BY <1>2, <1>3 DEF Fed, Stored, Box

LEMMA StoreFailedFed ==
    ASSUME NEW box \in Box, NEW old, Fed(box, old), accepted \in Nat,
           NEW m \in Nat, m > accepted, NEW new \in StoreFailed(old, m)
    PROVE  Fed(box, new)
<1>1. old.file \in Seq(Nat) /\ old.hasData \in BOOLEAN /\ old \in Box
  BY DEF Fed, Box
<1>2. Trim(old.file) \in Seq(Nat) /\ ToSet(Trim(old.file)) \subseteq ToSet(old.file)
  BY <1>1, TrimSet
<1>3. /\ Append(old.file, m) \in Seq(Nat)
      /\ ToSet(Append(old.file, m)) = ToSet(old.file) \cup {m}
  BY <1>1, AppendSet
<1>4. /\ <<>> \in Seq(Nat) /\ ToSet(<<>>) = {}
      /\ <<m>> \in Seq(Nat) /\ ToSet(<<m>>) = {m}
  BY DEF ToSet
<1>5. CASE new = old
  BY <1>5
<1>6. CASE new = [old EXCEPT !.file = <<>>]
  BY <1>6, <1>1, <1>4 DEF Fed, Box
<1>7. CASE new = [old EXCEPT !.file = Trim(old.file)]
  BY <1>7, <1>1, <1>2 DEF Fed, Box
<1>8. CASE new = [file |-> <<m>>, hasData |-> TRUE]
  BY <1>8, <1>1, <1>4 DEF Fed, Box
<1>9. CASE new = [file |-> Append(old.file, m), hasData |-> TRUE]
  BY <1>9, <1>1, <1>3 DEF Fed, Box
<1> QED BY <1>5, <1>6, <1>7, <1>8, <1>9 DEF StoreFailed

(* Whatever fails on the way, storing new messages only adds new messages. *)
LEMMA DepositFed ==
    ASSUME NEW box \in Box, NEW k \in 0..2, NEW n \in Nat,
           accepted \in Nat, faults \in Nat, Deposit(box, k, n)
    PROVE  /\ Fed(box, inbox')
           /\ accepted' \in Nat /\ accepted' >= accepted /\ faults' \in Nat
<1>1. accepted' \in Nat /\ accepted' >= accepted /\ faults' \in Nat
  BY DEF Deposit
<1> SUFFICES Fed(box, inbox')
  BY <1>1
<1>2. Fed(box, box)
  BY DEF Fed
<1>3. Fed(box, Stored(box, accepted + 1))
  BY <1>2, StoredFed
<1>4. CASE inbox' = StoreAll(box, k)
  <2>1. CASE k = 0 BY <2>1, <1>4, <1>2 DEF StoreAll
  <2>2. CASE k = 1 BY <2>2, <1>4, <1>3 DEF StoreAll
  <2>3. CASE k = 2
    <3>1. Fed(box, Stored(Stored(box, accepted + 1), accepted + 2))
      BY <1>3, StoredFed
    <3> QED BY <2>3, <3>1, <1>4 DEF StoreAll
  <2> QED BY <2>1, <2>2, <2>3
<1>5. CASE inbox' \in StoreSome(box, k)
  <2>1. k # 0 BY <1>5 DEF StoreSome
  <2>2. CASE k = 1
    <3>1. inbox' \in StoreFailed(box, accepted + 1)
      BY <2>2, <1>5 DEF StoreSome
    <3> QED BY <3>1, <1>2, StoreFailedFed
  <2>3. CASE k = 2
    <3>1. \/ inbox' \in StoreFailed(Stored(box, accepted + 1), accepted + 2)
          \/ \E b \in StoreFailed(box, accepted + 1) : inbox' = Stored(b, accepted + 2)
      BY <2>3, <1>5 DEF StoreSome
    <3>2. CASE inbox' \in StoreFailed(Stored(box, accepted + 1), accepted + 2)
      BY <3>2, <1>3, StoreFailedFed
    <3>3. CASE \E b \in StoreFailed(box, accepted + 1) : inbox' = Stored(b, accepted + 2)
      <4>1. PICK b \in StoreFailed(box, accepted + 1) : inbox' = Stored(b, accepted + 2)
        BY <3>3
      <4>2. Fed(box, b) BY <1>2, StoreFailedFed
      <4>3. Fed(box, Stored(b, accepted + 2)) BY <4>2, StoredFed
      <4> QED BY <4>1, <4>3
    <3> QED BY <3>1, <3>2, <3>3
  <2> QED BY <2>1, <2>2, <2>3
<1> QED BY <1>1, <1>4, <1>5 DEF Deposit
-----------------------------------------------------------------------------
(* Steps *)

(* What every step does to the file and the log. *)
Grown ==
    /\ Fed(inbox, inbox') /\ accepted' \in Nat /\ accepted' >= accepted
    /\ logged \subseteq logged' /\ spoilt \subseteq spoilt'

RepliesKept == \A d \in ToSet(toP4') : d \in ToSet(toP4) \/ d.type # "msgs"
AcksKept ==
    AcksIn(toLora') \cup AcksIn(lineBuf') \subseteq AcksIn(toLora) \cup AcksIn(lineBuf)
TaskKept == rx' = rx \/ rx' = Reading

(* Covered(u, s) in the next state, for a set s of this one. *)
StillCovered(u, s) ==
    u <= accepted' /\ \A m \in ToSet(inbox'.file) : m <= u => m \in s \cup logged' \cup spoilt'

LEMMA CoveredGrows ==
    ASSUME TypeOK, Grown, NEW u \in Nat, NEW s, Covered(u, s)
    PROVE  StillCovered(u, s)
<1>1. u <= accepted /\ accepted \in Nat
  BY DEF Covered, TypeOK
<1>2. ASSUME NEW m \in ToSet(inbox'.file), m <= u
      PROVE  m \in s \cup logged' \cup spoilt'
  <2>1. m \in ToSet(inbox.file)
    BY <1>1, <1>2 DEF Grown, Fed
  <2> QED BY <2>1, <1>2 DEF Covered, Grown
<1> QED BY <1>1, <1>2 DEF StillCovered, Grown

(* A step that adds no dump, no acknowledgement and no line in hand. *)
LEMMA QuietStep ==
    ASSUME LinkInv, Grown, RepliesKept, AcksKept, TaskKept
    PROVE  (DumpsCovered /\ TaskCovered /\ AckCoversItsDump)'
<1> USE DEF LinkInv
<1>1. ASSUME NEW d \in ToSet(toP4'), d.type = "msgs"
      PROVE  d.items # <<>> /\ StillCovered(d.upto, ToSet(d.items))
  <2>1. d \in ToSet(toP4) BY <1>1 DEF RepliesKept
  <2>2. d \in Replies BY <2>1 DEF TypeOK, ToSet
  <2>3. d.upto \in Nat BY <2>2 DEF Replies
  <2> QED BY <2>1, <2>3, <1>1, CoveredGrows DEF DumpsCovered
<1>2. ASSUME rx'.state # "read"
      PROVE  StillCovered(rx'.upto, ToSet(rx'.items))
  <2>1. rx' = rx BY <1>2 DEF TaskKept, Reading
  <2>2. rx.upto \in Nat BY DEF TypeOK
  <2> QED BY <2>1, <2>2, <1>2, CoveredGrows DEF TaskCovered
<1>3. ASSUME NEW w \in AcksIn(toLora') \cup AcksIn(lineBuf')
      PROVE  StillCovered(w.n, {})
  <2>1. w \in AcksIn(toLora) \cup AcksIn(lineBuf) BY DEF AcksKept
  <2>2. w \in Words BY <2>1 DEF AcksIn, TypeOK, ToSet
  <2>3. w.n \in Nat BY <2>2 DEF Words
  <2> QED BY <2>1, <2>3, CoveredGrows DEF AckCoversItsDump
<1>4. DumpsCovered' BY <1>1 DEF DumpsCovered, Covered, StillCovered
<1>5. TaskCovered' BY <1>2 DEF TaskCovered, Covered, StillCovered
<1>6. AckCoversItsDump' BY <1>3 DEF AckCoversItsDump, Covered, StillCovered
<1> QED BY <1>4, <1>5, <1>6

(* A writer's line: the wire gets a body and newlines, no more. *)
LEMMA SendLineSet ==
    ASSUME TypeOK, NEW w \in Writers, NEW body \in Words, SendLine(w, body)
    PROVE  /\ toLora' \in Seq(Words)
           /\ ToSet(toLora') \subseteq ToSet(toLora) \cup {body, Newline}
           /\ pc' \in [Writers -> {"idle", "nl"}] /\ splits' \in Nat
<1>1. Newline \in Words
  BY DEF Newline, Word, Words
<1>2. toLora \in Seq(Words) /\ pc \in [Writers -> {"idle", "nl"}] /\ splits \in Nat
  BY DEF TypeOK
<1>3. CASE toLora' = toLora \o <<body, Newline>> /\ UNCHANGED <<pc, splits>>
  <2> DEFINE line == <<body, Newline>>
  <2>1. line \in Seq(Words) /\ ToSet(line) \subseteq {body, Newline}
    BY <1>1 DEF ToSet
  <2> HIDE DEF line
  <2>2. toLora \o line \in Seq(Words)
        /\ ToSet(toLora \o line) = ToSet(toLora) \cup ToSet(line)
    BY <2>1, <1>2, ConcatSet
  <2>3. toLora' = toLora \o line BY <1>3 DEF line
  <2> QED BY <2>1, <2>2, <2>3, <1>2, <1>3
<1>4. CASE /\ toLora' = Append(toLora, body)
           /\ pc' = [pc EXCEPT ![w] = "nl"] /\ splits' = splits + 1
  <2>1. /\ Append(toLora, body) \in Seq(Words)
        /\ ToSet(Append(toLora, body)) = ToSet(toLora) \cup {body}
    BY <1>2, AppendSet
  <2> QED BY <2>1, <1>2, <1>4
<1> QED BY <1>3, <1>4 DEF SendLine

LEMMA BoardKept ==
    ASSUME TypeOK, UNCHANGED <<inbox, accepted>>, logged \subseteq logged',
           spoilt \subseteq spoilt'
    PROVE  Grown
BY DEF TypeOK, Grown, Fed, Box

LEMMA WordsOK ==
    /\ Fetch \in Words /\ Fetch.cmd # "ack" /\ Newline \in Words /\ Newline.cmd # "ack"
    /\ \A u \in Nat : Ack(u) \in Words /\ Ack(u).n = u
    /\ \A n \in Nat, t \in Texts : Send(n, t) \in Words /\ Send(n, t).cmd # "ack"
    /\ Reading.state = "read"
    /\ Reading \in [state : {"read", "log", "ack"}, items : Seq(Nat), upto : Nat]
    /\ Reading.items = <<>>
BY DEF Words, Word, Fetch, Newline, Ack, Send, Reading

-----------------------------------------------------------------------------
(* The hub's writers *)

LEMMA PollStep ==
    ASSUME LinkInv, Poll PROVE LinkInv'
<1> USE DEF LinkInv, Poll
<1>1. /\ toLora' \in Seq(Words)
      /\ ToSet(toLora') \subseteq ToSet(toLora) \cup {Fetch, Newline}
      /\ pc' \in [Writers -> {"idle", "nl"}] /\ splits' \in Nat
  BY SendLineSet, WordsOK DEF Writers
<1>2. TypeOK'
  BY <1>1 DEF TypeOK, board
<1>3. Grown
  BY BoardKept DEF board
<1>4. RepliesKept /\ TaskKept
  BY DEF RepliesKept, TaskKept
<1>5. AcksKept
  BY <1>1, WordsOK DEF AcksKept, AcksIn, board
<1> QED BY <1>2, <1>3, <1>4, <1>5, QuietStep

LEMMA PortalSendStep ==
    ASSUME LinkInv, PortalSend PROVE LinkInv'
<1> USE DEF LinkInv, PortalSend
<1>1. PICK t \in Texts : SendLine("http", Send(sent + 1, t))
  OBVIOUS
<1>2. sent + 1 \in Nat
  BY DEF TypeOK
<1>3. Send(sent + 1, t) \in Words /\ Send(sent + 1, t).cmd # "ack"
  BY <1>2, WordsOK
<1>4. /\ toLora' \in Seq(Words)
      /\ ToSet(toLora') \subseteq ToSet(toLora) \cup {Send(sent + 1, t), Newline}
      /\ pc' \in [Writers -> {"idle", "nl"}] /\ splits' \in Nat
  BY <1>1, <1>3, SendLineSet DEF Writers
<1>5. TypeOK'
  BY <1>2, <1>4 DEF TypeOK, board
<1>6. Grown
  BY BoardKept DEF board
<1>7. RepliesKept /\ TaskKept
  BY DEF RepliesKept, TaskKept
<1>8. AcksKept
  BY <1>3, <1>4, WordsOK DEF AcksKept, AcksIn, board
<1> QED BY <1>5, <1>6, <1>7, <1>8, QuietStep

LEMMA EndLineStep ==
    ASSUME LinkInv, NEW w \in Writers, EndLine(w) PROVE LinkInv'
<1> USE DEF LinkInv, EndLine
<1>1. toLora' \in Seq(Words) /\ ToSet(toLora') = ToSet(toLora) \cup {Newline}
  BY AppendSet, WordsOK DEF TypeOK
<1>2. TypeOK'
  BY <1>1 DEF TypeOK, board
<1>3. Grown
  BY BoardKept DEF board
<1>4. RepliesKept /\ TaskKept
  BY DEF RepliesKept, TaskKept
<1>5. AcksKept
  BY <1>1, WordsOK DEF AcksKept, AcksIn, board
<1> QED BY <1>2, <1>3, <1>4, <1>5, QuietStep

-----------------------------------------------------------------------------
(* The hub's rx task *)

LEMMA TakeReply ==
    ASSUME LinkInv, toP4 # <<>>, toP4' = Tail(toP4)
    PROVE  /\ toP4' \in Seq(Replies) /\ RepliesKept
           /\ Head(toP4) \in Replies /\ Head(toP4) \in ToSet(toP4)
BY TailSet DEF LinkInv, TypeOK, RepliesKept

LEMMA HubReadsStep ==
    ASSUME LinkInv, HubReads PROVE LinkInv'
<1> USE DEF LinkInv, HubReads, HubIdle
<1> DEFINE d == Head(toP4)
<1>1. /\ toP4' \in Seq(Replies) /\ RepliesKept /\ d \in Replies /\ d \in ToSet(toP4)
  BY TakeReply
<1>2. Grown
  BY BoardKept DEF board
<1>3. AcksKept
  BY DEF AcksKept, board
<1>4. CASE d.type # "msgs"
  <2>1. TypeOK'
    BY <1>1, <1>4 DEF TypeOK, board
  <2>2. TaskKept
    BY <1>4 DEF TaskKept
  <2> QED BY <1>1, <1>2, <1>3, <2>1, <2>2, QuietStep
<1>5. CASE d.type = "msgs"
  <2>1. d.items # <<>> /\ Covered(d.upto, ToSet(d.items))
    BY <1>1, <1>5 DEF DumpsCovered
  <2>2. /\ rx' = Received(d) /\ d.items \in Seq(Nat) /\ d.upto \in Nat
    BY <1>1, <1>5 DEF Replies
  <2>3. TypeOK'
    <3>1. rx' = [state |-> "log", items |-> d.items, upto |-> d.upto]
      BY <2>2 DEF Received
    <3>2. /\ rx' \in [state : {"read", "log", "ack"}, items : Seq(Nat), upto : Nat]
          /\ rx'.state = "log" <=> rx'.items # <<>>
      BY <2>1, <2>2, <3>1
    <3>3. TypeOK /\ UNCHANGED <<inbox, lineBuf, radioOK, air, accepted, toLora>>
      BY DEF board
    <3> QED BY <1>1, <3>2, <3>3 DEF TypeOK
  <2>4. (TaskCovered)'
    BY <2>1, <2>2 DEF TaskCovered, Covered, Received, board
  <2>5. (DumpsCovered)'
    BY <1>1 DEF RepliesKept, DumpsCovered, Covered, board
  <2>6. (AckCoversItsDump)'
    BY DEF AckCoversItsDump, Covered, AcksIn, board
  <2> QED BY <2>3, <2>4, <2>5, <2>6
<1> QED BY <1>4, <1>5

LEMMA HubReadsTailStep ==
    ASSUME LinkInv, HubReadsTail PROVE LinkInv'
<1> USE DEF LinkInv, HubReadsTail, HubIdle
<1>1. toP4' \in Seq(Replies) /\ RepliesKept
  BY TakeReply
<1>2. TypeOK'
  BY <1>1 DEF TypeOK, board
<1>3. Grown
  BY BoardKept DEF board
<1>4. AcksKept /\ TaskKept
  BY DEF AcksKept, TaskKept, board
<1> QED BY <1>1, <1>2, <1>3, <1>4, QuietStep

LEMMA HubLogsStep ==
    ASSUME LinkInv, HubLogs PROVE LinkInv'
<1> USE DEF LinkInv, HubLogs
<1>1. /\ rx.items \in Seq(Nat) /\ rx.items # <<>> /\ rx.upto \in Nat
      /\ rx \in [state : {"read", "log", "ack"}, items : Seq(Nat), upto : Nat]
  BY DEF TypeOK
<1>2. /\ Tail(rx.items) \in Seq(Nat) /\ Head(rx.items) \in Nat
      /\ Len(rx.items) > 1 <=> Tail(rx.items) # <<>>
      /\ ToSet(rx.items) \subseteq ToSet(Tail(rx.items)) \cup {Head(rx.items)}
  <2>1. /\ Tail(rx.items) \in Seq(Nat) /\ Head(rx.items) = rx.items[1]
        /\ Len(Tail(rx.items)) = Len(rx.items) - 1
        /\ \A i \in 1..Len(Tail(rx.items)) : Tail(rx.items)[i] = rx.items[i + 1]
        /\ Len(rx.items) \in Nat /\ Len(rx.items) >= 1
        /\ DOMAIN rx.items = 1..Len(rx.items)
        /\ DOMAIN Tail(rx.items) = 1..Len(Tail(rx.items))
    BY <1>1
  <2>2. Len(rx.items) > 1 <=> Tail(rx.items) # <<>>
    <3>1. \A q \in Seq(Nat) : q = <<>> <=> Len(q) = 0
      OBVIOUS
    <3>2. Tail(rx.items) = <<>> <=> Len(Tail(rx.items)) = 0
      BY <2>1, <3>1
    <3> DEFINE rest == Tail(rx.items)
               n == Len(rx.items)
    <3>3. Len(rest) = n - 1 /\ n \in Nat /\ (rest = <<>> <=> Len(rest) = 0)
      BY <3>2, <2>1
    <3> HIDE DEF rest, n
    <3>4. n > 1 <=> rest # <<>>
      BY <3>3
    <3> QED BY <3>4 DEF rest, n
  <2>3. Head(rx.items) \in Nat
    BY <1>1, <2>1
  <2>4. ASSUME NEW i \in 1..Len(rx.items)
        PROVE  rx.items[i] \in ToSet(Tail(rx.items)) \cup {Head(rx.items)}
    <3>1. CASE i = 1 BY <3>1, <2>1
    <3>2. CASE i # 1
      <4>1. i - 1 \in 1..Len(Tail(rx.items)) /\ (i - 1) + 1 = i
        BY <3>2, <2>1
      <4>2. Tail(rx.items)[i - 1] = rx.items[i]
        BY <4>1, <2>1
      <4> QED BY <4>1, <4>2, <2>1 DEF ToSet
    <3> QED BY <3>1, <3>2
  <2> QED BY <2>1, <2>2, <2>3, <2>4 DEF ToSet
<1>3. /\ rx' \in [state : {"read", "log", "ack"}, items : Seq(Nat), upto : Nat]
      /\ rx'.items = Tail(rx.items) /\ rx'.upto = rx.upto
      /\ (rx'.state = "log") <=> (rx'.items # <<>>)
  BY <1>1, <1>2 DEF AfterItem
<1>4. TypeOK'
  BY <1>2, <1>3 DEF TypeOK, board
<1>5. Grown
  BY BoardKept DEF board
<1>6. StillCovered(rx.upto, ToSet(rx.items))
  BY <1>1, <1>5, CoveredGrows DEF TaskCovered
<1>7. (TaskCovered)'
  BY <1>2, <1>3, <1>6 DEF TaskCovered, Covered, StillCovered
<1>8. (DumpsCovered)'
  BY DEF DumpsCovered, Covered, board
<1>9. (AckCoversItsDump)'
  BY DEF AckCoversItsDump, Covered, AcksIn, board
<1> QED BY <1>4, <1>7, <1>8, <1>9

LEMMA HubAcksStep ==
    ASSUME LinkInv, HubAcks PROVE LinkInv'
<1> USE DEF LinkInv, HubAcks
<1>1. rx.items = <<>> /\ rx.upto \in Nat /\ Covered(rx.upto, {})
  <2>1. rx.items = <<>> /\ rx.upto \in Nat
    BY DEF TypeOK
  <2>2. ToSet(rx.items) = {}
    BY <2>1 DEF ToSet
  <2> QED BY <2>1, <2>2 DEF TaskCovered
<1>2. Ack(rx.upto) \in Words /\ Ack(rx.upto).n = rx.upto
  BY <1>1, WordsOK
<1>3. /\ toLora' \in Seq(Words)
      /\ ToSet(toLora') \subseteq ToSet(toLora) \cup {Ack(rx.upto), Newline}
      /\ pc' \in [Writers -> {"idle", "nl"}] /\ splits' \in Nat
  BY <1>2, SendLineSet DEF Writers
<1>4. TypeOK'
  BY <1>3, WordsOK DEF TypeOK, board
<1>5. AcksIn(toLora') \subseteq AcksIn(toLora) \cup {Ack(rx.upto)}
  BY <1>3, WordsOK DEF AcksIn
<1>6. (AckCoversItsDump)'
  BY <1>1, <1>2, <1>5 DEF AckCoversItsDump, Covered, board
<1>7. (DumpsCovered)'
  BY DEF DumpsCovered, Covered, board
<1>8. (TaskCovered)'
  BY WordsOK DEF TaskCovered
<1> QED BY <1>4, <1>6, <1>7, <1>8

LEMMA ExpireStep ==
    ASSUME LinkInv, Expire PROVE LinkInv'
<1> USE DEF LinkInv, Expire
<1>1. TypeOK'
  BY DEF TypeOK, board
<1>2. Grown
  BY BoardKept DEF board
<1>3. RepliesKept /\ AcksKept /\ TaskKept
  BY DEF RepliesKept, AcksKept, TaskKept, board
<1> QED BY <1>1, <1>2, <1>3, QuietStep

-----------------------------------------------------------------------------
(* The board *)

LEMMA ReadBodyStep ==
    ASSUME LinkInv, ReadBody PROVE LinkInv'
<1> USE DEF LinkInv, ReadBody
<1> DEFINE w == Head(toLora)
<1>1. /\ toLora' \in Seq(Words) /\ ToSet(toLora') \subseteq ToSet(toLora)
      /\ w \in Words /\ w \in ToSet(toLora)
  BY TailSet DEF TypeOK
<1>2. /\ Append(lineBuf, w) \in Seq(Words)
      /\ ToSet(Append(lineBuf, w)) = ToSet(lineBuf) \cup {w}
  BY <1>1, AppendSet DEF TypeOK
<1>3. /\ <<w>> \in Seq(Words) /\ ToSet(<<w>>) = {w}
      /\ <<>> \in Seq(Words) /\ ToSet(<<>>) = {}
  BY <1>1 DEF ToSet
<1>4. lineBuf' \in {<<>>, <<w>>, Append(lineBuf, w)}
  BY DEF Extend
<1>5. lineBuf' \in Seq(Words) /\ ToSet(lineBuf') \subseteq ToSet(lineBuf) \cup {w}
  BY <1>2, <1>3, <1>4
<1>6. TypeOK'
  BY <1>1, <1>5 DEF TypeOK, hub
<1>7. Grown
  BY BoardKept DEF hub
<1>8. RepliesKept /\ TaskKept
  BY DEF RepliesKept, TaskKept, hub
<1>9. AcksKept
  BY <1>1, <1>5 DEF AcksKept, AcksIn
<1> QED BY <1>6, <1>7, <1>8, <1>9, QuietStep

LEMMA LineEndsSet ==
    ASSUME TypeOK, LineEnds
    PROVE  toLora' \in Seq(Words) /\ lineBuf' \in Seq(Words) /\ AcksKept
<1>1. toLora' \in Seq(Words) /\ ToSet(toLora') \subseteq ToSet(toLora)
  BY TailSet DEF TypeOK, LineEnds
<1>2. lineBuf' = <<>> /\ ToSet(lineBuf') = {}
  BY DEF LineEnds, AfterLine, ToSet
<1> QED BY <1>1, <1>2 DEF AcksKept, AcksIn

LEMMA HandleFetchStep ==
    ASSUME LinkInv, HandleFetch PROVE LinkInv'
<1> USE DEF LinkInv, HandleFetch
<1>1. toLora' \in Seq(Words) /\ lineBuf' \in Seq(Words) /\ AcksKept
  BY LineEndsSet
<1>2. Grown
  BY BoardKept DEF hub
<1>3. TaskKept
  BY DEF TaskKept, hub
<1>4. CASE UNCHANGED toP4
  <2>1. TypeOK' BY <1>1, <1>4 DEF TypeOK, hub
  <2>2. RepliesKept BY <1>4 DEF RepliesKept
  <2> QED BY <1>1, <1>2, <1>3, <2>1, <2>2, QuietStep
<1>5. CASE ~UNCHANGED toP4
  <2> DEFINE d == Heard("msgs", inbox.file, accepted)
  <2>1. /\ inbox.file # <<>> /\ toP4' = Append(toP4, d)
        /\ inbox.file \in Seq(Nat) /\ accepted \in Nat
    BY <1>5 DEF TypeOK
  <2>2. d \in Replies /\ d.items = inbox.file /\ d.upto = accepted
    BY <2>1 DEF Replies, Heard
  <2> HIDE DEF d
  <2>3. toP4' \in Seq(Replies) /\ ToSet(toP4') = ToSet(toP4) \cup {d}
    BY <2>1, <2>2, AppendSet DEF TypeOK
  <2>4. TypeOK'
    BY <1>1, <2>3 DEF TypeOK, hub
  <2>5. Covered(d.upto, ToSet(d.items))
    BY <2>1, <2>2 DEF Covered
  <2>6. (DumpsCovered)'
    BY <2>1, <2>2, <2>3, <2>5 DEF DumpsCovered, Covered, hub
  <2>7. (TaskCovered)'
    BY DEF TaskCovered, Covered, hub
  <2>8. (AckCoversItsDump)'
    BY <1>1 DEF AckCoversItsDump, AcksKept, Covered, hub
  <2> QED BY <2>4, <2>6, <2>7, <2>8
<1> QED BY <1>4, <1>5

LEMMA HandleAckStep ==
    ASSUME LinkInv, HandleAck PROVE LinkInv'
<1> USE DEF LinkInv, HandleAck
<1>1. toLora' \in Seq(Words) /\ lineBuf' \in Seq(Words) /\ AcksKept
  BY LineEndsSet
<1>2. inbox' \in Box /\ ToSet(inbox'.file) \subseteq ToSet(inbox.file) /\ faults' \in Nat
  <2>1. CASE inbox' = Cleared(inbox) /\ UNCHANGED faults
    <3>1. inbox'.file = <<>> /\ inbox' \in Box
      BY <2>1 DEF Cleared, Box
    <3>2. ToSet(inbox'.file) = {}
      BY <3>1 DEF ToSet
    <3> QED BY <2>1, <3>1, <3>2 DEF TypeOK
  <2>2. CASE inbox' = [inbox EXCEPT !.hasData = FALSE] /\ Fault("fs")
    <3>1. inbox \in Box /\ faults \in Nat /\ faults' = faults + 1
      BY <2>2 DEF TypeOK, Box, Fault
    <3>2. inbox' \in Box /\ inbox'.file = inbox.file
      BY <2>2, <3>1 DEF Box
    <3> QED BY <3>1, <3>2
  <2> QED BY <2>1, <2>2
<1>3. TypeOK'
  BY <1>1, <1>2 DEF TypeOK, Box, hub
<1>4. Grown
  BY <1>2 DEF Grown, Fed, TypeOK, hub
<1>5. RepliesKept /\ TaskKept
  BY DEF RepliesKept, TaskKept, hub
<1> QED BY <1>1, <1>3, <1>4, <1>5, QuietStep

(* A send deposits nothing, a notice, an echo or both; what goes on the air is
   the number of a send of the line. *)
LEMMA SendDeposits ==
    ASSUME HandleSend
    PROVE  \E i \in 1..Len(lineBuf), k \in 0..2, n \in 0..1 :
              /\ IsSend(lineBuf[i])
              /\ Deposit(inbox, k, n)
              /\ air' = Append(air, lineBuf[i].n) \/ air' = air
<1> USE DEF HandleSend
<1>1. PICK i \in 1..Len(lineBuf) :
         /\ IsSend(lineBuf[i])
         /\ LET echo == IF lineBuf[i].text = "echo" THEN 1 ELSE 0
            IN \/ /\ air' = Append(air, lineBuf[i].n) /\ Deposit(inbox, echo, 0)
               \/ /\ Deposit(inbox, 1 + echo, 1) /\ UNCHANGED air
               \/ /\ Deposit(inbox, 1 + echo, 0) /\ UNCHANGED air
  OBVIOUS
<1> DEFINE echo == IF lineBuf[i].text = "echo" THEN 1 ELSE 0
<1>2. \/ /\ air' = Append(air, lineBuf[i].n) /\ Deposit(inbox, echo, 0)
      \/ /\ Deposit(inbox, 1 + echo, 1) /\ air' = air
      \/ /\ Deposit(inbox, 1 + echo, 0) /\ air' = air
  BY <1>1
<1>3. echo \in 0..2 /\ 1 + echo \in 0..2 /\ 0 \in 0..1 /\ 1 \in 0..1
  OBVIOUS
<1> HIDE DEF echo
<1> QED BY <1>1, <1>2, <1>3

LEMMA HandleSendStep ==
    ASSUME LinkInv, HandleSend PROVE LinkInv'
<1> USE DEF LinkInv, HandleSend
<1>1. toLora' \in Seq(Words) /\ lineBuf' \in Seq(Words) /\ AcksKept
  BY LineEndsSet
<1>2. PICK i \in 1..Len(lineBuf), k \in 0..2, n \in 0..1 :
         /\ Deposit(inbox, k, n)
         /\ air' = Append(air, lineBuf[i].n) \/ air' = air
  BY SendDeposits
<1>3. /\ accepted \in Nat /\ faults \in Nat /\ inbox \in Box /\ n \in Nat
      /\ lineBuf[i].n \in Nat /\ air \in Seq(Nat)
  <2>1. lineBuf[i] \in Words
    BY DEF TypeOK
  <2>2. lineBuf[i].n \in Nat
    BY <2>1 DEF Words
  <2> QED BY <2>2 DEF TypeOK, Box
<1>4. /\ Fed(inbox, inbox')
      /\ accepted' \in Nat /\ accepted' >= accepted /\ faults' \in Nat
  BY <1>2, <1>3, DepositFed
<1>5. air' \in Seq(Nat)
  <2>1. Append(air, lineBuf[i].n) \in Seq(Nat)
    BY <1>3, AppendSet
  <2> QED BY <2>1, <1>2, <1>3
<1>6. TypeOK'
  BY <1>1, <1>4, <1>5 DEF TypeOK, Fed, Box, hub
<1>7. Grown
  BY <1>4 DEF Grown, hub
<1>8. RepliesKept /\ TaskKept
  BY DEF RepliesKept, TaskKept, hub
<1> QED BY <1>1, <1>6, <1>7, <1>8, QuietStep

LEMMA HandleNothingStep ==
    ASSUME LinkInv, HandleNothing PROVE LinkInv'
<1> USE DEF LinkInv, HandleNothing
<1>1. toLora' \in Seq(Words) /\ lineBuf' \in Seq(Words) /\ AcksKept
  BY LineEndsSet
<1>2. TypeOK'
  BY <1>1 DEF TypeOK, hub
<1>3. Grown
  BY BoardKept DEF hub
<1>4. RepliesKept /\ TaskKept
  BY DEF RepliesKept, TaskKept, hub
<1> QED BY <1>1, <1>2, <1>3, <1>4, QuietStep

LEMMA HearPacketStep ==
    ASSUME LinkInv, HearPacket PROVE LinkInv'
<1> USE DEF LinkInv, HearPacket
<1>1. accepted \in Nat /\ faults \in Nat /\ inbox \in Box /\ Deposit(inbox, 1, 0)
  BY DEF TypeOK, Box
<1>2. /\ Fed(inbox, inbox')
      /\ accepted' \in Nat /\ accepted' >= accepted /\ faults' \in Nat
  BY <1>1, DepositFed
<1>3. TypeOK'
  BY <1>2 DEF TypeOK, Fed, Box, hub
<1>4. Grown
  BY <1>2 DEF Grown, hub
<1>5. RepliesKept /\ AcksKept /\ TaskKept
  BY DEF RepliesKept, AcksKept, TaskKept, hub
<1> QED BY <1>3, <1>4, <1>5, QuietStep

LEMMA HeartbeatStep ==
    ASSUME LinkInv, Heartbeat PROVE LinkInv'
<1> USE DEF LinkInv, Heartbeat
<1> DEFINE hb == Heard("hb", <<>>, 0)
<1>1. hb \in Replies /\ hb.type # "msgs"
  BY DEF Replies, Heard
<1> HIDE DEF hb
<1>2. toP4' \in Seq(Replies) /\ ToSet(toP4') = ToSet(toP4) \cup {hb}
  BY <1>1, AppendSet DEF TypeOK, hb
<1>3. TypeOK'
  BY <1>2 DEF TypeOK, board, hub
<1>4. Grown
  BY BoardKept DEF board, hub
<1>5. RepliesKept /\ AcksKept /\ TaskKept
  BY <1>1, <1>2 DEF RepliesKept, AcksKept, TaskKept, board, hub
<1> QED BY <1>3, <1>4, <1>5, QuietStep

-----------------------------------------------------------------------------
(* Faults *)

LEMMA LoseWordStep ==
    ASSUME LinkInv, LoseWord PROVE LinkInv'
<1> USE DEF LinkInv, LoseWord, Fault
<1>1. toLora' \in Seq(Words) /\ ToSet(toLora') \subseteq ToSet(toLora)
  BY RemoveSet DEF TypeOK
<1>2. TypeOK'
  BY <1>1 DEF TypeOK, board, hub
<1>3. Grown
  BY BoardKept DEF board, hub
<1>4. RepliesKept /\ AcksKept /\ TaskKept
  BY <1>1 DEF RepliesKept, AcksKept, AcksIn, TaskKept, board, hub
<1> QED BY <1>2, <1>3, <1>4, QuietStep

LEMMA LoseReplyStep ==
    ASSUME LinkInv, LoseReply PROVE LinkInv'
<1> USE DEF LinkInv, LoseReply, Fault
<1>1. toP4' \in Seq(Replies) /\ ToSet(toP4') \subseteq ToSet(toP4)
  BY RemoveSet DEF TypeOK
<1>2. TypeOK'
  BY <1>1 DEF TypeOK, board, hub
<1>3. Grown
  BY BoardKept DEF board, hub
<1>4. RepliesKept /\ AcksKept /\ TaskKept
  BY <1>1 DEF RepliesKept, AcksKept, TaskKept, board, hub
<1> QED BY <1>2, <1>3, <1>4, QuietStep

(* What is left of a dump that lost bytes, and the messages that it lost, are all
   it had. *)
LEMMA SpoilSet ==
    ASSUME NEW q \in Seq(Nat), NEW j \in 1..Len(q), NEW k \in 1..Len(q), j <= k
    PROVE  /\ Spoil(q, j, k) \in Seq(Nat) /\ Spoil(q, j, k) # <<>>
           /\ ToSet(q) \subseteq ToSet(Spoil(q, j, k)) \cup {q[l] : l \in j..k}
<1> DEFINE u == SubSeq(q, 1, j - 1)
           v == SubSeq(q, k + 1, Len(q))
<1>1. /\ 1 \in 1..(Len(q) + 1) /\ j - 1 \in 0..Len(q) /\ Len(q) \in Nat
      /\ k + 1 \in 1..(Len(q) + 1) /\ Len(q) \in 0..Len(q)
  OBVIOUS
<1>2. u \in Seq(Nat) /\ Len(u) = j - 1 /\ \A l \in 1..Len(u) : u[l] = q[l]
  BY <1>1, SubSeqProperties
<1>3. v \in Seq(Nat) /\ Len(v) = Len(q) - k /\ \A l \in 1..Len(v) : v[l] = q[k + l]
  BY <1>1, SubSeqProperties
<1>4. Spoil(q, j, k) = u \o <<0>> \o v
  BY DEF Spoil
<1> HIDE DEF u, v
<1> DEFINE z == <<0>>
<1>5. z \in Seq(Nat) /\ 0 \in ToSet(z)
  BY DEF ToSet
<1> HIDE DEF z
<1> DEFINE uz == u \o z
<1>6. uz \in Seq(Nat) /\ ToSet(uz) = ToSet(u) \cup ToSet(z)
  BY <1>2, <1>5, ConcatSet
<1> HIDE DEF uz
<1>7. uz \o v \in Seq(Nat) /\ ToSet(uz \o v) = ToSet(u) \cup ToSet(z) \cup ToSet(v)
  <2>1. uz \o v \in Seq(Nat) /\ ToSet(uz \o v) = ToSet(uz) \cup ToSet(v)
    BY <1>3, <1>6, ConcatSet
  <2> QED BY <2>1, <1>6
<1>8. Spoil(q, j, k) = uz \o v
  BY <1>4 DEF uz, z
<1>9. Spoil(q, j, k) # <<>>
  <2>1. ToSet(<<>>) = {} BY DEF ToSet
  <2> QED BY <2>1, <1>5, <1>7, <1>8
<1>10. ASSUME NEW l \in 1..Len(q)
       PROVE  q[l] \in ToSet(u) \cup ToSet(v) \cup {q[i] : i \in j..k}
  <2>1. CASE l < j
    <3>1. l \in 1..Len(u) /\ DOMAIN u = 1..Len(u) BY <2>1, <1>2
    <3> QED BY <3>1, <1>2 DEF ToSet
  <2>2. CASE l > k
    <3>1. l - k \in 1..Len(v) /\ k + (l - k) = l /\ DOMAIN v = 1..Len(v)
      BY <2>2, <1>3
    <3>2. v[l - k] = q[l] BY <3>1, <1>3
    <3> QED BY <3>1, <3>2 DEF ToSet
  <2>3. CASE l \in j..k
    BY <2>3
  <2> QED BY <2>1, <2>2, <2>3
<1>11. ToSet(q) \subseteq ToSet(u) \cup ToSet(v) \cup {q[l] : l \in j..k}
  BY <1>10 DEF ToSet
<1> QED BY <1>7, <1>8, <1>9, <1>11

LEMMA GarbleReplyStep ==
    ASSUME LinkInv, GarbleReply PROVE LinkInv'
<1> USE DEF LinkInv, Fault
<1>1. PICK i \in 1..Len(toP4) : \E j, k \in 1..Len(toP4[i].items) :
        /\ j <= k
        /\ toP4' = [toP4 EXCEPT ![i] = Heard(@.type, Spoil(toP4[i].items, j, k), @.upto)]
        /\ spoilt' = spoilt \cup {toP4[i].items[l] : l \in j..k}
  BY DEF GarbleReply
<1>2. toP4 \in Seq(Replies) /\ toP4[i] \in Replies /\ toP4[i] \in ToSet(toP4)
      /\ DOMAIN toP4 = 1..Len(toP4)
  BY DEF TypeOK, ToSet
<1> DEFINE d == toP4[i]
           q == d.items
<1>3. PICK j \in 1..Len(q), k \in 1..Len(q) :
        /\ j <= k
        /\ toP4' = [toP4 EXCEPT ![i] = Heard(@.type, Spoil(q, j, k), @.upto)]
        /\ spoilt' = spoilt \cup {q[l] : l \in j..k}
  BY <1>1
<1> DEFINE t == Spoil(q, j, k)
           e == Heard(d.type, t, d.upto)
<1>4. d.type \in {"hb", "msgs"} /\ q \in Seq(Nat) /\ d.upto \in Nat
  BY <1>2 DEF Replies
<1>5. t \in Seq(Nat) /\ t # <<>> /\ ToSet(q) \subseteq ToSet(t) \cup {q[l] : l \in j..k}
  BY <1>3, <1>4, SpoilSet
<1> HIDE DEF t
<1>6. e \in Replies /\ e.type = d.type /\ e.items = t /\ e.upto = d.upto
  BY <1>4, <1>5 DEF Heard, Replies
<1>7. toP4' = [toP4 EXCEPT ![i] = e]
  BY <1>3 DEF t
<1>8. {q[l] : l \in j..k} \subseteq Nat
  BY <1>4
<1> HIDE DEF e, d, q
<1>9. toP4' \in Seq(Replies) /\ \A r \in ToSet(toP4') : r = e \/ r \in ToSet(toP4)
  BY <1>2, <1>6, <1>7 DEF ToSet
<1>10. UNCHANGED <<inbox, lineBuf, radioOK, air, accepted, toLora, rx, pc, fresh, logged,
                  sent, heard, splits>> /\ faults' = faults + 1
  BY DEF GarbleReply, board, hub
<1>11. TypeOK'
  <2>1. spoilt' \subseteq Nat
    BY <1>3, <1>8 DEF TypeOK
  <2> QED BY <2>1, <1>9, <1>10 DEF TypeOK
<1>12. spoilt \subseteq spoilt'
  BY <1>3
<1>13. Grown
  BY <1>10, <1>12, BoardKept
<1>14. DumpsCovered'
  <2> SUFFICES ASSUME NEW r \in ToSet(toP4'), r.type = "msgs"
               PROVE  r.items # <<>> /\ StillCovered(r.upto, ToSet(r.items))
    BY DEF DumpsCovered, Covered, StillCovered
  <2>1. CASE r \in ToSet(toP4)
    <3>1. r \in Replies BY <2>1 DEF TypeOK, ToSet
    <3>2. r.upto \in Nat BY <3>1 DEF Replies
    <3> QED BY <2>1, <3>2, <1>13, CoveredGrows DEF DumpsCovered
  <2>2. CASE r = e
    <3>1. Covered(d.upto, ToSet(q))
      BY <2>2, <1>2, <1>6 DEF DumpsCovered, d, q
    <3>2. StillCovered(d.upto, ToSet(q))
      BY <3>1, <1>4, <1>13, CoveredGrows
    <3> QED BY <2>2, <3>2, <1>3, <1>5, <1>6 DEF StillCovered
  <2> QED BY <2>1, <2>2, <1>9
<1>15. TaskCovered' /\ AckCoversItsDump'
  BY <1>10, <1>12 DEF TaskCovered, AckCoversItsDump, Covered, AcksIn
<1> QED BY <1>11, <1>14, <1>15

(* What survives a restart on either wire is a slice of it. *)
LEMMA CutSet ==
    ASSUME NEW S, NEW s \in Seq(S)
    PROVE  /\ \A k \in 0..Len(s) :
                 SubSeq(s, 1, k) \in Seq(S) /\ ToSet(SubSeq(s, 1, k)) \subseteq ToSet(s)
           /\ \A k \in 1..(Len(s) + 1) :
                 /\ SubSeq(s, k, Len(s)) \in Seq(S)
                 /\ ToSet(SubSeq(s, k, Len(s))) \subseteq ToSet(s)
<1>1. 1 \in 1..(Len(s) + 1) /\ Len(s) \in 0..Len(s)
  OBVIOUS
<1> QED BY <1>1, SliceSet

LEMMA HubRestartStep ==
    ASSUME LinkInv, HubRestart PROVE LinkInv'
<1> USE DEF LinkInv, HubRestart, Fault
<1>1. toLora' \in Seq(Words) /\ ToSet(toLora') \subseteq ToSet(toLora)
  BY CutSet DEF TypeOK
<1>2. toP4' \in Seq(Replies) /\ ToSet(toP4') \subseteq ToSet(toP4)
  BY CutSet DEF TypeOK
<1>3. TypeOK'
  <2>1. pc' \in [Writers -> {"idle", "nl"}]
    OBVIOUS
  <2>2. /\ rx' \in [state : {"read", "log", "ack"}, items : Seq(Nat), upto : Nat]
        /\ (rx'.state = "log") <=> (rx'.items # <<>>)
    BY WordsOK
  <2>3. fresh' \in BOOLEAN /\ faults' \in Nat
    <3>1. faults' = faults + 1
      OBVIOUS
    <3>2. faults \in Nat
      BY DEF TypeOK
    <3>3. faults' \in Nat
      BY <3>1, <3>2
    <3>4. fresh' \in BOOLEAN
      OBVIOUS
    <3> QED BY <3>3, <3>4
  <2> QED BY <2>1, <2>2, <2>3, <1>1, <1>2 DEF TypeOK, board
<1>4. Grown
  BY BoardKept DEF board
<1>5. RepliesKept /\ AcksKept /\ TaskKept
  BY <1>1, <1>2 DEF RepliesKept, AcksKept, AcksIn, TaskKept, board
<1> QED BY <1>3, <1>4, <1>5, QuietStep

LEMMA BoardRestartStep ==
    ASSUME LinkInv, BoardRestart PROVE LinkInv'
<1> USE DEF LinkInv, BoardRestart
<1>1. toLora' \in Seq(Words) /\ ToSet(toLora') \subseteq ToSet(toLora)
  BY CutSet DEF TypeOK
<1>2. toP4' \in Seq(Replies) /\ ToSet(toP4') \subseteq ToSet(toP4)
  BY CutSet DEF TypeOK
<1>3. Booted(inbox) \in Box /\ Booted(inbox).file = inbox.file
  BY DEF TypeOK, Booted, Box
<1>4. accepted \in Nat /\ faults \in Nat /\ Deposit(Booted(inbox), 1, 1)
  BY DEF TypeOK
<1>5. /\ Fed(Booted(inbox), inbox')
      /\ accepted' \in Nat /\ accepted' >= accepted /\ faults' \in Nat
  BY <1>3, <1>4, DepositFed
<1>6. radioOK' \in BOOLEAN
  BY DEF RadioStarts
<1>7. lineBuf' \in Seq(Words) /\ ToSet(lineBuf') = {}
  BY DEF ToSet
<1>8. TypeOK'
  <2>1. inbox' \in [file : Seq(Nat), hasData : BOOLEAN]
    BY <1>5 DEF Fed, Box
  <2> QED BY <2>1, <1>1, <1>2, <1>5, <1>6, <1>7 DEF TypeOK, hub
<1>9. Grown
  BY <1>3, <1>5 DEF Grown, Fed, hub
<1>10. RepliesKept /\ AcksKept /\ TaskKept
  BY <1>1, <1>2, <1>7 DEF RepliesKept, AcksKept, AcksIn, TaskKept, hub
<1> QED BY <1>8, <1>9, <1>10, QuietStep

-----------------------------------------------------------------------------
(* The theorems *)

LEMMA LinkInit == ASSUME Init PROVE LinkInv
<1> USE DEF Init
<1>1. TypeOK
  <2>1. /\ <<1>> \in Seq(Nat) /\ <<>> \in Seq(Nat)
        /\ <<>> \in Seq(Words) /\ <<>> \in Seq(Replies)
    OBVIOUS
  <2>2. inbox \in [file : Seq(Nat), hasData : BOOLEAN]
    BY <2>1
  <2>3. radioOK \in BOOLEAN
    BY DEF RadioStarts
  <2> QED BY <2>1, <2>2, <2>3, WordsOK DEF TypeOK
<1>2. ToSet(toP4) = {} /\ ToSet(toLora) = {} /\ ToSet(lineBuf) = {}
  BY DEF ToSet
<1>3. DumpsCovered /\ AckCoversItsDump
  BY <1>2 DEF DumpsCovered, AckCoversItsDump, AcksIn
<1>4. TaskCovered
  BY WordsOK DEF TaskCovered
<1> QED BY <1>1, <1>3, <1>4 DEF LinkInv

LEMMA LinkNext == ASSUME LinkInv, [Next]_vars PROVE LinkInv'
<1>1. CASE Poll BY <1>1, PollStep
<1>2. CASE PortalSend BY <1>2, PortalSendStep
<1>3. CASE \E w \in Writers : EndLine(w) BY <1>3, EndLineStep
<1>4. CASE HubReads BY <1>4, HubReadsStep
<1>5. CASE HubReadsTail BY <1>5, HubReadsTailStep
<1>6. CASE HubLogs BY <1>6, HubLogsStep
<1>7. CASE HubAcks BY <1>7, HubAcksStep
<1>8. CASE Expire BY <1>8, ExpireStep
<1>9. CASE BoardReads
  BY <1>9, ReadBodyStep, HandleFetchStep, HandleAckStep, HandleSendStep,
     HandleNothingStep DEF BoardReads
<1>10. CASE HearPacket BY <1>10, HearPacketStep
<1>11. CASE Heartbeat BY <1>11, HeartbeatStep
<1>12. CASE LoseWord BY <1>12, LoseWordStep
<1>13. CASE LoseReply BY <1>13, LoseReplyStep
<1>17. CASE GarbleReply BY <1>17, GarbleReplyStep
<1>14. CASE HubRestart BY <1>14, HubRestartStep
<1>15. CASE BoardRestart BY <1>15, BoardRestartStep
<1>16. CASE UNCHANGED vars
  <2> USE <1>16 DEF vars
  <2>1. TypeOK' BY DEF LinkInv, TypeOK, board, hub
  <2>2. Grown BY BoardKept DEF LinkInv, board, hub
  <2>3. RepliesKept /\ AcksKept /\ TaskKept
    BY DEF RepliesKept, AcksKept, TaskKept, board, hub
  <2> QED BY <2>1, <2>2, <2>3, QuietStep DEF LinkInv
<1> QED
  BY <1>1, <1>2, <1>3, <1>4, <1>5, <1>6, <1>7, <1>8, <1>9, <1>10, <1>11, <1>12,
     <1>13, <1>14, <1>15, <1>16, <1>17 DEF Next

(* The inductive invariant of the link: every dump on its way, the one in the
   rx task's hands and every acknowledgement cover only logged messages. *)
THEOREM LinkInvariant == Spec => []LinkInv
<1>1. Init => LinkInv BY LinkInit
<1>2. LinkInv /\ [Next]_vars => LinkInv' BY LinkNext
<1> QED BY <1>1, <1>2, PTL DEF Spec

(* TypeOK holds throughout, for any number of messages, faults and lines. *)
THEOREM TypeCorrect == Spec => []TypeOK
<1>1. LinkInv => TypeOK BY DEF LinkInv
<1> QED BY <1>1, LinkInvariant, PTL

(* inboxClear never destroys a message that was in the dump it answers and is
   not in the hub's log, whatever is lost, merged, repeated or restarted. *)
THEOREM AcksAreSafe == Spec => []AckCoversItsDump
<1>1. LinkInv => AckCoversItsDump BY DEF LinkInv
<1> QED BY <1>1, LinkInvariant, PTL

-----------------------------------------------------------------------------
(* Order in a sequence *)

(* Every two elements of s, in their order, are in the relation R. *)
Pairwise(s, R) == \A i, j \in 1..Len(s) : i < j => <<s[i], s[j]>> \in R

(* What was in order on the wire is so when its head is taken off it, *)
LEMMA TailPairwise ==
    ASSUME NEW S, NEW R, NEW s \in Seq(S), s # <<>>, Pairwise(s, R)
    PROVE  /\ Pairwise(Tail(s), R)
           /\ \A x \in ToSet(Tail(s)) : <<Head(s), x>> \in R
<1>1. /\ Len(s) \in Nat /\ Len(Tail(s)) = Len(s) - 1 /\ Head(s) = s[1] /\ Len(s) >= 1
      /\ DOMAIN Tail(s) = 1..Len(Tail(s))
      /\ \A i \in 1..Len(Tail(s)) : Tail(s)[i] = s[i + 1]
  OBVIOUS
<1>2. ASSUME NEW i \in 1..Len(Tail(s)), NEW j \in 1..Len(Tail(s)), i < j
      PROVE  <<Tail(s)[i], Tail(s)[j]>> \in R
  <2>1. i + 1 \in 1..Len(s) /\ j + 1 \in 1..Len(s) /\ i + 1 < j + 1
    BY <1>1, <1>2
  <2>2. <<s[i + 1], s[j + 1]>> \in R
    BY <2>1 DEF Pairwise
  <2> QED BY <2>2, <1>1
<1>3. ASSUME NEW i \in 1..Len(Tail(s))
      PROVE  <<Head(s), Tail(s)[i]>> \in R
  <2>1. 1 \in 1..Len(s) /\ i + 1 \in 1..Len(s) /\ 1 < i + 1
    BY <1>1
  <2>2. <<s[1], s[i + 1]>> \in R
    BY <2>1 DEF Pairwise
  <2> QED BY <2>2, <1>1
<1> QED BY <1>1, <1>2, <1>3 DEF Pairwise, ToSet

(* when something is appended that may follow all it holds, *)
LEMMA AppendPairwise ==
    ASSUME NEW S, NEW R, NEW s \in Seq(S), NEW x \in S, Pairwise(s, R),
           \A y \in ToSet(s) : <<y, x>> \in R
    PROVE  Pairwise(Append(s, x), R)
<1> DEFINE t == Append(s, x)
<1>1. /\ Len(s) \in Nat /\ Len(t) = Len(s) + 1 /\ t[Len(s) + 1] = x
      /\ \A i \in 1..Len(s) : t[i] = s[i]
      /\ DOMAIN s = 1..Len(s)
  OBVIOUS
<1> HIDE DEF t
<1> SUFFICES ASSUME NEW i \in 1..Len(t), NEW j \in 1..Len(t), i < j
             PROVE  <<t[i], t[j]>> \in R
  BY DEF Pairwise, t
<1>2. i \in 1..Len(s) /\ t[i] = s[i]
  BY <1>1
<1>3. CASE j \in 1..Len(s)
  BY <1>1, <1>2, <1>3 DEF Pairwise
<1>4. CASE j = Len(s) + 1
  <2>1. s[i] \in ToSet(s) BY <1>1, <1>2 DEF ToSet
  <2> QED BY <2>1, <1>1, <1>2, <1>4
<1> QED BY <1>1, <1>3, <1>4

(* when a piece is cut off either end, *)
LEMMA SlicePairwise ==
    ASSUME NEW S, NEW R, NEW s \in Seq(S), Pairwise(s, R),
           NEW a \in 1..(Len(s) + 1), NEW b \in 0..Len(s)
    PROVE  Pairwise(SubSeq(s, a, b), R)
<1> DEFINE t == SubSeq(s, a, b)
<1>1. /\ Len(s) \in Nat /\ a \in Nat /\ b \in Nat /\ a >= 1 /\ b <= Len(s)
      /\ Len(t) = IF a <= b THEN b - a + 1 ELSE 0
      /\ \A i \in 1..Len(t) : t[i] = s[a + i - 1]
  BY SubSeqProperties
<1> HIDE DEF t
<1> SUFFICES ASSUME NEW i \in 1..Len(t), NEW j \in 1..Len(t), i < j
             PROVE  <<t[i], t[j]>> \in R
  BY DEF Pairwise, t
<1>2. a <= b /\ Len(t) = b - a + 1
  BY <1>1
<1>3. a + i - 1 \in 1..Len(s) /\ a + j - 1 \in 1..Len(s) /\ a + i - 1 < a + j - 1
  BY <1>1, <1>2
<1>4. <<s[a + i - 1], s[a + j - 1]>> \in R
  BY <1>3 DEF Pairwise
<1> QED BY <1>4, <1>1

LEMMA CutPairwise ==
    ASSUME NEW S, NEW R, NEW s \in Seq(S), Pairwise(s, R)
    PROVE  /\ \A k \in 0..Len(s) : Pairwise(SubSeq(s, 1, k), R)
           /\ \A k \in 1..(Len(s) + 1) : Pairwise(SubSeq(s, k, Len(s)), R)
<1>1. 1 \in 1..(Len(s) + 1) /\ Len(s) \in 0..Len(s)
  OBVIOUS
<1> QED BY <1>1, SlicePairwise

(* and when one element gets lost. *)
LEMMA RemovePairwise ==
    ASSUME NEW S, NEW R, NEW s \in Seq(S), Pairwise(s, R), NEW k \in 1..Len(s)
    PROVE  Pairwise(RemoveAt(s, k), R)
<1> DEFINE u == SubSeq(s, 1, k - 1)
           v == SubSeq(s, k + 1, Len(s))
<1>1. /\ Len(s) \in Nat /\ k \in Nat /\ k >= 1 /\ k <= Len(s)
      /\ u \in Seq(S) /\ v \in Seq(S)
      /\ Len(u) = k - 1 /\ Len(v) = Len(s) - k
      /\ \A i \in 1..Len(u) : u[i] = s[i]
      /\ \A i \in 1..Len(v) : v[i] = s[k + i]
  <2>1. /\ 1 \in 1..(Len(s) + 1) /\ k - 1 \in 0..Len(s) /\ Len(s) \in Nat
        /\ k + 1 \in 1..(Len(s) + 1) /\ Len(s) \in 0..Len(s)
    OBVIOUS
  <2>2. /\ u \in Seq(S) /\ Len(u) = k - 1
        /\ \A i \in 1..Len(u) : u[i] = s[i]
    BY <2>1, SubSeqProperties
  <2>3. /\ v \in Seq(S) /\ Len(v) = Len(s) - k
        /\ \A i \in 1..Len(v) : v[i] = s[k + i]
    BY <2>1, SubSeqProperties
  <2> QED BY <2>1, <2>2, <2>3
<1>2. RemoveAt(s, k) = u \o v
  BY DEF RemoveAt
<1> HIDE DEF u, v
<1> DEFINE t == u \o v
<1>3. /\ Len(t) = Len(s) - 1
      /\ \A i \in 1..Len(u) : t[i] = u[i]
      /\ \A i \in (Len(u) + 1)..Len(t) : t[i] = v[i - Len(u)]
  BY <1>1, ConcatProperties
<1> HIDE DEF t
<1>4. ASSUME NEW i \in 1..Len(t)
      PROVE  t[i] = IF i < k THEN s[i] ELSE s[i + 1]
  <2>1. CASE i < k
    <3>1. i \in 1..Len(u) BY <2>1, <1>1, <1>3
    <3>2. t[i] = u[i] /\ u[i] = s[i] BY <3>1, <1>1, <1>3
    <3> QED BY <3>2, <2>1
  <2>2. CASE ~(i < k)
    <3>1. i \in (Len(u) + 1)..Len(t) /\ i - Len(u) \in 1..Len(v)
          /\ k + (i - Len(u)) = i + 1
      BY <2>2, <1>1, <1>3
    <3>2. t[i] = v[i - Len(u)] /\ v[i - Len(u)] = s[k + (i - Len(u))]
      BY <3>1, <1>1, <1>3
    <3> QED BY <3>1, <3>2, <2>2
  <2> QED BY <2>1, <2>2
<1> SUFFICES ASSUME NEW i \in 1..Len(t), NEW j \in 1..Len(t), i < j
             PROVE  <<t[i], t[j]>> \in R
  BY <1>2 DEF Pairwise, t
<1> DEFINE a == IF i < k THEN i ELSE i + 1
           b == IF j < k THEN j ELSE j + 1
<1>5. t[i] = s[a] /\ t[j] = s[b]
  BY <1>4
<1>6. a \in 1..Len(s) /\ b \in 1..Len(s) /\ a < b
  BY <1>1, <1>3
<1> HIDE DEF a, b
<1>7. <<s[a], s[b]>> \in R
  BY <1>6 DEF Pairwise
<1> QED BY <1>5, <1>7

-----------------------------------------------------------------------------
(* The flag inboxHasData *)

(* As long as no file operation fails, what is stored raises the flag. *)
LEMMA DepositFlag ==
    ASSUME "fs" \notin FaultKinds, NEW box \in Box, box.hasData <=> box.file # <<>>,
           NEW k \in 0..2, NEW n, Deposit(box, k, n), accepted \in Nat
    PROVE  FlagTracksFile'
<1>1. inbox' = StoreAll(box, k)
  BY DEF Deposit, MayFail
<1>2. ASSUME NEW b \in Box, NEW m \in Nat
      PROVE  /\ Stored(b, m) \in Box
             /\ Stored(b, m).hasData /\ Stored(b, m).file # <<>>
  <2>1. b.file \in Seq(Nat) BY DEF Box
  <2>2. Trim(b.file) \in Seq(Nat) BY <2>1, TrimSet
  <2> DEFINE t == Trim(b.file)
  <2> HIDE DEF t
  <2>3. Append(t, m) \in Seq(Nat) /\ Len(Append(t, m)) = Len(t) + 1 /\ Len(t) \in Nat
    BY <2>2 DEF t
  <2>4. Append(t, m) # <<>>
    BY <2>3
  <2> QED BY <2>3, <2>4 DEF Stored, Box, t
<1>3. CASE k = 0
  <2>1. inbox' = box BY <1>1, <1>3 DEF StoreAll
  <2> QED BY <2>1 DEF FlagTracksFile
<1>4. CASE k = 1
  <2>1. inbox' = Stored(box, accepted + 1) BY <1>1, <1>4 DEF StoreAll
  <2>2. inbox'.hasData /\ inbox'.file # <<>> BY <2>1, <1>2
  <2> QED BY <2>2 DEF FlagTracksFile
<1>5. CASE k = 2
  <2>1. inbox' = Stored(Stored(box, accepted + 1), accepted + 2)
    BY <1>1, <1>5 DEF StoreAll
  <2>2. /\ accepted + 1 \in Nat /\ accepted + 2 \in Nat
        /\ Stored(box, accepted + 1) \in Box
    BY <1>2
  <2>3. inbox'.hasData /\ inbox'.file # <<>> BY <2>1, <2>2, <1>2
  <2> QED BY <2>3 DEF FlagTracksFile
<1> QED BY <1>3, <1>4, <1>5

(* How a step can change the file: not at all, by an acknowledgement, or by
   depositing messages, after a restart into the box as setup() left it. *)
LEMMA InboxSteps ==
    ASSUME [Next]_vars
    PROVE  \/ UNCHANGED <<inbox, accepted>>
           \/ HandleAck
           \/ \E k \in 0..2, n \in 0..1 : Deposit(inbox, k, n)
           \/ \E k \in 0..2, n \in 0..1 : Deposit(Booted(inbox), k, n)
<1>1. 1 \in 0..2 /\ 0 \in 0..1 /\ 1 \in 0..1
  OBVIOUS
<1>2. CASE Poll \/ PortalSend \/ \E w \in Writers : EndLine(w)
  BY <1>2 DEF Poll, PortalSend, EndLine, board
<1>3. CASE HubReads \/ HubReadsTail \/ HubLogs \/ HubAcks \/ Expire
  BY <1>3 DEF HubReads, HubReadsTail, HubLogs, HubAcks, Expire, board
<1>4. CASE ReadBody \/ HandleFetch \/ HandleNothing
  BY <1>4 DEF ReadBody, HandleFetch, HandleNothing
<1>5. CASE HandleSend
  BY <1>5, SendDeposits
<1>6. CASE HearPacket
  BY <1>1, <1>6 DEF HearPacket
<1>7. CASE Heartbeat \/ LoseWord \/ LoseReply \/ GarbleReply \/ HubRestart
  BY <1>7 DEF Heartbeat, LoseWord, LoseReply, GarbleReply, HubRestart, board
<1>8. CASE BoardRestart
  BY <1>1, <1>8 DEF BoardRestart
<1>9. CASE UNCHANGED vars
  BY <1>9 DEF vars, board
<1> QED BY <1>2, <1>3, <1>4, <1>5, <1>6, <1>7, <1>8, <1>9 DEF Next, BoardReads

LEMMA FlagNext ==
    ASSUME "fs" \notin FaultKinds, LinkInv, FlagTracksFile, [Next]_vars
    PROVE  FlagTracksFile'
<1>1. inbox \in Box /\ accepted \in Nat
  BY DEF LinkInv, TypeOK, Box
<1>2. CASE UNCHANGED <<inbox, accepted>>
  BY <1>2 DEF FlagTracksFile
<1>3. CASE HandleAck
  <2>1. inbox' = Cleared(inbox)
    BY <1>3 DEF HandleAck, Fault, MayFail
  <2> QED BY <2>1 DEF Cleared, FlagTracksFile
<1>4. CASE \E k \in 0..2, n \in 0..1 : Deposit(inbox, k, n)
  BY <1>1, <1>4, DepositFlag DEF FlagTracksFile
<1>5. CASE \E k \in 0..2, n \in 0..1 : Deposit(Booted(inbox), k, n)
  <2>1. /\ Booted(inbox) \in Box
        /\ Booted(inbox).hasData <=> Booted(inbox).file # <<>>
    BY <1>1 DEF Booted, Box
  <2> QED BY <1>1, <1>5, <2>1, DepositFlag
<1> QED BY <1>2, <1>3, <1>4, <1>5, InboxSteps

(* Without a failing file operation the flag tells, through every trim, every
   acknowledgement and every restart of the board, whether the file holds
   anything: a heartbeat never hides a backlog, and "fetch" never misses one. *)
THEOREM FlagTellsTheFile ==
    ASSUME "fs" \notin FaultKinds PROVE Spec => []FlagTracksFile
<1>1. Init => FlagTracksFile
  BY DEF Init, FlagTracksFile
<1>2. LinkInv /\ FlagTracksFile /\ [Next]_vars => FlagTracksFile'
  BY FlagNext
<1> QED BY <1>1, <1>2, LinkInvariant, PTL DEF Spec

-----------------------------------------------------------------------------
(* The order of the sends *)

SendsOf(s) == {w \in ToSet(s) : IsSend(w)}
LaterSend == {p \in Words \X Words : IsSend(p[1]) /\ IsSend(p[2]) => p[1].n < p[2].n}
Larger == {p \in Nat \X Nat : p[1] < p[2]}

\* What SendsInOrder needs to be inductive: along the whole way of a request,
\* from the portal's counter over the wire and the board's line to the air,
\* the requests are in order.
OrderInv ==
    /\ Pairwise(air, Larger) /\ Pairwise(lineBuf, LaterSend) /\ Pairwise(toLora, LaterSend)
    /\ \A m \in ToSet(air), w \in SendsOf(lineBuf) \cup SendsOf(toLora) : m < w.n
    /\ \A v \in SendsOf(lineBuf), w \in SendsOf(toLora) : v.n < w.n
    /\ \A m \in ToSet(air) : m <= sent
    /\ \A w \in SendsOf(lineBuf) \cup SendsOf(toLora) : w.n <= sent

LEMMA OrderTypes ==
    ASSUME TypeOK
    PROVE  /\ sent \in Nat /\ ToSet(air) \subseteq Nat
           /\ ToSet(lineBuf) \subseteq Words /\ ToSet(toLora) \subseteq Words
           /\ \A w \in Words : w.n \in Nat
<1>1. sent \in Nat /\ air \in Seq(Nat) /\ lineBuf \in Seq(Words) /\ toLora \in Seq(Words)
  BY DEF TypeOK
<1>2. /\ ToSet(air) \subseteq Nat
      /\ ToSet(lineBuf) \subseteq Words /\ ToSet(toLora) \subseteq Words
  BY <1>1 DEF ToSet
<1>3. \A w \in Words : w.n \in Nat
  BY DEF Words
<1> QED BY <1>1, <1>2, <1>3

(* A step that puts no request anywhere keeps what is there in order. *)
LEMMA OrderKept ==
    ASSUME TypeOK, OrderInv, sent' = sent, air' = air,
           Pairwise(lineBuf', LaterSend), Pairwise(toLora', LaterSend),
           SendsOf(lineBuf') \subseteq SendsOf(lineBuf),
           SendsOf(toLora') \subseteq SendsOf(toLora)
    PROVE  OrderInv'
BY DEF OrderInv

LEMMA EmptyLine == Pairwise(<<>>, LaterSend) /\ ToSet(<<>>) = {} /\ SendsOf(<<>>) = {}
BY DEF Pairwise, ToSet, SendsOf

(* A line the hub writes takes its place behind everything on the wire. *)
LEMMA SendLineOrder ==
    ASSUME TypeOK, NEW w \in Writers, NEW body \in Words, SendLine(w, body),
           Pairwise(toLora, LaterSend),
           \A y \in SendsOf(toLora) : IsSend(body) => y.n < body.n
    PROVE  /\ Pairwise(toLora', LaterSend)
           /\ SendsOf(toLora') \subseteq SendsOf(toLora) \cup {b \in {body} : IsSend(b)}
<1>1. /\ toLora \in Seq(Words) /\ Newline \in Words /\ ~IsSend(Newline)
      /\ ToSet(toLora) \subseteq Words
  BY OrderTypes, WordsOK DEF TypeOK, IsSend, Newline, Word
<1>2. \A y \in ToSet(toLora) : <<y, body>> \in LaterSend
  BY <1>1 DEF LaterSend, SendsOf
<1> DEFINE t == Append(toLora, body)
<1>3. /\ t \in Seq(Words) /\ ToSet(t) = ToSet(toLora) \cup {body}
      /\ Pairwise(t, LaterSend)
  BY <1>1, <1>2, AppendSet, AppendPairwise
<1>4. toLora \o <<body, Newline>> = Append(t, Newline)
  BY <1>1
<1> HIDE DEF t
<1>5. \A y \in ToSet(t) : <<y, Newline>> \in LaterSend
  BY <1>1, <1>3 DEF LaterSend
<1>6. Pairwise(Append(t, Newline), LaterSend)
  BY <1>1, <1>3, <1>5, AppendPairwise
<1>7. toLora' = Append(t, Newline) \/ toLora' = t
  BY <1>4 DEF SendLine, t
<1>8. ToSet(toLora') \subseteq ToSet(toLora) \cup {body, Newline}
  BY SendLineSet
<1>9. SendsOf(toLora') \subseteq SendsOf(toLora) \cup {b \in {body} : IsSend(b)}
  BY <1>1, <1>8 DEF SendsOf
<1>10. Pairwise(toLora', LaterSend)
  BY <1>3, <1>6, <1>7
<1> QED BY <1>9, <1>10

LEMMA QuietLine ==
    ASSUME TypeOK, OrderInv, NEW w \in Writers, NEW body \in Words, SendLine(w, body),
           ~IsSend(body), sent' = sent, air' = air, lineBuf' = lineBuf
    PROVE  OrderInv'
<1>1. /\ Pairwise(toLora', LaterSend)
      /\ SendsOf(toLora') \subseteq SendsOf(toLora)
  BY SendLineOrder DEF OrderInv
<1> QED BY <1>1, OrderKept DEF OrderInv

LEMMA PortalSendOrder ==
    ASSUME TypeOK, OrderInv, PortalSend PROVE OrderInv'
<1> USE DEF PortalSend
<1>1. PICK t \in Texts : SendLine("http", Send(sent + 1, t))
  OBVIOUS
<1> DEFINE b == Send(sent + 1, t)
<1>2. b \in Words /\ b.n = sent + 1 /\ sent \in Nat /\ sent' = sent + 1
  <2>1. sent \in Nat /\ sent + 1 \in Nat
    BY OrderTypes
  <2>2. sent' = sent + 1
    OBVIOUS
  <2>3. b \in Words
    BY <2>1, WordsOK
  <2>4. b.n = sent + 1
    BY DEF Send, Word
  <2> QED BY <2>1, <2>2, <2>3, <2>4
<1> HIDE DEF b
<1>3. \A y \in SendsOf(toLora) : y.n < b.n
  BY <1>2, OrderTypes DEF OrderInv, SendsOf
<1>4. /\ Pairwise(toLora', LaterSend)
      /\ SendsOf(toLora') \subseteq SendsOf(toLora) \cup {b}
  <2>1. SendLine("http", b) BY <1>1 DEF b
  <2>2. Pairwise(toLora, LaterSend) BY DEF OrderInv
  <2> QED BY <1>2, <1>3, <2>1, <2>2, SendLineOrder DEF Writers
<1>5. UNCHANGED <<air, lineBuf>>
  BY DEF board
<1>6. \A m \in ToSet(air) : m < b.n /\ m <= sent'
  BY <1>2, OrderTypes DEF OrderInv
<1>7. \A v \in SendsOf(lineBuf) : v.n < b.n /\ v.n <= sent'
  BY <1>2, OrderTypes DEF OrderInv, SendsOf
<1>8. \A v \in SendsOf(toLora') : v.n <= sent'
  BY <1>2, <1>4, OrderTypes DEF OrderInv, SendsOf
<1> QED BY <1>4, <1>5, <1>6, <1>7, <1>8 DEF OrderInv

(* The wire behind the token the board takes from it. *)
LEMMA TakeWord ==
    ASSUME TypeOK, OrderInv, toLora # <<>>, toLora' = Tail(toLora)
    PROVE  /\ Pairwise(toLora', LaterSend)
           /\ SendsOf(toLora') \subseteq SendsOf(toLora)
           /\ Head(toLora) \in Words /\ Head(toLora) \in ToSet(toLora)
           /\ \A w \in SendsOf(toLora') : IsSend(Head(toLora)) => Head(toLora).n < w.n
<1>1. toLora \in Seq(Words) /\ Pairwise(toLora, LaterSend)
  BY DEF TypeOK, OrderInv
<1>2. /\ Pairwise(Tail(toLora), LaterSend)
      /\ \A x \in ToSet(Tail(toLora)) : <<Head(toLora), x>> \in LaterSend
  BY <1>1, TailPairwise
<1>3. /\ ToSet(Tail(toLora)) \subseteq ToSet(toLora)
      /\ Head(toLora) \in Words /\ Head(toLora) \in ToSet(toLora)
  BY <1>1, TailSet
<1>4. \A w \in SendsOf(toLora') : IsSend(Head(toLora)) => Head(toLora).n < w.n
  BY <1>2 DEF LaterSend, SendsOf
<1> QED BY <1>2, <1>3, <1>4 DEF SendsOf

LEMMA ReadBodyOrder ==
    ASSUME TypeOK, OrderInv, ReadBody PROVE OrderInv'
<1> DEFINE w == Head(toLora)
<1>1. /\ toLora # <<>> /\ toLora' = Tail(toLora) /\ UNCHANGED <<air, sent>>
      /\ lineBuf' \in {<<>>, <<w>>, Append(lineBuf, w)}
  BY DEF ReadBody, Extend, hub
<1>2. /\ Pairwise(toLora', LaterSend) /\ SendsOf(toLora') \subseteq SendsOf(toLora)
      /\ w \in Words /\ w \in ToSet(toLora)
      /\ \A y \in SendsOf(toLora') : IsSend(w) => w.n < y.n
  BY <1>1, TakeWord
<1> HIDE DEF w
<1>3. lineBuf \in Seq(Words) /\ ToSet(lineBuf) \subseteq Words
  BY OrderTypes DEF TypeOK
<1>4. \A y \in ToSet(lineBuf) : <<y, w>> \in LaterSend
  BY <1>2, <1>3 DEF LaterSend, OrderInv, SendsOf
<1>5. /\ Pairwise(Append(lineBuf, w), LaterSend)
      /\ ToSet(Append(lineBuf, w)) = ToSet(lineBuf) \cup {w}
  BY <1>2, <1>3, <1>4, AppendPairwise, AppendSet DEF OrderInv
<1>6. Pairwise(<<w>>, LaterSend) /\ ToSet(<<w>>) = {w}
  BY DEF Pairwise, ToSet
<1>7. Pairwise(lineBuf', LaterSend) /\ ToSet(lineBuf') \subseteq ToSet(lineBuf) \cup {w}
  BY <1>1, <1>5, <1>6, EmptyLine
<1>8. SendsOf(lineBuf') \subseteq SendsOf(lineBuf) \cup {x \in {w} : IsSend(x)}
  BY <1>7 DEF SendsOf
<1>9. IsSend(w) => w \in SendsOf(toLora)
  BY <1>2 DEF SendsOf
<1>10. \A v \in SendsOf(lineBuf'), y \in SendsOf(toLora') : v.n < y.n
  BY <1>2, <1>8 DEF OrderInv
<1>11. \A v \in SendsOf(lineBuf') \cup SendsOf(toLora') :
          v \in SendsOf(lineBuf) \cup SendsOf(toLora)
  BY <1>2, <1>8, <1>9
<1> QED BY <1>1, <1>2, <1>7, <1>10, <1>11 DEF OrderInv

(* At the end of its line at most one request leaves for the air: one that
   follows all that went before it and precedes all that are still to come. *)
LEMMA LineEndsOrder ==
    ASSUME TypeOK, OrderInv, LineEnds, sent' = sent,
           \/ air' = air
           \/ \E i \in 1..Len(lineBuf) :
                 IsSend(lineBuf[i]) /\ air' = Append(air, lineBuf[i].n)
    PROVE  OrderInv'
<1>1. /\ toLora # <<>> /\ toLora' = Tail(toLora) /\ lineBuf' = <<>>
  BY DEF LineEnds, AfterLine
<1>2. /\ Pairwise(toLora', LaterSend) /\ SendsOf(toLora') \subseteq SendsOf(toLora)
  BY <1>1, TakeWord
<1>3. /\ Pairwise(lineBuf', LaterSend) /\ SendsOf(lineBuf') = {}
  BY <1>1, EmptyLine
<1>4. CASE air' = air
  BY <1>2, <1>3, <1>4, OrderKept
<1>5. CASE \E i \in 1..Len(lineBuf) :
              IsSend(lineBuf[i]) /\ air' = Append(air, lineBuf[i].n)
  <2>1. PICK i \in 1..Len(lineBuf) :
           IsSend(lineBuf[i]) /\ air' = Append(air, lineBuf[i].n)
    BY <1>5
  <2> DEFINE v == lineBuf[i]
  <2>2. v \in SendsOf(lineBuf) /\ v.n \in Nat /\ v.n <= sent
    <3>1. v \in SendsOf(lineBuf) /\ v \in Words
      BY <2>1 DEF SendsOf, ToSet, TypeOK
    <3> QED BY <3>1, OrderTypes DEF OrderInv
  <2>3. air' = Append(air, v.n) BY <2>1
  <2> HIDE DEF v
  <2>4. air \in Seq(Nat) /\ ToSet(air) \subseteq Nat
    BY OrderTypes DEF TypeOK
  <2>5. \A m \in ToSet(air) : <<m, v.n>> \in Larger
    BY <2>2, <2>4 DEF Larger, OrderInv
  <2>6. Pairwise(air', Larger) /\ ToSet(air') = ToSet(air) \cup {v.n}
    BY <2>2, <2>3, <2>4, <2>5, AppendPairwise, AppendSet DEF OrderInv
  <2>7. \A m \in ToSet(air'), w \in SendsOf(toLora') : m < w.n
    BY <1>2, <2>2, <2>6 DEF OrderInv
  <2>8. \A m \in ToSet(air') : m <= sent
    BY <2>2, <2>6 DEF OrderInv
  <2> QED BY <1>2, <1>3, <2>6, <2>7, <2>8 DEF OrderInv
<1> QED BY <1>4, <1>5

(* A wire that lost a token, or was cut by a restart. *)
LEMMA ThinnedOrder ==
    ASSUME TypeOK, OrderInv, sent' = sent, air' = air,
           lineBuf' = lineBuf \/ lineBuf' = <<>>,
           \/ \E i \in 1..Len(toLora) : toLora' = RemoveAt(toLora, i)
           \/ \E k \in 0..Len(toLora) : toLora' = SubSeq(toLora, 1, k)
           \/ \E k \in 1..(Len(toLora) + 1) : toLora' = SubSeq(toLora, k, Len(toLora))
    PROVE  OrderInv'
<1>1. toLora \in Seq(Words) /\ Pairwise(toLora, LaterSend)
  BY DEF TypeOK, OrderInv
<1>2. Pairwise(toLora', LaterSend)
  BY <1>1, RemovePairwise, CutPairwise
<1>3. ToSet(toLora') \subseteq ToSet(toLora)
  BY <1>1, RemoveSet, CutSet
<1>4. Pairwise(lineBuf', LaterSend) /\ SendsOf(lineBuf') \subseteq SendsOf(lineBuf)
  BY EmptyLine DEF OrderInv
<1> QED BY <1>2, <1>3, <1>4, OrderKept DEF SendsOf

LEMMA OrderNext ==
    ASSUME LinkInv, OrderInv, [Next]_vars PROVE OrderInv'
<1>1. TypeOK BY DEF LinkInv
<1>2. CASE Poll
  <2>1. SendLine("poll", Fetch) /\ UNCHANGED <<sent, air, lineBuf>>
    BY <1>2 DEF Poll, board
  <2>2. Fetch \in Words /\ ~IsSend(Fetch) BY WordsOK DEF IsSend, Fetch, Word
  <2> QED BY <1>1, <2>1, <2>2, QuietLine DEF Writers
<1>3. CASE PortalSend BY <1>1, <1>3, PortalSendOrder
<1>4. CASE \E w \in Writers : EndLine(w)
  <2>1. toLora' = Append(toLora, Newline) /\ UNCHANGED <<sent, air, lineBuf>>
    BY <1>4 DEF EndLine, board
  <2>2. /\ toLora \in Seq(Words) /\ ToSet(toLora) \subseteq Words
        /\ Newline \in Words /\ ~IsSend(Newline)
    BY <1>1, OrderTypes, WordsOK DEF TypeOK, IsSend, Newline, Word
  <2>3. \A y \in ToSet(toLora) : <<y, Newline>> \in LaterSend
    BY <2>2 DEF LaterSend
  <2>4. Pairwise(toLora', LaterSend) /\ ToSet(toLora') = ToSet(toLora) \cup {Newline}
    BY <2>1, <2>2, <2>3, AppendPairwise, AppendSet DEF OrderInv
  <2>5. SendsOf(toLora') \subseteq SendsOf(toLora)
    BY <2>2, <2>4 DEF SendsOf
  <2>6. Pairwise(lineBuf', LaterSend)
    BY <2>1 DEF OrderInv
  <2> QED BY <1>1, <2>1, <2>4, <2>5, <2>6, OrderKept
<1>5. CASE HubAcks
  <2>1. /\ SendLine("rx", Ack(rx.upto)) /\ UNCHANGED <<sent, air, lineBuf>>
        /\ rx.upto \in Nat
    BY <1>1, <1>5 DEF HubAcks, board, TypeOK
  <2>2. Ack(rx.upto) \in Words /\ ~IsSend(Ack(rx.upto))
    BY <2>1, WordsOK DEF IsSend, Ack, Word
  <2> QED BY <1>1, <2>1, <2>2, QuietLine DEF Writers
<1>6. CASE ReadBody BY <1>1, <1>6, ReadBodyOrder
<1>7. CASE HandleFetch \/ HandleAck \/ HandleNothing
  <2>1. LineEnds /\ UNCHANGED <<sent, air>>
    BY <1>7 DEF HandleFetch, HandleAck, HandleNothing, hub
  <2> QED BY <1>1, <2>1, LineEndsOrder
<1>8. CASE HandleSend
  <2>1. LineEnds /\ sent' = sent
    BY <1>8 DEF HandleSend, hub
  <2>2. \/ air' = air
        \/ \E i \in 1..Len(lineBuf) :
              IsSend(lineBuf[i]) /\ air' = Append(air, lineBuf[i].n)
    BY <1>8, SendDeposits
  <2> QED BY <1>1, <2>1, <2>2, LineEndsOrder
<1>9. CASE LoseWord
  BY <1>1, <1>9, ThinnedOrder DEF LoseWord, board, hub
<1>10. CASE HubRestart
  BY <1>1, <1>10, ThinnedOrder DEF HubRestart, board
<1>11. CASE BoardRestart
  BY <1>1, <1>11, ThinnedOrder DEF BoardRestart, hub
<1>12. CASE \/ HubReads \/ HubReadsTail \/ HubLogs \/ Expire \/ HearPacket
            \/ Heartbeat \/ LoseReply \/ GarbleReply \/ UNCHANGED vars
  <2>1. UNCHANGED <<sent, air, lineBuf, toLora>>
    BY <1>12 DEF HubReads, HubReadsTail, HubLogs, Expire, HearPacket, Heartbeat,
       LoseReply, GarbleReply, vars, board, hub
  <2> QED BY <1>1, <2>1, OrderKept DEF OrderInv
<1> QED
  BY <1>2, <1>3, <1>4, <1>5, <1>6, <1>7, <1>8, <1>9, <1>10, <1>11, <1>12
  DEF Next, BoardReads

LEMMA OrderInit == ASSUME Init PROVE OrderInv
<1>1. air = <<>> /\ lineBuf = <<>> /\ toLora = <<>>
  BY DEF Init
<1>2. Pairwise(<<>>, Larger)
  BY DEF Pairwise
<1> QED BY <1>1, <1>2, EmptyLine DEF OrderInv

(* The order of requests is kept all the way, so that SendsInOrder holds. *)
THEOREM OrderInvariant == Spec => []OrderInv
<1>1. Init => OrderInv BY OrderInit
<1>2. LinkInv /\ OrderInv /\ [Next]_vars => OrderInv' BY OrderNext
<1> QED BY <1>1, <1>2, LinkInvariant, PTL DEF Spec

(* Whatever the three tasks of the hub interleave, whatever bytes are lost and
   whichever side restarts, the portal's messages go on the air in the order
   they were accepted and none of them twice. *)
THEOREM SendsGoOutInOrder == Spec => []SendsInOrder
<1>1. TypeOK /\ OrderInv => SendsInOrder
  BY DEF TypeOK, OrderInv, Pairwise, Larger, SendsInOrder
<1> QED BY <1>1, TypeCorrect, OrderInvariant, PTL

-----------------------------------------------------------------------------
(* The order of first deliveries: the link implements Mailbox *)

\* Messages in the order of their acceptance, none accepted later than u.
Queue(q, u) == q \in Seq(Nat) /\ Pairwise(q, Larger) /\ ToSet(q) \subseteq 1..u

\* A message of l older than one of e is in e as well, or in the log: reading
\* e and then l, no message of l comes late.
Before(e, l, log) == \A x \in e, m \in l : m < x => m \in e \cup log

LaterDump(log) ==
    {p \in Replies \X Replies : Before(ToSet(p[1].items), ToSet(p[2].items), log)}

\* The log, the dump in the rx task's hands, the dumps on the wire and the file
\* are the copies of the inbox from the oldest to the newest.
DeliveryInv ==
    /\ Queue(inbox.file, accepted) /\ Queue(rx.items, accepted)
    /\ \A d \in ToSet(toP4) : Queue(d.items, accepted)
    /\ logged \subseteq 1..accepted
    /\ Before(logged, ToSet(rx.items), logged)
    /\ Before(logged, ToSet(inbox.file), logged)
    /\ Before(ToSet(rx.items), ToSet(inbox.file), logged)
    /\ \A d \in ToSet(toP4) :
          /\ Before(logged, ToSet(d.items), logged)
          /\ Before(ToSet(rx.items), ToSet(d.items), logged)
          /\ Before(ToSet(d.items), ToSet(inbox.file), logged)
    /\ Pairwise(toP4, LaterDump(logged))

LEMMA QueueEmpty == ASSUME NEW u PROVE Queue(<<>>, u) /\ ToSet(<<>>) = {}
BY DEF Queue, Pairwise, ToSet

LEMMA QueueWider ==
    ASSUME NEW q, NEW u \in Nat, NEW v \in Nat, u <= v, Queue(q, u)
    PROVE  Queue(q, v)
BY DEF Queue

LEMMA QueueAppend ==
    ASSUME NEW q, NEW u \in Nat, NEW m \in Nat, m > u, Queue(q, u)
    PROVE  Queue(Append(q, m), m)
<1>1. q \in Seq(Nat) /\ ToSet(q) \subseteq 1..u /\ Pairwise(q, Larger)
  BY DEF Queue
<1>2. \A y \in ToSet(q) : <<y, m>> \in Larger
  BY <1>1 DEF Larger
<1>3. /\ Append(q, m) \in Seq(Nat) /\ ToSet(Append(q, m)) = ToSet(q) \cup {m}
      /\ Pairwise(Append(q, m), Larger)
  BY <1>1, <1>2, AppendSet, AppendPairwise
<1> QED BY <1>1, <1>3 DEF Queue

LEMMA QueueTrim ==
    ASSUME NEW q, NEW u, Queue(q, u) PROVE Queue(Trim(q), u)
<1>1. q \in Seq(Nat) /\ ToSet(q) \subseteq 1..u /\ Pairwise(q, Larger)
  BY DEF Queue
<1>2. Trim(q) \in Seq(Nat) /\ ToSet(Trim(q)) \subseteq ToSet(q)
  BY <1>1, TrimSet
<1>3. CASE Len(q) > InboxMax
  <2>1. Len(q) \in Nat /\ Len(q) >= 1
    BY <1>1, <1>3, LinkAssumption DEF LinkAssumption
  <2>2. Len(q) - ((Len(q) - 1) \div 2) + 1 \in 1..(Len(q) + 1)
    BY <2>1, Z3
  <2>3. Pairwise(Trim(q), Larger)
    BY <1>1, <1>3, <2>2, CutPairwise DEF Trim
  <2> QED BY <1>1, <1>2, <2>3 DEF Queue
<1>4. CASE ~(Len(q) > InboxMax)
  BY <1>4 DEF Trim
<1> QED BY <1>3, <1>4

LEMMA StoredQueue ==
    ASSUME NEW box \in Box, NEW u \in Nat, Queue(box.file, u), NEW m \in Nat, m > u
    PROVE  Stored(box, m) \in Box /\ Queue(Stored(box, m).file, m)
<1>1. Queue(Append(Trim(box.file), m), m)
  BY QueueTrim, QueueAppend
<1> QED BY <1>1 DEF Stored, Box, Queue

LEMMA StoreFailedQueue ==
    ASSUME NEW box \in Box, NEW u \in Nat, Queue(box.file, u), NEW m \in Nat, m > u,
           NEW new \in StoreFailed(box, m)
    PROVE  new \in Box /\ Queue(new.file, m)
<1>1. u <= m OBVIOUS
<1>2. Queue(box.file, m) /\ Queue(Trim(box.file), m)
  BY <1>1, QueueWider, QueueTrim
<1>3. Queue(Append(box.file, m), m)
  BY QueueAppend
<1>4. Queue(<<>>, m) /\ Queue(<<>>, u)
  BY QueueEmpty
<1>5. Queue(<<m>>, m)
  <2>1. Append(<<>>, m) = <<m>> OBVIOUS
  <2>2. Queue(Append(<<>>, m), m) BY <1>4, QueueAppend
  <2> QED BY <2>1, <2>2
<1>6. CASE new = box
  BY <1>2, <1>6
<1>7. CASE new = [box EXCEPT !.file = <<>>]
  BY <1>4, <1>7 DEF Box, Queue
<1>8. CASE new = [box EXCEPT !.file = Trim(box.file)]
  BY <1>2, <1>8 DEF Box, Queue
<1>9. CASE new = [file |-> <<m>>, hasData |-> TRUE]
  BY <1>5, <1>9 DEF Box, Queue
<1>10. CASE new = [file |-> Append(box.file, m), hasData |-> TRUE]
  BY <1>3, <1>10 DEF Box, Queue
<1> QED BY <1>6, <1>7, <1>8, <1>9, <1>10 DEF StoreFailed

(* Stored or not, the file stays in the order of acceptance. *)
LEMMA DepositQueue ==
    ASSUME NEW box \in Box, accepted \in Nat, Queue(box.file, accepted),
           NEW k \in 0..2, NEW n, Deposit(box, k, n)
    PROVE  Queue(inbox'.file, accepted') /\ accepted' = accepted + k
<1>1. accepted' = accepted + k
  BY DEF Deposit
<1> DEFINE one == accepted + 1
           two == accepted + 2
<1>2. one \in Nat /\ two \in Nat /\ one > accepted /\ two > one /\ one <= two
  OBVIOUS
<1>3. Stored(box, one) \in Box /\ Queue(Stored(box, one).file, one)
  BY <1>2, StoredQueue
<1>4. CASE k = 0
  <2>1. inbox' = box
    BY <1>4 DEF Deposit, StoreAll, StoreSome
  <2> QED BY <1>1, <1>4, <2>1
<1>5. CASE k = 1
  <2>1. inbox' = Stored(box, one) \/ inbox' \in StoreFailed(box, one)
    BY <1>5 DEF Deposit, StoreAll, StoreSome
  <2>2. Queue(inbox'.file, one)
    BY <1>2, <1>3, <2>1, StoreFailedQueue
  <2> QED BY <1>1, <1>5, <2>2
<1>6. CASE k = 2
  <2>1. \/ inbox' = Stored(Stored(box, one), two)
        \/ inbox' \in StoreFailed(Stored(box, one), two)
        \/ \E b \in StoreFailed(box, one) : inbox' = Stored(b, two)
    BY <1>6 DEF Deposit, StoreAll, StoreSome
  <2> HIDE DEF one, two
  <2>2. ASSUME inbox' = Stored(Stored(box, one), two) PROVE Queue(inbox'.file, two)
    BY <1>2, <1>3, <2>2, StoredQueue
  <2>3. ASSUME inbox' \in StoreFailed(Stored(box, one), two) PROVE Queue(inbox'.file, two)
    BY <1>2, <1>3, <2>3, StoreFailedQueue
  <2>4. ASSUME \E b \in StoreFailed(box, one) : inbox' = Stored(b, two)
        PROVE  Queue(inbox'.file, two)
    <3>1. PICK b \in StoreFailed(box, one) : inbox' = Stored(b, two)
      BY <2>4
    <3>2. b \in Box /\ Queue(b.file, one)
      BY <1>2, StoreFailedQueue
    <3> QED BY <1>2, <3>1, <3>2, StoredQueue
  <2>5. Queue(inbox'.file, two)
    BY <2>1, <2>2, <2>3, <2>4
  <2> QED BY <1>1, <1>6, <2>5 DEF two
<1> QED BY <1>1, <1>4, <1>5, <1>6

(* What a step does to the file, seen from the messages of its other copies. *)
LEMMA FileNext ==
    ASSUME LinkInv, DeliveryInv, [Next]_vars
    PROVE  /\ Queue(inbox'.file, accepted')
           /\ accepted \in Nat /\ \E k \in 0..2 : accepted' = accepted + k
           /\ ToSet(inbox'.file) \subseteq ToSet(inbox.file) \cup {m \in Nat : m > accepted}
<1>1. /\ inbox \in Box /\ accepted \in Nat /\ faults \in Nat
      /\ Queue(inbox.file, accepted)
  BY DEF LinkInv, TypeOK, Box, DeliveryInv
<1>2. 0 \in 0..2 /\ accepted = accepted + 0
  BY <1>1
<1>3. CASE UNCHANGED <<inbox, accepted>>
  BY <1>1, <1>2, <1>3
<1>4. CASE HandleAck
  <2>1. inbox'.file \in {<<>>, inbox.file} /\ accepted' = accepted
    BY <1>1, <1>4 DEF HandleAck, Cleared, Box
  <2>2. Queue(<<>>, accepted) /\ ToSet(<<>>) = {}
    BY QueueEmpty
  <2> QED BY <1>1, <1>2, <2>1, <2>2
<1>5. ASSUME NEW box \in Box, box.file = inbox.file,
             NEW k \in 0..2, NEW n \in 0..1, Deposit(box, k, n)
      PROVE  /\ Queue(inbox'.file, accepted') /\ accepted' = accepted + k
             /\ ToSet(inbox'.file) \subseteq ToSet(inbox.file) \cup {m \in Nat : m > accepted}
  <2>1. Queue(inbox'.file, accepted') /\ accepted' = accepted + k
    BY <1>1, <1>5, DepositQueue
  <2>2. n \in Nat
    OBVIOUS
  <2>3. Fed(box, inbox')
    BY <1>1, <1>5, <2>2, DepositFed
  <2> QED BY <1>5, <2>1, <2>3 DEF Fed
<1>6. CASE \E k \in 0..2, n \in 0..1 : Deposit(inbox, k, n)
  BY <1>1, <1>5, <1>6
<1>7. CASE \E k \in 0..2, n \in 0..1 : Deposit(Booted(inbox), k, n)
  <2>1. Booted(inbox) \in Box /\ Booted(inbox).file = inbox.file
    BY <1>1 DEF Booted, Box
  <2> QED BY <1>1, <1>5, <1>7, <2>1
<1> QED BY <1>3, <1>4, <1>6, <1>7, InboxSteps

(* A step that takes copies away, or adds an empty one, and logs nothing. *)
LEMMA DeliveryKept ==
    ASSUME LinkInv, DeliveryInv, [Next]_vars, logged' = logged,
           rx'.items \in {<<>>, rx.items},
           \A d \in ToSet(toP4') : d \in ToSet(toP4) \/ d.items = <<>>,
           Pairwise(toP4', LaterDump(logged))
    PROVE  DeliveryInv'
<1> DEFINE F == ToSet(inbox'.file)
           A == ToSet(inbox.file)
           R == ToSet(rx.items)
<1>1. /\ Queue(inbox'.file, accepted')
      /\ accepted \in Nat /\ accepted' \in Nat /\ accepted <= accepted'
      /\ F \subseteq A \cup {m \in Nat : m > accepted}
  BY FileNext
<1>2. \A q : Queue(q, accepted) => Queue(q, accepted')
  BY <1>1, QueueWider
<1>3. Queue(<<>>, accepted') /\ ToSet(<<>>) = {}
  BY QueueEmpty
<1>4. ToSet(rx'.items) \subseteq R /\ Queue(rx'.items, accepted')
  BY <1>2, <1>3 DEF DeliveryInv
<1>5. R \subseteq 1..accepted /\ logged \subseteq 1..accepted
  BY DEF DeliveryInv, Queue
<1>6. ASSUME NEW e, e \subseteq 1..accepted, Before(e, A, logged)
      PROVE  Before(e, F, logged)
  BY <1>1, <1>6 DEF Before
<1>7. /\ Before(logged, ToSet(rx'.items), logged)
      /\ Before(logged, F, logged)
      /\ Before(ToSet(rx'.items), F, logged)
  <2>1. Before(logged, R, logged) /\ Before(logged, A, logged) /\ Before(R, A, logged)
    BY DEF DeliveryInv
  <2>2. Before(logged, F, logged) /\ Before(R, F, logged)
    BY <1>5, <1>6, <2>1
  <2>3. ToSet(rx'.items) = {} \/ ToSet(rx'.items) = R
    BY <1>3
  <2> HIDE DEF F, A, R
  <2> QED BY <2>1, <2>2, <2>3 DEF Before
<1>8. ASSUME NEW d \in ToSet(toP4')
      PROVE  /\ Queue(d.items, accepted')
             /\ Before(logged, ToSet(d.items), logged)
             /\ Before(ToSet(rx'.items), ToSet(d.items), logged)
             /\ Before(ToSet(d.items), F, logged)
  <2>1. CASE d \in ToSet(toP4)
    <3>1. /\ Queue(d.items, accepted) /\ Before(logged, ToSet(d.items), logged)
          /\ Before(R, ToSet(d.items), logged) /\ Before(ToSet(d.items), A, logged)
      BY <2>1 DEF DeliveryInv
    <3>2. ToSet(d.items) \subseteq 1..accepted
      BY <3>1 DEF Queue
    <3>3. Before(ToSet(d.items), F, logged)
      BY <1>6, <3>1, <3>2
    <3>4. ToSet(rx'.items) = {} \/ ToSet(rx'.items) = R
      BY <1>3
    <3>5. Before(ToSet(rx'.items), ToSet(d.items), logged)
      <4> HIDE DEF R
      <4> QED BY <3>1, <3>4 DEF Before
    <3> QED BY <1>2, <3>1, <3>3, <3>5
  <2>2. CASE d.items = <<>>
    BY <1>3, <2>2 DEF Before
  <2> QED BY <2>1, <2>2
<1>9. logged \subseteq 1..accepted'
  BY <1>1, <1>5
<1> QED BY <1>1, <1>4, <1>7, <1>8, <1>9 DEF DeliveryInv

(* The rx task takes a dump off the wire and has it in hand. *)
LEMMA HubReadsDelivery ==
    ASSUME LinkInv, DeliveryInv, [Next]_vars, HubReads PROVE DeliveryInv'
<1> DEFINE d == Head(toP4)
<1>1. /\ toP4 # <<>> /\ toP4' = Tail(toP4) /\ UNCHANGED <<inbox, accepted, logged>>
      /\ rx' = (IF d.type = "msgs" THEN Received(d) ELSE rx)
      /\ toP4 \in Seq(Replies) /\ Pairwise(toP4, LaterDump(logged))
  BY DEF HubReads, HubIdle, board, LinkInv, TypeOK, DeliveryInv
<1>2. /\ d \in ToSet(toP4) /\ ToSet(toP4') \subseteq ToSet(toP4)
      /\ Pairwise(toP4', LaterDump(logged))
      /\ \A e \in ToSet(toP4') : <<d, e>> \in LaterDump(logged)
  BY <1>1, TailSet, TailPairwise
<1> HIDE DEF d
<1>3. CASE d.type = "msgs"
  <2>1. rx'.items = d.items
    BY <1>1, <1>3 DEF Received
  <2>2. \A e \in ToSet(toP4') : Before(ToSet(d.items), ToSet(e.items), logged)
    BY <1>2 DEF LaterDump
  <2>3. /\ Queue(d.items, accepted) /\ Before(logged, ToSet(d.items), logged)
        /\ Before(ToSet(d.items), ToSet(inbox.file), logged)
    BY <1>2 DEF DeliveryInv
  <2> QED BY <1>1, <1>2, <2>1, <2>2, <2>3 DEF DeliveryInv
<1>4. CASE d.type # "msgs"
  BY <1>1, <1>2, <1>4, DeliveryKept
<1> QED BY <1>3, <1>4

(* One message enters the log: it is the oldest of those in hand. *)
LEMMA FirstInHand ==
    ASSUME LinkInv, DeliveryInv, HubLogs
    PROVE  LET h == Head(rx.items)
               T == ToSet(Tail(rx.items))
           IN /\ h \in 1..accepted /\ logged' = logged \cup {h}
              /\ ToSet(rx.items) = T \cup {h} /\ \A m \in T : h < m
              /\ rx'.items = Tail(rx.items) /\ Queue(Tail(rx.items), accepted)
<1> DEFINE q == rx.items
           h == Head(q)
           T == ToSet(Tail(q))
<1>1. /\ q # <<>> /\ q \in Seq(Nat) /\ Pairwise(q, Larger) /\ ToSet(q) \subseteq 1..accepted
      /\ rx' = AfterItem(rx) /\ logged' = logged \cup {h}
      /\ rx \in [state : {"read", "log", "ack"}, items : Seq(Nat), upto : Nat]
  BY DEF HubLogs, LinkInv, TypeOK, DeliveryInv, Queue
<1>2. rx'.items = Tail(q)
  BY <1>1 DEF AfterItem
<1> HIDE DEF q
<1>3. /\ Tail(q) \in Seq(Nat) /\ T \subseteq ToSet(q) /\ h \in ToSet(q)
      /\ Pairwise(Tail(q), Larger) /\ \A x \in T : <<h, x>> \in Larger
  BY <1>1, TailSet, TailPairwise
<1>4. ToSet(q) \subseteq T \cup {h}
  <2>1. /\ Len(q) \in Nat /\ Len(Tail(q)) = Len(q) - 1 /\ DOMAIN q = 1..Len(q)
        /\ DOMAIN Tail(q) = 1..Len(Tail(q)) /\ h = q[1]
        /\ \A i \in 1..Len(Tail(q)) : Tail(q)[i] = q[i + 1]
    BY <1>1
  <2>2. ASSUME NEW i \in 1..Len(q) PROVE q[i] \in T \cup {h}
    <3>1. CASE i = 1 BY <3>1, <2>1
    <3>2. CASE i # 1
      <4>1. i - 1 \in 1..Len(Tail(q)) /\ (i - 1) + 1 = i
        BY <2>1, <3>2
      <4>2. Tail(q)[i - 1] = q[i]
        BY <2>1, <4>1
      <4> QED BY <2>1, <4>1, <4>2 DEF ToSet
    <3> QED BY <3>1, <3>2
  <2> QED BY <2>1, <2>2 DEF ToSet
<1>5. \A m \in T : h < m
  BY <1>3 DEF Larger
<1>6. Queue(Tail(q), accepted) /\ h \in 1..accepted
  BY <1>1, <1>3 DEF Queue
<1> QED BY <1>1, <1>2, <1>3, <1>4, <1>5, <1>6 DEF q

LEMMA HubLogsDelivery ==
    ASSUME LinkInv, DeliveryInv, HubLogs PROVE DeliveryInv'
<1> DEFINE h == Head(rx.items)
           T == ToSet(Tail(rx.items))
           I == ToSet(rx.items)
<1>1. /\ h \in 1..accepted /\ logged' = logged \cup {h}
      /\ I = T \cup {h} /\ \A m \in T : h < m
      /\ rx'.items = Tail(rx.items) /\ Queue(Tail(rx.items), accepted)
      /\ UNCHANGED <<inbox, accepted, toP4>>
  BY FirstInHand DEF HubLogs, board
<1>2. ToSet(rx'.items) = T
  BY <1>1
<1> HIDE DEF h, T, I
<1>3. h \in Nat /\ T \subseteq Nat /\ logged \subseteq Nat /\ accepted \in Nat
  <2>1. logged \subseteq 1..accepted /\ I \subseteq 1..accepted /\ accepted \in Nat
    BY DEF DeliveryInv, Queue, LinkInv, TypeOK, I
  <2> QED BY <1>1, <2>1
<1>4. Before(logged, I, logged)
  BY DEF DeliveryInv, I
\* What waits behind the dump in hand comes after its next item, too.
<1>5. ASSUME NEW l, l \subseteq Nat, Before(logged, l, logged), Before(I, l, logged)
      PROVE  Before(logged', l, logged') /\ Before(T, l, logged')
  <2>1. ASSUME NEW m \in l, m < h PROVE m \in logged
    <3>1. m \in I \cup logged
      BY <1>1, <1>5, <2>1 DEF Before
    <3>2. m \notin T /\ m # h /\ m \in Nat
      BY <1>1, <1>3, <1>5, <2>1
    <3> QED BY <1>1, <3>1, <3>2
  <2>2. Before(logged', l, logged')
    BY <1>1, <1>5, <2>1 DEF Before
  <2>3. Before(T, l, logged')
    BY <1>1, <1>5 DEF Before
  <2> QED BY <2>2, <2>3
<1>6. Before(logged', T, logged')
  BY <1>1, <1>3, <1>4 DEF Before
<1>7. ASSUME NEW e, NEW l, Before(e, l, logged) PROVE Before(e, l, logged')
  BY <1>1, <1>7 DEF Before
<1>8. /\ ToSet(inbox.file) \subseteq Nat
      /\ Before(logged, ToSet(inbox.file), logged) /\ Before(I, ToSet(inbox.file), logged)
  BY DEF DeliveryInv, Queue, I
<1>9. /\ Before(logged', ToSet(inbox.file), logged')
      /\ Before(T, ToSet(inbox.file), logged')
  BY <1>5, <1>8
<1>10. ASSUME NEW d \in ToSet(toP4)
       PROVE  /\ Before(logged', ToSet(d.items), logged')
              /\ Before(T, ToSet(d.items), logged')
              /\ Before(ToSet(d.items), ToSet(inbox.file), logged')
  <2>1. /\ Queue(d.items, accepted)
        /\ Before(logged, ToSet(d.items), logged) /\ Before(I, ToSet(d.items), logged)
        /\ Before(ToSet(d.items), ToSet(inbox.file), logged)
    BY DEF DeliveryInv, I
  <2>2. ToSet(d.items) \subseteq Nat
    BY <2>1 DEF Queue
  <2> QED BY <1>5, <1>7, <2>1, <2>2
<1>11. Pairwise(toP4, LaterDump(logged'))
  <2>1. LaterDump(logged) \subseteq LaterDump(logged')
    BY <1>7 DEF LaterDump
  <2> QED BY <2>1 DEF DeliveryInv, Pairwise
<1>12. logged' \subseteq 1..accepted
  BY <1>1 DEF DeliveryInv
<1>13. /\ Queue(inbox.file, accepted) /\ \A d \in ToSet(toP4) : Queue(d.items, accepted)
  BY DEF DeliveryInv
<1> QED BY <1>1, <1>2, <1>6, <1>9, <1>10, <1>11, <1>12, <1>13 DEF DeliveryInv

(* The board dumps the file: the newest copy joins the end of the wire. *)
LEMMA HandleFetchDelivery ==
    ASSUME LinkInv, DeliveryInv, [Next]_vars, HandleFetch PROVE DeliveryInv'
<1>1. UNCHANGED <<inbox, accepted, rx, logged>>
  BY DEF HandleFetch, hub
<1>2. CASE toP4' = toP4
  BY <1>1, <1>2 DEF DeliveryInv
<1>3. CASE toP4' # toP4
  <2> DEFINE d == Heard("msgs", inbox.file, accepted)
  <2>1. /\ toP4' = Append(toP4, d) /\ d \in Replies /\ d.items = inbox.file
        /\ toP4 \in Seq(Replies)
    BY <1>3 DEF HandleFetch, LinkInv, TypeOK, Heard, Replies
  <2> HIDE DEF d
  <2>2. ToSet(toP4') = ToSet(toP4) \cup {d} /\ ToSet(toP4) \subseteq Replies
    BY <2>1, AppendSet DEF ToSet
  <2>3. \A e \in ToSet(toP4) : <<e, d>> \in LaterDump(logged)
    BY <2>1, <2>2 DEF LaterDump, DeliveryInv
  <2>4. Pairwise(toP4', LaterDump(logged))
    BY <2>1, <2>3, AppendPairwise DEF DeliveryInv
  <2>5. /\ Queue(d.items, accepted) /\ Before(logged, ToSet(d.items), logged)
        /\ Before(ToSet(rx.items), ToSet(d.items), logged)
        /\ Before(ToSet(d.items), ToSet(inbox.file), logged)
    BY <2>1 DEF DeliveryInv, Before
  <2> QED BY <1>1, <2>2, <2>4, <2>5 DEF DeliveryInv
<1> QED BY <1>2, <1>3

LEMMA HeartbeatDelivery ==
    ASSUME LinkInv, DeliveryInv, [Next]_vars, Heartbeat PROVE DeliveryInv'
<1> DEFINE hb == Heard("hb", <<>>, 0)
<1>1. /\ toP4' = Append(toP4, hb) /\ hb \in Replies /\ hb.items = <<>>
      /\ toP4 \in Seq(Replies) /\ UNCHANGED <<rx, logged>>
  BY DEF Heartbeat, LinkInv, TypeOK, Heard, Replies, hub
<1> HIDE DEF hb
<1>2. ToSet(toP4') = ToSet(toP4) \cup {hb} /\ ToSet(toP4) \subseteq Replies
      /\ ToSet(hb.items) = {}
  BY <1>1, AppendSet, QueueEmpty DEF ToSet
<1>3. \A e \in ToSet(toP4) : <<e, hb>> \in LaterDump(logged)
  BY <1>1, <1>2 DEF LaterDump, Before
<1>4. Pairwise(toP4', LaterDump(logged))
  BY <1>1, <1>3, AppendPairwise DEF DeliveryInv
<1> QED BY <1>1, <1>2, <1>4, DeliveryKept

LEMMA DeliveryNext ==
    ASSUME "garble" \notin FaultKinds, LinkInv, DeliveryInv, [Next]_vars PROVE DeliveryInv'
<1>1. toP4 \in Seq(Replies) /\ Pairwise(toP4, LaterDump(logged)) /\ Reading.items = <<>>
  BY WordsOK DEF LinkInv, TypeOK, DeliveryInv
<1>2. CASE \/ Poll \/ PortalSend \/ (\E w \in Writers : EndLine(w)) \/ HubAcks \/ Expire
           \/ ReadBody \/ HandleAck \/ HandleSend \/ HandleNothing \/ HearPacket
           \/ LoseWord \/ UNCHANGED vars
  <2>1. UNCHANGED <<toP4, logged>> /\ (rx' = rx \/ rx' = Reading)
    BY <1>2 DEF Poll, PortalSend, EndLine, HubAcks, Expire, ReadBody, HandleAck,
       HandleSend, HandleNothing, HearPacket, LoseWord, vars, board, hub
  <2> QED BY <1>1, <2>1, DeliveryKept
<1>3. CASE HubReads BY <1>3, HubReadsDelivery
<1>4. CASE HubLogs BY <1>4, HubLogsDelivery
<1>5. CASE HandleFetch BY <1>5, HandleFetchDelivery
<1>6. CASE Heartbeat BY <1>6, HeartbeatDelivery
<1>7. CASE HubReadsTail
  <2>1. toP4 # <<>> /\ toP4' = Tail(toP4) /\ UNCHANGED <<rx, logged>>
    BY <1>7 DEF HubReadsTail, HubIdle
  <2>2. Pairwise(toP4', LaterDump(logged)) /\ ToSet(toP4') \subseteq ToSet(toP4)
    BY <1>1, <2>1, TailSet, TailPairwise
  <2> QED BY <2>1, <2>2, DeliveryKept
<1>8. CASE LoseReply
  <2>1. UNCHANGED <<rx, logged>> /\ \E i \in 1..Len(toP4) : toP4' = RemoveAt(toP4, i)
    BY <1>8 DEF LoseReply, hub
  <2>2. Pairwise(toP4', LaterDump(logged)) /\ ToSet(toP4') \subseteq ToSet(toP4)
    BY <1>1, <2>1, RemoveSet, RemovePairwise
  <2> QED BY <2>1, <2>2, DeliveryKept
<1>9. CASE HubRestart \/ BoardRestart
  <2>1. /\ logged' = logged /\ rx' \in {rx, Reading}
        /\ \/ \E k \in 0..Len(toP4) : toP4' = SubSeq(toP4, 1, k)
           \/ \E k \in 1..(Len(toP4) + 1) : toP4' = SubSeq(toP4, k, Len(toP4))
    BY <1>9 DEF HubRestart, BoardRestart, hub
  <2>2. Pairwise(toP4', LaterDump(logged)) /\ ToSet(toP4') \subseteq ToSet(toP4)
    BY <1>1, <2>1, CutSet, CutPairwise
  <2> QED BY <1>1, <2>1, <2>2, DeliveryKept
<1>10. ~GarbleReply
  BY DEF GarbleReply, Fault, MayFail
<1> QED BY <1>2, <1>3, <1>4, <1>5, <1>6, <1>7, <1>8, <1>9, <1>10 DEF Next, BoardReads

LEMMA DeliveryInit == ASSUME Init PROVE DeliveryInv
<1>1. /\ inbox.file = <<1>> /\ accepted = 1 /\ toP4 = <<>> /\ logged = {}
      /\ rx.items = <<>>
  BY WordsOK DEF Init
<1>2. ToSet(<<>>) = {} /\ Queue(<<>>, 0) /\ Queue(<<>>, 1)
  BY QueueEmpty
<1>3. Append(<<>>, 1) = <<1>>
  OBVIOUS
<1>4. Queue(<<1>>, 1)
  <2>1. 0 \in Nat /\ 1 \in Nat /\ 1 > 0
    OBVIOUS
  <2>2. Queue(Append(<<>>, 1), 1)
    BY <1>2, <2>1, QueueAppend
  <2> QED BY <1>3, <2>2
<1>5. Pairwise(<<>>, LaterDump({}))
  BY DEF Pairwise
<1> QED BY <1>1, <1>2, <1>4, <1>5 DEF DeliveryInv, Before

(* While no dump is damaged and still parses, every copy of the inbox, from the log
   over the dumps to the file, keeps the order of acceptance, and none holds a message
   that comes too late. *)
THEOREM DeliveryInvariant ==
    ASSUME "garble" \notin FaultKinds PROVE Spec => []DeliveryInv
<1>1. Init => DeliveryInv BY DeliveryInit
<1>2. LinkInv /\ DeliveryInv /\ [Next]_vars => DeliveryInv' BY DeliveryNext
<1> QED BY <1>1, <1>2, LinkInvariant, PTL DEF Spec

(* One step of the link is one step of Mailbox, or none: a handler of the board
   accepts a message or two, and the rx task logs a message that is newer than
   the whole log, or one that it has logged before. *)
LEMMA StepDelivers ==
    ASSUME LinkInv, DeliveryInv, [Next]_vars
    PROVE  [InOrder!Next]_InOrder!vars
<1>1. CASE HubLogs
  <2> DEFINE h == Head(rx.items)
  <2>1. /\ h \in 1..accepted /\ logged' = logged \cup {h} /\ h \in ToSet(rx.items)
        /\ accepted' = accepted
    BY <1>1, FirstInHand DEF HubLogs, board
  <2>2. /\ Before(logged, ToSet(rx.items), logged)
        /\ logged \subseteq 1..accepted /\ accepted \in Nat
    BY DEF DeliveryInv, LinkInv, TypeOK
  <2> HIDE DEF h
  <2>3. CASE h \in logged
    BY <2>1, <2>3 DEF InOrder!vars
  <2>4. CASE h \notin logged
    <3>1. \A d \in logged : d < h
      BY <2>1, <2>2, <2>4 DEF Before
    <3>2. InOrder!Deliver
      BY <2>1, <3>1 DEF InOrder!Deliver
    <3> QED BY <3>2 DEF InOrder!Next
  <2> QED BY <2>3, <2>4
<1>2. CASE ~HubLogs
  <2>1. logged' = logged
    BY <1>2 DEF Next, BoardReads, Poll, PortalSend, EndLine, HubReads, HubReadsTail,
       HubAcks, Expire, ReadBody, HandleFetch, HandleAck, HandleSend, HandleNothing,
       HearPacket, Heartbeat, LoseWord, LoseReply, GarbleReply, HubRestart, BoardRestart, vars,
       hub
  <2>2. accepted \in Nat /\ \E k \in 0..2 : accepted' = accepted + k
    BY FileNext
  <2>3. CASE accepted' = accepted
    BY <2>1, <2>3 DEF InOrder!vars
  <2>4. CASE \E k \in 1..2 : accepted' = accepted + k
    BY <2>1, <2>4 DEF InOrder!Next, InOrder!Accept
  <2> QED BY <2>2, <2>3, <2>4
<1> QED BY <1>1, <1>2

(* The link implements Mailbox: whatever is lost, repeated, merged or cut off
   by a restart, and whichever dump the hub happens to read, the messages enter
   the log for the first time in the order the board accepted them, and nothing
   enters it that the board did not accept.  Only a dump that is damaged and still
   parses would bring others. *)
THEOREM LinkDeliversInOrder ==
    ASSUME "garble" \notin FaultKinds PROVE Spec => FirstDeliveriesInOrder
<1>1. Init => InOrder!Init
  BY DEF Init, InOrder!Init
<1>2. LinkInv /\ DeliveryInv /\ [Next]_vars => [InOrder!Next]_InOrder!vars
  BY StepDelivers
<1> QED
  BY <1>1, <1>2, LinkInvariant, DeliveryInvariant, PTL
  DEF Spec, FirstDeliveriesInOrder, InOrder!Spec
=============================================================================
