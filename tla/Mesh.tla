-------------------------------- MODULE Mesh --------------------------------
(***************************************************************************)
(* The flood between radio boards (beacon_lora.ino: sendMeshMessage,       *)
(* handleReceivedPacket and the packet branch of loop()).                  *)
(*                                                                         *)
(* A board that hears a packet whose id it does not remember remembers it, *)
(* stores it if it is for this board, and repeats it with one hop less to  *)
(* live after a random pause.  Ids are remembered in a ring in RAM.  The   *)
(* radio holds one packet: a packet heard before the last one was read     *)
(* replaces it, and a transmission leaves its own bytes there.  The        *)
(* interrupt that ends a transmission raises the same flag as a reception. *)
(* The medium may lose any packet for any listener.                        *)
(***************************************************************************)
EXTENDS Integers, SequencesExt

CONSTANTS
    Nodes,        \* the boards
    Links,        \* {a, b} for boards in range of each other
    Boxes,        \* what people put into the "To" box
    Ttl,          \* MESH_TTL_DEFAULT
    SeenMax,      \* SEEN_CACHE_SIZE
    MaxMsgs,      \* bound: messages originated
    MaxRestarts   \* bound: boards restarting

\* What may be in the "To" box: nothing, a board's id, or a name, whose first
\* letters may by chance be hexadecimal digits ("Ed" is 0xED) or not.
Everyone == "everyone"
Name == "name"
HexName == "hexname"
Stranger == "stranger"
ToBox == Nodes \cup {Everyone, Name, HexName}
Addresses == Nodes \cup {Everyone, Stranger}

ASSUME MeshAssumption ==
    /\ Links \subseteq {{a, b} : a, b \in Nodes}
    /\ Boxes \subseteq ToBox
    /\ Nodes \cap {Everyone, Name, HexName, Stranger} = {}
    /\ Ttl \in Nat /\ SeenMax \in Nat \ {0}
    /\ MaxMsgs \in Nat /\ MaxRestarts \in Nat

VARIABLES
    seen,      \* per board, the ids in its ring, oldest first
    buf,       \* per board, the packet in the radio
    flag,      \* per board, rxFlag
    relay,     \* per board, the packet it is about to repeat
    msgs,      \* history: the messages originated, [from, box, to]
    stored,    \* history: per board, the messages given to inboxAppend, in order
    sent,      \* history: per board, the messages it transmitted, in order
    boots      \* history: per board, its restarts

vars == <<seen, buf, flag, relay, msgs, stored, sent, boots>>

\* An id is the number of its message: random ids are taken to differ.
Packet(id, to, ttl) == [id |-> id, to |-> to, ttl |-> ttl]
Nothing == Packet(0, Everyone, 0)
Packets == [id : Nat, to : Addresses, ttl : 0..Ttl]

Neighbours(n) == {m \in Nodes : m # n /\ {n, m} \in Links}
-----------------------------------------------------------------------------
(* strtoul(to, NULL, 16): no hexadecimal digit in front gives 0, everyone; some
   in front give their value, which is no board's id. *)
Address(box) ==
    CASE box \in Nodes -> box
      [] box = HexName -> Stranger
      [] OTHER -> Everyone

\* Mutant of Remember: nothing remembered.
RememberNot(q, id) == q
\* markSeen: the oldest of SeenMax ids is overwritten.
Remember(q, id) ==
    IF Len(q) < SeenMax THEN Append(q, id) ELSE Append(Tail(q), id)

ForMe(n, p) == p.to \in {Everyone, n}

\* Mutant of Relays: repeated by its addressee too.
RelaysAddressee(n, p) == p.ttl > 0
Relays(n, p) == p.to # n /\ p.ttl > 0

\* Mutant of OneHopLess: ttl-- forgotten.
SameHops(p) == p
OneHopLess(p) == [p EXCEPT !.ttl = IF p.ttl > 0 THEN p.ttl - 1 ELSE 0]

\* radio.transmit of p by n: some listeners hear it, n's own radio keeps the
\* bytes, and the end of the transmission raises n's flag.
Transmit(n, p) ==
    /\ \E hears \in SUBSET Neighbours(n) :
          /\ buf' = [m \in Nodes |-> IF m \in hears \cup {n} THEN p ELSE buf[m]]
          /\ flag' = [m \in Nodes |-> m \in hears \cup {n} \/ flag[m]]
    /\ sent' = [sent EXCEPT ![n] = Append(@, p.id)]

\* sendMeshMessage, on a board that is not busy with a packet.
Originate(n, box) ==
    /\ relay[n] = Nothing /\ Len(msgs) < MaxMsgs
    /\ LET id == Len(msgs) + 1
       IN  /\ msgs' = Append(msgs, [from |-> n, box |-> box, to |-> Address(box)])
           /\ seen' = [seen EXCEPT ![n] = Remember(@, id)]
           /\ Transmit(n, Packet(id, Address(box), Ttl))
    /\ UNCHANGED <<relay, stored, boots>>

\* Mutant of FlagRead: rxFlag = false forgotten.
FlagReadNot(n) == flag
FlagRead(n) == [flag EXCEPT ![n] = FALSE]

\* The packet branch of loop() and handleReceivedPacket up to the pause.
Receive(n) ==
    /\ flag[n] /\ relay[n] = Nothing
    /\ flag' = FlagRead(n)
    /\ LET p == buf[n] IN
       IF p.id \in ToSet(seen[n])
       THEN UNCHANGED <<seen, stored, relay>>
       ELSE /\ seen' = [seen EXCEPT ![n] = Remember(@, p.id)]
            /\ stored' = IF ForMe(n, p)
                         THEN [stored EXCEPT ![n] = Append(@, p.id)] ELSE stored
            /\ relay' = IF Relays(n, p)
                        THEN [relay EXCEPT ![n] = OneHopLess(p)] ELSE relay
    /\ UNCHANGED <<buf, msgs, sent, boots>>

\* The pause is over; what the radio heard meanwhile is overwritten.
Relay(n) ==
    /\ relay[n] # Nothing
    /\ Transmit(n, relay[n])
    /\ relay' = [relay EXCEPT ![n] = Nothing]
    /\ UNCHANGED <<seen, msgs, stored, boots>>

\* Power lost: the ring and the radio's buffer are empty again.
Restart(n) ==
    /\ FoldFunction(+, 0, boots) < MaxRestarts
    /\ boots' = [boots EXCEPT ![n] = @ + 1]
    /\ seen' = [seen EXCEPT ![n] = <<>>]
    /\ buf' = [buf EXCEPT ![n] = Nothing]
    /\ flag' = [flag EXCEPT ![n] = FALSE]
    /\ relay' = [relay EXCEPT ![n] = Nothing]
    /\ UNCHANGED <<msgs, stored, sent>>
-----------------------------------------------------------------------------
Init ==
    /\ seen = [n \in Nodes |-> <<>>]
    /\ buf = [n \in Nodes |-> Nothing]
    /\ flag = [n \in Nodes |-> FALSE]
    /\ relay = [n \in Nodes |-> Nothing]
    /\ msgs = <<>>
    /\ stored = [n \in Nodes |-> <<>>]
    /\ sent = [n \in Nodes |-> <<>>]
    /\ boots = [n \in Nodes |-> 0]

Next ==
    \E n \in Nodes :
        \/ \E box \in Boxes : Originate(n, box)
        \/ Receive(n) \/ Relay(n) \/ Restart(n)

\* loop() comes round and delay() ends.
Fairness == \A n \in Nodes : WF_vars(Receive(n)) /\ WF_vars(Relay(n))

Spec == Init /\ [][Next]_vars
FairSpec == Spec /\ Fairness
-----------------------------------------------------------------------------
(* Properties *)

\* The shape of the state; a ring never holds more than SEEN_CACHE_SIZE ids.
TypeOK ==
    /\ seen \in [Nodes -> Seq(Nat)] /\ \A n \in Nodes : Len(seen[n]) <= SeenMax
    /\ buf \in [Nodes -> Packets] /\ relay \in [Nodes -> Packets]
    /\ flag \in [Nodes -> BOOLEAN]
    /\ msgs \in Seq([from : Nodes, box : ToBox, to : Addresses])
    /\ stored \in [Nodes -> Seq(Nat)] /\ sent \in [Nodes -> Seq(Nat)]
    /\ boots \in [Nodes -> Nat]

Ids == 1..Len(msgs)
Times(q, id) == Cardinality({i \in DOMAIN q : q[i] = id})

\* As long as the ring remembers every message about, a board stores one at
\* most once per boot, however its copies come round (seen, markSeen).
AtMostOnce ==
    Len(msgs) <= SeenMax =>
        \A n \in Nodes, id \in Ids : Times(stored[n], id) <= boots[n] + 1

\* A board never stores its own message while it remembers having sent it:
\* neither the flood coming back nor the radio's stale bytes read after a
\* transmission get past the ring ("don't re-process our own message").
OwnNeverStored ==
    \A n \in Nodes, id \in Ids :
        Len(msgs) <= SeenMax /\ boots[n] = 0 /\ msgs[id].from = n
            => id \notin ToSet(stored[n])

\* A message with a board's id in its "To" box is stored by that board alone,
\* whoever relays it; one with a name in it by anyone, or by nobody if the name
\* begins with hexadecimal digits.
OnlyAddressee ==
    \A n \in Nodes, id \in Ids :
        id \in ToSet(stored[n]) => msgs[id].box \notin Nodes \ {n}

\* Board n is at most k hops from a: k steps lead there, some of them in place.
Within(k, a, n) ==
    \E walk \in [0..k -> Nodes] :
        /\ walk[0] = a /\ walk[k] = n
        /\ \A i \in 1..k : walk[i] \in Neighbours(walk[i - 1]) \cup {walk[i - 1]}

\* A message travels at most Ttl + 1 hops from where it was written.
HopsBounded ==
    \A n \in Nodes, id \in Ids :
        id \in ToSet(stored[n]) => Within(Ttl + 1, msgs[id].from, n)

\* Who stores a message: boards it is for, within its reach, and not its writer.
RightBoards == OwnNeverStored /\ OnlyAddressee /\ HopsBounded

\* A flood is small: a board puts a message on the air at most once per boot
\* while its ring remembers it, and its addressee never does.
FloodBounded ==
    Len(msgs) <= SeenMax =>
        \A n \in Nodes, id \in Ids :
            /\ Times(sent[n], id) <= boots[n] + 1
            /\ msgs[id].to = n /\ msgs[id].from # n => Times(sent[n], id) = 0

\* Floods die out: in the end no board has a packet to read or to repeat.
FloodEnds == <>[](\A n \in Nodes : ~flag[n] /\ relay[n] = Nothing)
=============================================================================
