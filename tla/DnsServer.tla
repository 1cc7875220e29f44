------------------------------ MODULE DnsServer ------------------------------
(***************************************************************************)
(* The name server that answers every name with the hub (dns_server.c).    *)
(*                                                                         *)
(* Every packet is received into the one buffer and answered in it: what   *)
(* lies behind a short packet is what earlier ones left.  A byte is its    *)
(* value and the packet it came with.                                      *)
(***************************************************************************)
EXTENDS Integers, SequencesExt, FiniteSetsExt

CONSTANTS
    Packets,     \* what may be received
    BufLen,      \* sizeof(buf), 600
    Spare,       \* kept free behind a packet for the answer, 16
    HeaderLen,   \* 12
    AnswerLen,   \* bytes of the answer's record, 16
    MaxPackets   \* bound: packets received

ASSUME DnsAssumption ==
    /\ Packets \subseteq Seq(0..255)
    /\ {BufLen, Spare, HeaderLen, AnswerLen} \subseteq Nat \ {0}
    /\ Spare + HeaderLen < BufLen /\ AnswerLen <= Spare /\ MaxPackets \in Nat

VARIABLES buf, packets, reply

dns == <<buf, packets, reply>>

Byte(value, packet) == [value |-> value, packet |-> packet]
NoReply == [len |-> 0, question |-> 0, of |-> 0, records |-> 0]

\* Where the labels of a name end, from place i (the first byte is 0) on: at the byte
\* 0 or behind the packet.  Every byte counts as a label's length.
NameEnd(b, len) ==
    LET end[i \in 0..len + 255] ==
            IF i >= len \/ b[i + 1].value = 0 THEN i ELSE end[i + b[i + 1].value + 1]
    IN  end[HeaderLen]

\* Mutant of TooShort: the name's end must be there, its type and class need not.
TooShortNameOnly(end, len) == end + 1 > len
TooShort(end, len) == end + 5 > len

\* One turn of dns_task.  Type and class are two bytes each; what a datagram has
\* more than the buffer takes is lost.
Handle(datagram) ==
    /\ packets < MaxPackets
    /\ packets' = packets + 1
    /\ LET packet == SubSeq(datagram, 1, Min({Len(datagram), BufLen - Spare}))
           len == Len(packet)
           b == [i \in DOMAIN buf |-> IF i <= len THEN Byte(packet[i], packets') ELSE buf[i]]
           end == NameEnd(b, len)
           two(i) == b[i + 1].value * 256 + b[i + 2].value
           qend == end + 5
           known == two(end + 1) \in {1, 255} /\ two(end + 3) = 1
       IN  IF len < HeaderLen \/ TooShort(end, len)
           THEN buf' = b /\ reply' = NoReply
           ELSE /\ reply' = [len |-> qend + (IF known THEN AnswerLen ELSE 0), question |-> qend,
                             of |-> packets', records |-> IF known THEN 1 ELSE 0]
                /\ buf' = [i \in DOMAIN buf |->
                      IF known /\ i \in qend + 1..qend + AnswerLen THEN Byte(1, packets') ELSE b[i]]

DnsInit == buf = [i \in 1..BufLen |-> Byte(0, 0)] /\ packets = 0 /\ reply = NoReply

DnsNext == \E p \in Packets : Handle(p)
-----------------------------------------------------------------------------
\* A reply fits the buffer and repeats the question of the packet it answers, all
\* of it: no byte of it is left from an earlier packet.
OwnQuestion ==
    reply # NoReply =>
        /\ reply.len <= BufLen
        /\ \A i \in 1..reply.question : buf[i].packet = reply.of
=============================================================================
