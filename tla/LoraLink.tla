------------------------------ MODULE LoraLink ------------------------------
(***************************************************************************)
(* The serial link between the hub (uart_links.c on the ESP32-P4) and its  *)
(* radio board (beacon_lora.ino on an ESP32-S3).                           *)
(*                                                                         *)
(* The board keeps what it heard in a flash file, the inbox.  The hub asks *)
(* for it ("fetch"), the board dumps the whole file as one line ("msgs"),  *)
(* the hub appends every item to its message log and answers "ack", and    *)
(* the board then empties the file.  Nothing is numbered on the wire.  The *)
(* same wire carries the messages that the web portal sends, and three     *)
(* tasks of the hub write to it, each line in two calls: body, newline.    *)
(*                                                                         *)
(* A message is the number of its acceptance by the board, a sent message  *)
(* the number of its request: both are history, neither is on the wire.    *)
(***************************************************************************)
EXTENDS Integers, SequencesExt

CONSTANTS
    Texts,        \* kinds of text the portal sends, a subset of TextKinds
    FaultKinds,   \* faults that may happen, a subset of Faults
    InboxMax,     \* messages in the file beyond which it is trimmed (INBOX_MAX_BYTES)
    HubLine,      \* items of a dump that fit the hub's line buffer (linebuf[1100])
    MaxPackets,   \* bound: mesh packets for this node
    MaxSends,     \* bound: messages the portal sends
    MaxFaults,    \* bound: faults of all kinds together
    MaxSplits,    \* bound: lines whose two writes are separated
    ChanCap       \* bound: lines waiting on one direction of the wire

\* "ack" and "fetch" are texts equal to a command's word; "long" is one whose
\* line does not fit the board's line buffer, line[300].
TextKinds == {"plain", "echo", "ack", "fetch", "long"}
Faults == {"lose", "garble", "restart", "fs", "tx", "noradio"}

ASSUME LinkAssumption ==
    /\ Texts \subseteq TextKinds
    /\ FaultKinds \subseteq Faults
    /\ InboxMax \in Nat \ {0} /\ HubLine \in Nat /\ ChanCap \in Nat \ {0}
    /\ MaxPackets \in Nat /\ MaxSends \in Nat
    /\ MaxFaults \in Nat /\ MaxSplits \in Nat

VARIABLES
    \* the radio board
    inbox,      \* [file, hasData]: the flash file and the flag inboxHasData in RAM
    lineBuf,    \* bodies of the line being assembled, line[300]
    radioOK,    \* g_radioOK
    air,        \* requests transmitted, in order
    \* the wire
    toLora, toP4,
    \* the hub
    rx,         \* rx_lora task: what it is doing with the line it read
    pc,         \* per writer task, "idle" or "nl" between its two writes
    fresh,      \* the board counts as online (get_nodes)
    logged,     \* messages given to msg_log_append('i', ...)
    \* history and budgets
    accepted,   \* messages given to inboxAppendStr so far
    sent,       \* requests the portal wrote so far
    spoilt,     \* messages that were damaged in a dump on the wire
    heard, faults, splits

board  == <<inbox, lineBuf, radioOK, air, accepted>>
hub    == <<rx, pc, fresh, logged, sent>>
vars   == <<board, toLora, toP4, hub, heard, spoilt, faults, splits>>

Writers == {"poll", "rx", "http"}

\* What the hub writes: a body is one token, a newline another.
Word(c, n, t) == [cmd |-> c, n |-> n, text |-> t]
Words   == [cmd : {"fetch", "ack", "send", "nl"}, n : Nat, text : Texts \cup {"-"}]
Fetch   == Word("fetch", 0, "-")
Ack(u)  == Word("ack", u, "-")        \* u (history): the dump it answers covers 1..u
Send(n, t) == Word("send", n, t)
Newline == Word("nl", 0, "-")

\* What the board writes: whole lines, since one task writes them.
Heard(c, q, u) == [type |-> c, items |-> q, upto |-> u]
Replies == [type : {"hb", "msgs"}, items : Seq(Nat), upto : Nat]

(* RAM of the hub's rx_lora task between two lines. *)
Reading == [state |-> "read", items |-> <<>>, upto |-> 0]
-----------------------------------------------------------------------------
(* Budgets *)

MayFail(kind, n) == kind \in FaultKinds /\ faults + n <= MaxFaults

Fault(kind) == MayFail(kind, 1) /\ faults' = faults + 1
-----------------------------------------------------------------------------
(* The flash file *)

\* Over its limit the file keeps what follows the first newline of its second
\* half: of n messages of one size, the last (n - 1) \div 2.
Trim(q) ==
    IF Len(q) > InboxMax
    THEN SubSeq(q, Len(q) - ((Len(q) - 1) \div 2) + 1, Len(q))
    ELSE q

\* Mutant of Stored: the file opened for writing at its start.
StoredAtFront(box, m) == [file |-> <<m>> \o Trim(box.file), hasData |-> TRUE]
Stored(box, m) == [file |-> Append(Trim(box.file), m), hasData |-> TRUE]

\* inboxAppendStr with a file operation failing: the append or reopening it
\* (the message is lost), reading the old content (all of it is), writing the
\* trimmed file (it stays too long).
StoreFailed(box, m) ==
    {box} \cup
    IF Len(box.file) > InboxMax
    THEN {[box EXCEPT !.file = <<>>], [box EXCEPT !.file = Trim(box.file)],
          [file |-> <<m>>, hasData |-> TRUE],
          [file |-> Append(box.file, m), hasData |-> TRUE]}
    ELSE {}

\* The box after the next k messages, k \in 0..2, all stored.
StoreAll(box, k) ==
    CASE k = 0 -> box
      [] k = 1 -> Stored(box, accepted + 1)
      [] k = 2 -> Stored(Stored(box, accepted + 1), accepted + 2)

StoreSome(box, k) ==
    CASE k = 0 -> {}
      [] k = 1 -> StoreFailed(box, accepted + 1)
      [] k = 2 -> StoreFailed(Stored(box, accepted + 1), accepted + 2) \cup
                  {Stored(b, accepted + 2) : b \in StoreFailed(box, accepted + 1)}

\* The board appends k messages to box, in a handler that already met n faults.
Deposit(box, k, n) ==
    /\ accepted' = accepted + k
    /\ \/ inbox' = StoreAll(box, k) /\ faults' = faults + n
       \/ /\ MayFail("fs", n + 1)
          /\ inbox' \in StoreSome(box, k) /\ faults' = faults + n + 1

\* Mutant of Cleared: inboxClear without its last line.
ClearedKeepingFlag(box) == [box EXCEPT !.file = <<>>]
Cleared(box) == [file |-> <<>>, hasData |-> FALSE]
-----------------------------------------------------------------------------
(* The hub's writers: poll task, rx task, web server task *)

Room == Len(toLora) + 2 <= 2 * ChanCap

\* uart_send_line: another task may write between the body and the newline.
SendLine(w, body) ==
    /\ pc[w] = "idle"
    /\ \/ /\ toLora' = toLora \o <<body, Newline>>
          /\ UNCHANGED <<pc, splits>>
       \/ /\ splits < MaxSplits
          /\ toLora' = Append(toLora, body)
          /\ pc' = [pc EXCEPT ![w] = "nl"]
          /\ splits' = splits + 1

EndLine(w) ==
    /\ pc[w] = "nl"
    /\ toLora' = Append(toLora, Newline)
    /\ pc' = [pc EXCEPT ![w] = "idle"]
    /\ UNCHANGED <<board, toP4, rx, fresh, logged, sent, heard, spoilt, faults, splits>>

(* lora_poll_task, every LORA_POLL_MS. *)
Poll ==
    /\ Room
    /\ SendLine("poll", Fetch)
    /\ UNCHANGED <<board, toP4, rx, fresh, logged, sent, heard, spoilt, faults>>

(* POST /api/send: the line is written before the request is answered. *)
PortalSend ==
    /\ sent < MaxSends /\ Room
    /\ \E t \in Texts : SendLine("http", Send(sent + 1, t))
    /\ sent' = sent + 1
    /\ UNCHANGED <<board, toP4, rx, fresh, logged, heard, spoilt, faults>>
-----------------------------------------------------------------------------
(* The hub's rx_lora task *)

\* Mutant of Received: acknowledged on receipt, nothing logged.
ReceivedAckFirst(d) == [state |-> "ack", items |-> <<>>, upto |-> d.upto]
Received(d) == [state |-> "log", items |-> d.items, upto |-> d.upto]

\* Mutants of AfterItem: the loop that misses its end; n > 0 inverted.
AfterItemNoEnd(r) == [r EXCEPT !.items = Tail(r.items)]
AfterItemNoAck(r) ==
    IF Len(r.items) > 1 THEN [r EXCEPT !.items = Tail(r.items)] ELSE Reading
AfterItem(r) ==
    [r EXCEPT !.items = Tail(r.items),
              !.state = IF Len(r.items) > 1 THEN "log" ELSE "ack"]

HubIdle == rx.state = "read" /\ pc["rx"] = "idle" /\ toP4 # <<>>

(* A line that fits linebuf parses and counts as a sign of life. *)
HubReads ==
    /\ HubIdle
    /\ Len(Head(toP4).items) <= HubLine
    /\ toP4' = Tail(toP4)
    /\ fresh' = TRUE
    /\ rx' = IF Head(toP4).type = "msgs" THEN Received(Head(toP4)) ELSE rx
    /\ UNCHANGED <<board, toLora, pc, logged, sent, heard, spoilt, faults, splits>>

(* A line that does not fit loses its head each time the buffer is full; what
   is left of it at the newline carries no message, but may still parse. *)
HubReadsTail ==
    /\ HubIdle
    /\ Len(Head(toP4).items) > HubLine
    /\ toP4' = Tail(toP4)
    /\ fresh' \in {fresh, TRUE}
    /\ UNCHANGED <<board, toLora, rx, pc, logged, sent, heard, spoilt, faults, splits>>

(* msg_log_append('i', ...) for one item. *)
HubLogs ==
    /\ rx.state = "log"
    /\ logged' = logged \cup {Head(rx.items)}
    /\ rx' = AfterItem(rx)
    /\ UNCHANGED <<board, toLora, toP4, pc, fresh, sent, heard, spoilt, faults, splits>>

HubAcks ==
    /\ rx.state = "ack"
    /\ SendLine("rx", Ack(rx.upto))
    /\ rx' = Reading
    /\ UNCHANGED <<board, toP4, fresh, logged, sent, heard, spoilt, faults>>

(* NODE_OFFLINE_MS without a line that parses. *)
Expire ==
    /\ fresh
    /\ fresh' = FALSE
    /\ UNCHANGED <<board, toLora, toP4, rx, pc, logged, sent, heard, spoilt, faults, splits>>
-----------------------------------------------------------------------------
(* The board reads the wire *)

IsSend(w) == w.cmd = "send"

\* A line with at most one send fits line[300], unless its text alone does not.
Crowded(line) == \E i, j \in 1..Len(line) : i # j /\ IsSend(line[i]) /\ IsSend(line[j])

\* Mutant of Extend: a buffer too short for any message.
ExtendShort(line, w) == IF IsSend(w) THEN {<<>>} ELSE {Append(line, w)}
\* What may be left of line when the body w is appended to it: all of it, or,
\* if the buffer filled up on the way, at most the end of w.
Extend(line, w) ==
    IF w.text = "long" THEN {<<>>}
    ELSE IF Crowded(Append(line, w)) THEN {Append(line, w), <<w>>, <<>>}
    ELSE {Append(line, w)}

ReadBody ==
    /\ toLora # <<>> /\ Head(toLora).cmd # "nl"
    /\ toLora' = Tail(toLora)
    /\ lineBuf' \in Extend(lineBuf, Head(toLora))
    /\ UNCHANGED <<inbox, radioOK, air, accepted, toP4, hub, heard, spoilt, faults, splits>>

\* strstr(line, "\"word\"") of handleP4Line: the command, or a text equal to it.
Says(line, word) ==
    \E i \in 1..Len(line) :
        line[i].cmd = word \/ (IsSend(line[i]) /\ line[i].text = word)

\* Mutant of AfterLine: llen = 0 forgotten.
AfterLineKept(line) == line
AfterLine(line) == <<>>

LineEnds ==
    /\ toLora # <<>> /\ Head(toLora).cmd = "nl"
    /\ toLora' = Tail(toLora)
    /\ lineBuf' = AfterLine(lineBuf)

(* inboxSendToP4: the whole file, if the flag is up and the file is not empty. *)
HandleFetch ==
    /\ LineEnds /\ Says(lineBuf, "fetch")
    /\ IF inbox.hasData /\ inbox.file # <<>>
       THEN /\ Len(toP4) < ChanCap
            /\ toP4' = Append(toP4, Heard("msgs", inbox.file, accepted))
       ELSE UNCHANGED toP4
    /\ UNCHANGED <<inbox, radioOK, air, accepted, hub, heard, spoilt, faults, splits>>

(* inboxClear: the flag goes down even if the file could not be truncated. *)
HandleAck ==
    /\ LineEnds /\ ~Says(lineBuf, "fetch") /\ Says(lineBuf, "ack")
    /\ \/ inbox' = Cleared(inbox) /\ UNCHANGED faults
       \/ inbox' = [inbox EXCEPT !.hasData = FALSE] /\ Fault("fs")
    /\ UNCHANGED <<radioOK, air, accepted, toP4, hub, heard, spoilt, splits>>

(* sendMeshMessage with the text of the line's first send, then the reply to
   "/echo".  A radio that is not there, or fails, costs a notice. *)
HandleSend ==
    /\ LineEnds /\ ~Says(lineBuf, "fetch") /\ ~Says(lineBuf, "ack")
    /\ \E i \in 1..Len(lineBuf) :
          /\ IsSend(lineBuf[i])
          /\ \A j \in 1..(i - 1) : ~IsSend(lineBuf[j])
          /\ LET echo == IF lineBuf[i].text = "echo" THEN 1 ELSE 0
             IN \/ /\ radioOK
                   /\ air' = Append(air, lineBuf[i].n)
                   /\ Deposit(inbox, echo, 0)
                \/ /\ radioOK /\ MayFail("tx", 1)
                   /\ Deposit(inbox, 1 + echo, 1)
                   /\ UNCHANGED air
                \/ /\ ~radioOK
                   /\ Deposit(inbox, 1 + echo, 0)
                   /\ UNCHANGED air
    /\ UNCHANGED <<radioOK, toP4, hub, heard, spoilt, splits>>

(* An empty line, or the end of one that overflowed. *)
HandleNothing ==
    /\ LineEnds /\ lineBuf = <<>>
    /\ UNCHANGED <<inbox, radioOK, air, accepted, toP4, hub, heard, spoilt, faults, splits>>
-----------------------------------------------------------------------------
(* The board's other work in loop() *)

(* A new packet of the mesh for this node (the whole handler: module Mesh). *)
HearPacket ==
    /\ radioOK /\ heard < MaxPackets
    /\ heard' = heard + 1
    /\ Deposit(inbox, 1, 0)
    /\ UNCHANGED <<lineBuf, radioOK, air, toLora, toP4, hub, spoilt, splits>>

(* Every HEARTBEAT_MS, but only while nothing is pending. *)
Heartbeat ==
    /\ ~inbox.hasData /\ Len(toP4) < ChanCap
    /\ toP4' = Append(toP4, Heard("hb", <<>>, 0))
    /\ UNCHANGED <<board, toLora, hub, heard, spoilt, faults, splits>>
-----------------------------------------------------------------------------
(* Faults *)

\* A receive buffer overran: a body or a newline is missing.
LoseWord ==
    /\ Fault("lose")
    /\ \E i \in 1..Len(toLora) : toLora' = RemoveAt(toLora, i)
    /\ UNCHANGED <<board, toP4, hub, heard, spoilt, splits>>

\* A line is missing, or damaged so that it does not parse; one without its
\* newline hides the next.
LoseReply ==
    /\ Fault("lose")
    /\ \E i \in 1..Len(toP4) : toP4' = RemoveAt(toP4, i)
    /\ UNCHANGED <<board, toLora, hub, heard, spoilt, splits>>

\* The dump q with bytes lost from inside item j to inside item k: one item, which
\* is no message of the board (0), stands for those it touched.
Spoil(q, j, k) == SubSeq(q, 1, j - 1) \o <<0>> \o SubSeq(q, k + 1, Len(q))

\* There is no checksum: such a line parses, is logged and acknowledged.
GarbleReply ==
    /\ Fault("garble")
    /\ \E i \in 1..Len(toP4) :
         LET q == toP4[i].items
         IN \E j, k \in 1..Len(q) :
              /\ j <= k
              /\ toP4' = [toP4 EXCEPT ![i] = Heard(@.type, Spoil(q, j, k), @.upto)]
              /\ spoilt' = spoilt \cup {q[l] : l \in j..k}
    /\ UNCHANGED <<board, toLora, hub, heard, splits>>

\* Power returns: what was not yet on the wire is gone, and so is RAM.  The
\* message log is on the SD card.
HubRestart ==
    /\ Fault("restart")
    /\ \E k \in 0..Len(toLora) : toLora' = SubSeq(toLora, 1, k)
    /\ \E k \in 1..(Len(toP4) + 1) : toP4' = SubSeq(toP4, k, Len(toP4))
    /\ rx' = Reading /\ fresh' = FALSE
    /\ pc' = [w \in Writers |-> "idle"]
    /\ UNCHANGED <<board, logged, sent, heard, spoilt, splits>>

\* setup(): the flag from the file's size, the radio anew, one boot message.
Booted(box) == [box EXCEPT !.hasData = (box.file # <<>>)]

\* Nothing of the board runs between the flag and the boot message, which raises it
\* anyway if it can be stored; the power failing there is another restart.
RadioStarts == IF "noradio" \in FaultKinds THEN BOOLEAN ELSE {TRUE}

BoardRestart ==
    /\ MayFail("restart", 1)
    /\ Deposit(Booted(inbox), 1, 1)
    /\ lineBuf' = <<>>
    /\ radioOK' \in RadioStarts
    /\ \E k \in 1..(Len(toLora) + 1) : toLora' = SubSeq(toLora, k, Len(toLora))
    /\ \E k \in 0..Len(toP4) : toP4' = SubSeq(toP4, 1, k)
    /\ UNCHANGED <<air, hub, heard, spoilt, splits>>
-----------------------------------------------------------------------------
\* Both have booted: the board with an empty file, then its boot message.
Init ==
    /\ inbox = [file |-> <<1>>, hasData |-> TRUE]
    /\ lineBuf = <<>> /\ air = <<>> /\ accepted = 1
    /\ radioOK \in RadioStarts
    /\ toLora = <<>> /\ toP4 = <<>>
    /\ rx = Reading /\ fresh = FALSE
    /\ pc = [w \in Writers |-> "idle"]
    /\ logged = {} /\ sent = 0
    /\ heard = 0 /\ spoilt = {} /\ faults = 0 /\ splits = 0

BoardReads == ReadBody \/ HandleFetch \/ HandleAck \/ HandleSend \/ HandleNothing

Next ==
    \/ Poll \/ PortalSend \/ \E w \in Writers : EndLine(w)
    \/ HubReads \/ HubReadsTail \/ HubLogs \/ HubAcks \/ Expire
    \/ BoardReads \/ HearPacket \/ Heartbeat
    \/ LoseWord \/ LoseReply \/ GarbleReply \/ HubRestart \/ BoardRestart

\* The scheduler runs every task that is ready; timers fire; loop() comes round.
Fairness ==
    /\ WF_vars(Poll) /\ \A w \in Writers : WF_vars(EndLine(w))
    /\ WF_vars(HubReads) /\ WF_vars(HubReadsTail)
    /\ WF_vars(HubLogs) /\ WF_vars(HubAcks)
    /\ WF_vars(BoardReads) /\ WF_vars(Heartbeat)

Spec == Init /\ [][Next]_vars

FairSpec == Spec /\ Fairness
-----------------------------------------------------------------------------
(* Properties *)

\* The shape of the state: the rx task has an item in hand exactly while it is
\* logging (the cJSON_ArrayForEach of handle_line), and the wire's bounds hold.
TypeOK ==
    /\ inbox \in [file : Seq(Nat), hasData : BOOLEAN]
    /\ lineBuf \in Seq(Words) /\ toLora \in Seq(Words) /\ toP4 \in Seq(Replies)
    /\ radioOK \in BOOLEAN /\ air \in Seq(Nat)
    /\ rx \in [state : {"read", "log", "ack"}, items : Seq(Nat), upto : Nat]
    /\ (rx.state = "log") <=> (rx.items # <<>>)
    /\ pc \in [Writers -> {"idle", "nl"}]
    /\ fresh \in BOOLEAN /\ logged \subseteq Nat
    /\ accepted \in Nat /\ sent \in Nat
    /\ heard \in Nat /\ spoilt \subseteq Nat /\ faults \in Nat /\ splits \in Nat

Covered(u, s) ==
    u <= accepted /\ \A m \in ToSet(inbox.file) : m <= u => m \in s \cup logged \cup spoilt

AcksIn(line) == {w \in ToSet(line) : w.cmd = "ack"}

\* However lines are lost, merged or repeated and whichever side restarts, an
\* "ack" on its way to the board never covers a message of the file that the
\* hub has not logged, but for those that the wire damaged in a dump that could
\* still be parsed: what inboxClear loses beside them is only what the board accepted
\* after the dump that this very "ack" answers (uart_links.c handle_line).
AckCoversItsDump ==
    \A w \in AcksIn(toLora) \cup AcksIn(lineBuf) : Covered(w.n, {})

\* Its inductive strengthening: so do the dumps still on their way to the hub
\* and the one the rx task has in hand, for the items not logged yet.
DumpsCovered ==
    \A d \in ToSet(toP4) :
        d.type = "msgs" => d.items # <<>> /\ Covered(d.upto, ToSet(d.items))
TaskCovered == rx.state # "read" => Covered(rx.upto, ToSet(rx.items))
LinkInv == TypeOK /\ DumpsCovered /\ TaskCovered /\ AckCoversItsDump

\* The requests that go on the air do so in the order the portal accepted them
\* and none twice, though lines merge, get lost and are cut by restarts
\* (llen = 0 in loop(), the first match of jsonStr in handleP4Line).
SendsInOrder == \A i, j \in 1..Len(air) : i < j => air[i] < air[j]

\* While no file operation fails, the flag in RAM tells whether the flash file
\* has anything in it, so a heartbeat never hides a backlog (inboxHasData).
FlagTracksFile == inbox.hasData <=> inbox.file # <<>>

\* While no dump is damaged so that it still parses, the link implements its
\* abstract specification: first deliveries in order.
InOrder == INSTANCE Mailbox WITH delivered <- logged
FirstDeliveriesInOrder == InOrder!Spec

\* Messages stop coming and faults stop happening: the file is emptied and the
\* flag stays down (fetch, dump, ack; the hub's line holds the whole file).
Drains == <>[](inbox = [file |-> <<>>, hasData |-> FALSE])

\* A board that is powered and talking keeps counting as online: get_nodes sees
\* a line from it again and again.
BadgeOn == []<>fresh

Transmitted(n) == n \in ToSet(air)
Failure == faults > 0 \/ ~radioOK

\* Request n is on a line of which the board obeys something else: its body stands
\* beside a "fetch" or an "ack" with no newline between them, because another task
\* wrote between the two writes of a line, or its text is itself such a word; or
\* its text does not fit the board's buffer.
Overruled(n) ==
    LET line == lineBuf \o toLora
    IN \E i \in 1..Len(line) :
        /\ IsSend(line[i]) /\ line[i].n = n
        /\ \/ line[i].text \in {"ack", "fetch", "long"}
           \/ \E j \in {i - 1, i + 1} \cap 1..Len(line) : line[j].cmd \in {"ack", "fetch"}

\* What the portal accepted ({"ok":true} of api_send_handler) goes on the air.  It is
\* lost only when the wire, a board or the radio failed, or, with nothing failing, when
\* it is overruled (uart_send_line's two writes, strstr in handleP4Line).
SendsTransmitted ==
    \A n \in 1..MaxSends : <>(sent >= n) => <>(Failure \/ Transmitted(n) \/ Overruled(n))

\* What messages-help.html:54-55 says, without that exception; it does not hold.
EverySendHeard == \A n \in 1..MaxSends : <>(sent >= n) => <>(Failure \/ Transmitted(n))

\* With no mesh traffic and a radio that works, every message after the boot
\* message is a reply to "/echo"; it reaches the log.
EchoAnswered ==
    \A m \in 2..(MaxSends + 1) : accepted >= m ~> m \in logged
=============================================================================
