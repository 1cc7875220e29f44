----------------------------- MODULE NodeStatus -----------------------------
(***************************************************************************)
(* Which boards the hub shows as online, and the weather it shows.         *)
(*                                                                         *)
(* The weather station writes status lines.  Its serial port is wired to   *)
(* the media board, whose status_relay_task passes the lines on to the hub *)
(* while hb_task writes heartbeats to the same port (uart_links2.c), or to *)
(* the hub's own status port.  On the hub, one rx_task per port handles    *)
(* the lines and the web server's task answers GET /api/status             *)
(* (uart_links.c, http_portal.c).                                          *)
(*                                                                         *)
(* s_last_seen is neither locked nor atomic, and a 64-bit value is two     *)
(* words on this processor: it is written and read word by word, in any    *)
(* order.  s_env_json and s_env_time are written and read under s_mtx.     *)
(* The hub may be out of memory for parsing a line, for its own copy of    *)
(* the line, and for the page's copy of that.                              *)
(***************************************************************************)
EXTENDS Integers, SequencesExt, FiniteSets

CONSTANTS
    OfflineAfter,  \* NODE_OFFLINE_MS
    Word,          \* values of the lower word, 2^32
    LineMax,       \* characters a line buffer takes, 1099
    Sizes,         \* lengths of the status lines
    MaxLines,      \* bound: status lines of the station
    MaxBeats,      \* bound: heartbeats of the media board
    MaxTime        \* bound: the hub's clock

ASSUME StatusAssumption ==
    /\ {OfflineAfter, Word, LineMax, MaxLines, MaxTime} \subseteq Nat \ {0}
    /\ MaxBeats \in Nat /\ Sizes \subseteq Nat \ {0}

Roles == {"wroom2", "status"}
Words == {"hi", "lo"}

VARIABLES
    now,     \* esp_timer_get_time() / 1000 on the hub
    wired,   \* the hub's port that the station's lines come in by
    lines,   \* [n, size]: how many lines the station wrote, and the length of the last
    relay,   \* status_relay_task: lines to read, and whether it is between two writes
    beats,   \* heartbeats so far
    port,    \* what is on the way to each of the hub's ports
    seen,    \* s_last_seen, in two words
    env,     \* [json, time]: s_env_json (one of Weathers) and s_env_time
    mtx,     \* holder of s_mtx
    rx,      \* the rx tasks: [pc, line, at, words]
    api,     \* a request for /api/status: [pc, at, got, left, online]
    heard,   \* history: when a line was last handled that counts for the role
    handled  \* history: when each status line was handled, or NoMemory

vars == <<now, wired, lines, relay, beats, port, seen, env, mtx, rx, api, heard, handled>>

None == 0          \* no status line; the lines are 1, 2, ...
Freed == -1        \* memory that was freed
Never == -1        \* in s_last_seen and s_env_time
NoMemory == -2     \* of a line for which cJSON_Parse had no memory

\* A copy of a line's text is the line's number.  NULL is None before any line was
\* copied, and Lacks(n) where there was no memory for a copy of line n.
Lacks(n) == Freed - n
Weathers == Lacks(MaxLines)..MaxLines

Split(t) == [w \in Words |-> IF w = "hi" THEN t \div Word ELSE t % Word]
Joined(words) == words["hi"] * Word + words["lo"]

Idle == [pc |-> "idle", line |-> None, at |-> Never, words |-> {}]
NoRequest == [pc |-> "idle", at |-> Never, got |-> Split(Never), left |-> {}, online |-> {}]

Newline == [what |-> "newline", n |-> None, size |-> 0]
Beat == [what |-> "hb", n |-> None, size |-> 1]
-----------------------------------------------------------------------------
(* The boards *)

\* A line of the station.  What is longer than the media board's buffer loses
\* all but its end there, and the hub's buffer does the same.
WriteStatus(size) ==
    /\ lines.n < MaxLines
    /\ lines' = [n |-> lines.n + 1, size |-> size]
    /\ LET text == [what |-> "status", n |-> lines'.n, size |-> size] IN
       IF wired = "wroom2"
       THEN relay' = [relay EXCEPT !.todo = Append(@, text)] /\ UNCHANGED port
       ELSE port' = [port EXCEPT !.status = @ \o <<text, Newline>>] /\ UNCHANGED relay
    /\ UNCHANGED <<now, wired, beats, seen, env, mtx, rx, api, heard, handled>>

\* Every time the buffer is full, it and the next character are dropped.
Left(size) == IF size <= LineMax THEN size ELSE size % (LineMax + 1)
Kept(text) ==
    IF text.size <= LineMax THEN text
    ELSE [what |-> "tail", n |-> None, size |-> Left(text.size)]

\* status_relay_task: the line, then its end, in two calls of uart_write_bytes, and
\* neither when nothing of the line is left.
RelayLine ==
    /\ relay.todo # <<>> /\ ~relay.between
    /\ LET kept == Kept(Head(relay.todo)) IN
       IF kept.size = 0 THEN relay' = [relay EXCEPT !.todo = Tail(@)] /\ UNCHANGED port
       ELSE /\ port' = [port EXCEPT !.wroom2 = Append(@, kept)]
            /\ relay' = [todo |-> Tail(relay.todo), between |-> TRUE]
    /\ UNCHANGED <<now, wired, lines, beats, seen, env, mtx, rx, api, heard, handled>>

RelayEnd ==
    /\ relay.between
    /\ port' = [port EXCEPT !.wroom2 = Append(@, Newline)]
    /\ relay' = [relay EXCEPT !.between = FALSE]
    /\ UNCHANGED <<now, wired, lines, beats, seen, env, mtx, rx, api, heard, handled>>

\* hb_task: a heartbeat and its end in one call, also between those two.
Heartbeat ==
    /\ beats < MaxBeats
    /\ beats' = beats + 1
    /\ port' = [port EXCEPT !.wroom2 = @ \o <<Beat, Newline>>]
    /\ UNCHANGED <<now, wired, lines, relay, seen, env, mtx, rx, api, heard, handled>>
-----------------------------------------------------------------------------
(* rx_task and handle_line *)

Become(r, pc) == rx' = [rx EXCEPT ![r].pc = pc]
At(r, pc) == rx[r].pc = pc
Rest == UNCHANGED <<now, wired, lines, relay, beats>>

\* Mutant of Meanings: cJSON_Parse refuses what follows the first object.
MeaningsStrict(text) ==
    IF Len(text) > 1 THEN {"junk"}
    ELSE IF text[1].size > LineMax \/ text[1].what = "tail" THEN {"junk", "json"} ELSE {text[1].what}

\* What a line means: its first object, whatever follows it.  The end of one that
\* does not fit is no JSON, or a JSON value of another kind; nothing may be left of it.
Meanings(text) ==
    LET size == FoldSeq(LAMBDA t, sum : t.size + sum, 0, text) IN
    IF Left(size) = 0 THEN {"junk"}
    ELSE IF size > LineMax \/ text[1].what = "tail" THEN {"junk", "json"} ELSE {text[1].what}

\* A whole line is there; an empty one is passed over.  The time is taken before
\* the line is parsed.  No JSON and no memory look the same to the code.
ReadLine(r) ==
    /\ At(r, "idle") /\ \E i \in DOMAIN port[r] : port[r][i] = Newline
    /\ LET end == SelectInSeq(port[r], LAMBDA t : t = Newline)
           text == SubSeq(port[r], 1, end - 1)
       IN  /\ port' = [port EXCEPT ![r] = SubSeq(@, end + 1, Len(@))]
           /\ IF text = <<>> THEN UNCHANGED <<rx, heard, handled>>
              ELSE \E meaning \in Meanings(text) \cup {"unparsed"} :
                   LET env1 == meaning = "status"
                       null == meaning \in {"junk", "unparsed"}
                       counts == (IF null THEN {} ELSE {r})
                                    \cup (IF env1 THEN {"status"} ELSE {})
                   IN  /\ rx' = [rx EXCEPT ![r] =
                               IF null THEN Idle
                               ELSE [pc |-> "seen", line |-> IF env1 THEN text[1].n ELSE None,
                                     at |-> now, words |-> Words]]
                       /\ heard' = [q \in Roles |-> IF q \in counts THEN now ELSE heard[q]]
                       /\ handled' = IF env1 THEN [handled EXCEPT ![text[1].n] = now]
                                     ELSE IF meaning = "unparsed" /\ text[1].what = "status"
                                     THEN [handled EXCEPT ![text[1].n] = NoMemory] ELSE handled
    /\ UNCHANGED <<seen, env, mtx, api>> /\ Rest

\* s_last_seen[q] = now, one word of it.
Store(r, q, w, next) ==
    /\ w \in rx[r].words
    /\ seen' = [seen EXCEPT ![q][w] = Split(rx[r].at)[w]]
    /\ rx' = [rx EXCEPT ![r].words = @ \ {w},
                        ![r].pc = IF rx[r].words = {w} THEN next ELSE @]
    /\ UNCHANGED <<port, env, mtx, api, heard, handled>> /\ Rest

\* Mutant of NotedFirst: the station is noted first, before its line is stored.
NotedFirstStation(r) == IF rx[r].line = None THEN r ELSE "status"
\* The board on the other end of the port is noted before the line is looked into.
NotedFirst(r) == r

StoreSeen(r, w) ==
    At(r, "seen") /\ Store(r, NotedFirst(r), w, IF rx[r].line = None THEN "idle" ELSE "lock")

\* Mutant of CanLock: the mutex is not taken.
CanLockAlways == TRUE
CanLock == mtx = "free"

LockEnv(r) ==
    /\ At(r, "lock") /\ CanLock
    /\ mtx' = r /\ Become(r, "free")
    /\ UNCHANGED <<port, seen, env, api, heard, handled>> /\ Rest

FreeJson(r) ==
    /\ At(r, "free")
    /\ env' = [env EXCEPT !.json = IF @ \in 1..MaxLines THEN Freed ELSE @]
    /\ Become(r, "copy")
    /\ UNCHANGED <<port, seen, mtx, api, heard, handled>> /\ Rest

\* strdup, which may have no memory.
CopyJson(r) ==
    /\ At(r, "copy")
    /\ \E json \in {rx[r].line, Lacks(rx[r].line)} : env' = [env EXCEPT !.json = json]
    /\ Become(r, "time")
    /\ UNCHANGED <<port, seen, mtx, api, heard, handled>> /\ Rest

StoreTime(r) ==
    /\ At(r, "time")
    /\ env' = [env EXCEPT !.time = rx[r].at]
    /\ mtx' = "free"
    /\ rx' = [rx EXCEPT ![r].pc = "also", ![r].words = Words]
    /\ UNCHANGED <<port, seen, api, heard, handled>> /\ Rest

\* A status line also counts for the station.
StoreStatus(r, w) == At(r, "also") /\ Store(r, "status", w, "idle")
-----------------------------------------------------------------------------
(* api_status_handler: uart_links_get_nodes, then uart_links_get_env *)

Ask ==
    /\ api.pc = "idle"
    /\ api' = [NoRequest EXCEPT !.pc = "wroom2", !.at = now, !.left = Words]
    /\ UNCHANGED <<port, seen, env, mtx, rx, heard, handled>> /\ Rest

\* Mutant of Online: no test for a board that was never heard.
OnlineAlways(t) == api.at - t < OfflineAfter
Online(t) == t >= 0 /\ api.at - t < OfflineAfter

\* A word of s_last_seen; with both, the board is online or not.
ReadSeen(r, w) ==
    /\ api.pc = r /\ w \in api.left
    /\ LET got == [api.got EXCEPT ![w] = seen[r][w]] IN
       api' = IF api.left # {w} THEN [api EXCEPT !.got = got, !.left = @ \ {w}]
              ELSE [api EXCEPT !.got = Split(Never), !.left = Words,
                               !.online = IF Online(Joined(got)) THEN @ \cup {r} ELSE @,
                               !.pc = IF r = "wroom2" THEN "status" ELSE "env"]
    /\ UNCHANGED <<port, seen, env, mtx, rx, heard, handled>> /\ Rest

\* The whole of it with s_mtx taken.  The page shows api.online and the weather: a
\* copy of s_env_json, when there is memory for it.
ReadEnv(weather) ==
    /\ api.pc = "env" /\ CanLock
    /\ \/ weather = env.json
       \/ env.json \in 1..MaxLines /\ weather = Lacks(env.json)
    /\ api' = NoRequest
    /\ UNCHANGED <<port, seen, env, mtx, rx, heard, handled>> /\ Rest

\* Handling a line takes no time on the scale of NODE_OFFLINE_MS.
Tick ==
    /\ now < MaxTime /\ \A r \in Roles : At(r, "idle")
    /\ now' = now + 1
    /\ UNCHANGED <<wired, lines, relay, beats, port, seen, env, mtx, rx, api, heard, handled>>
-----------------------------------------------------------------------------
Init ==
    /\ now = 0 /\ wired \in Roles /\ lines = [n |-> 0, size |-> 0] /\ beats = 0
    /\ relay = [todo |-> <<>>, between |-> FALSE]
    /\ port = [r \in Roles |-> <<>>]
    /\ seen = [r \in Roles |-> Split(Never)]
    /\ env = [json |-> None, time |-> Never] /\ mtx = "free"
    /\ rx = [r \in Roles |-> Idle] /\ api = NoRequest
    /\ heard = [r \in Roles |-> Never] /\ handled = [n \in 1..MaxLines |-> Never]

Relay == RelayLine \/ RelayEnd
Handle(r) ==
    \/ ReadLine(r) \/ LockEnv(r) \/ FreeJson(r) \/ CopyJson(r) \/ StoreTime(r)
    \/ \E w \in Words : StoreSeen(r, w) \/ StoreStatus(r, w)
Answer ==
    \/ Ask \/ \E weather \in Weathers : ReadEnv(weather)
    \/ \E r \in Roles, w \in Words : ReadSeen(r, w)

Next ==
    \/ \E size \in Sizes : WriteStatus(size)
    \/ Relay \/ Heartbeat \/ Tick \/ Answer
    \/ \E r \in Roles : Handle(r)

\* The media board's relay and the hub's rx tasks run when they can.
Fairness == WF_vars(Relay) /\ \A r \in Roles : WF_vars(Handle(r))

Spec == Init /\ [][Next]_vars /\ Fairness
-----------------------------------------------------------------------------
\* The page never shows a board as online that has not been heard for
\* NODE_OFFLINE_MS, or never, although the time it was last heard is read without
\* a lock, a word at a time, while it is written.
OnlineOnlyIfHeard ==
    [][\A weather \in Weathers : ReadEnv(weather) =>
          \A r \in api.online : heard[r] # Never /\ api.at - heard[r] < OfflineAfter]_vars

\* The page's weather is one line's text with the time that line was handled: not
\* memory that was freed, not a line with the time of another.  A page without
\* weather has it missing for a line with that time, or no line was stored yet.
WeatherOfOneLine ==
    [][\A weather \in Weathers : ReadEnv(weather) /\ weather # None =>
          \E n \in 1..MaxLines : weather \in {n, Lacks(n)} /\ env.time = handled[n]]_vars

\* When the station's lines come through the media board, a page that shows the
\* station online has its weather too, unless the hub or the page had no memory for
\* a copy of it (Lacks): a line is stored before the station counts as heard, and
\* the weather is read after the badges.
WeatherWithBadge ==
    [][\A weather \in Weathers :
          ReadEnv(weather) /\ wired = "wroom2" /\ "status" \in api.online => weather # None]_vars

\* A status line that leaves room for the heartbeats is not lost, also when one
\* is written between its text and its end: it gets to the page, or a later one,
\* unless the hub had no memory for parsing or copying it.
StatusArrives ==
    \A n \in 1..MaxLines :
        lines.n = n /\ lines.size + MaxBeats <= LineMax
            ~> env.json \in {n, Lacks(n)} \/ lines.n > n \/ handled[n] = NoMemory
=============================================================================
